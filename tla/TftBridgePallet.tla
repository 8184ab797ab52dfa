-------------------------- MODULE TftBridgePallet --------------------------
(***************************************************************************)
(* The runtime pallet pallet-tft-bridge/src/lib.rs: its storage, one action *)
(* per extrinsic and one for the end of a block (the on_finalize hook).     *)
(*                                                                         *)
(* A dispatchable that returns an error changes nothing (FRAME rolls its    *)
(* storage layer back), so an action is enabled exactly when the call would *)
(* return Ok and the failing call is a stuttering step.  The modules that   *)
(* compose this one with the daemons name the failing case as the negation  *)
(* of the action's guard.                                                   *)
(*                                                                         *)
(* A storage map is a total function into records or None: None is a key    *)
(* the map does not hold.                                                   *)
(*                                                                         *)
(* An operator X_Y is X with a bug put in, named by Y: the runs check that   *)
(* with it in the place of X the property it is aimed at fails.              *)
(***************************************************************************)
EXTENDS Integers, Sequences, FiniteSets, FiniteSetsExt

CONSTANTS
    None,               \* a key that is not in a map, an unset FeeAccount
    Account,            \* accounts of tfchain: validators, users, fee wallet
    Candidate,          \* the accounts root adds or removes as validators
    FeeCandidate,       \* the accounts root may make the fee account
    Fee,                \* the fees root may set
    Amount,             \* the amounts the callers pass
    StellarAddress,     \* byte strings passed as a Stellar address
    PublicKey,          \* those of them PublicKey::from_encoding accepts
    MintId,             \* ids of mint transactions
    RefundHash,         \* Stellar hashes of the deposits to refund
    StellarKey,         \* public keys of the signers of the bridge wallet
    Sig,                \* signatures (their bytes)
    SeqNo,              \* sequence numbers of the bridge wallet
    Genesis,            \* the pallet's GenesisConfig
    GenesisBalance,     \* the balances at genesis
    Frozen,             \* the part of an account's balance under a lock
    ExistentialDeposit,
    RetryInterval,
    MaxBurnId,          \* bound: the number of swaps to Stellar
    MaxBlock            \* bound: the number of blocks

BurnId == 1..MaxBurnId

StellarSignature == [stellar_pub_key : StellarKey, signature : Sig]

MintTransaction == [amount : Nat, target : Account, block : Nat, votes : Nat]

BurnTransaction == [block : Nat, amount : Nat, target : StellarAddress,
                    signatures : Seq(StellarSignature), sequence_number : Nat]

\* The key of the map stands for the field tx_hash.
RefundTransaction == BurnTransaction

ASSUME PalletAssumption ==
    /\ IsFiniteSet(Account)
    /\ None \notin Account \cup MintTransaction \cup BurnTransaction
    /\ Candidate \subseteq Account /\ FeeCandidate \subseteq Account
    /\ Fee \subseteq Nat /\ Amount \subseteq Nat /\ SeqNo \subseteq Nat
    /\ PublicKey \subseteq StellarAddress
    /\ Genesis \in [validator_accounts : SUBSET Account,
                    fee_account : Account \cup {None},
                    withdraw_fee : Nat, deposit_fee : Nat]
    /\ GenesisBalance \in [Account -> Nat] /\ Frozen \in [Account -> Nat]
    /\ ExistentialDeposit \in Nat
    /\ RetryInterval \in Nat \ {0}
    /\ MaxBurnId \in Nat /\ MaxBlock \in Nat

VARIABLES
    validators,                     \* Validators
    fee_account,                    \* FeeAccount
    withdraw_fee,                   \* WithdrawFee
    deposit_fee,                    \* DepositFee
    balances,                       \* free balances, kept by pallet_balances
    mint_transactions,              \* MintTransactions
    executed_mint_transactions,     \* ExecutedMintTransactions
    burn_transactions,              \* BurnTransactions
    executed_burn_transactions,     \* ExecutedBurnTransactions
    burn_transaction_id,            \* BurnTransactionID
    refund_transactions,            \* RefundTransactions
    executed_refund_transactions,   \* ExecutedRefundTransactions
    block,                          \* frame_system's block number
    events                          \* the events deposited in this block

(* History variables: no guard reads them. *)
VARIABLES
    voters,         \* per mint, the accounts whose vote was counted
    burn_ready,     \* burns announced Ready since their last reset
    refund_ready    \* refunds announced Ready since their last reset

adminVars == <<validators, fee_account, withdraw_fee, deposit_fee>>
mintVars == <<mint_transactions, executed_mint_transactions, voters>>
burnVars == <<burn_transactions, executed_burn_transactions,
              burn_transaction_id, burn_ready>>
refundVars == <<refund_transactions, executed_refund_transactions,
                refund_ready>>

palletVars == <<adminVars, mintVars, burnVars, refundVars,
                balances, block, events>>

(* The events the daemons read; the others have no reader in the repository. *)
Created_NextId(id, source, target, amount) ==
    [type |-> "BurnTransactionCreated", id |-> id + 1, source |-> source,
     target |-> target, amount |-> amount]
Created(id, source, target, amount) ==
    [type |-> "BurnTransactionCreated", id |-> id, source |-> source,
     target |-> target, amount |-> amount]
BurnReady(id) == [type |-> "BurnTransactionReady", id |-> id]
BurnExpired(id, tx) ==
    [type |-> "BurnTransactionExpired", id |-> id,
     target |-> tx.target, amount |-> tx.amount]
RefundReady(hash) == [type |-> "RefundTransactionReady", hash |-> hash]
RefundExpired(hash, tx) ==
    [type |-> "RefundTransactionExpired", hash |-> hash,
     target |-> tx.target, amount |-> tx.amount]

Event ==
    [type : {"BurnTransactionCreated"}, id : BurnId, source : Account,
     target : StellarAddress, amount : Nat]
    \cup [type : {"BurnTransactionReady"}, id : BurnId]
    \cup [type : {"RefundTransactionReady"}, hash : RefundHash]

Init ==
    /\ validators = Genesis.validator_accounts
    /\ fee_account = Genesis.fee_account
    /\ withdraw_fee = Genesis.withdraw_fee
    /\ deposit_fee = Genesis.deposit_fee
    /\ balances = GenesisBalance
    /\ mint_transactions = [m \in MintId |-> None]
    /\ executed_mint_transactions = [m \in MintId |-> None]
    /\ burn_transactions = [b \in BurnId |-> None]
    /\ executed_burn_transactions = [b \in BurnId |-> None]
    /\ burn_transaction_id = 0
    /\ refund_transactions = [r \in RefundHash |-> None]
    /\ executed_refund_transactions = [r \in RefundHash |-> None]
    /\ block = 1
    /\ events = <<>>
    /\ voters = [m \in MintId |-> {}]
    /\ burn_ready = {}
    /\ refund_ready = {}

-----------------------------------------------------------------------------
(* Administration by root. *)

AddBridgeValidator(target) ==
    /\ target \notin validators
    /\ validators' = validators \cup {target}
    /\ UNCHANGED <<fee_account, withdraw_fee, deposit_fee, mintVars, burnVars,
                   refundVars, balances, block, events>>

RemoveBridgeValidator(target) ==
    /\ target \in validators
    /\ validators' = validators \ {target}
    /\ UNCHANGED <<fee_account, withdraw_fee, deposit_fee, mintVars, burnVars,
                   refundVars, balances, block, events>>

SetFeeAccount(target) ==
    /\ fee_account' = target
    /\ UNCHANGED <<validators, withdraw_fee, deposit_fee, mintVars, burnVars,
                   refundVars, balances, block, events>>

SetWithdrawFee(amount) ==
    /\ withdraw_fee' = amount
    /\ UNCHANGED <<validators, fee_account, deposit_fee, mintVars, burnVars,
                   refundVars, balances, block, events>>

SetDepositFee(amount) ==
    /\ deposit_fee' = amount
    /\ UNCHANGED <<validators, fee_account, withdraw_fee, mintVars, burnVars,
                   refundVars, balances, block, events>>

\* The number of votes, or of signatures, that decides.
Majority == (Cardinality(validators) \div 2) + 1

\* StorageMap::remove
Without_Forgets(map, key) == map
Without(map, key) == [map EXCEPT ![key] = None]

-----------------------------------------------------------------------------
(* pallet_balances, as lib.rs uses it (external). *)

\* deposit_creating: nothing is credited to an account that does not exist
\* when the value would not keep it alive.
DepositCreating(bal, who, value) ==
    IF bal[who] = 0 /\ value < ExistentialDeposit
    THEN bal
    ELSE [bal EXCEPT ![who] = @ + value]

DepositFeeTo(bal, fee) ==
    IF fee_account = None THEN bal ELSE DepositCreating(bal, fee_account, fee)

CanWithdraw_Unchecked(who, value) == TRUE
\* usable_balance and withdraw(..., KeepAlive).
CanWithdraw(who, value) ==
    /\ value + Frozen[who] <= balances[who]
    /\ balances[who] < ExistentialDeposit
          \/ balances[who] - value >= ExistentialDeposit

-----------------------------------------------------------------------------
(* Stellar -> tfchain. *)

\* What the target gets: the fee comes out of the amount.
MintedAmount_Gross(tx) == tx.amount
MintedAmount(tx) == tx.amount - deposit_fee

\* mint_tft: refused, and the vote with it, when the fee eats the amount.
MintTft(tx_id, tx) ==
    /\ tx.amount > deposit_fee
    /\ balances' =
         DepositFeeTo(DepositCreating(balances, tx.target,
                                      MintedAmount(tx)), deposit_fee)
    /\ mint_transactions' = Without(mint_transactions, tx_id)
    /\ executed_mint_transactions' =
         [executed_mint_transactions EXCEPT ![tx_id] = [tx EXCEPT !.block = block]]

Decided_OneLess(tx) == tx.votes >= Majority - 1
Decided_OneMore(tx) == tx.votes > Majority
Decided(tx) == tx.votes >= Majority

\* vote_stellar_mint_transaction on the transaction found, or just proposed.
VoteMint(tx_id, found) ==
    LET tx == [found EXCEPT !.votes = @ + 1] IN
    \/ /\ ~Decided(tx)
       /\ mint_transactions' = [mint_transactions EXCEPT ![tx_id] = tx]
       /\ UNCHANGED <<executed_mint_transactions, balances>>
    \/ /\ Decided(tx)
       /\ MintTft(tx_id, tx)

MintOpen_Always(tx_id) == TRUE
MintOpen(tx_id) == executed_mint_transactions[tx_id] = None

\* A vote for a known transaction ignores the target and the amount passed.
ProposeOrVoteMint(validator, tx_id, target, amount) ==
    /\ validator \in validators
    /\ MintOpen(tx_id)
    /\ VoteMint(tx_id,
                IF mint_transactions[tx_id] # None
                THEN mint_transactions[tx_id]
                ELSE [amount |-> amount, target |-> target,
                      block |-> block, votes |-> 0])
    /\ voters' = [voters EXCEPT ![tx_id] = @ \cup {validator}]
    /\ UNCHANGED <<adminVars, burnVars, refundVars, block, events>>

-----------------------------------------------------------------------------
(* tfchain -> Stellar. *)

NextBurnId_Skips == burn_transaction_id + 2
NextBurnId == burn_transaction_id + 1

\* What is paid on Stellar: the fee comes out of the amount.
BurnedAmount_Gross(amount) == amount
BurnedAmount(amount) == amount - withdraw_fee

\* burn_tft, called by swap_to_stellar.
SwapToStellar(source, target, amount) ==
    LET id == NextBurnId IN
    /\ id \in BurnId
    /\ target \in PublicKey
    /\ amount > withdraw_fee
    /\ CanWithdraw(source, amount)
    /\ balances' =
         DepositFeeTo([balances EXCEPT ![source] = @ - amount], withdraw_fee)
    /\ burn_transaction_id' = id
    /\ burn_transactions' =
         [burn_transactions EXCEPT ![id] =
            [block |-> block, amount |-> BurnedAmount(amount),
             target |-> target, signatures |-> <<>>, sequence_number |-> 0]]
    /\ events' =
         Append(events, Created(id, source, target, BurnedAmount(amount)))
    /\ UNCHANGED <<adminVars, mintVars, refundVars,
                   executed_burn_transactions, burn_ready, block>>

\* Exactly a majority: the code compares the length with ==.
EnoughSignatures_OneMore(tx) == Len(tx.signatures) = Majority + 1
EnoughSignatures(tx) == Len(tx.signatures) = Majority

AcceptsSignature_AnyKey(tx, signature, key) ==
    /\ ~EnoughSignatures(tx)
    /\ \A i \in DOMAIN tx.signatures : tx.signatures[i].signature # signature
AcceptsSignature(tx, signature, key) ==
    /\ ~EnoughSignatures(tx)
    /\ \A i \in DOMAIN tx.signatures :
         /\ tx.signatures[i].stellar_pub_key # key
         /\ tx.signatures[i].signature # signature

WithSignature(tx, signature, key, seqno) ==
    [tx EXCEPT !.sequence_number = seqno,
               !.signatures = Append(@, [stellar_pub_key |-> key,
                                         signature |-> signature])]

IsReady_Strictly(tx) == Len(tx.signatures) > Majority
IsReady(tx) == Len(tx.signatures) >= Majority

\* The Ready event of a transaction just signed, if a majority signed it.
Announce(tx, event) == IF IsReady(tx) THEN Append(events, event) ELSE events

\* What follows the return at line 683 is never reached: the key is there.
ProposeBurnOrAddSig(validator, id, target, amount, signature, key, seqno) ==
    LET found == burn_transactions[id]
        tx == WithSignature(found, signature, key, seqno)
    IN
    /\ validator \in validators
    /\ executed_burn_transactions[id] = None
    /\ found # None
    /\ found.amount = amount
    /\ found.target = target
    /\ AcceptsSignature(found, signature, key)
    /\ burn_transactions' = [burn_transactions EXCEPT ![id] = tx]
    /\ events' = Announce(tx, BurnReady(id))
    /\ burn_ready' = burn_ready \cup (IF IsReady(tx) THEN {id} ELSE {})
    /\ UNCHANGED <<adminVars, mintVars, refundVars, balances, block,
                   executed_burn_transactions, burn_transaction_id>>

SetBurnExecuted(validator, id) ==
    /\ validator \in validators
    /\ executed_burn_transactions[id] = None
    /\ burn_transactions[id] # None
    /\ burn_transactions' = Without(burn_transactions, id)
    /\ executed_burn_transactions' =
         [executed_burn_transactions EXCEPT ![id] = burn_transactions[id]]
    /\ burn_ready' = burn_ready \ {id}
    /\ UNCHANGED <<adminVars, mintVars, refundVars, balances, block, events,
                   burn_transaction_id>>

-----------------------------------------------------------------------------
(* Refunds on Stellar of deposits that cannot be minted. *)

\* Unlike a burn, an executed refund is not looked up, and the arguments for
\* a refund that exists are not compared with it.
CreateRefundOrAddSig(validator, hash, target, amount, signature, key, seqno) ==
    LET found == IF refund_transactions[hash] # None
                 THEN refund_transactions[hash]
                 ELSE [block |-> block, amount |-> amount, target |-> target,
                       signatures |-> <<>>, sequence_number |-> seqno]
        tx == WithSignature(found, signature, key, seqno)
    IN
    /\ validator \in validators
    /\ AcceptsSignature(found, signature, key)
    /\ refund_transactions' = [refund_transactions EXCEPT ![hash] = tx]
    /\ events' = Announce(tx, RefundReady(hash))
    /\ refund_ready' = refund_ready \cup (IF IsReady(tx) THEN {hash} ELSE {})
    /\ UNCHANGED <<adminVars, mintVars, burnVars, balances, block,
                   executed_refund_transactions>>

RefundOpen_Always(hash) == TRUE
RefundOpen(hash) == executed_refund_transactions[hash] = None

SetRefundExecuted(validator, hash) ==
    /\ validator \in validators
    /\ RefundOpen(hash)
    /\ refund_transactions[hash] # None
    /\ refund_transactions' = Without(refund_transactions, hash)
    /\ executed_refund_transactions' =
         [executed_refund_transactions EXCEPT ![hash] = refund_transactions[hash]]
    /\ refund_ready' = refund_ready \ {hash}
    /\ UNCHANGED <<adminVars, mintVars, burnVars, balances, block, events>>

-----------------------------------------------------------------------------
(* The end of a block. *)

Expires_Late(tx) == tx # None /\ block - tx.block > RetryInterval
Expires(tx) == tx # None /\ block - tx.block >= RetryInterval

ExpiredBurns == {id \in BurnId : Expires(burn_transactions[id])}
ExpiredRefunds == {hash \in RefundHash : Expires(refund_transactions[hash])}

Reset_Everything(tx) == [tx EXCEPT !.signatures = <<>>, !.block = block,
                                   !.amount = 0, !.sequence_number = 0]
Reset(tx) == [tx EXCEPT !.signatures = <<>>, !.sequence_number = 0,
                        !.block = block]

\* on_finalize, and the next block with no event yet.  The Expired events of
\* this block are BurnExpired and RefundExpired of the sets above.
FinalizeBlock ==
    /\ block < MaxBlock
    /\ burn_transactions' =
         [id \in BurnId |-> IF id \in ExpiredBurns
                            THEN Reset(burn_transactions[id])
                            ELSE burn_transactions[id]]
    /\ refund_transactions' =
         [hash \in RefundHash |-> IF hash \in ExpiredRefunds
                                  THEN Reset(refund_transactions[hash])
                                  ELSE refund_transactions[hash]]
    /\ burn_ready' = burn_ready \ ExpiredBurns
    /\ refund_ready' = refund_ready \ ExpiredRefunds
    /\ block' = block + 1
    /\ events' = <<>>
    /\ UNCHANGED <<adminVars, mintVars, balances, executed_burn_transactions,
                   burn_transaction_id, executed_refund_transactions>>

-----------------------------------------------------------------------------
Next ==
    \/ \E target \in Candidate :
         AddBridgeValidator(target) \/ RemoveBridgeValidator(target)
    \/ \E target \in FeeCandidate : SetFeeAccount(target)
    \/ \E fee \in Fee : SetWithdrawFee(fee) \/ SetDepositFee(fee)
    \/ \E validator, target \in Account, m \in MintId, amount \in Amount :
         ProposeOrVoteMint(validator, m, target, amount)
    \/ \E source \in Account, target \in StellarAddress, amount \in Amount :
         SwapToStellar(source, target, amount)
    \/ \E validator \in Account, id \in BurnId, target \in StellarAddress,
         amount \in Amount, signature \in Sig, key \in StellarKey,
         seqno \in SeqNo :
         ProposeBurnOrAddSig(validator, id, target, amount, signature, key,
                             seqno)
    \/ \E validator \in Account, id \in BurnId : SetBurnExecuted(validator, id)
    \/ \E validator \in Account, hash \in RefundHash,
         target \in StellarAddress, amount \in Amount, signature \in Sig,
         key \in StellarKey, seqno \in SeqNo :
         CreateRefundOrAddSig(validator, hash, target, amount, signature, key,
                              seqno)
    \/ \E validator \in Account, hash \in RefundHash :
         SetRefundExecuted(validator, hash)
    \/ FinalizeBlock

Spec == Init /\ [][Next]_palletVars

-----------------------------------------------------------------------------
(* Properties. *)

\* Every storage item holds values of its declared type.
TypeOK ==
    /\ validators \subseteq Account
    /\ fee_account \in Account \cup {None}
    /\ withdraw_fee \in Nat /\ deposit_fee \in Nat
    /\ balances \in [Account -> Nat]
    /\ mint_transactions \in [MintId -> MintTransaction \cup {None}]
    /\ executed_mint_transactions \in [MintId -> MintTransaction \cup {None}]
    /\ burn_transactions \in [BurnId -> BurnTransaction \cup {None}]
    /\ executed_burn_transactions \in [BurnId -> BurnTransaction \cup {None}]
    /\ burn_transaction_id \in 0..MaxBurnId
    /\ refund_transactions \in [RefundHash -> RefundTransaction \cup {None}]
    /\ executed_refund_transactions
         \in [RefundHash -> RefundTransaction \cup {None}]
    /\ block \in Nat
    /\ events \in Seq(Event)
    /\ voters \in [MintId -> SUBSET Account]
    /\ burn_ready \subseteq BurnId
    /\ refund_ready \subseteq RefundHash

\* A mint or a burn is in one of its two maps at most: moving it to the
\* executed map always takes it out of the other, and no later call of a
\* slower validator brings it back.
NeverPendingAndExecuted ==
    /\ \A m \in MintId : \/ mint_transactions[m] = None
                         \/ executed_mint_transactions[m] = None
    /\ \A id \in BurnId : \/ burn_transactions[id] = None
                          \/ executed_burn_transactions[id] = None

\* No burn is ever lost or invented: the ids handed out are exactly those of
\* the burns that are pending or executed, whatever expired or was retried.
BurnIdsAccounted ==
    \A id \in BurnId :
      id <= burn_transaction_id
        <=> (burn_transactions[id] # None \/ executed_burn_transactions[id] # None)

DistinctSigners(tx) ==
    tx # None =>
      \A i, j \in DOMAIN tx.signatures :
        i # j => /\ tx.signatures[i].stellar_pub_key
                      # tx.signatures[j].stellar_pub_key
                 /\ tx.signatures[i].signature # tx.signatures[j].signature

\* The signatures handed to Stellar, and those kept after the execution, are
\* of pairwise distinct signers: one signer never counts twice to a majority.
SignersDistinct ==
    /\ \A id \in BurnId : /\ DistinctSigners(burn_transactions[id])
                          /\ DistinctSigners(executed_burn_transactions[id])
    /\ \A h \in RefundHash : /\ DistinctSigners(refund_transactions[h])
                             /\ DistinctSigners(executed_refund_transactions[h])

InWindow(tx) == tx # None => 0 <= block - tx.block /\ block - tx.block <= RetryInterval

\* The u64 subtraction of on_finalize never underflows, and no pending burn or
\* refund gets older than the retry interval without being announced again.
RetryWindow ==
    /\ \A id \in BurnId : InWindow(burn_transactions[id])
    /\ \A h \in RefundHash : InWindow(refund_transactions[h])

AnnouncedIffMajority(tx, announced) ==
    tx # None => (announced <=> IsReady(tx)) /\ Len(tx.signatures) <= Majority

\* A pending burn or refund that a majority has signed since its last reset
\* has been announced Ready, and no other; it never holds more signatures than
\* the wallet asks for.  lib.rs:44: "Transaction is ready when (number of
\* validators / 2) + 1 signatures are present".
MajorityIsReady ==
    /\ \A id \in BurnId :
         AnnouncedIffMajority(burn_transactions[id], id \in burn_ready)
    /\ \A h \in RefundHash :
         AnnouncedIffMajority(refund_transactions[h], h \in refund_ready)

\* With the validators fixed, votes counts up to the majority and stops there:
\* a deciding vote that mint_tft refuses leaves no trace, so a pending mint is
\* undecided and an executed one was decided by its last vote.
VotesDecide ==
    \A m \in MintId :
      /\ mint_transactions[m] # None
           => mint_transactions[m].votes \in 1..(Majority - 1)
      /\ executed_mint_transactions[m] # None
           => executed_mint_transactions[m].votes = Majority

\* specs/bridge.md:57 "If more then *(number of validators / 2) + 1* voted that
\* this mint transaction is valid": the validators whose votes decide a mint
\* are a majority of them, not one that votes again.
MintedByMajority ==
    [][\A m \in MintId :
         executed_mint_transactions[m] = None /\ executed_mint_transactions'[m] # None
           => Cardinality(voters'[m]) >= Majority]_palletVars

\* lib.rs:548 "make sure we don't duplicate the transaction": a refund that was
\* executed is not collected signatures for again.
RefundNotDuplicated ==
    \A h \in RefundHash : \/ refund_transactions[h] = None
                          \/ executed_refund_transactions[h] = None

\* What was executed stays executed, unchanged, for ever.
KeepsExecuted ==
    /\ \A m \in MintId :
         executed_mint_transactions[m] # None
           => executed_mint_transactions'[m] = executed_mint_transactions[m]
    /\ \A id \in BurnId :
         executed_burn_transactions[id] # None
           => executed_burn_transactions'[id] = executed_burn_transactions[id]
    /\ \A h \in RefundHash :
         executed_refund_transactions[h] # None
           => executed_refund_transactions'[h] = executed_refund_transactions[h]

ExecutedIsFinal == [][KeepsExecuted]_palletVars

\* The record of a burn, wherever it is kept.
BurnRecord(pending, executed, id) ==
    IF pending[id] # None THEN pending[id] ELSE executed[id]

KeepsTerms(old, new) ==
    new # None /\ new.target = old.target /\ new.amount = old.amount

\* Who is paid and how much is fixed when the user swaps: no signature, reset
\* or execution changes it, so all validators sign the same payment.
KeepsBurnTerms ==
    \A id \in 1..burn_transaction_id :
      KeepsTerms(BurnRecord(burn_transactions, executed_burn_transactions, id),
                 BurnRecord(burn_transactions', executed_burn_transactions', id))

BurnTermsFrozen == [][KeepsBurnTerms]_palletVars

\* Money moves only in the step that executes one mint, and then to its target
\* or the fee account, or in the step that creates one burn.
MovesMoneyWithEntry ==
    balances' # balances =>
      \/ burn_transaction_id' = burn_transaction_id + 1
      \/ \E m \in MintId :
           /\ mint_transactions'[m] = None
           /\ executed_mint_transactions[m] = None
           /\ executed_mint_transactions'[m] # None
           /\ \A a \in Account \ {executed_mint_transactions'[m].target,
                                  fee_account} :
                balances'[a] = balances[a]

MoneyMovesWithLedgerEntry == [][MovesMoneyWithEntry]_palletVars

-----------------------------------------------------------------------------
(* The backing of the tokens. *)

AmountsOf(S, tx(_)) ==
    MapThenSumSet(LAMBDA x : IF tx(x) = None THEN 0 ELSE tx(x).amount, S)

TotalBalance(bal) == MapThenSumSet(LAMBDA a : bal[a], Account)

MintedTotal == AmountsOf(MintId, LAMBDA m : executed_mint_transactions[m])

BurnedTotal ==
    AmountsOf(BurnId, LAMBDA id : BurnRecord(burn_transactions,
                                             executed_burn_transactions, id))

\* Every token on tfchain is backed by one locked on Stellar: what the accounts
\* hold, and what was burned for payment on Stellar, never exceeds what there
\* was at genesis and what was deposited.  The fees are inside the amounts; a
\* fee no account takes, or dust below the existential deposit, is lost.
Backed ==
    TotalBalance(balances) + BurnedTotal
      <= TotalBalance(GenesisBalance) + MintedTotal
=============================================================================
