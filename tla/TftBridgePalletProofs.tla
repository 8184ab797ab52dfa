----------------------- MODULE TftBridgePalletProofs -----------------------
(***************************************************************************)
(* The invariants of TftBridgePallet, for every value of its constants.     *)
(* Type correctness comes first; the others are inductive relative to it.   *)
(* Last is that every token is backed (Backed), with the sums of Sums.      *)
(***************************************************************************)
EXTENDS TftBridgePallet, Sums, FiniteSetTheorems, TLAPS

(* What deposit_creating credits leaves every balance a natural number. *)
LEMMA DepositCreatingType ==
    ASSUME NEW bal \in [Account -> Nat], NEW who \in Account, NEW value \in Nat
    PROVE  DepositCreating(bal, who, value) \in [Account -> Nat]
  BY DEF DepositCreating

(* And so does the fee, whether an account takes it or not. *)
LEMMA DepositFeeToType ==
    ASSUME NEW bal \in [Account -> Nat], NEW fee \in Nat,
           fee_account \in Account \cup {None}
    PROVE  DepositFeeTo(bal, fee) \in [Account -> Nat]
  BY DepositCreatingType DEF DepositFeeTo

(* Signing keeps a burn or a refund well formed. *)
LEMMA WithSignatureType ==
    ASSUME NEW tx \in BurnTransaction, NEW signature \in Sig,
           NEW key \in StellarKey, NEW seqno \in Nat
    PROVE  WithSignature(tx, signature, key, seqno) \in BurnTransaction
  <1> DEFINE sig == [stellar_pub_key |-> key, signature |-> signature]
             sigs == Append(tx.signatures, sig)
  <1>1. sig \in StellarSignature
    BY DEF StellarSignature
  <1>2. sigs \in Seq(StellarSignature)
    BY <1>1 DEF BurnTransaction
  <1>3. WithSignature(tx, signature, key, seqno)
          = [tx EXCEPT !.sequence_number = seqno, !.signatures = sigs]
    BY DEF WithSignature
  <1> HIDE DEF sigs
  <1> QED BY <1>2, <1>3 DEF BurnTransaction

(* So does the reset of the end of a block. *)
LEMMA ResetType ==
    ASSUME NEW tx \in BurnTransaction, block \in Nat
    PROVE  Reset(tx) \in BurnTransaction
  <1> DEFINE none == <<>>
             t1 == [tx EXCEPT !.signatures = none]
             t2 == [t1 EXCEPT !.sequence_number = 0]
             t3 == [t2 EXCEPT !.block = block]
  <1>1. t1 \in BurnTransaction
    <2>1. none \in Seq(StellarSignature)
      OBVIOUS
    <2> HIDE DEF none
    <2> QED BY <2>1 DEF BurnTransaction
  <1>2. t2 \in BurnTransaction
    <2> HIDE DEF t1
    <2> QED BY <1>1 DEF BurnTransaction
  <1>3. t3 \in BurnTransaction
    <2> HIDE DEF t2
    <2> QED BY <1>2 DEF BurnTransaction
  <1> QED BY <1>3, Zenon DEF Reset

(* A vote, and the execution, keep a mint well formed. *)
LEMMA VotedType ==
    ASSUME NEW tx \in MintTransaction, NEW b \in Nat
    PROVE  /\ [tx EXCEPT !.votes = @ + 1] \in MintTransaction
           /\ [tx EXCEPT !.block = b] \in MintTransaction
  BY DEF MintTransaction

(* What is left of an amount that is more than the fee. *)
LEMMA NetAmount ==
    ASSUME NEW amount \in Nat, NEW fee \in Nat, amount >= fee
    PROVE  amount - fee \in Nat
  OBVIOUS

(* Announcing adds at most one event. *)
LEMMA AnnounceType ==
    ASSUME NEW tx, NEW event \in Event, events \in Seq(Event)
    PROVE  Announce(tx, event) \in Seq(Event)
  BY DEF Announce

(* A call of an admin changes the parameters to others of their types. *)
LEMMA AdminType ==
    ASSUME TypeOK,
           \/ \E target \in Candidate :
                AddBridgeValidator(target) \/ RemoveBridgeValidator(target)
           \/ \E target \in FeeCandidate : SetFeeAccount(target)
           \/ \E fee \in Fee : SetWithdrawFee(fee) \/ SetDepositFee(fee)
    PROVE  TypeOK'
  <1> USE PalletAssumption DEF TypeOK, mintVars, burnVars, refundVars
  <1>1. ASSUME NEW target \in Candidate,
               AddBridgeValidator(target) \/ RemoveBridgeValidator(target)
        PROVE  TypeOK'
    BY <1>1 DEF AddBridgeValidator, RemoveBridgeValidator
  <1>2. ASSUME NEW target \in FeeCandidate, SetFeeAccount(target)
        PROVE  TypeOK'
    BY <1>2 DEF SetFeeAccount
  <1>3. ASSUME NEW fee \in Fee, SetWithdrawFee(fee) \/ SetDepositFee(fee)
        PROVE  TypeOK'
    BY <1>3 DEF SetWithdrawFee, SetDepositFee
  <1> QED BY <1>1, <1>2, <1>3

(* A vote, decisive or not. *)
LEMMA MintType ==
    ASSUME TypeOK, NEW validator \in Account, NEW target \in Account,
           NEW m \in MintId, NEW amount \in Amount,
           ProposeOrVoteMint(validator, m, target, amount)
    PROVE  TypeOK'
  <1> USE PalletAssumption DEF TypeOK, adminVars, burnVars, refundVars
  <1> DEFINE found == IF mint_transactions[m] # None
                      THEN mint_transactions[m]
                      ELSE [amount |-> amount, target |-> target,
                            block |-> block, votes |-> 0]
             tx == [found EXCEPT !.votes = @ + 1]
  <1>1. found \in MintTransaction
    BY DEF MintTransaction
  <1>2. VoteMint(m, found) /\ voters' \in [MintId -> SUBSET Account]
    BY DEF ProposeOrVoteMint, MintOpen
  <1>3. /\ tx \in MintTransaction
        /\ [tx EXCEPT !.block = block] \in MintTransaction
    <2> HIDE DEF found
    <2>1. tx \in MintTransaction
      BY <1>1, VotedType
    <2> HIDE DEF tx
    <2> QED BY <2>1, VotedType
  <1> HIDE DEF tx
  <1>4. CASE ~Decided(tx) /\ mint_transactions' = [mint_transactions EXCEPT ![m] = tx]
             /\ UNCHANGED <<executed_mint_transactions, balances>>
    BY <1>2, <1>3, <1>4 DEF ProposeOrVoteMint, MintOpen
  <1>5. CASE MintTft(m, tx)
    <2>1. balances' \in [Account -> Nat]
      <3>1. tx.target \in Account /\ tx.amount - deposit_fee \in Nat
        <4>1. tx.target \in Account /\ tx.amount \in Nat
          BY <1>3 DEF MintTransaction
        <4>2. tx.amount > deposit_fee
          BY <1>5 DEF MintTft, Without, MintedAmount
        <4> QED BY SMTT(30), <4>1, <4>2, NetAmount
      <3>2. DepositCreating(balances, tx.target, tx.amount - deposit_fee)
              \in [Account -> Nat]
        BY <3>1, DepositCreatingType
      <3> QED BY <3>2, <1>5, DepositFeeToType DEF MintTft, Without, MintedAmount
    <2> QED BY <2>1, <1>2, <1>3, <1>5 DEF ProposeOrVoteMint, MintTft, MintOpen, Without, MintedAmount
  <1> QED BY <1>2, <1>4, <1>5 DEF VoteMint, tx, Decided

(* A swap: the burn it creates, and the balances it leaves. *)
LEMMA SwapType ==
    ASSUME TypeOK, NEW source \in Account, NEW target \in StellarAddress,
           NEW amount \in Amount, SwapToStellar(source, target, amount)
    PROVE  TypeOK'
  <1> USE PalletAssumption DEF TypeOK, adminVars, mintVars, refundVars
  <1> DEFINE id == burn_transaction_id + 1
             burn == [block |-> block, amount |-> amount - withdraw_fee,
                      target |-> target, signatures |-> <<>>,
                      sequence_number |-> 0]
  <1>1. /\ id \in BurnId /\ amount - withdraw_fee \in Nat
        /\ id \in 0..MaxBurnId
    BY DEF SwapToStellar, BurnId, NextBurnId, BurnedAmount
  <1>2. burn \in BurnTransaction
    BY <1>1 DEF BurnTransaction
  <1>3. Created(id, source, target, amount - withdraw_fee) \in Event
    BY <1>1 DEF Created, Event
  <1>4. [balances EXCEPT ![source] = @ - amount] \in [Account -> Nat]
    <2>1. amount + Frozen[source] <= balances[source]
      BY DEF SwapToStellar, CanWithdraw, NextBurnId, BurnedAmount
    <2>2. balances[source] - amount \in Nat
      BY <2>1, NetAmount
    <2> QED BY <2>2
  <1>5. balances' \in [Account -> Nat]
    BY <1>4, DepositFeeToType DEF SwapToStellar, NextBurnId, BurnedAmount
  <1>6. events' \in Seq(Event)
    BY <1>3 DEF SwapToStellar, NextBurnId, BurnedAmount
  <1> QED BY <1>1, <1>2, <1>5, <1>6 DEF SwapToStellar, NextBurnId, BurnedAmount

(* A signature for a burn. *)
LEMMA BurnSignatureType ==
    ASSUME TypeOK, NEW validator \in Account, NEW id \in BurnId,
           NEW target \in StellarAddress, NEW amount \in Amount,
           NEW signature \in Sig, NEW key \in StellarKey, NEW seqno \in SeqNo,
           ProposeBurnOrAddSig(validator, id, target, amount, signature, key,
                               seqno)
    PROVE  TypeOK'
  <1> USE PalletAssumption DEF TypeOK, adminVars, mintVars, refundVars
  <1> DEFINE tx == WithSignature(burn_transactions[id], signature, key, seqno)
  <1>1. tx \in BurnTransaction
    BY WithSignatureType DEF ProposeBurnOrAddSig
  <1>2. BurnReady(id) \in Event
    BY DEF BurnReady, Event
  <1>3. events' \in Seq(Event)
    BY <1>2, AnnounceType DEF ProposeBurnOrAddSig
  <1> QED BY <1>1, <1>3 DEF ProposeBurnOrAddSig

(* A signature for a refund, which may create it. *)
LEMMA RefundSignatureType ==
    ASSUME TypeOK, NEW validator \in Account, NEW hash \in RefundHash,
           NEW target \in StellarAddress, NEW amount \in Amount,
           NEW signature \in Sig, NEW key \in StellarKey, NEW seqno \in SeqNo,
           CreateRefundOrAddSig(validator, hash, target, amount, signature,
                                key, seqno)
    PROVE  TypeOK'
  <1> USE PalletAssumption DEF TypeOK, adminVars, mintVars, burnVars,
                               RefundTransaction
  <1> DEFINE found == IF refund_transactions[hash] # None
                      THEN refund_transactions[hash]
                      ELSE [block |-> block, amount |-> amount,
                            target |-> target, signatures |-> <<>>,
                            sequence_number |-> seqno]
             tx == WithSignature(found, signature, key, seqno)
  <1>1. found \in BurnTransaction
    BY DEF BurnTransaction
  <1>2. tx \in BurnTransaction
    BY <1>1, WithSignatureType
  <1>3. RefundReady(hash) \in Event
    BY DEF RefundReady, Event
  <1>4. events' \in Seq(Event)
    BY <1>3, AnnounceType DEF CreateRefundOrAddSig
  <1> QED BY <1>2, <1>4 DEF CreateRefundOrAddSig

(* The end of a block. *)
LEMMA FinalizeType ==
    ASSUME TypeOK, FinalizeBlock
    PROVE  TypeOK'
  <1> USE PalletAssumption DEF TypeOK, adminVars, mintVars, RefundTransaction
  <1>1. \A id \in ExpiredBurns : Reset(burn_transactions[id]) \in BurnTransaction
    BY ResetType DEF ExpiredBurns, Expires
  <1>2. \A h \in ExpiredRefunds : Reset(refund_transactions[h]) \in BurnTransaction
    BY ResetType DEF ExpiredRefunds, Expires
  <1>3. burn_transactions' \in [BurnId -> BurnTransaction \cup {None}]
    BY <1>1 DEF FinalizeBlock
  <1>4. refund_transactions' \in [RefundHash -> BurnTransaction \cup {None}]
    BY <1>2 DEF FinalizeBlock
  <1> QED BY <1>3, <1>4 DEF FinalizeBlock

(* No step of the pallet gives an item a value of another type. *)
LEMMA TypeStep ==
    ASSUME TypeOK, [Next]_palletVars
    PROVE  TypeOK'
  <1>1. CASE UNCHANGED palletVars
    BY <1>1 DEF TypeOK, palletVars, adminVars, mintVars, burnVars, refundVars
  <1>2. ASSUME NEW validator \in Account, NEW id \in BurnId,
               SetBurnExecuted(validator, id)
        PROVE  TypeOK'
    BY <1>2 DEF TypeOK, SetBurnExecuted, adminVars, mintVars, refundVars, Without
  <1>3. ASSUME NEW validator \in Account, NEW hash \in RefundHash,
               SetRefundExecuted(validator, hash)
        PROVE  TypeOK'
    BY <1>3 DEF TypeOK, SetRefundExecuted, adminVars, mintVars, burnVars, Without, RefundOpen
  <1> QED BY <1>1, <1>2, <1>3, AdminType, MintType, SwapType,
             BurnSignatureType, RefundSignatureType, FinalizeType DEF Next

(* Every storage item of the pallet keeps its type. *)
THEOREM TypeCorrect == Spec => []TypeOK
  <1>1. Init => TypeOK
    BY PalletAssumption DEF Init, TypeOK, BurnId
  <1> QED BY <1>1, TypeStep, PTL DEF Spec

-----------------------------------------------------------------------------
(* What a step does to one burn, and to one refund: the case analysis that  *)
(* the invariants below share.  The changes of the entry itself come first. *)

SignedTx(old, new) ==
    /\ old # None
    /\ \E signature \in Sig, key \in StellarKey, seqno \in SeqNo :
         /\ AcceptsSignature(old, signature, key)
         /\ new = WithSignature(old, signature, key, seqno)

FirstSignedTx(new) ==
    \E signature \in Sig, key \in StellarKey, seqno \in SeqNo,
       target \in StellarAddress, amount \in Amount :
      new = WithSignature([block |-> block, amount |-> amount,
                           target |-> target, signatures |-> <<>>,
                           sequence_number |-> seqno], signature, key, seqno)

BurnLeft(id) ==
    /\ burn_transactions'[id] = burn_transactions[id]
    /\ executed_burn_transactions'[id] = executed_burn_transactions[id]
    /\ id \in burn_ready' <=> id \in burn_ready
    /\ \/ block' = block
       \/ block' = block + 1 /\ ~Expires(burn_transactions[id])
    /\ \/ burn_transaction_id' = burn_transaction_id
       \/ burn_transaction_id' = burn_transaction_id + 1
            /\ id # burn_transaction_id + 1

BurnCreated(id) ==
    /\ id = burn_transaction_id + 1 /\ burn_transaction_id' = id
    /\ burn_transactions'[id].block = block
    /\ burn_transactions'[id].signatures = <<>>
    /\ burn_transactions'[id] # None
    /\ executed_burn_transactions'[id] = executed_burn_transactions[id]
    /\ id \in burn_ready' <=> id \in burn_ready
    /\ block' = block

BurnSigned(id) ==
    /\ SignedTx(burn_transactions[id], burn_transactions'[id])
    /\ executed_burn_transactions[id] = None
    /\ executed_burn_transactions'[id] = None
    /\ id \in burn_ready' <=> id \in burn_ready \/ IsReady(burn_transactions'[id])
    /\ burn_transaction_id' = burn_transaction_id
    /\ block' = block

BurnExecuted(id) ==
    /\ burn_transactions[id] # None /\ executed_burn_transactions[id] = None
    /\ burn_transactions'[id] = None
    /\ executed_burn_transactions'[id] = burn_transactions[id]
    /\ id \notin burn_ready'
    /\ burn_transaction_id' = burn_transaction_id
    /\ block' = block

BurnReset(id) ==
    /\ burn_transactions[id] # None
    /\ burn_transactions'[id] = Reset(burn_transactions[id])
    /\ executed_burn_transactions'[id] = executed_burn_transactions[id]
    /\ id \notin burn_ready'
    /\ burn_transaction_id' = burn_transaction_id
    /\ block' = block + 1

BurnStep(id) == BurnLeft(id) \/ BurnCreated(id) \/ BurnSigned(id)
                  \/ BurnExecuted(id) \/ BurnReset(id)

RefundLeft(h) ==
    /\ refund_transactions'[h] = refund_transactions[h]
    /\ executed_refund_transactions'[h] = executed_refund_transactions[h]
    /\ h \in refund_ready' <=> h \in refund_ready
    /\ \/ block' = block
       \/ block' = block + 1 /\ ~Expires(refund_transactions[h])

RefundSigned(h) ==
    /\ \/ SignedTx(refund_transactions[h], refund_transactions'[h])
       \/ refund_transactions[h] = None /\ FirstSignedTx(refund_transactions'[h])
    /\ executed_refund_transactions'[h] = executed_refund_transactions[h]
    /\ h \in refund_ready' <=> h \in refund_ready \/ IsReady(refund_transactions'[h])
    /\ block' = block

RefundExecuted(h) ==
    /\ refund_transactions[h] # None /\ executed_refund_transactions[h] = None
    /\ refund_transactions'[h] = None
    /\ executed_refund_transactions'[h] = refund_transactions[h]
    /\ h \notin refund_ready'
    /\ block' = block

RefundReset(h) ==
    /\ refund_transactions[h] # None
    /\ refund_transactions'[h] = Reset(refund_transactions[h])
    /\ executed_refund_transactions'[h] = executed_refund_transactions[h]
    /\ h \notin refund_ready'
    /\ block' = block + 1

RefundStep(h) == RefundLeft(h) \/ RefundSigned(h) \/ RefundExecuted(h)
                   \/ RefundReset(h)

(* The steps that do not concern burns or refunds at all. *)
LEMMA OtherStep ==
    ASSUME \/ UNCHANGED palletVars
           \/ \E target \in Candidate :
                AddBridgeValidator(target) \/ RemoveBridgeValidator(target)
           \/ \E target \in FeeCandidate : SetFeeAccount(target)
           \/ \E fee \in Fee : SetWithdrawFee(fee) \/ SetDepositFee(fee)
           \/ \E validator, target \in Account, m \in MintId, amount \in Amount :
                ProposeOrVoteMint(validator, m, target, amount)
    PROVE  UNCHANGED <<burnVars, refundVars, block>>
  BY DEF palletVars, AddBridgeValidator, RemoveBridgeValidator, SetFeeAccount,
         SetWithdrawFee, SetDepositFee, ProposeOrVoteMint, MintOpen

(* Every step does one of the five things above to a given burn. *)
LEMMA BurnSteps ==
    ASSUME TypeOK, [Next]_palletVars, NEW id \in BurnId
    PROVE  BurnStep(id)
  <1> USE DEF BurnStep
  <1>1. ASSUME UNCHANGED <<burnVars, block>>
        PROVE  BurnStep(id)
    BY <1>1 DEF burnVars, BurnLeft
  <1>2. ASSUME NEW source \in Account, NEW target \in StellarAddress,
               NEW amount \in Amount, SwapToStellar(source, target, amount)
        PROVE  BurnStep(id)
    <2>1. CASE id = burn_transaction_id + 1
      <3>1. burn_transactions'[id]
              = [block |-> block, amount |-> amount - withdraw_fee,
                 target |-> target, signatures |-> <<>>, sequence_number |-> 0]
        BY <1>2, <2>1 DEF SwapToStellar, TypeOK, NextBurnId, BurnedAmount
      <3>2. burn_transactions'[id] \in BurnTransaction
        BY <3>1, <1>2, PalletAssumption, NetAmount, SMT
           DEF SwapToStellar, TypeOK, BurnTransaction, NextBurnId, BurnedAmount
      <3> QED BY <1>2, <2>1, <3>1, <3>2, PalletAssumption
              DEF SwapToStellar, BurnCreated, NextBurnId, BurnedAmount
    <2>2. CASE id # burn_transaction_id + 1
      BY <1>2, <2>2 DEF SwapToStellar, TypeOK, BurnLeft, NextBurnId, BurnedAmount
    <2> QED BY <2>1, <2>2
  <1>3. ASSUME NEW validator \in Account, NEW b \in BurnId,
               NEW target \in StellarAddress, NEW amount \in Amount,
               NEW signature \in Sig, NEW key \in StellarKey,
               NEW seqno \in SeqNo,
               ProposeBurnOrAddSig(validator, b, target, amount, signature,
                                   key, seqno)
        PROVE  BurnStep(id)
    <2>1. CASE id = b
      BY <1>3, <2>1 DEF ProposeBurnOrAddSig, TypeOK, BurnSigned, SignedTx
    <2>2. CASE id # b
      BY <1>3, <2>2 DEF ProposeBurnOrAddSig, TypeOK, BurnLeft
    <2> QED BY <2>1, <2>2
  <1>4. ASSUME NEW validator \in Account, NEW b \in BurnId,
               SetBurnExecuted(validator, b)
        PROVE  BurnStep(id)
    <2>1. CASE id = b
      BY <1>4, <2>1 DEF SetBurnExecuted, TypeOK, BurnExecuted, Without
    <2>2. CASE id # b
      BY <1>4, <2>2 DEF SetBurnExecuted, TypeOK, BurnLeft, Without
    <2> QED BY <2>1, <2>2
  <1>5. ASSUME FinalizeBlock
        PROVE  BurnStep(id)
    <2>1. CASE id \in ExpiredBurns
      BY <1>5, <2>1 DEF FinalizeBlock, ExpiredBurns, Expires, BurnReset
    <2>2. CASE id \notin ExpiredBurns
      BY <1>5, <2>2 DEF FinalizeBlock, ExpiredBurns, BurnLeft
    <2> QED BY <2>1, <2>2
  <1>6. ASSUME NEW validator \in Account, NEW h \in RefundHash,
               \/ \E target \in StellarAddress, amount \in Amount,
                     signature \in Sig, key \in StellarKey, seqno \in SeqNo :
                    CreateRefundOrAddSig(validator, h, target, amount,
                                         signature, key, seqno)
               \/ SetRefundExecuted(validator, h)
        PROVE  UNCHANGED <<burnVars, block>>
    BY ZenonT(40), <1>6 DEF CreateRefundOrAddSig, SetRefundExecuted, Without, RefundOpen
  <1> QED BY <1>1, <1>2, <1>3, <1>4, <1>5, <1>6, OtherStep DEF Next

(* And one of the four things above to a given refund. *)
LEMMA RefundSteps ==
    ASSUME TypeOK, [Next]_palletVars, NEW h \in RefundHash
    PROVE  RefundStep(h)
  <1> USE DEF RefundStep
  <1>1. ASSUME UNCHANGED <<refundVars, block>>
        PROVE  RefundStep(h)
    BY <1>1 DEF refundVars, RefundLeft
  <1>2. ASSUME NEW source \in Account, NEW target \in StellarAddress,
               NEW amount \in Amount, SwapToStellar(source, target, amount)
        PROVE  UNCHANGED <<refundVars, block>>
    BY <1>2 DEF SwapToStellar, NextBurnId, BurnedAmount
  <1>3. ASSUME NEW validator \in Account, NEW id \in BurnId,
               \/ \E target \in StellarAddress, amount \in Amount,
                     signature \in Sig, key \in StellarKey, seqno \in SeqNo :
                    ProposeBurnOrAddSig(validator, id, target, amount,
                                        signature, key, seqno)
               \/ SetBurnExecuted(validator, id)
        PROVE  UNCHANGED <<refundVars, block>>
    BY <1>3 DEF ProposeBurnOrAddSig, SetBurnExecuted, Without
  <1>4. ASSUME NEW validator \in Account, NEW r \in RefundHash,
               NEW target \in StellarAddress, NEW amount \in Amount,
               NEW signature \in Sig, NEW key \in StellarKey,
               NEW seqno \in SeqNo,
               CreateRefundOrAddSig(validator, r, target, amount, signature,
                                    key, seqno)
        PROVE  RefundStep(h)
    <2>1. CASE h = r /\ refund_transactions[h] # None
      BY <1>4, <2>1 DEF CreateRefundOrAddSig, TypeOK, RefundSigned, SignedTx
    <2>2. CASE h = r /\ refund_transactions[h] = None
      BY <1>4, <2>2
         DEF CreateRefundOrAddSig, TypeOK, RefundSigned, FirstSignedTx
    <2>3. CASE h # r
      BY <1>4, <2>3 DEF CreateRefundOrAddSig, TypeOK, RefundLeft
    <2> QED BY <2>1, <2>2, <2>3
  <1>5. ASSUME NEW validator \in Account, NEW r \in RefundHash,
               SetRefundExecuted(validator, r)
        PROVE  RefundStep(h)
    <2>1. CASE h = r
      BY <1>5, <2>1 DEF SetRefundExecuted, TypeOK, RefundExecuted, Without, RefundOpen
    <2>2. CASE h # r
      BY <1>5, <2>2 DEF SetRefundExecuted, TypeOK, RefundLeft, Without, RefundOpen
    <2> QED BY <2>1, <2>2
  <1>6. ASSUME FinalizeBlock
        PROVE  RefundStep(h)
    <2>1. CASE h \in ExpiredRefunds
      BY <1>6, <2>1 DEF FinalizeBlock, ExpiredRefunds, Expires, RefundReset
    <2>2. CASE h \notin ExpiredRefunds
      BY <1>6, <2>2 DEF FinalizeBlock, ExpiredRefunds, RefundLeft
    <2> QED BY <2>1, <2>2
  <1> QED BY <1>1, <1>2, <1>3, <1>4, <1>5, <1>6, OtherStep DEF Next
-----------------------------------------------------------------------------
(* The safety invariants. *)

(* A burn is in exactly one of the two maps from the swap on, and in none    *)
(* before: it is neither lost, nor executed twice, nor pending again.        *)
BurnLedger ==
    \A id \in BurnId :
      /\ burn_transactions[id] = None \/ executed_burn_transactions[id] = None
      /\ id <= burn_transaction_id
           <=> (burn_transactions[id] # None \/ executed_burn_transactions[id] # None)

(* Inductive because the next id is above every id of the two maps.          *)
LEMMA BurnLedgerStep ==
    ASSUME TypeOK, BurnLedger, [Next]_palletVars
    PROVE  BurnLedger'
  <1> SUFFICES ASSUME NEW id \in BurnId
               PROVE  /\ \/ burn_transactions'[id] = None
                         \/ executed_burn_transactions'[id] = None
                      /\ id <= burn_transaction_id'
                           <=> \/ burn_transactions'[id] # None
                               \/ executed_burn_transactions'[id] # None
    BY DEF BurnLedger
  <1>0. burn_transaction_id \in Nat /\ id \in Nat
    BY PalletAssumption DEF TypeOK, BurnId
  <1>1. CASE BurnLeft(id)
    BY <1>0, <1>1 DEF BurnLeft, BurnLedger
  <1>2. CASE BurnCreated(id)
    BY <1>0, <1>2 DEF BurnCreated, BurnLedger
  <1>3. CASE BurnSigned(id)
    <2>1. burn_transactions'[id] # None
      BY <1>3, PalletAssumption, WithSignatureType
         DEF BurnSigned, SignedTx, TypeOK
    <2> QED BY <1>3, <2>1 DEF BurnSigned, SignedTx, BurnLedger
  <1>4. CASE BurnExecuted(id)
    BY <1>4 DEF BurnExecuted, BurnLedger
  <1>5. CASE BurnReset(id)
    <2>1. burn_transactions'[id] # None
      BY <1>5, PalletAssumption, ResetType DEF BurnReset, TypeOK
    <2> QED BY <1>5, <2>1 DEF BurnReset, BurnLedger
  <1> QED BY <1>1, <1>2, <1>3, <1>4, <1>5, BurnSteps DEF BurnStep

(* So it holds of all reachable states.                                      *)
LEMMA BurnLedgerInvariant == Spec => []BurnLedger
  <1>1. Init => BurnLedger
    BY DEF Init, BurnLedger, BurnId
  <1> QED BY <1>1, BurnLedgerStep, TypeCorrect, PTL DEF Spec

(* The ids handed out are exactly those of the pending and executed burns.   *)
THEOREM BurnIdsAreAccounted == Spec => []BurnIdsAccounted
  <1>1. BurnLedger => BurnIdsAccounted
    BY DEF BurnLedger, BurnIdsAccounted
  <1> QED BY <1>1, BurnLedgerInvariant, PTL

(* A mint leaves the pending map in the step that puts it in the executed    *)
(* one, and a vote for an executed mint is refused.                          *)
MintLedger ==
    \A m \in MintId : \/ mint_transactions[m] = None
                      \/ executed_mint_transactions[m] = None

(* The steps of the other extrinsics leave the mints alone.                  *)
LEMMA NotMintStep ==
    ASSUME [Next]_palletVars,
           ~ \E validator, target \in Account, m \in MintId, amount \in Amount :
               ProposeOrVoteMint(validator, m, target, amount)
    PROVE  UNCHANGED <<mint_transactions, executed_mint_transactions>>
  <1>1. CASE UNCHANGED palletVars
    BY <1>1 DEF palletVars, mintVars
  <1>2. ASSUME \/ \E target \in Candidate :
                    AddBridgeValidator(target) \/ RemoveBridgeValidator(target)
               \/ \E target \in FeeCandidate : SetFeeAccount(target)
               \/ \E fee \in Fee : SetWithdrawFee(fee) \/ SetDepositFee(fee)
        PROVE  UNCHANGED mintVars
    BY <1>2 DEF AddBridgeValidator, RemoveBridgeValidator, SetFeeAccount,
                SetWithdrawFee, SetDepositFee
  <1>3. ASSUME NEW source \in Account, NEW target \in StellarAddress,
               NEW amount \in Amount, SwapToStellar(source, target, amount)
        PROVE  UNCHANGED mintVars
    BY <1>3 DEF SwapToStellar, NextBurnId, BurnedAmount
  <1>4. ASSUME NEW validator \in Account, NEW id \in BurnId,
               \/ \E target \in StellarAddress, amount \in Amount,
                     signature \in Sig, key \in StellarKey, seqno \in SeqNo :
                    ProposeBurnOrAddSig(validator, id, target, amount,
                                        signature, key, seqno)
               \/ SetBurnExecuted(validator, id)
        PROVE  UNCHANGED mintVars
    BY <1>4 DEF ProposeBurnOrAddSig, SetBurnExecuted, Without
  <1>5. ASSUME NEW validator \in Account, NEW h \in RefundHash,
               \/ \E target \in StellarAddress, amount \in Amount,
                     signature \in Sig, key \in StellarKey, seqno \in SeqNo :
                    CreateRefundOrAddSig(validator, h, target, amount,
                                         signature, key, seqno)
               \/ SetRefundExecuted(validator, h)
        PROVE  UNCHANGED mintVars
    BY ZenonT(40), <1>5 DEF CreateRefundOrAddSig, SetRefundExecuted, Without, RefundOpen
  <1>6. FinalizeBlock => UNCHANGED mintVars
    BY DEF FinalizeBlock
  <1> QED BY <1>1, <1>2, <1>3, <1>4, <1>5, <1>6 DEF Next, mintVars

(* What a vote does to the two maps of mints.                                *)
LEMMA MintStep ==
    ASSUME TypeOK, NEW validator \in Account, NEW target \in Account,
           NEW m \in MintId, NEW amount \in Amount,
           ProposeOrVoteMint(validator, m, target, amount), NEW n \in MintId
    PROVE  /\ n # m => /\ mint_transactions'[n] = mint_transactions[n]
                       /\ executed_mint_transactions'[n]
                            = executed_mint_transactions[n]
           /\ n = m => /\ executed_mint_transactions[n] = None
                       /\ \/ mint_transactions'[n] = None
                          \/ executed_mint_transactions'[n] = None
  <1> DEFINE found == IF mint_transactions[m] # None
                      THEN mint_transactions[m]
                      ELSE [amount |-> amount, target |-> target,
                            block |-> block, votes |-> 0]
             tx == [found EXCEPT !.votes = @ + 1]
  <1>1. VoteMint(m, found) /\ executed_mint_transactions[m] = None
    BY DEF ProposeOrVoteMint, MintOpen
  <1> HIDE DEF found
  <1>2. CASE mint_transactions' = [mint_transactions EXCEPT ![m] = tx]
             /\ UNCHANGED executed_mint_transactions
    BY <1>1, <1>2 DEF TypeOK
  <1>3. CASE MintTft(m, tx)
    BY <1>1, <1>3 DEF TypeOK, MintTft, Without, MintedAmount
  <1> QED BY <1>1, <1>2, <1>3 DEF VoteMint, Decided

(* No mint is ever pending and executed.                                     *)
LEMMA MintLedgerInvariant == Spec => []MintLedger
  <1>1. Init => MintLedger
    BY DEF Init, MintLedger
  <1>2. TypeOK /\ MintLedger /\ [Next]_palletVars => MintLedger'
    <2> SUFFICES ASSUME TypeOK, MintLedger, [Next]_palletVars, NEW n \in MintId
                 PROVE  \/ mint_transactions'[n] = None
                        \/ executed_mint_transactions'[n] = None
      BY DEF MintLedger
    <2>1. CASE \E validator, target \in Account, m \in MintId, amount \in Amount :
                 ProposeOrVoteMint(validator, m, target, amount)
      BY <2>1, MintStep DEF MintLedger
    <2>2. CASE ~ \E validator, target \in Account, m \in MintId, amount \in Amount :
                   ProposeOrVoteMint(validator, m, target, amount)
      BY <2>2, NotMintStep DEF MintLedger
    <2> QED BY <2>1, <2>2
  <1> QED BY <1>1, <1>2, TypeCorrect, PTL DEF Spec

(* Nothing is both pending and executed, so nothing is executed twice.       *)
THEOREM NothingPendingAndExecuted == Spec => []NeverPendingAndExecuted
  <1>1. BurnLedger /\ MintLedger => NeverPendingAndExecuted
    BY DEF BurnLedger, MintLedger, NeverPendingAndExecuted
  <1> QED BY <1>1, BurnLedgerInvariant, MintLedgerInvariant, PTL
-----------------------------------------------------------------------------
(* Expiry. *)

(* A signature does not touch the block a burn or a refund waits from.       *)
LEMMA SignedBlock ==
    ASSUME NEW old \in BurnTransaction, NEW new, SignedTx(old, new)
    PROVE  new.block = old.block
  BY DEF SignedTx, WithSignature, BurnTransaction

(* A refund waits from the block of its first signature.                     *)
LEMMA FirstSignedBlock ==
    ASSUME NEW new, FirstSignedTx(new)
    PROVE  new.block = block
  BY DEF FirstSignedTx, WithSignature

(* A reset starts the wait again.                                            *)
LEMMA ResetBlock ==
    ASSUME NEW tx \in BurnTransaction
    PROVE  Reset(tx).block = block
  BY DEF Reset, BurnTransaction

(* An entry within the window stays there until the end of the block in which *)
(* the window closes, and that block resets it.                              *)
LEMMA WindowKept ==
    ASSUME NEW tx \in BurnTransaction \cup {None}, InWindow(tx), block \in Nat,
           block' = block \/ (block' = block + 1 /\ ~Expires(tx))
    PROVE  tx # None => 0 <= block' - tx.block /\ block' - tx.block <= RetryInterval
  <1> SUFFICES ASSUME tx # None
               PROVE  0 <= block' - tx.block /\ block' - tx.block <= RetryInterval
    OBVIOUS
  <1>1. tx.block \in Nat
    BY DEF BurnTransaction
  <1> QED BY <1>1, PalletAssumption DEF InWindow, Expires

(* The subtraction of on_finalize is never negative, and nothing pending is   *)
(* ever older than the retry interval.                                       *)
THEOREM RetryWindowHolds == Spec => []RetryWindow
  <1>1. Init => RetryWindow
    BY DEF Init, RetryWindow, InWindow
  <1>2. TypeOK /\ TypeOK' /\ RetryWindow /\ [Next]_palletVars => RetryWindow'
    <2> SUFFICES ASSUME TypeOK, TypeOK', RetryWindow, [Next]_palletVars
                 PROVE  RetryWindow'
      OBVIOUS
    <2>0. block \in Nat /\ block' \in Nat
      BY DEF TypeOK
    <2>1. ASSUME NEW id \in BurnId PROVE InWindow(burn_transactions[id])'
      <3>0. /\ burn_transactions[id] \in BurnTransaction \cup {None}
            /\ InWindow(burn_transactions[id])
        BY DEF TypeOK, RetryWindow
      <3>1. CASE BurnLeft(id)
        BY <2>0, <3>0, <3>1, WindowKept DEF BurnLeft, InWindow
      <3>2. CASE BurnCreated(id)
        BY <2>0, <3>2, PalletAssumption DEF BurnCreated, InWindow
      <3>3. CASE BurnSigned(id)
        <4>1. burn_transactions[id] \in BurnTransaction
          BY <3>0, <3>3 DEF BurnSigned, SignedTx
        <4>2. burn_transactions'[id].block = burn_transactions[id].block
          BY <3>3, <4>1, SignedBlock DEF BurnSigned
        <4> QED BY <2>0, <3>0, <3>3, <4>2 DEF BurnSigned, SignedTx, InWindow
      <3>4. CASE BurnExecuted(id)
        BY <3>4 DEF BurnExecuted, InWindow
      <3>5. CASE BurnReset(id)
        <4>1. burn_transactions'[id].block = block
          BY <3>0, <3>5, ResetBlock DEF BurnReset
        <4> QED BY <2>0, <3>5, <4>1, PalletAssumption DEF BurnReset, InWindow
      <3> QED BY <3>1, <3>2, <3>3, <3>4, <3>5, BurnSteps DEF BurnStep
    <2>2. ASSUME NEW h \in RefundHash PROVE InWindow(refund_transactions[h])'
      <3>0. /\ refund_transactions[h] \in BurnTransaction \cup {None}
            /\ InWindow(refund_transactions[h])
        BY DEF TypeOK, RetryWindow, RefundTransaction
      <3>1. CASE RefundLeft(h)
        BY <2>0, <3>0, <3>1, WindowKept DEF RefundLeft, InWindow
      <3>2. CASE RefundSigned(h) /\ SignedTx(refund_transactions[h],
                                             refund_transactions'[h])
        <4>1. refund_transactions[h] \in BurnTransaction
          BY <3>0, <3>2 DEF SignedTx
        <4>2. refund_transactions'[h].block = refund_transactions[h].block
          BY <3>2, <4>1, SignedBlock
        <4> QED BY <2>0, <3>0, <3>2, <4>2 DEF RefundSigned, SignedTx, InWindow
      <3>3. CASE RefundSigned(h) /\ FirstSignedTx(refund_transactions'[h])
        <4>1. refund_transactions'[h].block = block
          BY <3>3, FirstSignedBlock
        <4> QED BY <2>0, <3>3, <4>1, PalletAssumption DEF RefundSigned, InWindow
      <3>4. CASE RefundExecuted(h)
        BY <3>4 DEF RefundExecuted, InWindow
      <3>5. CASE RefundReset(h)
        <4>1. refund_transactions'[h].block = block
          BY <3>0, <3>5, ResetBlock DEF RefundReset
        <4> QED BY <2>0, <3>5, <4>1, PalletAssumption DEF RefundReset, InWindow
      <3> QED BY <3>1, <3>2, <3>3, <3>4, <3>5, RefundSteps
              DEF RefundStep, RefundSigned
    <2> QED BY <2>1, <2>2 DEF RetryWindow
  <1> QED BY <1>1, <1>2, TypeCorrect, PTL DEF Spec

-----------------------------------------------------------------------------
(* Signatures. *)

(* A signature that is accepted is of a signer, and has bytes, not yet there. *)
LEMMA SignedDistinct ==
    ASSUME NEW tx \in BurnTransaction, DistinctSigners(tx), tx # None,
           NEW signature \in Sig, NEW key \in StellarKey, NEW seqno \in SeqNo,
           AcceptsSignature(tx, signature, key)
    PROVE  DistinctSigners(WithSignature(tx, signature, key, seqno))
  <1> DEFINE sig == [stellar_pub_key |-> key, signature |-> signature]
             old == tx.signatures
             new == Append(old, sig)
             Differ(a, b) == /\ a.stellar_pub_key # b.stellar_pub_key
                             /\ a.signature # b.signature
  <1>1. old \in Seq(StellarSignature) /\ sig \in StellarSignature
    BY DEF BurnTransaction, StellarSignature
  <1>2. WithSignature(tx, signature, key, seqno).signatures = new
    BY DEF WithSignature, BurnTransaction
  <1>3. \A i \in DOMAIN old : Differ(old[i], sig)
    BY DEF AcceptsSignature, EnoughSignatures
  <1>4. \A i, j \in DOMAIN old : i # j => Differ(old[i], old[j])
    BY DEF DistinctSigners
  <1> HIDE DEF sig, old
  <1>5. \A i, j \in DOMAIN new : i # j => Differ(new[i], new[j])
    <2> SUFFICES ASSUME NEW i \in 1..(Len(old) + 1), NEW j \in 1..(Len(old) + 1),
                        i # j
                 PROVE  Differ(new[i], new[j])
      BY <1>1
    <2>1. CASE i <= Len(old) /\ j <= Len(old)
      <3>1. new[i] = old[i] /\ new[j] = old[j] /\ i \in DOMAIN old /\ j \in DOMAIN old
        BY <1>1, <2>1
      <3> QED BY <3>1, <1>4
    <2>2. CASE i <= Len(old) /\ j = Len(old) + 1
      <3>1. new[i] = old[i] /\ new[j] = sig /\ i \in DOMAIN old
        BY <1>1, <2>2
      <3> QED BY <3>1, <1>3
    <2>3. CASE i = Len(old) + 1 /\ j <= Len(old)
      <3>1. new[j] = old[j] /\ new[i] = sig /\ j \in DOMAIN old
        BY <1>1, <2>3
      <3> QED BY <3>1, <1>3
    <2> QED BY <1>1, <2>1, <2>2, <2>3
  <1> HIDE DEF new
  <1> QED BY <1>2, <1>5 DEF DistinctSigners

(* After a creation or a reset there is no signature.                        *)
LEMMA NoSignerDistinct ==
    ASSUME NEW tx, tx.signatures = <<>>
    PROVE  DistinctSigners(tx)
  BY DEF DistinctSigners

(* One signature alone has no other to be distinct from.                     *)
LEMMA OneSignerDistinct ==
    ASSUME NEW tx, Len(tx.signatures) = 1, tx.signatures \in Seq(StellarSignature)
    PROVE  DistinctSigners(tx)
  BY DEF DistinctSigners

(* The end of a block takes all signatures of an expired entry away.         *)
LEMMA ResetSignatures ==
    ASSUME NEW tx \in BurnTransaction
    PROVE  Reset(tx).signatures = <<>>
  BY DEF Reset, BurnTransaction

(* A refund is created with the signature of the one validator that calls.   *)
LEMMA FirstSignature ==
    ASSUME NEW new, FirstSignedTx(new)
    PROVE  Len(new.signatures) = 1 /\ new.signatures \in Seq(StellarSignature)
  <1>1. PICK signature \in Sig, key \in StellarKey :
          new.signatures = Append(<<>>, [stellar_pub_key |-> key,
                                         signature |-> signature])
    BY DEF FirstSignedTx, WithSignature
  <1> QED BY <1>1 DEF StellarSignature

(* A refund just created is a refund.                                        *)
LEMMA FirstSignedTxType ==
    ASSUME NEW new, FirstSignedTx(new), block \in Nat
    PROVE  new \in BurnTransaction /\ new # None
  <1>1. PICK signature \in Sig, key \in StellarKey, seqno \in SeqNo,
             target \in StellarAddress, amount \in Amount :
          new = WithSignature([block |-> block, amount |-> amount,
                               target |-> target, signatures |-> <<>>,
                               sequence_number |-> seqno], signature, key, seqno)
    BY DEF FirstSignedTx
  <1> DEFINE empty == [block |-> block, amount |-> amount,
                       target |-> target, signatures |-> <<>>,
                       sequence_number |-> seqno]
  <1>2. empty \in BurnTransaction /\ seqno \in Nat
    BY PalletAssumption DEF BurnTransaction
  <1> HIDE DEF empty
  <1> QED BY <1>1, <1>2, WithSignatureType, PalletAssumption DEF empty

(* No signer counts twice to the majority of a burn or of a refund.          *)
THEOREM SignersAreDistinct == Spec => []SignersDistinct
  <1>1. Init => SignersDistinct
    BY DEF Init, SignersDistinct, DistinctSigners
  <1>2. TypeOK /\ SignersDistinct /\ [Next]_palletVars => SignersDistinct'
    <2> SUFFICES ASSUME TypeOK, SignersDistinct, [Next]_palletVars
                 PROVE  SignersDistinct'
      OBVIOUS
    <2>1. ASSUME NEW id \in BurnId
          PROVE  /\ DistinctSigners(burn_transactions'[id])
                 /\ DistinctSigners(executed_burn_transactions'[id])
      <3>0. /\ burn_transactions[id] \in BurnTransaction \cup {None}
            /\ DistinctSigners(burn_transactions[id])
            /\ DistinctSigners(executed_burn_transactions[id])
        BY DEF TypeOK, SignersDistinct
      <3>1. CASE BurnLeft(id)
        BY <3>0, <3>1 DEF BurnLeft
      <3>2. CASE BurnCreated(id)
        BY <3>0, <3>2, NoSignerDistinct DEF BurnCreated
      <3>3. CASE BurnSigned(id)
        <4>1. DistinctSigners(burn_transactions'[id])
          BY <3>0, <3>3, SignedDistinct DEF BurnSigned, SignedTx
        <4> QED BY <4>1, <3>3 DEF BurnSigned, DistinctSigners
      <3>4. CASE BurnExecuted(id)
        BY <3>0, <3>4 DEF BurnExecuted, DistinctSigners
      <3>5. CASE BurnReset(id)
        BY <3>0, <3>5, NoSignerDistinct, ResetSignatures DEF BurnReset
      <3> QED BY <3>1, <3>2, <3>3, <3>4, <3>5, BurnSteps DEF BurnStep
    <2>2. ASSUME NEW h \in RefundHash
          PROVE  /\ DistinctSigners(refund_transactions'[h])
                 /\ DistinctSigners(executed_refund_transactions'[h])
      <3>0. /\ refund_transactions[h] \in BurnTransaction \cup {None}
            /\ DistinctSigners(refund_transactions[h])
            /\ DistinctSigners(executed_refund_transactions[h])
        BY DEF TypeOK, SignersDistinct, RefundTransaction
      <3>1. CASE RefundLeft(h)
        BY <3>0, <3>1 DEF RefundLeft
      <3>2. CASE RefundSigned(h)
        <4>1. CASE SignedTx(refund_transactions[h], refund_transactions'[h])
          BY <3>0, <3>2, <4>1, SignedDistinct DEF RefundSigned, SignedTx
        <4>2. CASE FirstSignedTx(refund_transactions'[h])
          BY <3>0, <3>2, <4>2, OneSignerDistinct, FirstSignature DEF RefundSigned
        <4> QED BY <3>2, <4>1, <4>2 DEF RefundSigned
      <3>3. CASE RefundExecuted(h)
        BY <3>0, <3>3 DEF RefundExecuted, DistinctSigners
      <3>4. CASE RefundReset(h)
        BY <3>0, <3>4, NoSignerDistinct, ResetSignatures DEF RefundReset
      <3> QED BY <3>1, <3>2, <3>3, <3>4, RefundSteps DEF RefundStep
    <2> QED BY <2>1, <2>2 DEF SignersDistinct
  <1> QED BY <1>1, <1>2, TypeCorrect, PTL DEF Spec
-----------------------------------------------------------------------------
(* Ready, with the validators fixed. *)

(* The strengthening: what was announced is pending, and signed by a majority. *)
ReadyExactly(tx, announced) ==
    /\ announced <=> tx # None /\ IsReady(tx)
    /\ tx # None => Len(tx.signatures) <= Majority

ReadyInvariant ==
    /\ \A id \in BurnId : ReadyExactly(burn_transactions[id], id \in burn_ready)
    /\ \A h \in RefundHash : ReadyExactly(refund_transactions[h], h \in refund_ready)

(* A majority is at least one, and of no more validators than there are.     *)
LEMMA MajorityType ==
    ASSUME TypeOK
    PROVE  Majority \in Nat /\ Majority >= 1
  <1>1. IsFiniteSet(validators)
    BY PalletAssumption, FS_Subset DEF TypeOK
  <1> QED BY <1>1, FS_CardinalityType DEF Majority

(* Without candidates no step changes the validators, nor the majority.      *)
LEMMA MajorityFixed ==
    ASSUME Candidate = {}, [Next]_palletVars
    PROVE  Majority' = Majority
  <1>1. CASE UNCHANGED palletVars
    BY <1>1 DEF palletVars, adminVars, Majority
  <1>2. ASSUME \/ \E target \in FeeCandidate : SetFeeAccount(target)
               \/ \E fee \in Fee : SetWithdrawFee(fee) \/ SetDepositFee(fee)
        PROVE  Majority' = Majority
    BY <1>2 DEF SetFeeAccount, SetWithdrawFee, SetDepositFee, Majority
  <1>3. ASSUME \/ \E validator, target \in Account, m \in MintId, amount \in Amount :
                    ProposeOrVoteMint(validator, m, target, amount)
               \/ \E source \in Account, target \in StellarAddress, amount \in Amount :
                    SwapToStellar(source, target, amount)
        PROVE  Majority' = Majority
    BY <1>3 DEF ProposeOrVoteMint, SwapToStellar, adminVars, Majority, MintOpen, NextBurnId, BurnedAmount
  <1>4. ASSUME NEW validator \in Account, NEW id \in BurnId,
               \/ \E target \in StellarAddress, amount \in Amount,
                     signature \in Sig, key \in StellarKey, seqno \in SeqNo :
                    ProposeBurnOrAddSig(validator, id, target, amount,
                                        signature, key, seqno)
               \/ SetBurnExecuted(validator, id)
        PROVE  Majority' = Majority
    BY <1>4 DEF ProposeBurnOrAddSig, SetBurnExecuted, adminVars, Majority, Without
  <1>5. ASSUME NEW validator \in Account, NEW h \in RefundHash,
               \/ \E target \in StellarAddress, amount \in Amount,
                     signature \in Sig, key \in StellarKey, seqno \in SeqNo :
                    CreateRefundOrAddSig(validator, h, target, amount,
                                         signature, key, seqno)
               \/ SetRefundExecuted(validator, h)
        PROVE  Majority' = Majority
    BY ZenonT(40), <1>5 DEF CreateRefundOrAddSig, SetRefundExecuted, adminVars, Majority, Without, RefundOpen
  <1>6. FinalizeBlock => Majority' = Majority
    BY DEF FinalizeBlock, adminVars, Majority
  <1> QED BY <1>1, <1>2, <1>3, <1>4, <1>5, <1>6 DEF Next

(* An accepted signature takes an entry one step nearer to the majority.     *)
LEMMA SignedReady ==
    ASSUME TypeOK, NEW tx \in BurnTransaction, NEW new, NEW ready,
           SignedTx(tx, new), ReadyExactly(tx, ready)
    PROVE  /\ new \in BurnTransaction
           /\ Len(new.signatures) <= Majority
           /\ ~IsReady(tx)
  <1>1. PICK signature \in Sig, key \in StellarKey, seqno \in SeqNo :
          /\ AcceptsSignature(tx, signature, key)
          /\ new = WithSignature(tx, signature, key, seqno)
    BY DEF SignedTx
  <1> DEFINE sig == [stellar_pub_key |-> key, signature |-> signature]
  <1>2. new \in BurnTransaction
    BY <1>1, WithSignatureType, PalletAssumption
  <1>3. new.signatures = Append(tx.signatures, sig)
    BY <1>1 DEF WithSignature, BurnTransaction
  <1>4. tx.signatures \in Seq(StellarSignature)
    BY DEF BurnTransaction
  <1>5. Len(new.signatures) = Len(tx.signatures) + 1 /\ Len(tx.signatures) \in Nat
    BY <1>3, <1>4
  <1>6. Len(tx.signatures) <= Majority /\ Len(tx.signatures) # Majority
    BY <1>1, PalletAssumption DEF ReadyExactly, SignedTx, AcceptsSignature, EnoughSignatures
  <1> QED BY <1>2, <1>5, <1>6, MajorityType DEF IsReady

(* While the validators stay the same, Ready is announced exactly when a      *)
(* majority has signed, and no signature is taken beyond it.                 *)
THEOREM ReadyWithFixedValidators ==
    ASSUME Candidate = {}
    PROVE  Spec => []MajorityIsReady
  <1>1. Init => ReadyInvariant
    BY DEF Init, ReadyInvariant, ReadyExactly
  <1>2. TypeOK /\ BurnLedger /\ ReadyInvariant /\ [Next]_palletVars
        => ReadyInvariant'
    <2> SUFFICES ASSUME TypeOK, BurnLedger, ReadyInvariant, [Next]_palletVars
                 PROVE  ReadyInvariant'
      OBVIOUS
    <2>0. Majority \in Nat /\ Majority >= 1 /\ Majority' = Majority
      BY MajorityType, MajorityFixed
    <2>1. ASSUME NEW id \in BurnId
          PROVE  ReadyExactly(burn_transactions[id], id \in burn_ready)'
      <3>0. /\ burn_transactions[id] \in BurnTransaction \cup {None}
            /\ ReadyExactly(burn_transactions[id], id \in burn_ready)
        BY DEF TypeOK, ReadyInvariant
      <3>1. CASE BurnLeft(id)
        BY <2>0, <3>0, <3>1 DEF BurnLeft, ReadyExactly, IsReady
      <3>2. CASE BurnCreated(id)
        <4>1. burn_transactions[id] = None
          BY <3>2, PalletAssumption DEF BurnCreated, BurnLedger, TypeOK
        <4> QED BY <2>0, <3>0, <3>2, <4>1 DEF BurnCreated, ReadyExactly, IsReady
      <3>3. CASE BurnSigned(id)
        <4>1. burn_transactions[id] \in BurnTransaction
          BY <3>0, <3>3 DEF BurnSigned, SignedTx
        <4>2. /\ burn_transactions'[id] \in BurnTransaction
              /\ Len(burn_transactions'[id].signatures) <= Majority
              /\ ~IsReady(burn_transactions[id])
          BY <3>0, <3>3, <4>1, SignedReady DEF BurnSigned
        <4> QED BY <2>0, <3>0, <3>3, <4>2, PalletAssumption
                DEF BurnSigned, ReadyExactly, IsReady
      <3>4. CASE BurnExecuted(id)
        BY <3>4 DEF BurnExecuted, ReadyExactly
      <3>5. CASE BurnReset(id)
        <4>1. burn_transactions'[id].signatures = <<>>
          BY <3>0, <3>5, ResetSignatures DEF BurnReset
        <4> QED BY <2>0, <3>5, <4>1 DEF BurnReset, ReadyExactly, IsReady
      <3> QED BY <3>1, <3>2, <3>3, <3>4, <3>5, BurnSteps DEF BurnStep
    <2>2. ASSUME NEW h \in RefundHash
          PROVE  ReadyExactly(refund_transactions[h], h \in refund_ready)'
      <3>0. /\ refund_transactions[h] \in BurnTransaction \cup {None}
            /\ ReadyExactly(refund_transactions[h], h \in refund_ready)
        BY DEF TypeOK, ReadyInvariant, RefundTransaction
      <3>1. CASE RefundLeft(h)
        BY <2>0, <3>0, <3>1 DEF RefundLeft, ReadyExactly, IsReady
      <3>2. CASE RefundSigned(h) /\ SignedTx(refund_transactions[h],
                                             refund_transactions'[h])
        <4>1. refund_transactions[h] \in BurnTransaction
          BY <3>0, <3>2 DEF SignedTx
        <4>2. /\ refund_transactions'[h] \in BurnTransaction
              /\ Len(refund_transactions'[h].signatures) <= Majority
              /\ ~IsReady(refund_transactions[h])
          BY <3>0, <3>2, <4>1, SignedReady
        <4> QED BY <2>0, <3>0, <3>2, <4>2, PalletAssumption
                DEF RefundSigned, ReadyExactly, IsReady
      <3>3. CASE /\ RefundSigned(h) /\ refund_transactions[h] = None
                 /\ FirstSignedTx(refund_transactions'[h])
        <4>1. /\ Len(refund_transactions'[h].signatures) = 1
              /\ refund_transactions'[h] # None
          BY <3>3, FirstSignature, FirstSignedTxType DEF TypeOK
        <4> QED BY <2>0, <3>0, <3>3, <4>1 DEF RefundSigned, ReadyExactly, IsReady
      <3>4. CASE RefundExecuted(h)
        BY <3>4 DEF RefundExecuted, ReadyExactly
      <3>5. CASE RefundReset(h)
        <4>1. refund_transactions'[h].signatures = <<>>
          BY <3>0, <3>5, ResetSignatures DEF RefundReset
        <4> QED BY <2>0, <3>5, <4>1 DEF RefundReset, ReadyExactly, IsReady
      <3> QED BY <3>1, <3>2, <3>3, <3>4, <3>5, RefundSteps
              DEF RefundStep, RefundSigned
    <2> QED BY <2>1, <2>2 DEF ReadyInvariant
  <1>3. ReadyInvariant => MajorityIsReady
    BY DEF ReadyInvariant, ReadyExactly, MajorityIsReady, AnnouncedIffMajority
  <1> QED BY <1>1, <1>2, <1>3, TypeCorrect, BurnLedgerInvariant, PTL DEF Spec

-----------------------------------------------------------------------------
(* The payment. *)

(* A signature leaves the target and the amount alone.                       *)
LEMMA SignedTerms ==
    ASSUME NEW old \in BurnTransaction, NEW new, SignedTx(old, new)
    PROVE  KeepsTerms(old, new)
  <1>1. PICK signature \in Sig, key \in StellarKey, seqno \in SeqNo :
          new = WithSignature(old, signature, key, seqno)
    BY DEF SignedTx
  <1>2. new \in BurnTransaction
    BY <1>1, WithSignatureType, PalletAssumption
  <1> QED BY <1>1, <1>2, PalletAssumption
         DEF WithSignature, BurnTransaction, KeepsTerms

(* And so does a reset.                                                      *)
LEMMA ResetTerms ==
    ASSUME NEW tx \in BurnTransaction, block \in Nat
    PROVE  KeepsTerms(tx, Reset(tx))
  <1>1. Reset(tx) # None
    BY ResetType, PalletAssumption
  <1> QED BY <1>1 DEF Reset, BurnTransaction, KeepsTerms

-----------------------------------------------------------------------------
(* What is executed, and what was agreed, does not change. *)

(* No later call changes an executed mint, burn or refund.                   *)
THEOREM ExecutedStaysExecuted == Spec => ExecutedIsFinal
  <1>1. TypeOK /\ [Next]_palletVars => KeepsExecuted
    <2> SUFFICES ASSUME TypeOK, [Next]_palletVars PROVE KeepsExecuted
      OBVIOUS
    <2>1. ASSUME NEW m \in MintId, executed_mint_transactions[m] # None
          PROVE  executed_mint_transactions'[m] = executed_mint_transactions[m]
      BY <2>1, MintStep, NotMintStep
    <2>2. ASSUME NEW id \in BurnId, executed_burn_transactions[id] # None
          PROVE  executed_burn_transactions'[id] = executed_burn_transactions[id]
      BY <2>2, BurnSteps DEF BurnStep, BurnLeft, BurnCreated, BurnSigned,
                             BurnExecuted, BurnReset
    <2>3. ASSUME NEW h \in RefundHash, executed_refund_transactions[h] # None
          PROVE  executed_refund_transactions'[h] = executed_refund_transactions[h]
      BY <2>3, RefundSteps DEF RefundStep, RefundLeft, RefundSigned,
                               RefundExecuted, RefundReset
    <2> QED BY <2>1, <2>2, <2>3 DEF KeepsExecuted
  <1> QED BY <1>1, TypeCorrect, PTL DEF Spec, ExecutedIsFinal

(* No step changes the target or the amount of a burn.                       *)
LEMMA FrozenTermsStep ==
    ASSUME TypeOK, BurnLedger, [Next]_palletVars
    PROVE  KeepsBurnTerms
  <1> SUFFICES ASSUME NEW id \in 1..burn_transaction_id
               PROVE  KeepsTerms(BurnRecord(burn_transactions,
                                            executed_burn_transactions, id),
                                 BurnRecord(burn_transactions',
                                            executed_burn_transactions', id))
    BY DEF KeepsBurnTerms
  <1> USE DEF KeepsTerms
  <1>1. /\ id \in BurnId /\ id \in Nat /\ burn_transaction_id \in Nat
        /\ id <= burn_transaction_id
    BY PalletAssumption DEF TypeOK, BurnId
  <1>2. /\ burn_transactions[id] \in BurnTransaction \cup {None}
        /\ executed_burn_transactions[id] \in BurnTransaction \cup {None}
        /\ burn_transactions[id] = None \/ executed_burn_transactions[id] = None
        /\ burn_transactions[id] # None \/ executed_burn_transactions[id] # None
    BY <1>1 DEF TypeOK, BurnLedger
  <1>3. CASE BurnLeft(id)
    BY <1>2, <1>3 DEF BurnLeft, BurnRecord
  <1>4. CASE BurnCreated(id)
    BY <1>1, <1>4 DEF BurnCreated
  <1>5. CASE BurnSigned(id)
    <2>1. burn_transactions[id] \in BurnTransaction
      BY <1>2, <1>5 DEF BurnSigned, SignedTx
    <2>2. KeepsTerms(burn_transactions[id], burn_transactions'[id])
      BY <1>5, <2>1, SignedTerms DEF BurnSigned
    <2> QED BY <2>2, <1>5 DEF BurnSigned, SignedTx, BurnRecord
  <1>6. CASE BurnExecuted(id)
    BY <1>2, <1>6 DEF BurnExecuted, BurnRecord
  <1>7. CASE BurnReset(id)
    <2>1. burn_transactions[id] \in BurnTransaction
      BY <1>2, <1>7 DEF BurnReset
    <2>2. KeepsTerms(burn_transactions[id], burn_transactions'[id])
      BY <1>7, <2>1, ResetTerms DEF BurnReset, TypeOK
    <2> QED BY <2>2, <1>7 DEF BurnReset, BurnRecord
  <1> QED BY <1>1, <1>3, <1>4, <1>5, <1>6, <1>7, BurnSteps DEF BurnStep

(* The payment a burn stands for is fixed at the swap: signatures, resets    *)
(* and the execution leave its target and amount as they were.               *)
THEOREM BurnTermsAreFrozen == Spec => BurnTermsFrozen
  BY FrozenTermsStep, TypeCorrect, BurnLedgerInvariant, PTL DEF Spec, BurnTermsFrozen

-----------------------------------------------------------------------------
(* Votes, and the money they move. *)

(* What a vote adds to: the pending mint, or the one just proposed, has one   *)
(* vote less than a majority at most.                                        *)
Undecided(tx) == tx \in MintTransaction /\ tx.votes \in 0..(Majority - 1)

(* A vote either leaves the mint undecided or executes it with a majority,    *)
(* and then pays its target and the fee account only.                        *)
LEMMA VoteDecides ==
    ASSUME TypeOK, VotesDecide, NEW validator \in Account,
           NEW target \in Account, NEW m \in MintId, NEW amount \in Amount,
           ProposeOrVoteMint(validator, m, target, amount)
    PROVE  /\ executed_mint_transactions[m] = None
           /\ \E tx \in MintTransaction :
                \/ /\ tx.votes \in 1..(Majority - 1)
                   /\ mint_transactions' = [mint_transactions EXCEPT ![m] = tx]
                   /\ UNCHANGED <<executed_mint_transactions, balances>>
                \/ /\ tx.votes = Majority
                   /\ MintTft(m, tx)
  <1> DEFINE found == IF mint_transactions[m] # None
                      THEN mint_transactions[m]
                      ELSE [amount |-> amount, target |-> target,
                            block |-> block, votes |-> 0]
             tx == [found EXCEPT !.votes = @ + 1]
  <1>1. VoteMint(m, found) /\ executed_mint_transactions[m] = None
    BY DEF ProposeOrVoteMint, MintOpen
  <1>2. Undecided(found)
    <2>1. CASE mint_transactions[m] # None
      BY <2>1, MajorityType DEF TypeOK, VotesDecide, Undecided
    <2>2. CASE mint_transactions[m] = None
      <3>1. found = [amount |-> amount, target |-> target, block |-> block,
                     votes |-> 0]
        BY <2>2
      <3>2. amount \in Nat /\ block \in Nat
        BY PalletAssumption DEF TypeOK
      <3> HIDE DEF found
      <3>3. found \in MintTransaction /\ found.votes = 0
        BY <3>1, <3>2 DEF MintTransaction
      <3> QED BY <3>3, MajorityType DEF Undecided
    <2> QED BY <2>1, <2>2
  <1> HIDE DEF found
  <1>3. tx \in MintTransaction /\ tx.votes = found.votes + 1
    BY <1>2 DEF Undecided, MintTransaction
  <1>4. tx.votes \in 1..Majority
    BY <1>2, <1>3, MajorityType DEF Undecided
  <1>5. \/ /\ ~Decided(tx)
           /\ mint_transactions' = [mint_transactions EXCEPT ![m] = tx]
           /\ UNCHANGED <<executed_mint_transactions, balances>>
        \/ Decided(tx) /\ MintTft(m, tx)
    BY <1>1 DEF VoteMint
  <1> HIDE DEF tx
  <1>6. Decided(tx) <=> tx.votes = Majority
    BY <1>4, MajorityType DEF Decided
  <1>7. ~Decided(tx) => tx.votes \in 1..(Majority - 1)
    BY <1>4, <1>6, MajorityType
  <1> QED BY <1>1, <1>3, <1>5, <1>6, <1>7

(* With the validators fixed, a pending mint is undecided and an executed one *)
(* was decided by its last vote: no vote is lost or counted beyond it.       *)
THEOREM VotesDecideWithFixedValidators ==
    ASSUME Candidate = {}
    PROVE  Spec => []VotesDecide
  <1>1. Init => VotesDecide
    BY DEF Init, VotesDecide
  <1>2. TypeOK /\ VotesDecide /\ [Next]_palletVars => VotesDecide'
    <2> SUFFICES ASSUME TypeOK, VotesDecide, [Next]_palletVars
                 PROVE  VotesDecide'
      OBVIOUS
    <2>0. Majority \in Nat /\ Majority' = Majority
      BY MajorityType, MajorityFixed
    <2>1. CASE UNCHANGED <<mint_transactions, executed_mint_transactions>>
      BY <2>0, <2>1 DEF VotesDecide
    <2>2. ASSUME NEW validator \in Account, NEW target \in Account,
                 NEW m \in MintId, NEW amount \in Amount,
                 ProposeOrVoteMint(validator, m, target, amount)
          PROVE  VotesDecide'
      <3>1. PICK tx \in MintTransaction :
              \/ /\ tx.votes \in 1..(Majority - 1)
                 /\ mint_transactions' = [mint_transactions EXCEPT ![m] = tx]
                 /\ UNCHANGED <<executed_mint_transactions, balances>>
              \/ /\ tx.votes = Majority
                 /\ MintTft(m, tx)
        BY <2>2, VoteDecides
      <3>2. CASE tx.votes \in 1..(Majority - 1)
                 /\ mint_transactions' = [mint_transactions EXCEPT ![m] = tx]
                 /\ UNCHANGED executed_mint_transactions
        BY <2>0, <3>2 DEF TypeOK, VotesDecide
      <3>3. CASE tx.votes = Majority /\ MintTft(m, tx)
        <4> DEFINE done == [tx EXCEPT !.block = block]
        <4>1. done.votes = Majority
          BY <3>3 DEF MintTransaction
        <4>2. /\ mint_transactions' = [mint_transactions EXCEPT ![m] = None]
              /\ executed_mint_transactions'
                   = [executed_mint_transactions EXCEPT ![m] = done]
          BY <3>3 DEF MintTft, Without
        <4> HIDE DEF done
        <4> QED BY <2>0, <4>1, <4>2 DEF TypeOK, VotesDecide
      <3> QED BY <3>1, <3>2, <3>3
    <2> QED BY <2>1, <2>2, NotMintStep
  <1> QED BY <1>1, <1>2, TypeCorrect, PTL DEF Spec

(* A deposit touches no other account than the one it is for.                *)
LEMMA DepositLeaves ==
    ASSUME NEW bal \in [Account -> Nat], NEW who \in Account, NEW value \in Nat,
           NEW a \in Account, a # who
    PROVE  DepositCreating(bal, who, value)[a] = bal[a]
  BY DEF DepositCreating

(* And the fee none but the fee account.                                     *)
LEMMA FeeLeaves ==
    ASSUME NEW bal \in [Account -> Nat], NEW fee \in Nat,
           fee_account \in Account \cup {None},
           NEW a \in Account, a # fee_account
    PROVE  DepositFeeTo(bal, fee)[a] = bal[a]
  BY DepositLeaves DEF DepositFeeTo

(* The execution of a mint pays its target and the fee account only.         *)
LEMMA MintMoves ==
    ASSUME TypeOK, NEW m \in MintId, NEW tx \in MintTransaction,
           executed_mint_transactions[m] = None, MintTft(m, tx)
    PROVE  MovesMoneyWithEntry
  <1> DEFINE done == [tx EXCEPT !.block = block]
             paid == DepositCreating(balances, tx.target, MintedAmount(tx))
  <1>1. done \in MintTransaction /\ done.target = tx.target /\ done # None
    <2>1. done \in MintTransaction
      BY VotedType DEF TypeOK
    <2>2. done.target = tx.target
      BY DEF MintTransaction
    <2> HIDE DEF done
    <2> QED BY <2>1, <2>2, PalletAssumption
  <1>2. tx.target \in Account /\ MintedAmount(tx) \in Nat
    <2>1. tx.target \in Account /\ tx.amount \in Nat
      BY DEF MintTransaction
    <2>2. tx.amount > deposit_fee
      BY DEF MintTft
    <2> QED BY <2>1, <2>2, NetAmount DEF MintedAmount, TypeOK
  <1>3. /\ mint_transactions'[m] = None
        /\ executed_mint_transactions'[m] = done
        /\ balances' = DepositFeeTo(paid, deposit_fee)
    BY DEF MintTft, Without, TypeOK
  <1>4. ASSUME NEW a \in Account, a # tx.target, a # fee_account
        PROVE  balances'[a] = balances[a]
    <2>1. paid \in [Account -> Nat]
      BY <1>2, DepositCreatingType DEF TypeOK
    <2>2. paid[a] = balances[a]
      BY <1>2, <1>4, DepositLeaves DEF TypeOK
    <2> HIDE DEF paid
    <2>3. DepositFeeTo(paid, deposit_fee)[a] = paid[a]
      BY <1>4, <2>1, FeeLeaves DEF TypeOK
    <2> QED BY <1>3, <2>2, <2>3
  <1> HIDE DEF done
  <1> QED BY <1>1, <1>3, <1>4 DEF MovesMoneyWithEntry

(* The steps that neither vote nor swap leave the balances alone.            *)
LEMMA NoMoneyStep ==
    ASSUME [Next]_palletVars,
           ~ \E validator, target \in Account, m \in MintId, amount \in Amount :
               ProposeOrVoteMint(validator, m, target, amount),
           ~ \E source \in Account, target \in StellarAddress, amount \in Amount :
               SwapToStellar(source, target, amount)
    PROVE  balances' = balances
  <1>1. CASE UNCHANGED palletVars
    BY <1>1 DEF palletVars
  <1>2. ASSUME \/ \E target \in Candidate :
                    AddBridgeValidator(target) \/ RemoveBridgeValidator(target)
               \/ \E target \in FeeCandidate : SetFeeAccount(target)
               \/ \E fee \in Fee : SetWithdrawFee(fee) \/ SetDepositFee(fee)
        PROVE  balances' = balances
    BY <1>2 DEF AddBridgeValidator, RemoveBridgeValidator, SetFeeAccount,
                SetWithdrawFee, SetDepositFee
  <1>3. ASSUME NEW validator \in Account, NEW id \in BurnId,
               \/ \E target \in StellarAddress, amount \in Amount,
                     signature \in Sig, key \in StellarKey, seqno \in SeqNo :
                    ProposeBurnOrAddSig(validator, id, target, amount,
                                        signature, key, seqno)
               \/ SetBurnExecuted(validator, id)
        PROVE  balances' = balances
    BY <1>3 DEF ProposeBurnOrAddSig, SetBurnExecuted
  <1>4. ASSUME NEW validator \in Account, NEW h \in RefundHash,
               \/ \E target \in StellarAddress, amount \in Amount,
                     signature \in Sig, key \in StellarKey, seqno \in SeqNo :
                    CreateRefundOrAddSig(validator, h, target, amount,
                                         signature, key, seqno)
               \/ SetRefundExecuted(validator, h)
        PROVE  balances' = balances
    BY ZenonT(40), <1>4 DEF CreateRefundOrAddSig, SetRefundExecuted
  <1>5. FinalizeBlock => balances' = balances
    BY DEF FinalizeBlock
  <1> QED BY <1>1, <1>2, <1>3, <1>4, <1>5 DEF Next

(* A vote moves money when it decides, and then with the entry it executes.   *)
LEMMA VoteMoves ==
    ASSUME TypeOK, NEW validator \in Account, NEW target \in Account,
           NEW m \in MintId, NEW amount \in Amount,
           ProposeOrVoteMint(validator, m, target, amount)
    PROVE  MovesMoneyWithEntry
  <1> DEFINE found == IF mint_transactions[m] # None
                      THEN mint_transactions[m]
                      ELSE [amount |-> amount, target |-> target,
                            block |-> block, votes |-> 0]
             tx == [found EXCEPT !.votes = @ + 1]
  <1>1. VoteMint(m, found) /\ executed_mint_transactions[m] = None
    BY DEF ProposeOrVoteMint, MintOpen
  <1>2. balances' = balances \/ MintTft(m, tx)
    BY <1>1 DEF VoteMint
  <1>3. found \in MintTransaction
    BY PalletAssumption DEF TypeOK, MintTransaction
  <1> HIDE DEF found
  <1>4. tx \in MintTransaction
    BY <1>3, VotedType
  <1> HIDE DEF tx
  <1>5. CASE balances' = balances
    BY <1>5 DEF MovesMoneyWithEntry
  <1>6. CASE MintTft(m, tx)
    BY <1>1, <1>4, <1>6, MintMoves
  <1> QED BY <1>2, <1>5, <1>6

(* No balance changes but by the execution of a mint, for its target and the  *)
(* fee account, and by a swap, which creates a burn.                         *)
THEOREM MoneyMovesOnlyWithEntries == Spec => MoneyMovesWithLedgerEntry
  <1>1. TypeOK /\ [Next]_palletVars => MovesMoneyWithEntry
    <2> SUFFICES ASSUME TypeOK, [Next]_palletVars PROVE MovesMoneyWithEntry
      OBVIOUS
    <2>1. CASE \E validator, target \in Account, m \in MintId, amount \in Amount :
                 ProposeOrVoteMint(validator, m, target, amount)
      BY <2>1, VoteMoves
    <2>2. CASE \E source \in Account, target \in StellarAddress, amount \in Amount :
                 SwapToStellar(source, target, amount)
      BY <2>2 DEF SwapToStellar, NextBurnId, MovesMoneyWithEntry
    <2> QED BY <2>1, <2>2, NoMoneyStep DEF MovesMoneyWithEntry
  <1> QED BY <1>1, TypeCorrect, PTL DEF Spec, MoneyMovesWithLedgerEntry
-----------------------------------------------------------------------------
(* The totals as sums of functions. *)

MintedTerms ==
    [m \in MintId |-> IF executed_mint_transactions[m] = None THEN 0
                      ELSE executed_mint_transactions[m].amount]

BurnedTerms ==
    [id \in BurnId |->
       LET burn == BurnRecord(burn_transactions, executed_burn_transactions, id)
       IN  IF burn = None THEN 0 ELSE burn.amount]

(* There are as many burns as there are ids.                                 *)
LEMMA BurnIdFinite == IsFiniteSet(BurnId)
<1>1. MaxBurnId \in Int /\ 1 \in Int
  BY PalletAssumption
<1> QED
  BY <1>1, FS_Interval DEF BurnId

(* The models sum over the values of an expression, the lemmas over those of   *)
(* a function.                                                               *)
LEMMA TotalIsSum ==
    ASSUME NEW bal
    PROVE  TotalBalance(bal) = SumOver(bal, Account)
BY DEF TotalBalance, SumOver

(* And so for the amounts of the executed mints, if they are finitely many.   *)
LEMMA MintedIsSum ==
    ASSUME IsFiniteSet(MintId)
    PROVE  MintedTotal = SumOver(MintedTerms, MintId)
<1> DEFINE Amount_(m) == IF executed_mint_transactions[m] = None THEN 0
                         ELSE executed_mint_transactions[m].amount
           Computed(F) ==
             F = [s \in SUBSET MintId |->
                    IF s = {} THEN 0
                    ELSE Amount_(Pick(s)) + F[s \ {Pick(s)}]]
<1>1. ASSUME NEW F
      PROVE  IsSum(F, MintId, MintedTerms) <=> Computed(F)
  <2>1. ASSUME NEW s \in SUBSET MintId, s # {}
        PROVE  MintedTerms[Pick(s)] = Amount_(Pick(s))
    BY <2>1, Picked DEF MintedTerms
  <2> QED
    BY <2>1 DEF IsSum, Unfolded
<1>2. PICK F : IsSum(F, MintId, MintedTerms)
              /\ SumOver(MintedTerms, MintId) = F[MintId]
  BY SumIsSum
<1>3. \E G : Computed(G) /\ MintedTotal = G[MintId]
  BY <1>1, <1>2 DEF MintedTotal, AmountsOf, MapThenSumSet, MapThenFoldSet, Pick
<1> HIDE DEF Computed
<1>4. PICK G : Computed(G) /\ MintedTotal = G[MintId]
  BY <1>3
<1>5. MintId \in SUBSET MintId /\ IsSum(G, MintId, MintedTerms)
  BY <1>1, <1>4
<1>6. F[MintId] = G[MintId]
  BY <1>2, <1>5, SumsAgree
<1> QED
  BY <1>2, <1>4, <1>6

(* And for those of the burns.                                               *)
LEMMA BurnedIsSum ==
    BurnedTotal = SumOver(BurnedTerms, BurnId)
<1> DEFINE Record_(id) ==
             BurnRecord(burn_transactions, executed_burn_transactions, id)
           Amount_(id) == IF Record_(id) = None THEN 0 ELSE Record_(id).amount
           Computed(F) ==
             F = [s \in SUBSET BurnId |->
                    IF s = {} THEN 0
                    ELSE Amount_(Pick(s)) + F[s \ {Pick(s)}]]
<1>1. ASSUME NEW F
      PROVE  IsSum(F, BurnId, BurnedTerms) <=> Computed(F)
  <2>1. ASSUME NEW s \in SUBSET BurnId, s # {}
        PROVE  BurnedTerms[Pick(s)] = Amount_(Pick(s))
    BY <2>1, Picked DEF BurnedTerms
  <2> QED
    BY <2>1 DEF IsSum, Unfolded
<1>2. PICK F : IsSum(F, BurnId, BurnedTerms)
              /\ SumOver(BurnedTerms, BurnId) = F[BurnId]
  BY BurnIdFinite, SumIsSum
<1>3. \E G : Computed(G) /\ BurnedTotal = G[BurnId]
  BY <1>1, <1>2 DEF BurnedTotal, AmountsOf, MapThenSumSet, MapThenFoldSet, Pick
<1> HIDE DEF Computed
<1>4. PICK G : Computed(G) /\ BurnedTotal = G[BurnId]
  BY <1>3
<1>5. BurnId \in SUBSET BurnId /\ IsSum(G, BurnId, BurnedTerms)
  BY <1>1, <1>4
<1>6. F[BurnId] = G[BurnId]
  BY BurnIdFinite, <1>2, <1>5, SumsAgree
<1> QED
  BY <1>2, <1>4, <1>6

-----------------------------------------------------------------------------
(* What the steps add to the sums. *)

(* A deposit adds its value at most: all of it, or nothing when the account  *)
(* stays dead.                                                               *)
LEMMA DepositAdds ==
    ASSUME NEW bal \in [Account -> Nat], NEW who \in Account, NEW value \in Nat
    PROVE  SumOver(DepositCreating(bal, who, value), Account)
             <= SumOver(bal, Account) + value
<1> DEFINE new == DepositCreating(bal, who, value)
<1>1. IsFiniteSet(Account)
  BY PalletAssumption
<1>2. new \in [Account -> Nat]
  BY DepositCreatingType
<1>3. /\ \A a \in Account \ {who} : new[a] = bal[a]
      /\ new[who] <= bal[who] + value
  BY DEF DepositCreating
<1> HIDE DEF new
<1>4. SumOver(new, Account) = SumOver(bal, Account) + new[who] - bal[who]
  BY <1>1, <1>2, <1>3, SumChanges
<1>5. SumOver(bal, Account) \in Int /\ new[who] \in Nat /\ bal[who] \in Nat
  BY <1>1, <1>2, SumType
<1> QED
  BY <1>3, <1>4, <1>5 DEF new

(* The fee is added at most once, or lost when there is no fee account.      *)
LEMMA FeeAdds ==
    ASSUME NEW bal \in [Account -> Nat], NEW fee \in Nat,
           fee_account \in Account \cup {None}
    PROVE  SumOver(DepositFeeTo(bal, fee), Account) <= SumOver(bal, Account) + fee
<1>1. SumOver(bal, Account) \in Int
  BY PalletAssumption, SumType
<1> QED
  BY <1>1, DepositAdds DEF DepositFeeTo

BurnedUpTo == SumOver(BurnedTerms, BurnId)
MintedSoFar == SumOver(MintedTerms, MintId)
Held == SumOver(balances, Account)

(* The terms are amounts.                                                    *)
LEMMA TermsType ==
    ASSUME TypeOK
    PROVE  /\ \A m \in MintId : MintedTerms[m] \in Nat
           /\ \A id \in BurnId : BurnedTerms[id] \in Nat
           /\ \A a \in Account : balances[a] \in Nat
BY DEF TypeOK, MintedTerms, BurnedTerms, BurnRecord, MintTransaction,
       BurnTransaction

(* The execution of a mint adds no more to the balances than what it counts   *)
(* for among the mints.                                                      *)
LEMMA MintAdds ==
    ASSUME IsFiniteSet(MintId), TypeOK, NEW m \in MintId, NEW tx \in MintTransaction,
           executed_mint_transactions[m] = None, MintTft(m, tx)
    PROVE  /\ MintedSoFar' = MintedSoFar + tx.amount
           /\ Held' <= Held + tx.amount
           /\ tx.amount \in Nat
<1> DEFINE done == [tx EXCEPT !.block = block]
           paid == DepositCreating(balances, tx.target, MintedAmount(tx))
<1>1. done \in MintTransaction /\ done.amount = tx.amount /\ done # None
  <2>1. done \in MintTransaction
    BY VotedType DEF TypeOK
  <2>2. done.amount = tx.amount
    BY DEF MintTransaction
  <2> HIDE DEF done
  <2> QED BY <2>1, <2>2, PalletAssumption
<1>2. /\ executed_mint_transactions' = [executed_mint_transactions EXCEPT ![m] = done]
      /\ balances' = DepositFeeTo(paid, deposit_fee)
      /\ tx.amount > deposit_fee
      /\ tx.amount \in Nat /\ tx.target \in Account
      /\ deposit_fee \in Nat /\ fee_account \in Account \cup {None}
  BY DEF MintTft, TypeOK, MintTransaction
<1> HIDE DEF done
<1>3. /\ MintedTerms[m] = 0 /\ MintedTerms'[m] = tx.amount
      /\ \A n \in MintId \ {m} : MintedTerms'[n] = MintedTerms[n]
  BY <1>1, <1>2 DEF MintedTerms, TypeOK
<1>4. \A n \in MintId : MintedTerms[n] \in Nat
  BY TermsType
<1>5. \A n \in MintId : MintedTerms[n] \in Int /\ MintedTerms'[n] \in Int
  BY <1>2, <1>3, <1>4
<1>6. MintedSoFar' = MintedSoFar + tx.amount - 0
  BY <1>3, <1>5, SumChanges DEF MintedSoFar
<1>7. MintedSoFar \in Int
  BY <1>5, SumType DEF MintedSoFar
<1>8. MintedAmount(tx) = tx.amount - deposit_fee /\ MintedAmount(tx) \in Nat
  BY <1>2, NetAmount DEF MintedAmount
<1>9. balances \in [Account -> Nat] /\ paid \in [Account -> Nat]
  BY <1>2, <1>8, DepositCreatingType DEF TypeOK
<1>10. SumOver(paid, Account) <= Held + MintedAmount(tx)
  BY <1>2, <1>8, <1>9, DepositAdds DEF Held
<1> HIDE DEF paid
<1>11. Held' <= SumOver(paid, Account) + deposit_fee
  BY <1>2, <1>9, FeeAdds DEF Held
<1>12. SumOver(paid, Account) \in Int /\ Held \in Int /\ Held' \in Int
  <2>1. balances' \in [Account -> Nat]
    BY <1>2, <1>9, DepositFeeToType
  <2> QED
    BY <2>1, <1>9, PalletAssumption, SumType DEF Held
<1> QED
  BY <1>2, <1>6, <1>7, <1>8, <1>10, <1>11, <1>12

(* A burn that is there already goes on counting for its amount, whatever is  *)
(* done to it.                                                               *)
LEMMA OldBurnsCount ==
    ASSUME TypeOK, BurnLedger, [Next]_palletVars,
           NEW id \in BurnId, id <= burn_transaction_id
    PROVE  BurnedTerms'[id] = BurnedTerms[id]
<1> DEFINE old == BurnRecord(burn_transactions, executed_burn_transactions, id)
           new == BurnRecord(burn_transactions', executed_burn_transactions', id)
<1>1. id \in 1..burn_transaction_id
  BY DEF BurnId, TypeOK
<1>2. new # None /\ new.amount = old.amount
  BY <1>1, FrozenTermsStep DEF KeepsBurnTerms, KeepsTerms
<1>3. old # None
  BY DEF BurnLedger, BurnRecord
<1> QED
  BY <1>2, <1>3 DEF BurnedTerms

(* A burn that is not there counts for nothing.                              *)
LEMMA NoBurnYet ==
    ASSUME BurnLedger, NEW id \in BurnId, ~(id <= burn_transaction_id)
    PROVE  BurnedTerms[id] = 0
BY DEF BurnLedger, BurnedTerms, BurnRecord

(* The swap takes from the balances at least what its burn counts for.        *)
LEMMA SwapAdds ==
    ASSUME TypeOK, TypeOK', BurnLedger, BurnLedger', [Next]_palletVars,
           NEW source \in Account, NEW target \in StellarAddress,
           NEW amount \in Amount, SwapToStellar(source, target, amount)
    PROVE  /\ BurnedUpTo' = BurnedUpTo + BurnedAmount(amount)
           /\ Held' <= Held - BurnedAmount(amount)
           /\ MintedSoFar' = MintedSoFar
<1> DEFINE id == burn_transaction_id + 1
           left == [balances EXCEPT ![source] = @ - amount]
           burn == [block |-> block, amount |-> amount - withdraw_fee,
                    target |-> target, signatures |-> <<>>,
                    sequence_number |-> 0]
<1>1. /\ id \in BurnId /\ burn_transaction_id' = id /\ burn_transaction_id \in Nat
      /\ burn_transactions' = [burn_transactions EXCEPT ![id] = burn]
      /\ executed_burn_transactions' = executed_burn_transactions
      /\ executed_mint_transactions' = executed_mint_transactions
      /\ balances' = DepositFeeTo(left, withdraw_fee)
      /\ amount > withdraw_fee /\ amount \in Nat /\ withdraw_fee \in Nat
      /\ fee_account \in Account \cup {None}
      /\ amount + Frozen[source] <= balances[source]
      /\ Frozen[source] \in Nat /\ balances[source] \in Nat
      /\ balances \in [Account -> Nat]
  BY PalletAssumption DEF SwapToStellar, NextBurnId, BurnedAmount, CanWithdraw, TypeOK,
                          mintVars
<1>2. amount - withdraw_fee \in Nat /\ balances[source] - amount \in Nat
  BY <1>1, NetAmount
<1>3. burn \in BurnTransaction /\ burn.amount = amount - withdraw_fee
  BY <1>2 DEF BurnTransaction, TypeOK
<1> HIDE DEF burn
<1>4. burn # None
  BY <1>3, PalletAssumption
<1>5. BurnedTerms'[id] = amount - withdraw_fee
  BY <1>1, <1>3, <1>4 DEF BurnedTerms, BurnRecord, TypeOK
<1>6. BurnedTerms[id] = 0
  BY <1>1, NoBurnYet
<1>7. ASSUME NEW b \in BurnId \ {id}
      PROVE  BurnedTerms'[b] = BurnedTerms[b]
  BY <1>1 DEF BurnedTerms, BurnRecord, TypeOK
<1>8. \A b \in BurnId : BurnedTerms[b] \in Int /\ BurnedTerms'[b] \in Int
  <2>1. \A b \in BurnId : BurnedTerms[b] \in Nat
    BY TermsType
  <2> QED
    BY <1>2, <1>5, <1>7, <2>1
<1>10. BurnedUpTo' = BurnedUpTo + (amount - withdraw_fee) - 0
  BY <1>1, <1>5, <1>6, <1>7, <1>8, BurnIdFinite, SumChanges DEF BurnedUpTo
<1>11. BurnedUpTo \in Int
  BY <1>8, BurnIdFinite, SumType DEF BurnedUpTo
<1>12. left \in [Account -> Nat]
  BY <1>1, <1>2
<1>13. SumOver(left, Account) = Held - amount
  <2>1. \A a \in Account : balances[a] \in Int /\ left[a] \in Int
    BY <1>1, <1>12
  <2>2. left[source] = balances[source] - amount
        /\ \A a \in Account \ {source} : left[a] = balances[a]
    BY <1>1
  <2> HIDE DEF left
  <2>3. SumOver(left, Account)
          = SumOver(balances, Account) + left[source] - balances[source]
    BY <2>1, <2>2, PalletAssumption, SumChanges
  <2>4. SumOver(balances, Account) \in Int
    BY <2>1, PalletAssumption, SumType
  <2> QED
    BY <1>1, <2>2, <2>3, <2>4 DEF Held
<1> HIDE DEF left
<1>14. Held' <= SumOver(left, Account) + withdraw_fee
  BY <1>1, <1>12, FeeAdds DEF Held
<1>15. Held \in Int /\ Held' \in Int
  <2>1. balances' \in [Account -> Nat]
    BY <1>1, <1>12, DepositFeeToType
  <2> QED
    BY <1>1, <2>1, PalletAssumption, SumType DEF Held
<1>16. MintedSoFar' = MintedSoFar
  BY <1>1 DEF MintedSoFar, MintedTerms
<1> QED
  BY <1>1, <1>2, <1>10, <1>11, <1>13, <1>14, <1>15, <1>16 DEF BurnedAmount

(* No other step changes what the burns count for.                           *)
LEMMA NoSwapStep ==
    ASSUME TypeOK, BurnLedger, BurnLedger', [Next]_palletVars,
           burn_transaction_id' = burn_transaction_id
    PROVE  BurnedUpTo' = BurnedUpTo
<1>1. ASSUME NEW id \in BurnId
      PROVE  BurnedTerms'[id] = BurnedTerms[id]
  BY <1>1, OldBurnsCount, NoBurnYet DEF BurnLedger, BurnedTerms, BurnRecord
<1> QED
  BY <1>1, BurnIdFinite, SumEqual DEF BurnedUpTo

(* Only a swap hands out an id.                                              *)
LEMMA NoIdStep ==
    ASSUME [Next]_palletVars,
           ~ \E source \in Account, target \in StellarAddress, amount \in Amount :
               SwapToStellar(source, target, amount)
    PROVE  burn_transaction_id' = burn_transaction_id
<1>1. CASE UNCHANGED palletVars
  BY <1>1 DEF palletVars, burnVars
<1>2. ASSUME \/ \E target \in Candidate :
                  AddBridgeValidator(target) \/ RemoveBridgeValidator(target)
             \/ \E target \in FeeCandidate : SetFeeAccount(target)
             \/ \E fee \in Fee : SetWithdrawFee(fee) \/ SetDepositFee(fee)
             \/ \E validator, target \in Account, m \in MintId, amount \in Amount :
                  ProposeOrVoteMint(validator, m, target, amount)
             \/ \E validator \in Account, h \in RefundHash :
                  SetRefundExecuted(validator, h)
      PROVE  UNCHANGED burnVars
  BY <1>2 DEF AddBridgeValidator, RemoveBridgeValidator, SetFeeAccount,
              SetWithdrawFee, SetDepositFee, ProposeOrVoteMint, SetRefundExecuted
<1>3. ASSUME NEW validator \in Account, NEW h \in RefundHash,
             \E target \in StellarAddress, amount \in Amount,
                signature \in Sig, key \in StellarKey, seqno \in SeqNo :
               CreateRefundOrAddSig(validator, h, target, amount,
                                    signature, key, seqno)
      PROVE  UNCHANGED burnVars
  BY <1>3 DEF CreateRefundOrAddSig
<1>4. ASSUME NEW validator \in Account, NEW id \in BurnId,
             \/ \E target \in StellarAddress, amount \in Amount,
                   signature \in Sig, key \in StellarKey, seqno \in SeqNo :
                  ProposeBurnOrAddSig(validator, id, target, amount,
                                      signature, key, seqno)
             \/ SetBurnExecuted(validator, id)
      PROVE  burn_transaction_id' = burn_transaction_id
  BY <1>4 DEF ProposeBurnOrAddSig, SetBurnExecuted
<1>5. FinalizeBlock => burn_transaction_id' = burn_transaction_id
  BY DEF FinalizeBlock
<1> QED
  BY <1>1, <1>2, <1>3, <1>4, <1>5 DEF Next, burnVars

(* A vote adds to the balances and to the mints, when it decides.             *)
LEMMA VoteAdds ==
    ASSUME IsFiniteSet(MintId), TypeOK,
           NEW validator \in Account, NEW target \in Account,
           NEW m \in MintId, NEW amount \in Amount,
           ProposeOrVoteMint(validator, m, target, amount)
    PROVE  \/ MintedSoFar' = MintedSoFar /\ Held' = Held
           \/ \E more \in Nat : MintedSoFar' = MintedSoFar + more
                                /\ Held' <= Held + more
<1> DEFINE found == IF mint_transactions[m] # None
                    THEN mint_transactions[m]
                    ELSE [amount |-> amount, target |-> target,
                          block |-> block, votes |-> 0]
           tx == [found EXCEPT !.votes = @ + 1]
<1>1. VoteMint(m, found) /\ executed_mint_transactions[m] = None
  BY DEF ProposeOrVoteMint, MintOpen
<1>2. UNCHANGED <<executed_mint_transactions, balances>> \/ MintTft(m, tx)
  BY <1>1 DEF VoteMint
<1>3. found \in MintTransaction
  BY PalletAssumption DEF TypeOK, MintTransaction
<1> HIDE DEF found
<1>4. tx \in MintTransaction
  BY <1>3, VotedType
<1> HIDE DEF tx
<1>5. CASE UNCHANGED <<executed_mint_transactions, balances>>
  BY <1>5 DEF MintedSoFar, MintedTerms, Held
<1>6. CASE MintTft(m, tx)
  BY <1>1, <1>4, <1>6, MintAdds
<1> QED
  BY <1>2, <1>5, <1>6

-----------------------------------------------------------------------------
(* What the accounts hold and what is burned never exceeds what there was at  *)
(* genesis and what is minted: a decided vote adds no more to the balances    *)
(* than to the mints, a swap takes at least what its burn counts for, the rest *)
(* of the steps leave the four sums as they are.                              *)
BackedSums == Held + BurnedUpTo <= SumOver(GenesisBalance, Account) + MintedSoFar

(* The three sums are integers.                                              *)
LEMMA SumsType ==
    ASSUME TypeOK, IsFiniteSet(MintId)
    PROVE  Held \in Int /\ BurnedUpTo \in Int /\ MintedSoFar \in Int
<1>1. IsFiniteSet(BurnId) /\ IsFiniteSet(Account)
  BY PalletAssumption, BurnIdFinite
<1>2. /\ \A a \in Account : balances[a] \in Int
      /\ \A m \in MintId : MintedTerms[m] \in Int
      /\ \A id \in BurnId : BurnedTerms[id] \in Int
  BY TermsType
<1> QED
  BY <1>1, <1>2, SumType DEF Held, BurnedUpTo, MintedSoFar

(* No step makes the sums uncovered.                                         *)
LEMMA BackedStep ==
    ASSUME IsFiniteSet(MintId), TypeOK, TypeOK', BurnLedger, BurnLedger',
           BackedSums, [Next]_palletVars
    PROVE  BackedSums'
<1>1. /\ Held \in Int /\ BurnedUpTo \in Int /\ MintedSoFar \in Int
      /\ SumOver(GenesisBalance, Account) \in Int
  BY SumsType, SumType, PalletAssumption
<1>2. Held' \in Int /\ BurnedUpTo' \in Int /\ MintedSoFar' \in Int
  <2>1. IsFiniteSet(BurnId) /\ IsFiniteSet(Account)
    BY PalletAssumption, BurnIdFinite
  <2>2. /\ \A a \in Account : balances'[a] \in Int
        /\ \A m \in MintId : MintedTerms'[m] \in Int
        /\ \A id \in BurnId : BurnedTerms'[id] \in Int
    BY DEF TypeOK, MintedTerms, BurnedTerms, BurnRecord, MintTransaction,
           BurnTransaction
  <2> QED
    BY <2>1, <2>2, SumType DEF Held, BurnedUpTo, MintedSoFar
<1>3. ASSUME NEW source \in Account, NEW target \in StellarAddress,
             NEW amount \in Amount, SwapToStellar(source, target, amount)
      PROVE  BackedSums'
  <2>1. /\ BurnedUpTo' = BurnedUpTo + BurnedAmount(amount)
        /\ Held' <= Held - BurnedAmount(amount)
        /\ MintedSoFar' = MintedSoFar
    BY <1>3, SwapAdds
  <2>2. BurnedAmount(amount) \in Int
    BY PalletAssumption DEF BurnedAmount, TypeOK
  <2> QED
    BY <1>1, <1>2, <2>1, <2>2 DEF BackedSums
<1>4. ASSUME ~ \E source \in Account, target \in StellarAddress, amount \in Amount :
                 SwapToStellar(source, target, amount)
      PROVE  BackedSums'
  <2>1. BurnedUpTo' = BurnedUpTo
    BY <1>4, NoIdStep, NoSwapStep
  <2>2. CASE \E validator, target \in Account, m \in MintId, amount \in Amount :
               ProposeOrVoteMint(validator, m, target, amount)
    <3>1. \/ MintedSoFar' = MintedSoFar /\ Held' = Held
          \/ \E more \in Nat : MintedSoFar' = MintedSoFar + more
                               /\ Held' <= Held + more
      BY <2>2, VoteAdds
    <3> QED
      BY <1>1, <1>2, <2>1, <3>1 DEF BackedSums
  <2>3. CASE ~ \E validator, target \in Account, m \in MintId, amount \in Amount :
                 ProposeOrVoteMint(validator, m, target, amount)
    <3>1. balances' = balances /\ executed_mint_transactions' = executed_mint_transactions
      BY <1>4, <2>3, NoMoneyStep, NotMintStep
    <3>2. Held' = Held /\ MintedSoFar' = MintedSoFar
      BY <3>1 DEF Held, MintedSoFar, MintedTerms
    <3> QED
      BY <2>1, <3>2 DEF BackedSums
  <2> QED
    BY <2>2, <2>3
<1> QED
  BY <1>3, <1>4

(* Every token on tfchain is backed: for any accounts, balances, fees and      *)
(* existential deposit, and any finite set of mints.                          *)
THEOREM TokensAreBacked ==
    ASSUME IsFiniteSet(MintId)
    PROVE  Spec => []Backed
<1>1. Init => BackedSums
  <2> SUFFICES ASSUME Init PROVE BackedSums
    OBVIOUS
  <2>1. /\ \A m \in MintId : MintedTerms[m] = 0
        /\ \A id \in BurnId : BurnedTerms[id] = 0
        /\ balances = GenesisBalance
    BY DEF Init, MintedTerms, BurnedTerms, BurnRecord
  <2>2. MintedSoFar = 0 /\ BurnedUpTo = 0
    BY <2>1, BurnIdFinite, SumOfZeros DEF MintedSoFar, BurnedUpTo
  <2>3. Held \in Int
    BY <2>1, SumType, PalletAssumption DEF Held
  <2> QED
    BY <2>1, <2>2, <2>3 DEF BackedSums, Held
<1>2. BackedSums => Backed
  BY TotalIsSum, MintedIsSum, BurnedIsSum
     DEF BackedSums, Backed, Held, MintedSoFar, BurnedUpTo
<1> QED
  BY <1>1, <1>2, BackedStep, TypeCorrect, BurnLedgerInvariant, PTL DEF Spec
=============================================================================
