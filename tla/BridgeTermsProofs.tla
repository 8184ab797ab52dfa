------------------------- MODULE BridgeTermsProofs -------------------------
(***************************************************************************)
(* The daemons never make up what they ask the pallet or Stellar for: a      *)
(* mint is of a deposit, or gives back a burn; a refund returns a deposit;   *)
(* a burn or a refund is set executed after it was paid (MintedAsDeposited,  *)
(* RefundsTheBurn, RefundMeansPaid, ExecutedMeansPaid).  And so every step   *)
(* of the bridge is one of the pallet, whose theorems carry over.            *)
(*                                                                         *)
(* The argument: what every daemon is about to do, and every event it has    *)
(* still to read, is true of the burns, the deposits and the payments there  *)
(* are, and stays true, for none of those ever changes.                      *)
(***************************************************************************)
EXTENDS BridgeProofs, TftBridgePalletProofs

-----------------------------------------------------------------------------
(* The hypotheses. *)

PaymentTx == [target : StellarAddress, amount : Nat,
              memo : RefundHash \cup {None}, seqno : Nat]

\* The constants Amount, SeqNo and Sig are what callers pass to the pallet; the
\* code lets them pass anything.
CallsAreFree ==
    /\ Amount = Nat /\ SeqNo = Nat
    /\ \A key \in StellarKey, tx \in PaymentTx : SignatureOf(key, tx) \in Sig

\* "refund-<id>" is not the hash of a Stellar transaction.
IdsDiffer == BurnId \cap RefundHash = {}

-----------------------------------------------------------------------------
(* What is true of burns, deposits and payments. *)

Burns == 1..burn_transaction_id

BurnOf(id) == BurnRecord(burn_transactions, executed_burn_transactions, id)

Pays(tx, terms) == tx.target = terms.target /\ tx.amount = terms.amount

Claim(hash, entry) ==
    [hash |-> hash, target |-> entry.target, amount |-> entry.amount]

\* What each sender of a deposit has sent.
Owed ==
    {claim \in [hash : RefundHash, target : StellarAddress, amount : Nat] :
       \E tx \in Deposited : /\ tx.hash = claim.hash
                             /\ claim.amount = SentBy(tx, claim.target)}

Mintable ==
    {claim \in [hash : RefundHash, target : Account, amount : Nat] :
       \E tx \in Deposited, sender \in StellarAddress :
         /\ tx.hash = claim.hash
         /\ claim.target = MemoAccount[tx.memo]
         /\ claim.amount = SentBy(tx, sender)}

\* The burns that may be set executed, and the refunds.
Closable ==
    {id \in Burns : \/ faults.flaky \/ BurnOf(id).target \in BadTarget
                    \/ \E i \in DOMAIN payments : Pays(payments[i].tx, BurnOf(id))}

Returned ==
    {h \in RefundHash :
       \E i \in DOMAIN payments, tx \in Deposited :
         /\ tx.hash = h /\ payments[i].tx.memo = h
         /\ payments[i].tx.amount = SentBy(tx, payments[i].tx.target)}

KnownRefunds == {h \in RefundHash : refund_transactions[h] # None \/ Refunded(h)}

\* The deposits that the daemons read mint events of.
Readable ==
    {tx \in Deposited : \A i \in DOMAIN tx.operations :
                          tx.operations[i].type = "payment"}

-----------------------------------------------------------------------------
(* What a daemon may be about to do, and what it may still have to read. *)

RestJobs == {Idle} \cup [pc : {"mint"}, tx : Readable, left : Int]

SaveJobs == [pc : {"save"}, then : RestJobs]

CloseBurn(ids) == [pc : {"set_burn_executed"}, id : ids, then : {Idle}]

CloseRefund(hashes) ==
    [pc : {"set_refund_executed"}, id : hashes, then : {Idle}]

DownJobs ==
    [pc : {"down"}, why : {"crash", "submit", "not_found", "no_signatures"}]

FetchJobs ==
    [pc : {"fetch_burn"}, id : Burns] \cup [pc : {"fetch_refund"}, id : RefundHash]

SignBurnJobs ==
    {todo \in [pc : {"propose_burn"}, id : Burns, tx : PaymentTx, then : {Idle}] :
       Pays(todo.tx, BurnOf(todo.id))}

SignRefundJobs ==
    {todo \in [pc : {"create_refund"}, id : RefundHash, tx : PaymentTx,
               then : {Idle} \cup SaveJobs] :
       Claim(todo.id, todo.tx) \in Owed}

MintBackJobs ==
    {todo \in [pc : {"propose_mint"}, id : Closable, target : {User},
               amount : Nat, then : CloseBurn(Closable)] :
       todo.amount = BurnOf(todo.id).amount}

MintDepositJobs ==
    {todo \in [pc : {"propose_mint"}, id : RefundHash, target : Account,
               amount : Nat, then : SaveJobs] :
       Claim(todo.id, todo) \in Mintable}

SubmitBurnJobs ==
    {todo \in [pc : {"submit"}, id : Burns, signatures : Seq(StellarSignature),
               tx : PaymentTx, then : CloseBurn(Burns)] :
       Pays(todo.tx, BurnOf(todo.id)) /\ todo.then.id = todo.id}

SubmitRefundJobs ==
    {todo \in [pc : {"submit"}, id : RefundHash,
               signatures : Seq(StellarSignature), tx : PaymentTx,
               then : CloseRefund(RefundHash)] :
       /\ Claim(todo.id, todo.tx) \in Owed
       /\ todo.tx.memo = todo.id /\ todo.then.id = todo.id}

SubmitJobs == SubmitBurnJobs \cup SubmitRefundJobs
MintJobs == MintBackJobs \cup MintDepositJobs

Jobs ==
    RestJobs \cup SaveJobs \cup CloseBurn(Closable) \cup CloseRefund(Returned)
      \cup DownJobs \cup FetchJobs \cup SignBurnJobs \cup SignRefundJobs
      \cup MintJobs \cup SubmitJobs

CreatedEvents ==
    {e \in [type : {"BurnTransactionCreated"}, id : Burns, source : {User},
            target : StellarAddress, amount : Nat] : Pays(e, BurnOf(e.id))}

BurnExpiredEvents ==
    {e \in [type : {"BurnTransactionExpired"}, id : Burns,
            target : StellarAddress, amount : Nat] : Pays(e, BurnOf(e.id))}

RefundExpiredEvents ==
    {e \in [type : {"RefundTransactionExpired"}, hash : KnownRefunds,
            target : StellarAddress, amount : Nat] : Claim(e.hash, e) \in Owed}

TrueEvents ==
    CreatedEvents \cup BurnExpiredEvents \cup RefundExpiredEvents
      \cup [type : {"BurnTransactionReady"}, id : Burns]
      \cup [type : {"RefundTransactionReady"}, hash : KnownRefunds]

-----------------------------------------------------------------------------
(* The inductive invariant. *)

LedgersTrue ==
    /\ \A id \in BurnId : Burned(id) => id \in Closable
    /\ \A h \in RefundHash :
         refund_transactions[h] # None => Claim(h, refund_transactions[h]) \in Owed
    /\ \A h \in RefundHash : Refunded(h) => h \in Returned

IsDeposit(h, mint) == mint # None => Claim(h, mint) \in Mintable
GivesBack(id, mint) ==
    mint # None => id \in Burns /\ mint.target = User /\ mint.amount = BurnOf(id).amount

MintsTrue ==
    /\ \A h \in RefundHash : /\ IsDeposit(h, mint_transactions[h])
                             /\ IsDeposit(h, executed_mint_transactions[h])
    /\ \A id \in BurnId : /\ GivesBack(id, mint_transactions[id])
                          /\ GivesBack(id, executed_mint_transactions[id])

EventsTrue ==
    events \in Seq(TrueEvents) /\ inbox \in [Daemon -> Seq(TrueEvents)]

JobsTrue == job \in [Daemon -> Jobs]

AccountShape ==
    /\ account_seq \in Nat
    /\ payments \in Seq([id : BurnId \cup RefundHash, tx : PaymentTx])

StellarShape == wallet_seq \in [Daemon -> Nat] /\ AccountShape

FaultsShape ==
    /\ rounds \in [BurnId \cup RefundHash -> Nat]
    /\ faults \in Faults /\ breaks \in 0..faults.breaks

BridgeTerms ==
    /\ TypeOK /\ BurnLedger /\ StreamShape
    /\ StellarShape /\ FaultsShape
    /\ LedgersTrue /\ MintsTrue /\ EventsTrue /\ JobsTrue

-----------------------------------------------------------------------------
(* What is true stays true. *)

TermsGrow ==
    /\ KeepsBurnTerms /\ burn_transaction_id' >= burn_transaction_id
    /\ \A i \in DOMAIN payments : i \in DOMAIN payments' /\ payments'[i] = payments[i]
    /\ Deposited \subseteq Deposited'
    /\ KnownRefunds \subseteq KnownRefunds'
    /\ UNCHANGED faults

FactsStay ==
    /\ Burns \subseteq Burns' /\ KnownRefunds \subseteq KnownRefunds'
    /\ \A id \in Burns :
         Pays(BurnRecord(burn_transactions', executed_burn_transactions', id),
              BurnOf(id))
    /\ Owed \subseteq Owed' /\ Mintable \subseteq Mintable'
    /\ Closable \subseteq Closable' /\ Returned \subseteq Returned'
    /\ Readable \subseteq Readable'

\* Burns keep their terms, deposits and payments their place.
LEMMA FactsOutlive ==
    ASSUME TypeOK, TypeOK', TermsGrow
    PROVE  FactsStay
<1>1. /\ burn_transaction_id \in Nat /\ burn_transaction_id' \in Nat
      /\ burn_transaction_id' >= burn_transaction_id
  BY PalletAssumption DEF TypeOK, TermsGrow
<1>2. Burns \subseteq Burns'
  BY <1>1 DEF Burns, TermsGrow, KeepsBurnTerms
<1>3. ASSUME NEW id \in Burns
      PROVE  Pays(BurnRecord(burn_transactions', executed_burn_transactions', id),
                  BurnOf(id))
  BY DEF TermsGrow, KeepsBurnTerms, KeepsTerms, Burns, BurnOf, Pays
<1>4. Owed \subseteq Owed' /\ Mintable \subseteq Mintable' /\ Readable \subseteq Readable'
  BY DEF TermsGrow, Owed, Mintable, Readable
<1>5. ASSUME NEW id \in Closable
      PROVE  id \in Closable'
  <2> DEFINE new == BurnRecord(burn_transactions', executed_burn_transactions', id)
             old == BurnRecord(burn_transactions, executed_burn_transactions, id)
  <2>1. id \in Burns /\ id \in Burns' /\ new.target = old.target /\ new.amount = old.amount
    BY <1>2, <1>3 DEF Closable, Pays, BurnOf
  <2>2. \/ faults.flaky \/ old.target \in BadTarget
        \/ \E i \in DOMAIN payments : Pays(payments[i].tx, old)
    BY DEF Closable, BurnOf
  <2> HIDE DEF old, new
  <2>3. \/ faults'.flaky \/ new.target \in BadTarget
        \/ \E i \in DOMAIN payments' : Pays(payments'[i].tx, new)
    BY <2>1, <2>2 DEF TermsGrow, Pays
  <2> QED
    BY <2>1, <2>3 DEF Closable, BurnOf, new
<1>6. Returned \subseteq Returned'
  BY DEF TermsGrow, Returned
<1> QED
  BY <1>2, <1>3, <1>4, <1>5, <1>6 DEF FactsStay, TermsGrow

\* So what a daemon may be about to do, it may do later.
LEMMA JobsOutlive ==
    ASSUME FactsStay
    PROVE  Jobs \subseteq Jobs'
<1> USE DEF FactsStay
<1>1. RestJobs \subseteq RestJobs' /\ SaveJobs \subseteq SaveJobs'
  BY DEF RestJobs, SaveJobs
<1>2. CloseBurn(Closable) \subseteq CloseBurn(Closable')
  BY DEF CloseBurn
<1>3. CloseRefund(Returned) \subseteq CloseRefund(Returned')
  BY DEF CloseRefund
<1>4. FetchJobs \subseteq FetchJobs'
  BY DEF FetchJobs
<1>5. SignBurnJobs \subseteq SignBurnJobs'
  BY DEF SignBurnJobs, Pays, BurnOf
<1>6. SignRefundJobs \subseteq SignRefundJobs'
  BY <1>1 DEF SignRefundJobs
<1>7. MintBackJobs \subseteq MintBackJobs'
  <2> SUFFICES ASSUME NEW todo \in MintBackJobs
               PROVE  todo \in MintBackJobs'
    OBVIOUS
  <2>1. todo.id \in Closable /\ todo.id \in Burns
    BY DEF MintBackJobs, Closable
  <2> QED
    BY <1>2, <2>1 DEF MintBackJobs, Pays, BurnOf
<1>8. MintDepositJobs \subseteq MintDepositJobs'
  BY <1>1 DEF MintDepositJobs
<1>9. SubmitBurnJobs \subseteq SubmitBurnJobs'
  <2>1. CloseBurn(Burns) \subseteq CloseBurn(Burns')
    BY DEF CloseBurn
  <2> QED
    BY <2>1 DEF SubmitBurnJobs, Pays, BurnOf
<1>10. SubmitRefundJobs \subseteq SubmitRefundJobs'
  BY DEF SubmitRefundJobs
<1> QED
  BY <1>1, <1>2, <1>3, <1>4, <1>5, <1>6, <1>7, <1>8, <1>9, <1>10
     DEF Jobs, MintJobs, SubmitJobs

\* And what it may have to read is still true when it reads it.
LEMMA EventsOutlive ==
    ASSUME FactsStay
    PROVE  TrueEvents \subseteq TrueEvents'
<1> USE DEF FactsStay
<1>1. CreatedEvents \subseteq CreatedEvents'
  BY DEF CreatedEvents, Pays, BurnOf
<1>2. BurnExpiredEvents \subseteq BurnExpiredEvents'
  BY DEF BurnExpiredEvents, Pays, BurnOf
<1>3. RefundExpiredEvents \subseteq RefundExpiredEvents'
  BY DEF RefundExpiredEvents
<1> QED
  BY <1>1, <1>2, <1>3 DEF TrueEvents
-----------------------------------------------------------------------------
(* Every step of the bridge is a step of the pallet. *)

\* What a daemon is about to do shows from where it is.
LEMMA JobAt ==
    ASSUME NEW todo \in Jobs
    PROVE  /\ todo.pc = "mint" => todo.tx \in Readable /\ todo.left \in Int
           /\ todo.pc = "save" => todo \in SaveJobs
           /\ todo.pc = "set_burn_executed" => todo \in CloseBurn(Closable)
           /\ todo.pc = "set_refund_executed" => todo \in CloseRefund(Returned)
           /\ todo.pc = "fetch_burn" => todo.id \in Burns
           /\ todo.pc = "fetch_refund" => todo.id \in RefundHash
           /\ todo.pc = "propose_burn" => todo \in SignBurnJobs
           /\ todo.pc = "create_refund" => todo \in SignRefundJobs
           /\ todo.pc = "propose_mint" => todo \in MintJobs
           /\ todo.pc = "submit" => todo \in SubmitJobs
BY DEF Jobs, RestJobs, SaveJobs, CloseBurn, CloseRefund, DownJobs, FetchJobs,
       SignBurnJobs, SignRefundJobs, MintJobs, MintBackJobs, MintDepositJobs,
       SubmitJobs, SubmitBurnJobs, SubmitRefundJobs, Idle

\* The burns there are have ids.
LEMMA BurnsHaveIds ==
    ASSUME TypeOK
    PROVE  Burns \subseteq BurnId
BY PalletAssumption DEF TypeOK, Burns, BurnId

\* The daemons are accounts, and sign for their own wallets.
LEMMA DaemonsAreAccounts ==
    ASSUME NEW d \in Daemon
    PROVE  d \in Account /\ KeyOf[d] \in StellarKey
BY PalletAssumption, DaemonAssumption DEF Daemon

\* A daemon signs the payment of a burn for the pallet.
LEMMA ProposeBurnIsACall ==
    ASSUME CallsAreFree, TypeOK, NEW d \in Daemon, job[d] \in Jobs,
           RetryProposeWithdrawOrAddSig(d)
    PROVE  [Next]_palletVars
<1> DEFINE id == job[d].id
           tx == job[d].tx
           signature == SignatureOf(KeyOf[d], tx)
<1>1. job[d].pc = "propose_burn"
  BY DEF RetryProposeWithdrawOrAddSig, Retries
<1>2. id \in BurnId /\ tx \in PaymentTx
  BY <1>1, JobAt, BurnsHaveIds DEF SignBurnJobs
<1>3. /\ tx.target \in StellarAddress /\ tx.amount \in Amount /\ tx.seqno \in SeqNo
      /\ signature \in Sig /\ KeyOf[d] \in StellarKey /\ d \in Account
  BY <1>2, DaemonsAreAccounts DEF CallsAreFree, PaymentTx
<1>4. \/ ProposeBurnOrAddSig(d, id, tx.target, tx.amount, signature, KeyOf[d], tx.seqno)
      \/ UNCHANGED palletVars
  BY DEF RetryProposeWithdrawOrAddSig, Retries
<1> HIDE DEF id, tx, signature
<1> QED
  BY <1>2, <1>3, <1>4 DEF Next

\* And closes it.
LEMMA CloseBurnIsACall ==
    ASSUME TypeOK, NEW d \in Daemon, job[d] \in Jobs, RetrySetWithdrawExecuted(d)
    PROVE  [Next]_palletVars
<1>1. job[d].pc = "set_burn_executed"
  BY DEF RetrySetWithdrawExecuted, Retries
<1>2. job[d].id \in BurnId
  BY <1>1, JobAt, BurnsHaveIds DEF CloseBurn, Closable
<1>3. SetBurnExecuted(d, job[d].id) \/ UNCHANGED palletVars
  BY DEF RetrySetWithdrawExecuted, Retries
<1> QED
  BY <1>2, <1>3, DaemonsAreAccounts DEF Next

\* It votes for a mint: of a deposit, or of the burn it gives back.
LEMMA MintIsACall ==
    ASSUME CallsAreFree, TypeOK, NEW d \in Daemon, job[d] \in Jobs,
           RetryProposeMintOrVote(d)
    PROVE  [Next]_palletVars
<1> DEFINE id == job[d].id
           target == job[d].target
           amount == job[d].amount
<1>1. job[d].pc = "propose_mint"
  BY DEF RetryProposeMintOrVote, Retries
<1>2. id \in MintId /\ target \in Account /\ amount \in Nat
  BY <1>1, JobAt, BurnsHaveIds, WithdrawAssumption, DepositAssumption
     DEF MintJobs, MintBackJobs, MintDepositJobs, Closable
<1>3. ProposeOrVoteMint(d, id, target, amount) \/ UNCHANGED palletVars
  BY DEF RetryProposeMintOrVote, Retries
<1> HIDE DEF id, target, amount
<1> QED
  BY <1>2, <1>3, DaemonsAreAccounts DEF Next, CallsAreFree

\* It signs the refund of a deposit.
LEMMA CreateRefundIsACall ==
    ASSUME CallsAreFree, TypeOK, NEW d \in Daemon, job[d] \in Jobs,
           RetryCreateRefundTransactionOrAddSig(d)
    PROVE  [Next]_palletVars
<1> DEFINE hash == job[d].id
           tx == job[d].tx
           signature == SignatureOf(KeyOf[d], tx)
<1>1. job[d].pc = "create_refund"
  BY DEF RetryCreateRefundTransactionOrAddSig, Retries
<1>2. hash \in RefundHash /\ tx \in PaymentTx
  BY <1>1, JobAt DEF SignRefundJobs
<1>3. /\ tx.target \in StellarAddress /\ tx.amount \in Amount /\ tx.seqno \in SeqNo
      /\ signature \in Sig /\ KeyOf[d] \in StellarKey /\ d \in Account
  BY <1>2, DaemonsAreAccounts DEF CallsAreFree, PaymentTx
<1>4. \/ CreateRefundOrAddSig(d, hash, tx.target, tx.amount, signature, KeyOf[d],
                              tx.seqno)
      \/ UNCHANGED palletVars
  BY DEF RetryCreateRefundTransactionOrAddSig, Retries
<1> HIDE DEF hash, tx, signature
<1> QED
  BY <1>2, <1>3, <1>4 DEF Next

\* And closes it.
LEMMA CloseRefundIsACall ==
    ASSUME NEW d \in Daemon, job[d] \in Jobs, RetrySetRefundTransactionExecuted(d)
    PROVE  [Next]_palletVars
<1>1. job[d].pc = "set_refund_executed"
  BY DEF RetrySetRefundTransactionExecuted, Retries
<1>2. job[d].id \in RefundHash
  BY <1>1, JobAt DEF CloseRefund, Returned
<1>3. SetRefundExecuted(d, job[d].id) \/ UNCHANGED palletVars
  BY DEF RetrySetRefundTransactionExecuted, Retries
<1> QED
  BY <1>2, <1>3, DaemonsAreAccounts DEF Next

\* The other steps of a daemon do not concern the pallet.
LEMMA OwnStepsOfADaemon ==
    ASSUME NEW d,
           \/ HandleWithdraw(d) \/ HandleDeposit(d) \/ Submit(d)
           \/ CrashBridge(d) \/ RestartBridge(d)
    PROVE  UNCHANGED palletVars
BY HandlersReadOnly
   DEF HandleDeposit, TakeTransaction, Mint, SaveStellarCursor, CrashBridge,
       RestartBridge, Crash, Restart

\* Every step.
LEMMA BridgeStepIsPalletStep ==
    ASSUME CallsAreFree, TypeOK, JobsTrue, [BridgeNext]_bridgeVars
    PROVE  [Next]_palletVars
<1>1. ASSUME NEW target \in StellarAddress, NEW amount \in Amount, Swap(target, amount)
      PROVE  [Next]_palletVars
  BY <1>1, WithdrawAssumption DEF Swap, Next
<1>2. EndBlock => [Next]_palletVars
  BY DEF EndBlock, Next
<1>3. ASSUME NEW fee \in Fee, ChangeFee(fee)
      PROVE  [Next]_palletVars
  BY <1>3 DEF ChangeFee, Next
<1>4. ASSUME NEW d \in Daemon,
             \/ RetryProposeWithdrawOrAddSig(d) \/ RetrySetWithdrawExecuted(d)
             \/ CallDeposit(d)
      PROVE  [Next]_palletVars
  <2>1. job[d] \in Jobs
    BY DEF JobsTrue
  <2> QED
    BY <1>4, <2>1, ProposeBurnIsACall, CloseBurnIsACall, MintIsACall,
       CreateRefundIsACall, CloseRefundIsACall DEF CallDeposit
<1>5. ASSUME NEW tx, Deposit(tx) \/ UNCHANGED bridgeVars
      PROVE  UNCHANGED palletVars
  BY <1>5 DEF Deposit, bridgeVars, daemonVars
<1>6. CASE DepositNext
  BY <1>2, <1>3, <1>4, <1>5, <1>6, OwnStepsOfADaemon DEF DepositNext
<1>7. CASE BridgeNext /\ ~DepositNext
  BY <1>1, <1>4, <1>7, OwnStepsOfADaemon DEF BridgeNext
<1> QED
  BY <1>5, <1>6, <1>7
-----------------------------------------------------------------------------
(* The burns, the payments and the deposits of a step. *)

\* Only the submission of a transaction pays, and it pays once.
Paying(d) ==
    /\ job[d].pc = "submit" /\ Verified(job[d].signatures, job[d].tx)
    /\ account_seq' = job[d].tx.seqno
    /\ payments' = Append(payments, [id |-> job[d].id, tx |-> job[d].tx])

LEMMA OnlySubmitPays ==
    ASSUME [BridgeNext]_bridgeVars
    PROVE  UNCHANGED stellarVars \/ \E d \in Daemon : Submit(d) /\ Paying(d)
<1>1. ASSUME NEW d, Submit(d)
      PROVE  UNCHANGED stellarVars \/ Paying(d)
  BY <1>1 DEF Submit, Paying, stellarVars
<1>2. ASSUME NEW d, \/ HandleWithdraw(d) \/ HandleRefund(d) \/ TakeTransaction(d)
                   \/ Mint(d) \/ SaveStellarCursor(d)
                   \/ CrashBridge(d) \/ RestartBridge(d)
      PROVE  UNCHANGED stellarVars
  BY <1>2 DEF HandleWithdraw, HandleWithdrawCreated, HandleBadWithdraw,
              HandleWithdrawExpired, HandleWithdrawReady, FetchBurn, HandleRefund,
              HandleRefundExpired, HandleRefundReady, FetchRefund, Takes,
              TakeTransaction, Mint, SaveStellarCursor, CrashBridge, Crash,
              RestartBridge, Restart
<1>3. ASSUME NEW d, \/ RetryProposeWithdrawOrAddSig(d) \/ RetrySetWithdrawExecuted(d)
                   \/ CallDeposit(d)
      PROVE  UNCHANGED stellarVars
  BY <1>3 DEF CallDeposit, RetryProposeMintOrVote, RetryCreateRefundTransactionOrAddSig,
              RetrySetRefundTransactionExecuted, RetryProposeWithdrawOrAddSig,
              RetrySetWithdrawExecuted, Retries
<1>4. ASSUME NEW target, NEW amount, NEW tx, NEW fee,
             \/ Swap(target, amount) \/ EndBlock \/ Deposit(tx) \/ ChangeFee(fee)
             \/ UNCHANGED bridgeVars
      PROVE  UNCHANGED stellarVars
  BY <1>4 DEF Swap, EndBlock, Deposit, ChangeFee, bridgeVars, daemonVars
<1>5. CASE DepositNext
  BY <1>1, <1>2, <1>3, <1>4, <1>5 DEF DepositNext, HandleDeposit
<1>6. CASE BridgeNext /\ ~DepositNext
  BY <1>2, <1>3, <1>4, <1>6 DEF BridgeNext
<1> QED
  BY <1>1, <1>4, <1>5, <1>6

\* A submitted transaction is one of those that its daemon was to submit.
LEMMA PaidAsSubmitted ==
    ASSUME TypeOK, JobsTrue, AccountShape, NEW d \in Daemon, Paying(d)
    PROVE  /\ AccountShape'
           /\ \A i \in DOMAIN payments : i \in DOMAIN payments'
                                         /\ payments'[i] = payments[i]
           /\ \E i \in DOMAIN payments' : payments'[i].tx = job[d].tx
<1> DEFINE new == [id |-> job[d].id, tx |-> job[d].tx]
           Payment == [id : BurnId \cup RefundHash, tx : PaymentTx]
<1>1. job[d] \in SubmitJobs
  BY JobAt DEF JobsTrue, Paying
<1>2. new \in Payment /\ job[d].tx.seqno \in Nat
  BY <1>1, BurnsHaveIds DEF SubmitJobs, SubmitBurnJobs, SubmitRefundJobs, PaymentTx
<1>3. payments \in Seq(Payment) /\ payments' = Append(payments, new)
  BY DEF AccountShape, Paying
<1>4. account_seq' \in Nat
  BY <1>2 DEF Paying
<1>5. new.tx = job[d].tx
  OBVIOUS
<1> HIDE DEF new, Payment
<1>6. /\ payments' \in Seq(Payment)
      /\ \A i \in DOMAIN payments : i \in DOMAIN payments' /\ payments'[i] = payments[i]
      /\ Len(payments) + 1 \in DOMAIN payments'
      /\ payments'[Len(payments) + 1] = new
  BY <1>2, <1>3
<1> QED
  BY <1>4, <1>5, <1>6 DEF AccountShape, Payment

\* A refund that there is stays, pending or executed.
LEMMA RefundsStayKnown ==
    ASSUME TypeOK, TypeOK', [Next]_palletVars
    PROVE  KnownRefunds \subseteq KnownRefunds'
<1> SUFFICES ASSUME NEW h \in KnownRefunds
             PROVE  refund_transactions'[h] # None
                      \/ executed_refund_transactions'[h] # None
  BY DEF KnownRefunds, Refunded
<1>1. h \in RefundHash /\ RefundStep(h)
  BY RefundSteps DEF KnownRefunds
<1>2. refund_transactions[h] # None \/ executed_refund_transactions[h] # None
  BY DEF KnownRefunds, Refunded
<1>3. CASE RefundLeft(h)
  BY <1>2, <1>3 DEF RefundLeft
<1>4. CASE RefundSigned(h)
  <2>1. CASE FirstSignedTx(refund_transactions'[h])
    BY <2>1, FirstSignedTxType DEF TypeOK
  <2>2. CASE SignedTx(refund_transactions[h], refund_transactions'[h])
    <3>1. refund_transactions[h] \in BurnTransaction
      BY <1>1, <2>2 DEF SignedTx, TypeOK, RefundTransaction
    <3> QED
      BY <2>2, <3>1, WithSignatureType, PalletAssumption DEF SignedTx
  <2> QED
    BY <1>4, <2>1, <2>2 DEF RefundSigned
<1>5. CASE RefundExecuted(h)
  BY <1>5 DEF RefundExecuted
<1>6. CASE RefundReset(h)
  <2>1. refund_transactions[h] \in BurnTransaction
    BY <1>1, <1>6 DEF RefundReset, TypeOK, RefundTransaction
  <2> QED
    BY <1>6, <2>1, ResetType, PalletAssumption DEF RefundReset, TypeOK
<1> QED
  BY <1>1, <1>3, <1>4, <1>5, <1>6 DEF RefundStep
\* Every step: the ledgers keep their types, and what is true stays true.
LEMMA TruthStays ==
    ASSUME CallsAreFree, BridgeTerms, [BridgeNext]_bridgeVars
    PROVE  /\ [Next]_palletVars
           /\ TypeOK' /\ BurnLedger' /\ StreamShape' /\ AccountShape'
           /\ FactsStay /\ Jobs \subseteq Jobs' /\ TrueEvents \subseteq TrueEvents'
<1> USE DEF BridgeTerms
<1>1. [Next]_palletVars
  BY BridgeStepIsPalletStep
<1>2. TypeOK' /\ BurnLedger' /\ KeepsBurnTerms
  BY <1>1, TypeStep, BurnLedgerStep, FrozenTermsStep
<1>3. StreamShape' /\ StreamKept
  BY PalletAssumption, StreamShapeStep, StreamIsKept
<1>4. Deposited \subseteq Deposited'
  BY <1>3 DEF Deposited, StreamKept
<1>5. /\ AccountShape'
      /\ \A i \in DOMAIN payments : i \in DOMAIN payments' /\ payments'[i] = payments[i]
  <2>1. CASE UNCHANGED stellarVars
    BY <2>1 DEF stellarVars, AccountShape, StellarShape
  <2>2. ASSUME NEW d \in Daemon, Paying(d)
        PROVE  <1>5!:
    BY <2>2, PaidAsSubmitted DEF StellarShape
  <2> QED
    BY <2>1, <2>2, OnlySubmitPays
<1>6. KnownRefunds \subseteq KnownRefunds'
  BY <1>1, <1>2, RefundsStayKnown
<1>7. burn_transaction_id' >= burn_transaction_id
  <2>1. burn_transaction_id \in Int
    BY PalletAssumption DEF TypeOK
  <2>2. \/ burn_transaction_id' = burn_transaction_id
        \/ burn_transaction_id' = burn_transaction_id + 1
    BY <1>1, NoIdStep DEF SwapToStellar, NextBurnId
  <2> QED
    BY <2>1, <2>2
<1>8. TermsGrow
  BY <1>2, <1>4, <1>5, <1>6, <1>7, FaultsStay DEF TermsGrow
<1> QED
  BY <1>1, <1>2, <1>3, <1>5, <1>8, FactsOutlive, JobsOutlive, EventsOutlive

-----------------------------------------------------------------------------
(* What a daemon turns to. *)

\* Daemon d goes on with another job, and perhaps another number of its wallet.
Turns(d) ==
    /\ \E todo \in Jobs' : job' = [job EXCEPT ![d] = todo]
    /\ wallet_seq' \in [Daemon -> Nat]

\* It is free, or ends.
LEMMA FreeOrDown ==
    /\ Idle \in Jobs
    /\ \A why \in {"crash", "submit", "not_found", "no_signatures"} : Down(why) \in Jobs
BY DEF Jobs, RestJobs, DownJobs, Down

\* It signs with a number of its wallet.
LEMMA Signing ==
    ASSUME wallet_seq \in [Daemon -> Nat], NEW d \in Daemon,
           NEW pc, NEW id, NEW target, NEW amount, NEW memo, NEW then,
           SignsAndCalls(d, pc, id, target, amount, memo, then)
    PROVE  /\ wallet_seq' \in [Daemon -> Nat]
           /\ \E n \in Nat :
                job' = [job EXCEPT ![d] =
                          [pc |-> pc, id |-> id,
                           tx |-> StellarTx(target, amount, memo, n), then |-> then]]
<1> DEFINE n == wallet_seq[d] + 1
<1>1. /\ wallet_seq' = [wallet_seq EXCEPT ![d] = n]
      /\ job' = [job EXCEPT ![d] =
                   [pc |-> pc, id |-> id,
                    tx |-> StellarTx(target, amount, memo, n), then |-> then]]
  BY DEF SignsAndCalls
<1>2. n \in Nat
  OBVIOUS
<1> HIDE DEF n
<1>3. wallet_seq' \in [Daemon -> Nat]
  BY <1>1, <1>2
<1> QED
  BY <1>1, <1>2, <1>3

\* The events it takes are true.
LEMMA TakenIsTrue ==
    ASSUME EventsTrue, NEW d \in Daemon, NEW type, Takes(d, type)
    PROVE  /\ Head(inbox[d]) \in TrueEvents /\ Head(inbox[d]).type = type
           /\ job[d] = Idle
           /\ inbox' \in [Daemon -> Seq(TrueEvents)]
BY DEF EventsTrue, Takes

\* Events of a burn have its terms, and those of a refund the terms of a deposit.
LEMMA EventAt ==
    ASSUME NEW e \in TrueEvents
    PROVE  /\ e.type = "BurnTransactionCreated" => e \in CreatedEvents
           /\ e.type = "BurnTransactionExpired" => e \in BurnExpiredEvents
           /\ e.type = "BurnTransactionReady" => e.id \in Burns
           /\ e.type = "RefundTransactionExpired" => e \in RefundExpiredEvents
           /\ e.type = "RefundTransactionReady" => e.hash \in KnownRefunds
BY DEF TrueEvents, CreatedEvents, BurnExpiredEvents, RefundExpiredEvents

\* It signs the payment of the burn of an event.
LEMMA SigningABurn ==
    ASSUME Jobs \subseteq Jobs', wallet_seq \in [Daemon -> Nat], NEW d \in Daemon,
           NEW event \in CreatedEvents \cup BurnExpiredEvents, SignsBurn(d, event)
    PROVE  Turns(d)
<1>1. /\ event.id \in Burns /\ event.target \in StellarAddress /\ event.amount \in Nat
      /\ Pays(event, BurnOf(event.id))
  BY DEF CreatedEvents, BurnExpiredEvents
<1>2. SignsAndCalls(d, "propose_burn", event.id, event.target, event.amount, None, Idle)
  BY DEF SignsBurn
<1>3. wallet_seq' \in [Daemon -> Nat]
  BY <1>2, Signing
<1>4. PICK n \in Nat :
        job' = [job EXCEPT ![d] =
                  [pc |-> "propose_burn", id |-> event.id,
                   tx |-> StellarTx(event.target, event.amount, None, n), then |-> Idle]]
  BY <1>2, Signing
<1> DEFINE todo == [pc |-> "propose_burn", id |-> event.id,
                    tx |-> StellarTx(event.target, event.amount, None, n),
                    then |-> Idle]
<1>5. todo \in SignBurnJobs
  <2> DEFINE tx == StellarTx(event.target, event.amount, None, n)
  <2>1. tx \in PaymentTx /\ tx.target = event.target /\ tx.amount = event.amount
    BY <1>1 DEF PaymentTx, StellarTx
  <2> HIDE DEF tx
  <2> QED
    BY <1>1, <2>1 DEF SignBurnJobs, Pays, tx
<1>6. job' = [job EXCEPT ![d] = todo]
  BY <1>4
<1> HIDE DEF todo
<1> QED
  BY <1>3, <1>5, <1>6 DEF Turns, Jobs

\* It signs the refund of a deposit, or goes on to what comes next.
LEMMA SigningARefund ==
    ASSUME Jobs \subseteq Jobs', wallet_seq \in [Daemon -> Nat], NEW d \in Daemon,
           NEW hash \in RefundHash, NEW target \in StellarAddress, NEW amount \in Nat,
           [hash |-> hash, target |-> target, amount |-> amount] \in Owed,
           NEW then \in {Idle} \cup SaveJobs,
           SignsRefund(d, hash, target, amount, then)
    PROVE  Turns(d)
<1>1. CASE Does(d, then)
  <2>1. then \in Jobs
    BY FreeOrDown DEF Jobs
  <2> QED
    BY <1>1, <2>1 DEF Turns, Does
<1>2. CASE SignsAndCalls(d, "create_refund", hash, target, amount, hash, then)
  <2>1. wallet_seq' \in [Daemon -> Nat]
    BY <1>2, Signing
  <2>2. PICK n \in Nat :
          job' = [job EXCEPT ![d] =
                    [pc |-> "create_refund", id |-> hash,
                     tx |-> StellarTx(target, amount, hash, n), then |-> then]]
    BY <1>2, Signing
  <2> DEFINE todo == [pc |-> "create_refund", id |-> hash,
                      tx |-> StellarTx(target, amount, hash, n), then |-> then]
  <2>3. todo \in SignRefundJobs
    BY DEF PaymentTx, StellarTx, SignRefundJobs, Claim
  <2>4. job' = [job EXCEPT ![d] = todo]
    BY <2>2
  <2> HIDE DEF todo
  <2> QED
    BY <2>1, <2>3, <2>4 DEF Turns, Jobs
<1> QED
  BY <1>1, <1>2 DEF SignsRefund
\* It does something else.
LEMMA DoingAJob ==
    ASSUME Jobs \subseteq Jobs', wallet_seq \in [Daemon -> Nat], NEW d,
           NEW todo \in Jobs, Does(d, todo)
    PROVE  Turns(d)
BY DEF Turns, Does

\* Handlers of the events of burns (withdraw.go).
LEMMA WithdrawHandlersTurn ==
    ASSUME BridgeTerms, Jobs \subseteq Jobs', NEW d \in Daemon,
           HandleWithdraw(d), ~FetchBurn(d)
    PROVE  Turns(d) /\ inbox' \in [Daemon -> Seq(TrueEvents)]
<1> DEFINE event == Head(inbox[d])
<1>0. EventsTrue /\ wallet_seq \in [Daemon -> Nat]
  BY DEF BridgeTerms, StellarShape
<1>1. ASSUME event \in CreatedEvents \cup BurnExpiredEvents, CheckFails(event.target)
      PROVE  event.id \in Closable
  BY <1>1 DEF CreatedEvents, BurnExpiredEvents, CheckFails, Closable, Pays
<1>2. ASSUME NEW id \in Closable
      PROVE  SetsBurnExecuted(id) \in CloseBurn(Closable) /\ SetsBurnExecuted(id) \in Jobs
  BY DEF SetsBurnExecuted, CloseBurn, Jobs
<1>3. CASE HandleWithdrawCreated(d)
  <2>1. event \in CreatedEvents /\ inbox' \in [Daemon -> Seq(TrueEvents)]
    BY <1>0, <1>3, TakenIsTrue, EventAt DEF HandleWithdrawCreated
  <2> QED
    BY <1>0, <1>3, <2>1, SigningABurn, DoingAJob, FreeOrDown DEF HandleWithdrawCreated
<1>4. CASE HandleBadWithdraw(d)
  <2>1. event \in CreatedEvents /\ inbox' \in [Daemon -> Seq(TrueEvents)]
    BY <1>0, <1>4, TakenIsTrue, EventAt DEF HandleBadWithdraw
  <2>2. event.id \in Closable
    BY <1>1, <1>4, <2>1 DEF HandleBadWithdraw
  <2>3. RefundMint(event) \in MintBackJobs
    BY <1>2, <2>1, <2>2 DEF RefundMint, MintBackJobs, CreatedEvents, Pays
  <2>4. Does(d, Idle) \/ Does(d, RefundMint(event))
    BY <1>4 DEF HandleBadWithdraw
  <2>5. RefundMint(event) \in Jobs
    BY <2>3 DEF Jobs, MintJobs
  <2> QED
    BY <1>0, <2>1, <2>4, <2>5, DoingAJob, FreeOrDown
<1>5. CASE HandleWithdrawExpired(d)
  <2>1. event \in BurnExpiredEvents /\ inbox' \in [Daemon -> Seq(TrueEvents)]
    BY <1>0, <1>5, TakenIsTrue, EventAt DEF HandleWithdrawExpired
  <2>2. CheckFails(event.target) => SetsBurnExecuted(event.id) \in Jobs
    BY <1>1, <1>2, <2>1
  <2> QED
    BY <1>0, <1>5, <2>1, <2>2, SigningABurn, DoingAJob DEF HandleWithdrawExpired
<1>6. CASE HandleWithdrawReady(d)
  <2>1. event.id \in Burns /\ inbox' \in [Daemon -> Seq(TrueEvents)]
    BY <1>0, <1>6, TakenIsTrue, EventAt DEF HandleWithdrawReady
  <2>2. [pc |-> "fetch_burn", id |-> event.id] \in Jobs
    BY <2>1 DEF Jobs, FetchJobs
  <2>3. Does(d, Idle) \/ Does(d, [pc |-> "fetch_burn", id |-> event.id])
    BY <1>6 DEF HandleWithdrawReady
  <2> QED
    BY <1>0, <2>1, <2>2, <2>3, DoingAJob, FreeOrDown
<1> QED
  BY <1>3, <1>4, <1>5, <1>6 DEF HandleWithdraw

\* The fetch of a burn that is ready.
LEMMA FetchingABurn ==
    ASSUME BridgeTerms, Jobs \subseteq Jobs', NEW d \in Daemon, FetchBurn(d)
    PROVE  Turns(d) /\ UNCHANGED inbox
<1> DEFINE id == job[d].id
           burn == burn_transactions[id]
           submit == ToSubmit(id, burn, None, SetsBurnExecuted(id))
<1>1. id \in Burns /\ UNCHANGED inbox /\ wallet_seq \in [Daemon -> Nat]
  BY JobAt DEF FetchBurn, BridgeTerms, JobsTrue, StellarShape
<1>2. burn \in BurnTransaction \cup {None}
  BY <1>1, BurnsHaveIds DEF BridgeTerms, TypeOK
<1>3. ASSUME burn # None
      PROVE  submit \in Jobs
  <2>1. BurnOf(id) = burn /\ burn \in BurnTransaction
    BY <1>2, <1>3 DEF BurnOf, BurnRecord
  <2>2. StellarTx(burn.target, burn.amount, None, burn.sequence_number) \in PaymentTx
    BY <2>1 DEF BurnTransaction, StellarTx, PaymentTx
  <2>3. SetsBurnExecuted(id) \in CloseBurn(Burns)
    BY <1>1 DEF SetsBurnExecuted, CloseBurn
  <2>4. submit \in SubmitBurnJobs
    <3>1. submit = [pc |-> "submit", id |-> id, signatures |-> burn.signatures,
                    then |-> SetsBurnExecuted(id),
                    tx |-> StellarTx(burn.target, burn.amount, None,
                                     burn.sequence_number)]
      BY DEF ToSubmit
    <3>2. burn.signatures \in Seq(StellarSignature)
      BY <2>1 DEF BurnTransaction
    <3>3. Pays(StellarTx(burn.target, burn.amount, None, burn.sequence_number), BurnOf(id))
      BY <2>1 DEF Pays, StellarTx
    <3>4. SetsBurnExecuted(id).id = id
      BY DEF SetsBurnExecuted
    <3> HIDE DEF id, burn, submit
    <3> QED
      BY <1>1, <2>2, <2>3, <3>1, <3>2, <3>3, <3>4 DEF SubmitBurnJobs
  <2> QED
    BY <2>4 DEF Jobs, SubmitJobs
<1>4. \/ Does(d, Down("not_found")) \/ Does(d, Down("no_signatures"))
      \/ burn # None /\ Does(d, submit)
  BY DEF FetchBurn
<1> HIDE DEF id, burn, submit
<1> QED
  BY <1>1, <1>3, <1>4, DoingAJob, FreeOrDown
\* Handlers of the events of refunds (refund.go).
LEMMA RefundHandlersTurn ==
    ASSUME BridgeTerms, Jobs \subseteq Jobs', NEW d \in Daemon,
           HandleRefundExpired(d) \/ HandleRefundReady(d)
    PROVE  Turns(d) /\ inbox' \in [Daemon -> Seq(TrueEvents)]
<1> DEFINE event == Head(inbox[d])
<1>0. EventsTrue /\ wallet_seq \in [Daemon -> Nat]
  BY DEF BridgeTerms, StellarShape
<1>1. CASE HandleRefundExpired(d)
  <2>1. event \in RefundExpiredEvents /\ inbox' \in [Daemon -> Seq(TrueEvents)]
    BY <1>0, <1>1, TakenIsTrue, EventAt DEF HandleRefundExpired
  <2>2. /\ event.hash \in RefundHash /\ event.target \in StellarAddress
        /\ event.amount \in Nat
        /\ [hash |-> event.hash, target |-> event.target, amount |-> event.amount] \in Owed
    BY <2>1 DEF RefundExpiredEvents, KnownRefunds, Claim
  <2>3. SignsRefund(d, event.hash, event.target, event.amount, Idle)
    BY <1>1 DEF HandleRefundExpired
  <2> HIDE DEF event
  <2> QED
    BY <1>0, <2>1, <2>2, <2>3, SigningARefund
<1>2. CASE HandleRefundReady(d)
  <2>1. event.hash \in RefundHash /\ inbox' \in [Daemon -> Seq(TrueEvents)]
    BY <1>0, <1>2, TakenIsTrue, EventAt DEF HandleRefundReady, KnownRefunds
  <2>2. [pc |-> "fetch_refund", id |-> event.hash] \in Jobs
    BY <2>1 DEF Jobs, FetchJobs
  <2>3. Does(d, Idle) \/ Does(d, [pc |-> "fetch_refund", id |-> event.hash])
    BY <1>2 DEF HandleRefundReady
  <2> QED
    BY <1>0, <2>1, <2>2, <2>3, DoingAJob, FreeOrDown
<1> QED
  BY <1>1, <1>2

\* The fetch of a refund that is ready.
LEMMA FetchingARefund ==
    ASSUME BridgeTerms, Jobs \subseteq Jobs', NEW d \in Daemon, FetchRefund(d)
    PROVE  Turns(d) /\ UNCHANGED inbox
<1> DEFINE hash == job[d].id
           refund == refund_transactions[hash]
           close == [pc |-> "set_refund_executed", id |-> hash, then |-> Idle]
           tx == StellarTx(refund.target, refund.amount, hash, refund.sequence_number)
           submit == ToSubmit(hash, refund, hash, close)
<1>1. hash \in RefundHash /\ UNCHANGED inbox /\ wallet_seq \in [Daemon -> Nat]
  BY JobAt DEF FetchRefund, BridgeTerms, JobsTrue, StellarShape
<1>2. refund # None => refund \in BurnTransaction /\ Claim(hash, refund) \in Owed
  BY <1>1 DEF BridgeTerms, TypeOK, RefundTransaction, LedgersTrue
<1>3. ASSUME refund # None
      PROVE  submit \in Jobs
  <2>1. tx \in PaymentTx /\ tx.memo = hash /\ Claim(hash, tx) = Claim(hash, refund)
    BY <1>1, <1>2, <1>3 DEF BurnTransaction, StellarTx, PaymentTx, Claim
  <2>2. close \in CloseRefund(RefundHash) /\ close.id = hash
    BY <1>1 DEF CloseRefund
  <2>3. submit = [pc |-> "submit", id |-> hash, signatures |-> refund.signatures,
                  then |-> close, tx |-> tx]
    BY DEF ToSubmit
  <2>4. refund.signatures \in Seq(StellarSignature)
    BY <1>2, <1>3 DEF BurnTransaction
  <2> HIDE DEF hash, refund, close, tx, submit
  <2>5. submit \in SubmitRefundJobs
    BY <1>1, <1>2, <1>3, <2>1, <2>2, <2>3, <2>4 DEF SubmitRefundJobs
  <2> QED
    BY <2>5 DEF Jobs, SubmitJobs
<1>4. Does(d, Down("not_found")) \/ (refund # None /\ Does(d, submit))
  BY DEF FetchRefund
<1> HIDE DEF hash, refund, submit
<1> QED
  BY <1>1, <1>3, <1>4, DoingAJob, FreeOrDown

\* After a submission the daemon may close what was paid.
LEMMA SubmittingTurns ==
    ASSUME BridgeTerms, FactsStay, Jobs \subseteq Jobs', NEW d \in Daemon, Submit(d)
    PROVE  Turns(d) /\ UNCHANGED inbox
<1> DEFINE tx == job[d].tx
           id == job[d].id
           then == job[d].then
<1>1. job[d] \in SubmitJobs
  BY JobAt DEF Submit, BridgeTerms, JobsTrue
<1>2. tx.seqno \in Nat /\ wallet_seq \in [Daemon -> Nat]
  BY <1>1 DEF SubmitJobs, SubmitBurnJobs, SubmitRefundJobs, PaymentTx, BridgeTerms,
              StellarShape
<1>3. wallet_seq' \in [Daemon -> Nat] /\ UNCHANGED inbox
  BY <1>2 DEF Submit
<1>4. ASSUME \E i \in DOMAIN payments' : payments'[i].tx = tx
      PROVE  then \in Jobs'
  <2>1. CASE job[d] \in SubmitBurnJobs
    <3>1. id \in Burns /\ then \in CloseBurn(Burns) /\ then.id = id /\ Pays(tx, BurnOf(id))
      BY <2>1 DEF SubmitBurnJobs
    <3> DEFINE new == BurnRecord(burn_transactions', executed_burn_transactions', id)
    <3>2. id \in Burns' /\ Pays(tx, new)
      BY <3>1 DEF FactsStay, Pays
    <3>3. \E i \in DOMAIN payments' : Pays(payments'[i].tx, new)
      BY <1>4, <3>2
    <3> HIDE DEF new
    <3>4. id \in Closable'
      <4> HIDE DEF id
      <4> QED
        BY <3>2, <3>3 DEF Closable, BurnOf, new
    <3>5. then \in CloseBurn(Closable')
      BY <3>1, <3>4 DEF CloseBurn
    <3> HIDE DEF then
    <3> QED
      BY <3>5 DEF Jobs
  <2>2. CASE job[d] \in SubmitRefundJobs
    <3>1. /\ id \in RefundHash /\ then \in CloseRefund(RefundHash)
          /\ then.id = id /\ Claim(id, tx) \in Owed /\ tx.memo = id
      BY <2>2 DEF SubmitRefundJobs
    <3>2. Claim(id, tx) \in Owed'
      BY <3>1 DEF FactsStay
    <3>3. PICK deposit \in Deposited' : /\ deposit.hash = id
                                        /\ tx.amount = SentBy(deposit, tx.target)
      BY <3>2 DEF Owed, Claim
    <3>4. PICK i \in DOMAIN payments' : payments'[i].tx = tx
      BY <1>4
    <3> HIDE DEF id, tx, then
    <3>5. id \in Returned'
      BY <3>1, <3>3, <3>4 DEF Returned
    <3>6. then \in CloseRefund(Returned')
      BY <3>1, <3>5 DEF CloseRefund
    <3> QED
      BY <3>6 DEF Jobs
  <2> QED
    BY <1>1, <2>1, <2>2 DEF SubmitJobs
<1>5. CASE job' = [job EXCEPT ![d] = Down("submit")]
  BY <1>3, <1>5, FreeOrDown DEF Turns
<1>6. CASE /\ job' = [job EXCEPT ![d] = then]
           /\ \/ Paying(d)
              \/ UNCHANGED payments /\ \E i \in DOMAIN payments : payments[i].tx = tx
  <2>1. \E i \in DOMAIN payments' : payments'[i].tx = tx
    BY <1>6, PaidAsSubmitted DEF BridgeTerms, StellarShape
  <2>2. then \in Jobs'
    BY <1>4, <2>1
  <2> HIDE DEF then
  <2> QED
    BY <1>3, <1>6, <2>2 DEF Turns
<1> QED
  BY <1>5, <1>6 DEF Submit, AfterError, Paying, stellarVars
\* A daemon makes mint events of deposits only whose operations are payments.
LEMMA MintsAreOfPayments ==
    ASSUME NEW tx \in StellarTxs
    PROVE  /\ MintEvents(tx) \in Nat
           /\ MintEvents(tx) # 0 => \A i \in DOMAIN tx.operations :
                                      tx.operations[i].type = "payment"
<1>1. IsFiniteSet(Credits(tx))
  BY DepositAssumption, FS_Subset DEF Credits, WellFormed
<1>2. Cardinality(Credits(tx)) \in Nat
  BY <1>1, FS_CardinalityType
<1> QED
  BY <1>2 DEF MintEvents

\* It takes the next deposit off the stream.
LEMMA TakingTurns ==
    ASSUME BridgeTerms, Jobs \subseteq Jobs', NEW d \in Daemon, TakeTransaction(d)
    PROVE  Turns(d) /\ UNCHANGED inbox
<1> DEFINE tx == account_txs[stream[d] + 1]
<1>1. /\ stream[d] \in 0..Len(account_txs) /\ account_txs \in Seq(StellarTxs)
      /\ stream[d] < Len(account_txs)
      /\ wallet_seq \in [Daemon -> Nat]
  BY DEF TakeTransaction, BridgeTerms, StreamShape, DepositTypeOK, StellarShape
<1>2. stream[d] + 1 \in DOMAIN account_txs
  BY <1>1
<1>3. tx \in Deposited /\ tx \in StellarTxs
  BY <1>1, <1>2 DEF Deposited
<1>4. PICK n : /\ n \in {MintEvents(tx)} \cup 0..MintEvents(tx)
               /\ job' = [job EXCEPT ![d] = ToMint(tx, n)]
  BY DEF TakeTransaction
<1> HIDE DEF tx
<1>5. /\ n \in Int
      /\ n # 0 => \A i \in DOMAIN tx.operations : tx.operations[i].type = "payment"
  BY <1>3, <1>4, MintsAreOfPayments
<1>6. ToMint(tx, n) \in Jobs
  BY <1>3, <1>5 DEF ToMint, Jobs, RestJobs, Readable
<1> QED
  BY <1>1, <1>4, <1>6 DEF Turns, TakeTransaction

\* What the loop knows of the senders of a deposit is what they have sent.
LEMMA SendersOf ==
    ASSUME NEW tx \in Readable, account_txs \in Seq(StellarTxs),
           NEW sender \in DOMAIN Senders(tx)
    PROVE  /\ tx \in Deposited /\ tx \in StellarTxs /\ tx.hash \in RefundHash
           /\ sender \in StellarAddress
           /\ Senders(tx)[sender] = SentBy(tx, sender) /\ SentBy(tx, sender) \in Nat
           /\ [hash |-> tx.hash, target |-> sender, amount |-> Senders(tx)[sender]]
                \in Owed
<1>1. tx \in Deposited /\ tx \in StellarTxs /\ tx.hash \in RefundHash
  <2>1. tx \in Deposited
    BY DEF Readable
  <2>2. tx \in StellarTxs
    BY <2>1 DEF Deposited
  <2> QED
    BY <2>1, <2>2, DepositAssumption
<1> DEFINE n == Len(tx.operations)
<1>2. /\ n \in Nat /\ DOMAIN tx.operations = 1..n
      /\ \A i \in 1..n : /\ tx.operations[i].type = "payment"
                         /\ tx.operations[i].from \in StellarAddress
                         /\ tx.operations[i].amount \in Nat
  BY <1>1, DepositAssumption DEF Readable, WellFormed
<1> HIDE DEF n
<1>3. Senders(tx) = [s \in {tx.operations[i].from :
                              i \in {j \in 1..n : tx.operations[j].to = BridgeAccount}}
                       |-> SentBy(tx, s)]
  BY <1>2, SendersSent
<1>4. SentBy(tx, sender) \in Nat
  BY <1>2, SentByType
<1>5. sender \in StellarAddress /\ Senders(tx)[sender] = SentBy(tx, sender)
  BY <1>2, <1>3
<1> QED
  BY <1>1, <1>4, <1>5 DEF Owed

\* It votes for the mint of the deposit, or signs its refund (mint.go).
LEMMA MintingTurns ==
    ASSUME BridgeTerms, Jobs \subseteq Jobs', NEW d \in Daemon, Mint(d)
    PROVE  Turns(d) /\ UNCHANGED inbox
<1> DEFINE tx == job[d].tx
           next == ToMint(tx, job[d].left - 1)
           save == [pc |-> "save", then |-> next]
           votes(sender) == [pc |-> "propose_mint", id |-> tx.hash,
                             target |-> MemoAccount[tx.memo],
                             amount |-> Senders(tx)[sender], then |-> save]
<1>1. /\ tx \in Readable /\ job[d].left \in Int /\ UNCHANGED inbox
      /\ wallet_seq \in [Daemon -> Nat] /\ account_txs \in Seq(StellarTxs)
  BY JobAt DEF Mint, BridgeTerms, JobsTrue, StellarShape, StreamShape, DepositTypeOK
<1>2. next \in RestJobs /\ save \in SaveJobs
  BY <1>1 DEF ToMint, RestJobs, SaveJobs
<1>3. next \in Jobs /\ save \in Jobs
  BY <1>2 DEF Jobs
<1>4. ASSUME NEW sender \in DOMAIN Senders(tx), MayMint(d, tx)
      PROVE  votes(sender) \in Jobs
  <2>1. /\ tx \in Deposited /\ tx \in StellarTxs /\ tx.hash \in RefundHash
        /\ sender \in StellarAddress
        /\ Senders(tx)[sender] = SentBy(tx, sender) /\ SentBy(tx, sender) \in Nat
    BY <1>1, SendersOf
  <2>2. MemoAccount[tx.memo] \in Account
    BY <1>4, <2>1, DepositAssumption DEF MayMint, WellFormed
  <2>3. [hash |-> tx.hash, target |-> MemoAccount[tx.memo],
         amount |-> Senders(tx)[sender]] \in Mintable
    BY <2>1, <2>2 DEF Mintable
  <2> HIDE DEF tx, save
  <2>4. votes(sender) \in MintDepositJobs
    BY <1>2, <2>1, <2>2, <2>3 DEF MintDepositJobs, Claim
  <2> QED
    BY <2>4 DEF Jobs, MintJobs
<1>5. ASSUME NEW sender \in DOMAIN Senders(tx),
             SignsRefund(d, tx.hash, sender, Senders(tx)[sender], save)
      PROVE  Turns(d)
  <2>1. /\ tx.hash \in RefundHash /\ sender \in StellarAddress
        /\ Senders(tx)[sender] \in Nat
        /\ [hash |-> tx.hash, target |-> sender, amount |-> Senders(tx)[sender]] \in Owed
    BY <1>1, SendersOf
  <2> DEFINE hash == tx.hash
             amount == Senders(tx)[sender]
  <2> HIDE DEF save, hash, amount, tx
  <2>2. /\ hash \in RefundHash /\ amount \in Nat /\ save \in {Idle} \cup SaveJobs
        /\ [hash |-> hash, target |-> sender, amount |-> amount] \in Owed
        /\ SignsRefund(d, hash, sender, amount, save)
    BY <1>2, <1>5, <2>1 DEF hash, amount
  <2> QED
    BY <1>1, <2>1, <2>2, SigningARefund
<1>6. \/ Does(d, next) \/ Does(d, save)
      \/ \E sender \in DOMAIN Senders(tx) :
           SignsRefund(d, tx.hash, sender, Senders(tx)[sender], save)
      \/ \E sender \in DOMAIN Senders(tx) : MayMint(d, tx) /\ Does(d, votes(sender))
  BY DEF Mint
<1> HIDE DEF tx, next, save, votes
<1> QED
  BY <1>1, <1>3, <1>4, <1>5, <1>6, DoingAJob

\* It has saved the cursor, has crashed, or is started again.
LEMMA ProcessTurns ==
    ASSUME BridgeTerms, Jobs \subseteq Jobs', NEW d \in Daemon,
           SaveStellarCursor(d) \/ CrashBridge(d) \/ RestartBridge(d)
    PROVE  Turns(d) /\ (UNCHANGED inbox \/ inbox' = [inbox EXCEPT ![d] = <<>>])
<1>1. wallet_seq \in [Daemon -> Nat] /\ account_seq \in Nat
  BY DEF BridgeTerms, StellarShape, AccountShape
<1>2. CASE SaveStellarCursor(d)
  <2>1. job[d] \in SaveJobs
    BY <1>2, JobAt DEF SaveStellarCursor, BridgeTerms, JobsTrue
  <2>2. job[d].then \in Jobs
    BY <2>1 DEF SaveJobs, Jobs
  <2> QED
    BY <1>1, <1>2, <2>2 DEF SaveStellarCursor, Turns
<1>3. CASE CrashBridge(d)
  BY <1>1, <1>3, FreeOrDown DEF CrashBridge, Crash, Turns
<1>4. CASE RestartBridge(d)
  BY <1>1, <1>4, FreeOrDown DEF RestartBridge, Restart, Turns
<1> QED
  BY <1>2, <1>3, <1>4

\* A call returned, or did not.
LEMMA CallsTurn ==
    ASSUME BridgeTerms, Jobs \subseteq Jobs', NEW d \in Daemon,
           \/ RetryProposeWithdrawOrAddSig(d) \/ RetrySetWithdrawExecuted(d)
           \/ CallDeposit(d)
    PROVE  (Turns(d) \/ UNCHANGED <<job, wallet_seq>>) /\ UNCHANGED inbox
<1>1. /\ job[d].pc \in {"propose_burn", "set_burn_executed", "propose_mint",
                        "create_refund", "set_refund_executed"}
      /\ job' = [job EXCEPT ![d] = job[d].then] \/ UNCHANGED job
      /\ UNCHANGED <<inbox, wallet_seq>>
  BY DEF CallDeposit, RetryProposeMintOrVote, RetryCreateRefundTransactionOrAddSig,
         RetrySetRefundTransactionExecuted, RetryProposeWithdrawOrAddSig,
         RetrySetWithdrawExecuted, Retries
<1>2. job[d] \in Jobs /\ wallet_seq \in [Daemon -> Nat]
  BY DEF BridgeTerms, JobsTrue, StellarShape
<1>3. job[d].then \in {Idle} \cup SaveJobs \cup CloseBurn(Closable)
  BY <1>1, <1>2, JobAt
     DEF CloseBurn, CloseRefund, SignBurnJobs, SignRefundJobs, MintJobs,
         MintBackJobs, MintDepositJobs
<1>4. job[d].then \in Jobs
  BY <1>3, FreeOrDown DEF Jobs
<1> QED
  BY <1>1, <1>2, <1>4 DEF Turns
-----------------------------------------------------------------------------
(* The order in which a daemon takes the events of a block. *)

EventsOfTypes(es) == \A i \in DOMAIN es : es[i].type \in DOMAIN TypeOrder

Before(es, i) == {j \in DOMAIN es : TakenBefore(es, j, i)}

\* Of two events one is taken before the other, and with it all before that one.
LEMMA OneComesFirst ==
    ASSUME NEW es, NEW n \in Nat, DOMAIN es = 1..n, EventsOfTypes(es),
           NEW i \in 1..n, NEW j \in 1..n
    PROVE  /\ ~TakenBefore(es, i, i)
           /\ i # j => TakenBefore(es, i, j) \/ TakenBefore(es, j, i)
           /\ TakenBefore(es, i, j) => Before(es, i) \cup {i} \subseteq Before(es, j)
<1>1. \A k \in 1..n : TypeOrder[es[k].type] \in Int
  BY DEF EventsOfTypes, TypeOrder
<1> DEFINE rank(k) == TypeOrder[es[k].type]
<1>2. \A k, l \in 1..n : TakenBefore(es, k, l)
                           <=> rank(k) < rank(l) \/ (rank(k) = rank(l) /\ k < l)
  BY DEF TakenBefore
<1>3. \A k \in 1..n : rank(k) \in Int
  BY <1>1
<1> HIDE DEF rank
<1>4. ~TakenBefore(es, i, i)
  BY <1>2, <1>3
<1>5. i # j => TakenBefore(es, i, j) \/ TakenBefore(es, j, i)
  BY <1>2, <1>3
<1>6. ASSUME TakenBefore(es, i, j), NEW k \in 1..n, TakenBefore(es, k, i)
      PROVE  TakenBefore(es, k, j)
  BY <1>2, <1>3, <1>6
<1> QED
  BY <1>4, <1>5, <1>6 DEF Before

\* So it gets an earlier place.
LEMMA PlacesDiffer ==
    ASSUME NEW es, NEW n \in Nat, DOMAIN es = 1..n, EventsOfTypes(es),
           NEW i \in 1..n, NEW j \in 1..n
    PROVE  /\ Place(es, i) \in 1..n
           /\ TakenBefore(es, i, j) => Place(es, i) < Place(es, j)
<1>1. IsFiniteSet(1..n) /\ Cardinality(1..n) = n
  BY FS_Interval
<1>2. ASSUME NEW k \in 1..n
      PROVE  /\ IsFiniteSet(Before(es, k)) /\ Cardinality(Before(es, k)) \in Nat
             /\ Place(es, k) = 1 + Cardinality(Before(es, k))
  <2>1. Before(es, k) \in SUBSET (1..n)
    BY DEF Before
  <2>2. Place(es, k) = 1 + Cardinality(Before(es, k))
    BY DEF Place, Before
  <2> QED
    BY <1>1, <2>1, <2>2, FS_Subset, FS_CardinalityType
<1>3. Cardinality(Before(es, i)) < n
  <2> DEFINE others == (1..n) \ {i}
  <2>1. IsFiniteSet(others) /\ Cardinality(others) = n - 1
    BY <1>1, FS_RemoveElement
  <2>2. Before(es, i) \in SUBSET others
    BY OneComesFirst DEF Before
  <2>3. Cardinality(Before(es, i)) <= Cardinality(others)
    BY <2>1, <2>2, FS_Subset
  <2> HIDE DEF others
  <2> QED
    BY <1>2, <2>1, <2>3
<1>4. ASSUME TakenBefore(es, i, j)
      PROVE  Cardinality(Before(es, i)) < Cardinality(Before(es, j))
  <2>1. /\ Before(es, i) \in SUBSET Before(es, j)
        /\ i \in Before(es, j) /\ i \notin Before(es, i)
    BY <1>4, OneComesFirst DEF Before
  <2>2. /\ Cardinality(Before(es, i)) <= Cardinality(Before(es, j))
        /\ Cardinality(Before(es, i)) # Cardinality(Before(es, j))
    BY <1>2, <2>1, FS_Subset
  <2> QED
    BY <1>2, <2>2
<1> QED
  BY <1>2, <1>3, <1>4

\* And every place is taken.
LEMMA PlacesAreTaken ==
    ASSUME NEW es, NEW n \in Nat, DOMAIN es = 1..n, EventsOfTypes(es),
           NEW k \in 1..n
    PROVE  \E i \in 1..n : Place(es, i) = k
<1> SUFFICES ASSUME \A i \in 1..n : Place(es, i) # k
             PROVE  FALSE
  OBVIOUS
<1> DEFINE f == [i \in 1..n |-> Place(es, i)]
           others == (1..n) \ {k}
<1>1. f \in [1..n -> others]
  BY PlacesDiffer
<1>2. IsFiniteSet(1..n) /\ Cardinality(1..n) = n
  BY FS_Interval
<1>3. IsFiniteSet(others) /\ Cardinality(others) = n - 1
  BY <1>2, FS_RemoveElement
<1> HIDE DEF f, others
<1>4. Cardinality(others) < Cardinality(1..n)
  BY <1>2, <1>3
<1>5. PICK i \in 1..n, j \in 1..n : i # j /\ f[i] = f[j]
  BY <1>1, <1>2, <1>3, <1>4, FS_PigeonHole
<1>6. Place(es, i) = Place(es, j)
  <2>1. f[i] = Place(es, i) /\ f[j] = Place(es, j)
    BY DEF f
  <2> QED
    BY <1>5, <2>1, Zenon
<1>7. TakenBefore(es, i, j) \/ TakenBefore(es, j, i)
  BY <1>5, OneComesFirst
<1>8. Place(es, i) < Place(es, j) \/ Place(es, j) < Place(es, i)
  BY <1>7, PlacesDiffer
<1>9. Place(es, i) \in 1..n /\ Place(es, j) \in 1..n
  BY PlacesDiffer
<1> DEFINE p == Place(es, i)
           q == Place(es, j)
<1>10. p = q /\ q \in 1..n /\ (p < q \/ q < p)
  BY <1>6, <1>8, <1>9, Zenon
<1> HIDE DEF p, q
<1> QED
  BY <1>10

\* A daemon takes every event of a block once, those of one type before those of
\* the next, and those of one type as they were deposited (events.go:110): for
\* blocks of any length.
THEOREM EventsOfABlockInOrder ==
    ASSUME NEW es, NEW n \in Nat, DOMAIN es = 1..n, EventsOfTypes(es)
    PROVE  \E p \in [1..n -> 1..n] :
             /\ ByType(es) = [k \in 1..n |-> es[p[k]]]
             /\ \A i \in 1..n : \E k \in 1..n : p[k] = i
             /\ \A k, l \in 1..n : k < l => TakenBefore(es, p[k], p[l])
<1> DEFINE p == [k \in 1..n |-> CHOOSE i \in DOMAIN es : Place(es, i) = k]
<1>1. ASSUME NEW k \in 1..n
      PROVE  p[k] \in 1..n /\ Place(es, p[k]) = k
  BY ZenonT(40), PlacesAreTaken
<1>2. p \in [1..n -> 1..n] /\ ByType(es) = [k \in 1..n |-> es[p[k]]]
  BY <1>1 DEF ByType
<1> HIDE DEF p
<1>3. ASSUME NEW i \in 1..n
      PROVE  p[Place(es, i)] = i /\ Place(es, i) \in 1..n
  <2>1. Place(es, i) \in 1..n
    BY PlacesDiffer
  <2> DEFINE j == p[Place(es, i)]
  <2>2. j \in 1..n /\ Place(es, j) = Place(es, i)
    BY <1>1, <2>1
  <2> HIDE DEF j
  <2>3. ~TakenBefore(es, i, j) /\ ~TakenBefore(es, j, i)
    BY <2>1, <2>2, PlacesDiffer
  <2>4. i = j
    BY <2>2, <2>3, OneComesFirst
  <2> QED
    BY <2>1, <2>4 DEF j
<1>4. ASSUME NEW k \in 1..n, NEW l \in 1..n, k < l
      PROVE  TakenBefore(es, p[k], p[l])
  <2> DEFINE i == p[k]
             j == p[l]
  <2>1. /\ i \in 1..n /\ j \in 1..n
        /\ Place(es, i) = k /\ Place(es, j) = l
    BY <1>1
  <2> HIDE DEF i, j
  <2>2. ~TakenBefore(es, j, i) /\ i # j
    BY <1>4, <2>1, PlacesDiffer
  <2>3. TakenBefore(es, i, j)
    BY <2>1, <2>2, OneComesFirst
  <2> QED
    BY <2>3 DEF i, j
<1>5. \A i \in 1..n : \E k \in 1..n : p[k] = i
  BY <1>3
<1> QED
  BY <1>2, <1>4, <1>5
-----------------------------------------------------------------------------
(* The steps keep the invariant. *)

\* The steps that are not a daemon's.
Surroundings ==
    \/ \E target \in StellarAddress, amount \in Amount : Swap(target, amount)
    \/ \E tx \in StellarTxs : Deposit(tx)
    \/ \E fee \in Fee : ChangeFee(fee)
    \/ UNCHANGED bridgeVars

\* A step is a daemon's, the end of a block, or one of the surroundings.
LEMMA EveryStep ==
    ASSUME [BridgeNext]_bridgeVars
    PROVE  \/ Surroundings \/ EndBlock
           \/ \E d \in Daemon :
                \/ HandleWithdraw(d) \/ Mint(d) \/ TakeTransaction(d)
                \/ HandleRefund(d) \/ Submit(d)
                \/ RetryProposeWithdrawOrAddSig(d) \/ RetrySetWithdrawExecuted(d)
                \/ CallDeposit(d)
                \/ SaveStellarCursor(d) \/ CrashBridge(d) \/ RestartBridge(d)
BY DEF BridgeNext, DepositNext, HandleDeposit, Surroundings

\* A daemon turns to what it may do, and what it has to read stays true.
LEMMA DaemonsTurn ==
    ASSUME BridgeTerms, FactsStay, Jobs \subseteq Jobs', NEW d \in Daemon,
           \/ HandleWithdraw(d) \/ Mint(d) \/ TakeTransaction(d)
           \/ HandleRefund(d) \/ Submit(d)
           \/ RetryProposeWithdrawOrAddSig(d) \/ RetrySetWithdrawExecuted(d)
           \/ CallDeposit(d)
           \/ SaveStellarCursor(d) \/ CrashBridge(d) \/ RestartBridge(d)
    PROVE  /\ Turns(d) \/ UNCHANGED <<job, wallet_seq>>
           /\ inbox' \in [Daemon -> Seq(TrueEvents)]
<1>1. inbox \in [Daemon -> Seq(TrueEvents)]
  BY DEF BridgeTerms, EventsTrue
<1>2. [inbox EXCEPT ![d] = <<>>] \in [Daemon -> Seq(TrueEvents)]
  <2>1. <<>> \in Seq(TrueEvents)
    OBVIOUS
  <2> QED
    BY <1>1, <2>1, Zenon
<1>3. CASE HandleWithdraw(d)
  BY <1>1, <1>3, WithdrawHandlersTurn, FetchingABurn
<1>4. CASE HandleRefund(d)
  BY <1>1, <1>4, RefundHandlersTurn, FetchingARefund DEF HandleRefund
<1>5. CASE Mint(d) \/ TakeTransaction(d) \/ Submit(d)
  BY <1>1, <1>5, MintingTurns, TakingTurns, SubmittingTurns
<1>6. CASE SaveStellarCursor(d) \/ CrashBridge(d) \/ RestartBridge(d)
  BY <1>1, <1>2, <1>6, ProcessTurns
<1>7. CASE \/ RetryProposeWithdrawOrAddSig(d) \/ RetrySetWithdrawExecuted(d)
           \/ CallDeposit(d)
  BY <1>1, <1>7, CallsTurn
<1> QED
  BY <1>3, <1>4, <1>5, <1>6, <1>7

\* So every daemon is about to do something it may.
LEMMA JobsStep ==
    ASSUME CallsAreFree, BridgeTerms, [BridgeNext]_bridgeVars
    PROVE  JobsTrue' /\ StellarShape'
<1>1. FactsStay /\ Jobs \subseteq Jobs' /\ AccountShape'
  BY TruthStays
<1>2. job \in [Daemon -> Jobs] /\ wallet_seq \in [Daemon -> Nat]
  BY DEF BridgeTerms, JobsTrue, StellarShape
<1>3. job \in [Daemon -> Jobs']
  BY <1>1, <1>2
<1>4. CASE UNCHANGED <<job, wallet_seq>>
  BY <1>1, <1>2, <1>3, <1>4 DEF JobsTrue, StellarShape
<1>5. ASSUME NEW d \in Daemon, Turns(d)
      PROVE  JobsTrue' /\ StellarShape'
  <2>1. PICK todo \in Jobs' : job' = [job EXCEPT ![d] = todo]
    BY <1>5 DEF Turns
  <2>2. job' \in [Daemon -> Jobs']
    BY <1>3, <2>1
  <2> QED
    BY <1>1, <1>5, <2>2 DEF Turns, JobsTrue, StellarShape
<1>6. CASE Surroundings \/ EndBlock
  <2>1. UNCHANGED <<job, wallet_seq>>
    BY <1>6 DEF Surroundings, Swap, Deposit, ChangeFee, EndBlock, bridgeVars,
                daemonVars, loopVars
  <2> QED
    BY <1>4, <2>1
<1> QED
  BY <1>1, <1>4, <1>5, <1>6, EveryStep, DaemonsTurn

\* The counts of the faults keep their types.
LEMMA FaultsShapeStep ==
    ASSUME BridgeTerms, [BridgeNext]_bridgeVars
    PROVE  FaultsShape'
<1>1. /\ rounds \in [BurnId \cup RefundHash -> Nat] /\ faults \in Faults
      /\ breaks \in Nat /\ breaks <= faults.breaks /\ faults.breaks \in Nat
  BY DaemonAssumption DEF BridgeTerms, FaultsShape
<1>2. UNCHANGED faults
  BY FaultsStay
<1>3. CASE UNCHANGED <<breaks, rounds>>
  BY <1>1, <1>2, <1>3 DEF FaultsShape
<1>4. CASE EndBlock
  <2>1. rounds' \in [BurnId \cup RefundHash -> Nat]
    BY <1>1, <1>4 DEF EndBlock
  <2>2. PICK deaf \in SUBSET {d \in Daemon : job[d].pc # "down"} :
          breaks' = breaks + Cardinality(deaf) /\ breaks' <= faults.breaks
    BY <1>4 DEF EndBlock
  <2>3. Cardinality(deaf) \in Nat
    <3>1. deaf \in SUBSET Account
      BY DaemonsAreAccounts
    <3> QED
      BY <3>1, PalletAssumption, FS_Subset, FS_CardinalityType
  <2> QED
    BY <1>1, <1>2, <2>1, <2>2, <2>3 DEF FaultsShape
<1>5. ASSUME NEW d \in Daemon, CrashBridge(d)
      PROVE  FaultsShape'
  BY <1>1, <1>2, <1>5 DEF CrashBridge, Crash, FaultsShape
<1>6. CASE Surroundings
  BY <1>3, <1>6 DEF Surroundings, Swap, Deposit, ChangeFee, bridgeVars, daemonVars,
                    faultVars
<1>7. ASSUME NEW d \in Daemon,
             \/ HandleWithdraw(d) \/ Mint(d) \/ TakeTransaction(d)
             \/ HandleRefund(d) \/ Submit(d)
             \/ RetryProposeWithdrawOrAddSig(d) \/ RetrySetWithdrawExecuted(d)
             \/ CallDeposit(d) \/ SaveStellarCursor(d) \/ RestartBridge(d)
      PROVE  UNCHANGED <<breaks, rounds>>
  <2>1. CASE HandleWithdraw(d) \/ HandleRefund(d)
    BY <2>1 DEF HandleWithdraw, HandleWithdrawCreated, HandleBadWithdraw,
                HandleWithdrawExpired, HandleWithdrawReady, FetchBurn, HandleRefund,
                HandleRefundExpired, HandleRefundReady, FetchRefund, Takes, faultVars
  <2>2. CASE \/ RetryProposeWithdrawOrAddSig(d) \/ RetrySetWithdrawExecuted(d)
             \/ CallDeposit(d)
    BY <2>2 DEF CallDeposit, RetryProposeMintOrVote,
                RetryCreateRefundTransactionOrAddSig,
                RetrySetRefundTransactionExecuted, RetryProposeWithdrawOrAddSig,
                RetrySetWithdrawExecuted, Retries, faultVars
  <2>3. CASE \/ Mint(d) \/ TakeTransaction(d) \/ Submit(d) \/ SaveStellarCursor(d)
             \/ RestartBridge(d)
    BY <2>3 DEF Mint, TakeTransaction, Submit, SaveStellarCursor, RestartBridge,
                Restart, faultVars
  <2> QED
    BY <1>7, <2>1, <2>2, <2>3
<1> QED
  BY <1>3, <1>4, <1>5, <1>6, <1>7, EveryStep
-----------------------------------------------------------------------------
(* The events of a step. *)

\* Expired entries come in some order.
LEMMA OrderedSet ==
    ASSUME NEW S, IsFiniteSet(S), NEW f \in SetToSeqs(S)
    PROVE  f \in Seq(S)
<1>1. Cardinality(S) \in Nat
  BY FS_CardinalityType
<1>2. f \in [1..Cardinality(S) -> S]
  BY DEF SetToSeqs
<1> QED
  BY <1>1, <1>2

\* The events of the expiry of burns and refunds are true.
LEMMA ExpiredIsTrue ==
    ASSUME BridgeTerms
    PROVE  /\ \A id \in ExpiredBurns : BurnExpired(id, burn_transactions[id]) \in TrueEvents
           /\ \A h \in ExpiredRefunds :
                RefundExpired(h, refund_transactions[h]) \in TrueEvents
<1>1. ASSUME NEW id \in ExpiredBurns
      PROVE  BurnExpired(id, burn_transactions[id]) \in BurnExpiredEvents
  <2> DEFINE burn == burn_transactions[id]
  <2>1. id \in BurnId /\ burn # None
    BY <1>1 DEF ExpiredBurns, Expires
  <2>2. burn \in BurnTransaction
    BY <2>1 DEF BridgeTerms, TypeOK
  <2>3. id \in Burns
    BY <2>1, PalletAssumption DEF BridgeTerms, TypeOK, BurnLedger, BurnId, Burns
  <2>4. BurnOf(id) = burn
    BY <2>1 DEF BurnOf, BurnRecord
  <2>5. burn.target \in StellarAddress /\ burn.amount \in Nat
    BY <2>2 DEF BurnTransaction
  <2> HIDE DEF burn
  <2> QED
    BY <2>3, <2>4, <2>5 DEF BurnExpired, BurnExpiredEvents, Pays, burn
<1>2. ASSUME NEW h \in ExpiredRefunds
      PROVE  RefundExpired(h, refund_transactions[h]) \in RefundExpiredEvents
  <2> DEFINE refund == refund_transactions[h]
  <2>1. h \in RefundHash /\ refund # None
    BY <1>2 DEF ExpiredRefunds, Expires
  <2>2. refund \in BurnTransaction /\ Claim(h, refund) \in Owed
    BY <2>1 DEF BridgeTerms, TypeOK, RefundTransaction, LedgersTrue
  <2>3. h \in KnownRefunds
    BY <2>1 DEF KnownRefunds
  <2>4. refund.target \in StellarAddress /\ refund.amount \in Nat
    BY <2>2 DEF BurnTransaction
  <2> HIDE DEF refund
  <2> QED
    BY <2>2, <2>3, <2>4 DEF RefundExpired, RefundExpiredEvents, Claim, refund
<1> QED
  BY <1>1, <1>2 DEF TrueEvents

\* So are those of a block, in whatever order they are taken.
LEMMA TakenInOrder ==
    ASSUME NEW es \in Seq(TrueEvents)
    PROVE  ByType(es) \in Seq(TrueEvents)
<1> DEFINE n == Len(es)
<1>1. n \in Nat /\ DOMAIN es = 1..n /\ \A i \in 1..n : es[i] \in TrueEvents
  OBVIOUS
<1>2. \A e \in TrueEvents : e.type \in DOMAIN TypeOrder
  BY DEF TrueEvents, CreatedEvents, BurnExpiredEvents, RefundExpiredEvents, TypeOrder
<1> HIDE DEF n
<1>3. EventsOfTypes(es)
  BY <1>1, <1>2 DEF EventsOfTypes
<1>4. PICK p \in [1..n -> 1..n] : ByType(es) = [k \in 1..n |-> es[p[k]]]
  <2>1. n \in Nat /\ DOMAIN es = 1..n
    BY <1>1
  <2>2. \E p \in [1..n -> 1..n] :
          /\ ByType(es) = [k \in 1..n |-> es[p[k]]]
          /\ \A i \in 1..n : \E k \in 1..n : p[k] = i
          /\ \A k, l \in 1..n : k < l => TakenBefore(es, p[k], p[l])
    BY <1>3, <2>1, EventsOfABlockInOrder, Zenon
  <2> QED
    BY <2>2
<1>5. \A k \in 1..n : es[p[k]] \in TrueEvents
  BY <1>1
<1> QED
  BY <1>1, <1>4, <1>5

\* The end of a block.
LEMMA EndBlockEvents ==
    ASSUME IsFiniteSet(RefundHash), BridgeTerms, TrueEvents \subseteq TrueEvents',
           EndBlock
    PROVE  EventsTrue'
<1>1. PICK ids \in SetToSeqs(ExpiredBurns), hashes \in SetToSeqs(ExpiredRefunds),
           deaf \in SUBSET {d \in Daemon : job[d].pc # "down"} :
        inbox' = [d \in Daemon |->
          IF job[d].pc = "down" \/ d \in deaf THEN inbox[d]
          ELSE inbox[d] \o
            ByType(events \o
              ([i \in DOMAIN ids |-> BurnExpired(ids[i], burn_transactions[ids[i]])]
               \o [i \in DOMAIN hashes |->
                     RefundExpired(hashes[i], refund_transactions[hashes[i]])]))]
  BY DEF EndBlock
<1> DEFINE old == [i \in DOMAIN ids |-> BurnExpired(ids[i], burn_transactions[ids[i]])]
           back == [i \in DOMAIN hashes |->
                      RefundExpired(hashes[i], refund_transactions[hashes[i]])]
           sorted == ByType(events \o (old \o back))
<1>2. ids \in Seq(ExpiredBurns) /\ hashes \in Seq(ExpiredRefunds)
  <2>1. ExpiredBurns \in SUBSET BurnId /\ ExpiredRefunds \in SUBSET RefundHash
    BY DEF ExpiredBurns, ExpiredRefunds
  <2>2. IsFiniteSet(ExpiredBurns) /\ IsFiniteSet(ExpiredRefunds)
    BY <2>1, BurnIdFinite, FS_Subset
  <2> QED
    BY <2>2, OrderedSet
<1>3. old \in Seq(TrueEvents)
  <2>1. Len(ids) \in Nat /\ DOMAIN ids = 1..Len(ids)
    BY <1>2
  <2>2. \A i \in DOMAIN ids : BurnExpired(ids[i], burn_transactions[ids[i]]) \in TrueEvents
    BY <1>2, ExpiredIsTrue
  <2> QED
    BY <2>1, <2>2
<1>4. back \in Seq(TrueEvents)
  <2>1. Len(hashes) \in Nat /\ DOMAIN hashes = 1..Len(hashes)
    BY <1>2
  <2>2. \A i \in DOMAIN hashes :
          RefundExpired(hashes[i], refund_transactions[hashes[i]]) \in TrueEvents
    BY <1>2, ExpiredIsTrue
  <2> QED
    BY <2>1, <2>2
<1>5. events \in Seq(TrueEvents) /\ inbox \in [Daemon -> Seq(TrueEvents)]
  BY DEF BridgeTerms, EventsTrue
<1>6. sorted \in Seq(TrueEvents)
  <2> HIDE DEF old, back
  <2>1. events \o (old \o back) \in Seq(TrueEvents)
    BY <1>3, <1>4, <1>5
  <2> QED
    BY <2>1, TakenInOrder
<1>7. inbox' = [d \in Daemon |-> IF job[d].pc = "down" \/ d \in deaf THEN inbox[d]
                                 ELSE inbox[d] \o sorted]
  BY <1>1
<1> HIDE DEF old, back, sorted
<1>8. \A d \in Daemon : inbox[d] \o sorted \in Seq(TrueEvents)
  BY <1>5, <1>6
<1>9. inbox' \in [Daemon -> Seq(TrueEvents)]
  BY <1>5, <1>7, <1>8
<1>10. events' = <<>>
  BY DEF EndBlock, FinalizeBlock
<1> QED
  BY <1>9, <1>10 DEF EventsTrue

\* A swap announces its burn.
LEMMA SwapEvent ==
    ASSUME BridgeTerms, TypeOK', TrueEvents \subseteq TrueEvents',
           NEW target \in StellarAddress, NEW amount \in Amount, Swap(target, amount)
    PROVE  events' \in Seq(TrueEvents')
<1> DEFINE id == NextBurnId
           net == BurnedAmount(amount)
           e == Created(id, User, target, net)
           burn == [block |-> block, amount |-> net, target |-> target,
                    signatures |-> <<>>, sequence_number |-> 0]
<1>1. /\ id \in BurnId /\ burn_transaction_id' = id
      /\ burn_transactions' = [burn_transactions EXCEPT ![id] = burn]
      /\ events' = Append(events, e)
  BY DEF Swap, SwapToStellar
<1>2. net \in Nat
  <2>1. withdraw_fee \in Nat /\ amount \in Nat /\ amount > withdraw_fee
    BY PalletAssumption DEF BridgeTerms, TypeOK, Swap, SwapToStellar
  <2> QED
    BY <2>1 DEF BurnedAmount
<1> HIDE DEF id, net
<1>3. burn_transactions'[id] = burn
  BY <1>1 DEF BridgeTerms, TypeOK
<1>4. burn # None
  <2>1. burn \in BurnTransaction
    BY <1>2 DEF BridgeTerms, TypeOK, BurnTransaction
  <2> HIDE DEF burn
  <2> QED
    BY <2>1, PalletAssumption
<1>5. id \in Burns'
  BY <1>1 DEF Burns, BurnId
<1>6. BurnRecord(burn_transactions', executed_burn_transactions', id) = burn
  BY <1>3, <1>4 DEF BurnRecord
<1>7. e \in CreatedEvents'
  <2>1. /\ e = [type |-> "BurnTransactionCreated", id |-> id, source |-> User,
                target |-> target, amount |-> net]
        /\ burn.target = target /\ burn.amount = net
    BY DEF Created
  <2> HIDE DEF e, burn
  <2> QED
    BY <1>2, <1>5, <1>6, <2>1 DEF CreatedEvents, Pays, BurnOf
<1>8. e \in TrueEvents'
  BY <1>7 DEF TrueEvents
<1> HIDE DEF e
<1>9. events \in Seq(TrueEvents')
  BY DEF BridgeTerms, EventsTrue
<1> QED
  BY <1>1, <1>8, <1>9

\* A signature may announce that its burn is ready.
LEMMA BurnReadyEvent ==
    ASSUME BridgeTerms, FactsStay, TrueEvents \subseteq TrueEvents', NEW d \in Daemon,
           RetryProposeWithdrawOrAddSig(d)
    PROVE  events' \in Seq(TrueEvents')
<1> DEFINE id == job[d].id
<1>1. events \in Seq(TrueEvents')
  BY DEF BridgeTerms, EventsTrue
<1>2. job[d] \in SignBurnJobs
  BY JobAt DEF RetryProposeWithdrawOrAddSig, Retries, BridgeTerms, JobsTrue
<1>3. id \in Burns'
  BY <1>2 DEF SignBurnJobs, FactsStay
<1>4. BurnReady(id) \in TrueEvents'
  BY <1>3 DEF BurnReady, TrueEvents
<1>5. UNCHANGED events \/ events' = Append(events, BurnReady(id))
  BY DEF RetryProposeWithdrawOrAddSig, Retries, ProposeBurnOrAddSig, Announce, palletVars
<1> HIDE DEF id
<1> QED
  BY <1>1, <1>4, <1>5

\* A signature leaves a refund with the terms it had, or gives it those that
\* are signed.
LEMMA SignedRefund ==
    ASSUME CallsAreFree, TypeOK, NEW d \in Daemon, NEW hash \in RefundHash,
           NEW tx \in PaymentTx,
           CreateRefundOrAddSig(d, hash, tx.target, tx.amount,
                                SignatureOf(KeyOf[d], tx), KeyOf[d], tx.seqno)
    PROVE  \E new \in BurnTransaction :
             /\ refund_transactions' = [refund_transactions EXCEPT ![hash] = new]
             /\ \/ Claim(hash, new) = Claim(hash, tx)
                \/ /\ refund_transactions[hash] # None
                   /\ Claim(hash, new) = Claim(hash, refund_transactions[hash])
             /\ UNCHANGED events \/ events' = Append(events, RefundReady(hash))
             /\ UNCHANGED <<executed_refund_transactions, burnVars, mintVars>>
<1> DEFINE signature == SignatureOf(KeyOf[d], tx)
           first == [block |-> block, amount |-> tx.amount, target |-> tx.target,
                     signatures |-> <<>>, sequence_number |-> tx.seqno]
           found == IF refund_transactions[hash] # None
                    THEN refund_transactions[hash] ELSE first
           new == WithSignature(found, signature, KeyOf[d], tx.seqno)
<1>1. /\ tx.target \in StellarAddress /\ tx.amount \in Nat /\ tx.seqno \in Nat
      /\ signature \in Sig /\ KeyOf[d] \in StellarKey
  BY DaemonsAreAccounts DEF CallsAreFree, PaymentTx
<1>2. found \in BurnTransaction
  <2>1. first \in BurnTransaction
    BY <1>1 DEF BurnTransaction, TypeOK
  <2>2. refund_transactions[hash] \in BurnTransaction \cup {None}
    BY DEF TypeOK, RefundTransaction
  <2> QED
    BY <2>1, <2>2
<1>3. \/ found.target = tx.target /\ found.amount = tx.amount
      \/ refund_transactions[hash] # None /\ found = refund_transactions[hash]
  OBVIOUS
<1>4. /\ refund_transactions' = [refund_transactions EXCEPT ![hash] = new]
      /\ UNCHANGED events \/ events' = Append(events, RefundReady(hash))
      /\ UNCHANGED <<executed_refund_transactions, burnVars, mintVars>>
  BY DEF CreateRefundOrAddSig, Announce
<1> HIDE DEF found, signature
<1>5. new \in BurnTransaction
  BY <1>1, <1>2, WithSignatureType
<1>6. new.target = found.target /\ new.amount = found.amount
  BY <1>2 DEF WithSignature, BurnTransaction
<1> HIDE DEF new
<1> QED
  BY <1>3, <1>4, <1>5, <1>6 DEF Claim

\* What the daemon signs for is of the deposit.
LEMMA CreatedRefund ==
    ASSUME CallsAreFree, BridgeTerms, NEW d \in Daemon,
           RetryCreateRefundTransactionOrAddSig(d)
    PROVE  \/ UNCHANGED palletVars
           \/ \E hash \in RefundHash, new \in BurnTransaction :
                /\ refund_transactions' = [refund_transactions EXCEPT ![hash] = new]
                /\ Claim(hash, new) \in Owed
                /\ UNCHANGED events \/ events' = Append(events, RefundReady(hash))
                /\ UNCHANGED <<executed_refund_transactions, burnVars, mintVars>>
<1> DEFINE hash == job[d].id
           tx == job[d].tx
<1>1. job[d] \in SignRefundJobs
  BY JobAt DEF RetryCreateRefundTransactionOrAddSig, Retries, BridgeTerms, JobsTrue
<1>2. hash \in RefundHash /\ tx \in PaymentTx /\ Claim(hash, tx) \in Owed
  BY <1>1 DEF SignRefundJobs
<1>3. \/ CreateRefundOrAddSig(d, hash, tx.target, tx.amount,
                              SignatureOf(KeyOf[d], tx), KeyOf[d], tx.seqno)
      \/ UNCHANGED palletVars
  BY DEF RetryCreateRefundTransactionOrAddSig, Retries
<1>4. TypeOK /\ (refund_transactions[hash] # None
                   => Claim(hash, refund_transactions[hash]) \in Owed)
  BY <1>2 DEF BridgeTerms, LedgersTrue
<1> HIDE DEF hash, tx
<1> QED
  BY <1>2, <1>3, <1>4, SignedRefund

\* It may announce that its refund is ready.
LEMMA RefundReadyEvent ==
    ASSUME CallsAreFree, BridgeTerms, TrueEvents \subseteq TrueEvents',
           NEW d \in Daemon, RetryCreateRefundTransactionOrAddSig(d)
    PROVE  events' \in Seq(TrueEvents')
<1>1. events \in Seq(TrueEvents')
  BY DEF BridgeTerms, EventsTrue
<1>2. CASE UNCHANGED palletVars
  BY <1>1, <1>2 DEF palletVars
<1>3. ASSUME NEW hash \in RefundHash, NEW new \in BurnTransaction,
             refund_transactions' = [refund_transactions EXCEPT ![hash] = new],
             UNCHANGED events \/ events' = Append(events, RefundReady(hash))
      PROVE  events' \in Seq(TrueEvents')
  <2>1. refund_transactions'[hash] # None
    BY <1>3, PalletAssumption DEF BridgeTerms, TypeOK
  <2>2. hash \in KnownRefunds'
    BY <2>1 DEF KnownRefunds
  <2>3. RefundReady(hash) \in TrueEvents'
    BY <2>2 DEF RefundReady, TrueEvents
  <2> QED
    BY <1>1, <1>3, <2>3
<1> QED
  BY <1>2, <1>3, CreatedRefund

\* The events of every step.
LEMMA EventsStep ==
    ASSUME IsFiniteSet(RefundHash), CallsAreFree, BridgeTerms,
           [BridgeNext]_bridgeVars
    PROVE  EventsTrue'
<1>1. FactsStay /\ Jobs \subseteq Jobs' /\ TrueEvents \subseteq TrueEvents' /\ TypeOK'
  BY TruthStays
<1>2. events \in Seq(TrueEvents) /\ inbox \in [Daemon -> Seq(TrueEvents)]
  BY DEF BridgeTerms, EventsTrue
<1>3. events \in Seq(TrueEvents') /\ inbox \in [Daemon -> Seq(TrueEvents')]
  BY <1>1, <1>2
<1>4. CASE EndBlock
  BY <1>1, <1>4, EndBlockEvents
<1>5. ASSUME NEW target \in StellarAddress, NEW amount \in Amount, Swap(target, amount)
      PROVE  EventsTrue'
  BY <1>1, <1>3, <1>5, SwapEvent DEF EventsTrue, Swap, loopVars
<1>6. CASE \/ UNCHANGED bridgeVars \/ \E tx \in StellarTxs : Deposit(tx)
           \/ \E fee \in Fee : ChangeFee(fee)
  BY <1>3, <1>6 DEF EventsTrue, Deposit, ChangeFee, SetDepositFee, bridgeVars, daemonVars,
                    palletVars, loopVars
<1>7. ASSUME NEW d \in Daemon, inbox' \in [Daemon -> Seq(TrueEvents)]
      PROVE  inbox' \in [Daemon -> Seq(TrueEvents')]
  BY <1>1, <1>7
<1>8. ASSUME NEW d \in Daemon,
             \/ HandleWithdraw(d) \/ Mint(d) \/ TakeTransaction(d)
             \/ HandleRefund(d) \/ Submit(d)
             \/ RetryProposeWithdrawOrAddSig(d) \/ RetrySetWithdrawExecuted(d)
             \/ CallDeposit(d)
             \/ SaveStellarCursor(d) \/ CrashBridge(d) \/ RestartBridge(d)
      PROVE  events' \in Seq(TrueEvents')
  <2>1. CASE UNCHANGED palletVars
    BY <1>3, <2>1 DEF palletVars
  <2>2. CASE RetryProposeWithdrawOrAddSig(d)
    BY <1>1, <2>2, BurnReadyEvent
  <2>3. CASE RetryCreateRefundTransactionOrAddSig(d)
    BY <1>1, <2>3, RefundReadyEvent
  <2>4. CASE \/ RetrySetWithdrawExecuted(d) \/ RetryProposeMintOrVote(d)
             \/ RetrySetRefundTransactionExecuted(d)
    <3>1. UNCHANGED events
      BY <2>4 DEF RetrySetWithdrawExecuted, RetryProposeMintOrVote,
                  RetrySetRefundTransactionExecuted, Retries, SetBurnExecuted,
                  ProposeOrVoteMint, SetRefundExecuted, palletVars
    <3> QED
      BY <1>3, <3>1
  <2>5. CASE \/ HandleWithdraw(d) \/ Mint(d) \/ TakeTransaction(d)
             \/ HandleRefund(d) \/ Submit(d)
             \/ SaveStellarCursor(d) \/ CrashBridge(d) \/ RestartBridge(d)
    <3>1. UNCHANGED palletVars
      BY <2>5, HandlersReadOnly
         DEF HandleDeposit, TakeTransaction, Mint, SaveStellarCursor, CrashBridge,
             RestartBridge, Crash, Restart
    <3> QED
      BY <2>1, <3>1
  <2> QED
    BY <1>8, <2>2, <2>3, <2>4, <2>5 DEF CallDeposit
<1>9. ASSUME NEW d \in Daemon,
             \/ HandleWithdraw(d) \/ Mint(d) \/ TakeTransaction(d)
             \/ HandleRefund(d) \/ Submit(d)
             \/ RetryProposeWithdrawOrAddSig(d) \/ RetrySetWithdrawExecuted(d)
             \/ CallDeposit(d)
             \/ SaveStellarCursor(d) \/ CrashBridge(d) \/ RestartBridge(d)
      PROVE  EventsTrue'
  BY <1>1, <1>7, <1>8, <1>9, DaemonsTurn DEF EventsTrue
<1> QED
  BY <1>4, <1>5, <1>6, <1>9, EveryStep DEF Surroundings
-----------------------------------------------------------------------------
(* The ledgers of a step. *)

\* Which calls write to which ledger.
LEMMA WhoWrites ==
    ASSUME [BridgeNext]_bridgeVars
    PROVE  /\ \/ UNCHANGED executed_burn_transactions
              \/ \E d \in Daemon : RetrySetWithdrawExecuted(d)
           /\ \/ UNCHANGED <<refund_transactions, executed_refund_transactions>>
              \/ EndBlock
              \/ \E d \in Daemon : \/ RetryCreateRefundTransactionOrAddSig(d)
                                   \/ RetrySetRefundTransactionExecuted(d)
           /\ \/ UNCHANGED <<mint_transactions, executed_mint_transactions>>
              \/ \E d \in Daemon : RetryProposeMintOrVote(d)
<1>1. CASE UNCHANGED palletVars
  BY <1>1 DEF palletVars, mintVars, burnVars, refundVars
<1>2. CASE Surroundings
  <2>1. UNCHANGED <<mint_transactions, executed_mint_transactions,
                    executed_burn_transactions, refund_transactions,
                    executed_refund_transactions>>
    BY <1>1, <1>2
       DEF Surroundings, Swap, SwapToStellar, Deposit, ChangeFee, SetDepositFee,
           bridgeVars, daemonVars, palletVars, mintVars, burnVars, refundVars
  <2> QED
    BY <2>1
<1>3. CASE EndBlock
  BY <1>3 DEF EndBlock, FinalizeBlock, mintVars
<1>4. ASSUME NEW d \in Daemon,
             \/ HandleWithdraw(d) \/ Mint(d) \/ TakeTransaction(d)
             \/ HandleRefund(d) \/ Submit(d)
             \/ SaveStellarCursor(d) \/ CrashBridge(d) \/ RestartBridge(d)
      PROVE  UNCHANGED palletVars
  BY <1>4, HandlersReadOnly
     DEF HandleDeposit, TakeTransaction, Mint, SaveStellarCursor, CrashBridge,
         RestartBridge, Crash, Restart
<1>5. ASSUME NEW d \in Daemon, RetryProposeWithdrawOrAddSig(d)
      PROVE  UNCHANGED <<executed_burn_transactions, mintVars, refundVars>>
  BY <1>5 DEF RetryProposeWithdrawOrAddSig, Retries, ProposeBurnOrAddSig, palletVars,
              burnVars
<1>6. ASSUME NEW d \in Daemon, RetrySetWithdrawExecuted(d)
      PROVE  UNCHANGED <<mintVars, refundVars>>
  BY <1>6 DEF RetrySetWithdrawExecuted, Retries, SetBurnExecuted, palletVars
<1>7. ASSUME NEW d \in Daemon, RetryProposeMintOrVote(d)
      PROVE  UNCHANGED <<burnVars, refundVars>>
  BY <1>7 DEF RetryProposeMintOrVote, Retries, ProposeOrVoteMint, palletVars
<1>8. ASSUME NEW d \in Daemon, \/ RetryCreateRefundTransactionOrAddSig(d)
                               \/ RetrySetRefundTransactionExecuted(d)
      PROVE  UNCHANGED <<mintVars, burnVars>>
  BY <1>8 DEF RetryCreateRefundTransactionOrAddSig, RetrySetRefundTransactionExecuted,
              Retries, CreateRefundOrAddSig, SetRefundExecuted, palletVars
<1> QED
  BY <1>1, <1>2, <1>3, <1>4, <1>5, <1>6, <1>7, <1>8, EveryStep
     DEF CallDeposit, mintVars, burnVars, refundVars

\* A burn is set executed by a daemon that may.
LEMMA BurnsClosed ==
    ASSUME BridgeTerms, FactsStay, [BridgeNext]_bridgeVars, NEW id \in BurnId,
           executed_burn_transactions'[id] # None
    PROVE  id \in Closable'
<1>1. executed_burn_transactions[id] # None => id \in Closable
  BY DEF BridgeTerms, LedgersTrue, Burned
<1>2. CASE UNCHANGED executed_burn_transactions
  BY <1>1, <1>2 DEF FactsStay
<1>3. ASSUME NEW d \in Daemon, RetrySetWithdrawExecuted(d)
      PROVE  id \in Closable'
  <2>1. job[d].id \in Closable
    BY <1>3, JobAt DEF RetrySetWithdrawExecuted, Retries, BridgeTerms, JobsTrue, CloseBurn
  <2>2. \/ UNCHANGED executed_burn_transactions
        \/ executed_burn_transactions' =
             [executed_burn_transactions EXCEPT ![job[d].id] =
                burn_transactions[job[d].id]]
    BY <1>3 DEF RetrySetWithdrawExecuted, Retries, SetBurnExecuted, palletVars, burnVars
  <2>3. executed_burn_transactions[id] # None \/ id = job[d].id
    BY <2>2 DEF BridgeTerms, TypeOK
  <2> QED
    BY <1>1, <2>1, <2>3 DEF FactsStay
<1> QED
  BY <1>2, <1>3, WhoWrites

\* A refund is signed for what a sender of its deposit is owed, and set executed
\* by a daemon that may.
LEMMA RefundsOwedAndReturned ==
    ASSUME CallsAreFree, BridgeTerms, FactsStay, [BridgeNext]_bridgeVars,
           NEW h \in RefundHash
    PROVE  /\ refund_transactions'[h] # None
                => Claim(h, refund_transactions'[h]) \in Owed'
           /\ executed_refund_transactions'[h] # None => h \in Returned'
<1> DEFINE Kept ==
             /\ refund_transactions'[h] # None
                  => Claim(h, refund_transactions'[h]) \in Owed'
             /\ executed_refund_transactions'[h] # None => h \in Returned'
<1>1. /\ refund_transactions[h] # None => Claim(h, refund_transactions[h]) \in Owed'
      /\ executed_refund_transactions[h] # None => h \in Returned'
  BY DEF BridgeTerms, LedgersTrue, Refunded, FactsStay
<1>2. TypeOK
  BY DEF BridgeTerms
<1>3. CASE UNCHANGED <<refund_transactions, executed_refund_transactions>>
  BY <1>1, <1>3
<1>4. CASE EndBlock
  <2>1. /\ refund_transactions'[h] = (IF h \in ExpiredRefunds
                                      THEN Reset(refund_transactions[h])
                                      ELSE refund_transactions[h])
        /\ UNCHANGED executed_refund_transactions
    BY <1>4 DEF EndBlock, FinalizeBlock
  <2>2. CASE h \in ExpiredRefunds
    <3>1. refund_transactions[h] # None /\ refund_transactions[h] \in BurnTransaction
      BY <1>2, <2>2 DEF ExpiredRefunds, Expires, TypeOK, RefundTransaction
    <3>2. KeepsTerms(refund_transactions[h], Reset(refund_transactions[h]))
      BY <1>2, <3>1, ResetTerms DEF TypeOK
    <3> QED
      BY <1>1, <2>1, <2>2, <3>1, <3>2 DEF KeepsTerms, Claim
  <2> QED
    BY <1>1, <2>1, <2>2
<1>5. ASSUME NEW d \in Daemon, RetryCreateRefundTransactionOrAddSig(d)
      PROVE  Kept
  <2>1. CASE UNCHANGED palletVars
    BY <1>3, <2>1 DEF palletVars, refundVars
  <2>2. ASSUME NEW hash \in RefundHash, NEW new \in BurnTransaction,
               refund_transactions' = [refund_transactions EXCEPT ![hash] = new],
               Claim(hash, new) \in Owed, UNCHANGED executed_refund_transactions
        PROVE  Kept
    <3>1. refund_transactions'[h] = IF h = hash THEN new ELSE refund_transactions[h]
      BY <1>2, <2>2 DEF TypeOK
    <3> QED
      BY <1>1, <2>2, <3>1 DEF FactsStay
  <2> QED
    BY <1>5, <2>1, <2>2, CreatedRefund
<1>6. ASSUME NEW d \in Daemon, RetrySetRefundTransactionExecuted(d)
      PROVE  Kept
  <2>1. job[d].id \in Returned
    BY <1>6, JobAt DEF RetrySetRefundTransactionExecuted, Retries, BridgeTerms, JobsTrue,
                       CloseRefund
  <2>2. CASE UNCHANGED palletVars
    BY <1>3, <2>2 DEF palletVars, refundVars
  <2>3. CASE SetRefundExecuted(d, job[d].id)
    <3>1. /\ refund_transactions'[h] \in {refund_transactions[h], None}
          /\ \/ executed_refund_transactions'[h] = executed_refund_transactions[h]
             \/ h = job[d].id
      BY <1>2, <2>3 DEF SetRefundExecuted, Without, TypeOK
    <3> QED
      BY <1>1, <2>1, <3>1 DEF FactsStay
  <2> QED
    BY <1>6, <2>2, <2>3 DEF RetrySetRefundTransactionExecuted, Retries
<1> QED
  BY <1>3, <1>4, <1>5, <1>6, WhoWrites

\* So the ledgers of burns and refunds stay true.
LEMMA LedgersStep ==
    ASSUME CallsAreFree, BridgeTerms, [BridgeNext]_bridgeVars
    PROVE  LedgersTrue'
<1>1. FactsStay
  BY TruthStays
<1> QED
  BY <1>1, BurnsClosed, RefundsOwedAndReturned DEF LedgersTrue, Burned, Refunded

\* A vote keeps the target and the amount of a mint that there is, and gives
\* those that are voted for to a new one.
LEMMA VotedTerms ==
    ASSUME TypeOK, NEW d, NEW m \in MintId, NEW target \in Account, NEW amount \in Nat,
           ProposeOrVoteMint(d, m, target, amount)
    PROVE  \E found \in MintTransaction, new \in MintTransaction :
             /\ new.target = found.target /\ new.amount = found.amount
             /\ \/ found = mint_transactions[m] /\ found # None
                \/ found.target = target /\ found.amount = amount
             /\ mint_transactions' \in {[mint_transactions EXCEPT ![m] = new],
                                        [mint_transactions EXCEPT ![m] = None]}
             /\ executed_mint_transactions'
                  \in {[executed_mint_transactions EXCEPT ![m] = new],
                       executed_mint_transactions}
<1> DEFINE found == IF mint_transactions[m] # None THEN mint_transactions[m]
                    ELSE [amount |-> amount, target |-> target,
                          block |-> block, votes |-> 0]
           tx == [found EXCEPT !.votes = @ + 1]
           done == [tx EXCEPT !.block = block]
<1>1. VoteMint(m, found)
  BY DEF ProposeOrVoteMint
<1>2. found \in MintTransaction
  BY DEF TypeOK, MintTransaction
<1>3. \/ found = mint_transactions[m] /\ found # None
      \/ found.target = target /\ found.amount = amount
  OBVIOUS
<1>4. block \in Nat
  BY DEF TypeOK
<1> HIDE DEF found
<1>5. tx \in MintTransaction /\ tx.target = found.target /\ tx.amount = found.amount
  BY <1>2, VotedType DEF MintTransaction
<1>6. \/ /\ mint_transactions' = [mint_transactions EXCEPT ![m] = tx]
         /\ UNCHANGED executed_mint_transactions
      \/ /\ mint_transactions' = [mint_transactions EXCEPT ![m] = None]
         /\ executed_mint_transactions' = [executed_mint_transactions EXCEPT ![m] = done]
  BY <1>1 DEF VoteMint, MintTft, Without
<1> HIDE DEF tx
<1>7. done \in MintTransaction /\ done.target = tx.target /\ done.amount = tx.amount
  BY <1>4, <1>5, VotedType DEF MintTransaction
<1> HIDE DEF done
<1> QED
  BY <1>2, <1>3, <1>5, <1>6, <1>7

\* What a mint was for stays.
LEMMA MintStaysTrue ==
    ASSUME FactsStay, TypeOK, NEW mint
    PROVE  /\ \A h \in RefundHash : IsDeposit(h, mint) =>
                (mint # None => Claim(h, mint) \in Mintable')
           /\ \A id \in BurnId : GivesBack(id, mint) =>
                (mint # None => /\ id \in Burns' /\ mint.target = User
                                /\ mint.amount = BurnOf(id)'.amount)
<1>1. ASSUME NEW id \in Burns
      PROVE  id \in Burns' /\ BurnOf(id)'.amount = BurnOf(id).amount
  BY DEF FactsStay, Pays, BurnOf
<1>2. Mintable \subseteq Mintable'
  BY DEF FactsStay
<1> QED
  BY <1>1, <1>2 DEF IsDeposit, GivesBack
\* A daemon votes for what it has read: the mint of a deposit, or of the burn
\* that it gives back.
LEMMA VotedIsTrue ==
    ASSUME IdsDiffer, BridgeTerms, NEW d \in Daemon, job[d].pc = "propose_mint",
           NEW mint, mint.target = job[d].target, mint.amount = job[d].amount
    PROVE  /\ job[d].id \in MintId /\ job[d].target \in Account /\ job[d].amount \in Nat
           /\ job[d].id \in RefundHash => IsDeposit(job[d].id, mint)
           /\ job[d].id \in BurnId => GivesBack(job[d].id, mint)
<1> DEFINE id == job[d].id
<1>1. job[d] \in MintJobs /\ TypeOK
  BY JobAt DEF BridgeTerms, JobsTrue
<1>2. CASE job[d] \in MintBackJobs
  <2>1. /\ id \in Burns /\ job[d].target = User /\ job[d].amount \in Nat
        /\ job[d].amount = BurnOf(id).amount
    BY <1>2 DEF MintBackJobs, Closable
  <2>2. id \in BurnId /\ id \notin RefundHash
    BY <1>1, <2>1, BurnsHaveIds DEF IdsDiffer
  <2> HIDE DEF id
  <2> QED
    BY <2>1, <2>2, WithdrawAssumption DEF GivesBack, id
<1>3. CASE job[d] \in MintDepositJobs
  <2>1. /\ id \in RefundHash /\ job[d].target \in Account /\ job[d].amount \in Nat
        /\ Claim(id, job[d]) \in Mintable
    BY <1>3 DEF MintDepositJobs
  <2>2. id \notin BurnId
    BY <2>1 DEF IdsDiffer
  <2> HIDE DEF id
  <2> QED
    BY <2>1, <2>2, DepositAssumption DEF IsDeposit, Claim, id
<1> QED
  BY <1>1, <1>2, <1>3 DEF MintJobs

\* So the ledger of mints stays true.
LEMMA MintsStep ==
    ASSUME CallsAreFree, IdsDiffer, BridgeTerms, [BridgeNext]_bridgeVars
    PROVE  MintsTrue'
<1> DEFINE TrueOf(n, mint) ==
             /\ n \in RefundHash => (mint # None => Claim(n, mint) \in Mintable')
             /\ n \in BurnId => (mint # None => /\ n \in Burns' /\ mint.target = User
                                                /\ mint.amount = BurnOf(n)'.amount)
           WasTrue(n, mint) == /\ n \in RefundHash => IsDeposit(n, mint)
                               /\ n \in BurnId => GivesBack(n, mint)
<1>1. FactsStay /\ TypeOK
  BY TruthStays DEF BridgeTerms
<1>2. ASSUME NEW n, NEW mint, WasTrue(n, mint)
      PROVE  TrueOf(n, mint)
  BY <1>1, <1>2, MintStaysTrue
<1>3. \A n : /\ WasTrue(n, mint_transactions[n])
             /\ WasTrue(n, executed_mint_transactions[n])
  BY DEF BridgeTerms, MintsTrue
<1>4. SUFFICES \A n \in MintId : /\ TrueOf(n, mint_transactions'[n])
                                 /\ TrueOf(n, executed_mint_transactions'[n])
  BY WithdrawAssumption, DepositAssumption DEF MintsTrue, IsDeposit, GivesBack
<1> HIDE DEF WasTrue, TrueOf
<1>5. CASE UNCHANGED <<mint_transactions, executed_mint_transactions>>
  BY <1>2, <1>3, <1>5
<1>6. ASSUME NEW d \in Daemon, NEW n \in MintId,
             job[d].pc = "propose_mint",
             ProposeOrVoteMint(d, job[d].id, job[d].target, job[d].amount)
      PROVE  /\ TrueOf(n, mint_transactions'[n])
             /\ TrueOf(n, executed_mint_transactions'[n])
  <2> DEFINE m == job[d].id
             target == job[d].target
             amount == job[d].amount
  <2>1. m \in MintId /\ target \in Account /\ amount \in Nat
    <3>1. \E mint : mint.target = job[d].target /\ mint.amount = job[d].amount
      OBVIOUS
    <3> QED
      BY <1>6, <3>1, VotedIsTrue
  <2>2. ASSUME NEW mint, mint.target = target, mint.amount = amount
        PROVE  WasTrue(m, mint)
    BY <1>6, <2>2, VotedIsTrue DEF WasTrue
  <2>3. ProposeOrVoteMint(d, m, target, amount)
    BY <1>6
  <2> HIDE DEF m, target, amount
  <2>4. PICK found \in MintTransaction, new \in MintTransaction :
             /\ new.target = found.target /\ new.amount = found.amount
             /\ \/ found = mint_transactions[m] /\ found # None
                \/ found.target = target /\ found.amount = amount
             /\ mint_transactions' \in {[mint_transactions EXCEPT ![m] = new],
                                        [mint_transactions EXCEPT ![m] = None]}
             /\ executed_mint_transactions'
                  \in {[executed_mint_transactions EXCEPT ![m] = new],
                       executed_mint_transactions}
    BY <1>1, <2>1, <2>3, VotedTerms
  <2>5. WasTrue(m, found)
    BY <1>3, <2>2, <2>4
  <2>6. WasTrue(m, new)
    <3>1. found # None
      BY PalletAssumption
    <3> QED
      BY <2>4, <2>5, <3>1 DEF WasTrue, IsDeposit, GivesBack, Claim
  <2>7. TrueOf(m, new) /\ TrueOf(n, mint_transactions[n])
          /\ TrueOf(n, executed_mint_transactions[n])
    BY <1>2, <1>3, <2>6
  <2>8. TrueOf(n, None)
    <3>1. IsDeposit(n, None) /\ GivesBack(n, None)
      BY DEF IsDeposit, GivesBack
    <3>2. WasTrue(n, None)
      BY <3>1 DEF WasTrue
    <3> QED
      BY <1>2, <3>2
  <2>9. mint_transactions'[n] \in {mint_transactions[n], None, new}
        /\ (mint_transactions'[n] = new => n = m \/ new = mint_transactions[n])
    <3>1. CASE mint_transactions' = [mint_transactions EXCEPT ![m] = new]
      BY <1>1, <2>1, <3>1 DEF TypeOK
    <3>2. CASE mint_transactions' = [mint_transactions EXCEPT ![m] = None]
      BY <1>1, <2>1, <3>2, PalletAssumption DEF TypeOK
    <3> QED
      BY <2>4, <3>1, <3>2
  <2>10. \/ executed_mint_transactions'[n] = executed_mint_transactions[n]
         \/ n = m /\ executed_mint_transactions'[n] = new
    BY <1>1, <2>1, <2>4 DEF TypeOK
  <2> QED
    BY <2>7, <2>8, <2>9, <2>10
<1>7. ASSUME NEW d \in Daemon, RetryProposeMintOrVote(d)
      PROVE  \/ UNCHANGED <<mint_transactions, executed_mint_transactions>>
             \/ /\ job[d].pc = "propose_mint"
                /\ ProposeOrVoteMint(d, job[d].id, job[d].target, job[d].amount)
  BY <1>7 DEF RetryProposeMintOrVote, Retries, palletVars, mintVars
<1> QED
  BY <1>5, <1>6, <1>7, WhoWrites
-----------------------------------------------------------------------------
(* The invariant, and what follows from it. *)

\* At the start nothing was burned, deposited or paid, and no daemon does
\* anything.
LEMMA BridgeTermsInit ==
    ASSUME DepositInit
    PROVE  BridgeTerms
<1> USE DEF DepositInit, DaemonInit
<1>1. TypeOK /\ BurnLedger
  BY PalletAssumption DEF Init, TypeOK, BurnId, BurnLedger
<1>2. StreamShape
  BY StreamInit, PalletAssumption, DepositAssumption
<1>3. StellarShape
  <2>1. <<>> \in Seq([id : BurnId \cup RefundHash, tx : PaymentTx])
    OBVIOUS
  <2> QED
    BY <2>1 DEF StellarShape, AccountShape
<1>4. FaultsShape
  BY DaemonAssumption DEF FaultsShape
<1>5. LedgersTrue
  BY DEF Init, LedgersTrue, Burned, Refunded
<1>6. MintsTrue
  <2>1. \A m \in MintId : mint_transactions[m] = None /\ executed_mint_transactions[m] = None
    BY DEF Init
  <2> QED
    BY <2>1, WithdrawAssumption, DepositAssumption DEF MintsTrue, IsDeposit, GivesBack
<1>7. EventsTrue
  <2>1. <<>> \in Seq(TrueEvents)
    OBVIOUS
  <2> QED
    BY <2>1 DEF Init, EventsTrue
<1>8. JobsTrue
  BY FreeOrDown DEF JobsTrue
<1> QED
  BY <1>1, <1>2, <1>3, <1>4, <1>5, <1>6, <1>7, <1>8 DEF BridgeTerms

\* And no step breaks it.
LEMMA BridgeTermsStep ==
    ASSUME IsFiniteSet(RefundHash), CallsAreFree, IdsDiffer, BridgeTerms,
           [BridgeNext]_bridgeVars
    PROVE  BridgeTerms'
BY TruthStays, JobsStep, FaultsShapeStep, EventsStep, LedgersStep, MintsStep
   DEF BridgeTerms

LEMMA BridgeTermsInvariant ==
    ASSUME IsFiniteSet(RefundHash), CallsAreFree, IdsDiffer
    PROVE  BridgeSpec => []BridgeTerms
BY BridgeTermsInit, BridgeTermsStep, PTL DEF BridgeSpec

\* The pallet under the daemons is the pallet with any callers: whatever the
\* daemons do, every call they make is one that TftBridgePallet allows
\* (client.go:28, :55, :76, :115, :136), so what holds of it holds in the bridge.
THEOREM BridgeImplementsPallet ==
    ASSUME IsFiniteSet(RefundHash), CallsAreFree, IdsDiffer
    PROVE  BridgeSpec => Spec
<1>1. DepositInit => Init
  BY DEF DepositInit, DaemonInit
<1>2. BridgeTerms /\ [BridgeNext]_bridgeVars => [Next]_palletVars
  BY TruthStays
<1> QED
  BY <1>1, <1>2, BridgeTermsInvariant, PTL DEF BridgeSpec, Spec

\* Every token on tfchain is backed, with all the daemons at work.
THEOREM BackedInTheBridge ==
    ASSUME IsFiniteSet(MintId), CallsAreFree, IdsDiffer
    PROVE  BridgeSpec => []Backed
<1>1. IsFiniteSet(RefundHash)
  BY DepositAssumption, FS_Subset
<1> QED
  BY <1>1, BridgeImplementsPallet, TokensAreBacked, PTL

\* The loop of a daemon is in one of its known places, and every event it has to
\* read is of a burn or a refund that the pallet knows, although expiries,
\* executions and other validators' signatures come between (events.go:110).
THEOREM DaemonsAreTypeCorrect ==
    ASSUME IsFiniteSet(RefundHash), CallsAreFree, IdsDiffer
    PROVE  BridgeSpec => []DaemonTypeOK
<1>1. ASSUME BridgeTerms, NEW d \in Daemon
      PROVE  job[d].pc \in {"idle", "down", "propose_burn", "set_burn_executed",
                            "propose_mint", "create_refund",
                            "set_refund_executed", "fetch_burn", "fetch_refund",
                            "submit", "mint", "save"}
  <2>1. job[d] \in Jobs
    BY <1>1 DEF BridgeTerms, JobsTrue
  <2> QED
    BY <2>1 DEF Jobs, RestJobs, SaveJobs, CloseBurn, CloseRefund, DownJobs, FetchJobs,
                SignBurnJobs, SignRefundJobs, MintJobs, MintBackJobs,
                MintDepositJobs, SubmitJobs, SubmitBurnJobs, SubmitRefundJobs, Idle
<1>2. ASSUME BridgeTerms, NEW e \in TrueEvents
      PROVE  IF e.type \in {"RefundTransactionExpired", "RefundTransactionReady"}
             THEN refund_transactions[e.hash] # None \/ Refunded(e.hash)
             ELSE e.id \in 1..burn_transaction_id
  BY <1>2 DEF TrueEvents, CreatedEvents, BurnExpiredEvents, RefundExpiredEvents,
              KnownRefunds, Burns
<1>3. ASSUME BridgeTerms, NEW d \in Daemon, NEW i \in DOMAIN inbox[d]
      PROVE  inbox[d][i] \in TrueEvents
  BY <1>3 DEF BridgeTerms, EventsTrue
<1>4. BridgeTerms => DaemonTypeOK
  BY <1>1, <1>2, <1>3 DEF BridgeTerms, DaemonTypeOK, StellarShape, AccountShape, FaultsShape
<1> QED
  BY <1>4, BridgeTermsInvariant, PTL

\* With a Horizon that fails only for bad accounts, no burn is set executed
\* before what it burned was paid to its target, unless that is bad: for any
\* validators, however often they crash, repeat a call or lose their events, and
\* however the ends of blocks fall between the fetch of a burn, its submission and
\* the call that closes it (withdraw.go:82 after :77).
THEOREM ExecutedBurnsArePaid ==
    ASSUME IsFiniteSet(RefundHash), CallsAreFree, IdsDiffer
    PROVE  BridgeSpec => []ExecutedMeansPaid
<1>1. ASSUME BridgeTerms, ~faults.flaky, NEW id \in BurnId, Burned(id)
      PROVE  LET burn == executed_burn_transactions[id] IN
             \/ burn.target \in BadTarget
             \/ \E i \in DOMAIN payments :
                  /\ payments[i].tx.target = burn.target
                  /\ payments[i].tx.amount = burn.amount
  <2>1. id \in Closable
    BY <1>1 DEF BridgeTerms, LedgersTrue
  <2>2. BurnOf(id) = executed_burn_transactions[id]
    BY <1>1 DEF BridgeTerms, BurnLedger, Burned, BurnOf, BurnRecord
  <2> QED
    BY <1>1, <2>1, <2>2 DEF Closable, Pays
<1>2. BridgeTerms => ExecutedMeansPaid
  BY <1>1 DEF ExecutedMeansPaid
<1> QED
  BY <1>2, BridgeTermsInvariant, PTL

\* What is minted back for a burn goes to the account that burned, and is what it
\* burned (withdraw.go:102), while the mint is voted for and after.
THEOREM MintsGiveBackTheBurn ==
    ASSUME IsFiniteSet(RefundHash), CallsAreFree, IdsDiffer
    PROVE  BridgeSpec => []RefundsTheBurn
<1>1. ASSUME BridgeTerms, NEW id \in BurnId,
             NEW mint, mint # None, GivesBack(id, mint)
      PROVE  LET burn == BurnRecord(burn_transactions, executed_burn_transactions, id)
             IN  burn # None /\ mint.target = User /\ mint.amount = burn.amount
  <2>1. id \in Burns /\ mint.target = User /\ mint.amount = BurnOf(id).amount
    BY <1>1 DEF GivesBack
  <2>2. id <= burn_transaction_id
    BY <2>1 DEF Burns
  <2>3. BurnOf(id) # None
    BY <1>1, <2>2 DEF BridgeTerms, BurnLedger, BurnOf, BurnRecord
  <2> QED
    BY <2>1, <2>3 DEF BurnOf
<1>2. ASSUME BridgeTerms, NEW id \in BurnId
      PROVE  GivesBack(id, BurnRecord(mint_transactions, executed_mint_transactions, id))
  BY <1>2 DEF BridgeTerms, MintsTrue, BurnRecord
<1>3. BridgeTerms => RefundsTheBurn
  BY <1>1, <1>2 DEF RefundsTheBurn
<1> QED
  BY <1>3, BridgeTermsInvariant, PTL

\* An executed mint is of one deposit, its target the account that the memo names
\* and its amount all that one sender has sent, although every vote after the
\* first ignores the target and the amount it comes with (lib.rs:600).
THEOREM MintsAreDeposits ==
    ASSUME IsFiniteSet(RefundHash), CallsAreFree, IdsDiffer
    PROVE  BridgeSpec => []MintedAsDeposited
<1>1. ASSUME BridgeTerms, NEW h \in RefundHash, Minted(h)
      PROVE  \E tx \in Deposited, sender \in StellarAddress :
               /\ tx.hash = h
               /\ executed_mint_transactions[h].target = MemoAccount[tx.memo]
               /\ executed_mint_transactions[h].amount = SentBy(tx, sender)
  <2>1. Claim(h, executed_mint_transactions[h]) \in Mintable
    BY <1>1 DEF BridgeTerms, MintsTrue, IsDeposit, Minted
  <2> QED
    BY <2>1 DEF Mintable, Claim
<1>2. BridgeTerms => MintedAsDeposited
  BY <1>1 DEF MintedAsDeposited
<1> QED
  BY <1>2, BridgeTermsInvariant, PTL

\* A refund is set executed only after a payment on Stellar, with the hash of the
\* deposit as its memo, that returns to one of its senders all it has sent
\* (refund.go:69 after :65), whatever breaks or is repeated.
THEOREM ExecutedRefundsArePaid ==
    ASSUME IsFiniteSet(RefundHash), CallsAreFree, IdsDiffer
    PROVE  BridgeSpec => []RefundMeansPaid
<1>1. BridgeTerms => RefundMeansPaid
  BY DEF BridgeTerms, LedgersTrue, RefundMeansPaid, Returned
<1> QED
  BY <1>1, BridgeTermsInvariant, PTL

\* The same for the specification of deposits alone, which the runs check.
THEOREM DepositsAloneAreTrue ==
    ASSUME IsFiniteSet(RefundHash), CallsAreFree, IdsDiffer
    PROVE  DepositSpec => [](DaemonTypeOK /\ MintedAsDeposited /\ RefundMeansPaid)
BY DepositsAreOfTheBridge, DaemonsAreTypeCorrect, MintsAreDeposits,
   ExecutedRefundsArePaid, PTL
=============================================================================
