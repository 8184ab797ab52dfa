------------------------ MODULE BridgeSolventProofs ------------------------
(***************************************************************************)
(* The bridge account holds on Stellar all that the accounts hold on tfchain  *)
(* and that swaps wait to be paid (Solvent), as long as no daemon breaks,     *)
(* rescans or repeats a vote and nothing has expired.  Three results of their *)
(* own lead to it.                                                          *)
(*                                                                         *)
(* A deposit is not both minted and returned (NotMintedAndRefunded): a daemon *)
(* that handles a deposit once votes for it or signs its refund, and is past  *)
(* it from then on, for its cursor never goes back.  Each signature of a      *)
(* refund, pending or executed, is of another daemon that is past the deposit *)
(* without a vote.  So those that sign and those that vote are different      *)
(* daemons, and there are not enough of them for both.                       *)
(*                                                                         *)
(* A refund is paid once, for the signatures collected for it while it was    *)
(* pending and those collected after its execution, which the pallet does not *)
(* look at, are of different daemons too: not enough for two payments.        *)
(*                                                                         *)
(* A burn is paid once in each round of signatures: the first signature of a  *)
(* round fixes the sequence number of the payment, and an account takes a     *)
(* number once.  This holds whatever breaks.                                 *)
(*                                                                         *)
(* So each burn and each deposit takes out of the bridge, as a mint, as a     *)
(* payment or as what is owed, no more than it brought in.  The sums over all *)
(* of them and the backing of the tokens (Backed) give the rest.             *)
(***************************************************************************)
EXTENDS BridgeOneWayProofs

-----------------------------------------------------------------------------
(* The inductive invariant. *)

Still == Quiet /\ ~faults.rescan

HashesDiffer ==
    \A i, j \in DOMAIN account_txs : account_txs[i].hash = account_txs[j].hash => i = j

\* The deposits that are handled once at most.
Single(h) == \A tx \in Deposited : tx.hash = h => MintEvents(tx) <= 1

\* What follows the handling of an event of tx.
Follows(todo, tx) == AtEvent(todo, tx) /\ (MintEvents(tx) <= 1 => todo = Idle)

\* A daemon is done with a single transaction when it saves its cursor.
InHand(d) ==
    /\ cursor[d] \in 0..stream[d]
    /\ \/ Elsewhere(job[d])
       \/ /\ stream[d] # 0
          /\ \/ /\ job[d].pc = "mint" /\ job[d].tx = LastTaken(d)
                /\ MintEvents(LastTaken(d)) <= 1 => job[d].left = 1 /\ cursor[d] < stream[d]
             \/ job[d].pc = "save" /\ Follows(job[d].then, LastTaken(d))
             \/ /\ job[d].pc \in {"propose_mint", "create_refund"}
                /\ job[d].id = LastTaken(d).hash
                /\ job[d].then.pc = "save" /\ Follows(job[d].then.then, LastTaken(d))
                /\ MintEvents(LastTaken(d)) <= 1 => cursor[d] < stream[d]

\* Daemon d has the deposit in hand, or has done what it does for it.
AtHand(d, h) == stream[d] # 0 /\ LastTaken(d).hash = h /\ cursor[d] < stream[d]
Past(d, h) ==
    \/ \E i \in 1..cursor[d] : account_txs[i].hash = h
    \/ job[d].pc = "save" /\ LastTaken(d).hash = h

Returning(d, h) == job[d].pc = "create_refund" /\ job[d].id = h

VotersPast(h) == \A d \in voters[h] : d \in Daemon /\ Past(d, h)

\* Those that are done with a deposit and have not voted to mint it.
Returners(h) == {d \in Daemon : Past(d, h) /\ d \notin voters[h]}

SignaturesOf(tx) == IF tx = None THEN <<>> ELSE tx.signatures
Pending(h) == SignaturesOf(refund_transactions[h])
Closed(h) == SignaturesOf(executed_refund_transactions[h])

\* The number that the signatures of a payment are for.
NumberOf(signatures) == signatures[1].signature[2].seqno

\* The numbers that a payment of the refund can have.
Enough(signatures) == Len(signatures) >= SignatureCount
Usable(h) == {NumberOf(s) : s \in {t \in {Pending(h), Closed(h)} : Enough(t)}}
InUse(h) ==
    {NumberOf(job[d].signatures) :
       d \in {c \in Daemon : Submitting(c, h) /\ Enough(job[c].signatures)}}

\* No daemon has to read of an expiry of the refund, or returns it for one.
NotAskedAgain(h) ==
    \A d \in Daemon :
      /\ \A i \in DOMAIN inbox[d] :
           inbox[d][i].type = "RefundTransactionExpired" => inbox[d][i].hash # h
      /\ Returning(d, h) => job[d].then.pc = "save"

\* Each of the signatures of a refund is of a daemon of its own.
SignersReturn(h) ==
    Len(Pending(h)) + Len(Closed(h)) <= Cardinality(Returners(h))

PaidAsSigned(h) == PaymentsOf(h) \cup InUse(h) \subseteq Usable(h)

SettlesOnce(h) ==
    /\ VotersPast(h) /\ VotesAreOfVoters(h)
    /\ rounds[h] = 0 => NotAskedAgain(h) /\ SignersReturn(h) /\ PaidAsSigned(h)

AccountInOrder ==
    /\ account_seq = Len(payments)
    /\ \A i \in DOMAIN payments : payments[i].tx.seqno = i

DepositsOneWay ==
    /\ validators = Daemon /\ HashesDiffer /\ AccountInOrder
    /\ Still => /\ \A d \in Daemon : InHand(d)
                /\ \A h \in RefundHash : Single(h) => SettlesOnce(h)

-----------------------------------------------------------------------------
(* The stream. *)

\* No two transactions of the account have one hash.
LEMMA HashesDifferStep ==
    ASSUME BridgeTerms, HashesDiffer, [BridgeNext]_bridgeVars
    PROVE  HashesDiffer'
<1>1. account_txs \in Seq(StellarTxs)
  BY DEF BridgeTerms, StreamShape, DepositTypeOK
<1>2. CASE UNCHANGED account_txs
  BY <1>2 DEF HashesDiffer
<1>3. ASSUME NEW tx \in StellarTxs, Deposit(tx)
      PROVE  HashesDiffer'
  <2>1. /\ account_txs' = Append(account_txs, tx)
        /\ \A i \in DOMAIN account_txs : account_txs[i].hash # tx.hash
    BY <1>3 DEF Deposit
  <2>2. /\ DOMAIN account_txs = 1..Len(account_txs) /\ Len(account_txs) \in Nat
        /\ DOMAIN account_txs' = 1..(Len(account_txs) + 1)
        /\ \A i \in DOMAIN account_txs : account_txs'[i] = account_txs[i]
        /\ account_txs'[Len(account_txs) + 1] = tx
    BY <1>1, <2>1
  <2> QED
    BY <2>1, <2>2 DEF HashesDiffer
<1>4. UNCHANGED account_txs \/ \E tx \in StellarTxs : Deposit(tx)
  BY OtherSteps
     DEF StreamStep, depositVars, ChangeFee, TakeTransaction, SaveStellarCursor,
         CrashBridge, RestartBridge
<1> QED
  BY <1>2, <1>3, <1>4

\* A daemon's place in the stream and its cursor are its own.
LEMMA OwnPlace ==
    ASSUME BridgeTerms, [BridgeNext]_bridgeVars, NEW d \in Daemon,
           ~TakeTransaction(d), ~SaveStellarCursor(d), ~CrashBridge(d), ~RestartBridge(d)
    PROVE  stream'[d] = stream[d] /\ cursor'[d] = cursor[d]
<1>1. CASE UNCHANGED depositVars
  BY <1>1 DEF depositVars
<1>2. ASSUME NEW tx, NEW fee, Deposit(tx) \/ ChangeFee(fee)
      PROVE  UNCHANGED <<stream, cursor>>
  BY <1>2 DEF Deposit, ChangeFee, depositVars
<1>3. ASSUME NEW c \in Daemon, c # d,
             TakeTransaction(c) \/ SaveStellarCursor(c) \/ CrashBridge(c) \/ RestartBridge(c)
      PROVE  stream'[d] = stream[d] /\ cursor'[d] = cursor[d]
  <2>1. DOMAIN stream = Daemon /\ DOMAIN cursor = Daemon
    BY DEF BridgeTerms, StreamShape
  <2> QED
    BY <1>3, <2>1 DEF TakeTransaction, SaveStellarCursor, CrashBridge, RestartBridge
<1> QED
  BY <1>1, <1>2, <1>3, OtherSteps DEF StreamStep

\* What it has taken last stays the same with its place.
LEMMA LastStays ==
    ASSUME BridgeTerms, [BridgeNext]_bridgeVars, NEW d \in Daemon, stream[d] # 0
    PROVE  /\ LastTaken(d) \in Deposited
           /\ account_txs'[stream[d]] = LastTaken(d)
<1>1. StreamShape /\ StreamKept
  BY StreamIsKept DEF BridgeTerms
<1>2. stream[d] \in DOMAIN account_txs
  BY <1>1, Indices
<1> QED
  BY <1>1, <1>2 DEF LastTaken, Deposited, StreamKept

\* What is still after a step was so before it.
LEMMA StillStep ==
    ASSUME BridgeTerms, [BridgeNext]_bridgeVars, Still'
    PROVE  Still /\ ~faults.lossy /\ \A d \in Daemon : ~CrashBridge(d)
BY QuietStep, FaultsStay DEF Still, Quiet

\* And deposits that are single were so.
LEMMA SingleStep ==
    ASSUME BridgeTerms, [BridgeNext]_bridgeVars, NEW h, Single(h)'
    PROVE  Single(h)
<1>1. StreamKept
  BY StreamIsKept DEF BridgeTerms
<1> QED
  BY <1>1 DEF Single, Deposited, StreamKept

-----------------------------------------------------------------------------
(* What a daemon has in hand. *)

\* What it was at is of the shape that its handlers go on from.
LEMMA InHandShape ==
    ASSUME NEW d, InHand(d)
    PROVE  WorkShape(d)
BY DEF InHand, WorkShape, Working, Saving, Follows

\* To take a transaction, when the cursor is behind it.
LEMMA TakeInHand ==
    ASSUME BridgeTerms, [BridgeNext]_bridgeVars, NEW d \in Daemon, InHand(d),
           TakeTransaction(d)
    PROVE  InHand(d)'
<1> DEFINE tx == account_txs[stream[d] + 1]
<1>1. /\ stream'[d] = stream[d] + 1 /\ cursor' = cursor /\ account_txs' = account_txs
      /\ stream[d] \in Nat /\ cursor[d] \in Nat /\ cursor[d] <= stream[d]
      /\ stream[d] < Len(account_txs) /\ account_txs \in Seq(StellarTxs)
  BY DEF TakeTransaction, BridgeTerms, StreamShape, DepositTypeOK, InHand
<1>2. /\ tx \in StellarTxs /\ account_txs'[stream'[d]] = tx
      /\ stream'[d] # 0 /\ cursor'[d] < stream'[d] /\ cursor'[d] \in 0..stream'[d]
  BY <1>1
<1>3. MintEvents(tx) \in Nat
  BY <1>2, MintsAreOfPayments
<1>4. PICK n \in 0..MintEvents(tx) :
        job'[d] = ToMint(tx, n) /\ (MintEvents(tx) <= 1 => n \in {0, 1})
  <2>1. PICK n \in {MintEvents(tx)} \cup (IF faults.flaky THEN 0..MintEvents(tx) ELSE {}) :
          job' = [job EXCEPT ![d] = ToMint(tx, n)]
    BY DEF TakeTransaction
  <2>2. n \in 0..MintEvents(tx)
    BY <1>3, <2>1
  <2>3. job'[d] = ToMint(tx, n)
    BY <2>1 DEF BridgeTerms, JobsTrue
  <2> QED
    BY <1>3, <2>2, <2>3
<1> HIDE DEF tx
<1>5. CASE n = 0
  <2>1. job'[d].pc = "idle"
    BY <1>4, <1>5 DEF ToMint, Idle
  <2> QED
    BY <1>2, <2>1 DEF InHand, Elsewhere
<1>6. CASE n # 0
  <2>1. /\ job'[d].pc = "mint" /\ job'[d].tx = tx
        /\ MintEvents(tx) <= 1 => job'[d].left = 1
    BY <1>4, <1>6 DEF ToMint
  <2> QED
    BY <1>2, <2>1 DEF InHand, LastTaken
<1> QED
  BY <1>5, <1>6

\* To handle an event of it.
LEMMA MintInHand ==
    ASSUME BridgeTerms, NEW d \in Daemon, InHand(d), Mint(d)
    PROVE  InHand(d)'
<1> DEFINE tx == job[d].tx
           next == ToMint(tx, job[d].left - 1)
           save == [pc |-> "save", then |-> next]
<1>1. /\ job[d].pc = "mint" /\ UNCHANGED <<stream, cursor, account_txs>>
      /\ job \in [Daemon -> Jobs]
  BY DEF Mint, depositVars, BridgeTerms, JobsTrue
<1>2. /\ stream[d] # 0 /\ tx = LastTaken(d) /\ cursor[d] \in 0..stream[d]
      /\ MintEvents(tx) <= 1 => job[d].left = 1 /\ cursor[d] < stream[d]
  BY <1>1 DEF InHand, Elsewhere
<1>3. Follows(next, tx) /\ (MintEvents(tx) <= 1 => next.pc = "idle")
  <2>1. MintEvents(tx) <= 1 => next = Idle
    BY <1>2 DEF ToMint
  <2> QED
    BY <2>1 DEF Follows, AtEvent, ToMint, Idle
<1>4. next.pc = "idle" \/ (next.pc = "mint" /\ next.tx = tx)
  BY DEF ToMint, Idle
<1>5. save.pc = "save" /\ save.then = next
  OBVIOUS
<1>6. ASSUME NEW todo, Does(d, todo)
      PROVE  job'[d] = todo
  BY <1>1, <1>6 DEF Does
<1>7. \/ job'[d] = next \/ job'[d] = save
      \/ /\ job'[d].pc \in {"propose_mint", "create_refund"}
         /\ job'[d].id = tx.hash /\ job'[d].then = save
  <2>1. ASSUME NEW sender, SignsRefund(d, tx.hash, sender, Senders(tx)[sender], save)
        PROVE  \/ job'[d] = save
               \/ /\ job'[d].pc = "create_refund"
                  /\ job'[d].id = tx.hash /\ job'[d].then = save
    <3> HIDE DEF tx, save
    <3> QED
      BY <1>1, <1>6, <2>1 DEF SignsRefund, SignsAndCalls
  <2>2. ASSUME NEW sender,
               Does(d, [pc |-> "propose_mint", id |-> tx.hash,
                        target |-> MemoAccount[tx.memo],
                        amount |-> Senders(tx)[sender], then |-> save])
        PROVE  /\ job'[d].pc = "propose_mint"
               /\ job'[d].id = tx.hash /\ job'[d].then = save
    <3> HIDE DEF tx, save
    <3> QED
      BY <1>6, <2>2
  <2>3. \/ Does(d, next) \/ Does(d, save)
        \/ \E sender \in DOMAIN Senders(tx) :
             SignsRefund(d, tx.hash, sender, Senders(tx)[sender], save)
        \/ \E sender \in DOMAIN Senders(tx) :
             Does(d, [pc |-> "propose_mint", id |-> tx.hash,
                      target |-> MemoAccount[tx.memo],
                      amount |-> Senders(tx)[sender], then |-> save])
    BY DEF Mint
  <2> HIDE DEF tx, next, save
  <2> QED
    BY <1>6, <2>1, <2>2, <2>3
<1>8. LastTaken(d)' = tx
  BY <1>1, <1>2 DEF LastTaken
<1> HIDE DEF tx, next, save
<1>9. CASE job'[d] = next
  <2>1. CASE next.pc = "idle"
    BY <1>1, <1>2, <1>9, <2>1 DEF InHand, Elsewhere
  <2>2. CASE next.pc # "idle"
    BY <1>1, <1>2, <1>3, <1>4, <1>8, <1>9, <2>2 DEF InHand
  <2> QED
    BY <2>1, <2>2
<1>10. CASE job'[d] = save
  BY <1>1, <1>2, <1>3, <1>5, <1>8, <1>10 DEF InHand
<1>11. CASE /\ job'[d].pc \in {"propose_mint", "create_refund"}
            /\ job'[d].id = tx.hash /\ job'[d].then = save
  BY <1>1, <1>2, <1>3, <1>5, <1>8, <1>11 DEF InHand
<1> QED
  BY <1>7, <1>9, <1>10, <1>11

\* To save the cursor.
LEMMA SaveInHand ==
    ASSUME BridgeTerms, NEW d \in Daemon, InHand(d), SaveStellarCursor(d)
    PROVE  InHand(d)'
<1>1. /\ job[d].pc = "save" /\ job'[d] = job[d].then
      /\ cursor'[d] = stream[d] /\ stream[d] \in Nat
      /\ UNCHANGED <<stream, account_txs>>
  BY DEF SaveStellarCursor, SavedCursor, BridgeTerms, StreamShape, DepositTypeOK,
         JobsTrue
<1>2. stream[d] # 0 /\ Follows(job[d].then, LastTaken(d))
  BY <1>1 DEF InHand, Elsewhere
<1>3. CASE job[d].then = Idle
  BY <1>1, <1>3 DEF InHand, Elsewhere, Idle
<1>4. CASE job[d].then # Idle
  <2>1. /\ job'[d].pc = "mint" /\ job'[d].tx = LastTaken(d)
        /\ ~(MintEvents(LastTaken(d)) <= 1)
    BY <1>1, <1>2, <1>4 DEF Follows, AtEvent
  <2>2. LastTaken(d)' = LastTaken(d)
    BY <1>1 DEF LastTaken
  <2> QED
    BY <1>1, <1>2, <2>1, <2>2 DEF InHand
<1> QED
  BY <1>3, <1>4

\* A call that returns goes on to what follows it.
LEMMA CallInHand ==
    ASSUME BridgeTerms, [BridgeNext]_bridgeVars, NEW d \in Daemon, InHand(d),
           stream'[d] = stream[d], cursor'[d] = cursor[d],
           \/ RetryProposeWithdrawOrAddSig(d) \/ RetrySetWithdrawExecuted(d)
           \/ CallDeposit(d)
    PROVE  job'[d] = job[d] \/ InHand(d)'
<1>1. /\ job[d].pc \in {"propose_burn", "set_burn_executed", "propose_mint",
                        "create_refund", "set_refund_executed"}
      /\ job'[d] = job[d].then \/ job'[d] = job[d]
  BY DEF CallDeposit, RetryProposeMintOrVote,
         RetryCreateRefundTransactionOrAddSig,
         RetrySetRefundTransactionExecuted, RetryProposeWithdrawOrAddSig,
         RetrySetWithdrawExecuted, Retries, BridgeTerms, JobsTrue
<1>2. CASE Elsewhere(job[d])
  <2>1. Elsewhere(job[d].then)
    <3>1. job[d].then = Idle \/ job[d].then.then = Idle
      BY <1>1, <1>2 DEF Elsewhere
    <3> QED
      BY <1>1, <1>2, <3>1 DEF Elsewhere, Idle
  <2> QED
    BY <1>1, <2>1 DEF InHand
<1>3. CASE ~Elsewhere(job[d])
  <2>1. /\ stream[d] # 0 /\ cursor[d] \in 0..stream[d]
        /\ job[d].then.pc = "save" /\ Follows(job[d].then.then, LastTaken(d))
    BY <1>1, <1>3 DEF InHand
  <2>2. LastTaken(d)' = LastTaken(d)
    BY <2>1, LastStays DEF LastTaken
  <2> QED
    BY <1>1, <2>1, <2>2 DEF InHand
<1> QED
  BY <1>2, <1>3

\* All that is left to see is that nothing else makes a daemon turn.
LEMMA InHandStep ==
    ASSUME CallsAreFree, BridgeTerms, [BridgeNext]_bridgeVars, Still', NEW d \in Daemon,
           InHand(d)
    PROVE  InHand(d)'
<1>1. /\ Still /\ ~CrashBridge(d) /\ job \in [Daemon -> Jobs]
      /\ DOMAIN stream = Daemon /\ DOMAIN cursor = Daemon
  BY StillStep DEF BridgeTerms, JobsTrue, StreamShape
<1>2. CASE TakeTransaction(d)
  BY <1>2, TakeInHand
<1>3. CASE SaveStellarCursor(d)
  BY <1>3, SaveInHand
<1>4. CASE RestartBridge(d)
  <2>1. PICK from \in {cursor[d]} \cup (IF faults.rescan THEN {0} ELSE {}) :
          /\ cursor' = [cursor EXCEPT ![d] = from]
          /\ stream' = [stream EXCEPT ![d] = from]
    BY <1>4 DEF RestartBridge
  <2>2. from = cursor[d]
    BY <1>1, <2>1 DEF Still
  <2>3. cursor'[d] = cursor[d] /\ stream'[d] = cursor[d] /\ job'[d] = Idle
    BY <1>1, <1>4, <2>1, <2>2 DEF RestartBridge, Restart
  <2> QED
    BY <2>3 DEF InHand, Elsewhere, Idle
<1>5. CASE ~TakeTransaction(d) /\ ~SaveStellarCursor(d) /\ ~RestartBridge(d)
  <2>1. stream'[d] = stream[d] /\ cursor'[d] = cursor[d]
    BY <1>1, <1>5, OwnPlace
  <2>2. stream[d] # 0 => LastTaken(d)' = LastTaken(d)
    BY <2>1, LastStays DEF LastTaken
  <2>3. CASE job'[d] = job[d]
    BY <2>1, <2>2, <2>3 DEF InHand
  <2>4. CASE job'[d] # job[d]
    <3>1. \/ HandleWithdraw(d) \/ HandleRefund(d) \/ Submit(d) \/ Mint(d)
          \/ RetryProposeWithdrawOrAddSig(d) \/ RetrySetWithdrawExecuted(d)
          \/ CallDeposit(d)
      BY <1>1, <1>5, <2>4, WhoActs DEF Acts
    <3>2. CASE HandleWithdraw(d) \/ HandleRefund(d) \/ Submit(d)
      <4>1. Elsewhere(job'[d])
        BY <1>1, <3>2, InHandShape, HandlersTurnElsewhere
      <4> QED
        BY <2>1, <4>1 DEF InHand
    <3>3. CASE Mint(d)
      BY <3>3, MintInHand
    <3>4. CASE \/ RetryProposeWithdrawOrAddSig(d) \/ RetrySetWithdrawExecuted(d)
               \/ CallDeposit(d)
      BY <2>1, <2>4, <3>4, CallInHand
    <3> QED
      BY <3>1, <3>2, <3>3, <3>4
  <2> QED
    BY <2>3, <2>4
<1> QED
  BY <1>1, <1>2, <1>3, <1>4, <1>5

-----------------------------------------------------------------------------
(* What a daemon is past. *)

\* One that has a transaction in hand is not past it.
LEMMA InHandIsAhead ==
    ASSUME BridgeTerms, HashesDiffer, NEW d \in Daemon, NEW h, InHand(d), AtHand(d, h),
           job[d].pc # "save"
    PROVE  ~Past(d, h)
<1> SUFFICES ASSUME NEW i \in 1..cursor[d], account_txs[i].hash = h
             PROVE  FALSE
  BY DEF Past
<1>1. StreamShape /\ cursor[d] \in Nat /\ stream[d] \in Nat
  BY DEF BridgeTerms, StreamShape, DepositTypeOK, InHand
<1>2. /\ stream[d] \in DOMAIN account_txs /\ \A j \in 1..stream[d] : j \in DOMAIN account_txs
      /\ account_txs[stream[d]].hash = h /\ cursor[d] < stream[d]
  BY <1>1, Indices DEF AtHand, LastTaken
<1>3. i \in DOMAIN account_txs /\ i # stream[d]
  BY <1>1, <1>2
<1> QED
  BY <1>2, <1>3 DEF HashesDiffer

\* What is done of a single transaction is done with it in hand.
LEMMA WorkIsAtHand ==
    ASSUME BridgeTerms, [BridgeNext]_bridgeVars, NEW d \in Daemon, NEW h, Single(h),
           InHand(d), job[d].pc \in {"propose_mint", "create_refund"}, job[d].id = h,
           job[d].then.pc = "save"
    PROVE  AtHand(d, h) /\ job[d].then.then = Idle
<1>1. ~Elsewhere(job[d])
  BY DEF Elsewhere, Idle
<1>2. /\ stream[d] # 0 /\ LastTaken(d).hash = h
      /\ Follows(job[d].then.then, LastTaken(d))
      /\ MintEvents(LastTaken(d)) <= 1 => cursor[d] < stream[d]
  BY <1>1 DEF InHand
<1>3. MintEvents(LastTaken(d)) <= 1
  BY <1>2, LastStays DEF Single
<1> QED
  BY <1>2, <1>3 DEF AtHand, Follows

\* And after it the daemon is past it.
LEMMA WorkIsDone ==
    ASSUME CallsAreFree, BridgeTerms, [BridgeNext]_bridgeVars, NEW d \in Daemon, NEW h,
           Single(h), InHand(d), job[d].pc \in {"propose_mint", "create_refund"},
           job[d].id = h, job[d].then.pc = "save", job' = [job EXCEPT ![d] = @.then]
    PROVE  Past(d, h)'
<1>1. job'[d] = job[d].then /\ job[d] # job[d].then
  BY DEF BridgeTerms, JobsTrue
<1>2. AtHand(d, h)
  BY WorkIsAtHand
<1>3. stream'[d] = stream[d]
  <2>1. ~TakeTransaction(d) /\ ~RestartBridge(d) /\ ~CrashBridge(d) /\ ~SaveStellarCursor(d)
    BY <1>1 DEF TakeTransaction, RestartBridge, Restart, CrashBridge, Crash,
                SaveStellarCursor, Idle, Down
  <2> QED
    BY <2>1, OwnPlace
<1>4. LastTaken(d)' = LastTaken(d)
  BY <1>2, <1>3, LastStays DEF LastTaken, AtHand
<1> QED
  BY <1>1, <1>2, <1>4 DEF Past, AtHand

\* It stays so.
LEMMA PastStays ==
    ASSUME CallsAreFree, BridgeTerms, [BridgeNext]_bridgeVars, Still', NEW d \in Daemon,
           NEW h, InHand(d), Past(d, h)
    PROVE  Past(d, h)'
<1>1. /\ Still /\ ~CrashBridge(d) /\ job \in [Daemon -> Jobs] /\ StreamShape /\ StreamKept
      /\ DOMAIN stream = Daemon /\ DOMAIN cursor = Daemon
      /\ cursor[d] \in 0..stream[d] /\ stream[d] \in Nat
  BY StillStep, StreamIsKept
     DEF BridgeTerms, JobsTrue, StreamShape, DepositTypeOK, InHand
<1>2. \A i \in 1..stream[d] : i \in DOMAIN account_txs /\ account_txs'[i] = account_txs[i]
  BY <1>1, Indices DEF StreamKept
<1>3. ASSUME NEW i \in 1..cursor'[d], i \in 1..stream[d], account_txs[i].hash = h
      PROVE  Past(d, h)'
  BY <1>2, <1>3 DEF Past
<1>4. cursor'[d] = cursor[d] \/ SaveStellarCursor(d)
  <2>1. CASE RestartBridge(d)
    BY <1>1, <2>1 DEF RestartBridge, Still
  <2>2. CASE TakeTransaction(d)
    BY <2>2 DEF TakeTransaction
  <2> QED
    BY <1>1, <2>1, <2>2, OwnPlace
<1>5. SaveStellarCursor(d) => cursor'[d] = stream[d]
  BY <1>1 DEF SaveStellarCursor, SavedCursor
<1>6. ASSUME NEW i \in 1..cursor[d], account_txs[i].hash = h
      PROVE  Past(d, h)'
  <2>1. i \in 1..stream[d] /\ i \in 1..cursor'[d]
    BY <1>1, <1>4, <1>5
  <2> QED
    BY <1>3, <1>6, <2>1
<1>7. CASE job[d].pc = "save" /\ LastTaken(d).hash = h
  <2>1. stream[d] # 0
    BY <1>7 DEF InHand, Elsewhere
  <2>2. CASE SaveStellarCursor(d)
    <3>1. stream[d] \in 1..cursor'[d] /\ stream[d] \in 1..stream[d]
      BY <1>1, <1>5, <2>1, <2>2
    <3> QED
      BY <1>3, <1>7, <3>1 DEF LastTaken
  <2>3. CASE ~SaveStellarCursor(d)
    <3>1. ~TakeTransaction(d) /\ ~RestartBridge(d)
      BY <1>7 DEF TakeTransaction, RestartBridge, Restart, Idle
    <3>2. stream'[d] = stream[d]
      BY <1>1, <2>3, <3>1, OwnPlace
    <3>3. LastTaken(d)' = LastTaken(d)
      BY <2>1, <3>2, LastStays DEF LastTaken
    <3>4. job'[d] = job[d]
      <4>1. ~Acts(d)
        BY <1>1, <1>7, <2>3
           DEF Acts, HandleWithdraw, HandleWithdrawCreated, HandleBadWithdraw,
               HandleWithdrawExpired, HandleWithdrawReady, FetchBurn, Takes, Mint,
               TakeTransaction, HandleRefund, HandleRefundExpired, HandleRefundReady,
               FetchRefund, Submit, RetryProposeWithdrawOrAddSig,
               RetrySetWithdrawExecuted, CallDeposit, RetryProposeMintOrVote,
               RetryCreateRefundTransactionOrAddSig,
               RetrySetRefundTransactionExecuted, Retries, RestartBridge, Restart, Idle
      <4> QED
        BY <4>1, WhoActs
    <3> QED
      BY <1>7, <3>3, <3>4 DEF Past
  <2> QED
    BY <2>2, <2>3
<1> QED
  BY <1>6, <1>7 DEF Past

-----------------------------------------------------------------------------
(* Daemons that vote on a deposit. *)

\* A daemon that is to vote has the deposit in hand.
LEMMA VotingAtHand ==
    ASSUME IdsDiffer, BridgeTerms, HashesDiffer, [BridgeNext]_bridgeVars,
           NEW d \in Daemon, NEW h \in RefundHash, Single(h), InHand(d), Voting(d, h)
    PROVE  /\ job[d].then.pc = "save" /\ AtHand(d, h) /\ ~Past(d, h)
<1>1. job[d].then.pc = "save"
  <2>1. job[d] \in MintDepositJobs
    <3>1. job[d] \in MintJobs
      BY JobAt DEF BridgeTerms, JobsTrue, Voting
    <3>2. Closable \subseteq BurnId
      BY BurnsHaveIds DEF Closable, BridgeTerms
    <3> QED
      BY <3>1, <3>2 DEF MintJobs, MintBackJobs, IdsDiffer, Voting
  <2> QED
    BY <2>1 DEF MintDepositJobs, SaveJobs
<1>2. AtHand(d, h)
  BY <1>1, WorkIsAtHand DEF Voting
<1>3. ~Past(d, h)
  BY <1>2, InHandIsAhead DEF Voting
<1> QED
  BY <1>1, <1>2, <1>3

\* Those that have voted are past it.
LEMMA VotersPastStep ==
    ASSUME CallsAreFree, IdsDiffer, BridgeTerms, HashesDiffer, [BridgeNext]_bridgeVars,
           Still', \A d \in Daemon : InHand(d),
           NEW h \in RefundHash, Single(h), VotersPast(h)
    PROVE  VotersPast(h)'
<1> SUFFICES ASSUME NEW d \in voters'[h]
             PROVE  d \in Daemon /\ Past(d, h)'
  BY DEF VotersPast
<1>1. ~faults.lossy /\ h \in MintId
  BY StillStep, DepositAssumption
<1>2. CASE d \in voters[h]
  BY <1>2, PastStays DEF VotersPast
<1>3. CASE d \notin voters[h]
  <2>1. d \in Daemon /\ Voting(d, h) /\ job' = [job EXCEPT ![d] = @.then]
    BY <1>1, <1>3, VotersStep
  <2> QED
    BY <2>1, VotingAtHand, WorkIsDone DEF Voting
<1> QED
  BY <1>2, <1>3

\* A vote is counted once.
LEMMA VotesCountedStep ==
    ASSUME CallsAreFree, IdsDiffer, BridgeTerms, HashesDiffer, [BridgeNext]_bridgeVars,
           \A d \in Daemon : InHand(d),
           NEW h \in RefundHash, Single(h), VotersPast(h), VotesAreOfVoters(h)
    PROVE  VotesAreOfVoters(h)'
<1>1. \A d \in Daemon : Voting(d, h) => d \notin voters[h]
  BY VotingAtHand DEF VotersPast
<1>2. h \in MintId
  BY DepositAssumption
<1> QED
  BY <1>1, <1>2, VotesAreOfVotersStep

\* Those that are done and have not voted never vote.
LEMMA ReturnersGrow ==
    ASSUME CallsAreFree, IdsDiffer, BridgeTerms, HashesDiffer, [BridgeNext]_bridgeVars,
           Still', \A d \in Daemon : InHand(d), NEW h \in RefundHash, Single(h)
    PROVE  Returners(h) \subseteq Returners(h)'
<1> SUFFICES ASSUME NEW d \in Daemon, Past(d, h), d \notin voters[h]
             PROVE  Past(d, h)' /\ d \notin voters'[h]
  BY DEF Returners
<1>1. Past(d, h)'
  BY PastStays
<1>2. ~Voting(d, h) /\ h \in MintId
  BY VotingAtHand, DepositAssumption
<1>3. d \notin voters'[h]
  BY <1>2, VotersStep
<1> QED
  BY <1>1, <1>3

-----------------------------------------------------------------------------
(* Payments in their order. *)

\* What is paid has the next number of the account.
LEMMA OnlyTheNextIsPaid ==
    ASSUME BridgeTerms, [BridgeNext]_bridgeVars
    PROVE  \/ UNCHANGED stellarVars
           \/ \E d \in Daemon : Paying(d) /\ InSequence(job[d].tx)
<1>1. ASSUME NEW d \in Daemon, Submit(d), Paying(d)
      PROVE  InSequence(job[d].tx)
  <2>1. payments' # payments
    <3>1. payments \in Seq([id : BurnId \cup RefundHash, tx : PaymentTx])
      BY DEF BridgeTerms, StellarShape, AccountShape
    <3>2. \A p : Append(payments, p) # payments
      BY <3>1
    <3> QED
      BY <1>1, <3>2 DEF Paying
  <2> QED
    BY <1>1, <2>1 DEF Submit, stellarVars
<1> QED
  BY <1>1, OnlySubmitPays

\* So the number of a payment is its place.
LEMMA AccountInOrderStep ==
    ASSUME BridgeTerms, AccountInOrder, [BridgeNext]_bridgeVars
    PROVE  AccountInOrder'
<1>1. payments \in Seq([id : BurnId \cup RefundHash, tx : PaymentTx])
  BY DEF BridgeTerms, StellarShape, AccountShape
<1>2. CASE UNCHANGED stellarVars
  BY <1>2 DEF AccountInOrder, stellarVars
<1>3. ASSUME NEW d \in Daemon, Paying(d), InSequence(job[d].tx)
      PROVE  AccountInOrder'
  <2> DEFINE p == [id |-> job[d].id, tx |-> job[d].tx]
  <2>1. /\ payments' = Append(payments, p) /\ account_seq' = p.tx.seqno
        /\ p.tx.seqno = Len(payments) + 1
    BY <1>3 DEF Paying, InSequence, AccountInOrder
  <2> HIDE DEF p
  <2>2. /\ Len(payments') = Len(payments) + 1 /\ Len(payments) \in Nat
        /\ DOMAIN payments' = 1..(Len(payments) + 1) /\ DOMAIN payments = 1..Len(payments)
        /\ \A i \in DOMAIN payments : payments'[i] = payments[i]
        /\ payments'[Len(payments) + 1] = p
    BY <1>1, <2>1
  <2> QED
    BY <2>1, <2>2 DEF AccountInOrder
<1> QED
  BY <1>2, <1>3, OnlyTheNextIsPaid

-----------------------------------------------------------------------------
(* Refunds that do not expire. *)

\* Refunds are reset only at the end of a block.
LEMMA RoundsStep ==
    ASSUME BridgeTerms, [BridgeNext]_bridgeVars
    PROVE  \/ EndBlock
           \/ UNCHANGED rounds
<1>1. CASE Surroundings
  BY <1>1 DEF Surroundings, Swap, Deposit, ChangeFee, bridgeVars, daemonVars, faultVars
<1>2. ASSUME NEW d \in Daemon, Acts(d)
      PROVE  UNCHANGED rounds
  <2>1. CASE HandleWithdraw(d) \/ HandleRefund(d)
    BY <2>1 DEF HandleWithdraw, HandleWithdrawCreated, HandleBadWithdraw,
                HandleWithdrawExpired, HandleWithdrawReady, FetchBurn, HandleRefund,
                HandleRefundExpired, HandleRefundReady, FetchRefund, Takes, faultVars
  <2>2. CASE \/ RetryProposeWithdrawOrAddSig(d) \/ RetrySetWithdrawExecuted(d)
             \/ CallDeposit(d)
    BY <2>2 DEF CallDeposit, RetryProposeMintOrVote,
                RetryCreateRefundTransactionOrAddSig,
                RetrySetRefundTransactionExecuted, RetryProposeWithdrawOrAddSig,
                RetrySetWithdrawExecuted, Retries, faultVars
  <2>3. CASE \/ Mint(d) \/ TakeTransaction(d) \/ Submit(d) \/ SaveStellarCursor(d)
             \/ CrashBridge(d) \/ RestartBridge(d)
    BY <2>3 DEF Mint, TakeTransaction, Submit, SaveStellarCursor, CrashBridge, Crash,
                RestartBridge, Restart, faultVars
  <2> QED
    BY <1>2, <2>1, <2>2, <2>3 DEF Acts
<1> QED
  BY <1>1, <1>2, EveryStep DEF Acts

\* One that was not reset yet after a step was not before it, and did not expire.
LEMMA FirstRoundStep ==
    ASSUME BridgeTerms, [BridgeNext]_bridgeVars, NEW e \in BurnId \cup RefundHash,
           rounds'[e] = 0
    PROVE  /\ rounds[e] = 0
           /\ EndBlock => e \notin ExpiredBurns \cup ExpiredRefunds
<1>1. rounds \in [BurnId \cup RefundHash -> Nat]
  BY DEF BridgeTerms, FaultsShape
<1>2. CASE EndBlock
  <2>1. rounds'[e] = IF e \in ExpiredBurns \cup ExpiredRefunds
                     THEN rounds[e] + 1 ELSE rounds[e]
    BY <1>1, <1>2 DEF EndBlock
  <2> QED
    BY <1>1, <2>1
<1>3. CASE ~EndBlock
  BY <1>3, RoundsStep
<1> QED
  BY <1>2, <1>3

\* What is neither a signature nor a submission of a refund.
NotOfRefunds(todo) ==
    todo.pc \in {"create_refund", "submit"} => todo.id \notin RefundHash

\* Jobs that have nothing to do with the payment of a refund.
LEMMA PlainJobs ==
    /\ NotOfRefunds(Idle) /\ \A why : NotOfRefunds(Down(why))
    /\ \A todo \in SaveJobs \cup RestJobs : NotOfRefunds(todo)
    /\ \A ids : \A todo \in CloseBurn(ids) \cup CloseRefund(ids) : NotOfRefunds(todo)
BY DEF NotOfRefunds, Idle, Down, SaveJobs, RestJobs, CloseBurn, CloseRefund

\* The handlers of burns do not turn to refunds.
LEMMA WithdrawsElsewhere ==
    ASSUME IdsDiffer, BridgeTerms, NEW d \in Daemon, HandleWithdraw(d)
    PROVE  NotOfRefunds(job'[d])
<1>0. job \in [Daemon -> Jobs] /\ job[d] \in Jobs
  BY DEF BridgeTerms, JobsTrue
<1>1. ASSUME NEW todo, Does(d, todo)
      PROVE  job'[d] = todo
  BY <1>0, <1>1 DEF Does
<1>2. ASSUME NEW event, SignsBurn(d, event)
      PROVE  job'[d].pc = "propose_burn"
  BY <1>0, <1>2 DEF SignsBurn, SignsAndCalls
<1>3. CASE HandleWithdrawCreated(d)
  BY <1>1, <1>2, <1>3, PlainJobs DEF HandleWithdrawCreated, NotOfRefunds
<1>4. CASE HandleBadWithdraw(d)
  BY <1>1, <1>4, PlainJobs DEF HandleBadWithdraw, NotOfRefunds, RefundMint
<1>5. CASE HandleWithdrawExpired(d)
  BY <1>1, <1>2, <1>5 DEF HandleWithdrawExpired, NotOfRefunds, SetsBurnExecuted
<1>6. CASE HandleWithdrawReady(d)
  BY <1>1, <1>6 DEF HandleWithdrawReady, NotOfRefunds, Idle
<1>7. CASE FetchBurn(d)
  <2>1. job[d].id \in BurnId
    BY <1>0, <1>7, JobAt, BurnsHaveIds DEF FetchBurn, BridgeTerms
  <2> QED
    BY <1>1, <1>7, <2>1, PlainJobs DEF FetchBurn, ToSubmit, NotOfRefunds, IdsDiffer
<1> QED
  BY <1>3, <1>4, <1>5, <1>6, <1>7 DEF HandleWithdraw

\* Nor does a call that returns, or a submission that ends.
LEMMA CallsEndElsewhere ==
    ASSUME BridgeTerms, NEW d \in Daemon,
           \/ Submit(d) \/ RetryProposeWithdrawOrAddSig(d)
           \/ RetrySetWithdrawExecuted(d) \/ CallDeposit(d)
    PROVE  job'[d] = job[d] \/ NotOfRefunds(job'[d])
<1>0. job \in [Daemon -> Jobs] /\ job[d] \in Jobs
  BY DEF BridgeTerms, JobsTrue
<1>1. CASE Submit(d)
  <2>1. NotOfRefunds(job[d].then)
    BY <1>0, <1>1, JobAt, PlainJobs
       DEF Submit, SubmitJobs, SubmitBurnJobs, SubmitRefundJobs
  <2>2. job'[d] = job[d].then \/ job'[d] = Down("submit")
    BY <1>0, <1>1 DEF Submit, AfterError
  <2> QED
    BY <2>1, <2>2, PlainJobs
<1>2. CASE \/ RetryProposeWithdrawOrAddSig(d) \/ RetrySetWithdrawExecuted(d)
           \/ CallDeposit(d)
  <2>1. /\ job[d].pc \in {"propose_burn", "set_burn_executed", "propose_mint",
                          "create_refund", "set_refund_executed"}
        /\ job' = [job EXCEPT ![d] = job[d].then] \/ UNCHANGED job
    BY <1>2 DEF CallDeposit, RetryProposeMintOrVote,
                RetryCreateRefundTransactionOrAddSig,
                RetrySetRefundTransactionExecuted, RetryProposeWithdrawOrAddSig,
                RetrySetWithdrawExecuted, Retries
  <2>2. job[d].then \in {Idle} \cup SaveJobs \cup CloseBurn(Closable)
    BY <1>0, <2>1, JobAt
       DEF CloseBurn, CloseRefund, SignBurnJobs, SignRefundJobs, MintJobs,
           MintBackJobs, MintDepositJobs
  <2> QED
    BY <1>0, <2>1, <2>2, PlainJobs
<1> QED
  BY <1>1, <1>2

\* So a daemon turns to a refund in one of three ways.
LEMMA TurnsToRefund ==
    ASSUME IdsDiffer, BridgeTerms, NEW d \in Daemon, Acts(d), job'[d] # job[d]
    PROVE  \/ NotOfRefunds(job'[d])
           \/ job'[d].pc = "create_refund" /\ job'[d].then.pc = "save"
           \/ /\ HandleRefundExpired(d)
              /\ job'[d].pc = "create_refund" /\ job'[d].id = Head(inbox[d]).hash
           \/ /\ FetchRefund(d) /\ job'[d].pc = "submit" /\ job'[d].id = job[d].id
              /\ refund_transactions[job[d].id] # None
              /\ job'[d].signatures = refund_transactions[job[d].id].signatures
<1>0. job \in [Daemon -> Jobs] /\ job[d] \in Jobs
  BY DEF BridgeTerms, JobsTrue
<1>1. ASSUME NEW todo, Does(d, todo)
      PROVE  job'[d] = todo
  BY <1>0, <1>1 DEF Does
<1>2. ASSUME NEW hash, NEW target, NEW amount, NEW then,
             SignsRefund(d, hash, target, amount, then)
      PROVE  \/ job'[d] = then
             \/ job'[d].pc = "create_refund" /\ job'[d].id = hash /\ job'[d].then = then
  BY <1>0, <1>1, <1>2 DEF SignsRefund, SignsAndCalls
<1>3. CASE Mint(d)
  <2> DEFINE tx == job[d].tx
             next == ToMint(tx, job[d].left - 1)
             save == [pc |-> "save", then |-> next]
  <2>1. NotOfRefunds(next) /\ NotOfRefunds(save) /\ save.pc = "save"
    BY DEF ToMint, NotOfRefunds, Idle
  <2>2. \/ Does(d, next) \/ Does(d, save)
        \/ \E sender \in DOMAIN Senders(tx) :
             SignsRefund(d, tx.hash, sender, Senders(tx)[sender], save)
        \/ \E sender \in DOMAIN Senders(tx) :
             Does(d, [pc |-> "propose_mint", id |-> tx.hash,
                      target |-> MemoAccount[tx.memo],
                      amount |-> Senders(tx)[sender], then |-> save])
    BY <1>3 DEF Mint
  <2>3. ASSUME NEW todo, todo.pc = "propose_mint"
        PROVE  NotOfRefunds(todo)
    BY <2>3 DEF NotOfRefunds
  <2> HIDE DEF tx, next, save
  <2> QED
    BY <1>1, <1>2, <2>1, <2>2, <2>3
<1>4. CASE TakeTransaction(d)
  BY <1>0, <1>4 DEF TakeTransaction, ToMint, NotOfRefunds, Idle
<1>5. CASE HandleRefundExpired(d)
  BY <1>2, <1>5, PlainJobs DEF HandleRefundExpired
<1>6. CASE HandleRefundReady(d)
  BY <1>1, <1>6 DEF HandleRefundReady, NotOfRefunds, Idle
<1>7. CASE FetchRefund(d)
  BY <1>1, <1>7, PlainJobs DEF FetchRefund, ToSubmit
<1>8. CASE SaveStellarCursor(d)
  <2>1. job[d].then \in RestJobs
    BY <1>0, <1>8, JobAt DEF SaveStellarCursor, SaveJobs
  <2> QED
    BY <1>0, <1>8, <2>1, PlainJobs DEF SaveStellarCursor
<1>9. CASE CrashBridge(d) \/ RestartBridge(d)
  BY <1>0, <1>9, PlainJobs DEF CrashBridge, Crash, RestartBridge, Restart
<1>10. CASE HandleWithdraw(d)
  BY <1>10, WithdrawsElsewhere
<1>11. CASE \/ Submit(d) \/ RetryProposeWithdrawOrAddSig(d)
            \/ RetrySetWithdrawExecuted(d) \/ CallDeposit(d)
  BY <1>11, CallsEndElsewhere
<1> QED
  BY <1>3, <1>4, <1>5, <1>6, <1>7, <1>8, <1>9, <1>10, <1>11 DEF Acts, HandleRefund

\* No daemon has to read of an expiry of a refund that did not expire.
LEMMA UnreadStep ==
    ASSUME IsFiniteSet(RefundHash), BridgeTerms, [BridgeNext]_bridgeVars,
           NEW h \in RefundHash, rounds'[h] = 0, NEW d \in Daemon,
           \A i \in DOMAIN inbox[d] :
             inbox[d][i].type = "RefundTransactionExpired" => inbox[d][i].hash # h
    PROVE  \A i \in DOMAIN inbox'[d] :
             inbox'[d][i].type = "RefundTransactionExpired" => inbox'[d][i].hash # h
<1> DEFINE Unread(es) ==
             \A i \in DOMAIN es :
               es[i].type = "RefundTransactionExpired" => es[i].hash # h
<1>1. inbox \in [Daemon -> Seq(TrueEvents)] /\ events \in Seq(Event)
  BY DEF BridgeTerms, EventsTrue, TypeOK
<1>2. CASE Surroundings
  BY <1>2, SurroundingsLeave
<1>3. CASE EndBlock
  <2>1. PICK es \in Seq(TrueEvents) :
          /\ inbox'[d] = inbox[d] \/ inbox'[d] = inbox[d] \o ByType(es)
          /\ \A i \in DOMAIN es :
               \/ i \in DOMAIN events /\ es[i] = events[i]
               \/ \E id \in ExpiredBurns : es[i] = BurnExpired(id, burn_transactions[id])
               \/ \E g \in ExpiredRefunds :
                    es[i] = RefundExpired(g, refund_transactions[g])
    BY <1>3, Delivered
  <2>2. h \notin ExpiredRefunds
    BY <1>3, FirstRoundStep
  <2>3. Unread(es)
    <3>1. \A i \in DOMAIN events : events[i].type # "RefundTransactionExpired"
      <4>1. \A i \in DOMAIN events : events[i] \in Event
        BY <1>1
      <4> QED
        BY <4>1 DEF Event
    <3>2. \A id, tx : BurnExpired(id, tx).type # "RefundTransactionExpired"
      BY DEF BurnExpired
    <3>3. \A g, tx : RefundExpired(g, tx).hash = g
      BY DEF RefundExpired
    <3> QED
      BY <2>1, <2>2, <3>1, <3>2, <3>3
  <2>4. CASE inbox'[d] = inbox[d] \o ByType(es)
    <3>0. inbox[d] \in Seq(TrueEvents)
      BY <1>1
    <3>1. PICK p \in [1..Len(es) -> 1..Len(es)] : Continues(inbox'[d], inbox[d], es, p)
      BY <2>4, <3>0, ReadAfter
    <3>2. DOMAIN es = 1..Len(es)
      OBVIOUS
    <3> QED
      BY <2>3, <3>1, <3>2 DEF Continues
  <2> QED
    BY <2>1, <2>4
<1>4. ASSUME NEW c \in Daemon, Acts(c)
      PROVE  Unread(inbox'[d])
  <2>1. \/ inbox'[d] = inbox[d]
        \/ inbox[d] # <<>> /\ inbox'[d] = Tail(inbox[d])
        \/ inbox'[d] = <<>>
    BY <1>1, <1>4, ActsOnEvents
  <2>2. \A es \in Seq(TrueEvents) : es # <<>> /\ Unread(es) => Unread(Tail(es))
    OBVIOUS
  <2>3. Unread(<<>>)
    OBVIOUS
  <2> QED
    BY <1>1, <2>1, <2>2, <2>3
<1> QED
  BY <1>2, <1>3, <1>4, EveryStep DEF Acts

\* So it is only returned by those that have it in hand.
LEMMA NotAskedAgainStep ==
    ASSUME IsFiniteSet(RefundHash), CallsAreFree, IdsDiffer, BridgeTerms,
           [BridgeNext]_bridgeVars,
           NEW h \in RefundHash, rounds'[h] = 0, NotAskedAgain(h)
    PROVE  NotAskedAgain(h)'
<1>1. ASSUME NEW d \in Daemon
      PROVE  \A i \in DOMAIN inbox'[d] :
               inbox'[d][i].type = "RefundTransactionExpired" => inbox'[d][i].hash # h
  BY <1>1, UnreadStep DEF NotAskedAgain
<1>2. ASSUME NEW d \in Daemon, job'[d].pc = "create_refund", job'[d].id = h
      PROVE  job'[d].then.pc = "save"
  <2>1. CASE job'[d] = job[d]
    BY <1>2, <2>1 DEF NotAskedAgain, Returning
  <2>2. CASE job'[d] # job[d]
    <3>1. ~NotOfRefunds(job'[d])
      BY <1>2 DEF NotOfRefunds
    <3>2. ~(HandleRefundExpired(d) /\ Head(inbox[d]).hash = h)
      <4> SUFFICES ASSUME HandleRefundExpired(d), Head(inbox[d]).hash = h
                   PROVE  FALSE
        OBVIOUS
      <4>1. /\ inbox[d] \in Seq(TrueEvents) /\ inbox[d] # <<>>
            /\ Head(inbox[d]).type = "RefundTransactionExpired"
        BY DEF HandleRefundExpired, Takes, BridgeTerms, EventsTrue
      <4>2. 1 \in DOMAIN inbox[d] /\ inbox[d][1] = Head(inbox[d])
        BY <4>1
      <4> QED
        BY <4>1, <4>2 DEF NotAskedAgain
    <3> QED
      BY <1>2, <2>2, <3>1, <3>2, WhoActs, TurnsToRefund
  <2> QED
    BY <2>1, <2>2
<1> QED
  BY <1>1, <1>2 DEF NotAskedAgain, Returning

-----------------------------------------------------------------------------
(* The signatures of a refund. *)

\* One more of a daemon that returns it.
Signs(d, h) ==
    /\ Returning(d, h)
    /\ \E signature : Pending(h)' = Append(Pending(h), signature)
    /\ Closed(h)' = Closed(h)
    /\ job' = [job EXCEPT ![d] = @.then] \/ faults.lossy

\* Signatures are a sequence.
LEMMA SignaturesType ==
    ASSUME TypeOK, NEW h \in RefundHash
    PROVE  /\ Pending(h) \in Seq(StellarSignature) /\ Closed(h) \in Seq(StellarSignature)
           /\ Len(Pending(h)) \in Nat /\ Len(Closed(h)) \in Nat
<1>1. \A tx \in BurnTransaction \cup {None} : SignaturesOf(tx) \in Seq(StellarSignature)
  BY PalletAssumption DEF SignaturesOf, BurnTransaction
<1>2. /\ refund_transactions[h] \in BurnTransaction \cup {None}
      /\ executed_refund_transactions[h] \in BurnTransaction \cup {None}
  BY DEF TypeOK, RefundTransaction
<1>3. Pending(h) \in Seq(StellarSignature) /\ Closed(h) \in Seq(StellarSignature)
  BY <1>1, <1>2 DEF Pending, Closed
<1> QED
  BY <1>3

\* A call that creates or signs a refund adds a signature.
LEMMA CreateAddsSignature ==
    ASSUME CallsAreFree, BridgeTerms, NEW h \in RefundHash, NEW d \in Daemon,
           RetryCreateRefundTransactionOrAddSig(d)
    PROVE  (Pending(h)' = Pending(h) /\ Closed(h)' = Closed(h)) \/ Signs(d, h)
<1> DEFINE id == job[d].id
           tx == job[d].tx
           signature == SignatureOf(KeyOf[d], tx)
           first == [block |-> block, amount |-> tx.amount, target |-> tx.target,
                     signatures |-> <<>>, sequence_number |-> tx.seqno]
           found == IF refund_transactions[id] # None
                    THEN refund_transactions[id] ELSE first
           new == WithSignature(found, signature, KeyOf[d], tx.seqno)
<1>1. /\ job[d].pc = "create_refund"
      /\ id \in RefundHash
      /\ refund_transactions \in [RefundHash -> BurnTransaction \cup {None}]
      /\ None \notin BurnTransaction
  BY PalletAssumption, JobAt
     DEF RetryCreateRefundTransactionOrAddSig, Retries, BridgeTerms, JobsTrue,
         SignRefundJobs, TypeOK, RefundTransaction
<1>2. CASE UNCHANGED palletVars
  BY <1>2 DEF palletVars, refundVars, Pending, Closed
<1>3. ASSUME CreateRefundOrAddSig(d, id, tx.target, tx.amount, signature, KeyOf[d],
                                  tx.seqno),
             job' = [job EXCEPT ![d] = @.then] \/ faults.lossy
      PROVE  (Pending(h)' = Pending(h) /\ Closed(h)' = Closed(h)) \/ Signs(d, h)
  <2>1. /\ refund_transactions' = [refund_transactions EXCEPT ![id] = new]
        /\ UNCHANGED executed_refund_transactions
    BY <1>3 DEF CreateRefundOrAddSig
  <2>2. Closed(h)' = Closed(h)
    BY <2>1 DEF Closed
  <2>3. CASE id # h
    <3>1. refund_transactions'[h] = refund_transactions[h]
      BY <1>1, <2>1, <2>3
    <3> QED
      BY <2>2, <3>1 DEF Pending
  <2>4. CASE id = h
    <3>1. /\ "signatures" \in DOMAIN found
          /\ found.signatures = Pending(h)
      BY <1>1, <2>4 DEF BurnTransaction, Pending, SignaturesOf
    <3>2. refund_transactions'[h] # None
      <4>1. tx \in PaymentTx /\ TypeOK
        BY <1>1, JobAt DEF BridgeTerms, JobsTrue, SignRefundJobs
      <4> QED
        BY <1>1, <1>3, <2>4, <4>1, SignedRefund
    <3> HIDE DEF found, signature
    <3>3. \E s : new.signatures = Append(found.signatures, s)
      BY <3>1 DEF WithSignature
    <3> HIDE DEF new
    <3>4. refund_transactions'[h] = new
      BY <1>1, <2>1, <2>4
    <3>5. \E s : Pending(h)' = Append(Pending(h), s)
      BY <3>1, <3>2, <3>3, <3>4 DEF Pending, SignaturesOf
    <3> QED
      BY <1>1, <1>3, <2>2, <2>4, <3>5 DEF Signs, Returning
  <2> QED
    BY <2>3, <2>4
<1> QED
  BY <1>2, <1>3 DEF RetryCreateRefundTransactionOrAddSig, Retries

\* Signatures are added, or kept with the refund that is set executed.
LEMMA WhoSignsRefunds ==
    ASSUME CallsAreFree, BridgeTerms, [BridgeNext]_bridgeVars, NEW h \in RefundHash,
           rounds'[h] = 0
    PROVE  \/ Pending(h)' = Pending(h) /\ Closed(h)' = Closed(h)
           \/ \E d \in Daemon : Signs(d, h)
           \/ Closed(h) = <<>> /\ Closed(h)' = Pending(h) /\ Pending(h)' = <<>>
<1>1. CASE UNCHANGED <<refund_transactions, executed_refund_transactions>>
  BY <1>1 DEF Pending, Closed
<1>2. CASE EndBlock
  <2>1. h \notin ExpiredRefunds
    BY <1>2, FirstRoundStep
  <2>2. /\ refund_transactions'[h] = refund_transactions[h]
        /\ UNCHANGED executed_refund_transactions
    BY <1>2, <2>1 DEF EndBlock, FinalizeBlock
  <2> QED
    BY <2>2 DEF Pending, Closed
<1>3. ASSUME NEW d \in Daemon, RetrySetRefundTransactionExecuted(d)
      PROVE  \/ Pending(h)' = Pending(h) /\ Closed(h)' = Closed(h)
             \/ Closed(h) = <<>> /\ Closed(h)' = Pending(h) /\ Pending(h)' = <<>>
  <2>1. CASE UNCHANGED palletVars
    BY <2>1 DEF palletVars, refundVars, Pending, Closed
  <2>2. CASE SetRefundExecuted(d, job[d].id)
    <3>1. /\ executed_refund_transactions[job[d].id] = None
          /\ refund_transactions' = [refund_transactions EXCEPT ![job[d].id] = None]
          /\ executed_refund_transactions' =
               [executed_refund_transactions EXCEPT ![job[d].id] =
                  refund_transactions[job[d].id]]
          /\ DOMAIN refund_transactions = RefundHash
          /\ DOMAIN executed_refund_transactions = RefundHash
      BY <2>2 DEF SetRefundExecuted, RefundOpen, Without, BridgeTerms, TypeOK
    <3>2. CASE job[d].id = h
      BY <3>1, <3>2 DEF Pending, Closed, SignaturesOf
    <3>3. CASE job[d].id # h
      <4>1. /\ refund_transactions'[h] = refund_transactions[h]
            /\ executed_refund_transactions'[h] = executed_refund_transactions[h]
        BY <3>1, <3>3
      <4> QED
        BY <4>1 DEF Pending, Closed
    <3> QED
      BY <3>2, <3>3
  <2> QED
    BY <1>3, <2>1, <2>2 DEF RetrySetRefundTransactionExecuted, Retries
<1> QED
  BY <1>1, <1>2, <1>3, CreateAddsSignature, WhoWrites

\* A daemon that signs a refund is one more of those that return it.
LEMMA SignersReturnStep ==
    ASSUME CallsAreFree, IdsDiffer, BridgeTerms, HashesDiffer, [BridgeNext]_bridgeVars,
           Still', \A d \in Daemon : InHand(d), NEW h \in RefundHash, Single(h),
           rounds'[h] = 0, VotersPast(h), NotAskedAgain(h), SignersReturn(h)
    PROVE  SignersReturn(h)'
<1> DEFINE R == Returners(h)
           S == Returners(h)'
           n == Len(Pending(h)) + Len(Closed(h))
           m == Len(Pending(h)') + Len(Closed(h)')
<1>1. R \subseteq S /\ IsFiniteSet(S) /\ IsFiniteSet(R)
  <2>1. IsFiniteSet(Daemon)
    BY PalletAssumption, FS_Subset DEF Daemon
  <2>2. R \in SUBSET Daemon /\ S \in SUBSET Daemon
    BY DEF Returners
  <2> QED
    BY <2>1, <2>2, ReturnersGrow, FS_Subset
<1>2. n <= Cardinality(R) /\ n \in Nat
  BY SignaturesType DEF SignersReturn, BridgeTerms
<1>3. /\ Pending(h) \in Seq(StellarSignature) /\ Len(Pending(h)) \in Nat
      /\ Len(Closed(h)) \in Nat
  BY SignaturesType DEF BridgeTerms
<1>4. ASSUME NEW d \in Daemon, Signs(d, h)
      PROVE  d \in S /\ d \notin R /\ m = n + 1
  <2>1. /\ ~faults.lossy /\ Returning(d, h) /\ job' = [job EXCEPT ![d] = @.then]
        /\ job[d].then.pc = "save"
    BY <1>4, StillStep DEF Signs, NotAskedAgain
  <2>2. AtHand(d, h) /\ ~Past(d, h)
    BY <2>1, WorkIsAtHand, InHandIsAhead DEF Returning
  <2>3. Past(d, h)'
    BY <2>1, WorkIsDone DEF Returning
  <2>4. d \notin voters'[h]
    <3>1. d \notin voters[h] /\ ~Voting(d, h) /\ h \in MintId
      BY <2>1, <2>2, DepositAssumption DEF VotersPast, Voting, Returning
    <3> QED
      BY <3>1, VotersStep
  <2>5. m = n + 1
    BY <1>3, <1>4 DEF Signs
  <2> QED
    BY <2>2, <2>3, <2>4, <2>5 DEF Returners
<1>5. (\A d \in Daemon : ~Signs(d, h)) => m = n
  <2>1. CASE Pending(h)' = Pending(h) /\ Closed(h)' = Closed(h)
    BY <2>1
  <2>2. CASE Closed(h) = <<>> /\ Closed(h)' = Pending(h) /\ Pending(h)' = <<>>
    BY <1>3, <2>2
  <2> QED
    BY <2>1, <2>2, WhoSignsRefunds
<1> HIDE DEF R, S, m, n
<1>6. Cardinality(R) \in Nat /\ Cardinality(S) \in Nat /\ Cardinality(R) <= Cardinality(S)
  <2>1. R \in SUBSET S
    BY <1>1
  <2> QED
    BY <1>1, <2>1, FS_Subset, FS_CardinalityType
<1>7. ASSUME NEW d \in S, d \notin R
      PROVE  Cardinality(R) + 1 <= Cardinality(S)
  <2>1. R \cup {d} \in SUBSET S
    BY <1>1
  <2>2. Cardinality(R \cup {d}) = Cardinality(R) + 1
    BY <1>1, <1>7, FS_AddElement
  <2>3. Cardinality(R \cup {d}) <= Cardinality(S)
    BY <1>1, <2>1, FS_Subset
  <2> QED
    BY <2>2, <2>3
<1>8. m <= Cardinality(S)
  <2>1. CASE \A d \in Daemon : ~Signs(d, h)
    BY <1>2, <1>5, <1>6, <2>1
  <2>2. ASSUME NEW d \in Daemon, Signs(d, h)
        PROVE  m <= Cardinality(S)
    BY <1>2, <1>4, <1>6, <1>7, <2>2
  <2> QED
    BY <2>1, <2>2
<1> QED
  BY <1>8 DEF SignersReturn, m, S

\* The numbers that a payment of a refund can have stay those they are.
LEMMA UsableGrows ==
    ASSUME CallsAreFree, BridgeTerms, [BridgeNext]_bridgeVars, NEW h \in RefundHash,
           rounds'[h] = 0
    PROVE  Usable(h) \subseteq Usable(h)'
<1> SUFFICES ASSUME NEW s \in {Pending(h), Closed(h)}, Enough(s)
             PROVE  NumberOf(s) \in Usable(h)'
  BY DEF Usable
<1>1. s \in Seq(StellarSignature) /\ Len(s) \in Nat /\ Len(s) # 0
  BY SignaturesType, DaemonAssumption DEF BridgeTerms, Enough
<1>2. ASSUME NEW t \in {Pending(h)', Closed(h)'}, Enough(t), NumberOf(t) = NumberOf(s)
      PROVE  NumberOf(s) \in Usable(h)'
  BY <1>2 DEF Usable, Enough, NumberOf
<1>3. CASE s \in {Pending(h)', Closed(h)'}
  BY <1>2, <1>3
<1>4. ASSUME NEW signature, Pending(h)' = Append(s, signature)
      PROVE  NumberOf(s) \in Usable(h)'
  <2>1. Len(Append(s, signature)) = Len(s) + 1 /\ Append(s, signature)[1] = s[1]
    BY <1>1
  <2>2. Enough(Append(s, signature))
    BY <1>1, <2>1, DaemonAssumption DEF Enough
  <2> QED
    BY <1>2, <1>4, <2>1, <2>2 DEF NumberOf
<1> QED
  BY <1>1, <1>3, <1>4, WhoSignsRefunds DEF Signs

\* Daemons submit a refund with the signatures that it has.
LEMMA InUseStep ==
    ASSUME CallsAreFree, IdsDiffer, BridgeTerms, [BridgeNext]_bridgeVars,
           NEW h \in RefundHash, rounds'[h] = 0, PaidAsSigned(h)
    PROVE  InUse(h)' \subseteq Usable(h)'
<1> SUFFICES ASSUME NEW d \in Daemon, job'[d].pc = "submit", job'[d].id = h,
                    Enough(job'[d].signatures)
             PROVE  NumberOf(job'[d].signatures) \in Usable(h)'
  BY DEF InUse, Submitting, Enough, NumberOf
<1>1. Usable(h) \subseteq Usable(h)'
  BY UsableGrows
<1>2. CASE job'[d] = job[d]
  BY <1>1, <1>2 DEF PaidAsSigned, InUse, Submitting
<1>3. CASE job'[d] # job[d]
  <2>1. ~NotOfRefunds(job'[d])
    BY DEF NotOfRefunds
  <2>2. /\ refund_transactions[h] # None
        /\ job'[d].signatures = refund_transactions[h].signatures
    BY <1>3, <2>1, WhoActs, TurnsToRefund
  <2>3. job'[d].signatures = Pending(h)
    BY <2>2 DEF Pending, SignaturesOf
  <2> QED
    BY <1>1, <2>3 DEF Usable
<1> QED
  BY <1>2, <1>3

\* What is paid has the number that a daemon held signatures for.
LEMMA PaidIsInUse ==
    ASSUME BridgeTerms, AccountInOrder, [BridgeNext]_bridgeVars, NEW id
    PROVE  PaymentsOf(id)' \subseteq PaymentsOf(id) \cup InUse(id)
<1>1. payments \in Seq([id : BurnId \cup RefundHash, tx : PaymentTx])
  BY DEF BridgeTerms, StellarShape, AccountShape
<1>2. CASE UNCHANGED stellarVars
  BY <1>2 DEF PaymentsOf, stellarVars
<1>3. ASSUME NEW d \in Daemon, Paying(d), InSequence(job[d].tx)
      PROVE  PaymentsOf(id)' \subseteq PaymentsOf(id) \cup InUse(id)
  <2>1. /\ payments' = Append(payments, [id |-> job[d].id, tx |-> job[d].tx])
        /\ job[d].tx.seqno = Len(payments) + 1
    BY <1>3 DEF Paying, InSequence, AccountInOrder
  <2>2. \A i \in DOMAIN payments' :
          \/ i \in DOMAIN payments /\ payments'[i] = payments[i]
          \/ i = Len(payments) + 1 /\ payments'[i].id = job[d].id
    BY <1>1, <2>1
  <2>3. ASSUME job[d].id = id
        PROVE  Len(payments) + 1 \in InUse(id)
    <3>1. Submitting(d, id) /\ Enough(job[d].signatures)
      BY <1>3, <2>3 DEF Paying, Submitting, Verified, Enough
    <3>2. job[d].signatures[1].signature
            = SignatureOf(job[d].signatures[1].stellar_pub_key, job[d].tx)
      <4>1. 1 \in 1..SignatureCount
        BY DaemonAssumption
      <4> QED
        BY <1>3, <4>1 DEF Paying, Verified
    <3>3. NumberOf(job[d].signatures) = Len(payments) + 1
      BY <2>1, <3>2 DEF NumberOf, SignatureOf
    <3> QED
      BY <3>1, <3>3 DEF InUse
  <2> QED
    BY <2>2, <2>3 DEF PaymentsOf
<1> QED
  BY <1>2, <1>3, OnlyTheNextIsPaid

\* So what is paid has the number that the signatures of a refund are for.
LEMMA PaidAsSignedStep ==
    ASSUME CallsAreFree, IdsDiffer, BridgeTerms, AccountInOrder,
           [BridgeNext]_bridgeVars, NEW h \in RefundHash, rounds'[h] = 0,
           PaidAsSigned(h)
    PROVE  PaidAsSigned(h)'
BY UsableGrows, InUseStep, PaidIsInUse DEF PaidAsSigned

-----------------------------------------------------------------------------
(* Deposits go one way. *)

\* At the start no daemon has taken a deposit, voted or signed.
LEMMA DepositsOneWayInit ==
    ASSUME DepositInit
    PROVE  DepositsOneWay
<1>1. /\ validators = Daemon /\ account_txs = <<>> /\ payments = <<>> /\ account_seq = 0
      /\ \A d \in Daemon : /\ inbox[d] = <<>> /\ job[d] = Idle
                           /\ stream[d] = 0 /\ cursor[d] = 0
      /\ \A h \in RefundHash : /\ refund_transactions[h] = None
                               /\ executed_refund_transactions[h] = None
                               /\ mint_transactions[h] = None
                               /\ executed_mint_transactions[h] = None
                               /\ voters[h] = {}
  BY DepositAssumption DEF DepositInit, DaemonInit, Init, Daemon
<1>2. HashesDiffer /\ AccountInOrder
  BY <1>1 DEF HashesDiffer, AccountInOrder
<1>3. ASSUME NEW d \in Daemon
      PROVE  InHand(d)
  BY <1>1 DEF InHand, Elsewhere, Idle
<1>4. ASSUME NEW h \in RefundHash
      PROVE  SettlesOnce(h)
  <2>1. VotersPast(h) /\ VotesAreOfVoters(h)
    BY <1>1 DEF VotersPast, VotesAreOfVoters, Minted
  <2>2. NotAskedAgain(h)
    BY <1>1 DEF NotAskedAgain, Returning, Idle
  <2>3. Pending(h) = <<>> /\ Closed(h) = <<>>
    BY <1>1 DEF Pending, Closed, SignaturesOf
  <2>4. SignersReturn(h)
    <3>1. Returners(h) \subseteq Daemon /\ IsFiniteSet(Daemon)
      BY <1>1, PalletAssumption, FS_Subset DEF Returners, Daemon
    <3>2. Cardinality(Returners(h)) \in Nat
      BY <3>1, FS_Subset, FS_CardinalityType
    <3> QED
      BY <2>3, <3>2 DEF SignersReturn
  <2>5. PaidAsSigned(h)
    BY <1>1 DEF PaidAsSigned, PaymentsOf, InUse, Submitting, Idle
  <2> QED
    BY <2>1, <2>2, <2>4, <2>5 DEF SettlesOnce
<1> QED
  BY <1>1, <1>2, <1>3, <1>4 DEF DepositsOneWay

\* Every step keeps the parts, in the order they rest on each other.
LEMMA DepositsOneWayStep ==
    ASSUME IsFiniteSet(RefundHash), CallsAreFree, IdsDiffer, BridgeTerms,
           DepositsOneWay, [BridgeNext]_bridgeVars
    PROVE  DepositsOneWay'
<1>1. validators' = Daemon /\ HashesDiffer' /\ AccountInOrder'
  BY ValidatorsStay, HashesDifferStep, AccountInOrderStep DEF DepositsOneWay
<1>2. ASSUME Still'
      PROVE  /\ \A d \in Daemon : InHand(d)
             /\ \A h \in RefundHash : Single(h) => SettlesOnce(h)
  BY <1>2, StillStep DEF DepositsOneWay
<1>3. ASSUME Still', NEW d \in Daemon
      PROVE  InHand(d)'
  BY <1>2, <1>3, InHandStep
<1>4. ASSUME Still', NEW h \in RefundHash, Single(h)'
      PROVE  SettlesOnce(h)'
  <2>1. /\ \A d \in Daemon : InHand(d)
        /\ HashesDiffer /\ AccountInOrder /\ Single(h) /\ SettlesOnce(h)
    BY <1>2, <1>4, SingleStep DEF DepositsOneWay
  <2>2. VotersPast(h) /\ VotesAreOfVoters(h)
    BY <2>1 DEF SettlesOnce
  <2>3. VotersPast(h)' /\ VotesAreOfVoters(h)'
    BY <1>4, <2>1, <2>2, VotersPastStep, VotesCountedStep
  <2>4. ASSUME rounds'[h] = 0
        PROVE  NotAskedAgain(h)' /\ SignersReturn(h)' /\ PaidAsSigned(h)'
    <3>1. NotAskedAgain(h) /\ SignersReturn(h) /\ PaidAsSigned(h)
      BY <2>1, <2>4, FirstRoundStep DEF SettlesOnce
    <3>2. NotAskedAgain(h)'
      BY <2>4, <3>1, NotAskedAgainStep
    <3>3. SignersReturn(h)'
      BY <1>4, <2>1, <2>2, <2>4, <3>1, SignersReturnStep
    <3>4. PaidAsSigned(h)'
      BY <2>1, <2>4, <3>1, PaidAsSignedStep
    <3> QED
      BY <3>2, <3>3, <3>4
  <2> QED
    BY <2>3, <2>4 DEF SettlesOnce
<1> QED
  BY <1>1, <1>3, <1>4 DEF DepositsOneWay

\* A refund is paid by enough daemons that return it.
LEMMA PaidByReturners ==
    ASSUME BridgeTerms, DepositsOneWay, Still, NEW h \in RefundHash, Single(h),
           rounds[h] = 0, Paid(h)
    PROVE  Cardinality(Returners(h)) >= SignatureCount
<1>1. SignersReturn(h) /\ PaidAsSigned(h)
  BY DEF DepositsOneWay, SettlesOnce
<1>2. Usable(h) # {}
  BY <1>1 DEF Paid, PaidAsSigned
<1>3. Enough(Pending(h)) \/ Enough(Closed(h))
  BY <1>2 DEF Usable
<1>4. IsFiniteSet(Returners(h)) /\ Cardinality(Returners(h)) \in Nat
  BY PalletAssumption, FS_Subset, FS_CardinalityType
     DEF DepositsOneWay, Returners, Daemon
<1>5. Len(Pending(h)) \in Nat /\ Len(Closed(h)) \in Nat
  BY SignaturesType DEF BridgeTerms
<1> QED
  BY <1>1, <1>3, <1>4, <1>5, DaemonAssumption DEF SignersReturn, Enough

\* Those and the daemons that vote to mint the deposit are not the same, and with
\* quorums that meet there are not enough for both.
LEMMA NotBothForDeposit ==
    ASSUME QuorumsMeet, BridgeTerms, DepositsOneWay, Still, NEW h \in RefundHash,
           Single(h), rounds[h] = 0, Minted(h), Paid(h)
    PROVE  FALSE
<1>1. VotersPast(h) /\ VotesAreOfVoters(h)
  BY DEF DepositsOneWay, SettlesOnce
<1>2. Cardinality(Returners(h)) >= SignatureCount
  BY PaidByReturners
<1>3. Cardinality(voters[h]) >= Majority
  BY <1>1 DEF VotesAreOfVoters
<1>4. /\ Returners(h) \subseteq Daemon /\ voters[h] \subseteq Daemon
      /\ Returners(h) \cap voters[h] = {}
  BY <1>1 DEF Returners, VotersPast
<1> QED
  BY <1>2, <1>3, <1>4, NotEnoughForTwo DEF DepositsOneWay

\* So a deposit that is handled once goes one way.
LEMMA NotEnoughForDeposits ==
    ASSUME QuorumsMeet, BridgeTerms, DepositsOneWay
    PROVE  NotMintedAndRefunded
<1> SUFFICES ASSUME Still, NEW tx \in Deposited, MintEvents(tx) = 1,
                    rounds[tx.hash] = 0, Minted(tx.hash), Paid(tx.hash)
             PROVE  FALSE
  BY DEF NotMintedAndRefunded, Still, Quiet
<1>1. tx.hash \in RefundHash
  BY DepositAssumption DEF Deposited, BridgeTerms, StreamShape, DepositTypeOK
<1>2. Single(tx.hash)
  <2>1. MintEvents(tx) <= 1
    OBVIOUS
  <2> QED
    BY <2>1 DEF DepositsOneWay, HashesDiffer, Single, Deposited
<1> QED
  BY <1>1, <1>2, NotBothForDeposit

\* A deposit that is handled once is never both minted on tfchain and returned on
\* Stellar, although each daemon decides by the fee of its own start (mint.go:67),
\* votes and signs in its own time and is repeated by its own loop, as long as no
\* daemon breaks, rescans or repeats a vote and the refund does not expire: for any
\* daemons and any deposits and burns, if the two quorums have a daemon in common.
THEOREM DepositsGoOneWay ==
    ASSUME IsFiniteSet(RefundHash), CallsAreFree, IdsDiffer, QuorumsMeet
    PROVE  BridgeSpec => []NotMintedAndRefunded
<1>1. BridgeSpec => []BridgeTerms
  BY BridgeTermsInvariant
<1>2. BridgeTerms /\ DepositsOneWay => NotMintedAndRefunded
  BY NotEnoughForDeposits
<1> QED
  BY <1>1, <1>2, DepositsOneWayInit, DepositsOneWayStep, PTL DEF BridgeSpec

\* The same for the specification of deposits alone, which the run checks.
THEOREM DepositsGoOneWayAlone ==
    ASSUME IsFiniteSet(RefundHash), CallsAreFree, IdsDiffer, QuorumsMeet
    PROVE  DepositSpec => []NotMintedAndRefunded
BY DepositsGoOneWay, DepositsAreOfTheBridge, PTL

-----------------------------------------------------------------------------
(* Burns are paid once in each round of signatures. *)

\* The number that the signatures of the present round are for.
Current(id) ==
    {NumberOf(s) : s \in {t \in {SignaturesOf(BurnOf(id))} : Enough(t)}}

\* Some numbers P of earlier rounds, not more than there were rounds, and the
\* present one are all that the burn was, or can be, paid with.
PaidWith(id, P) ==
    /\ IsFiniteSet(P) /\ Cardinality(P) <= rounds[id]
    /\ PaymentsOf(id) \cup InUse(id) \subseteq P \cup Current(id)

PaidInRounds == \A id \in BurnId : \E P : PaidWith(id, P)

BurnsPaidOnce ==
    \A id \in BurnId : Cardinality(PaymentsOf(id)) <= 1 + rounds[id]

\* What a step does to the signatures of a burn.
LEMMA BurnRecordStep ==
    ASSUME BridgeTerms, BridgeTerms', [BridgeNext]_bridgeVars, NEW id \in BurnId
    PROVE  \/ BurnOf(id) = None
           \/ EndBlock /\ id \in ExpiredBurns
           \/ SignaturesOf(BurnOf(id))' = SignaturesOf(BurnOf(id))
           \/ \E s : SignaturesOf(BurnOf(id))' = Append(SignaturesOf(BurnOf(id)), s)
<1>0. /\ burn_transactions \in [BurnId -> BurnTransaction \cup {None}]
      /\ executed_burn_transactions \in [BurnId -> BurnTransaction \cup {None}]
      /\ burn_transaction_id \in Nat
      /\ burn_transactions[id] = None \/ executed_burn_transactions[id] = None
      /\ id > burn_transaction_id
           => burn_transactions[id] = None /\ executed_burn_transactions[id] = None
  <2>1. /\ burn_transactions \in [BurnId -> BurnTransaction \cup {None}]
        /\ executed_burn_transactions \in [BurnId -> BurnTransaction \cup {None}]
        /\ burn_transaction_id \in Nat
    <3>1. TypeOK
      BY DEF BridgeTerms
    <3> QED
      BY <3>1, PalletAssumption DEF TypeOK
  <2>2. /\ burn_transactions[id] = None \/ executed_burn_transactions[id] = None
        /\ id <= burn_transaction_id
             <=> (burn_transactions[id] # None \/ executed_burn_transactions[id] # None)
    BY DEF BridgeTerms, BurnLedger
  <2>3. id \in Nat
    BY DEF BurnId
  <2> QED
    BY <2>1, <2>2, <2>3
<1>1. ASSUME burn_transactions'[id] = burn_transactions[id],
             executed_burn_transactions'[id] = executed_burn_transactions[id]
      PROVE  SignaturesOf(BurnOf(id))' = SignaturesOf(BurnOf(id))
  BY <1>1 DEF SignaturesOf, BurnOf, BurnRecord
<1>2. CASE UNCHANGED burnVars
  BY <1>1, <1>2 DEF burnVars
<1>3. ASSUME NEW target, NEW amount, Swap(target, amount)
      PROVE  \/ BurnOf(id) = None
             \/ SignaturesOf(BurnOf(id))' = SignaturesOf(BurnOf(id))
  <2>1. /\ NextBurnId = burn_transaction_id + 1
        /\ \A i \in BurnId : i # NextBurnId
             => burn_transactions'[i] = burn_transactions[i]
        /\ UNCHANGED executed_burn_transactions
    BY <1>0, <1>3 DEF Swap, SwapToStellar, NextBurnId
  <2>2. CASE id = NextBurnId
    BY <1>0, <2>1, <2>2 DEF BurnOf, BurnRecord, BurnId
  <2>3. CASE id # NextBurnId
    BY <1>1, <2>1, <2>3
  <2> QED
    BY <2>2, <2>3
<1>4. CASE EndBlock
  <2>1. /\ id \notin ExpiredBurns => burn_transactions'[id] = burn_transactions[id]
        /\ UNCHANGED executed_burn_transactions
    BY <1>4 DEF EndBlock, FinalizeBlock
  <2> QED
    BY <1>1, <1>4, <2>1
<1>5. ASSUME NEW d \in Daemon, RetryProposeWithdrawOrAddSig(d)
      PROVE  \/ SignaturesOf(BurnOf(id))' = SignaturesOf(BurnOf(id))
             \/ \E s : SignaturesOf(BurnOf(id))' = Append(SignaturesOf(BurnOf(id)), s)
  <2> DEFINE tx == job[d].tx
             m == job[d].id
             signature == SignatureOf(KeyOf[d], tx)
             old == burn_transactions[m]
             new == WithSignature(old, signature, KeyOf[d], tx.seqno)
             added == [stellar_pub_key |-> KeyOf[d], signature |-> signature]
  <2>1. CASE UNCHANGED palletVars
    BY <1>1, <2>1 DEF palletVars, burnVars
  <2>2. CASE ProposeBurnOrAddSig(d, m, tx.target, tx.amount, signature, KeyOf[d],
                                 tx.seqno)
    <3>1. /\ old # None /\ UNCHANGED executed_burn_transactions
          /\ burn_transactions' = [burn_transactions EXCEPT ![m] = new]
      BY <2>2 DEF ProposeBurnOrAddSig
    <3>2. CASE m # id
      BY <1>0, <1>1, <3>1, <3>2
    <3>3. CASE m = id
      <4>1. old \in BurnTransaction /\ burn_transactions'[id] = new
        BY <1>0, <3>1, <3>3
      <4>2. new.signatures = Append(old.signatures, added)
        BY <4>1 DEF WithSignature, BurnTransaction
      <4>3. new # None
        <5>1. burn_transaction_id' = burn_transaction_id /\ id <= burn_transaction_id
          BY <1>0, <2>2, <3>1, <3>3 DEF ProposeBurnOrAddSig, BridgeTerms, BurnLedger
        <5>2. executed_burn_transactions'[id] = None
          BY <1>0, <3>1, <3>3
        <5> QED
          BY <4>1, <5>1, <5>2 DEF BridgeTerms, BurnLedger
      <4> HIDE DEF new, added
      <4> QED
        BY <3>1, <3>3, <4>1, <4>2, <4>3 DEF SignaturesOf, BurnOf, BurnRecord
    <3> QED
      BY <3>2, <3>3
  <2> QED
    BY <1>5, <2>1, <2>2 DEF RetryProposeWithdrawOrAddSig, Retries
<1>6. ASSUME NEW d \in Daemon, RetrySetWithdrawExecuted(d)
      PROVE  SignaturesOf(BurnOf(id))' = SignaturesOf(BurnOf(id))
  <2>1. CASE UNCHANGED palletVars
    BY <1>1, <2>1 DEF palletVars, burnVars
  <2>2. CASE SetBurnExecuted(d, job[d].id)
    <3>1. /\ burn_transactions[job[d].id] # None
          /\ burn_transactions' = [burn_transactions EXCEPT ![job[d].id] = None]
          /\ executed_burn_transactions' =
               [executed_burn_transactions EXCEPT ![job[d].id] =
                  burn_transactions[job[d].id]]
      BY <2>2 DEF SetBurnExecuted, Without
    <3>2. CASE job[d].id = id
      BY <1>0, <3>1, <3>2 DEF SignaturesOf, BurnOf, BurnRecord
    <3>3. CASE job[d].id # id
      BY <1>0, <1>1, <3>1, <3>3
    <3> QED
      BY <3>2, <3>3
  <2> QED
    BY <1>6, <2>1, <2>2 DEF RetrySetWithdrawExecuted, Retries
<1> QED
  BY <1>2, <1>3, <1>4, <1>5, <1>6, WhoWritesBurns

\* So the number of a burn stays until a round ends.
LEMMA CurrentStep ==
    ASSUME BridgeTerms, BridgeTerms', [BridgeNext]_bridgeVars, NEW id \in BurnId
    PROVE  \/ rounds'[id] = rounds[id] /\ Current(id) \subseteq Current(id)'
           \/ rounds'[id] = rounds[id] + 1
<1>1. rounds \in [BurnId \cup RefundHash -> Nat]
  BY DEF BridgeTerms, FaultsShape
<1>2. rounds'[id] \in {rounds[id], rounds[id] + 1}
      /\ (EndBlock /\ id \in ExpiredBurns => rounds'[id] = rounds[id] + 1)
  <2>1. CASE EndBlock
    BY <1>1, <2>1 DEF EndBlock
  <2>2. CASE ~EndBlock
    BY <2>2, RoundsStep
  <2> QED
    BY <2>1, <2>2
<1>3. CASE SignaturesOf(BurnOf(id))' = SignaturesOf(BurnOf(id))
  BY <1>2, <1>3 DEF Current, Enough, NumberOf
<1>4. CASE BurnOf(id) = None
  <2>1. ~Enough(SignaturesOf(BurnOf(id)))
    BY <1>4, DaemonAssumption DEF Enough, SignaturesOf
  <2> QED
    BY <1>2, <2>1 DEF Current
<1>5. ASSUME NEW s, BurnOf(id) # None,
             SignaturesOf(BurnOf(id))' = Append(SignaturesOf(BurnOf(id)), s)
      PROVE  Current(id) \subseteq Current(id)'
  <2> DEFINE old == SignaturesOf(BurnOf(id))
  <2>1. old \in Seq(StellarSignature)
    BY <1>5 DEF BridgeTerms, TypeOK, BurnTransaction, SignaturesOf, BurnOf, BurnRecord
  <2> HIDE DEF old
  <2>2. ASSUME Enough(old)
        PROVE  NumberOf(Append(old, s)) = NumberOf(old) /\ Enough(Append(old, s))
    <3>1. Len(old) \in Nat /\ Len(old) # 0
      BY <2>1, <2>2, DaemonAssumption DEF Enough
    <3>2. Len(Append(old, s)) = Len(old) + 1 /\ Append(old, s)[1] = old[1]
      BY <2>1, <3>1
    <3> QED
      BY <2>2, <3>1, <3>2, DaemonAssumption DEF Enough, NumberOf
  <2>3. Current(id) = {NumberOf(t) : t \in {r \in {old} : Enough(r)}}
    BY DEF Current, old
  <2>4. Current(id)' = {NumberOf(t) : t \in {r \in {Append(old, s)} : Enough(r)}}
    BY <1>5 DEF Current, Enough, NumberOf, old
  <2> QED
    BY <2>2, <2>3, <2>4
<1> QED
  BY <1>2, <1>3, <1>4, <1>5, BurnRecordStep

\* What is, or can be, paid has a number that was so before or is the present one.
LEMMA BurnNumbersStep ==
    ASSUME CallsAreFree, IdsDiffer, BridgeTerms, AccountInOrder,
           [BridgeNext]_bridgeVars, NEW id \in BurnId
    PROVE  (PaymentsOf(id) \cup InUse(id))'
             \subseteq PaymentsOf(id) \cup InUse(id) \cup Current(id)
<1>1. PaymentsOf(id)' \subseteq PaymentsOf(id) \cup InUse(id)
  BY PaidIsInUse
<1>2. ASSUME NEW d \in Daemon, job'[d].pc = "submit", job'[d].id = id,
             Enough(job'[d].signatures)
      PROVE  NumberOf(job'[d].signatures) \in InUse(id) \cup Current(id)
  <2>1. CASE job'[d] = job[d]
    BY <1>2, <2>1 DEF InUse, Submitting
  <2>2. CASE job'[d] # job[d]
    <3>1. Acts(d) /\ ~NotOfBurns(job'[d])
      BY <1>2, <2>2, WhoActs DEF NotOfBurns
    <3>2. /\ burn_transactions[id] # None
          /\ job'[d].signatures = burn_transactions[id].signatures
      <4>1. RefundMint(Head(inbox[d])).pc = "propose_mint"
        BY DEF RefundMint
      <4> QED
        BY <1>2, <2>2, <3>1, <4>1, TurnsToBurn
    <3>3. job'[d].signatures = SignaturesOf(BurnOf(id))
      BY <3>2 DEF SignaturesOf, BurnOf, BurnRecord
    <3> QED
      BY <1>2, <3>3 DEF Current
  <2> QED
    BY <2>1, <2>2
<1>3. InUse(id)' \subseteq InUse(id) \cup Current(id)
  BY <1>2 DEF InUse, Submitting, Enough, NumberOf
<1> QED
  BY <1>1, <1>3

\* The present round has one number at most.
LEMMA OneMoreAtMost ==
    ASSUME NEW P, IsFiniteSet(P), NEW id
    PROVE  /\ IsFiniteSet(P \cup Current(id))
           /\ Cardinality(P) \in Nat
           /\ Cardinality(P \cup Current(id)) \in Nat
           /\ Cardinality(P \cup Current(id)) <= Cardinality(P) + 1
<1> DEFINE n == NumberOf(SignaturesOf(BurnOf(id)))
<1>1. Current(id) \subseteq {n}
  BY DEF Current
<1> HIDE DEF n
<1>2. /\ IsFiniteSet(P \cup {n}) /\ Cardinality(P) \in Nat
      /\ Cardinality(P \cup {n}) \in Nat
      /\ Cardinality(P \cup {n}) <= Cardinality(P) + 1
  BY FS_AddElement, FS_CardinalityType
<1>3. P \cup Current(id) \subseteq P \cup {n}
  BY <1>1
<1>4. /\ IsFiniteSet(P \cup Current(id))
      /\ Cardinality(P \cup Current(id)) <= Cardinality(P \cup {n})
  BY <1>2, <1>3, FS_Subset
<1> QED
  BY <1>2, <1>4, FS_CardinalityType

\* A round that ends adds its number to those of the earlier rounds.
LEMMA PaidInRoundsStep ==
    ASSUME CallsAreFree, IdsDiffer, BridgeTerms, BridgeTerms', AccountInOrder,
           PaidInRounds, [BridgeNext]_bridgeVars
    PROVE  PaidInRounds'
<1> SUFFICES ASSUME NEW id \in BurnId
             PROVE  \E P : PaidWith(id, P)'
  BY DEF PaidInRounds
<1>1. PICK P : PaidWith(id, P)
  BY DEF PaidInRounds
<1>2. /\ IsFiniteSet(P) /\ Cardinality(P) <= rounds[id] /\ rounds[id] \in Nat
      /\ (PaymentsOf(id) \cup InUse(id))' \subseteq P \cup Current(id)
  BY <1>1, BurnNumbersStep DEF PaidWith, BridgeTerms, FaultsShape
<1>3. CASE rounds'[id] = rounds[id] /\ Current(id) \subseteq Current(id)'
  <2>1. (PaymentsOf(id) \cup InUse(id))' \subseteq P \cup Current(id)'
    BY <1>2, <1>3
  <2> QED
    BY <1>2, <1>3, <2>1 DEF PaidWith
<1>4. CASE rounds'[id] = rounds[id] + 1
  <2> DEFINE Q == P \cup Current(id)
  <2>1. IsFiniteSet(Q) /\ Cardinality(Q) <= rounds'[id]
    BY <1>2, <1>4, OneMoreAtMost
  <2>2. (PaymentsOf(id) \cup InUse(id))' \subseteq Q
    BY <1>2
  <2> HIDE DEF Q
  <2> QED
    BY <2>1, <2>2 DEF PaidWith
<1> QED
  BY <1>3, <1>4, CurrentStep

\* At the start nothing is paid, and nothing is about to be.
LEMMA PaidInRoundsInit ==
    ASSUME DepositInit
    PROVE  PaidInRounds /\ AccountInOrder
<1>1. /\ payments = <<>> /\ account_seq = 0
      /\ \A d \in Daemon : job[d] = Idle
      /\ rounds = [e \in BurnId \cup RefundHash |-> 0]
  BY DEF DepositInit, DaemonInit
<1>2. ASSUME NEW id \in BurnId
      PROVE  PaidWith(id, {})
  <2>1. PaymentsOf(id) = {} /\ InUse(id) = {}
    BY <1>1 DEF PaymentsOf, InUse, Submitting, Idle
  <2> QED
    BY <1>1, <2>1, FS_EmptySet DEF PaidWith
<1> QED
  BY <1>1, <1>2 DEF PaidInRounds, AccountInOrder

\* The present round adds one payment at most to those of the earlier ones.
LEMMA RoundsMeanPaidOnce ==
    ASSUME BridgeTerms, PaidInRounds
    PROVE  BurnsPaidOnce
<1> SUFFICES ASSUME NEW id \in BurnId
             PROVE  Cardinality(PaymentsOf(id)) <= 1 + rounds[id]
  BY DEF BurnsPaidOnce
<1>1. PICK P : PaidWith(id, P)
  BY DEF PaidInRounds
<1> DEFINE Q == P \cup Current(id)
<1>2. IsFiniteSet(P) /\ Cardinality(P) <= rounds[id] /\ rounds[id] \in Nat
  BY <1>1 DEF PaidWith, BridgeTerms, FaultsShape
<1>3. /\ IsFiniteSet(Q) /\ Cardinality(P) \in Nat /\ Cardinality(Q) \in Nat
      /\ Cardinality(Q) <= Cardinality(P) + 1
  BY <1>2, OneMoreAtMost
<1>4. PaymentsOf(id) \subseteq Q
  BY <1>1 DEF PaidWith
<1> HIDE DEF Q
<1>5. /\ Cardinality(PaymentsOf(id)) \in Nat
      /\ Cardinality(PaymentsOf(id)) <= Cardinality(Q)
  BY <1>3, <1>4, FS_Subset, FS_CardinalityType
<1> QED
  BY <1>2, <1>3, <1>5

\* In the whole bridge, with deposits and refunds going on beside it, a burn is paid
\* at most once for each time that its signatures were collected, whoever submits
\* it and whatever breaks in between (withdraw.go:77, stellar.go:280, lib.rs:251).
THEOREM BurnsArePaidOnceEachRound ==
    ASSUME IsFiniteSet(RefundHash), CallsAreFree, IdsDiffer
    PROVE  BridgeSpec => []BurnsPaidOnce
<1>1. BridgeSpec => []BridgeTerms
  BY BridgeTermsInvariant
<1>2. /\ DepositInit => PaidInRounds /\ AccountInOrder
      /\ BridgeTerms /\ BridgeTerms' /\ PaidInRounds /\ AccountInOrder
           /\ [BridgeNext]_bridgeVars
         => PaidInRounds' /\ AccountInOrder'
      /\ BridgeTerms /\ PaidInRounds => BurnsPaidOnce
  BY PaidInRoundsInit, PaidInRoundsStep, AccountInOrderStep, RoundsMeanPaidOnce
<1> QED
  BY <1>1, <1>2, PTL DEF BridgeSpec

-----------------------------------------------------------------------------
(* What the totals are sums of. *)

SentTotal(tx) == MapThenSumSet(LAMBDA sender : SentBy(tx, sender), StellarAddress)

SentTerms(tx) == [sender \in StellarAddress |-> SentBy(tx, sender)]

DepositTerms == [i \in DOMAIN account_txs |-> SentTotal(account_txs[i])]

PaidTerms == [i \in DOMAIN payments |-> payments[i].tx.amount]

\* The burns that nothing is done for yet, and what they wait for.
Open == {id \in BurnId : ~Paid(id) /\ ~Minted(id)}
OwedTerms ==
    [id \in Open |-> IF burn_transactions[id] = None THEN 0
                     ELSE burn_transactions[id].amount]

\* What a sender has sent is an amount, in any transaction that Horizon gives.
LEMMA SentIsAmount ==
    ASSUME NEW tx, WellFormed(tx), NEW s
    PROVE  SentBy(tx, s) \in Nat
<1> DEFINE S == {i \in DOMAIN tx.operations :
                   /\ tx.operations[i].type = "payment"
                   /\ tx.operations[i].to = BridgeAccount
                   /\ tx.operations[i].from = s}
           terms == [i \in S |-> tx.operations[i].amount]
           Computed(F) == F = [t \in SUBSET S |->
                                 IF t = {} THEN 0
                                 ELSE tx.operations[Pick(t)].amount
                                        + F[t \ {Pick(t)}]]
<1>1. IsFiniteSet(S) /\ \A i \in S : terms[i] \in Nat
  <2>1. /\ Len(tx.operations) \in Nat /\ S \subseteq 1..Len(tx.operations)
        /\ \A i \in S : tx.operations[i].amount \in Nat
    BY DEF WellFormed
  <2>2. IsFiniteSet(1..Len(tx.operations))
    BY <2>1, FS_Interval
  <2> QED
    BY <2>1, <2>2, FS_Subset
<1>2. ASSUME NEW F
      PROVE  IsSum(F, S, terms) <=> Computed(F)
  <2>1. ASSUME NEW t \in SUBSET S, t # {}
        PROVE  terms[Pick(t)] = tx.operations[Pick(t)].amount
    BY <2>1, Picked
  <2> QED
    BY <2>1 DEF IsSum, Unfolded
<1>3. PICK F : IsSum(F, S, terms) /\ SumOver(terms, S) = F[S]
  BY <1>1, SumIsSum
<1>4. \E G : Computed(G) /\ SentBy(tx, s) = G[S]
  <2>1. SentBy(tx, s) = MapThenSumSet(LAMBDA i : tx.operations[i].amount, S)
    BY DEF SentBy
  <2>2. \E G : Computed(G)
    BY <1>2, <1>3, Zenon
  <2> HIDE DEF S
  <2> QED
    BY ZenonT(40), <2>1, <2>2 DEF MapThenSumSet, MapThenFoldSet, Pick
<1> HIDE DEF Computed
<1>5. PICK G : Computed(G) /\ SentBy(tx, s) = G[S]
  BY <1>4
<1>6. S \in SUBSET S /\ IsSum(G, S, terms)
  BY <1>2, <1>5
<1> HIDE DEF S, terms
<1>7. F[S] = G[S]
  BY <1>1, <1>3, <1>6, SumsAgree
<1>8. SumOver(terms, S) \in Nat
  BY <1>1, SumIsNat
<1> QED
  BY <1>3, <1>5, <1>7, <1>8

\* What was sent in a transaction is the sum over its senders.
LEMMA SentIsSum ==
    ASSUME IsFiniteSet(StellarAddress), NEW tx
    PROVE  SentTotal(tx) = SumOver(SentTerms(tx), StellarAddress)
<1> DEFINE Computed(F) == F = [t \in SUBSET StellarAddress |->
                                 IF t = {} THEN 0
                                 ELSE SentBy(tx, Pick(t)) + F[t \ {Pick(t)}]]
<1>1. ASSUME NEW F
      PROVE  IsSum(F, StellarAddress, SentTerms(tx)) <=> Computed(F)
  <2>1. ASSUME NEW t \in SUBSET StellarAddress, t # {}
        PROVE  SentTerms(tx)[Pick(t)] = SentBy(tx, Pick(t))
    BY <2>1, Picked DEF SentTerms
  <2> QED
    BY <2>1 DEF IsSum, Unfolded
<1>2. PICK F : /\ IsSum(F, StellarAddress, SentTerms(tx))
               /\ SumOver(SentTerms(tx), StellarAddress) = F[StellarAddress]
  BY SumIsSum
<1>3. \E G : Computed(G) /\ SentTotal(tx) = G[StellarAddress]
  BY ZenonT(40), <1>1, <1>2 DEF SentTotal, MapThenSumSet, MapThenFoldSet, Pick
<1> HIDE DEF Computed
<1>4. PICK G : Computed(G) /\ SentTotal(tx) = G[StellarAddress]
  BY <1>3
<1>5. /\ StellarAddress \in SUBSET StellarAddress
      /\ IsSum(G, StellarAddress, SentTerms(tx))
  BY <1>1, <1>4
<1>6. F[StellarAddress] = G[StellarAddress]
  BY <1>2, <1>5, SumsAgree
<1> QED
  BY <1>2, <1>4, <1>6

\* And all that was deposited is the sum over the transactions.
LEMMA DepositedIsSum ==
    ASSUME IsFiniteSet(DOMAIN account_txs)
    PROVE  DepositedTotal = SumOver(DepositTerms, DOMAIN account_txs)
<1> DEFINE S == DOMAIN account_txs
           Computed(F) == F = [t \in SUBSET S |->
                                 IF t = {} THEN 0
                                 ELSE SentTotal(account_txs[Pick(t)])
                                        + F[t \ {Pick(t)}]]
<1>1. ASSUME NEW F
      PROVE  IsSum(F, S, DepositTerms) <=> Computed(F)
  <2>1. ASSUME NEW t \in SUBSET S, t # {}
        PROVE  DepositTerms[Pick(t)] = SentTotal(account_txs[Pick(t)])
    BY <2>1, Picked DEF DepositTerms
  <2> QED
    BY <2>1 DEF IsSum, Unfolded
<1>2. PICK F : IsSum(F, S, DepositTerms) /\ SumOver(DepositTerms, S) = F[S]
  BY SumIsSum
<1>3. \E G : Computed(G) /\ DepositedTotal = G[S]
  <2>1. DepositedTotal = MapThenSumSet(LAMBDA i : SentTotal(account_txs[i]), S)
    BY DEF DepositedTotal, SentTotal
  <2> HIDE DEF S
  <2> QED
    BY ZenonT(40), <1>1, <1>2, <2>1 DEF MapThenSumSet, MapThenFoldSet, Pick
<1> HIDE DEF Computed
<1>4. PICK G : Computed(G) /\ DepositedTotal = G[S]
  BY <1>3
<1>5. S \in SUBSET S /\ IsSum(G, S, DepositTerms)
  BY <1>1, <1>4
<1>6. F[S] = G[S]
  BY <1>2, <1>5, SumsAgree
<1> QED
  BY <1>2, <1>4, <1>6

\* And what was paid, over the payments.
LEMMA PaidIsSum ==
    ASSUME IsFiniteSet(DOMAIN payments)
    PROVE  PaidTotal = SumOver(PaidTerms, DOMAIN payments)
<1> DEFINE S == DOMAIN payments
           Computed(F) == F = [t \in SUBSET S |->
                                 IF t = {} THEN 0
                                 ELSE payments[Pick(t)].tx.amount
                                        + F[t \ {Pick(t)}]]
<1>1. ASSUME NEW F
      PROVE  IsSum(F, S, PaidTerms) <=> Computed(F)
  <2>1. ASSUME NEW t \in SUBSET S, t # {}
        PROVE  PaidTerms[Pick(t)] = payments[Pick(t)].tx.amount
    BY <2>1, Picked DEF PaidTerms
  <2> QED
    BY <2>1 DEF IsSum, Unfolded
<1>2. PICK F : IsSum(F, S, PaidTerms) /\ SumOver(PaidTerms, S) = F[S]
  BY SumIsSum
<1>3. \E G : Computed(G) /\ PaidTotal = G[S]
  <2>1. PaidTotal = MapThenSumSet(LAMBDA i : payments[i].tx.amount, S)
    BY DEF PaidTotal
  <2> HIDE DEF S
  <2> QED
    BY ZenonT(40), <1>1, <1>2, <2>1 DEF MapThenSumSet, MapThenFoldSet, Pick
<1> HIDE DEF Computed
<1>4. PICK G : Computed(G) /\ PaidTotal = G[S]
  BY <1>3
<1>5. S \in SUBSET S /\ IsSum(G, S, PaidTerms)
  BY <1>1, <1>4
<1>6. F[S] = G[S]
  BY <1>2, <1>5, SumsAgree
<1> QED
  BY <1>2, <1>4, <1>6

\* And what users wait for, over the burns that nothing is done for.
LEMMA OwedIsSum ==
    OwedTotal = SumOver(OwedTerms, Open)
<1> DEFINE Amount_(id) == IF burn_transactions[id] = None THEN 0
                          ELSE burn_transactions[id].amount
           Computed(F) == F = [t \in SUBSET Open |->
                                 IF t = {} THEN 0
                                 ELSE Amount_(Pick(t)) + F[t \ {Pick(t)}]]
<1>0. IsFiniteSet(Open)
  BY BurnIdFinite, FS_Subset DEF Open
<1>1. ASSUME NEW F
      PROVE  IsSum(F, Open, OwedTerms) <=> Computed(F)
  <2>1. ASSUME NEW t \in SUBSET Open, t # {}
        PROVE  OwedTerms[Pick(t)] = Amount_(Pick(t))
    BY <2>1, Picked DEF OwedTerms
  <2> QED
    BY <2>1 DEF IsSum, Unfolded
<1>2. PICK F : IsSum(F, Open, OwedTerms) /\ SumOver(OwedTerms, Open) = F[Open]
  BY <1>0, SumIsSum
<1>3. \E G : Computed(G) /\ OwedTotal = G[Open]
  <2>1. OwedTotal = AmountsOf(Open, LAMBDA id : burn_transactions[id])
    BY DEF OwedTotal, Open
  <2> QED
    BY <1>1, <1>2, <2>1 DEF AmountsOf, MapThenSumSet, MapThenFoldSet, Pick
<1> HIDE DEF Computed
<1>4. PICK G : Computed(G) /\ OwedTotal = G[Open]
  BY <1>3
<1>5. Open \in SUBSET Open /\ IsSum(G, Open, OwedTerms)
  BY <1>1, <1>4
<1>6. F[Open] = G[Open]
  BY <1>0, <1>2, <1>5, SumsAgree
<1> QED
  BY <1>2, <1>4, <1>6
-----------------------------------------------------------------------------
(* What was paid and minted is of the burns and deposits. *)

PaymentsTrue ==
    \A i \in DOMAIN payments :
      /\ payments[i].id \in BurnId
           => payments[i].id \in Burns /\ Pays(payments[i].tx, BurnOf(payments[i].id))
      /\ payments[i].id \in RefundHash
           => Claim(payments[i].id, payments[i].tx) \in Owed

MintsKnown == \A m \in MintId : Minted(m) => m \in BurnId \cup RefundHash

\* A payment is the one that the pallet has of the burn, or returns a deposit.
LEMMA PaymentsTrueStep ==
    ASSUME CallsAreFree, IdsDiffer, BridgeTerms, PaymentsTrue, [BridgeNext]_bridgeVars
    PROVE  PaymentsTrue'
<1>1. FactsStay /\ JobsTrue /\ AccountShape
  BY TruthStays DEF BridgeTerms, StellarShape
<1>2. ASSUME NEW id, NEW tx,
             id \in BurnId => id \in Burns /\ Pays(tx, BurnOf(id)),
             id \in RefundHash => Claim(id, tx) \in Owed
      PROVE  /\ id \in BurnId
                  => /\ id \in Burns'
                     /\ Pays(tx, BurnRecord(burn_transactions',
                                            executed_burn_transactions', id))
             /\ id \in RefundHash => Claim(id, tx) \in Owed'
  BY <1>1, <1>2 DEF FactsStay, Pays
<1>3. CASE UNCHANGED stellarVars
  BY <1>2, <1>3 DEF PaymentsTrue, BurnOf, stellarVars
<1>4. ASSUME NEW d \in Daemon, Paying(d)
      PROVE  PaymentsTrue'
  <2> DEFINE new == [id |-> job[d].id, tx |-> job[d].tx]
  <2>1. /\ job[d].id \in BurnId => job[d].id \in Burns
                                   /\ Pays(job[d].tx, BurnOf(job[d].id))
        /\ job[d].id \in RefundHash => Claim(job[d].id, job[d].tx) \in Owed
    <3>1. job[d] \in SubmitJobs
      BY <1>1, <1>4, JobAt DEF JobsTrue, Paying
    <3>2. Burns \subseteq BurnId
      BY BurnsHaveIds DEF BridgeTerms
    <3> QED
      BY <3>1, <3>2 DEF SubmitJobs, SubmitBurnJobs, SubmitRefundJobs, IdsDiffer
  <2>2. \A i \in DOMAIN payments' :
          \/ i \in DOMAIN payments /\ payments'[i] = payments[i]
          \/ payments'[i].id = job[d].id /\ payments'[i].tx = job[d].tx
    <3>1. payments' = Append(payments, new)
      BY <1>4 DEF Paying
    <3>2. new.id = job[d].id /\ new.tx = job[d].tx
      OBVIOUS
    <3> HIDE DEF new
    <3> QED
      BY <1>1, <3>1, <3>2 DEF AccountShape
  <2> QED
    BY <1>2, <2>1, <2>2 DEF PaymentsTrue, BurnOf
<1> QED
  BY <1>3, <1>4, OnlySubmitPays

\* A mint is of a deposit, or gives a burn back.
LEMMA MintsKnownStep ==
    ASSUME IdsDiffer, BridgeTerms, MintsKnown, [BridgeNext]_bridgeVars
    PROVE  MintsKnown'
<1> SUFFICES ASSUME NEW m \in MintId, Minted(m)', m \notin BurnId \cup RefundHash
             PROVE  FALSE
  BY DEF MintsKnown
<1>1. ~Minted(m)
  BY DEF MintsKnown
<1>2. PICK d \in Daemon : Voting(d, m)
  BY <1>1, VotersStep DEF Minted
<1>3. job[d] \in MintJobs
  BY <1>2, JobAt DEF Voting, BridgeTerms, JobsTrue
<1>4. Burns \subseteq BurnId
  BY BurnsHaveIds DEF BridgeTerms
<1> QED
  BY <1>2, <1>3, <1>4 DEF Voting, MintJobs, MintBackJobs, MintDepositJobs, Closable

\* At the start there are no payments and no mints.
LEMMA PaymentsTrueInit ==
    ASSUME DepositInit
    PROVE  PaymentsTrue /\ MintsKnown
BY DEF DepositInit, DaemonInit, Init, PaymentsTrue, MintsKnown, Minted

-----------------------------------------------------------------------------
(* Each burn and each deposit is settled once. *)

Ids == BurnId \cup RefundHash

PaysOnce(e) == \A i, j \in PaymentsOf(e) : i = j

SettledOnce ==
    /\ BridgeTerms /\ HashesDiffer /\ PaymentsTrue /\ MintsKnown
    /\ \A e \in Ids : PaysOnce(e) /\ ~(Paid(e) /\ Minted(e))

\* In its first round a burn is paid with the number of its present signatures.
LEMMA BurnPaidOnce ==
    ASSUME PaidInRounds, NEW id \in BurnId, rounds[id] = 0
    PROVE  PaysOnce(id)
<1>1. PICK P : PaidWith(id, P)
  BY DEF PaidInRounds
<1>2. P = {}
  <2>1. IsFiniteSet(P) /\ Cardinality(P) <= 0 /\ Cardinality(P) \in Nat
    BY <1>1, FS_CardinalityType DEF PaidWith
  <2> QED
    BY <2>1, FS_EmptySet
<1>3. PaymentsOf(id) \subseteq Current(id)
  BY <1>1, <1>2 DEF PaidWith
<1>4. Current(id) \subseteq {NumberOf(SignaturesOf(BurnOf(id)))}
  BY DEF Current
<1> QED
  BY <1>3, <1>4 DEF PaysOnce

\* Two sets of enough signatures for one refund have a daemon in common.
SignaturesMeet == 2 * SignatureCount > Cardinality(Daemon)

\* And so of those of a refund, pending or executed, one is enough at most.
LEMMA RefundPaidOnce ==
    ASSUME SignaturesMeet, BridgeTerms, DepositsOneWay, Still, NEW h \in RefundHash,
           Single(h), rounds[h] = 0
    PROVE  PaysOnce(h)
<1>1. SignersReturn(h) /\ PaidAsSigned(h)
  BY DEF DepositsOneWay, SettlesOnce
<1>2. Len(Pending(h)) \in Nat /\ Len(Closed(h)) \in Nat
  BY SignaturesType DEF BridgeTerms
<1>3. Cardinality(Returners(h)) \in Nat /\ Cardinality(Daemon) \in Nat
      /\ Cardinality(Returners(h)) <= Cardinality(Daemon)
  <2>1. IsFiniteSet(Daemon) /\ Returners(h) \subseteq Daemon
    BY PalletAssumption, FS_Subset DEF Daemon, Returners
  <2> QED
    BY <2>1, FS_Subset, FS_CardinalityType
<1>4. ~(Enough(Pending(h)) /\ Enough(Closed(h)))
  BY <1>1, <1>2, <1>3, DaemonAssumption DEF SignersReturn, Enough, SignaturesMeet
<1>5. \A m, n \in Usable(h) : m = n
  BY <1>4 DEF Usable
<1> QED
  BY <1>1, <1>5 DEF PaidAsSigned, PaysOnce

RefundsPaidOnce ==
    Still => \A h \in RefundHash :
               Single(h) /\ rounds[h] = 0 => Cardinality(PaymentsOf(h)) <= 1

\* A refund that did not expire is paid at most once, although the pallet collects
\* signatures for it again after it was executed (lib.rs:548), as long as no daemon
\* breaks, rescans or repeats a vote: for any daemons, if any two sets of as many
\* signatures as the wallet asks for have a daemon in common.
THEOREM RefundsArePaidOnce ==
    ASSUME IsFiniteSet(RefundHash), CallsAreFree, IdsDiffer, SignaturesMeet
    PROVE  BridgeSpec => []RefundsPaidOnce
<1>1. BridgeSpec => []BridgeTerms
  BY BridgeTermsInvariant
<1>2. ASSUME BridgeTerms, DepositsOneWay, Still,
             NEW h \in RefundHash, Single(h), rounds[h] = 0
      PROVE  Cardinality(PaymentsOf(h)) <= 1
  <2>1. PaysOnce(h)
    BY <1>2, RefundPaidOnce
  <2>2. CASE PaymentsOf(h) = {}
    BY <2>2, FS_EmptySet
  <2>3. CASE PaymentsOf(h) # {}
    <3>1. \E i : PaymentsOf(h) = {i}
      BY <2>1, <2>3 DEF PaysOnce
    <3> QED
      BY <3>1, FS_Singleton
  <2> QED
    BY <2>2, <2>3
<1>3. BridgeTerms /\ DepositsOneWay => RefundsPaidOnce
  BY <1>2 DEF RefundsPaidOnce
<1> QED
  BY <1>1, <1>3, DepositsOneWayInit, DepositsOneWayStep, PTL DEF BridgeSpec

\* Every transaction that may be sent is handled once at most.
HandledOnce == \A tx \in StellarTxs : MintEvents(tx) <= 1

\* So, while nothing breaks and nothing expires, all is settled once.
LEMMA AllSettledOnce ==
    ASSUME QuorumsMeet, SignaturesMeet, HandledOnce, Still,
           BridgeTerms, OneWay, DepositsOneWay, PaidInRounds, PaymentsTrue, MintsKnown,
           \A id \in DOMAIN rounds : rounds[id] = 0
    PROVE  SettledOnce
<1>1. \A e \in Ids : rounds[e] = 0
  BY DEF Ids, BridgeTerms, FaultsShape
<1>2. ASSUME NEW id \in BurnId
      PROVE  PaysOnce(id) /\ ~(Paid(id) /\ Minted(id))
  <2>1. NotPaidAndRefunded
    BY NotEnoughForBoth
  <2> QED
    BY <1>1, <2>1, BurnPaidOnce DEF Ids, NotPaidAndRefunded, Still, Quiet
<1>3. ASSUME NEW h \in RefundHash
      PROVE  PaysOnce(h) /\ ~(Paid(h) /\ Minted(h))
  <2>1. Single(h)
    BY DEF Single, HandledOnce, Deposited, BridgeTerms, StreamShape, DepositTypeOK
  <2>2. rounds[h] = 0
    BY <1>1 DEF Ids
  <2> QED
    BY <2>1, <2>2, RefundPaidOnce, NotBothForDeposit
<1> QED
  BY <1>2, <1>3 DEF SettledOnce, Ids, DepositsOneWay
-----------------------------------------------------------------------------
(* What each burn and each deposit brings in, and takes out. *)

PaymentOf(e) == CHOOSE i \in PaymentsOf(e) : TRUE
PlaceOf(h) == CHOOSE i \in DOMAIN account_txs : account_txs[i].hash = h

PaidFor == [e \in Ids |-> IF Paid(e) THEN PaidTerms[PaymentOf(e)] ELSE 0]
OwedFor == [e \in Ids |-> IF e \in Open THEN OwedTerms[e] ELSE 0]
BurnedFor == [e \in Ids |-> IF e \in BurnId THEN BurnedTerms[e] ELSE 0]
DepositedFor ==
    [e \in Ids |-> IF e \notin BurnId /\ \E tx \in Deposited : tx.hash = e
                   THEN DepositTerms[PlaceOf(e)] ELSE 0]

\* The terms of the sums are amounts.
LEMMA TermsAreAmounts ==
    ASSUME IsFiniteSet(StellarAddress), BridgeTerms
    PROVE  /\ \A i \in DOMAIN account_txs : DepositTerms[i] \in Nat
           /\ \A i \in DOMAIN payments : PaidTerms[i] \in Nat
           /\ \A id \in Open : OwedTerms[id] \in Nat
           /\ \A id \in BurnId : BurnedTerms[id] \in Nat
           /\ \A m \in MintId : MintedTerms[m] \in Nat
<1>1. TypeOK /\ StreamShape /\ AccountShape
  BY DEF BridgeTerms, StellarShape
<1>2. ASSUME NEW i \in DOMAIN account_txs
      PROVE  DepositTerms[i] \in Nat
  <2>1. account_txs[i] \in StellarTxs
    BY <1>1 DEF StreamShape, DepositTypeOK
  <2>2. \A sender \in StellarAddress : SentTerms(account_txs[i])[sender] \in Nat
    BY <2>1, SentIsAmount, DepositAssumption DEF SentTerms
  <2>3. SentTotal(account_txs[i]) \in Nat
    BY <2>2, SentIsSum, SumIsNat
  <2> QED
    BY <2>3 DEF DepositTerms
<1>3. ASSUME NEW i \in DOMAIN payments
      PROVE  PaidTerms[i] \in Nat
  <2> DEFINE Payment == [id : BurnId \cup RefundHash, tx : PaymentTx]
  <2>1. payments \in Seq(Payment)
    BY <1>1 DEF AccountShape
  <2> HIDE DEF Payment
  <2>2. payments[i] \in Payment
    BY <2>1
  <2> QED
    BY <2>2 DEF Payment, PaidTerms, PaymentTx
<1>4. \A id \in Open : OwedTerms[id] \in Nat
  BY <1>1 DEF OwedTerms, Open, TypeOK, BurnTransaction
<1>5. \A id \in BurnId : BurnedTerms[id] \in Nat
  BY <1>1 DEF BurnedTerms, BurnRecord, TypeOK, BurnTransaction
<1>6. \A m \in MintId : MintedTerms[m] \in Nat
  BY <1>1 DEF MintedTerms, TypeOK, MintTransaction
<1> QED
  BY <1>2, <1>3, <1>4, <1>5, <1>6

\* A payment of a burn or a refund is its only one.
LEMMA TheOnlyPayment ==
    ASSUME SettledOnce, NEW e \in Ids, NEW i \in PaymentsOf(e)
    PROVE  PaymentOf(e) = i
BY DEF SettledOnce, PaysOnce, PaymentOf

\* What one sender has sent is not more than all that was deposited with the hash.
LEMMA WithinDeposit ==
    ASSUME IsFiniteSet(StellarAddress), IdsDiffer, BridgeTerms, HashesDiffer,
           NEW h \in RefundHash, NEW tx \in Deposited, tx.hash = h,
           NEW sender \in StellarAddress
    PROVE  SentBy(tx, sender) \in Nat /\ SentBy(tx, sender) <= DepositedFor[h]
<1>1. PICK i \in DOMAIN account_txs : account_txs[i] = tx
  BY DEF Deposited
<1>2. PlaceOf(h) = i
  BY <1>1 DEF PlaceOf, HashesDiffer
<1>3. DepositedFor[h] = SentTotal(tx)
  BY <1>1, <1>2 DEF DepositedFor, DepositTerms, Ids, IdsDiffer
<1>4. WellFormed(tx)
  BY <1>1, DepositAssumption DEF BridgeTerms, StreamShape, DepositTypeOK
<1>5. \A s \in StellarAddress : SentTerms(tx)[s] \in Nat
  BY <1>4, SentIsAmount DEF SentTerms
<1>6. SentTotal(tx) = SentTerms(tx)[sender]
                        + SumOver(SentTerms(tx), StellarAddress \ {sender})
  BY <1>5, SentIsSum, SumTakeOut
<1>7. SumOver(SentTerms(tx), StellarAddress \ {sender}) \in Nat
  <2>1. IsFiniteSet(StellarAddress \ {sender})
    BY FS_Subset
  <2> QED
    BY <1>5, <2>1, SumIsNat
<1>8. SentTerms(tx)[sender] = SentBy(tx, sender) /\ SentBy(tx, sender) \in Nat
  BY <1>5 DEF SentTerms
<1> QED
  BY <1>3, <1>6, <1>7, <1>8

\* What is minted back, paid or still owed of a burn is what was burned.
LEMMA BurnSettled ==
    ASSUME IsFiniteSet(StellarAddress), SettledOnce, NEW id \in BurnId
    PROVE  MintedTerms[id] + PaidFor[id] + OwedFor[id]
             <= BurnedFor[id] + DepositedFor[id]
<1> DEFINE burned == BurnedTerms[id]
<1>1. /\ BridgeTerms /\ id \in Ids /\ id \in MintId
      /\ ~(Paid(id) /\ Minted(id))
  BY WithdrawAssumption DEF SettledOnce, Ids
<1>2. burned \in Nat /\ BurnedFor[id] = burned /\ DepositedFor[id] = 0
  BY <1>1, TermsAreAmounts DEF BurnedFor, DepositedFor
<1>3. id \in Burns => burned = BurnOf(id).amount
  <2>1. id \in Burns => BurnOf(id) # None
    BY DEF SettledOnce, BridgeTerms, BurnLedger, Burns, BurnOf, BurnRecord
  <2> QED
    BY <2>1 DEF BurnedTerms, BurnOf
<1>4. MintedTerms[id] = IF Minted(id) THEN burned ELSE 0
  <2>1. Minted(id) => id \in Burns
                      /\ executed_mint_transactions[id].amount = BurnOf(id).amount
    BY <1>1 DEF BridgeTerms, MintsTrue, GivesBack, Minted
  <2> QED
    BY <1>1, <1>3, <2>1 DEF MintedTerms, Minted
<1>5. PaidFor[id] = IF Paid(id) THEN burned ELSE 0
  <2>1. ASSUME NEW i \in PaymentsOf(id)
        PROVE  PaidTerms[i] = burned
    BY <1>3 DEF SettledOnce, PaymentsTrue, PaymentsOf, Pays, PaidTerms
  <2>2. Paid(id) => PaymentOf(id) \in PaymentsOf(id)
    BY DEF Paid, PaymentOf
  <2> QED
    BY <1>1, <2>1, <2>2 DEF PaidFor
<1>6. OwedFor[id] \in {0, burned} /\ (Paid(id) \/ Minted(id) => OwedFor[id] = 0)
  <2>1. burn_transactions[id] # None
          => BurnedTerms[id] = burn_transactions[id].amount
    BY DEF BurnedTerms, BurnRecord
  <2> QED
    BY <1>1, <2>1 DEF OwedFor, OwedTerms, Open
<1> HIDE DEF burned
<1> QED
  BY <1>1, <1>2, <1>4, <1>5, <1>6

\* What is minted or paid back of a deposit is within what was sent.
LEMMA DepositSettled ==
    ASSUME IsFiniteSet(StellarAddress), IdsDiffer, SettledOnce, NEW h \in RefundHash
    PROVE  MintedTerms[h] + PaidFor[h] + OwedFor[h]
             <= BurnedFor[h] + DepositedFor[h]
<1>1. /\ BridgeTerms /\ HashesDiffer /\ h \in Ids /\ h \in MintId /\ h \notin BurnId
      /\ ~(Paid(h) /\ Minted(h))
  BY DepositAssumption DEF SettledOnce, Ids, IdsDiffer
<1>2. OwedFor[h] = 0 /\ BurnedFor[h] = 0 /\ DepositedFor[h] \in Nat
  <2>1. ASSUME NEW tx \in Deposited, tx.hash = h
        PROVE  PlaceOf(h) \in DOMAIN account_txs
    BY <2>1 DEF PlaceOf, Deposited
  <2>2. DepositedFor[h] \in Nat
    BY <1>1, <2>1, TermsAreAmounts DEF DepositedFor
  <2> QED
    BY <1>1, <2>2 DEF OwedFor, Open, BurnedFor
<1>3. ASSUME Minted(h)
      PROVE  MintedTerms[h] \in Nat /\ MintedTerms[h] <= DepositedFor[h]
  <2>1. Claim(h, executed_mint_transactions[h]) \in Mintable
    BY <1>1, <1>3 DEF BridgeTerms, MintsTrue, IsDeposit, Minted
  <2>2. PICK tx \in Deposited, sender \in StellarAddress :
          /\ tx.hash = h
          /\ executed_mint_transactions[h].amount = SentBy(tx, sender)
    BY <2>1 DEF Mintable, Claim
  <2>3. MintedTerms[h] = SentBy(tx, sender)
    BY <1>1, <1>3, <2>2 DEF MintedTerms, Minted
  <2> QED
    BY <1>1, <2>2, <2>3, WithinDeposit
<1>4. ASSUME Paid(h)
      PROVE  PaidFor[h] \in Nat /\ PaidFor[h] <= DepositedFor[h]
  <2> DEFINE i == PaymentOf(h)
  <2>1. i \in DOMAIN payments /\ payments[i].id = h
    BY <1>4 DEF Paid, PaymentOf, PaymentsOf
  <2>2. Claim(h, payments[i].tx) \in Owed
    BY <2>1 DEF SettledOnce, PaymentsTrue
  <2>3. PaidFor[h] = payments[i].tx.amount
    BY <1>1, <1>4, <2>1 DEF PaidFor, PaidTerms
  <2> HIDE DEF i
  <2>4. PICK tx \in Deposited, sender \in StellarAddress :
          tx.hash = h /\ payments[i].tx.amount = SentBy(tx, sender)
    BY <2>2 DEF Owed, Claim
  <2> QED
    BY <1>1, <2>3, <2>4, WithinDeposit
<1>5. /\ ~Minted(h) => MintedTerms[h] = 0
      /\ ~Paid(h) => PaidFor[h] = 0
  BY <1>1 DEF MintedTerms, Minted, PaidFor
<1> QED
  BY <1>1, <1>2, <1>3, <1>4, <1>5
-----------------------------------------------------------------------------
(* And what all of them do. *)

\* The hashes and the ids are finitely many, and are ids of mints.
LEMMA FiniteIds ==
    ASSUME IsFiniteSet(MintId), BridgeTerms
    PROVE  /\ Ids \subseteq MintId /\ IsFiniteSet(Ids) /\ IsFiniteSet(BurnId)
           /\ IsFiniteSet(Open) /\ Open \subseteq Ids
           /\ IsFiniteSet(DOMAIN account_txs) /\ IsFiniteSet(DOMAIN payments)
<1>1. Ids \subseteq MintId /\ Open \subseteq BurnId /\ BurnId \subseteq Ids
  BY WithdrawAssumption, DepositAssumption DEF Ids, Open
<1>2. IsFiniteSet(Ids) /\ IsFiniteSet(BurnId) /\ IsFiniteSet(Open)
  BY <1>1, BurnIdFinite, FS_Subset
<1>3. /\ DOMAIN account_txs = 1..Len(account_txs) /\ Len(account_txs) \in Nat
      /\ DOMAIN payments = 1..Len(payments) /\ Len(payments) \in Nat
  BY DEF BridgeTerms, StreamShape, DepositTypeOK, StellarShape, AccountShape
<1>4. IsFiniteSet(DOMAIN account_txs) /\ IsFiniteSet(DOMAIN payments)
  BY <1>3, FS_Interval
<1> QED
  BY <1>1, <1>2, <1>4

\* The amounts that each of the ids stands for.
LEMMA SharesAreAmounts ==
    ASSUME IsFiniteSet(MintId), IsFiniteSet(StellarAddress), BridgeTerms, NEW e \in Ids
    PROVE  /\ MintedTerms[e] \in Nat /\ PaidFor[e] \in Nat /\ OwedFor[e] \in Nat
           /\ BurnedFor[e] \in Nat /\ DepositedFor[e] \in Nat
<1>1. MintedTerms[e] \in Nat /\ OwedFor[e] \in Nat /\ BurnedFor[e] \in Nat
  BY FiniteIds, TermsAreAmounts DEF OwedFor, BurnedFor
<1>2. PaidFor[e] \in Nat
  <2>1. Paid(e) => PaymentOf(e) \in DOMAIN payments
    BY DEF Paid, PaymentOf, PaymentsOf
  <2> QED
    BY <2>1, TermsAreAmounts DEF PaidFor
<1>3. DepositedFor[e] \in Nat
  <2>1. (\E tx \in Deposited : tx.hash = e) => PlaceOf(e) \in DOMAIN account_txs
    BY DEF Deposited, PlaceOf
  <2> QED
    BY <2>1, TermsAreAmounts DEF DepositedFor
<1> QED
  BY <1>1, <1>2, <1>3

\* All that was minted, paid or is owed is of some id, and no two are of one.
LEMMA TakenOut ==
    ASSUME IsFiniteSet(MintId), IsFiniteSet(StellarAddress), SettledOnce
    PROVE  /\ MintedTotal <= SumOver(MintedTerms, Ids)
           /\ PaidTotal <= SumOver(PaidFor, Ids)
           /\ OwedTotal <= SumOver(OwedFor, Ids)
<1>1. /\ BridgeTerms /\ MintsKnown
      /\ Ids \subseteq MintId /\ IsFiniteSet(Ids) /\ IsFiniteSet(Open)
      /\ Open \subseteq Ids /\ IsFiniteSet(DOMAIN payments)
  BY FiniteIds DEF SettledOnce
<1>2. /\ \A e \in Ids : /\ MintedTerms[e] \in Nat /\ PaidFor[e] \in Nat
                        /\ OwedFor[e] \in Nat
      /\ \A i \in DOMAIN payments : PaidTerms[i] \in Nat
      /\ \A id \in Open : OwedTerms[id] \in Nat
      /\ \A m \in MintId : MintedTerms[m] \in Nat
  BY <1>1, SharesAreAmounts, TermsAreAmounts
<1>3. MintedTotal <= SumOver(MintedTerms, Ids)
  <2> DEFINE itself == [m \in MintId |-> m]
  <2>1. \A m \in MintId : MintedTerms[m] # 0 => m \in Ids /\ itself[m] = m
    BY <1>1 DEF MintsKnown, Minted, MintedTerms, Ids
  <2>2. \A m, n \in MintId : itself[m] = itself[n] => m = n
    OBVIOUS
  <2> HIDE DEF itself
  <2>3. SumOver(MintedTerms, MintId) <= SumOver(MintedTerms, Ids)
    BY <1>1, <1>2, <2>1, <2>2, SumInto
  <2> QED
    BY <2>3, MintedIsSum
<1>4. PaidTotal <= SumOver(PaidFor, Ids)
  <2> DEFINE whose == [i \in DOMAIN payments |-> payments[i].id]
  <2>1. ASSUME NEW i \in DOMAIN payments
        PROVE  /\ whose[i] \in Ids /\ i \in PaymentsOf(whose[i])
               /\ PaidTerms[i] = PaidFor[whose[i]]
    <3> DEFINE Payment == [id : BurnId \cup RefundHash, tx : PaymentTx]
    <3>1. payments \in Seq(Payment)
      BY <1>1 DEF BridgeTerms, StellarShape, AccountShape
    <3> HIDE DEF Payment
    <3>2. payments[i] \in Payment
      BY <3>1
    <3>3. whose[i] \in Ids /\ i \in PaymentsOf(whose[i])
      BY <3>2 DEF Payment, Ids, PaymentsOf
    <3> HIDE DEF whose
    <3>4. PaymentOf(whose[i]) = i /\ Paid(whose[i])
      BY <3>3, TheOnlyPayment DEF Paid
    <3> QED
      BY <3>3, <3>4 DEF PaidFor
  <2> HIDE DEF whose
  <2>2. \A i, j \in DOMAIN payments : whose[i] = whose[j] => i = j
    BY <2>1 DEF SettledOnce, PaysOnce
  <2>3. \A i \in DOMAIN payments : PaidTerms[i] <= PaidFor[whose[i]]
    BY <1>2, <2>1
  <2>4. SumOver(PaidTerms, DOMAIN payments) <= SumOver(PaidFor, Ids)
    BY <1>1, <1>2, <2>1, <2>2, <2>3, SumInto
  <2> QED
    BY <1>1, <2>4, PaidIsSum
<1>5. OwedTotal <= SumOver(OwedFor, Ids)
  <2> DEFINE itself == [id \in Open |-> id]
  <2>1. \A id \in Open : /\ itself[id] = id /\ itself[id] \in Ids
                         /\ OwedTerms[id] <= OwedFor[itself[id]]
    BY <1>1, <1>2 DEF OwedFor
  <2>2. \A m, n \in Open : itself[m] = itself[n] => m = n
    OBVIOUS
  <2> HIDE DEF itself
  <2>3. SumOver(OwedTerms, Open) <= SumOver(OwedFor, Ids)
    BY <1>1, <1>2, <2>1, <2>2, SumInto
  <2> QED
    BY <2>3, OwedIsSum
<1> QED
  BY <1>3, <1>4, <1>5

\* And what the ids bring in is not more than was burned and deposited.
LEMMA BroughtIn ==
    ASSUME IsFiniteSet(MintId), IsFiniteSet(StellarAddress), SettledOnce
    PROVE  /\ SumOver(BurnedFor, Ids) <= BurnedTotal
           /\ SumOver(DepositedFor, Ids) <= DepositedTotal
<1>1. /\ BridgeTerms
      /\ Ids \subseteq MintId /\ IsFiniteSet(Ids) /\ IsFiniteSet(BurnId)
      /\ IsFiniteSet(DOMAIN account_txs)
  BY FiniteIds DEF SettledOnce
<1>2. /\ \A e \in Ids : BurnedFor[e] \in Nat /\ DepositedFor[e] \in Nat
      /\ \A id \in BurnId : BurnedTerms[id] \in Nat
      /\ \A i \in DOMAIN account_txs : DepositTerms[i] \in Nat
  BY <1>1, SharesAreAmounts, TermsAreAmounts
<1>3. SumOver(BurnedFor, Ids) <= BurnedTotal
  <2> DEFINE itself == [e \in Ids |-> e]
  <2>1. \A e \in Ids : BurnedFor[e] # 0
          => itself[e] \in BurnId /\ BurnedFor[e] <= BurnedTerms[itself[e]]
    BY <1>2 DEF BurnedFor
  <2>2. \A e, f \in Ids : itself[e] = itself[f] => e = f
    OBVIOUS
  <2> HIDE DEF itself
  <2>3. SumOver(BurnedFor, Ids) <= SumOver(BurnedTerms, BurnId)
    BY <1>1, <1>2, <2>1, <2>2, SumInto
  <2> QED
    BY <2>3, BurnedIsSum
<1>4. SumOver(DepositedFor, Ids) <= DepositedTotal
  <2> DEFINE place == [e \in Ids |-> PlaceOf(e)]
  <2>1. ASSUME NEW e \in Ids, DepositedFor[e] # 0
        PROVE  /\ place[e] \in DOMAIN account_txs /\ account_txs[place[e]].hash = e
               /\ DepositedFor[e] = DepositTerms[place[e]]
    <3>1. e \notin BurnId /\ \E tx \in Deposited : tx.hash = e
      BY <2>1 DEF DepositedFor
    <3>2. PlaceOf(e) \in DOMAIN account_txs /\ account_txs[PlaceOf(e)].hash = e
      BY <3>1 DEF Deposited, PlaceOf
    <3> QED
      BY <3>1, <3>2 DEF DepositedFor
  <2> HIDE DEF place
  <2>2. \A e, f \in Ids :
          DepositedFor[e] # 0 /\ DepositedFor[f] # 0 /\ place[e] = place[f] => e = f
    BY <2>1
  <2>3. \A e \in Ids : DepositedFor[e] # 0
          => /\ place[e] \in DOMAIN account_txs
             /\ DepositedFor[e] <= DepositTerms[place[e]]
    BY <1>2, <2>1
  <2>4. SumOver(DepositedFor, Ids) <= SumOver(DepositTerms, DOMAIN account_txs)
    BY <1>1, <1>2, <2>2, <2>3, SumInto
  <2> QED
    BY <1>1, <2>4, DepositedIsSum
<1> QED
  BY <1>3, <1>4

\* So what was minted, paid and is owed was burned or deposited.
LEMMA TotalsBalance ==
    ASSUME IsFiniteSet(MintId), IsFiniteSet(StellarAddress), IdsDiffer, SettledOnce
    PROVE  /\ MintedTotal + PaidTotal + OwedTotal <= BurnedTotal + DepositedTotal
           /\ MintedTotal \in Nat /\ PaidTotal \in Nat /\ OwedTotal \in Nat
           /\ BurnedTotal \in Nat /\ DepositedTotal \in Nat
<1> DEFINE out == [e \in Ids |-> MintedTerms[e] + PaidFor[e]]
           all == [e \in Ids |-> out[e] + OwedFor[e]]
           in == [e \in Ids |-> BurnedFor[e] + DepositedFor[e]]
           itself == [e \in Ids |-> e]
<1>1. /\ BridgeTerms /\ IsFiniteSet(Ids) /\ IsFiniteSet(BurnId) /\ IsFiniteSet(Open)
      /\ IsFiniteSet(DOMAIN account_txs) /\ IsFiniteSet(DOMAIN payments)
  BY FiniteIds DEF SettledOnce
<1>2. \A e \in Ids : /\ MintedTerms[e] \in Nat /\ PaidFor[e] \in Nat
                     /\ OwedFor[e] \in Nat /\ BurnedFor[e] \in Nat
                     /\ DepositedFor[e] \in Nat
  BY <1>1, SharesAreAmounts
<1>3. \A e \in Ids : out[e] \in Nat /\ all[e] \in Nat /\ in[e] \in Nat
  BY <1>2
<1>4. \A e \in Ids : itself[e] \in Ids /\ all[e] <= in[itself[e]]
  <2>1. \A e \in Ids : MintedTerms[e] + PaidFor[e] + OwedFor[e]
                         <= BurnedFor[e] + DepositedFor[e]
    BY BurnSettled, DepositSettled DEF Ids
  <2> QED
    BY <2>1
<1>5. \A e, f \in Ids : itself[e] = itself[f] => e = f
  OBVIOUS
<1>6. /\ \A e \in Ids : out[e] = MintedTerms[e] + PaidFor[e]
      /\ \A e \in Ids : all[e] = out[e] + OwedFor[e]
      /\ \A e \in Ids : in[e] = BurnedFor[e] + DepositedFor[e]
  OBVIOUS
<1> HIDE DEF out, all, in, itself
<1>7. SumOver(all, Ids) <= SumOver(in, Ids)
  BY <1>1, <1>3, <1>4, <1>5, SumInto
<1>8. SumOver(out, Ids) = SumOver(MintedTerms, Ids) + SumOver(PaidFor, Ids)
  BY <1>1, <1>2, <1>6, SumAdds
<1>9. SumOver(all, Ids) = SumOver(out, Ids) + SumOver(OwedFor, Ids)
  BY <1>1, <1>2, <1>3, <1>6, SumAdds
<1>10. SumOver(in, Ids) = SumOver(BurnedFor, Ids) + SumOver(DepositedFor, Ids)
  BY <1>1, <1>2, <1>6, SumAdds
<1>11. /\ SumOver(MintedTerms, Ids) \in Nat /\ SumOver(PaidFor, Ids) \in Nat
       /\ SumOver(OwedFor, Ids) \in Nat /\ SumOver(BurnedFor, Ids) \in Nat
       /\ SumOver(DepositedFor, Ids) \in Nat
  BY <1>1, <1>2, SumIsNat
<1>12. /\ MintedTotal \in Nat /\ PaidTotal \in Nat /\ OwedTotal \in Nat
       /\ BurnedTotal \in Nat /\ DepositedTotal \in Nat
  BY <1>1, TermsAreAmounts, SumIsNat, MintedIsSum, PaidIsSum, OwedIsSum, BurnedIsSum,
     DepositedIsSum
<1> QED
  BY <1>7, <1>8, <1>9, <1>10, <1>11, <1>12, TakenOut, BroughtIn

\* With the tokens of tfchain backed, the account on Stellar holds what it has to.
LEMMA BackedIsSolvent ==
    ASSUME IsFiniteSet(MintId), IsFiniteSet(StellarAddress), IdsDiffer, SettledOnce,
           Backed
    PROVE  Solvent
<1>1. TypeOK
  BY DEF SettledOnce, BridgeTerms
<1>2. TotalBalance(balances) \in Nat /\ TotalBalance(GenesisBalance) \in Nat
  <2>1. /\ \A a \in Account : balances[a] \in Nat /\ GenesisBalance[a] \in Nat
        /\ IsFiniteSet(Account)
    BY <1>1, PalletAssumption DEF TypeOK
  <2> QED
    BY <2>1, TotalIsSum, SumIsNat
<1> QED
  BY <1>2, TotalsBalance DEF Backed, Solvent

\* Nothing breaks, no call is done and reports an error, and no daemon rescans.
NothingBreaks == \A f \in Faults : f.breaks = 0 /\ ~f.lossy /\ ~f.rescan

\* As long as no daemon breaks, rescans or repeats a vote, and nothing has expired,
\* the bridge account holds on Stellar all that the accounts hold on tfchain and all
\* that swaps wait to be paid, although mints, refunds and payments are decided by
\* daemons that do not know of each other (mint.go:67, withdraw.go:27, lib.rs:600):
\* for any daemons, deposits, burns and fees, if any two quorums have a daemon in
\* common and a transaction is handled once.
THEOREM BridgeIsSolvent ==
    ASSUME IsFiniteSet(MintId), IsFiniteSet(StellarAddress), CallsAreFree, IdsDiffer,
           QuorumsMeet, SignaturesMeet, HandledOnce
    PROVE  BridgeSpec => [](Still => Solvent)
<1>0. IsFiniteSet(RefundHash)
  BY DepositAssumption, FS_Subset
<1>1. BridgeSpec => []BridgeTerms /\ []SignersDistinct /\ []Backed
  BY <1>0, BridgeTermsInvariant, BridgeImplementsPallet, SignersAreDistinct,
     BackedInTheBridge, PTL
<1> DEFINE Inv == /\ OneWay /\ DepositsOneWay /\ PaidInRounds
                  /\ PaymentsTrue /\ MintsKnown
<1>2. DepositInit => Inv
  BY OneWayInit, DepositsOneWayInit, PaidInRoundsInit, PaymentsTrueInit
<1>3. Inv /\ BridgeTerms /\ BridgeTerms' /\ SignersDistinct /\ [BridgeNext]_bridgeVars
        => Inv'
  <2>1. DepositsOneWay => AccountInOrder
    BY DEF DepositsOneWay
  <2> QED
    BY <1>0, <2>1, OneWayStep, DepositsOneWayStep, PaidInRoundsStep, PaymentsTrueStep,
       MintsKnownStep
<1>4. Inv /\ BridgeTerms /\ Backed => (Still => Solvent)
  <2>1. (\A id \in DOMAIN rounds : rounds[id] = 0) \/ Solvent
    BY DEF Solvent
  <2> QED
    BY <2>1, AllSettledOnce, BackedIsSolvent
<1> HIDE DEF Inv
<1> QED
  BY <1>1, <1>2, <1>3, <1>4, PTL DEF BridgeSpec

\* And so without faults it always does, as long as nothing expires.
THEOREM BridgeIsSolventWithoutFaults ==
    ASSUME IsFiniteSet(MintId), IsFiniteSet(StellarAddress), CallsAreFree, IdsDiffer,
           QuorumsMeet, SignaturesMeet, HandledOnce, NothingBreaks
    PROVE  BridgeSpec => []Solvent
<1>0. IsFiniteSet(RefundHash)
  BY DepositAssumption, FS_Subset
<1>1. BridgeTerms => Still
  BY DEF BridgeTerms, FaultsShape, NothingBreaks, Still, Quiet
<1> QED
  BY <1>0, <1>1, BridgeTermsInvariant, BridgeIsSolvent, PTL
=============================================================================
