------------------------ MODULE BridgeWithdrawProofs ------------------------
(***************************************************************************)
(* Swaps are paid at most once per round of signatures (PaidOncePerRound),  *)
(* for any number of daemons, swaps, blocks, crashes and lost replies.      *)
(*                                                                         *)
(* The argument: all signatures that Stellar verifies are over one and the  *)
(* same transaction, so a payment has the sequence number that the first    *)
(* signature of its burn was made for.  That first signature changes only   *)
(* when the burn expires, and the account uses a number once.               *)
(***************************************************************************)
EXTENDS BridgeWithdraw, FiniteSetTheorems, TLAPS

\* None is not a record with signatures.
NoneAssumption == "signatures" \notin DOMAIN None

\* The sequence number that the first of some signatures was made for.
NumberOf(signatures) == signatures[1].signature[2].seqno

\* The signatures of a burn, pending or executed.
SignaturesOf(id) ==
    IF burn_transactions[id] # None THEN burn_transactions[id].signatures
    ELSE IF executed_burn_transactions[id] # None
    THEN executed_burn_transactions[id].signatures
    ELSE <<>>

\* The number that can be used in the present round.
Current(id) ==
    IF SignaturesOf(id) = <<>> THEN {} ELSE {NumberOf(SignaturesOf(id))}

\* The numbers of the payments that daemons are about to submit.
Held(id) ==
    {NumberOf(job[d].signatures) :
       d \in {e \in Daemon : job[e].pc = "submit" /\ job[e].id = id}}

-----------------------------------------------------------------------------
(* The inductive invariant. *)

IsSeq(s) == \E S : s \in Seq(S)

IsBurn(tx) ==
    tx # None => {"signatures", "sequence_number", "block"} \subseteq DOMAIN tx
                 /\ IsSeq(tx.signatures)

\* The maps have their domains, and ids not handed out are free.
BurnShape ==
    /\ DOMAIN burn_transactions = BurnId
    /\ DOMAIN executed_burn_transactions = BurnId
    /\ burn_transaction_id \in Nat
    /\ \A id \in BurnId :
         /\ IsBurn(burn_transactions[id])
         /\ id > burn_transaction_id =>
              /\ burn_transactions[id] = None
              /\ executed_burn_transactions[id] = None

\* What a daemon does once its call is done: never a submission, of which a
\* daemon has to fetch the signatures first.
Quiet(todo) ==
    /\ todo.pc \in {"idle", "down", "fetch_burn", "propose_burn",
                    "set_burn_executed"}
    /\ todo.pc \in {"propose_burn", "set_burn_executed"} => todo.then = Idle

JobOK(todo) ==
    \/ Quiet(todo)
    \/ /\ todo.pc \in {"propose_mint", "submit"}
       /\ todo.then.pc = "set_burn_executed" /\ todo.then.then = Idle

JobShape == DOMAIN job = Daemon /\ \A d \in Daemon : JobOK(job[d])

\* The payment with number n is the n-th.
AccountShape ==
    /\ IsSeq(payments)
    /\ account_seq = Len(payments)
    /\ \A i \in DOMAIN payments : payments[i].tx.seqno = i

RoundsShape == rounds \in [BurnId -> Nat]

\* Some numbers P of earlier rounds, not more than there were rounds, and the
\* present one are all that the burn was, or can be, paid with.
PaidWith(id, P) ==
    /\ IsFiniteSet(P) /\ Cardinality(P) <= rounds[id]
    /\ PaymentsOf(id) \subseteq P \cup Current(id)
    /\ Held(id) \subseteq P \cup Current(id)

RoundInvariant ==
    /\ BurnShape /\ JobShape /\ AccountShape /\ RoundsShape
    /\ \A id \in BurnId : \E P : PaidWith(id, P)

-----------------------------------------------------------------------------
(* Sequences. *)

\* A signature that is added leaves the first one as it was.
LEMMA AppendKeepsFirst ==
    ASSUME NEW s, NEW x, IsSeq(s)
    PROVE  /\ IsSeq(Append(s, x))
           /\ Append(s, x) # <<>>
           /\ s # <<>> => Append(s, x)[1] = s[1]
<1>1. PICK S : s \in Seq(S)
  BY DEF IsSeq
<1> DEFINE T == S \cup {x}
<1>2. s \in Seq(T)
  BY <1>1
<1>3. Append(s, x) \in Seq(T) /\ Len(Append(s, x)) = Len(s) + 1
  BY <1>2
<1>4. s # <<>> => Append(s, x)[1] = s[1]
  BY <1>2
<1> QED
  BY <1>3, <1>4 DEF IsSeq

\* A payment that is appended leaves the others at their places.
LEMMA AppendAddsLast ==
    ASSUME NEW s, NEW x, IsSeq(s)
    PROVE  /\ IsSeq(Append(s, x))
           /\ Len(s) \in Nat /\ Len(Append(s, x)) = Len(s) + 1
           /\ DOMAIN s = 1..Len(s)
           /\ DOMAIN Append(s, x) = 1..(Len(s) + 1)
           /\ \A i \in DOMAIN s : Append(s, x)[i] = s[i]
           /\ Append(s, x)[Len(s) + 1] = x
<1>1. PICK S : s \in Seq(S)
  BY DEF IsSeq
<1> DEFINE T == S \cup {x}
<1>2. s \in Seq(T)
  BY <1>1
<1>3. Append(s, x) \in Seq(T)
  BY <1>2
<1> QED
  BY <1>2, <1>3 DEF IsSeq

-----------------------------------------------------------------------------
(* The burns and their rounds. *)

\* What a step does to a burn: its first signature stays, or a round ends.
BurnStep(id) ==
    \/ rounds'[id] = rounds[id] /\ Current(id) \subseteq Current(id)'
    \/ rounds'[id] = rounds[id] + 1

\* A step that touches no burn.
LEMMA BurnsLeftAlone ==
    ASSUME BurnShape, RoundsShape,
           UNCHANGED <<burn_transactions, executed_burn_transactions,
                       burn_transaction_id, rounds>>
    PROVE  BurnShape' /\ RoundsShape' /\ \A id \in BurnId : BurnStep(id)
BY DEF BurnShape, RoundsShape, BurnStep, Current, SignaturesOf, IsBurn

\* A new burn has no signature, and its id was free (burn_tft).
LEMMA SwapStep ==
    ASSUME NoneAssumption, MaxBurnId \in Nat, BurnShape, RoundsShape,
           NEW target, NEW amount, Swap(target, amount)
    PROVE  BurnShape' /\ RoundsShape' /\ \A id \in BurnId : BurnStep(id)
<1> DEFINE new == burn_transaction_id + 1
           tx == [block |-> block, amount |-> BurnedAmount(amount),
                  target |-> target, signatures |-> <<>>, sequence_number |-> 0]
<1>1. /\ new \in BurnId
      /\ burn_transaction_id' = new
      /\ burn_transactions' = [burn_transactions EXCEPT ![new] = tx]
      /\ UNCHANGED <<executed_burn_transactions, rounds>>
  BY DEF Swap, SwapToStellar, NextBurnId, faultVars
<1>2. tx.signatures = <<>> /\ IsBurn(tx)
  <2>1. <<>> \in Seq({})
    OBVIOUS
  <2> QED
    BY <2>1 DEF IsBurn, IsSeq
<1>3. BurnShape'
  <2>1. DOMAIN burn_transactions' = BurnId
    BY <1>1 DEF BurnShape
  <2>2. ASSUME NEW id \in BurnId
        PROVE  /\ IsBurn(burn_transactions'[id])
               /\ id > new => /\ burn_transactions'[id] = None
                              /\ executed_burn_transactions'[id] = None
    <3> HIDE DEF tx
    <3>1. CASE id = new
      BY <1>1, <1>2, <3>1 DEF BurnShape, BurnId
    <3>2. CASE id # new
      BY <1>1, <3>2 DEF BurnShape, BurnId
    <3> QED
      BY <3>1, <3>2
  <2> HIDE DEF tx
  <2> QED
    BY <1>1, <2>1, <2>2 DEF BurnShape, IsBurn
<1>4. ASSUME NEW id \in BurnId
      PROVE  BurnStep(id)
  <2>1. CASE id = new
    <3>1. burn_transactions[id] = None /\ executed_burn_transactions[id] = None
      BY <1>1, <2>1 DEF BurnShape, BurnId
    <3>2. Current(id) = {}
      BY <3>1 DEF Current, SignaturesOf
    <3> QED
      BY <1>1, <3>2 DEF BurnStep
  <2>2. CASE id # new
    <3> HIDE DEF tx
    <3>1. burn_transactions'[id] = burn_transactions[id]
      BY <1>1, <2>2 DEF BurnShape
    <3>2. SignaturesOf(id)' = SignaturesOf(id)
      BY <1>1, <3>1 DEF SignaturesOf
    <3> QED
      BY <1>1, <3>2 DEF BurnStep, Current
  <2> QED
    BY <2>1, <2>2
<1> QED
  BY <1>1, <1>3, <1>4 DEF RoundsShape

\* A signature that is added is never the first of a burn that has one
\* (add_stellar_sig_burn_transaction).
LEMMA ProposeStep ==
    ASSUME NoneAssumption, BurnShape, RoundsShape, UNCHANGED rounds,
           NEW validator, NEW burn_id, NEW target, NEW amount, NEW signature,
           NEW key, NEW seqno,
           ProposeBurnOrAddSig(validator, burn_id, target, amount, signature,
                               key, seqno)
    PROVE  BurnShape' /\ RoundsShape' /\ \A id \in BurnId : BurnStep(id)
<1> DEFINE found == burn_transactions[burn_id]
           tx == WithSignature(found, signature, key, seqno)
           added == [stellar_pub_key |-> key, signature |-> signature]
<1>1. /\ found # None /\ executed_burn_transactions[burn_id] = None
      /\ burn_transactions' = [burn_transactions EXCEPT ![burn_id] = tx]
      /\ UNCHANGED <<executed_burn_transactions, burn_transaction_id>>
  BY DEF ProposeBurnOrAddSig
<1>2. ASSUME burn_id \in BurnId
      PROVE  /\ IsBurn(tx) /\ tx # None
             /\ tx.signatures # <<>>
             /\ found.signatures # <<>> =>
                  NumberOf(tx.signatures) = NumberOf(found.signatures)
  <2>1. /\ {"signatures", "sequence_number", "block"} \subseteq DOMAIN found
        /\ IsSeq(found.signatures)
    BY <1>1, <1>2 DEF BurnShape, IsBurn
  <2>2. /\ DOMAIN tx = DOMAIN found
        /\ tx.signatures = Append(found.signatures, added)
    BY <2>1 DEF WithSignature
  <2>3. tx # None
    BY <2>1, <2>2 DEF NoneAssumption
  <2> QED
    BY <2>1, <2>2, <2>3, AppendKeepsFirst DEF IsBurn, NumberOf
<1> HIDE DEF tx
<1>3. BurnShape'
  <2>1. DOMAIN burn_transactions' = BurnId
    BY <1>1 DEF BurnShape
  <2>2. ASSUME NEW id \in BurnId
        PROVE  /\ IsBurn(burn_transactions'[id])
               /\ id > burn_transaction_id => /\ burn_transactions'[id] = None
                                              /\ executed_burn_transactions'[id] = None
    BY <1>1, <1>2 DEF BurnShape
  <2> QED
    BY <1>1, <2>1, <2>2 DEF BurnShape, IsBurn
<1>4. ASSUME NEW id \in BurnId
      PROVE  Current(id) \subseteq Current(id)'
  <2>1. CASE id = burn_id
    <3>1. burn_transactions'[id] = tx
      BY <1>1, <2>1 DEF BurnShape
    <3>2. SignaturesOf(id) = found.signatures
      BY <1>1, <2>1 DEF SignaturesOf
    <3>3. SignaturesOf(id)' = tx.signatures
      BY <1>2, <2>1, <3>1 DEF SignaturesOf
    <3> QED
      BY <1>2, <2>1, <3>2, <3>3 DEF Current
  <2>2. CASE id # burn_id
    BY <1>1, <2>2 DEF BurnShape, Current, SignaturesOf
  <2> QED
    BY <2>1, <2>2
<1> QED
  BY <1>3, <1>4 DEF RoundsShape, BurnStep

\* The record moves to the other map as it is (set_stellar_burn_transaction_executed).
LEMMA SetExecutedStep ==
    ASSUME BurnShape, RoundsShape, UNCHANGED rounds,
           NEW validator, NEW burn_id, SetBurnExecuted(validator, burn_id)
    PROVE  BurnShape' /\ RoundsShape' /\ \A id \in BurnId : BurnStep(id)
<1>1. /\ burn_transactions[burn_id] # None
      /\ burn_transactions' = [burn_transactions EXCEPT ![burn_id] = None]
      /\ executed_burn_transactions' =
           [executed_burn_transactions EXCEPT ![burn_id] = burn_transactions[burn_id]]
      /\ UNCHANGED burn_transaction_id
  BY DEF SetBurnExecuted, Without
<1>2. BurnShape'
  <2>1. /\ DOMAIN burn_transactions' = BurnId
        /\ DOMAIN executed_burn_transactions' = BurnId
    BY <1>1 DEF BurnShape
  <2>2. ASSUME NEW id \in BurnId
        PROVE  /\ IsBurn(burn_transactions'[id])
               /\ id > burn_transaction_id => /\ burn_transactions'[id] = None
                                              /\ executed_burn_transactions'[id] = None
    <3>1. CASE id = burn_id
      BY <1>1, <3>1 DEF BurnShape, IsBurn
    <3>2. CASE id # burn_id
      BY <1>1, <3>2 DEF BurnShape
    <3> QED
      BY <3>1, <3>2
  <2> QED
    BY <1>1, <2>1, <2>2 DEF BurnShape, IsBurn
<1>3. ASSUME NEW id \in BurnId
      PROVE  SignaturesOf(id)' = SignaturesOf(id)
  <2>1. CASE id = burn_id
    BY <1>1, <2>1 DEF BurnShape, SignaturesOf
  <2>2. CASE id # burn_id
    BY <1>1, <2>2 DEF BurnShape, SignaturesOf
  <2> QED
    BY <2>1, <2>2
<1> QED
  BY <1>2, <1>3 DEF RoundsShape, BurnStep, Current

\* A burn that expires begins a new round (on_finalize).
LEMMA EndBlockBurnStep ==
    ASSUME NoneAssumption, RefundHash = {}, BurnShape, RoundsShape, EndBlock
    PROVE  BurnShape' /\ RoundsShape' /\ \A id \in BurnId : BurnStep(id)
<1>1. /\ burn_transactions' =
           [id \in BurnId |-> IF id \in ExpiredBurns
                              THEN Reset(burn_transactions[id])
                              ELSE burn_transactions[id]]
      /\ UNCHANGED <<executed_burn_transactions, burn_transaction_id>>
      /\ rounds' = [e \in BurnId |-> IF e \in ExpiredBurns
                                     THEN rounds[e] + 1 ELSE rounds[e]]
  BY DEF EndBlock, FinalizeBlock, ExpiredRefunds, RoundsShape
<1>2. RoundsShape'
  BY <1>1 DEF RoundsShape
<1>3. ASSUME NEW id \in ExpiredBurns
      PROVE  burn_transactions[id] # None /\ IsBurn(Reset(burn_transactions[id]))
  <2>1. /\ id \in BurnId
        /\ burn_transactions[id] # None
        /\ IsBurn(burn_transactions[id])
    BY DEF ExpiredBurns, Expires, BurnShape
  <2>2. Reset(burn_transactions[id]).signatures = <<>>
    BY <2>1 DEF IsBurn, Reset
  <2>3. DOMAIN Reset(burn_transactions[id]) = DOMAIN burn_transactions[id]
    BY DEF Reset
  <2>4. <<>> \in Seq({})
    OBVIOUS
  <2> QED
    BY <2>1, <2>2, <2>3, <2>4 DEF IsBurn, IsSeq
<1>4. BurnShape'
  <2>1. ASSUME NEW id \in BurnId
        PROVE  /\ IsBurn(burn_transactions'[id])
               /\ id > burn_transaction_id => /\ burn_transactions'[id] = None
                                              /\ executed_burn_transactions'[id] = None
    BY <1>1, <1>3 DEF BurnShape
  <2> QED
    BY <1>1, <2>1 DEF BurnShape, IsBurn
<1>5. ASSUME NEW id \in BurnId
      PROVE  BurnStep(id)
  <2>1. CASE id \in ExpiredBurns
    BY <1>1, <2>1 DEF BurnStep
  <2>2. CASE id \notin ExpiredBurns
    BY <1>1, <2>2 DEF BurnStep, Current, SignaturesOf, RoundsShape
  <2> QED
    BY <2>1, <2>2
<1> QED
  BY <1>2, <1>4, <1>5

\* Every step.
LEMMA BurnsStep ==
    ASSUME NoneAssumption, PalletAssumption, RefundHash = {},
           BurnShape, RoundsShape, [WithdrawNext]_daemonVars
    PROVE  BurnShape' /\ RoundsShape' /\ \A id \in BurnId : BurnStep(id)
<1> DEFINE AllSteps == BurnShape' /\ RoundsShape' /\ \A id \in BurnId : BurnStep(id)
           Alone == UNCHANGED <<burn_transactions, executed_burn_transactions,
                                burn_transaction_id, rounds>>
<1>1. ASSUME NEW target \in StellarAddress, NEW amount \in Amount,
             Swap(target, amount)
      PROVE  AllSteps
  BY <1>1, SwapStep DEF PalletAssumption
<1>2. CASE EndBlock
  BY <1>2, EndBlockBurnStep
<1>3. ASSUME NEW d \in Daemon, HandleWithdraw(d)
      PROVE  AllSteps
  <2>1. Alone
    BY <1>3 DEF HandleWithdraw, HandleWithdrawCreated, HandleBadWithdraw,
                HandleWithdrawExpired, HandleWithdrawReady, FetchBurn, Takes,
                palletVars, burnVars, faultVars
  <2> QED
    BY <2>1, BurnsLeftAlone
<1>4. ASSUME NEW d \in Daemon, Submit(d) \/ Crash(d) \/ Restart(d)
      PROVE  AllSteps
  <2>1. Alone
    BY <1>4 DEF Submit, Crash, Restart, palletVars, burnVars, faultVars
  <2> QED
    BY <2>1, BurnsLeftAlone
<1>5. ASSUME NEW d \in Daemon, RetryProposeWithdrawOrAddSig(d)
      PROVE  AllSteps
  <2> DEFINE tx == job[d].tx
  <2>1. UNCHANGED rounds
    BY <1>5 DEF RetryProposeWithdrawOrAddSig, Retries, faultVars
  <2>2. CASE ProposeBurnOrAddSig(d, job[d].id, tx.target, tx.amount,
                                 SignatureOf(KeyOf[d], tx), KeyOf[d], tx.seqno)
    BY <2>1, <2>2, ProposeStep
  <2>3. CASE UNCHANGED palletVars
    BY <2>1, <2>3, BurnsLeftAlone DEF palletVars, burnVars
  <2> QED
    BY <1>5, <2>2, <2>3 DEF RetryProposeWithdrawOrAddSig, Retries
<1>6. ASSUME NEW d \in Daemon, RetrySetWithdrawExecuted(d)
      PROVE  AllSteps
  <2>1. UNCHANGED rounds
    BY <1>6 DEF RetrySetWithdrawExecuted, Retries, faultVars
  <2>2. CASE SetBurnExecuted(d, job[d].id)
    BY <2>1, <2>2, SetExecutedStep
  <2>3. CASE UNCHANGED palletVars
    BY <2>1, <2>3, BurnsLeftAlone DEF palletVars, burnVars
  <2> QED
    BY <1>6, <2>2, <2>3 DEF RetrySetWithdrawExecuted, Retries
<1>7. ASSUME NEW d \in Daemon, RetryProposeMintOrVote(d)
      PROVE  AllSteps
  <2>1. Alone
    BY <1>7 DEF RetryProposeMintOrVote, Retries, ProposeOrVoteMint, palletVars,
                burnVars, faultVars
  <2> QED
    BY <2>1, BurnsLeftAlone
<1>8. CASE UNCHANGED daemonVars
  <2>1. Alone
    BY <1>8 DEF daemonVars, palletVars, burnVars, faultVars
  <2> QED
    BY <2>1, BurnsLeftAlone
<1> QED
  BY <1>1, <1>2, <1>3, <1>4, <1>5, <1>6, <1>7, <1>8 DEF WithdrawNext, CallWithdraw

-----------------------------------------------------------------------------
(* The daemons and the account. *)

\* A daemon gets something to do that is no submission.
Turns(d, todo) ==
    /\ job' = [job EXCEPT ![d] = todo]
    /\ JobOK(todo) /\ todo.pc # "submit"
    /\ UNCHANGED <<payments, account_seq>>

\* Handlers that do not fetch a burn.
LEMMA HandlerTurns ==
    ASSUME NEW d \in Daemon,
           \/ HandleWithdrawCreated(d) \/ HandleBadWithdraw(d)
           \/ HandleWithdrawExpired(d) \/ HandleWithdrawReady(d)
    PROVE  \E todo : Turns(d, todo)
<1> DEFINE event == Head(inbox[d])
           fetch == [pc |-> "fetch_burn", id |-> event.id]
           signs == [pc |-> "propose_burn", id |-> event.id,
                     tx |-> StellarTx(event.target, event.amount, None,
                                      wallet_seq[d] + 1),
                     then |-> Idle]
<1>1. UNCHANGED <<payments, account_seq>>
  BY DEF HandleWithdrawCreated, HandleBadWithdraw, HandleWithdrawExpired,
         HandleWithdrawReady, Takes, stellarVars
<1>2. \E todo \in {Idle, signs, RefundMint(event), SetsBurnExecuted(event.id), fetch} :
         job' = [job EXCEPT ![d] = todo]
  BY DEF HandleWithdrawCreated, HandleBadWithdraw, HandleWithdrawExpired,
         HandleWithdrawReady, SignsBurn, SignsAndCalls, Does
<1>3. \A todo \in {Idle, signs, RefundMint(event), SetsBurnExecuted(event.id), fetch} :
         JobOK(todo) /\ todo.pc # "submit"
  BY DEF JobOK, Quiet, Idle, RefundMint, SetsBurnExecuted
<1> QED
  BY <1>1, <1>2, <1>3 DEF Turns

\* A call goes on with what is to be done then, or is repeated.
LEMMA CallTurns ==
    ASSUME JobShape, NEW d \in Daemon, CallWithdraw(d)
    PROVE  (\E todo : Turns(d, todo)) \/ UNCHANGED <<job, payments, account_seq>>
<1>1. /\ job[d].pc \in {"propose_burn", "propose_mint", "set_burn_executed"}
      /\ \/ job' = [job EXCEPT ![d] = job[d].then] \/ UNCHANGED job
      /\ UNCHANGED <<payments, account_seq>>
  BY DEF CallWithdraw, RetryProposeWithdrawOrAddSig, RetryProposeMintOrVote,
         RetrySetWithdrawExecuted, Retries, stellarVars
<1>2. /\ JobOK(job[d]) /\ job[d].pc # "submit"
      /\ JobOK(job[d].then) /\ job[d].then.pc # "submit"
  BY <1>1 DEF JobShape, JobOK, Quiet, Idle
<1> QED
  BY <1>1, <1>2 DEF Turns

\* Every step: a daemon turns to something, fetches a burn or submits.
LEMMA DaemonStep ==
    ASSUME JobShape, [WithdrawNext]_daemonVars
    PROVE  \/ UNCHANGED <<job, payments, account_seq>>
           \/ \E d \in Daemon : \/ \E todo : Turns(d, todo)
                                \/ FetchBurn(d) \/ Submit(d)
<1>1. ASSUME NEW target, NEW amount, Swap(target, amount)
      PROVE  UNCHANGED <<job, payments, account_seq>>
  BY <1>1 DEF Swap, loopVars, stellarVars
<1>2. CASE EndBlock
  BY <1>2 DEF EndBlock, stellarVars
<1>3. ASSUME NEW d \in Daemon, HandleWithdraw(d)
      PROVE  (\E todo : Turns(d, todo)) \/ FetchBurn(d)
  BY <1>3, HandlerTurns DEF HandleWithdraw
<1>4. ASSUME NEW d \in Daemon, CallWithdraw(d)
      PROVE  (\E todo : Turns(d, todo)) \/ UNCHANGED <<job, payments, account_seq>>
  BY <1>4, CallTurns
<1>5. ASSUME NEW d \in Daemon, Crash(d) \/ Restart(d)
      PROVE  \E todo : Turns(d, todo)
  <2>1. \E todo \in {Down("crash"), Idle} : job' = [job EXCEPT ![d] = todo]
    BY <1>5 DEF Crash, Restart
  <2>2. \A todo \in {Down("crash"), Idle} : JobOK(todo) /\ todo.pc # "submit"
    BY DEF JobOK, Quiet, Down, Idle
  <2> QED
    BY <1>5, <2>1, <2>2 DEF Turns, Crash, Restart, stellarVars
<1>6. CASE UNCHANGED daemonVars
  BY <1>6 DEF daemonVars, loopVars, stellarVars
<1> QED
  BY <1>1, <1>2, <1>3, <1>4, <1>5, <1>6 DEF WithdrawNext

\* What may change when a daemon turns to something that is no submission.
LEMMA TurnsKeepsPayments ==
    ASSUME JobShape, AccountShape, NEW d \in Daemon, NEW todo, Turns(d, todo)
    PROVE  /\ JobShape' /\ AccountShape'
           /\ \A id : Held(id)' \subseteq Held(id) /\ PaymentsOf(id)' = PaymentsOf(id)
<1>1. /\ job' = [job EXCEPT ![d] = todo]
      /\ JobOK(todo) /\ todo.pc # "submit"
      /\ UNCHANGED <<payments, account_seq>>
  BY DEF Turns
<1>2. \A e \in Daemon : job'[e] = IF e = d THEN todo ELSE job[e]
  BY <1>1 DEF JobShape
<1>3. JobShape'
  BY <1>1, <1>2 DEF JobShape, JobOK, Quiet
<1>4. AccountShape'
  BY <1>1 DEF AccountShape, IsSeq
<1>5. \A id : Held(id)' \subseteq Held(id)
  BY <1>1, <1>2 DEF Held
<1> QED
  BY <1>1, <1>3, <1>4, <1>5 DEF PaymentsOf

\* A fetched burn is submitted with the number of the present round.
LEMMA FetchHoldsCurrent ==
    ASSUME JobShape, AccountShape, NEW d \in Daemon, FetchBurn(d)
    PROVE  /\ JobShape' /\ AccountShape'
           /\ \A id : /\ Held(id)' \subseteq Held(id) \cup Current(id)
                      /\ PaymentsOf(id)' = PaymentsOf(id)
<1> DEFINE id == job[d].id
           burn == burn_transactions[id]
           submit == ToSubmit(id, burn, None, SetsBurnExecuted(id))
<1>1. UNCHANGED <<payments, account_seq>>
  BY DEF FetchBurn, stellarVars
<1>2. CASE burn = None \/ burn.signatures = <<>>
  <2>1. \E todo \in {Down("not_found"), Down("no_signatures")} :
           job' = [job EXCEPT ![d] = todo]
    BY <1>2 DEF FetchBurn, Does
  <2>2. \A todo \in {Down("not_found"), Down("no_signatures")} :
           JobOK(todo) /\ todo.pc # "submit"
    BY DEF JobOK, Quiet, Down
  <2> QED
    BY <1>1, <2>1, <2>2, TurnsKeepsPayments DEF Turns
<1>3. CASE burn # None /\ burn.signatures # <<>>
  <2>1. job' = [job EXCEPT ![d] = submit]
    BY <1>3 DEF FetchBurn, Does
  <2>2. /\ JobOK(submit)
        /\ submit.id = id /\ submit.signatures = burn.signatures
    BY DEF JobOK, ToSubmit, SetsBurnExecuted
  <2> HIDE DEF submit
  <2>3. \A e \in Daemon : job'[e] = IF e = d THEN submit ELSE job[e]
    BY <2>1 DEF JobShape
  <2>4. JobShape'
    BY <2>1, <2>2, <2>3 DEF JobShape, JobOK, Quiet
  <2>5. AccountShape'
    BY <1>1 DEF AccountShape, IsSeq
  <2>6. Current(id) = {NumberOf(submit.signatures)}
    BY <1>3, <2>2 DEF Current, SignaturesOf
  <2>7. ASSUME NEW other, NEW n \in Held(other)'
        PROVE  n \in Held(other) \cup Current(other)
    <3>1. PICK e \in Daemon : /\ job'[e].pc = "submit" /\ job'[e].id = other
                              /\ n = NumberOf(job'[e].signatures)
      BY <2>7 DEF Held, NumberOf
    <3>2. CASE e = d
      BY <2>2, <2>3, <2>6, <3>1, <3>2
    <3>3. CASE e # d
      BY <2>3, <3>1, <3>3 DEF Held
    <3> QED
      BY <3>2, <3>3
  <2> QED
    BY <1>1, <2>4, <2>5, <2>7 DEF PaymentsOf
<1> QED
  BY <1>2, <1>3

\* A payment that is applied has the number its daemon held: Stellar verifies
\* the first signature against it (AddSignatureBase64).
LEMMA SubmitPaysHeld ==
    ASSUME SignatureCount \in Nat \ {0}, JobShape, AccountShape,
           NEW d \in Daemon, Submit(d)
    PROVE  /\ JobShape' /\ AccountShape'
           /\ \A id : /\ Held(id)' \subseteq Held(id)
                      /\ PaymentsOf(id)' \subseteq PaymentsOf(id) \cup Held(id)
<1> DEFINE tx == job[d].tx
           paid == [id |-> job[d].id, tx |-> tx]
<1>1. /\ job[d].pc = "submit" /\ JobOK(job[d])
      /\ JobOK(job[d].then) /\ job[d].then.pc # "submit"
  BY DEF Submit, JobShape, JobOK, Quiet
<1>2. \E todo : /\ job' = [job EXCEPT ![d] = todo]
                /\ JobOK(todo) /\ todo.pc # "submit"
  <2>1. JobOK(Down("submit")) /\ Down("submit").pc # "submit"
    BY DEF JobOK, Quiet, Down
  <2> QED
    BY <1>1, <2>1 DEF Submit, AfterError
<1>3. PICK todo : /\ job' = [job EXCEPT ![d] = todo]
                  /\ JobOK(todo) /\ todo.pc # "submit"
  BY <1>2
<1>4. \A e \in Daemon : job'[e] = IF e = d THEN todo ELSE job[e]
  BY <1>3 DEF JobShape
<1>5. JobShape'
  BY <1>3, <1>4 DEF JobShape, JobOK, Quiet
<1>6. \A id : Held(id)' \subseteq Held(id)
  BY <1>3, <1>4 DEF Held
<1>7. CASE UNCHANGED stellarVars
  BY <1>5, <1>6, <1>7 DEF stellarVars, AccountShape, IsSeq, PaymentsOf
<1>8. CASE /\ Verified(job[d].signatures, tx) /\ InSequence(tx)
           /\ account_seq' = tx.seqno
           /\ payments' = Append(payments, paid)
  <2>1. NumberOf(job[d].signatures) = tx.seqno
    <3>1. 1 \in 1..SignatureCount
      OBVIOUS
    <3>2. job[d].signatures[1].signature
            = SignatureOf(job[d].signatures[1].stellar_pub_key, tx)
      BY <1>8, <3>1 DEF Verified
    <3> QED
      BY <3>2 DEF NumberOf, SignatureOf
  <2>2. tx.seqno \in Held(job[d].id)
    BY <1>1, <2>1 DEF Held
  <2>3. tx.seqno = Len(payments) + 1
    BY <1>8 DEF InSequence, AccountShape
  <2>4. /\ IsSeq(payments')
        /\ Len(payments) \in Nat /\ Len(payments') = Len(payments) + 1
        /\ DOMAIN payments = 1..Len(payments)
        /\ DOMAIN payments' = 1..(Len(payments) + 1)
        /\ \A i \in DOMAIN payments : payments'[i] = payments[i]
        /\ payments'[Len(payments) + 1] = paid
    BY <1>8, AppendAddsLast DEF AccountShape
  <2>5. AccountShape'
    BY <1>8, <2>3, <2>4 DEF AccountShape
  <2>6. ASSUME NEW id, NEW i \in PaymentsOf(id)'
        PROVE  i \in PaymentsOf(id) \cup Held(id)
    <3>1. i \in DOMAIN payments' /\ payments'[i].id = id
      BY <2>6 DEF PaymentsOf
    <3>2. CASE i = Len(payments) + 1
      BY <2>2, <2>3, <2>4, <3>1, <3>2
    <3>3. CASE i # Len(payments) + 1
      BY <2>4, <3>1, <3>3 DEF PaymentsOf
    <3> QED
      BY <3>2, <3>3
  <2> QED
    BY <1>5, <1>6, <2>5, <2>6
<1> QED
  BY <1>7, <1>8 DEF Submit

\* Every step.
LEMMA HeldStep ==
    ASSUME SignatureCount \in Nat \ {0}, JobShape, AccountShape,
           [WithdrawNext]_daemonVars
    PROVE  /\ JobShape' /\ AccountShape'
           /\ \A id : Held(id)' \cup PaymentsOf(id)'
                        \subseteq Held(id) \cup PaymentsOf(id) \cup Current(id)
<1>1. CASE UNCHANGED <<job, payments, account_seq>>
  BY <1>1 DEF JobShape, JobOK, Quiet, AccountShape, IsSeq, Held, PaymentsOf
<1>2. ASSUME NEW d \in Daemon, NEW todo, Turns(d, todo)
      PROVE  /\ JobShape' /\ AccountShape'
             /\ \A id : Held(id)' \subseteq Held(id) /\ PaymentsOf(id)' = PaymentsOf(id)
  BY <1>2, TurnsKeepsPayments
<1> QED
  BY <1>1, <1>2, DaemonStep, FetchHoldsCurrent, SubmitPaysHeld

-----------------------------------------------------------------------------
(* The theorem. *)

\* The number of the present round makes the set of numbers one larger at most.
LEMMA OneMoreAtMost ==
    ASSUME NEW P, IsFiniteSet(P), NEW id
    PROVE  /\ IsFiniteSet(P \cup Current(id))
           /\ Cardinality(P) \in Nat
           /\ Cardinality(P \cup Current(id)) \in Nat
           /\ Cardinality(P \cup Current(id)) <= Cardinality(P) + 1
<1>1. Cardinality(P) \in Nat
  BY FS_CardinalityType
<1>2. CASE Current(id) = {}
  <2>1. P \cup Current(id) = P
    BY <1>2
  <2>2. /\ IsFiniteSet(P \cup Current(id))
        /\ Cardinality(P \cup Current(id)) = Cardinality(P)
    BY <2>1, Zenon
  <2> QED
    BY <1>1, <2>2
<1>3. ASSUME NEW n, Current(id) = {n}
      PROVE  /\ IsFiniteSet(P \cup Current(id))
             /\ Cardinality(P \cup Current(id)) \in Nat
             /\ Cardinality(P \cup Current(id)) <= Cardinality(P) + 1
  <2>1. /\ IsFiniteSet(P \cup {n})
        /\ Cardinality(P \cup {n}) = IF n \in P THEN Cardinality(P)
                                     ELSE Cardinality(P) + 1
    BY FS_AddElement
  <2>2. P \cup Current(id) = P \cup {n}
    BY <1>3
  <2>3. Cardinality(P \cup Current(id)) = Cardinality(P \cup {n})
    BY <2>2, Zenon
  <2>4. IsFiniteSet(P \cup Current(id))
    BY <2>1, <2>2, Zenon
  <2> QED
    BY <1>1, <2>1, <2>3, <2>4
<1> QED
  BY <1>1, <1>2, <1>3 DEF Current

\* At the start nothing was paid and nothing can be.
LEMMA RoundInit ==
    ASSUME PalletAssumption, RefundHash = {}, DaemonInit
    PROVE  RoundInvariant
<1>1. BurnShape
  BY DEF DaemonInit, Init, BurnShape, BurnId, IsBurn
<1>2. JobShape
  BY DEF DaemonInit, JobShape, JobOK, Quiet, Idle
<1>3. AccountShape /\ payments = <<>>
  <2>1. <<>> \in Seq({})
    OBVIOUS
  <2> QED
    BY <2>1 DEF DaemonInit, AccountShape, IsSeq
<1>4. RoundsShape
  BY DEF DaemonInit, RoundsShape
<1>5. ASSUME NEW id \in BurnId
      PROVE  PaidWith(id, {})
  <2>1. IsFiniteSet({}) /\ Cardinality({}) = 0
    BY FS_EmptySet
  <2>2. rounds[id] = 0
    BY DEF DaemonInit
  <2>3. PaymentsOf(id) = {}
    BY <1>3 DEF PaymentsOf
  <2>4. Held(id) = {}
    BY DEF DaemonInit, Held, Idle
  <2> QED
    BY <2>1, <2>2, <2>3, <2>4 DEF PaidWith
<1> QED
  BY <1>1, <1>2, <1>3, <1>4, <1>5 DEF RoundInvariant

\* A round that ends adds its number to those of the earlier rounds.
LEMMA RoundStep ==
    ASSUME NoneAssumption, PalletAssumption, DaemonAssumption, RefundHash = {},
           RoundInvariant, [WithdrawNext]_daemonVars
    PROVE  RoundInvariant'
<1>1. BurnShape' /\ RoundsShape' /\ \A id \in BurnId : BurnStep(id)
  BY BurnsStep DEF RoundInvariant
<1>2. /\ JobShape' /\ AccountShape'
      /\ \A id : Held(id)' \cup PaymentsOf(id)'
                   \subseteq Held(id) \cup PaymentsOf(id) \cup Current(id)
  BY HeldStep DEF RoundInvariant, DaemonAssumption
<1>3. ASSUME NEW id \in BurnId
      PROVE  \E P : PaidWith(id, P)'
  <2>1. PICK P : PaidWith(id, P)
    BY DEF RoundInvariant
  <2>2. Held(id)' \cup PaymentsOf(id)' \subseteq P \cup Current(id)
    BY <1>2, <2>1 DEF PaidWith
  <2>3. CASE rounds'[id] = rounds[id] /\ Current(id) \subseteq Current(id)'
    BY <2>1, <2>2, <2>3 DEF PaidWith
  <2>4. CASE rounds'[id] = rounds[id] + 1
    <3> DEFINE Q == P \cup Current(id)
    <3>1. IsFiniteSet(P) /\ Cardinality(P) <= rounds[id] /\ rounds[id] \in Nat
      BY <2>1 DEF PaidWith, RoundInvariant, RoundsShape
    <3>2. IsFiniteSet(Q) /\ Cardinality(Q) <= rounds'[id]
      BY <2>4, <3>1, OneMoreAtMost
    <3> HIDE DEF Q
    <3>3. Held(id)' \subseteq Q /\ PaymentsOf(id)' \subseteq Q
      BY <2>2 DEF Q
    <3> QED
      BY <3>2, <3>3 DEF PaidWith
  <2> QED
    BY <1>1, <2>3, <2>4 DEF BurnStep
<1> QED
  BY <1>1, <1>2, <1>3 DEF RoundInvariant

\* The present round adds one payment at most to those of the earlier ones.
LEMMA RoundMeansPaidOnce ==
    ASSUME RefundHash = {}, RoundInvariant
    PROVE  PaidOncePerRound
<1>1. SUFFICES ASSUME NEW id \in DOMAIN rounds
               PROVE  Cardinality(PaymentsOf(id)) <= 1 + rounds[id]
  BY DEF PaidOncePerRound
<1>2. id \in BurnId /\ rounds[id] \in Nat
  BY <1>1 DEF RoundInvariant, RoundsShape
<1>3. PICK P : PaidWith(id, P)
  BY <1>2 DEF RoundInvariant
<1> DEFINE Q == P \cup Current(id)
<1>4. IsFiniteSet(P) /\ Cardinality(P) <= rounds[id]
  BY <1>3 DEF PaidWith
<1>5. /\ IsFiniteSet(Q)
      /\ Cardinality(P) \in Nat /\ Cardinality(Q) \in Nat
      /\ Cardinality(Q) <= Cardinality(P) + 1
  BY <1>4, OneMoreAtMost
<1>6. PaymentsOf(id) \subseteq Q
  BY <1>3 DEF PaidWith
<1> HIDE DEF Q
<1>7. /\ Cardinality(PaymentsOf(id)) \in Nat
      /\ Cardinality(PaymentsOf(id)) <= Cardinality(Q)
  BY <1>5, <1>6, FS_Subset, FS_CardinalityType
<1> QED
  BY <1>2, <1>4, <1>5, <1>7

\* A burn is paid at most once for each round of signatures, for any number of
\* daemons, swaps, blocks, crashes and lost replies, when swaps are all that the
\* bridge does (withdraw.go, with stellar.go:280 and on_finalize, lib.rs:251).
THEOREM PaidOnceEachRound ==
    ASSUME NoneAssumption, RefundHash = {}
    PROVE  WithdrawSpec => []PaidOncePerRound
<1>1. DaemonInit => RoundInvariant
  BY RoundInit, PalletAssumption
<1>2. RoundInvariant /\ [WithdrawNext]_daemonVars => RoundInvariant'
  BY RoundStep, PalletAssumption, DaemonAssumption
<1>3. RoundInvariant => PaidOncePerRound
  BY RoundMeansPaidOnce
<1> QED
  BY <1>1, <1>2, <1>3, PTL DEF WithdrawSpec
=============================================================================
