------------------------- MODULE BridgeOneWayProofs -------------------------
(***************************************************************************)
(* A burn is not both paid on Stellar and minted back (NotPaidAndRefunded), *)
(* as long as no daemon breaks or repeats a vote.                           *)
(*                                                                         *)
(* The argument: a daemon settles, once and for ever, whether it may sign    *)
(* the payment of a burn or vote to mint it back, for it reads of its        *)
(* creation once, and of its expiries only after that.  One that has voted   *)
(* sets the burn executed before it reads on, and then its signature is       *)
(* refused.  So those that sign and those that vote are different daemons,   *)
(* and there are not enough of them for both.                                *)
(***************************************************************************)
EXTENDS BridgeTermsProofs

-----------------------------------------------------------------------------
(* The hypothesis. *)

\* The signatures of a payment and the votes of a mint have a daemon in common.
QuorumsMeet == SignatureCount + (Cardinality(Daemon) \div 2 + 1) > Cardinality(Daemon)

-----------------------------------------------------------------------------
(* The inductive invariant. *)

Quiet == breaks = 0 /\ ~faults.lossy

IsCreated(e, id) == e.type = "BurnTransactionCreated" /\ e.id = id
Asks(e, id) ==
    e.type \in {"BurnTransactionCreated", "BurnTransactionExpired"} /\ e.id = id

Announced(es, id) == \E i \in DOMAIN es : IsCreated(es[i], id)
Asked(es, id) == \E i \in DOMAIN es : Asks(es[i], id)

CreatedFirst(es, id) ==
    \A i, j \in DOMAIN es : i < j /\ IsCreated(es[j], id) => ~Asks(es[i], id)

\* Daemon d has no more to read of the creation of the burn.
HasRead(d, id) == ~Announced(events, id) /\ ~Announced(inbox[d], id)

Voting(d, id) == job[d].pc = "propose_mint" /\ job[d].id = id
Closing(d, id) == job[d].pc = "set_burn_executed" /\ job[d].id = id
AddingSig(d, id) == job[d].pc = "propose_burn" /\ job[d].id = id
Submitting(d, id) == job[d].pc = "submit" /\ job[d].id = id

\* It never votes to mint the burn back.
Settled(d, id) ==
    id \in Burns /\ d \notin voters[id] /\ HasRead(d, id) /\ ~Voting(d, id)

SettledOn(id) == {d \in Daemon : Settled(d, id)}

SignedBy(signatures, daemons) ==
    \A i \in DOMAIN signatures :
      \E d \in daemons : KeyOf[d] = signatures[i].stellar_pub_key

DistinctKeys(signatures) ==
    \A i, j \in DOMAIN signatures :
      i # j => signatures[i].stellar_pub_key # signatures[j].stellar_pub_key

\* The creation is the first that a daemon reads of a burn, and it reads of it once.
ReadInOrder(id) ==
    /\ \A d \in Daemon : CreatedFirst(inbox[d], id)
    /\ \A i, j \in DOMAIN events :
         IsCreated(events[i], id) /\ IsCreated(events[j], id) => i = j
    /\ Announced(events, id) =>
         /\ \A d \in Daemon : ~Asked(inbox[d], id)
         /\ burn_transactions[id] # None => burn_transactions[id].block = block

VotesOnce(id) ==
    \A d \in Daemon : Voting(d, id) =>
      /\ d \notin voters[id] /\ HasRead(d, id)
      /\ job[d].then = SetsBurnExecuted(id)

VotersClose(id) ==
    \A d \in voters[id] :
      d \in Daemon /\ id \in Burns /\ HasRead(d, id) /\ (Burned(id) \/ Closing(d, id))

SettledSign(id) ==
    /\ \A d \in Daemon : AddingSig(d, id) => Burned(id) \/ Settled(d, id)
    /\ burn_transactions[id] # None
         => SignedBy(burn_transactions[id].signatures, SettledOn(id))
    /\ \A d \in Daemon : Submitting(d, id) =>
         /\ SignedBy(job[d].signatures, SettledOn(id))
         /\ DistinctKeys(job[d].signatures)

PaidBySettled(id) == Paid(id) => Cardinality(SettledOn(id)) >= SignatureCount

VotesAreOfVoters(id) ==
    /\ mint_transactions[id] # None
         => mint_transactions[id].votes <= Cardinality(voters[id])
    /\ Minted(id) => Cardinality(voters[id]) >= Majority

OneWayFor(id) ==
    /\ VotesOnce(id) /\ VotersClose(id) /\ SettledSign(id)
    /\ PaidBySettled(id) /\ VotesAreOfVoters(id)

OneWay ==
    /\ validators = Daemon
    /\ \A id \in BurnId : ReadInOrder(id)
    /\ Quiet => \A id \in BurnId : OneWayFor(id)

-----------------------------------------------------------------------------
(* What is read of a burn. *)

\* To read the next event leaves the rest in order, and nothing is created twice.
LEMMA RestOfEvents ==
    ASSUME NEW S, NEW es \in Seq(S), es # <<>>, NEW id, CreatedFirst(es, id)
    PROVE  /\ CreatedFirst(Tail(es), id)
           /\ Announced(Tail(es), id) => Announced(es, id)
           /\ Asked(Tail(es), id) => Asked(es, id)
           /\ IsCreated(Head(es), id) => Announced(es, id)
           /\ Asks(Head(es), id) => Asked(es, id) /\ ~Announced(Tail(es), id)
<1>1. /\ Len(es) \in Nat /\ Len(es) # 0 /\ Head(es) = es[1] /\ 1 \in DOMAIN es
      /\ \A i \in DOMAIN Tail(es) : /\ i \in Nat \ {0} /\ i + 1 \in DOMAIN es
                                    /\ Tail(es)[i] = es[i + 1]
  OBVIOUS
<1>2. CreatedFirst(Tail(es), id)
  BY <1>1 DEF CreatedFirst
<1>3. Announced(Tail(es), id) => Announced(es, id)
  BY <1>1 DEF Announced
<1>4. Asked(Tail(es), id) => Asked(es, id)
  BY <1>1 DEF Asked
<1>5. Asks(Head(es), id) => ~Announced(Tail(es), id)
  BY <1>1 DEF CreatedFirst, Announced
<1> QED
  BY <1>1, <1>2, <1>3, <1>4, <1>5 DEF Announced, Asked

\* Nothing is read of a burn that has no id yet.
LEMMA NewBurnUnread ==
    ASSUME NEW es \in Seq(TrueEvents), NEW id, id \notin Burns
    PROVE  ~Asked(es, id) /\ ~Announced(es, id)
<1>1. \A i \in DOMAIN es : es[i] \in TrueEvents
  OBVIOUS
<1>2. \A e \in TrueEvents : ~Asks(e, id)
  BY EventAt DEF Asks, CreatedEvents, BurnExpiredEvents
<1> QED
  BY <1>1, <1>2 DEF Asked, Announced, Asks, IsCreated

\* An event of a burn that is ready, or of a refund, tells nothing of a creation.
LEMMA OtherEvent ==
    ASSUME NEW S, NEW es \in Seq(S), NEW e, NEW id, ~IsCreated(e, id)
    PROVE  /\ Announced(Append(es, e), id) <=> Announced(es, id)
           /\ \A i \in DOMAIN Append(es, e) : IsCreated(Append(es, e)[i], id)
                => i \in DOMAIN es /\ Append(es, e)[i] = es[i]
<1>1. /\ DOMAIN Append(es, e) = 1..(Len(es) + 1) /\ DOMAIN es = 1..Len(es)
      /\ Len(es) \in Nat
      /\ \A i \in 1..Len(es) : Append(es, e)[i] = es[i]
      /\ Append(es, e)[Len(es) + 1] = e
  OBVIOUS
<1> QED
  BY <1>1 DEF Announced
-----------------------------------------------------------------------------
(* The events of a step. *)

Acts(d) ==
    \/ HandleWithdraw(d) \/ Mint(d) \/ TakeTransaction(d)
    \/ HandleRefund(d) \/ Submit(d)
    \/ RetryProposeWithdrawOrAddSig(d) \/ RetrySetWithdrawExecuted(d)
    \/ CallDeposit(d)
    \/ SaveStellarCursor(d) \/ CrashBridge(d) \/ RestartBridge(d)

\* A daemon that acts takes an event at most, or starts again without any, and
\* may announce that a burn or a refund is ready.
LEMMA ActsOnEvents ==
    ASSUME NEW d \in Daemon, Acts(d)
    PROVE  /\ \/ UNCHANGED events
              \/ \E e : /\ e.type \in {"BurnTransactionReady", "RefundTransactionReady"}
                        /\ events' = Append(events, e)
           /\ \/ UNCHANGED inbox
              \/ inbox[d] # <<>> /\ inbox' = [inbox EXCEPT ![d] = Tail(@)]
              \/ inbox' = [inbox EXCEPT ![d] = <<>>]
           /\ UNCHANGED <<block, validators>>
<1>1. ASSUME \/ HandleWithdraw(d) \/ Mint(d) \/ TakeTransaction(d)
             \/ HandleRefund(d) \/ Submit(d)
             \/ SaveStellarCursor(d) \/ CrashBridge(d) \/ RestartBridge(d)
      PROVE  UNCHANGED palletVars
  BY <1>1, HandlersReadOnly
     DEF HandleDeposit, TakeTransaction, Mint, SaveStellarCursor, CrashBridge,
         RestartBridge, Crash, Restart
<1>2. CASE HandleWithdraw(d) \/ HandleRefund(d)
  BY <1>1, <1>2
     DEF HandleWithdraw, HandleWithdrawCreated, HandleBadWithdraw,
         HandleWithdrawExpired, HandleWithdrawReady, FetchBurn, HandleRefund,
         HandleRefundExpired, HandleRefundReady, FetchRefund, Takes, palletVars,
         adminVars
<1>3. CASE \/ Mint(d) \/ TakeTransaction(d) \/ Submit(d)
           \/ SaveStellarCursor(d) \/ CrashBridge(d) \/ RestartBridge(d)
  BY <1>1, <1>3
     DEF Mint, TakeTransaction, Submit, SaveStellarCursor, CrashBridge, Crash,
         RestartBridge, Restart, palletVars, adminVars
<1>4. CASE RetryProposeWithdrawOrAddSig(d)
  <2>1. BurnReady(job[d].id).type = "BurnTransactionReady"
    BY DEF BurnReady
  <2> QED
    BY <1>4, <2>1
       DEF RetryProposeWithdrawOrAddSig, Retries, ProposeBurnOrAddSig, Announce,
           palletVars, adminVars
<1>5. CASE RetryCreateRefundTransactionOrAddSig(d)
  <2>1. RefundReady(job[d].id).type = "RefundTransactionReady"
    BY DEF RefundReady
  <2> QED
    BY <1>5, <2>1
       DEF RetryCreateRefundTransactionOrAddSig, Retries, CreateRefundOrAddSig,
           Announce, palletVars, adminVars
<1>6. CASE \/ RetrySetWithdrawExecuted(d) \/ RetryProposeMintOrVote(d)
           \/ RetrySetRefundTransactionExecuted(d)
  BY <1>6 DEF RetrySetWithdrawExecuted, RetryProposeMintOrVote,
              RetrySetRefundTransactionExecuted, Retries, SetBurnExecuted,
              ProposeOrVoteMint, SetRefundExecuted, palletVars, adminVars
<1> QED
  BY <1>2, <1>3, <1>4, <1>5, <1>6 DEF Acts, CallDeposit

\* Swaps and the surroundings leave what is to be read and to be done.
LEMMA SurroundingsLeave ==
    ASSUME Surroundings
    PROVE  /\ UNCHANGED <<inbox, job, block, payments, validators, breaks>>
           /\ \/ UNCHANGED <<events, burn_transactions, burn_transaction_id>>
              \/ \E target, amount : Swap(target, amount)
BY DEF Surroundings, Swap, SwapToStellar, Deposit, ChangeFee, SetDepositFee, bridgeVars,
       daemonVars, palletVars, adminVars, burnVars, loopVars, stellarVars, faultVars

\* What a sequence that goes on with another one has at each place.
LEMMA OneAfterOther ==
    ASSUME NEW S, NEW s \in Seq(S), NEW t \in Seq(S)
    PROVE  /\ s \o t \in Seq(S)
           /\ \A i \in DOMAIN (s \o t) :
                \/ i \in DOMAIN s /\ (s \o t)[i] = s[i]
                \/ /\ i \in Nat /\ i > Len(s) /\ i - Len(s) \in 1..Len(t)
                   /\ i - Len(s) \in DOMAIN t /\ (s \o t)[i] = t[i - Len(s)]
<1>1. /\ DOMAIN (s \o t) = 1..(Len(s) + Len(t))
      /\ DOMAIN s = 1..Len(s) /\ DOMAIN t = 1..Len(t)
      /\ Len(s) \in Nat /\ Len(t) \in Nat
  OBVIOUS
<1>2. \A i \in 1..(Len(s) + Len(t)) :
        (s \o t)[i] = IF i <= Len(s) THEN s[i] ELSE t[i - Len(s)]
  OBVIOUS
<1>3. s \o t \in Seq(S)
  OBVIOUS
<1> QED
  BY <1>1, <1>2, <1>3

\* So it has nothing that is in neither of the two.
LEMMA OneOrOther ==
    ASSUME NEW S, NEW s \in Seq(S), NEW t \in Seq(S)
    PROVE  /\ s \o t \in Seq(S)
           /\ \A i \in DOMAIN (s \o t) :
                \/ i \in DOMAIN s /\ (s \o t)[i] = s[i]
                \/ \E k \in DOMAIN t : (s \o t)[i] = t[k]
<1>1. s \o t \in Seq(S)
  BY OneAfterOther
<1>2. ASSUME NEW i \in DOMAIN (s \o t)
      PROVE  \/ i \in DOMAIN s /\ (s \o t)[i] = s[i]
             \/ \E k \in DOMAIN t : (s \o t)[i] = t[k]
  <2>1. \/ i \in DOMAIN s /\ (s \o t)[i] = s[i]
        \/ i - Len(s) \in DOMAIN t /\ (s \o t)[i] = t[i - Len(s)]
    BY OneAfterOther
  <2> QED
    BY <2>1
<1> QED
  BY <1>1, <1>2

\* Nor has one of three parts.
LEMMA OneOfThree ==
    ASSUME NEW S, NEW s \in Seq(S), NEW t \in Seq(S), NEW u \in Seq(S)
    PROVE  /\ s \o (t \o u) \in Seq(S)
           /\ \A i \in DOMAIN (s \o (t \o u)) :
                \/ i \in DOMAIN s /\ (s \o (t \o u))[i] = s[i]
                \/ \E k \in DOMAIN t : (s \o (t \o u))[i] = t[k]
                \/ \E k \in DOMAIN u : (s \o (t \o u))[i] = u[k]
<1> DEFINE rest == t \o u
<1>1. /\ rest \in Seq(S)
      /\ \A i \in DOMAIN rest : \/ i \in DOMAIN t /\ rest[i] = t[i]
                                \/ \E k \in DOMAIN u : rest[i] = u[k]
  BY OneOrOther
<1> HIDE DEF rest
<1>2. /\ s \o rest \in Seq(S)
      /\ \A i \in DOMAIN (s \o rest) : \/ i \in DOMAIN s /\ (s \o rest)[i] = s[i]
                                       \/ \E k \in DOMAIN rest : (s \o rest)[i] = rest[k]
  BY <1>1, OneOrOther
<1>3. ASSUME NEW i \in DOMAIN (s \o rest)
      PROVE  \/ i \in DOMAIN s /\ (s \o rest)[i] = s[i]
             \/ \E k \in DOMAIN t : (s \o rest)[i] = t[k]
             \/ \E k \in DOMAIN u : (s \o rest)[i] = u[k]
  <2>1. CASE i \in DOMAIN s /\ (s \o rest)[i] = s[i]
    BY <2>1
  <2>2. ASSUME NEW k \in DOMAIN rest, (s \o rest)[i] = rest[k]
        PROVE  \/ \E l \in DOMAIN t : (s \o rest)[i] = t[l]
               \/ \E l \in DOMAIN u : (s \o rest)[i] = u[l]
    BY <1>1, <2>2
  <2> QED
    BY <1>2, <2>1, <2>2
<1> QED
  BY <1>2, <1>3 DEF rest

\* The end of a block gives the daemons the events of it, and the expiries.
LEMMA Delivered ==
    ASSUME IsFiniteSet(RefundHash), BridgeTerms, EndBlock
    PROVE  /\ events' = <<>>
           /\ \E es \in Seq(TrueEvents) :
                /\ \A d \in Daemon : \/ inbox'[d] = inbox[d]
                                     \/ inbox'[d] = inbox[d] \o ByType(es)
                /\ \A i \in DOMAIN es :
                     \/ i \in DOMAIN events /\ es[i] = events[i]
                     \/ \E id \in ExpiredBurns :
                          es[i] = BurnExpired(id, burn_transactions[id])
                     \/ \E h \in ExpiredRefunds :
                          es[i] = RefundExpired(h, refund_transactions[h])
<1>1. PICK ids \in SetToSeqs(ExpiredBurns), hashes \in SetToSeqs(ExpiredRefunds),
           deaf \in SUBSET {d \in Daemon : job[d].pc # "down"} :
        inbox' = [d \in Daemon |->
          IF job[d].pc = "down" \/ d \in deaf THEN inbox[d]
          ELSE inbox[d] \o
            ByType(events \o
              ([i \in DOMAIN ids |-> BurnExpired(ids[i], burn_transactions[ids[i]])]
               \o [i \in DOMAIN hashes |->
                     RefundExpired(hashes[i], refund_transactions[hashes[i]])]))]
  BY DEF EndBlock
<1> DEFINE old == [i \in DOMAIN ids |-> BurnExpired(ids[i], burn_transactions[ids[i]])]
           back == [i \in DOMAIN hashes |->
                      RefundExpired(hashes[i], refund_transactions[hashes[i]])]
           es == events \o (old \o back)
<1>2. ids \in Seq(ExpiredBurns) /\ hashes \in Seq(ExpiredRefunds)
  <2>1. ExpiredBurns \in SUBSET BurnId /\ ExpiredRefunds \in SUBSET RefundHash
    BY DEF ExpiredBurns, ExpiredRefunds
  <2>2. IsFiniteSet(ExpiredBurns) /\ IsFiniteSet(ExpiredRefunds)
    BY <2>1, BurnIdFinite, FS_Subset
  <2> QED
    BY <2>2, OrderedSet
<1>3. /\ Len(ids) \in Nat /\ DOMAIN ids = 1..Len(ids)
      /\ Len(hashes) \in Nat /\ DOMAIN hashes = 1..Len(hashes)
  BY <1>2
<1>4. /\ old \in Seq(TrueEvents)
      /\ \A i \in DOMAIN old : \E id \in ExpiredBurns :
           old[i] = BurnExpired(id, burn_transactions[id])
  <2>1. \A i \in DOMAIN ids : /\ ids[i] \in ExpiredBurns
                              /\ BurnExpired(ids[i], burn_transactions[ids[i]]) \in TrueEvents
    BY <1>2, ExpiredIsTrue
  <2> QED
    BY <1>3, <2>1
<1>5. /\ back \in Seq(TrueEvents)
      /\ \A i \in DOMAIN back : \E h \in ExpiredRefunds :
           back[i] = RefundExpired(h, refund_transactions[h])
  <2>1. \A i \in DOMAIN hashes :
          /\ hashes[i] \in ExpiredRefunds
          /\ RefundExpired(hashes[i], refund_transactions[hashes[i]]) \in TrueEvents
    BY <1>2, ExpiredIsTrue
  <2> QED
    BY <1>3, <2>1
<1>6. \A d \in Daemon : inbox'[d] = inbox[d] \/ inbox'[d] = inbox[d] \o ByType(es)
  BY <1>1
<1>7. events' = <<>>
  BY DEF EndBlock, FinalizeBlock
<1> HIDE DEF old, back
<1>8. /\ es \in Seq(TrueEvents)
      /\ \A i \in DOMAIN es :
           \/ i \in DOMAIN events /\ es[i] = events[i]
           \/ \E k \in DOMAIN old : es[i] = old[k]
           \/ \E k \in DOMAIN back : es[i] = back[k]
  <2>1. old \in Seq(TrueEvents) /\ back \in Seq(TrueEvents) /\ events \in Seq(TrueEvents)
    BY <1>4, <1>5 DEF BridgeTerms, EventsTrue
  <2> QED
    BY <2>1, OneOfThree
<1> HIDE DEF es
<1>9. \A i \in DOMAIN es :
        \/ i \in DOMAIN events /\ es[i] = events[i]
        \/ \E id \in ExpiredBurns : es[i] = BurnExpired(id, burn_transactions[id])
        \/ \E h \in ExpiredRefunds : es[i] = RefundExpired(h, refund_transactions[h])
  BY <1>4, <1>5, <1>8
<1> QED
  BY <1>6, <1>7, <1>8, <1>9

\* Of a burn, that is its creation when it is announced, and its expiry.
LEMMA DeliveredOfBurn ==
    ASSUME IsFiniteSet(RefundHash), BridgeTerms, EndBlock, NEW id \in BurnId
    PROVE  /\ events' = <<>>
           /\ \E es \in Seq(TrueEvents) :
                /\ \A d \in Daemon : \/ inbox'[d] = inbox[d]
                                     \/ inbox'[d] = inbox[d] \o ByType(es)
                /\ \A i \in DOMAIN es : IsCreated(es[i], id)
                     => i \in DOMAIN events /\ es[i] = events[i]
                /\ \A i \in DOMAIN es : Asks(es[i], id) /\ ~IsCreated(es[i], id)
                     => id \in ExpiredBurns
<1>1. PICK es \in Seq(TrueEvents) :
        /\ \A d \in Daemon : inbox'[d] = inbox[d] \/ inbox'[d] = inbox[d] \o ByType(es)
        /\ \A i \in DOMAIN es :
             \/ i \in DOMAIN events /\ es[i] = events[i]
             \/ \E b \in ExpiredBurns : es[i] = BurnExpired(b, burn_transactions[b])
             \/ \E h \in ExpiredRefunds : es[i] = RefundExpired(h, refund_transactions[h])
  BY Delivered
<1>2. \A i \in DOMAIN events : Asks(events[i], id) => IsCreated(events[i], id)
  <2>1. events \in Seq(Event)
    BY DEF BridgeTerms, TypeOK
  <2>2. \A i \in DOMAIN events : events[i] \in Event
    BY <2>1
  <2> QED
    BY <2>2 DEF Event, Asks, IsCreated
<1>3. \A b, tx : LET e == BurnExpired(b, tx) IN ~IsCreated(e, id) /\ (Asks(e, id) => b = id)
  BY DEF BurnExpired, IsCreated, Asks
<1>4. \A h, tx : ~IsCreated(RefundExpired(h, tx), id) /\ ~Asks(RefundExpired(h, tx), id)
  BY DEF RefundExpired, IsCreated, Asks
<1>5. \A i \in DOMAIN es : IsCreated(es[i], id) => i \in DOMAIN events /\ es[i] = events[i]
  BY <1>1, <1>3, <1>4
<1>6. \A i \in DOMAIN es : Asks(es[i], id) /\ ~IsCreated(es[i], id) => id \in ExpiredBurns
  BY <1>1, <1>2, <1>3, <1>4
<1> QED
  BY <1>1, <1>5, <1>6, Delivered

\* What there was to read, and then other events, each once, in the order of p.
Continues(news, old, es, p) ==
    /\ \A k, l \in 1..Len(es) : k < l => p[k] # p[l]
    /\ \A i \in DOMAIN news :
         \/ i \in DOMAIN old /\ news[i] = old[i]
         \/ /\ i \in Nat /\ i > Len(old) /\ i - Len(old) \in 1..Len(es)
            /\ news[i] = es[p[i - Len(old)]]

\* That is what a daemon reads after the end of a block.
LEMMA ReadAfter ==
    ASSUME NEW old \in Seq(TrueEvents), NEW es \in Seq(TrueEvents),
           NEW news, news = old \o ByType(es)
    PROVE  \E p \in [1..Len(es) -> 1..Len(es)] : Continues(news, old, es, p)
<1> DEFINE n == Len(es)
<1>1. n \in Nat /\ DOMAIN es = 1..n /\ Len(old) \in Nat
  OBVIOUS
<1>2. EventsOfTypes(es)
  <2>1. \A i \in DOMAIN es : es[i] \in TrueEvents
    OBVIOUS
  <2> QED
    BY <2>1 DEF EventsOfTypes, TrueEvents, CreatedEvents, BurnExpiredEvents,
                RefundExpiredEvents, TypeOrder
<1> HIDE DEF n
<1>3. PICK p \in [1..n -> 1..n] :
        /\ ByType(es) = [k \in 1..n |-> es[p[k]]]
        /\ \A k, l \in 1..n : k < l => TakenBefore(es, p[k], p[l])
  BY <1>1, <1>2, EventsOfABlockInOrder
<1>4. ASSUME NEW k \in 1..n, NEW l \in 1..n, k < l
      PROVE  p[k] # p[l]
  <2>1. TakenBefore(es, p[k], p[l]) /\ p[k] \in 1..n
    BY <1>3, <1>4
  <2>2. ~TakenBefore(es, p[k], p[k])
    BY <1>1, <1>2, <2>1, OneComesFirst
  <2> QED
    BY <2>1, <2>2
<1> DEFINE sorted == [k \in 1..n |-> es[p[k]]]
<1>5. /\ DOMAIN sorted = 1..n /\ sorted \in Seq(TrueEvents) /\ Len(sorted) = n
      /\ \A k \in 1..n : sorted[k] = es[p[k]]
  BY <1>1
<1>6. news = old \o sorted
  BY <1>3
<1> HIDE DEF sorted
<1>7. \A i \in DOMAIN news :
        \/ i \in DOMAIN old /\ news[i] = old[i]
        \/ /\ i \in Nat /\ i > Len(old) /\ i - Len(old) \in 1..n
           /\ news[i] = sorted[i - Len(old)]
  <2>1. \A i \in DOMAIN (old \o sorted) :
          \/ i \in DOMAIN old /\ (old \o sorted)[i] = old[i]
          \/ /\ i \in Nat /\ i > Len(old) /\ i - Len(old) \in 1..Len(sorted)
             /\ (old \o sorted)[i] = sorted[i - Len(old)]
    BY <1>5, OneAfterOther
  <2> QED
    BY <1>5, <1>6, <2>1
<1>8. \A i \in DOMAIN news :
        \/ i \in DOMAIN old /\ news[i] = old[i]
        \/ /\ i \in Nat /\ i > Len(old) /\ i - Len(old) \in 1..n
           /\ news[i] = es[p[i - Len(old)]]
  BY <1>5, <1>7
<1> QED
  BY <1>4, <1>8 DEF n, Continues

\* What is read of the creation of a burn stays read.
LEMMA HasReadStays ==
    ASSUME IsFiniteSet(RefundHash), BridgeTerms, [BridgeNext]_bridgeVars,
           NEW d \in Daemon, NEW id \in Burns, HasRead(d, id)
    PROVE  HasRead(d, id)'
<1>1. /\ inbox \in [Daemon -> Seq(TrueEvents)] /\ events \in Seq(TrueEvents)
      /\ id \in BurnId
  BY BurnsHaveIds DEF BridgeTerms, EventsTrue
<1>2. CASE Surroundings
  <2>1. CASE UNCHANGED events
    BY <1>2, <2>1, SurroundingsLeave DEF HasRead
  <2>2. ASSUME NEW target, NEW amount, Swap(target, amount)
        PROVE  HasRead(d, id)'
    <3> DEFINE e == Created(NextBurnId, User, target, BurnedAmount(amount))
    <3>1. events' = Append(events, e)
      BY <2>2 DEF Swap, SwapToStellar
    <3>2. ~IsCreated(e, id)
      <4>1. burn_transaction_id \in Nat
        BY PalletAssumption DEF BridgeTerms, TypeOK
      <4> QED
        BY <4>1 DEF Burns, NextBurnId, Created, IsCreated
    <3> HIDE DEF e
    <3> QED
      BY <1>1, <1>2, <3>1, <3>2, SurroundingsLeave, OtherEvent DEF HasRead
  <2> QED
    BY <1>2, <2>1, <2>2, SurroundingsLeave
<1>3. CASE EndBlock
  <2>1. PICK es \in Seq(TrueEvents) :
          /\ inbox'[d] = inbox[d] \/ inbox'[d] = inbox[d] \o ByType(es)
          /\ \A i \in DOMAIN es : IsCreated(es[i], id)
               => i \in DOMAIN events /\ es[i] = events[i]
    BY <1>1, <1>3, DeliveredOfBurn
  <2>2. \A i \in DOMAIN es : ~IsCreated(es[i], id)
    BY <2>1 DEF HasRead, Announced
  <2>3. ~Announced(inbox'[d], id)
    <3>1. CASE inbox'[d] = inbox[d] \o ByType(es)
      <4>0. inbox[d] \in Seq(TrueEvents)
        BY <1>1
      <4>1. PICK p \in [1..Len(es) -> 1..Len(es)] :
              Continues(inbox'[d], inbox[d], es, p)
        BY <3>1, <4>0, ReadAfter
      <4>2. DOMAIN es = 1..Len(es)
        OBVIOUS
      <4> QED
        BY <2>2, <4>1, <4>2 DEF HasRead, Announced, Continues
    <3> QED
      BY <2>1, <3>1 DEF HasRead
  <2>4. ~Announced(events', id)
    BY <1>1, <1>3, DeliveredOfBurn DEF Announced
  <2> QED
    BY <2>3, <2>4 DEF HasRead
<1>4. ASSUME NEW c \in Daemon, Acts(c)
      PROVE  HasRead(d, id)'
  <2>1. ~Announced(events', id)
    <3>1. ~Announced(events, id)
      BY DEF HasRead
    <3>2. ASSUME NEW e, events' = Append(events, e),
                 e.type \in {"BurnTransactionReady", "RefundTransactionReady"}
          PROVE  ~Announced(events', id)
      <4>1. ~IsCreated(e, id)
        BY <3>2 DEF IsCreated
      <4> QED
        BY <1>1, <3>1, <3>2, <4>1, OtherEvent
    <3> QED
      BY <1>4, <3>1, <3>2, ActsOnEvents
  <2>2. ~Announced(inbox'[d], id)
    <3>1. \/ inbox'[d] = inbox[d]
          \/ inbox[d] # <<>> /\ inbox'[d] = Tail(inbox[d])
          \/ inbox'[d] = <<>>
      BY <1>1, <1>4, ActsOnEvents
    <3>2. inbox[d] # <<>> /\ Announced(Tail(inbox[d]), id) => Announced(inbox[d], id)
      <4>1. \A es \in Seq(TrueEvents) :
              es # <<>> /\ Announced(Tail(es), id) => Announced(es, id)
        BY DEF Announced
      <4> QED
        BY <1>1, <4>1
    <3>3. ~Announced(<<>>, id) /\ ~Announced(inbox[d], id)
      BY DEF HasRead, Announced
    <3> QED
      BY <3>1, <3>2, <3>3
  <2> QED
    BY <2>1, <2>2 DEF HasRead
<1> QED
  BY <1>2, <1>3, <1>4, EveryStep DEF Acts

\* A pending burn keeps the block it waits from until the end of a block.
LEMMA PendingKeepsBlock ==
    ASSUME TypeOK, [Next]_palletVars, NEW id \in BurnId, id \in Burns,
           block' = block, burn_transactions'[id] # None
    PROVE  /\ burn_transactions[id] # None
           /\ burn_transactions'[id].block = burn_transactions[id].block
<1>1. /\ burn_transactions[id] \in BurnTransaction \cup {None}
      /\ block \in Nat /\ burn_transaction_id \in Nat
  BY PalletAssumption DEF TypeOK
<1>2. CASE BurnLeft(id)
  BY <1>2 DEF BurnLeft
<1>3. CASE BurnSigned(id)
  BY <1>1, <1>3, SignedBlock DEF BurnSigned, SignedTx
<1>4. ~BurnCreated(id) /\ ~BurnExecuted(id) /\ ~BurnReset(id)
  BY <1>1 DEF Burns, BurnCreated, BurnExecuted, BurnReset
<1> QED
  BY <1>2, <1>3, <1>4, BurnSteps DEF BurnStep

\* Nothing can expire in the block that it waits from.
LEMMA NotExpiredYet ==
    ASSUME NEW id \in ExpiredBurns, block \in Nat
    PROVE  burn_transactions[id] # None /\ burn_transactions[id].block # block
BY PalletAssumption DEF ExpiredBurns, Expires

\* A swap is announced last in its block, with an id that no one has heard of.
LEMMA SwapReadInOrder ==
    ASSUME BridgeTerms, NEW id \in BurnId, ReadInOrder(id), NEW target, NEW amount,
           Swap(target, amount)
    PROVE  ReadInOrder(id)'
<1> DEFINE new == NextBurnId
           e == Created(new, User, target, BurnedAmount(amount))
<1>1. /\ inbox \in [Daemon -> Seq(TrueEvents)] /\ events \in Seq(TrueEvents)
      /\ burn_transactions \in [BurnId -> BurnTransaction \cup {None}]
      /\ new \notin Burns /\ new \in BurnId
  BY PalletAssumption
     DEF BridgeTerms, EventsTrue, TypeOK, Burns, NextBurnId, Swap, SwapToStellar
<1>2. /\ UNCHANGED <<inbox, block>> /\ events' = Append(events, e)
      /\ \A i \in BurnId \ {new} : burn_transactions'[i] = burn_transactions[i]
      /\ burn_transactions'[new].block = block
  BY <1>1 DEF Swap, SwapToStellar, loopVars
<1>3. IsCreated(e, id) <=> id = new
  BY DEF Created, IsCreated
<1> HIDE DEF new, e
<1>4. CASE id # new
  <2>1. /\ Announced(events', id) <=> Announced(events, id)
        /\ \A i \in DOMAIN events' : IsCreated(events'[i], id)
             => i \in DOMAIN events /\ events'[i] = events[i]
    BY <1>1, <1>2, <1>3, <1>4, OtherEvent
  <2> QED
    BY <1>2, <1>4, <2>1 DEF ReadInOrder
<1>5. CASE id = new
  <2>1. ~Announced(events, id) /\ \A d \in Daemon : ~Asked(inbox[d], id)
    BY <1>1, <1>5, NewBurnUnread
  <2>2. \A i \in DOMAIN events' : IsCreated(events'[i], id) => i = Len(events) + 1
    <3>1. \A i \in DOMAIN events' : i = Len(events) + 1 \/
            (i \in DOMAIN events /\ events'[i] = events[i])
      BY <1>1, <1>2
    <3> QED
      BY <2>1, <3>1 DEF Announced
  <2> QED
    BY <1>2, <1>5, <2>1, <2>2 DEF ReadInOrder
<1> QED
  BY <1>4, <1>5

\* The end of a block brings the creation of a burn before any expiry of it.
LEMMA BlockReadInOrder ==
    ASSUME IsFiniteSet(RefundHash), BridgeTerms, EndBlock, NEW id \in BurnId,
           ReadInOrder(id)
    PROVE  ReadInOrder(id)'
<1>1. /\ inbox \in [Daemon -> Seq(TrueEvents)] /\ events \in Seq(TrueEvents)
      /\ block \in Nat
  BY DEF BridgeTerms, EventsTrue, TypeOK
<1>2. PICK es \in Seq(TrueEvents) :
        /\ \A d \in Daemon : inbox'[d] = inbox[d] \/ inbox'[d] = inbox[d] \o ByType(es)
        /\ \A i \in DOMAIN es : IsCreated(es[i], id)
             => i \in DOMAIN events /\ es[i] = events[i]
        /\ \A i \in DOMAIN es : Asks(es[i], id) /\ ~IsCreated(es[i], id)
             => id \in ExpiredBurns
  BY DeliveredOfBurn
<1>3. events' = <<>>
  BY DEF EndBlock, FinalizeBlock
<1>4. ASSUME NEW d \in Daemon
      PROVE  CreatedFirst(inbox'[d], id)
  <2>0. CreatedFirst(inbox[d], id) /\ inbox[d] \in Seq(TrueEvents)
    BY <1>1 DEF ReadInOrder
  <2>1. CASE inbox'[d] = inbox[d] \o ByType(es)
    <3> DEFINE old == inbox[d]
               news == inbox'[d]
               n == Len(es)
    <3>1. PICK p \in [1..n -> 1..n] : Continues(news, old, es, p)
      BY <2>0, <2>1, ReadAfter
    <3>2. DOMAIN es = 1..n /\ n \in Nat /\ Len(old) \in Nat /\ DOMAIN old = 1..Len(old)
      BY <2>0
    <3>3. SUFFICES ASSUME NEW i \in DOMAIN news, NEW j \in DOMAIN news, i < j,
                          IsCreated(news[j], id), Asks(news[i], id)
                   PROVE  FALSE
      BY DEF CreatedFirst
    <3>4. CASE j \in DOMAIN old /\ news[j] = old[j]
      <4>1. i \in DOMAIN old /\ news[i] = old[i]
        BY <3>1, <3>2, <3>3, <3>4 DEF Continues
      <4> QED
        BY <2>0, <3>3, <3>4, <4>1 DEF CreatedFirst
    <3>5. CASE /\ j \in Nat /\ j > Len(old) /\ j - Len(old) \in 1..n
               /\ news[j] = es[p[j - Len(old)]]
      <4> DEFINE b == p[j - Len(old)]
      <4>1. b \in DOMAIN es /\ b \in DOMAIN events /\ IsCreated(es[b], id)
              /\ IsCreated(events[b], id)
        BY <1>2, <3>2, <3>3, <3>5
      <4>2. /\ Announced(events, id) /\ ~Asked(old, id) /\ id \notin ExpiredBurns
        BY <1>1, <4>1, NotExpiredYet DEF Announced, ReadInOrder
      <4>3. /\ i \in Nat /\ i > Len(old) /\ i - Len(old) \in 1..n
            /\ news[i] = es[p[i - Len(old)]]
        BY <3>1, <3>3, <4>2 DEF Continues, Asked
      <4> DEFINE a == p[i - Len(old)]
      <4>4. a \in DOMAIN es /\ Asks(es[a], id)
        BY <3>2, <3>3, <4>3
      <4>5. a \in DOMAIN events /\ IsCreated(events[a], id)
        BY <1>2, <4>2, <4>4
      <4>6. a = b
        BY <4>1, <4>5 DEF ReadInOrder
      <4>7. i - Len(old) < j - Len(old)
        BY <3>2, <3>3, <3>5, <4>3
      <4> QED
        BY <3>1, <3>5, <4>3, <4>6, <4>7 DEF Continues
    <3> QED
      BY <3>1, <3>3, <3>4, <3>5 DEF Continues
  <2> QED
    BY <1>2, <2>0, <2>1
<1> QED
  BY <1>3, <1>4 DEF ReadInOrder, Announced

\* The order in which a daemon reads of a burn is that of the chain.
LEMMA ReadInOrderStep ==
    ASSUME IsFiniteSet(RefundHash), CallsAreFree, BridgeTerms,
           [BridgeNext]_bridgeVars, NEW id \in BurnId, ReadInOrder(id)
    PROVE  ReadInOrder(id)'
<1>1. /\ inbox \in [Daemon -> Seq(TrueEvents)] /\ events \in Seq(TrueEvents)
      /\ [Next]_palletVars /\ TypeOK
  BY TruthStays DEF BridgeTerms, EventsTrue
<1>2. CASE Surroundings
  <2>1. CASE UNCHANGED <<events, burn_transactions>>
    BY <1>2, <2>1, SurroundingsLeave DEF ReadInOrder
  <2> QED
    BY <1>2, <2>1, SurroundingsLeave, SwapReadInOrder
<1>3. ASSUME NEW c \in Daemon, Acts(c)
      PROVE  ReadInOrder(id)'
  <2>1. /\ Announced(events', id) => Announced(events, id)
        /\ \A i \in DOMAIN events' : IsCreated(events'[i], id)
             => i \in DOMAIN events /\ events'[i] = events[i]
    <3>1. ASSUME NEW e, events' = Append(events, e),
                 e.type \in {"BurnTransactionReady", "RefundTransactionReady"}
          PROVE  <2>1!:
      <4>1. ~IsCreated(e, id)
        BY <3>1 DEF IsCreated
      <4> QED
        BY <1>1, <3>1, <4>1, OtherEvent
    <3> QED
      BY <1>3, <3>1, ActsOnEvents
  <2>2. ASSUME NEW d \in Daemon
        PROVE  /\ CreatedFirst(inbox'[d], id)
               /\ Asked(inbox'[d], id) => Asked(inbox[d], id)
    <3>1. \/ inbox'[d] = inbox[d]
          \/ inbox[d] # <<>> /\ inbox'[d] = Tail(inbox[d])
          \/ inbox'[d] = <<>>
      BY <1>1, <1>3, ActsOnEvents
    <3>2. CreatedFirst(inbox[d], id) /\ inbox[d] \in Seq(TrueEvents)
      BY <1>1 DEF ReadInOrder
    <3>3. CreatedFirst(<<>>, id) /\ ~Asked(<<>>, id)
      BY DEF CreatedFirst, Asked
    <3> QED
      BY <3>1, <3>2, <3>3, RestOfEvents
  <2>3. ASSUME Announced(events, id), burn_transactions'[id] # None
        PROVE  burn_transactions'[id].block = block'
    <3>1. id \in Burns
      BY <1>1, <2>3, NewBurnUnread
    <3>2. block' = block
      BY <1>3, ActsOnEvents
    <3> QED
      BY <1>1, <2>3, <3>1, <3>2, PendingKeepsBlock DEF ReadInOrder
  <2> QED
    BY <2>1, <2>2, <2>3 DEF ReadInOrder
<1> QED
  BY <1>2, <1>3, BlockReadInOrder, EveryStep DEF Acts
-----------------------------------------------------------------------------
(* What the daemons turn to. *)

\* A daemon turns to something else only when it acts.
LEMMA WhoActs ==
    ASSUME CallsAreFree, BridgeTerms, [BridgeNext]_bridgeVars, NEW d \in Daemon,
           job'[d] # job[d]
    PROVE  Acts(d)
<1>1. FactsStay /\ Jobs \subseteq Jobs' /\ job \in [Daemon -> Jobs]
  BY TruthStays DEF BridgeTerms, JobsTrue
<1>2. ~Surroundings /\ ~EndBlock
  BY SurroundingsLeave DEF EndBlock
<1>3. PICK c \in Daemon : Acts(c)
  BY <1>2, EveryStep DEF Acts
<1>4. Turns(c) \/ UNCHANGED job
  BY <1>1, <1>3, DaemonsTurn DEF Acts
<1>5. c = d
  BY <1>1, <1>4 DEF Turns
<1> QED
  BY <1>3, <1>5

\* A vote ends only when it is counted, or the daemon crashes; and so does the
\* call that sets a burn executed.
LEMMA CallsUntilDone ==
    ASSUME NEW d \in Daemon, Acts(d)
    PROVE  /\ job[d].pc = "propose_mint" => RetryProposeMintOrVote(d) \/ CrashBridge(d)
           /\ job[d].pc = "set_burn_executed"
                => RetrySetWithdrawExecuted(d) \/ CrashBridge(d)
BY DEF Acts, HandleWithdraw, HandleWithdrawCreated, HandleBadWithdraw,
       HandleWithdrawExpired, HandleWithdrawReady, FetchBurn, Takes, Mint,
       TakeTransaction, HandleRefund, HandleRefundExpired, HandleRefundReady,
       FetchRefund, Submit, RetryProposeWithdrawOrAddSig, RetrySetWithdrawExecuted,
       CallDeposit, RetryProposeMintOrVote, RetryCreateRefundTransactionOrAddSig,
       RetrySetRefundTransactionExecuted, Retries, SaveStellarCursor, RestartBridge,
       Restart, Idle

\* What is neither a vote on a burn nor a signature or a submission of its payment.
NotOfBurns(todo) ==
    todo.pc \in {"propose_mint", "propose_burn", "submit"} => todo.id \notin BurnId

LEMMA ElsewhereJobs ==
    ASSUME IdsDiffer
    PROVE  /\ NotOfBurns(Idle) /\ \A why : NotOfBurns(Down(why))
           /\ \A todo \in SaveJobs \cup RestJobs : NotOfBurns(todo)
           /\ \A ids : \A todo \in CloseBurn(ids) \cup CloseRefund(ids) : NotOfBurns(todo)
           /\ \A todo \in MintDepositJobs \cup SignRefundJobs \cup SubmitRefundJobs :
                NotOfBurns(todo)
BY DEF NotOfBurns, Idle, Down, SaveJobs, RestJobs, CloseBurn, CloseRefund,
       MintDepositJobs, SignRefundJobs, SubmitRefundJobs, IdsDiffer

\* The handlers of deposits and refunds do not turn to burns.
LEMMA DepositsElsewhere ==
    ASSUME IdsDiffer, BridgeTerms, NEW d \in Daemon,
           \/ Mint(d) \/ TakeTransaction(d) \/ HandleRefund(d)
           \/ SaveStellarCursor(d) \/ CrashBridge(d) \/ RestartBridge(d)
    PROVE  NotOfBurns(job'[d])
<1>0. job \in [Daemon -> Jobs] /\ job[d] \in Jobs
  BY DEF BridgeTerms, JobsTrue
<1>1. ASSUME NEW todo, Does(d, todo)
      PROVE  job'[d] = todo
  BY <1>0, <1>1 DEF Does
<1>2. ASSUME NEW hash \in RefundHash, NEW target, NEW amount, NEW then, NotOfBurns(then),
             SignsRefund(d, hash, target, amount, then)
      PROVE  NotOfBurns(job'[d])
  BY <1>0, <1>1, <1>2 DEF SignsRefund, SignsAndCalls, NotOfBurns
<1>3. CASE Mint(d)
  <2> DEFINE tx == job[d].tx
             next == ToMint(tx, job[d].left - 1)
             save == [pc |-> "save", then |-> next]
  <2>1. tx.hash \in RefundHash
    <3>1. tx \in Deposited /\ account_txs \in Seq(StellarTxs)
      BY <1>0, <1>3, JobAt DEF Mint, Readable, BridgeTerms, StreamShape, DepositTypeOK
    <3>2. tx \in StellarTxs
      BY <3>1 DEF Deposited
    <3> QED
      BY <3>2, DepositAssumption
  <2>2. NotOfBurns(next) /\ NotOfBurns(save)
    BY DEF ToMint, NotOfBurns, Idle
  <2>3. ASSUME NEW todo, todo.pc = "propose_mint", todo.id = tx.hash
        PROVE  NotOfBurns(todo)
    BY <2>1, <2>3 DEF NotOfBurns, IdsDiffer
  <2>4. \/ Does(d, next) \/ Does(d, save)
        \/ \E sender \in DOMAIN Senders(tx) :
             SignsRefund(d, tx.hash, sender, Senders(tx)[sender], save)
        \/ \E sender \in DOMAIN Senders(tx) :
             Does(d, [pc |-> "propose_mint", id |-> tx.hash,
                      target |-> MemoAccount[tx.memo],
                      amount |-> Senders(tx)[sender], then |-> save])
    BY <1>3 DEF Mint
  <2> HIDE DEF tx, next, save
  <2> QED
    BY <1>1, <1>2, <2>1, <2>2, <2>3, <2>4
<1>4. CASE TakeTransaction(d)
  BY <1>0, <1>4 DEF TakeTransaction, ToMint, NotOfBurns, Idle
<1>5. CASE HandleRefundExpired(d)
  <2>1. Head(inbox[d]).hash \in RefundHash
    BY <1>5, TakenIsTrue, EventAt
       DEF HandleRefundExpired, BridgeTerms, RefundExpiredEvents, KnownRefunds
  <2> QED
    BY <1>2, <1>5, <2>1, ElsewhereJobs DEF HandleRefundExpired
<1>6. CASE HandleRefundReady(d)
  BY <1>1, <1>6 DEF HandleRefundReady, NotOfBurns, Idle
<1>7. CASE FetchRefund(d)
  <2>1. job[d].id \in RefundHash
    BY <1>0, <1>7, JobAt DEF FetchRefund
  <2> QED
    BY <1>1, <1>7, <2>1 DEF FetchRefund, NotOfBurns, Down, ToSubmit, IdsDiffer
<1>8. CASE SaveStellarCursor(d)
  <2>1. job[d].then \in RestJobs
    BY <1>0, <1>8, JobAt DEF SaveStellarCursor, SaveJobs
  <2> QED
    BY <1>0, <1>8, <2>1, ElsewhereJobs DEF SaveStellarCursor
<1>9. CASE CrashBridge(d) \/ RestartBridge(d)
  BY <1>0, <1>9, ElsewhereJobs DEF CrashBridge, Crash, RestartBridge, Restart
<1> QED
  BY <1>3, <1>4, <1>5, <1>6, <1>7, <1>8, <1>9 DEF HandleRefund

\* Nor does a call that returns, or a submission that ends.
LEMMA CallsElsewhere ==
    ASSUME IdsDiffer, BridgeTerms, NEW d \in Daemon,
           \/ Submit(d) \/ RetryProposeWithdrawOrAddSig(d)
           \/ RetrySetWithdrawExecuted(d) \/ CallDeposit(d)
    PROVE  job'[d] = job[d] \/ NotOfBurns(job'[d])
<1>0. job \in [Daemon -> Jobs] /\ job[d] \in Jobs
  BY DEF BridgeTerms, JobsTrue
<1>1. CASE Submit(d)
  <2>1. NotOfBurns(job[d].then)
    BY <1>0, <1>1, JobAt, ElsewhereJobs
       DEF Submit, SubmitJobs, SubmitBurnJobs, SubmitRefundJobs
  <2>2. job'[d] = job[d].then \/ job'[d] = Down("submit")
    BY <1>0, <1>1 DEF Submit, AfterError
  <2> QED
    BY <2>1, <2>2, ElsewhereJobs
<1>2. CASE \/ RetryProposeWithdrawOrAddSig(d) \/ RetrySetWithdrawExecuted(d)
           \/ CallDeposit(d)
  <2>1. /\ job[d].pc \in {"propose_burn", "set_burn_executed", "propose_mint",
                          "create_refund", "set_refund_executed"}
        /\ job' = [job EXCEPT ![d] = job[d].then] \/ UNCHANGED job
    BY <1>2 DEF CallDeposit, RetryProposeMintOrVote,
                RetryCreateRefundTransactionOrAddSig,
                RetrySetRefundTransactionExecuted, RetryProposeWithdrawOrAddSig,
                RetrySetWithdrawExecuted, Retries
  <2>2. job[d].then \in {Idle} \cup SaveJobs \cup CloseBurn(Closable)
    BY <1>0, <2>1, JobAt
       DEF CloseBurn, CloseRefund, SignBurnJobs, SignRefundJobs, MintJobs,
           MintBackJobs, MintDepositJobs
  <2> QED
    BY <1>0, <2>1, <2>2, ElsewhereJobs
<1> QED
  BY <1>1, <1>2

\* So a daemon turns to a burn in one of three ways.
LEMMA TurnsToBurn ==
    ASSUME IdsDiffer, BridgeTerms, NEW d \in Daemon, Acts(d), job'[d] # job[d]
    PROVE  \/ NotOfBurns(job'[d])
           \/ HandleBadWithdraw(d) /\ job'[d] = RefundMint(Head(inbox[d]))
           \/ /\ HandleWithdrawCreated(d) \/ HandleWithdrawExpired(d)
              /\ job'[d].pc = "propose_burn" /\ job'[d].id = Head(inbox[d]).id
           \/ /\ FetchBurn(d) /\ job'[d].pc = "submit" /\ job'[d].id = job[d].id
              /\ burn_transactions[job[d].id] # None
              /\ job'[d].signatures = burn_transactions[job[d].id].signatures
<1>0. job \in [Daemon -> Jobs] /\ job[d] \in Jobs
  BY DEF BridgeTerms, JobsTrue
<1>1. ASSUME NEW todo, Does(d, todo)
      PROVE  job'[d] = todo
  BY <1>0, <1>1 DEF Does
<1>2. ASSUME NEW event, SignsBurn(d, event)
      PROVE  job'[d].pc = "propose_burn" /\ job'[d].id = event.id
  BY <1>0, <1>2 DEF SignsBurn, SignsAndCalls
<1>3. CASE HandleWithdrawCreated(d)
  BY <1>1, <1>2, <1>3, ElsewhereJobs DEF HandleWithdrawCreated
<1>4. CASE HandleBadWithdraw(d)
  BY <1>1, <1>4, ElsewhereJobs DEF HandleBadWithdraw
<1>5. CASE HandleWithdrawExpired(d)
  BY <1>1, <1>2, <1>5 DEF HandleWithdrawExpired, NotOfBurns, SetsBurnExecuted
<1>6. CASE HandleWithdrawReady(d)
  BY <1>1, <1>6 DEF HandleWithdrawReady, NotOfBurns, Idle
<1>7. CASE FetchBurn(d)
  BY <1>1, <1>7, ElsewhereJobs DEF FetchBurn, ToSubmit
<1>8. CASE ~HandleWithdraw(d)
  BY <1>8, DepositsElsewhere, CallsElsewhere DEF Acts
<1> QED
  BY <1>3, <1>4, <1>5, <1>6, <1>7, <1>8 DEF HandleWithdraw
-----------------------------------------------------------------------------
(* Who votes, and who signs. *)

\* A mint changes only by the vote of a daemon, which goes on when it is counted.
LEMMA WhoVotes ==
    ASSUME [BridgeNext]_bridgeVars
    PROVE  \/ UNCHANGED mintVars
           \/ \E d \in Daemon :
                /\ job[d].pc = "propose_mint"
                /\ ProposeOrVoteMint(d, job[d].id, job[d].target, job[d].amount)
                /\ job' = [job EXCEPT ![d] = @.then] \/ faults.lossy
<1>1. CASE Surroundings
  BY <1>1 DEF Surroundings, Swap, SwapToStellar, Deposit, ChangeFee, SetDepositFee,
              bridgeVars, daemonVars, palletVars, mintVars
<1>2. CASE EndBlock
  BY <1>2 DEF EndBlock, FinalizeBlock
<1>3. ASSUME NEW d \in Daemon, Acts(d), ~RetryProposeMintOrVote(d)
      PROVE  UNCHANGED mintVars
  <2>1. CASE \/ HandleWithdraw(d) \/ Mint(d) \/ TakeTransaction(d)
             \/ HandleRefund(d) \/ Submit(d)
             \/ SaveStellarCursor(d) \/ CrashBridge(d) \/ RestartBridge(d)
    <3>1. UNCHANGED palletVars
      BY <2>1, HandlersReadOnly
         DEF HandleDeposit, TakeTransaction, Mint, SaveStellarCursor, CrashBridge,
             RestartBridge, Crash, Restart
    <3> QED
      BY <3>1 DEF palletVars
  <2>2. CASE \/ RetryProposeWithdrawOrAddSig(d) \/ RetrySetWithdrawExecuted(d)
             \/ RetryCreateRefundTransactionOrAddSig(d)
             \/ RetrySetRefundTransactionExecuted(d)
    BY <2>2 DEF RetryProposeWithdrawOrAddSig, RetrySetWithdrawExecuted,
                RetryCreateRefundTransactionOrAddSig,
                RetrySetRefundTransactionExecuted, Retries, ProposeBurnOrAddSig,
                SetBurnExecuted, CreateRefundOrAddSig, SetRefundExecuted, palletVars
  <2> QED
    BY <1>3, <2>1, <2>2 DEF Acts, CallDeposit
<1>4. ASSUME NEW d \in Daemon, RetryProposeMintOrVote(d)
      PROVE  \/ UNCHANGED mintVars
             \/ /\ job[d].pc = "propose_mint"
                /\ ProposeOrVoteMint(d, job[d].id, job[d].target, job[d].amount)
                /\ job' = [job EXCEPT ![d] = @.then] \/ faults.lossy
  BY <1>4 DEF RetryProposeMintOrVote, Retries, palletVars
<1> QED
  BY <1>1, <1>2, <1>3, <1>4, EveryStep DEF Acts

\* Burns are written by swaps, at the end of a block and by two calls.
LEMMA WhoWritesBurns ==
    ASSUME [BridgeNext]_bridgeVars
    PROVE  \/ UNCHANGED burnVars
           \/ \E target, amount : Swap(target, amount)
           \/ EndBlock
           \/ \E d \in Daemon : \/ RetryProposeWithdrawOrAddSig(d)
                                \/ RetrySetWithdrawExecuted(d)
<1>1. CASE Surroundings
  BY <1>1 DEF Surroundings, Deposit, ChangeFee, SetDepositFee, daemonVars, palletVars,
              loopVars, stellarVars, faultVars, bridgeVars
<1>2. ASSUME NEW d \in Daemon, Acts(d), ~RetryProposeWithdrawOrAddSig(d),
             ~RetrySetWithdrawExecuted(d)
      PROVE  UNCHANGED burnVars
  <2>1. CASE \/ HandleWithdraw(d) \/ Mint(d) \/ TakeTransaction(d)
             \/ HandleRefund(d) \/ Submit(d)
             \/ SaveStellarCursor(d) \/ CrashBridge(d) \/ RestartBridge(d)
    <3>1. UNCHANGED palletVars
      BY <2>1, HandlersReadOnly
         DEF HandleDeposit, TakeTransaction, Mint, SaveStellarCursor, CrashBridge,
             RestartBridge, Crash, Restart
    <3> QED
      BY <3>1 DEF palletVars
  <2>2. CASE CallDeposit(d)
    BY <2>2 DEF CallDeposit, RetryProposeMintOrVote,
                RetryCreateRefundTransactionOrAddSig,
                RetrySetRefundTransactionExecuted, Retries, ProposeOrVoteMint,
                CreateRefundOrAddSig, SetRefundExecuted, palletVars
  <2> QED
    BY <1>2, <2>1, <2>2 DEF Acts
<1> QED
  BY <1>1, <1>2, EveryStep DEF Acts

\* The signatures of a pending burn are those there were, one more, or none.
LEMMA WhoSigns ==
    ASSUME BridgeTerms, [BridgeNext]_bridgeVars, NEW id \in BurnId
    PROVE  \/ burn_transactions'[id] = burn_transactions[id]
           \/ burn_transactions'[id] = None
           \/ burn_transactions'[id].signatures = <<>>
           \/ \E d \in Daemon : \E signature :
                /\ AddingSig(d, id) /\ ~Burned(id) /\ burn_transactions[id] # None
                /\ burn_transactions'[id].signatures =
                     Append(burn_transactions[id].signatures,
                            [stellar_pub_key |-> KeyOf[d], signature |-> signature])
<1>0. /\ burn_transactions \in [BurnId -> BurnTransaction \cup {None}]
      /\ block \in Nat
  BY DEF BridgeTerms, TypeOK
<1>1. ASSUME NEW target, NEW amount, Swap(target, amount)
      PROVE  \/ burn_transactions'[id] = burn_transactions[id]
             \/ burn_transactions'[id].signatures = <<>>
  BY <1>0, <1>1 DEF Swap, SwapToStellar
<1>2. CASE EndBlock
  <2>1. burn_transactions'[id] = IF id \in ExpiredBurns
                                 THEN Reset(burn_transactions[id])
                                 ELSE burn_transactions[id]
    BY <1>2 DEF EndBlock, FinalizeBlock
  <2>2. id \in ExpiredBurns => burn_transactions[id] \in BurnTransaction
    BY <1>0 DEF ExpiredBurns, Expires
  <2> QED
    BY <2>1, <2>2, ResetSignatures
<1>3. ASSUME NEW d \in Daemon, RetryProposeWithdrawOrAddSig(d)
      PROVE  \/ burn_transactions'[id] = burn_transactions[id]
             \/ \E signature :
                  /\ AddingSig(d, id) /\ ~Burned(id) /\ burn_transactions[id] # None
                  /\ burn_transactions'[id].signatures =
                       Append(burn_transactions[id].signatures,
                              [stellar_pub_key |-> KeyOf[d], signature |-> signature])
  <2> DEFINE tx == job[d].tx
             signature == SignatureOf(KeyOf[d], tx)
  <2>1. CASE UNCHANGED palletVars
    BY <2>1 DEF palletVars, burnVars
  <2>2. CASE /\ job[d].pc = "propose_burn"
             /\ ProposeBurnOrAddSig(d, job[d].id, tx.target, tx.amount, signature,
                                    KeyOf[d], tx.seqno)
    <3> DEFINE m == job[d].id
               old == burn_transactions[m]
               new == WithSignature(old, signature, KeyOf[d], tx.seqno)
    <3>1. /\ executed_burn_transactions[m] = None /\ old # None
          /\ burn_transactions' = [burn_transactions EXCEPT ![m] = new]
      BY <2>2 DEF ProposeBurnOrAddSig
    <3>2. CASE m # id
      BY <1>0, <3>1, <3>2
    <3>3. CASE m = id
      <4>1. old \in BurnTransaction /\ burn_transactions'[id] = new
        BY <1>0, <3>1, <3>3
      <4>2. new.signatures = Append(old.signatures, [stellar_pub_key |-> KeyOf[d],
                                                     signature |-> signature])
        BY <4>1 DEF WithSignature, BurnTransaction
      <4> QED
        BY <2>2, <3>1, <3>3, <4>1, <4>2 DEF AddingSig, Burned
    <3> QED
      BY <3>2, <3>3
  <2> QED
    BY <1>3, <2>1, <2>2 DEF RetryProposeWithdrawOrAddSig, Retries
<1>4. ASSUME NEW d \in Daemon, RetrySetWithdrawExecuted(d)
      PROVE  burn_transactions'[id] \in {burn_transactions[id], None}
  BY <1>0, <1>4 DEF RetrySetWithdrawExecuted, Retries, SetBurnExecuted, Without,
                    palletVars, burnVars
<1> QED
  BY <1>1, <1>2, <1>3, <1>4, WhoWritesBurns DEF burnVars

\* A vote is counted once more, for an open mint, and a majority ends it.
Counted(id) ==
    \E n \in Nat :
      /\ mint_transactions[id] # None => n = mint_transactions[id].votes
      /\ mint_transactions[id] = None => n = 0
      /\ mint_transactions'[id] # None => mint_transactions'[id].votes = n + 1
      /\ executed_mint_transactions'[id] # None => n + 1 >= Majority

\* The votes on a mint are those of the daemons that vote.
LEMMA VotersStep ==
    ASSUME BridgeTerms, [BridgeNext]_bridgeVars, NEW id \in MintId
    PROVE  \/ /\ voters'[id] = voters[id]
              /\ mint_transactions'[id] = mint_transactions[id]
              /\ executed_mint_transactions'[id] = executed_mint_transactions[id]
           \/ \E d \in Daemon :
                /\ Voting(d, id)
                /\ voters'[id] = voters[id] \cup {d}
                /\ executed_mint_transactions[id] = None /\ Counted(id)
                /\ job' = [job EXCEPT ![d] = @.then] \/ faults.lossy
<1>0. /\ id \in MintId /\ voters \in [MintId -> SUBSET Account]
      /\ mint_transactions \in [MintId -> MintTransaction \cup {None}]
      /\ executed_mint_transactions \in [MintId -> MintTransaction \cup {None}]
      /\ None \notin MintTransaction
  BY PalletAssumption DEF BridgeTerms, TypeOK
<1>1. CASE UNCHANGED mintVars
  BY <1>1 DEF mintVars
<1>2. ASSUME NEW d \in Daemon, job[d].pc = "propose_mint",
             ProposeOrVoteMint(d, job[d].id, job[d].target, job[d].amount),
             job' = [job EXCEPT ![d] = @.then] \/ faults.lossy
      PROVE  \/ /\ voters'[id] = voters[id]
                /\ mint_transactions'[id] = mint_transactions[id]
                /\ executed_mint_transactions'[id] = executed_mint_transactions[id]
             \/ /\ Voting(d, id)
                /\ voters'[id] = voters[id] \cup {d}
                /\ executed_mint_transactions[id] = None /\ Counted(id)
  <2> DEFINE m == job[d].id
             found == IF mint_transactions[m] # None
                      THEN mint_transactions[m]
                      ELSE [amount |-> job[d].amount, target |-> job[d].target,
                            block |-> block, votes |-> 0]
             tx == [found EXCEPT !.votes = @ + 1]
             done == [tx EXCEPT !.block = block]
  <2>1. /\ executed_mint_transactions[m] = None
        /\ voters' = [voters EXCEPT ![m] = @ \cup {d}]
        /\ \/ /\ mint_transactions' = [mint_transactions EXCEPT ![m] = tx]
              /\ UNCHANGED executed_mint_transactions
           \/ /\ Decided(tx)
              /\ mint_transactions' = [mint_transactions EXCEPT ![m] = None]
              /\ executed_mint_transactions' =
                   [executed_mint_transactions EXCEPT ![m] = done]
    BY <1>2 DEF ProposeOrVoteMint, VoteMint, MintTft, MintOpen, Without
  <2>2. CASE m # id
    BY <1>0, <2>1, <2>2
  <2>3. CASE m = id
    <3>1. /\ found.votes \in Nat /\ tx.votes = found.votes + 1
      BY <1>0, <2>3 DEF MintTransaction
    <3>2. /\ mint_transactions'[id] # None => mint_transactions'[id].votes = found.votes + 1
          /\ executed_mint_transactions'[id] # None => found.votes + 1 >= Majority
      <4>1. tx.votes >= Majority \/ UNCHANGED executed_mint_transactions
        BY <2>1 DEF Decided
      <4>2. mint_transactions'[id] = tx \/ mint_transactions'[id] = None
        <5> HIDE DEF tx
        <5> QED
          BY <1>0, <2>1, <2>3
      <4> HIDE DEF tx, found
      <4> QED
        BY <2>1, <2>3, <3>1, <4>1, <4>2
    <3>3. Counted(id)
      BY <2>3, <3>1, <3>2 DEF Counted
    <3> QED
      BY <1>0, <1>2, <2>1, <2>3, <3>3 DEF Voting
  <2> QED
    BY <2>2, <2>3
<1> QED
  BY <1>1, <1>2, WhoVotes
-----------------------------------------------------------------------------
(* Daemons settle once. *)

\* With the first that a daemon takes of a burn it has read of its creation.
LEMMA AfterAsking ==
    ASSUME BridgeTerms, NEW d \in Daemon, NEW type, Takes(d, type),
           NEW id \in BurnId, ReadInOrder(id), Asks(Head(inbox[d]), id)
    PROVE  HasRead(d, id)' /\ id \in Burns /\ job[d] = Idle
<1>1. /\ inbox[d] \in Seq(TrueEvents) /\ inbox[d] # <<>> /\ inbox'[d] = Tail(inbox[d])
      /\ events' = events /\ job[d] = Idle
  BY DEF Takes, BridgeTerms, EventsTrue, palletVars
<1>2. Asked(inbox[d], id) /\ ~Announced(inbox'[d], id)
  BY <1>1, RestOfEvents DEF ReadInOrder
<1>3. ~Announced(events, id)
  BY <1>2 DEF ReadInOrder
<1>4. id \in Burns
  BY <1>1, <1>2, NewBurnUnread
<1> QED
  BY <1>1, <1>2, <1>3, <1>4 DEF HasRead

\* A burn that is executed stays so.
LEMMA BurnedStays ==
    ASSUME TypeOK, [Next]_palletVars, NEW id \in BurnId, Burned(id)
    PROVE  Burned(id)'
BY BurnSteps
   DEF BurnStep, BurnLeft, BurnCreated, BurnSigned, BurnExecuted, BurnReset, Burned

\* A daemon that has not voted and has read of the creation never votes.
LEMMA SettledStays ==
    ASSUME IsFiniteSet(RefundHash), CallsAreFree, IdsDiffer, BridgeTerms,
           [BridgeNext]_bridgeVars, NEW d \in Daemon, NEW id \in BurnId, Settled(d, id)
    PROVE  Settled(d, id)'
<1>1. id \in Burns' /\ HasRead(d, id)'
  BY TruthStays, HasReadStays DEF FactsStay, Settled
<1>2. d \notin voters'[id]
  BY VotersStep, WithdrawAssumption DEF Settled
<1>3. ~(job'[d].pc = "propose_mint" /\ job'[d].id = id)
  <2>1. CASE job'[d] = job[d]
    BY <2>1 DEF Settled, Voting
  <2>2. CASE job'[d] # job[d]
    <3>1. ~(HandleBadWithdraw(d) /\ Head(inbox[d]).id = id)
      <4> SUFFICES ASSUME HandleBadWithdraw(d), Head(inbox[d]).id = id
                   PROVE  FALSE
        OBVIOUS
      <4>1. /\ Head(inbox[d]).type = "BurnTransactionCreated"
            /\ inbox[d] \in Seq(TrueEvents) /\ inbox[d] # <<>>
        BY DEF HandleBadWithdraw, Takes, BridgeTerms, EventsTrue
      <4>2. Announced(inbox[d], id)
        BY <4>1 DEF Announced, IsCreated
      <4> QED
        BY <4>2 DEF Settled, HasRead
    <3>2. Acts(d)
      BY <2>2, WhoActs
    <3>3. RefundMint(Head(inbox[d])).id = Head(inbox[d]).id
      BY DEF RefundMint
    <3>4. \/ NotOfBurns(job'[d])
          \/ HandleBadWithdraw(d) /\ job'[d] = RefundMint(Head(inbox[d]))
          \/ job'[d].pc \in {"propose_burn", "submit"}
      BY <2>2, <3>2, TurnsToBurn
    <3>5. NotOfBurns(job'[d]) => ~(job'[d].pc = "propose_mint" /\ job'[d].id = id)
      BY DEF NotOfBurns
    <3> QED
      BY <3>1, <3>3, <3>4, <3>5
  <2> QED
    BY <2>1, <2>2
<1> QED
  BY <1>1, <1>2, <1>3 DEF Settled, Voting

\* So those that a burn is settled on become no fewer.
LEMMA SettledOnGrows ==
    ASSUME IsFiniteSet(RefundHash), CallsAreFree, IdsDiffer, BridgeTerms,
           [BridgeNext]_bridgeVars, NEW id \in BurnId
    PROVE  /\ SettledOn(id) \subseteq SettledOn(id)'
           /\ IsFiniteSet(SettledOn(id)) /\ IsFiniteSet(SettledOn(id)')
           /\ Cardinality(SettledOn(id)) \in Nat
           /\ Cardinality(SettledOn(id)) <= Cardinality(SettledOn(id)')
<1>1. SettledOn(id) \subseteq SettledOn(id)'
  BY SettledStays DEF SettledOn
<1>2. IsFiniteSet(Daemon)
  BY PalletAssumption, FS_Subset DEF Daemon
<1>3. SettledOn(id) \in SUBSET Daemon /\ SettledOn(id)' \in SUBSET Daemon
  BY DEF SettledOn
<1>4. IsFiniteSet(SettledOn(id)) /\ IsFiniteSet(SettledOn(id)')
  BY <1>2, <1>3, FS_Subset
<1>5. Cardinality(SettledOn(id)) <= Cardinality(SettledOn(id)')
  <2> DEFINE S == SettledOn(id)
             T == SettledOn(id)'
  <2> HIDE DEF S, T
  <2>1. S \in SUBSET T /\ IsFiniteSet(T)
    BY <1>1, <1>4 DEF S, T
  <2>2. Cardinality(S) <= Cardinality(T)
    BY <2>1, FS_Subset
  <2> QED
    BY <2>2 DEF S, T
<1> QED
  BY <1>1, <1>4, <1>5, FS_CardinalityType
-----------------------------------------------------------------------------
(* Daemons that vote. *)

\* What was quiet after a step was so before it, and nothing broke.
LEMMA QuietStep ==
    ASSUME BridgeTerms, [BridgeNext]_bridgeVars, Quiet'
    PROVE  Quiet /\ \A d \in Daemon : ~CrashBridge(d)
<1>1. breaks \in Nat /\ breaks' = 0 /\ ~faults'.lossy
  BY DaemonAssumption DEF BridgeTerms, FaultsShape, Quiet
<1>2. UNCHANGED faults
  BY FaultsStay
<1>3. ASSUME NEW d \in Daemon, CrashBridge(d)
      PROVE  FALSE
  BY <1>1, <1>3 DEF CrashBridge, Crash
<1>4. CASE Surroundings
  BY <1>1, <1>2, <1>3, <1>4, SurroundingsLeave DEF Quiet
<1>5. CASE EndBlock
  <2>1. PICK deaf \in SUBSET {d \in Daemon : job[d].pc # "down"} :
          breaks' = breaks + Cardinality(deaf)
    BY <1>5 DEF EndBlock
  <2>2. Cardinality(deaf) \in Nat
    <3>1. deaf \in SUBSET Account
      BY DaemonsAreAccounts
    <3> QED
      BY <3>1, PalletAssumption, FS_Subset, FS_CardinalityType
  <2>3. breaks = 0
    BY <1>1, <2>1, <2>2
  <2> QED
    BY <1>1, <1>2, <1>3, <2>3 DEF Quiet
<1>6. ASSUME NEW d \in Daemon, Acts(d), ~CrashBridge(d)
      PROVE  UNCHANGED breaks
  <2>1. CASE HandleWithdraw(d) \/ HandleRefund(d)
    BY <2>1 DEF HandleWithdraw, HandleWithdrawCreated, HandleBadWithdraw,
                HandleWithdrawExpired, HandleWithdrawReady, FetchBurn, HandleRefund,
                HandleRefundExpired, HandleRefundReady, FetchRefund, Takes, faultVars
  <2>2. CASE \/ RetryProposeWithdrawOrAddSig(d) \/ RetrySetWithdrawExecuted(d)
             \/ CallDeposit(d)
    BY <2>2 DEF CallDeposit, RetryProposeMintOrVote,
                RetryCreateRefundTransactionOrAddSig,
                RetrySetRefundTransactionExecuted, RetryProposeWithdrawOrAddSig,
                RetrySetWithdrawExecuted, Retries, faultVars
  <2>3. CASE \/ Mint(d) \/ TakeTransaction(d) \/ Submit(d) \/ SaveStellarCursor(d)
             \/ RestartBridge(d)
    BY <2>3 DEF Mint, TakeTransaction, Submit, SaveStellarCursor, RestartBridge,
                Restart, faultVars
  <2> QED
    BY <1>6, <2>1, <2>2, <2>3 DEF Acts
<1> QED
  BY <1>1, <1>2, <1>3, <1>4, <1>5, <1>6, EveryStep DEF Quiet, Acts

\* A vote on a burn is on one that there is.
LEMMA VotingOnABurn ==
    ASSUME IdsDiffer, BridgeTerms, NEW d \in Daemon, NEW id \in BurnId, Voting(d, id)
    PROVE  id \in Burns
<1>1. job[d] \in MintJobs /\ job[d].id = id
  BY JobAt DEF Voting, BridgeTerms, JobsTrue
<1> QED
  BY <1>1 DEF MintJobs, MintBackJobs, MintDepositJobs, Closable, IdsDiffer

\* A daemon that goes on from setting a burn executed finds it executed.
LEMMA ClosingEnds ==
    ASSUME CallsAreFree, BridgeTerms, [BridgeNext]_bridgeVars, NEW d \in Daemon,
           NEW id \in BurnId, Closing(d, id), job'[d] # job[d], ~CrashBridge(d)
    PROVE  Burned(id)'
<1>1. /\ executed_burn_transactions \in [BurnId -> BurnTransaction \cup {None}]
      /\ job \in [Daemon -> Jobs]
  BY DEF BridgeTerms, TypeOK, JobsTrue
<1>2. RetrySetWithdrawExecuted(d)
  BY WhoActs, CallsUntilDone DEF Closing
<1>3. SetBurnExecuted(d, id) \/ (Burned(id) /\ UNCHANGED palletVars)
  BY <1>2 DEF RetrySetWithdrawExecuted, Retries, Closing
<1>4. CASE SetBurnExecuted(d, id)
  BY <1>1, <1>4 DEF SetBurnExecuted, Burned
<1>5. CASE Burned(id) /\ UNCHANGED palletVars
  BY <1>5 DEF Burned, palletVars, burnVars
<1> QED
  BY <1>3, <1>4, <1>5

\* A daemon votes on a burn once, when it has read of its creation.
LEMMA VotesOnceStep ==
    ASSUME IsFiniteSet(RefundHash), CallsAreFree, IdsDiffer, BridgeTerms,
           [BridgeNext]_bridgeVars, Quiet', NEW id \in BurnId,
           ReadInOrder(id), VotesOnce(id), VotersClose(id)
    PROVE  VotesOnce(id)'
<1>1. SUFFICES ASSUME NEW d \in Daemon, job'[d].pc = "propose_mint", job'[d].id = id
               PROVE  /\ d \notin voters'[id] /\ HasRead(d, id)'
                      /\ job'[d].then = SetsBurnExecuted(id)
  BY DEF VotesOnce, Voting, SetsBurnExecuted
<1>2. job \in [Daemon -> Jobs] /\ ~faults.lossy
  BY QuietStep DEF BridgeTerms, JobsTrue, Quiet
<1>3. CASE job'[d] = job[d]
  <2>1. Voting(d, id) /\ id \in Burns
    BY <1>1, <1>3, VotingOnABurn DEF Voting
  <2>2. d \notin voters[id] /\ HasRead(d, id) /\ job[d].then = SetsBurnExecuted(id)
    BY <2>1 DEF VotesOnce
  <2>3. job' # [job EXCEPT ![d] = @.then]
    BY <1>1, <1>2, <1>3, <2>2 DEF SetsBurnExecuted
  <2>4. d \notin voters'[id]
    BY <1>2, <2>2, <2>3, VotersStep, WithdrawAssumption
  <2> QED
    BY <1>3, <2>1, <2>2, <2>4, HasReadStays
<1>4. CASE job'[d] # job[d]
  <2>1. HandleBadWithdraw(d) /\ job'[d] = RefundMint(Head(inbox[d]))
    BY <1>1, <1>4, WhoActs, TurnsToBurn DEF NotOfBurns
  <2>2. Head(inbox[d]).id = id /\ job'[d].then = SetsBurnExecuted(id)
    BY <1>1, <2>1 DEF RefundMint
  <2>3. HasRead(d, id)' /\ job[d] = Idle /\ ~Burned(id)
    BY <2>1, <2>2, AfterAsking DEF HandleBadWithdraw, Takes, Asks
  <2>4. ~Closing(d, id) /\ ~Voting(d, id)
    BY <2>3 DEF Idle, Closing, Voting
  <2>5. d \notin voters[id]
    BY <2>3, <2>4 DEF VotersClose
  <2> QED
    BY <2>2, <2>3, <2>4, <2>5, VotersStep, WithdrawAssumption
<1> QED
  BY <1>3, <1>4

\* One that has voted sets the burn executed before it reads on.
LEMMA VotersCloseStep ==
    ASSUME IsFiniteSet(RefundHash), CallsAreFree, IdsDiffer, BridgeTerms,
           [BridgeNext]_bridgeVars, Quiet', NEW id \in BurnId,
           VotesOnce(id), VotersClose(id)
    PROVE  VotersClose(id)'
<1>1. SUFFICES ASSUME NEW d \in voters'[id]
               PROVE  /\ d \in Daemon /\ id \in Burns' /\ HasRead(d, id)'
                      /\ Burned(id)' \/ Closing(d, id)'
  BY DEF VotersClose
<1>2. /\ job \in [Daemon -> Jobs] /\ ~faults.lossy /\ (d \in Daemon => ~CrashBridge(d))
      /\ Burns \subseteq Burns' /\ TypeOK /\ [Next]_palletVars
  BY QuietStep, TruthStays DEF BridgeTerms, JobsTrue, Quiet, FactsStay
<1>3. CASE d \in voters[id]
  <2>1. d \in Daemon /\ id \in Burns /\ HasRead(d, id) /\ (Burned(id) \/ Closing(d, id))
    BY <1>3 DEF VotersClose
  <2>2. Burned(id) => Burned(id)'
    BY <1>2, BurnedStays
  <2>3. Closing(d, id) => Burned(id)' \/ Closing(d, id)'
    BY <1>2, <2>1, ClosingEnds DEF Closing
  <2> QED
    BY <1>2, <2>1, <2>2, <2>3, HasReadStays
<1>4. CASE d \notin voters[id]
  <2>1. d \in Daemon /\ Voting(d, id) /\ job' = [job EXCEPT ![d] = @.then]
    BY <1>1, <1>2, <1>4, QuietStep, VotersStep, WithdrawAssumption DEF Quiet
  <2>2. HasRead(d, id) /\ job'[d] = SetsBurnExecuted(id) /\ id \in Burns
    BY <1>2, <2>1, VotingOnABurn DEF VotesOnce
  <2> QED
    BY <1>2, <2>1, <2>2, HasReadStays DEF Closing, SetsBurnExecuted
<1> QED
  BY <1>3, <1>4
-----------------------------------------------------------------------------
(* Daemons that sign. *)

\* A daemon that takes up the payment of a burn is settled, or the burn is executed.
LEMMA SigningStep ==
    ASSUME IsFiniteSet(RefundHash), CallsAreFree, IdsDiffer, BridgeTerms,
           [BridgeNext]_bridgeVars, NEW id \in BurnId, ReadInOrder(id),
           VotersClose(id), SettledSign(id),
           NEW d \in Daemon, job'[d].pc = "propose_burn", job'[d].id = id
    PROVE  Burned(id)' \/ Settled(d, id)'
<1>1. TypeOK /\ [Next]_palletVars /\ Burns \subseteq Burns'
  BY TruthStays DEF BridgeTerms, FactsStay
<1>2. Burned(id) => Burned(id)'
  BY <1>1, BurnedStays
<1>3. CASE job'[d] = job[d]
  BY <1>2, <1>3, SettledStays DEF SettledSign, AddingSig
<1>4. CASE job'[d] # job[d]
  <2>1. /\ HandleWithdrawCreated(d) \/ HandleWithdrawExpired(d)
        /\ Head(inbox[d]).id = id
    <3>1. RefundMint(Head(inbox[d])).pc = "propose_mint"
      BY DEF RefundMint
    <3>2. ~NotOfBurns(job'[d])
      BY DEF NotOfBurns
    <3> QED
      BY <1>4, <3>1, <3>2, WhoActs, TurnsToBurn
  <2>2. HasRead(d, id)' /\ job[d] = Idle /\ id \in Burns
    <3>1. \/ Takes(d, "BurnTransactionCreated")
          \/ Takes(d, "BurnTransactionExpired")
      BY <2>1 DEF HandleWithdrawCreated, HandleWithdrawExpired
    <3>2. Asks(Head(inbox[d]), id)
      BY <2>1, <3>1 DEF Takes, Asks
    <3> QED
      BY <3>1, <3>2, AfterAsking
  <2>3. ~Closing(d, id) /\ ~Voting(d, id)
    BY <2>2 DEF Idle, Closing, Voting
  <2>4. CASE d \in voters[id]
    BY <1>2, <2>3, <2>4 DEF VotersClose
  <2>5. CASE d \notin voters[id]
    <3>1. d \notin voters'[id]
      BY <2>3, <2>5, VotersStep, WithdrawAssumption
    <3> QED
      BY <1>1, <2>2, <3>1 DEF Settled, Voting
  <2> QED
    BY <2>4, <2>5
<1> QED
  BY <1>3, <1>4

\* The signatures that a pending burn has are of settled daemons.
LEMMA SignedStep ==
    ASSUME IsFiniteSet(RefundHash), CallsAreFree, IdsDiffer, BridgeTerms,
           [BridgeNext]_bridgeVars, NEW id \in BurnId, SettledSign(id),
           burn_transactions'[id] # None
    PROVE  SignedBy(burn_transactions'[id].signatures, SettledOn(id)')
<1> DEFINE old == burn_transactions[id].signatures
           new == burn_transactions'[id].signatures
<1>1. /\ burn_transactions[id] # None => old \in Seq(StellarSignature)
      /\ TypeOK
  BY DEF BridgeTerms, TypeOK, BurnTransaction
<1>2. CASE burn_transactions'[id] = burn_transactions[id]
  <2>1. SignedBy(old, SettledOn(id))
    BY <1>2 DEF SettledSign
  <2> QED
    BY <1>2, <2>1, SettledOnGrows DEF SignedBy
<1>3. CASE new = <<>>
  BY <1>3 DEF SignedBy
<1>4. ASSUME NEW d \in Daemon, NEW signature, AddingSig(d, id), ~Burned(id),
             burn_transactions[id] # None,
             new = Append(old, [stellar_pub_key |-> KeyOf[d], signature |-> signature])
      PROVE  SignedBy(burn_transactions'[id].signatures, SettledOn(id)')
  <2>1. SignedBy(old, SettledOn(id)) /\ d \in SettledOn(id)'
    BY <1>4, SettledOnGrows DEF SettledSign, SettledOn
  <2>2. \A i \in DOMAIN new :
          \/ i \in DOMAIN old /\ new[i] = old[i]
          \/ new[i] = [stellar_pub_key |-> KeyOf[d], signature |-> signature]
    BY <1>1, <1>4
  <2>3. \A i \in DOMAIN new :
          \E c \in SettledOn(id)' : KeyOf[c] = new[i].stellar_pub_key
    BY <2>1, <2>2, SettledOnGrows DEF SignedBy
  <2> QED
    BY <2>3 DEF SignedBy
<1> QED
  BY <1>2, <1>3, <1>4, WhoSigns

\* What a daemon submits has the signatures of as many settled daemons.
LEMMA SubmittingStep ==
    ASSUME IsFiniteSet(RefundHash), CallsAreFree, IdsDiffer, BridgeTerms,
           SignersDistinct, [BridgeNext]_bridgeVars, NEW id \in BurnId,
           SettledSign(id),
           NEW d \in Daemon, job'[d].pc = "submit", job'[d].id = id
    PROVE  SignedBy(job'[d].signatures, SettledOn(id)') /\ DistinctKeys(job'[d].signatures)
<1>1. SignedBy(job'[d].signatures, SettledOn(id)) /\ DistinctKeys(job'[d].signatures)
  <2>1. CASE job'[d] = job[d]
    BY <2>1 DEF SettledSign, Submitting
  <2>2. CASE job'[d] # job[d]
    <3>1. /\ burn_transactions[id] # None
          /\ job'[d].signatures = burn_transactions[id].signatures
      <4>1. RefundMint(Head(inbox[d])).pc = "propose_mint"
        BY DEF RefundMint
      <4>2. ~NotOfBurns(job'[d])
        BY DEF NotOfBurns
      <4> QED
        BY <2>2, <4>1, <4>2, WhoActs, TurnsToBurn
    <3> QED
      BY <3>1 DEF SettledSign, SignersDistinct, DistinctSigners, DistinctKeys
  <2> QED
    BY <2>1, <2>2
<1> QED
  BY <1>1, SettledOnGrows DEF SignedBy

\* So only settled daemons sign the payment of a burn.
LEMMA SettledSignStep ==
    ASSUME IsFiniteSet(RefundHash), CallsAreFree, IdsDiffer, BridgeTerms,
           SignersDistinct, [BridgeNext]_bridgeVars, NEW id \in BurnId,
           ReadInOrder(id), VotersClose(id), SettledSign(id)
    PROVE  SettledSign(id)'
<1>1. ASSUME NEW d \in Daemon, AddingSig(d, id)'
      PROVE  Burned(id)' \/ Settled(d, id)'
  BY <1>1, SigningStep DEF AddingSig
<1>2. ASSUME NEW d \in Daemon, Submitting(d, id)'
      PROVE  /\ SignedBy(job'[d].signatures, SettledOn(id)')
             /\ DistinctKeys(job'[d].signatures)
  BY <1>2, SubmittingStep DEF Submitting, DistinctKeys
<1> QED
  BY <1>1, <1>2, SignedStep DEF SettledSign
-----------------------------------------------------------------------------
(* How many they are. *)

\* Signatures of different signers are of as many daemons.
LEMMA EnoughSigners ==
    ASSUME NEW S, NEW signatures \in Seq(S), NEW daemons, IsFiniteSet(daemons),
           SignedBy(signatures, daemons), DistinctKeys(signatures),
           Len(signatures) >= SignatureCount
    PROVE  Cardinality(daemons) >= SignatureCount
<1> DEFINE n == SignatureCount
           key(i) == signatures[i].stellar_pub_key
           f == [i \in 1..n |-> CHOOSE d \in daemons : KeyOf[d] = key(i)]
<1>1. n \in Nat /\ 1..n \subseteq DOMAIN signatures
  BY DaemonAssumption
<1>2. \A i \in 1..n : \E d \in daemons : KeyOf[d] = key(i)
  BY <1>1 DEF SignedBy
<1>3. \A i, j \in 1..n : i # j => key(i) # key(j)
  BY <1>1 DEF DistinctKeys
<1> HIDE DEF n, key
<1>4. f \in [1..n -> daemons] /\ \A i \in 1..n : KeyOf[f[i]] = key(i)
  BY <1>2
<1> HIDE DEF f
<1>5. f \in Injection(1..n, daemons)
  BY <1>3, <1>4 DEF Injection, IsInjective
<1>6. Cardinality(1..n) <= Cardinality(daemons)
  BY <1>5, FS_Injection
<1>7. Cardinality(1..n) = n
  BY <1>1, FS_Interval
<1>8. Cardinality(daemons) \in Nat
  BY FS_CardinalityType
<1> QED
  BY <1>1, <1>6, <1>7, <1>8 DEF n

\* A payment of a burn has the signatures of settled daemons.
LEMMA PaidBySettledStep ==
    ASSUME IsFiniteSet(RefundHash), CallsAreFree, IdsDiffer, BridgeTerms,
           [BridgeNext]_bridgeVars, NEW id \in BurnId, SettledSign(id), PaidBySettled(id)
    PROVE  PaidBySettled(id)'
<1> DEFINE settled == Cardinality(SettledOn(id))
           after == Cardinality(SettledOn(id)')
<1>0. /\ settled \in Nat /\ after \in Nat /\ settled <= after
      /\ IsFiniteSet(SettledOn(id)) /\ SignatureCount \in Nat
  BY SettledOnGrows, FS_CardinalityType, DaemonAssumption
<1>1. payments \in Seq([id : BurnId \cup RefundHash, tx : PaymentTx])
  BY DEF BridgeTerms, StellarShape, AccountShape
<1>2. CASE UNCHANGED payments
  BY <1>0, <1>2 DEF PaidBySettled, Paid, PaymentsOf
<1>3. ASSUME NEW d \in Daemon, Paying(d), job[d].id # id
      PROVE  Paid(id)' => Paid(id)
  BY <1>1, <1>3 DEF Paying, Paid, PaymentsOf
<1>4. ASSUME NEW d \in Daemon, Paying(d), job[d].id = id
      PROVE  settled >= SignatureCount
  <2> DEFINE signatures == job[d].signatures
  <2>1. Submitting(d, id) /\ Len(signatures) >= SignatureCount
    BY <1>4 DEF Paying, Submitting, Verified
  <2>2. signatures \in Seq(StellarSignature)
    BY <2>1, JobAt DEF Submitting, BridgeTerms, JobsTrue, SubmitJobs, SubmitBurnJobs,
                       SubmitRefundJobs
  <2>3. SignedBy(signatures, SettledOn(id)) /\ DistinctKeys(signatures)
    BY <2>1 DEF SettledSign
  <2> HIDE DEF signatures
  <2> QED
    BY <1>0, <2>1, <2>2, <2>3, EnoughSigners
<1> HIDE DEF settled, after
<1>5. Paid(id)' => after >= SignatureCount
  <2>1. settled >= SignatureCount => after >= SignatureCount
    BY <1>0
  <2>2. Paid(id) => settled >= SignatureCount
    BY DEF PaidBySettled, settled
  <2>3. CASE UNCHANGED payments
    BY <2>1, <2>2, <2>3 DEF Paid, PaymentsOf
  <2> QED
    BY <1>3, <1>4, <2>1, <2>2, <2>3, OnlySubmitPays DEF stellarVars
<1> QED
  BY <1>5 DEF PaidBySettled, after

\* The validators of the pallet are those it began with.
LEMMA ValidatorsStay ==
    ASSUME [BridgeNext]_bridgeVars
    PROVE  UNCHANGED validators
<1>1. CASE EndBlock
  BY <1>1 DEF EndBlock, FinalizeBlock, adminVars
<1>2. ASSUME NEW d \in Daemon, Acts(d)
      PROVE  UNCHANGED validators
  BY <1>2, ActsOnEvents
<1> QED
  BY <1>1, <1>2, SurroundingsLeave, EveryStep DEF Acts

\* A mint has a voter for each of its votes.
LEMMA VotesAreOfVotersStep ==
    ASSUME BridgeTerms, [BridgeNext]_bridgeVars, NEW id \in MintId,
           \A d \in Daemon : Voting(d, id) => d \notin voters[id],
           VotesAreOfVoters(id)
    PROVE  VotesAreOfVoters(id)'
<1> DEFINE old == Cardinality(voters[id])
           new == Cardinality(voters'[id])
<1>0. /\ voters \in [MintId -> SUBSET Account]
      /\ mint_transactions \in [MintId -> MintTransaction \cup {None}]
  BY DEF BridgeTerms, TypeOK
<1>1. IsFiniteSet(voters[id]) /\ old \in Nat
  <2>1. voters[id] \in SUBSET Account
    BY <1>0
  <2> QED
    BY <2>1, PalletAssumption, FS_Subset, FS_CardinalityType
<1>2. Majority' = Majority /\ Majority \in Nat
  BY ValidatorsStay, MajorityType DEF Majority, BridgeTerms
<1>3. CASE /\ voters'[id] = voters[id]
           /\ mint_transactions'[id] = mint_transactions[id]
           /\ executed_mint_transactions'[id] = executed_mint_transactions[id]
  BY <1>2, <1>3 DEF VotesAreOfVoters, Minted
<1>4. ASSUME NEW d \in Daemon, Voting(d, id), voters'[id] = voters[id] \cup {d},
             executed_mint_transactions[id] = None, Counted(id)
      PROVE  VotesAreOfVoters(id)'
  <2>1. d \notin voters[id]
    BY <1>4
  <2>2. new = old + 1
    BY <1>1, <1>4, <2>1, FS_AddElement
  <2>3. PICK n \in Nat :
          /\ mint_transactions[id] # None => n = mint_transactions[id].votes
          /\ mint_transactions[id] = None => n = 0
          /\ mint_transactions'[id] # None => mint_transactions'[id].votes = n + 1
          /\ executed_mint_transactions'[id] # None => n + 1 >= Majority
    BY <1>4 DEF Counted
  <2>4. n <= old
    <3>1. mint_transactions[id] # None => mint_transactions[id].votes <= old
      BY DEF VotesAreOfVoters
    <3> HIDE DEF old
    <3> QED
      BY <1>1, <2>3, <3>1
  <2> HIDE DEF old, new
  <2>5. n + 1 <= new /\ new \in Nat
    BY <1>1, <2>2, <2>4
  <2>6. mint_transactions'[id] # None => mint_transactions'[id].votes <= new
    BY <2>3, <2>5
  <2>7. executed_mint_transactions'[id] # None => new >= Majority'
    BY <1>2, <2>3, <2>5
  <2> QED
    BY <2>6, <2>7 DEF VotesAreOfVoters, Minted, new
<1> QED
  BY <1>3, <1>4, VotersStep
-----------------------------------------------------------------------------
(* The invariant, and the theorem. *)

\* At the start nothing is read, voted for or paid.
LEMMA OneWayInit ==
    ASSUME DepositInit
    PROVE  OneWay
<1>1. /\ validators = Daemon /\ events = <<>> /\ payments = <<>>
      /\ \A d \in Daemon : inbox[d] = <<>> /\ job[d] = Idle
      /\ \A id \in BurnId : /\ burn_transactions[id] = None
                            /\ mint_transactions[id] = None
                            /\ executed_mint_transactions[id] = None
                            /\ voters[id] = {}
  BY WithdrawAssumption DEF DepositInit, DaemonInit, Init, Daemon
<1>2. ASSUME NEW id \in BurnId
      PROVE  ReadInOrder(id)
  BY <1>1 DEF ReadInOrder, CreatedFirst, Announced
<1>3. ASSUME NEW id \in BurnId
      PROVE  OneWayFor(id)
  <2>1. \A d \in Daemon : ~Voting(d, id) /\ ~AddingSig(d, id) /\ ~Submitting(d, id)
    BY <1>1 DEF Idle, Voting, AddingSig, Submitting
  <2>2. ~Paid(id) /\ ~Minted(id) /\ voters[id] = {}
    BY <1>1 DEF Paid, PaymentsOf, Minted
  <2>3. VotesOnce(id) /\ VotersClose(id) /\ SettledSign(id)
    BY <1>1, <2>1, <2>2 DEF VotesOnce, VotersClose, SettledSign
  <2> QED
    BY <1>1, <2>2, <2>3 DEF OneWayFor, PaidBySettled, VotesAreOfVoters
<1> QED
  BY <1>1, <1>2, <1>3 DEF OneWay

\* Every step keeps the parts, in the order they rest on each other.
LEMMA OneWayStep ==
    ASSUME IsFiniteSet(RefundHash), CallsAreFree, IdsDiffer, BridgeTerms,
           SignersDistinct, OneWay, [BridgeNext]_bridgeVars
    PROVE  OneWay'
<1>1. validators' = Daemon
  BY ValidatorsStay DEF OneWay
<1>2. ASSUME NEW id \in BurnId
      PROVE  ReadInOrder(id)'
  BY ReadInOrderStep DEF OneWay
<1>3. ASSUME Quiet', NEW id \in BurnId
      PROVE  OneWayFor(id)'
  <2>1. ReadInOrder(id) /\ OneWayFor(id)
    BY <1>3, QuietStep DEF OneWay
  <2>2. /\ VotesOnce(id) /\ VotersClose(id) /\ SettledSign(id)
        /\ PaidBySettled(id) /\ VotesAreOfVoters(id)
    BY <2>1 DEF OneWayFor
  <2>3. VotesOnce(id)' /\ VotersClose(id)'
    BY <1>3, <2>1, <2>2, VotesOnceStep, VotersCloseStep
  <2>4. SettledSign(id)'
    BY <2>1, <2>2, SettledSignStep
  <2>5. PaidBySettled(id)' /\ VotesAreOfVoters(id)'
    BY <2>2, PaidBySettledStep, VotesAreOfVotersStep, WithdrawAssumption DEF VotesOnce
  <2> QED
    BY <2>3, <2>4, <2>5 DEF OneWayFor
<1> QED
  BY <1>1, <1>2, <1>3 DEF OneWay

\* With quorums that meet there are not enough daemons to sign and others to vote.
LEMMA NotEnoughForTwo ==
    ASSUME QuorumsMeet, validators = Daemon, NEW S, NEW V,
           S \subseteq Daemon, V \subseteq Daemon, S \cap V = {},
           Cardinality(S) >= SignatureCount, Cardinality(V) >= Majority
    PROVE  FALSE
<1>1. IsFiniteSet(Daemon) /\ Majority = Cardinality(Daemon) \div 2 + 1
  BY PalletAssumption, FS_Subset DEF Daemon, Majority
<1>2. /\ IsFiniteSet(S) /\ IsFiniteSet(V)
      /\ Cardinality(S) \in Nat /\ Cardinality(V) \in Nat
      /\ Cardinality(Daemon) \in Nat
  BY <1>1, FS_Subset, FS_CardinalityType
<1>3. Cardinality(S \cup V) = Cardinality(S) + Cardinality(V)
  <2>1. Cardinality(S \cap V) = 0
    BY FS_EmptySet
  <2>2. Cardinality(S \cup V) = Cardinality(S) + Cardinality(V) - Cardinality(S \cap V)
    BY <1>2, FS_Union
  <2> QED
    BY <1>2, <2>1, <2>2
<1>4. Cardinality(S \cup V) <= Cardinality(Daemon)
  <2>1. S \cup V \in SUBSET Daemon
    OBVIOUS
  <2> QED
    BY <1>1, <2>1, FS_Subset
<1> QED
  BY <1>1, <1>2, <1>3, <1>4, DaemonAssumption DEF QuorumsMeet

\* Those that sign a payment and those that vote to mint the burn back are different
\* daemons.
LEMMA NotEnoughForBoth ==
    ASSUME QuorumsMeet, OneWay
    PROVE  NotPaidAndRefunded
<1> SUFFICES ASSUME Quiet, NEW id \in BurnId, Paid(id), Minted(id)
             PROVE  FALSE
  BY DEF NotPaidAndRefunded, Quiet
<1>1. /\ validators = Daemon /\ VotersClose(id) /\ PaidBySettled(id)
      /\ VotesAreOfVoters(id)
  BY DEF OneWay, OneWayFor
<1>2. Cardinality(SettledOn(id)) >= SignatureCount /\ Cardinality(voters[id]) >= Majority
  BY <1>1 DEF PaidBySettled, VotesAreOfVoters
<1>3. /\ SettledOn(id) \subseteq Daemon /\ voters[id] \subseteq Daemon
      /\ SettledOn(id) \cap voters[id] = {}
  BY <1>1 DEF SettledOn, Settled, VotersClose
<1> QED
  BY <1>1, <1>2, <1>3, NotEnoughForTwo

\* A burn is never both paid on Stellar and minted back on tfchain, however the
\* checks of the daemons differ (withdraw.go:27), their calls interleave and expiries
\* come in between, as long as no daemon breaks or repeats a vote: for any daemons
\* and any number of burns and deposits, if the two quorums have a daemon in common.
THEOREM BurnsGoOneWay ==
    ASSUME IsFiniteSet(RefundHash), CallsAreFree, IdsDiffer, QuorumsMeet
    PROVE  BridgeSpec => []NotPaidAndRefunded
<1>1. BridgeSpec => []BridgeTerms
  BY BridgeTermsInvariant
<1>2. BridgeSpec => []SignersDistinct
  BY BridgeImplementsPallet, SignersAreDistinct, PTL
<1>3. OneWay => NotPaidAndRefunded
  BY NotEnoughForBoth
<1> QED
  BY <1>1, <1>2, <1>3, OneWayInit, OneWayStep, PTL DEF BridgeSpec
=============================================================================
