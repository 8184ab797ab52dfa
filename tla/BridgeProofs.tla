---------------------------- MODULE BridgeProofs ----------------------------
(***************************************************************************)
(* What a daemon takes of a Stellar transaction, and that no transaction is  *)
(* lost, in the whole bridge.                                                *)
(*                                                                         *)
(* The loop of processTransaction adds up for every sender all that it pays   *)
(* to the bridge (stellar.go:404), for any number of operations: after n of   *)
(* them the map holds the sums over the first n.                              *)
(*                                                                         *)
(* Cursors never pass a deposit that nothing was done for (DepositTypeOK     *)
(* and NothingSkipped): for any number of daemons, deposits and swaps, with   *)
(* crashes, torn files, rescans and lost replies.  What a daemon did for a    *)
(* deposit is not undone by any step, and of all it has taken off the stream *)
(* only the last one can be undone, namely while the daemon works on it, and  *)
(* the cursor is saved after that.                                            *)
(***************************************************************************)
EXTENDS Bridge, Sums, TLAPS

-----------------------------------------------------------------------------
(* The loop as a function of the operations that were handled. *)

\* What has a first n operations handled, in terms of what has one less.
Looped(F, ops, s) ==
    IF s = {} THEN <<>> ELSE AddSender(F[s \ {Max(s)}], ops[Max(s)])

IsLoop(F, ops) == F = [s \in SUBSET (DOMAIN ops) |-> Looped(F, ops, s)]

\* Of some operations there is a last one.
LEMMA LastOperation ==
    ASSUME NEW n \in Nat, NEW s \in SUBSET (1..n), s # {}
    PROVE  Max(s) \in s /\ \A i \in s : i <= Max(s)
<1> DEFINE T == {k \in Nat : n - k \in s}
<1>1. T # {}
  <2>1. PICK i \in s : TRUE
    OBVIOUS
  <2>2. n - i \in Nat /\ n - (n - i) = i
    OBVIOUS
  <2> QED
    BY <2>1, <2>2
<1>2. PICK k \in T : \A m \in T : k <= m
  BY <1>1, LeastNumber
<1>3. ASSUME NEW i \in s
      PROVE  n - k >= i
  <2>1. n - i \in Nat /\ n - (n - i) = i /\ i \in Nat
    OBVIOUS
  <2>2. n - i \in T
    BY <2>1
  <2> QED
    BY <1>2, <2>1, <2>2
<1>4. n - k \in s /\ \A i \in s : n - k >= i
  BY <1>3
<1>5. Max(s) \in s /\ \A i \in s : Max(s) >= i
  BY <1>4 DEF Max
<1> QED
  BY <1>5

\* Some of the operations are finitely many, and fewer without one of them.
LEMMA SomeOperations ==
    ASSUME NEW n \in Nat, NEW s \in SUBSET (1..n)
    PROVE  /\ IsFiniteSet(s) /\ Cardinality(s) \in Nat
           /\ Cardinality(s) <= Cardinality(1..n)
           /\ Cardinality(1..n) \in Nat
           /\ \A x \in s : s \ {x} \in SUBSET (1..n)
                          /\ Cardinality(s \ {x}) = Cardinality(s) - 1
<1> DEFINE D == 1..n
<1>1. IsFiniteSet(D)
  BY FS_Interval
<1>2. s \in SUBSET D
  OBVIOUS
<1> HIDE DEF D
<1>3. IsFiniteSet(s) /\ Cardinality(s) <= Cardinality(D)
  BY <1>1, <1>2, FS_Subset
<1>4. \A x \in s : s \ {x} \in SUBSET D
                   /\ Cardinality(s \ {x}) = Cardinality(s) - 1
  BY <1>1, <1>2, Smaller
<1> QED
  BY <1>1, <1>3, <1>4, FS_CardinalityType DEF D

\* There is such a function.
LEMMA LoopExists ==
    ASSUME NEW ops, NEW n \in Nat, DOMAIN ops = 1..n
    PROVE  \E F : IsLoop(F, ops)
<1> DEFINE UpTo(k, F) ==
             /\ F = [s \in SUBSET (1..n) |-> F[s]]
             /\ \A s \in SUBSET (1..n) :
                  Cardinality(s) <= k => F[s] = Looped(F, ops, s)
           reached == {k \in Nat : \E F : UpTo(k, F)}
<1>1. 0 \in reached
  <2> DEFINE F == [s \in SUBSET (1..n) |-> <<>>]
  <2>1. ASSUME NEW s \in SUBSET (1..n), Cardinality(s) <= 0
        PROVE  s = {}
    <3>1. IsFiniteSet(s) /\ Cardinality(s) \in Nat
      BY SomeOperations
    <3> QED
      BY <2>1, <3>1, FS_EmptySet
  <2>2. UpTo(0, F)
    BY <2>1 DEF Looped
  <2> QED
    BY <2>2
<1>2. ASSUME NEW k \in Nat, k \in reached
      PROVE  k + 1 \in reached
  <2>1. PICK F : UpTo(k, F)
    BY <1>2
  <2> DEFINE G == [s \in SUBSET (1..n) |-> IF Cardinality(s) <= k THEN F[s]
                                           ELSE Looped(F, ops, s)]
  <2>2. ASSUME NEW s \in SUBSET (1..n), Cardinality(s) <= k + 1
        PROVE  G[s] = Looped(G, ops, s)
    <3>1. CASE s = {}
      <4>1. Cardinality(s) <= k
        BY <3>1, FS_EmptySet
      <4> QED
        BY <2>1, <3>1, <4>1 DEF Looped
    <3>2. CASE s # {}
      <4>1. Max(s) \in s
        BY <3>2, LastOperation
      <4>2. /\ s \ {Max(s)} \in SUBSET (1..n)
            /\ Cardinality(s \ {Max(s)}) <= k
        <5>1. ASSUME NEW x \in s
              PROVE  s \ {x} \in SUBSET (1..n) /\ Cardinality(s \ {x}) <= k
          BY SMTT(30), <2>2, SomeOperations
        <5> QED
          BY <4>1, <5>1
      <4>3. G[s \ {Max(s)}] = F[s \ {Max(s)}]
        BY <4>2
      <4>4. G[s] = Looped(F, ops, s)
        BY <2>1
      <4> QED
        BY <3>2, <4>3, <4>4 DEF Looped
    <3> QED
      BY <3>1, <3>2
  <2>3. UpTo(k + 1, G)
    BY <2>2
  <2> HIDE DEF G
  <2>4. \E H : UpTo(k + 1, H)
    BY <2>3
  <2> HIDE DEF UpTo
  <2>5. k + 1 \in Nat
    OBVIOUS
  <2> QED
    BY <2>4, <2>5
<1> HIDE DEF reached
<1>3. Cardinality(1..n) \in reached
  <2>1. Cardinality(1..n) \in Nat
    BY SomeOperations
  <2> QED
    BY <1>1, <1>2, <2>1, NumbersInTurn
<1>4. PICK F : UpTo(Cardinality(1..n), F)
  BY <1>3 DEF reached
<1>5. ASSUME NEW s \in SUBSET (1..n)
      PROVE  Cardinality(s) <= Cardinality(1..n)
  BY SomeOperations
<1>6. F = [s \in SUBSET (1..n) |-> Looped(F, ops, s)]
  BY <1>4, <1>5
<1> QED
  BY <1>6 DEF IsLoop

\* The model's fold is that function.
LEMMA SendersIsLoop ==
    ASSUME NEW tx, NEW n \in Nat, DOMAIN tx.operations = 1..n
    PROVE  \E F : IsLoop(F, tx.operations) /\ Senders(tx) = F[1..n]
<1>1. \E F : IsLoop(F, tx.operations)
  BY LoopExists
<1> QED
  BY <1>1 DEF Senders, FoldLeft, MapThenFoldSet, IsLoop, Looped

-----------------------------------------------------------------------------
(* What the map holds after the first n operations. *)

Amounts(ops) == [i \in DOMAIN ops |-> ops[i].amount]

\* The first n of the operations that pay the bridge, and those of one sender.
ToBridge(ops, n) == {i \in 1..n : ops[i].to = BridgeAccount}
FromSender(ops, n, s) == {i \in ToBridge(ops, n) : ops[i].from = s}

Collected(ops, n) ==
    [s \in {ops[i].from : i \in ToBridge(ops, n)} |->
       SumOver(Amounts(ops), FromSender(ops, n, s))]

\* Handling the next operation keeps it so.
LEMMA CollectsNext ==
    ASSUME NEW ops, NEW n \in Nat, DOMAIN ops = 1..n,
           \A i \in 1..n : ops[i].amount \in Int,
           NEW k \in Nat, k + 1 <= n
    PROVE  AddSender(Collected(ops, k), ops[k + 1]) = Collected(ops, k + 1)
<1> DEFINE old == Collected(ops, k)
           op == ops[k + 1]
           from == ops[k + 1].from
<1>1. 1..(k + 1) = (1..k) \cup {k + 1} /\ k + 1 \notin 1..k /\ k + 1 \in 1..n
  OBVIOUS
<1>2. CASE op.to # BridgeAccount
  <2>1. ToBridge(ops, k + 1) = ToBridge(ops, k)
    BY <1>1, <1>2 DEF ToBridge
  <2> QED
    BY <1>2, <2>1 DEF AddSender, Collected, FromSender
<1>3. CASE op.to = BridgeAccount
  <2>1. ToBridge(ops, k + 1) = ToBridge(ops, k) \cup {k + 1}
        /\ k + 1 \notin ToBridge(ops, k)
    BY <1>1, <1>3 DEF ToBridge
  <2>2. {ops[i].from : i \in ToBridge(ops, k + 1)} = DOMAIN old \cup {from}
    BY <2>1 DEF Collected
  <2>3. /\ FromSender(ops, k + 1, from) = FromSender(ops, k, from) \cup {k + 1}
        /\ k + 1 \notin FromSender(ops, k, from)
        /\ \A s : s # from => FromSender(ops, k + 1, s) = FromSender(ops, k, s)
    BY <2>1 DEF FromSender
  <2>4. SumOver(Amounts(ops), FromSender(ops, k + 1, from))
          = op.amount + SumOver(Amounts(ops), FromSender(ops, k, from))
    <3> DEFINE S == FromSender(ops, k + 1, from)
    <3>1. IsFiniteSet(S) /\ S \subseteq 1..n
      <4>1. S \subseteq 1..n
        BY <1>1 DEF FromSender, ToBridge
      <4> QED
        BY <4>1, SomeOperations
    <3>2. \A i \in S : Amounts(ops)[i] \in Int
      BY <3>1 DEF Amounts
    <3>3. k + 1 \in S /\ S \ {k + 1} = FromSender(ops, k, from)
      BY <2>3
    <3>4. Amounts(ops)[k + 1] = op.amount
      BY <1>1 DEF Amounts
    <3> DEFINE f == Amounts(ops)
               x == k + 1
    <3> HIDE DEF S, f, x
    <3>5. SumOver(f, S) = f[x] + SumOver(f, S \ {x})
      BY <3>1, <3>2, <3>3, SumTakeOut DEF f, x
    <3> QED
      BY <3>3, <3>4, <3>5 DEF f, x, S
  <2>5. ASSUME NEW s \in (DOMAIN old \cup {from}) \ {from}
        PROVE  old[s] = SumOver(Amounts(ops), FromSender(ops, k + 1, s))
    BY <2>3 DEF Collected
  <2>6. CASE from \in DOMAIN old
    <3>1. old[from] = SumOver(Amounts(ops), FromSender(ops, k, from))
      BY <2>6 DEF Collected
    <3>2. AddSender(old, op) = [old EXCEPT ![from] = @ + op.amount]
      BY <1>3, <2>6 DEF AddSender
    <3>3. SumOver(Amounts(ops), FromSender(ops, k, from)) \in Int
          /\ op.amount \in Int
      <4>1. FromSender(ops, k, from) \subseteq 1..n
        BY <1>1 DEF FromSender, ToBridge
      <4>2. IsFiniteSet(FromSender(ops, k, from))
        BY <4>1, SomeOperations
      <4> QED
        BY <1>1, <4>1, <4>2, SumType DEF Amounts
    <3>4. old[from] + op.amount
            = SumOver(Amounts(ops), FromSender(ops, k + 1, from))
      BY <2>4, <3>1, <3>3
    <3>5. old = [s \in DOMAIN old |-> old[s]]
      BY DEF Collected
    <3> HIDE DEF old
    <3>6. AddSender(old, op)
            = [s \in DOMAIN old \cup {from} |->
                 SumOver(Amounts(ops), FromSender(ops, k + 1, s))]
      BY <2>5, <2>6, <3>2, <3>4, <3>5
    <3> QED
      BY <2>2, <3>6 DEF Collected, old
  <2>7. CASE from \notin DOMAIN old
    <3>1. FromSender(ops, k, from) = {}
      BY <2>7 DEF Collected, FromSender
    <3>2. op.amount = SumOver(Amounts(ops), FromSender(ops, k + 1, from))
      BY <1>1, <2>4, <3>1, SumEmpty
    <3>3. AddSender(old, op) = Enter(old, from, op.amount)
      BY <1>3, <2>7 DEF AddSender
    <3> HIDE DEF old
    <3>4. AddSender(old, op)
            = [s \in DOMAIN old \cup {from} |->
                 SumOver(Amounts(ops), FromSender(ops, k + 1, s))]
      BY <2>5, <3>2, <3>3 DEF Enter
    <3> QED
      BY <2>2, <3>4 DEF Collected, old
  <2> QED
    BY <2>6, <2>7
<1> QED
  BY <1>2, <1>3

\* So after n operations it holds the sums over the first n.
LEMMA LoopCollects ==
    ASSUME NEW ops, NEW n \in Nat, DOMAIN ops = 1..n,
           \A i \in 1..n : ops[i].amount \in Int,
           NEW F, IsLoop(F, ops)
    PROVE  F[1..n] = Collected(ops, n)
<1> DEFINE done == {k \in Nat : k <= n => F[1..k] = Collected(ops, k)}
<1>1. 0 \in done
  <2>1. 1..0 = {}
    OBVIOUS
  <2>2. F[{}] = <<>>
    BY DEF IsLoop, Looped
  <2>3. ToBridge(ops, 0) = {}
    BY <2>1 DEF ToBridge
  <2>4. Collected(ops, 0) = <<>>
    BY <2>3 DEF Collected
  <2>5. F[1..0] = Collected(ops, 0)
    BY <2>1, <2>2, <2>4
  <2> QED
    BY <2>5
<1>2. ASSUME NEW k \in Nat, k \in done
      PROVE  k + 1 \in done
  <2>1. SUFFICES ASSUME k + 1 <= n
                 PROVE  F[1..(k + 1)] = Collected(ops, k + 1)
    OBVIOUS
  <2>2. F[1..k] = Collected(ops, k)
    BY <1>2, <2>1
  <2>3. Max(1..(k + 1)) = k + 1
    <3> DEFINE m == k + 1
               s == 1..m
    <3>0. m \in Nat /\ 1 <= m
      OBVIOUS
    <3> HIDE DEF m
    <3>1a. m \in s
      BY <3>0
    <3>1. s \in SUBSET (1..m) /\ s # {} /\ m \in s
      BY <3>1a
    <3> HIDE DEF s
    <3>2. Max(s) \in s /\ \A i \in s : i <= Max(s)
      BY <3>0, <3>1, LastOperation
    <3>3. Max(s) = m
      BY <3>0, <3>1, <3>2 DEF s
    <3> QED
      BY <3>3 DEF m, s
  <2>4. (1..(k + 1)) \ {k + 1} = 1..k /\ 1..(k + 1) # {}
    OBVIOUS
  <2>5. F[1..(k + 1)] = Looped(F, ops, 1..(k + 1))
    <3>1. 1..(k + 1) \in SUBSET (DOMAIN ops)
      BY <2>1
    <3> QED
      BY <3>1 DEF IsLoop
  <2>6. F[1..(k + 1)] = AddSender(F[1..k], ops[k + 1])
    BY <2>3, <2>4, <2>5 DEF Looped
  <2> QED
    BY <2>1, <2>2, <2>6, CollectsNext
<1> HIDE DEF done
<1>3. n \in done
  BY <1>1, <1>2, NumbersInTurn
<1> QED
  BY <1>3 DEF done

\* What a sender has sent, as a sum of a function.
LEMMA SentByIsSum ==
    ASSUME NEW tx, NEW n \in Nat, DOMAIN tx.operations = 1..n,
           \A i \in 1..n : tx.operations[i].type = "payment",
           NEW s
    PROVE  SentBy(tx, s)
             = SumOver(Amounts(tx.operations), FromSender(tx.operations, n, s))
<1> DEFINE ops == tx.operations
           S == {i \in DOMAIN tx.operations :
                   /\ tx.operations[i].type = "payment"
                   /\ tx.operations[i].to = BridgeAccount
                   /\ tx.operations[i].from = s}
           Computed(F) == F = [t \in SUBSET S |->
                                 IF t = {} THEN 0
                                 ELSE tx.operations[Pick(t)].amount
                                        + F[t \ {Pick(t)}]]
<1>1. S = FromSender(ops, n, s) /\ S \in SUBSET (1..n)
  BY DEF FromSender, ToBridge
<1>2. IsFiniteSet(S)
  BY <1>1, SomeOperations
<1>3. ASSUME NEW F
      PROVE  IsSum(F, S, Amounts(ops)) <=> Computed(F)
  <2>1. ASSUME NEW t \in SUBSET S, t # {}
        PROVE  Amounts(ops)[Pick(t)] = tx.operations[Pick(t)].amount
    BY <2>1, Picked DEF Amounts
  <2> QED
    BY <2>1 DEF IsSum, Unfolded
<1>4. PICK F : IsSum(F, S, Amounts(ops)) /\ SumOver(Amounts(ops), S) = F[S]
  BY <1>2, SumIsSum
<1>5. \E G : Computed(G) /\ SentBy(tx, s) = G[S]
  <2>1. SentBy(tx, s) = MapThenSumSet(LAMBDA i : tx.operations[i].amount, S)
    BY DEF SentBy
  <2> HIDE DEF S
  <2> QED
    BY ZenonT(40), <1>3, <1>4, <2>1 DEF MapThenSumSet, MapThenFoldSet, Pick
<1> HIDE DEF Computed
<1>6. PICK G : Computed(G) /\ SentBy(tx, s) = G[S]
  BY <1>5
<1>7. S \in SUBSET S /\ IsSum(G, S, Amounts(ops))
  BY <1>3, <1>6
<1> HIDE DEF S
<1>8. F[S] = G[S]
  BY <1>2, <1>4, <1>7, SumsAgree
<1> QED
  BY <1>1, <1>4, <1>6, <1>8

-----------------------------------------------------------------------------
(* The deposited amount of each sender, as the handlers of deposits read it,  *)
(* is all that it has sent, whatever the order of the operations and however  *)
(* often a sender pays: for any transaction of payments, of any length.       *)
THEOREM SendersSent ==
    ASSUME NEW tx, NEW n \in Nat, DOMAIN tx.operations = 1..n,
           \A i \in 1..n : /\ tx.operations[i].type = "payment"
                           /\ tx.operations[i].amount \in Nat
    PROVE  Senders(tx)
             = [s \in {tx.operations[i].from :
                         i \in {j \in 1..n : tx.operations[j].to = BridgeAccount}}
                  |-> SentBy(tx, s)]
<1>1. PICK F : IsLoop(F, tx.operations) /\ Senders(tx) = F[1..n]
  BY SendersIsLoop
<1>2. Senders(tx) = Collected(tx.operations, n)
  <2>1. \A i \in 1..n : tx.operations[i].amount \in Int
    OBVIOUS
  <2> QED
    BY <1>1, <2>1, LoopCollects
<1>3. \A s : SentBy(tx, s)
               = SumOver(Amounts(tx.operations), FromSender(tx.operations, n, s))
  BY SentByIsSum
<1> QED
  BY <1>2, <1>3 DEF Collected, ToBridge

\* And it is an amount.
LEMMA SentByType ==
    ASSUME NEW tx, NEW n \in Nat, DOMAIN tx.operations = 1..n,
           \A i \in 1..n : /\ tx.operations[i].type = "payment"
                           /\ tx.operations[i].amount \in Nat,
           NEW s
    PROVE  SentBy(tx, s) \in Nat
<1>1. FromSender(tx.operations, n, s) \in SUBSET (1..n)
  BY DEF FromSender, ToBridge
<1>2. IsFiniteSet(FromSender(tx.operations, n, s))
  BY <1>1, SomeOperations
<1>3. \A i \in FromSender(tx.operations, n, s) : Amounts(tx.operations)[i] \in Nat
  BY <1>1 DEF Amounts
<1> QED
  BY <1>2, <1>3, SentByIsSum, SumIsNat


\* None is not a record of the pallet.
NoneAssumption == "votes" \notin DOMAIN None /\ "signatures" \notin DOMAIN None

-----------------------------------------------------------------------------
(* The steps of the bridge, sorted by what they touch. *)

\* Handlers do not write to the pallet.
LEMMA HandlersReadOnly ==
    ASSUME NEW d,
           HandleWithdraw(d) \/ HandleRefund(d) \/ Submit(d)
    PROVE  UNCHANGED <<palletVars, faults>>
BY DEF HandleWithdraw, HandleWithdrawCreated, HandleBadWithdraw,
       HandleWithdrawExpired, HandleWithdrawReady, FetchBurn, HandleRefund,
       HandleRefundExpired, HandleRefundReady, FetchRefund, Takes, Submit,
       faultVars

\* Calls leave the fees alone.
LEMMA CallsKeepFees ==
    ASSUME NEW d,
           \/ RetryProposeWithdrawOrAddSig(d) \/ RetrySetWithdrawExecuted(d)
           \/ CallDeposit(d)
    PROVE  UNCHANGED <<deposit_fee, faults>>
BY DEF CallDeposit, RetryProposeMintOrVote, RetryCreateRefundTransactionOrAddSig,
       RetrySetRefundTransactionExecuted, RetryProposeWithdrawOrAddSig,
       RetrySetWithdrawExecuted, Retries, ProposeOrVoteMint,
       CreateRefundOrAddSig, SetRefundExecuted, ProposeBurnOrAddSig,
       SetBurnExecuted, palletVars, adminVars, faultVars

\* The steps that touch the stream, a cursor or the deposit fee.
StreamStep ==
    \/ \E tx \in StellarTxs : Deposit(tx)
    \/ \E fee \in Fee : ChangeFee(fee)
    \/ \E d \in Daemon : TakeTransaction(d) \/ SaveStellarCursor(d)
                         \/ CrashBridge(d) \/ RestartBridge(d)

\* All other steps leave the stream, the cursors and the deposit fee alone.
LEMMA OtherSteps ==
    ASSUME [BridgeNext]_bridgeVars
    PROVE  StreamStep \/ UNCHANGED <<depositVars, deposit_fee>>
<1>1. ASSUME NEW target, NEW amount, Swap(target, amount)
      PROVE  UNCHANGED deposit_fee
  BY <1>1 DEF Swap, SwapToStellar, adminVars
<1>2. EndBlock => UNCHANGED deposit_fee
  BY DEF EndBlock, FinalizeBlock, adminVars
<1>3. ASSUME NEW d, Mint(d)
      PROVE  UNCHANGED <<depositVars, deposit_fee>>
  BY <1>3 DEF Mint, palletVars, adminVars
<1>4. UNCHANGED palletVars => UNCHANGED deposit_fee
  BY DEF palletVars, adminVars
<1>5. UNCHANGED bridgeVars => UNCHANGED <<depositVars, deposit_fee>>
  BY <1>4 DEF bridgeVars, daemonVars
<1>6. ASSUME NEW d, HandleWithdraw(d) \/ HandleRefund(d) \/ Submit(d)
      PROVE  UNCHANGED deposit_fee
  BY <1>4, <1>6, HandlersReadOnly
<1>7. ASSUME NEW d, \/ RetryProposeWithdrawOrAddSig(d)
                   \/ RetrySetWithdrawExecuted(d) \/ CallDeposit(d)
      PROVE  UNCHANGED deposit_fee
  BY <1>7, CallsKeepFees
<1>8. CASE DepositNext
  BY <1>2, <1>3, <1>6, <1>7, <1>8 DEF DepositNext, HandleDeposit, StreamStep
<1>9. CASE BridgeNext /\ ~DepositNext
  BY <1>1, <1>6, <1>7, <1>9 DEF BridgeNext
<1> QED
  BY <1>5, <1>8, <1>9

-----------------------------------------------------------------------------
(* The stream and the cursor. *)

StreamShape ==
    /\ DepositTypeOK
    /\ DOMAIN stream = Daemon /\ DOMAIN cursor = Daemon
    /\ DOMAIN start_fee = Daemon
    /\ deposit_fee \in Nat

\* A bridge starts with no transaction on its account.
LEMMA StreamInit ==
    ASSUME PalletAssumption, DepositAssumption, DepositInit
    PROVE  StreamShape
<1>1. account_txs \in Seq(StellarTxs) /\ Len(account_txs) = 0
  BY DEF DepositInit
<1>2. deposit_fee \in Nat
  BY DEF DepositInit, DaemonInit, Init, PalletAssumption
<1> QED
  BY <1>1, <1>2 DEF DepositInit, StreamShape, DepositTypeOK, DepositAssumption

\* A daemon saves no cursor beyond what it has taken off the stream, and starts
\* again from a cursor it saved or from the beginning (bridge.go:47, :75).
LEMMA StreamShapeStep ==
    ASSUME PalletAssumption, StreamShape, [BridgeNext]_bridgeVars
    PROVE  StreamShape'
<1>1. ASSUME NEW tx \in StellarTxs, Deposit(tx)
      PROVE  StreamShape'
  <2>1. /\ account_txs' = Append(account_txs, tx)
        /\ Len(account_txs) < MaxDeposits
        /\ UNCHANGED <<stream, cursor, start_fee, deposit_fee>>
    BY <1>1 DEF Deposit, daemonVars, palletVars, adminVars
  <2>2. /\ account_txs \in Seq(StellarTxs)
        /\ account_txs' \in Seq(StellarTxs)
        /\ Len(account_txs') = Len(account_txs) + 1 /\ Len(account_txs) \in Nat
    BY <2>1 DEF StreamShape, DepositTypeOK
  <2>3. Len(account_txs') <= MaxDeposits
    BY <2>1, <2>2, DepositAssumption DEF DepositAssumption
  <2>4. ASSUME NEW d \in Daemon
        PROVE  /\ stream[d] \in 0..Len(account_txs')
               /\ cursor[d] \in 0..stream[d] \cup {None}
               /\ start_fee[d] \in Nat
    BY <2>2 DEF StreamShape, DepositTypeOK
  <2> QED
    BY <2>1, <2>2, <2>3, <2>4 DEF StreamShape, DepositTypeOK
<1>2. ASSUME NEW fee \in Fee, ChangeFee(fee)
      PROVE  StreamShape'
  <2>1. deposit_fee' \in Nat /\ UNCHANGED depositVars
    BY <1>2 DEF ChangeFee, SetDepositFee, PalletAssumption
  <2> QED
    BY <2>1 DEF StreamShape, DepositTypeOK, depositVars
<1>3. ASSUME NEW d \in Daemon, TakeTransaction(d)
      PROVE  StreamShape'
  <2>1. /\ stream' = [stream EXCEPT ![d] = @ + 1] /\ stream[d] < Len(account_txs)
        /\ UNCHANGED <<account_txs, cursor, start_fee, deposit_fee>>
    BY <1>3 DEF TakeTransaction, palletVars, adminVars
  <2>2. Len(account_txs) \in Nat
    BY DEF StreamShape, DepositTypeOK
  <2>3. ASSUME NEW e \in Daemon
        PROVE  /\ stream'[e] \in 0..Len(account_txs)
               /\ cursor[e] \in 0..stream'[e] \cup {None}
    BY <2>1, <2>2 DEF StreamShape, DepositTypeOK
  <2> QED
    BY <2>1, <2>3 DEF StreamShape, DepositTypeOK
<1>4. ASSUME NEW d \in Daemon, SaveStellarCursor(d)
      PROVE  StreamShape'
  <2>1. /\ cursor' = [cursor EXCEPT ![d] = stream[d]]
        /\ UNCHANGED <<account_txs, stream, start_fee, deposit_fee>>
    BY <1>4 DEF SaveStellarCursor, SavedCursor, palletVars, adminVars
  <2>2. ASSUME NEW e \in Daemon
        PROVE  cursor'[e] \in 0..stream[e] \cup {None}
    BY <2>1 DEF StreamShape, DepositTypeOK
  <2> QED
    BY <2>1, <2>2 DEF StreamShape, DepositTypeOK
<1>5. ASSUME NEW d \in Daemon, CrashBridge(d)
      PROVE  StreamShape'
  <2>1. /\ \E left \in {cursor[d], None} : cursor' = [cursor EXCEPT ![d] = left]
        /\ UNCHANGED <<account_txs, stream, start_fee, deposit_fee>>
    BY <1>5 DEF CrashBridge, Crash, palletVars, adminVars
  <2>2. ASSUME NEW e \in Daemon
        PROVE  cursor'[e] \in 0..stream[e] \cup {None}
    BY <2>1 DEF StreamShape, DepositTypeOK
  <2>3. DOMAIN cursor' = Daemon
    BY <2>1 DEF StreamShape
  <2> QED
    BY <2>1, <2>2, <2>3 DEF StreamShape, DepositTypeOK
<1>6. ASSUME NEW d \in Daemon, RestartBridge(d)
      PROVE  StreamShape'
  <2>1. PICK from \in {cursor[d], 0} :
           /\ cursor' = [cursor EXCEPT ![d] = from]
           /\ stream' = [stream EXCEPT ![d] = from]
    BY <1>6 DEF RestartBridge
  <2>2. /\ cursor[d] # None
        /\ start_fee' = [start_fee EXCEPT ![d] = deposit_fee]
        /\ UNCHANGED <<account_txs, deposit_fee>>
    BY <1>6 DEF RestartBridge, Restart, palletVars, adminVars
  <2>3. from \in 0..Len(account_txs) /\ Len(account_txs) \in Nat
    BY <2>1, <2>2 DEF StreamShape, DepositTypeOK
  <2>4. ASSUME NEW e \in Daemon
        PROVE  /\ stream'[e] \in 0..Len(account_txs)
               /\ cursor'[e] \in 0..stream'[e] \cup {None}
               /\ start_fee'[e] \in Nat
    BY <2>1, <2>2, <2>3 DEF StreamShape, DepositTypeOK
  <2> QED
    BY <2>1, <2>2, <2>4 DEF StreamShape, DepositTypeOK
<1>7. CASE UNCHANGED <<depositVars, deposit_fee>>
  BY <1>7 DEF StreamShape, DepositTypeOK, depositVars
<1> QED
  BY <1>1, <1>2, <1>3, <1>4, <1>5, <1>6, <1>7, OtherSteps DEF StreamStep

\* No daemon ever saves a cursor beyond the transactions it has taken off the
\* stream, or takes one that is not there, whatever breaks or is rescanned.
THEOREM CursorsFollowTheStream == BridgeSpec => []DepositTypeOK
<1>1. DepositInit => StreamShape
  BY StreamInit, PalletAssumption, DepositAssumption
<1>2. StreamShape /\ [BridgeNext]_bridgeVars => StreamShape'
  BY StreamShapeStep, PalletAssumption
<1>3. StreamShape => DepositTypeOK
  BY DEF StreamShape
<1> QED
  BY <1>1, <1>2, <1>3, PTL DEF BridgeSpec

-----------------------------------------------------------------------------
(* What was done for a deposit is not undone. *)

\* The pallet knows of the deposit, by the vote of this validator if it is to be
\* minted.
Known(d, h) ==
    \/ Minted(h)
    \/ mint_transactions[h] # None /\ d \in voters[h]
    \/ refund_transactions[h] # None \/ Refunded(h)

MapShape ==
    /\ DOMAIN mint_transactions = MintId
    /\ DOMAIN executed_mint_transactions = MintId
    /\ DOMAIN voters = MintId
    /\ DOMAIN refund_transactions = RefundHash
    /\ DOMAIN executed_refund_transactions = RefundHash
    /\ \A m \in MintId :
         mint_transactions[m] # None => "votes" \in DOMAIN mint_transactions[m]
    /\ \A h \in RefundHash :
         refund_transactions[h] # None
           => "signatures" \in DOMAIN refund_transactions[h]

KnownStays == \A d \in Daemon, h \in RefundHash : Known(d, h) => Known(d, h)'

\* A step that touches no mint and no refund.
LEMMA MapsLeftAlone ==
    ASSUME MapShape, UNCHANGED <<mintVars, refundVars>>
    PROVE  MapShape' /\ KnownStays
BY DEF MapShape, KnownStays, Known, Minted, Refunded, mintVars, refundVars

\* A vote is counted, or decides and moves the mint to the executed ones.
LEMMA VoteIsKnown ==
    ASSUME NoneAssumption, DepositAssumption, MapShape,
           NEW validator, NEW id, NEW target, NEW amount,
           ProposeOrVoteMint(validator, id, target, amount)
    PROVE  /\ MapShape' /\ KnownStays
           /\ id \in RefundHash => Known(validator, id)'
<1> DEFINE found == IF mint_transactions[id] # None THEN mint_transactions[id]
                    ELSE [amount |-> amount, target |-> target,
                          block |-> block, votes |-> 0]
           tx == [found EXCEPT !.votes = @ + 1]
           closed == [tx EXCEPT !.block = block]
<1>1. /\ \/ /\ mint_transactions' = [mint_transactions EXCEPT ![id] = tx]
            /\ UNCHANGED executed_mint_transactions
         \/ /\ mint_transactions' = [mint_transactions EXCEPT ![id] = None]
            /\ executed_mint_transactions' =
                 [executed_mint_transactions EXCEPT ![id] = closed]
      /\ voters' = [voters EXCEPT ![id] = @ \cup {validator}]
      /\ UNCHANGED refundVars
  BY DEF ProposeOrVoteMint, VoteMint, MintTft, Without
<1>2. ASSUME id \in MintId
      PROVE  "votes" \in DOMAIN tx /\ tx # None /\ closed # None
  <2>1. "votes" \in DOMAIN found
    BY <1>2 DEF MapShape
  <2>2. DOMAIN tx = DOMAIN found /\ DOMAIN closed = DOMAIN found
    OBVIOUS
  <2> QED
    BY <2>1, <2>2 DEF NoneAssumption
<1> HIDE DEF tx, closed
<1>3. MapShape'
  <2>1. ASSUME NEW m \in MintId, mint_transactions'[m] # None
        PROVE  "votes" \in DOMAIN mint_transactions'[m]
    BY <1>1, <1>2, <2>1 DEF MapShape
  <2> QED
    BY <1>1, <2>1 DEF MapShape, refundVars
<1>4. ASSUME NEW d, NEW h \in MintId, Known(d, h) \/ (d = validator /\ h = id)
      PROVE  Known(d, h)'
  <2>1. UNCHANGED <<refund_transactions, executed_refund_transactions>>
    BY <1>1 DEF refundVars
  <2>2. CASE h = id
    BY <1>1, <1>2, <1>4, <2>1, <2>2 DEF MapShape, Known, Minted, Refunded
  <2>3. CASE h # id
    BY <1>1, <1>4, <2>1, <2>3 DEF MapShape, Known, Minted, Refunded
  <2> QED
    BY <2>2, <2>3
<1> QED
  BY <1>3, <1>4 DEF KnownStays, DepositAssumption

\* A refund that is signed is pending.
LEMMA SignedRefundIsKnown ==
    ASSUME NoneAssumption, MapShape,
           NEW validator, NEW hash, NEW target, NEW amount, NEW signature,
           NEW key, NEW seqno,
           CreateRefundOrAddSig(validator, hash, target, amount, signature, key,
                                seqno)
    PROVE  /\ MapShape' /\ KnownStays
           /\ hash \in RefundHash => \A d : Known(d, hash)'
<1> DEFINE found == IF refund_transactions[hash] # None
                    THEN refund_transactions[hash]
                    ELSE [block |-> block, amount |-> amount, target |-> target,
                          signatures |-> <<>>, sequence_number |-> seqno]
           tx == WithSignature(found, signature, key, seqno)
<1>1. /\ refund_transactions' = [refund_transactions EXCEPT ![hash] = tx]
      /\ UNCHANGED <<mintVars, executed_refund_transactions>>
  BY DEF CreateRefundOrAddSig
<1>2. ASSUME hash \in RefundHash
      PROVE  "signatures" \in DOMAIN tx /\ tx # None
  <2>1. "signatures" \in DOMAIN found
    BY <1>2 DEF MapShape
  <2>2. DOMAIN tx = DOMAIN found
    BY DEF WithSignature
  <2> QED
    BY <2>1, <2>2 DEF NoneAssumption
<1> HIDE DEF tx
<1>3. MapShape'
  <2>1. ASSUME NEW h \in RefundHash, refund_transactions'[h] # None
        PROVE  "signatures" \in DOMAIN refund_transactions'[h]
    BY <1>1, <1>2, <2>1 DEF MapShape
  <2> QED
    BY <1>1, <2>1 DEF MapShape, mintVars
<1>4. ASSUME NEW d, NEW h \in RefundHash, Known(d, h) \/ h = hash
      PROVE  Known(d, h)'
  BY <1>1, <1>2, <1>4 DEF MapShape, Known, Minted, Refunded, mintVars
<1> QED
  BY <1>3, <1>4 DEF KnownStays

\* A refund that is executed moves to the executed ones.
LEMMA ExecutedRefundIsKnown ==
    ASSUME MapShape, NEW validator, NEW hash, SetRefundExecuted(validator, hash)
    PROVE  MapShape' /\ KnownStays
<1>1. /\ refund_transactions[hash] # None
      /\ refund_transactions' = [refund_transactions EXCEPT ![hash] = None]
      /\ executed_refund_transactions' =
           [executed_refund_transactions EXCEPT ![hash] = refund_transactions[hash]]
      /\ UNCHANGED mintVars
  BY DEF SetRefundExecuted, Without
<1>2. MapShape'
  BY <1>1 DEF MapShape, mintVars
<1>3. ASSUME NEW d, NEW h \in RefundHash, Known(d, h)
      PROVE  Known(d, h)'
  BY <1>1, <1>3 DEF MapShape, Known, Minted, Refunded, mintVars
<1> QED
  BY <1>2, <1>3 DEF KnownStays

\* A refund that expires stays pending (on_finalize, lib.rs:271).
LEMMA ExpiredRefundIsKnown ==
    ASSUME NoneAssumption, MapShape, EndBlock
    PROVE  MapShape' /\ KnownStays
<1>1. /\ refund_transactions' =
           [h \in RefundHash |-> IF h \in ExpiredRefunds
                                 THEN Reset(refund_transactions[h])
                                 ELSE refund_transactions[h]]
      /\ UNCHANGED <<mintVars, executed_refund_transactions>>
  BY DEF EndBlock, FinalizeBlock
<1>2. ASSUME NEW h \in ExpiredRefunds
      PROVE  /\ refund_transactions[h] # None
             /\ "signatures" \in DOMAIN Reset(refund_transactions[h])
             /\ Reset(refund_transactions[h]) # None
  <2>1. h \in RefundHash /\ refund_transactions[h] # None
    BY DEF ExpiredRefunds, Expires
  <2>2. "signatures" \in DOMAIN refund_transactions[h]
    BY <2>1 DEF MapShape
  <2>3. DOMAIN Reset(refund_transactions[h]) = DOMAIN refund_transactions[h]
    BY DEF Reset
  <2> QED
    BY <2>1, <2>2, <2>3 DEF NoneAssumption
<1>3. MapShape'
  <2>1. ASSUME NEW h \in RefundHash, refund_transactions'[h] # None
        PROVE  "signatures" \in DOMAIN refund_transactions'[h]
    BY <1>1, <1>2, <2>1 DEF MapShape
  <2> QED
    BY <1>1, <2>1 DEF MapShape, mintVars
<1>4. ASSUME NEW d, NEW h \in RefundHash, Known(d, h)
      PROVE  Known(d, h)'
  BY <1>1, <1>2, <1>4 DEF Known, Minted, Refunded, mintVars
<1> QED
  BY <1>3, <1>4 DEF KnownStays

-----------------------------------------------------------------------------
(* Where a daemon is with what it has taken off the stream. *)

Handled(d, i) ==
    ~Claims(account_txs[i]) \/ Known(d, account_txs[i].hash)

\* At the next mint event of tx, or past the last one.
AtEvent(todo, tx) == todo = Idle \/ (todo.pc = "mint" /\ todo.tx = tx)

Saving(todo, tx) == todo.pc = "save" /\ AtEvent(todo.then, tx)

\* At a mint event of tx, up to its vote or refund.
Working(todo, tx) ==
    \/ todo.pc = "mint" /\ todo.tx = tx
    \/ /\ todo.pc \in {"propose_mint", "create_refund"}
       /\ todo.id = tx.hash
       /\ Saving(todo.then, tx)

\* Busy with something that the chain announced, or with nothing.
Elsewhere(todo) ==
    \/ todo.pc \in {"idle", "down", "fetch_burn", "fetch_refund"}
    \/ /\ todo.pc \in {"propose_burn", "set_burn_executed", "create_refund",
                       "set_refund_executed"}
       /\ todo.then = Idle
    \/ /\ todo.pc \in {"submit", "propose_mint"}
       /\ todo.then.pc \in {"set_burn_executed", "set_refund_executed"}
       /\ todo.then.then = Idle

LastTaken(d) == account_txs[stream[d]]

WorkShape(d) ==
    \/ Elsewhere(job[d])
    \/ /\ stream[d] # 0
       /\ Working(job[d], LastTaken(d)) \/ Saving(job[d], LastTaken(d))

\* All that a running daemon has taken is handled, except perhaps the last,
\* while it works on it.
TakenIsHandled(d) ==
    job[d].pc # "down" =>
      \A i \in 1..stream[d] :
        Handled(d, i) \/ (i = stream[d] /\ Working(job[d], LastTaken(d)))

SavedIsHandled(d) ==
    cursor[d] # None => \A i \in 1..cursor[d] : Handled(d, i)

DaemonOK(d) == WorkShape(d) /\ TakenIsHandled(d) /\ SavedIsHandled(d)

\* What was taken off the stream stays there, and what is handled stays so.
StreamKept ==
    \A i \in DOMAIN account_txs : i \in DOMAIN account_txs'
                                  /\ account_txs'[i] = account_txs[i]

\* What was done for a deposit stays done, and a deposit stays at its place.
LEMMA HandledStays ==
    ASSUME DepositAssumption, StreamShape, KnownStays, StreamKept,
           NEW d \in Daemon, NEW i \in DOMAIN account_txs, Handled(d, i)
    PROVE  Handled(d, i)'
<1>1. account_txs[i] \in StellarTxs /\ account_txs[i].hash \in RefundHash
  BY DEF StreamShape, DepositTypeOK, DepositAssumption
<1>2. account_txs'[i] = account_txs[i]
  BY DEF StreamKept
<1>3. Claims(account_txs[i])' <=> Claims(account_txs[i])
  BY <1>2 DEF Claims
<1>4. PICK h \in RefundHash : account_txs[i].hash = h /\ account_txs'[i].hash = h
  BY <1>1, <1>2
<1>5. Known(d, h) => Known(d, h)'
  BY DEF KnownStays
<1>6. /\ Known(d, account_txs[i].hash) <=> Known(d, h)
      /\ Known(d, account_txs[i].hash)' <=> Known(d, h)'
  BY <1>4 DEF Known, Minted, Refunded
<1> QED
  BY <1>3, <1>5, <1>6 DEF Handled

\* The indices that a daemon has taken or saved are of the stream.
LEMMA Indices ==
    ASSUME StreamShape, NEW d \in Daemon
    PROVE  /\ stream[d] \in Nat
           /\ \A i \in 1..stream[d] : i \in DOMAIN account_txs
           /\ stream[d] # 0 => stream[d] \in DOMAIN account_txs
           /\ cursor[d] # None => /\ cursor[d] \in Nat
                                  /\ \A i \in 1..cursor[d] : i \in 1..stream[d]
<1>1. Len(account_txs) \in Nat /\ DOMAIN account_txs = 1..Len(account_txs)
  BY DEF StreamShape, DepositTypeOK
<1>2. stream[d] \in 0..Len(account_txs)
  BY DEF StreamShape, DepositTypeOK
<1>3. cursor[d] # None => cursor[d] \in 0..stream[d]
  BY DEF StreamShape, DepositTypeOK
<1> QED
  BY <1>1, <1>2, <1>3

\* A step in which a daemon takes nothing off the stream and saves no cursor: it
\* goes on from its work only when that is done.
LEMMA GoesOn ==
    ASSUME DepositAssumption, StreamShape, KnownStays, StreamKept,
           NEW d \in Daemon, DaemonOK(d), job[d].pc # "down" \/ job'[d] = job[d],
           stream'[d] = stream[d], cursor'[d] = cursor[d],
           \/ Elsewhere(job'[d])
           \/ /\ stream[d] # 0
              /\ Working(job'[d], LastTaken(d)) \/ Saving(job'[d], LastTaken(d)),
           stream[d] # 0 /\ Working(job[d], LastTaken(d))
             => Working(job'[d], LastTaken(d)) \/ Handled(d, stream[d])'
    PROVE  DaemonOK(d)'
<1>1. stream[d] # 0 => LastTaken(d)' = LastTaken(d)
  BY Indices DEF LastTaken, StreamKept
<1>2. WorkShape(d)'
  BY <1>1 DEF WorkShape, Elsewhere, Working, Saving, AtEvent, Idle
<1>3. ASSUME job'[d].pc # "down", NEW i \in 1..stream[d]
      PROVE  Handled(d, i)' \/ (i = stream[d] /\ Working(job'[d], LastTaken(d)))
  <2>1. i \in DOMAIN account_txs /\ stream[d] # 0
    BY Indices
  <2>2. job[d].pc # "down"
    BY <1>3
  <2>3. Handled(d, i) \/ (i = stream[d] /\ Working(job[d], LastTaken(d)))
    BY <2>2 DEF DaemonOK, TakenIsHandled
  <2> QED
    BY <2>1, <2>3, HandledStays
<1>4. TakenIsHandled(d)'
  <2>1. ASSUME NEW i \in 1..stream[d]
        PROVE  stream[d] # 0
    BY Indices
  <2> QED
    BY <1>1, <1>3, <2>1 DEF TakenIsHandled, Working, Saving, AtEvent, Idle
<1>5. SavedIsHandled(d)'
  BY HandledStays, Indices DEF DaemonOK, SavedIsHandled
<1> QED
  BY <1>2, <1>4, <1>5 DEF DaemonOK

\* A daemon that does nothing in a step.
LEMMA LeftAlone ==
    ASSUME DepositAssumption, StreamShape, KnownStays, StreamKept,
           NEW d \in Daemon, DaemonOK(d), job'[d] = job[d],
           stream'[d] = stream[d], cursor'[d] = cursor[d]
    PROVE  DaemonOK(d)'
BY GoesOn DEF DaemonOK, WorkShape

-----------------------------------------------------------------------------
(* The steps of the pallet and of the stream. *)

\* Every step: the maps keep their shape, and what is known stays known.
LEMMA MapsStep ==
    ASSUME NoneAssumption, DepositAssumption, MapShape, [BridgeNext]_bridgeVars
    PROVE  MapShape' /\ KnownStays
<1>1. UNCHANGED palletVars => UNCHANGED <<mintVars, refundVars>>
  BY DEF palletVars
<1>2. ASSUME NEW target, NEW amount, Swap(target, amount)
      PROVE  UNCHANGED <<mintVars, refundVars>>
  BY <1>2 DEF Swap, SwapToStellar
<1>3. ASSUME NEW d, HandleWithdraw(d) \/ HandleRefund(d) \/ Submit(d)
      PROVE  UNCHANGED <<mintVars, refundVars>>
  BY <1>1, <1>3, HandlersReadOnly
<1>4. ASSUME NEW d, RetryProposeWithdrawOrAddSig(d) \/ RetrySetWithdrawExecuted(d)
      PROVE  UNCHANGED <<mintVars, refundVars>>
  BY <1>1, <1>4 DEF RetryProposeWithdrawOrAddSig, RetrySetWithdrawExecuted,
                    Retries, ProposeBurnOrAddSig, SetBurnExecuted
<1>5. ASSUME NEW d, CallDeposit(d)
      PROVE  MapShape' /\ KnownStays
  <2>1. CASE RetryProposeMintOrVote(d)
    BY <1>1, <2>1, VoteIsKnown, MapsLeftAlone DEF RetryProposeMintOrVote, Retries
  <2>2. CASE RetryCreateRefundTransactionOrAddSig(d)
    BY <1>1, <2>2, SignedRefundIsKnown, MapsLeftAlone
       DEF RetryCreateRefundTransactionOrAddSig, Retries
  <2>3. CASE RetrySetRefundTransactionExecuted(d)
    BY <1>1, <2>3, ExecutedRefundIsKnown, MapsLeftAlone
       DEF RetrySetRefundTransactionExecuted, Retries
  <2> QED
    BY <1>5, <2>1, <2>2, <2>3 DEF CallDeposit
<1>6. ASSUME NEW tx, NEW fee, Deposit(tx) \/ ChangeFee(fee)
      PROVE  UNCHANGED <<mintVars, refundVars>>
  BY <1>6 DEF Deposit, ChangeFee, SetDepositFee, daemonVars, palletVars
<1>7. ASSUME NEW d, \/ TakeTransaction(d) \/ Mint(d) \/ SaveStellarCursor(d)
                   \/ CrashBridge(d) \/ RestartBridge(d)
      PROVE  UNCHANGED <<mintVars, refundVars>>
  BY <1>7 DEF TakeTransaction, Mint, SaveStellarCursor, CrashBridge,
              RestartBridge, Crash, Restart, palletVars
<1>8. UNCHANGED bridgeVars => UNCHANGED <<mintVars, refundVars>>
  BY DEF bridgeVars, daemonVars, palletVars
<1>9. CASE DepositNext
  BY <1>3, <1>5, <1>6, <1>7, <1>9, ExpiredRefundIsKnown, MapsLeftAlone
     DEF DepositNext, HandleDeposit
<1>10. CASE BridgeNext /\ ~DepositNext
  BY <1>2, <1>3, <1>4, <1>10, MapsLeftAlone DEF BridgeNext
<1> QED
  BY <1>8, <1>9, <1>10, MapsLeftAlone

\* The account appends transactions and changes none.
LEMMA StreamIsKept ==
    ASSUME StreamShape, [BridgeNext]_bridgeVars
    PROVE  StreamKept
<1>1. ASSUME NEW tx \in StellarTxs, Deposit(tx)
      PROVE  StreamKept
  <2>1. account_txs \in Seq(StellarTxs) /\ account_txs' = Append(account_txs, tx)
    BY <1>1 DEF Deposit, StreamShape, DepositTypeOK
  <2> QED
    BY <2>1 DEF StreamKept
<1>2. ASSUME NEW d, NEW fee,
             \/ ChangeFee(fee) \/ TakeTransaction(d) \/ SaveStellarCursor(d)
             \/ CrashBridge(d) \/ RestartBridge(d)
      PROVE  UNCHANGED account_txs
  BY <1>2 DEF ChangeFee, TakeTransaction, SaveStellarCursor, CrashBridge,
              RestartBridge, depositVars
<1>3. UNCHANGED account_txs => StreamKept
  BY DEF StreamKept
<1> QED
  BY <1>1, <1>2, <1>3, OtherSteps DEF StreamStep, depositVars

-----------------------------------------------------------------------------
(* The steps of a daemon. *)

\* Handlers of what the chain announced.
LEMMA HandlersTurnElsewhere ==
    ASSUME NEW d \in Daemon, WorkShape(d),
           HandleWithdraw(d) \/ HandleRefund(d) \/ Submit(d)
    PROVE  \E todo : /\ job' = [job EXCEPT ![d] = todo]
                     /\ Elsewhere(todo)
                     /\ job[d].pc \in {"idle", "fetch_burn", "fetch_refund", "submit"}
<1>1. CASE HandleWithdraw(d) /\ ~FetchBurn(d)
  <2> DEFINE event == Head(inbox[d])
             signs == [pc |-> "propose_burn", id |-> event.id,
                       tx |-> StellarTx(event.target, event.amount, None,
                                        wallet_seq[d] + 1),
                       then |-> Idle]
             todos == {Idle, signs, RefundMint(event), SetsBurnExecuted(event.id),
                       [pc |-> "fetch_burn", id |-> event.id]}
  <2>1. job[d] = Idle /\ \E todo \in todos : job' = [job EXCEPT ![d] = todo]
    BY <1>1 DEF HandleWithdraw, HandleWithdrawCreated, HandleBadWithdraw,
                HandleWithdrawExpired, HandleWithdrawReady, SignsBurn,
                SignsAndCalls, Does, Takes
  <2>2. \A todo \in todos : Elsewhere(todo)
    BY DEF Elsewhere, Idle, RefundMint, SetsBurnExecuted
  <2>3. job[d].pc = "idle"
    BY <2>1 DEF Idle
  <2> HIDE DEF todos
  <2> QED
    BY <2>1, <2>2, <2>3
<1>2. CASE FetchBurn(d)
  <2> DEFINE id == job[d].id
             todos == {Down("not_found"), Down("no_signatures"),
                       ToSubmit(id, burn_transactions[id], None, SetsBurnExecuted(id))}
  <2>1. /\ job[d].pc = "fetch_burn"
        /\ \E todo \in todos : job' = [job EXCEPT ![d] = todo]
    BY <1>2 DEF FetchBurn, Does
  <2>2. \A todo \in todos : Elsewhere(todo)
    BY DEF Elsewhere, Idle, Down, ToSubmit, SetsBurnExecuted
  <2> QED
    BY <2>1, <2>2
<1>3. CASE HandleRefund(d) /\ ~FetchRefund(d)
  <2> DEFINE event == Head(inbox[d])
             signs == [pc |-> "create_refund", id |-> event.hash,
                       tx |-> StellarTx(event.target, event.amount, event.hash,
                                        wallet_seq[d] + 1),
                       then |-> Idle]
             todos == {Idle, signs, [pc |-> "fetch_refund", id |-> event.hash]}
  <2>1. job[d] = Idle /\ \E todo \in todos : job' = [job EXCEPT ![d] = todo]
    BY <1>3 DEF HandleRefund, HandleRefundExpired, HandleRefundReady,
                SignsRefund, SignsAndCalls, Does, Takes
  <2>2. \A todo \in todos : Elsewhere(todo)
    BY DEF Elsewhere, Idle
  <2>3. job[d].pc = "idle"
    BY <2>1 DEF Idle
  <2> HIDE DEF todos
  <2> QED
    BY <2>1, <2>2, <2>3
<1>4. CASE FetchRefund(d)
  <2> DEFINE hash == job[d].id
             close == [pc |-> "set_refund_executed", id |-> hash, then |-> Idle]
             todos == {Down("not_found"),
                       ToSubmit(hash, refund_transactions[hash], hash, close)}
  <2>1. /\ job[d].pc = "fetch_refund"
        /\ \E todo \in todos : job' = [job EXCEPT ![d] = todo]
    BY <1>4 DEF FetchRefund, Does
  <2>2. \A todo \in todos : Elsewhere(todo)
    BY DEF Elsewhere, Idle, Down, ToSubmit
  <2> QED
    BY <2>1, <2>2
<1>5. CASE Submit(d)
  <2>1. /\ job[d].pc = "submit"
        /\ \E todo \in {job[d].then, Down("submit")} : job' = [job EXCEPT ![d] = todo]
    BY <1>5 DEF Submit, AfterError
  <2>2. Elsewhere(job[d].then)
    BY <2>1 DEF WorkShape, Working, Saving, Elsewhere
  <2>3. Elsewhere(Down("submit"))
    BY DEF Elsewhere, Down
  <2> QED
    BY <2>1, <2>2, <2>3
<1> QED
  BY <1>1, <1>2, <1>3, <1>4, <1>5

\* The steps of a daemon that leave its stream and its cursor alone.
KeepsStream == UNCHANGED <<stream, cursor, account_txs>>

\* A call goes on when it was done, or when what it is for is done already; then
\* the deposit it was for is known.
LEMMA CallGoesOn ==
    ASSUME NoneAssumption, DepositAssumption, StreamShape, MapShape,
           DOMAIN job = Daemon, KnownStays, KeepsStream,
           NEW d \in Daemon, DaemonOK(d),
           \/ RetryProposeWithdrawOrAddSig(d) \/ RetrySetWithdrawExecuted(d)
           \/ CallDeposit(d)
    PROVE  DaemonOK(d)' /\ \E todo : job' = [job EXCEPT ![d] = todo] \/ UNCHANGED job
<1> DEFINE tx == LastTaken(d)
<1>1. /\ job[d].pc \in {"propose_burn", "set_burn_executed", "propose_mint",
                        "create_refund", "set_refund_executed"}
      /\ job' = [job EXCEPT ![d] = job[d].then] \/ UNCHANGED job
  BY DEF CallDeposit, RetryProposeMintOrVote, RetryCreateRefundTransactionOrAddSig,
         RetrySetRefundTransactionExecuted, RetryProposeWithdrawOrAddSig,
         RetrySetWithdrawExecuted, Retries
<1>2. job'[d] = job[d].then \/ job'[d] = job[d]
  BY <1>1
<1>3. StreamKept
  BY DEF KeepsStream, StreamKept
<1>4. CASE Elsewhere(job[d])
  <2>1. Elsewhere(job[d].then)
    BY <1>1, <1>4 DEF Elsewhere, Idle
  <2>2. ~Working(job[d], tx)
    BY <1>1, <1>4 DEF Elsewhere, Working, Saving, Idle
  <2> QED
    BY <1>1, <1>2, <1>3, <1>4, <2>1, <2>2, GoesOn DEF KeepsStream
<1>5. CASE stream[d] # 0 /\ Working(job[d], tx)
  <2>1. /\ job[d].pc \in {"propose_mint", "create_refund"}
        /\ job[d].id = tx.hash /\ Saving(job[d].then, tx)
    BY <1>1, <1>5 DEF Working
  <2>2. stream[d] \in DOMAIN account_txs
    BY <1>5, Indices
  <2>3. PICK h \in RefundHash : /\ h = job[d].id
                                /\ h = account_txs[stream[d]].hash
    BY <2>1, <2>2 DEF LastTaken, StreamShape, DepositTypeOK, DepositAssumption
  <2>4. job'[d] = job[d] \/ Known(d, h)'
    <3>1. CASE RetryProposeMintOrVote(d)
      <4>1. CASE ProposeOrVoteMint(d, h, job[d].target, job[d].amount)
        BY <4>1, VoteIsKnown
      <4>2. CASE Minted(h) /\ UNCHANGED palletVars
        BY <4>2 DEF Known, Minted, palletVars, mintVars
      <4> QED
        BY <2>3, <3>1, <4>1, <4>2 DEF RetryProposeMintOrVote, Retries
    <3>2. CASE RetryCreateRefundTransactionOrAddSig(d)
      <4> DEFINE call == CreateRefundOrAddSig(d, h, job[d].tx.target,
                           job[d].tx.amount, SignatureOf(KeyOf[d], job[d].tx),
                           KeyOf[d], job[d].tx.seqno)
      <4>1. CASE call
        BY <4>1, SignedRefundIsKnown
      <4>2. CASE Refunded(h) /\ UNCHANGED palletVars
        BY <4>2 DEF Known, Refunded, palletVars, refundVars
      <4> QED
        BY <2>3, <3>2, <4>1, <4>2 DEF RetryCreateRefundTransactionOrAddSig, Retries
    <3> QED
      BY <2>1, <3>1, <3>2 DEF CallDeposit, RetrySetRefundTransactionExecuted,
                              RetryProposeWithdrawOrAddSig,
                              RetrySetWithdrawExecuted, Retries
  <2>5. job'[d] = job[d] \/ Handled(d, stream[d])'
    <3>1. account_txs'[stream'[d]].hash = h
      BY <2>3 DEF KeepsStream
    <3>2. Known(d, account_txs[stream[d]].hash)' <=> Known(d, h)'
      BY <3>1 DEF Known, Minted, Refunded
    <3> QED
      BY <2>4, <3>2 DEF Handled
  <2> QED
    BY <1>1, <1>2, <1>3, <1>5, <2>1, <2>5, GoesOn DEF KeepsStream
<1> QED
  BY <1>1, <1>4, <1>5 DEF DaemonOK, WorkShape, Saving

\* A mint event ends in a vote or a signature, unless the deposit is known or
\* calls for neither (mint.go:23).
LEMMA MintGoesOn ==
    ASSUME DepositAssumption, StreamShape, DOMAIN job = Daemon, KnownStays,
           NEW d \in Daemon, DaemonOK(d), Mint(d)
    PROVE  DaemonOK(d)' /\ \E todo : job' = [job EXCEPT ![d] = todo]
<1> DEFINE tx == job[d].tx
           next == ToMint(tx, job[d].left - 1)
           save == [pc |-> "save", then |-> next]
           signs(sender) == [pc |-> "create_refund", id |-> tx.hash,
                             tx |-> StellarTx(sender, Senders(tx)[sender], tx.hash,
                                              wallet_seq[d] + 1),
                             then |-> save]
           votes(sender) == [pc |-> "propose_mint", id |-> tx.hash,
                             target |-> MemoAccount[tx.memo],
                             amount |-> Senders(tx)[sender], then |-> save]
<1>1. job[d].pc = "mint" /\ UNCHANGED <<palletVars, stream, cursor, account_txs>>
  BY DEF Mint, depositVars
<1>2. tx = LastTaken(d) /\ stream[d] # 0
  BY <1>1 DEF DaemonOK, WorkShape, Elsewhere, Working, Saving
<1>3. AtEvent(next, tx) /\ Saving(save, tx)
  BY DEF AtEvent, Saving, ToMint
<1>4. \A sender : Working(signs(sender), tx) /\ Working(votes(sender), tx)
  BY <1>3 DEF Working
<1> HIDE DEF next, save, signs, votes
<1>5. \E todo :
         /\ job' = [job EXCEPT ![d] = todo]
         /\ Working(todo, tx)
              \/ (todo \in {next, save} /\ (~Claims(tx) \/ Known(d, tx.hash)))
  <2>1. CASE Minted(tx.hash) /\ Does(d, next)
    BY <2>1 DEF Does, Known
  <2>2. CASE MustSkip(tx) /\ Does(d, IF Senders(tx) = <<>> THEN next ELSE save)
    <3>1. ~Claims(tx)
      BY <2>2 DEF Claims
    <3>2. \E todo \in {next, save} : job' = [job EXCEPT ![d] = todo]
      BY <2>2 DEF Does
    <3> QED
      BY <3>1, <3>2
  <2>3. ASSUME NEW sender, SignsRefund(d, tx.hash, sender, Senders(tx)[sender], save)
        PROVE  \E todo :
                 /\ job' = [job EXCEPT ![d] = todo]
                 /\ Working(todo, tx)
                      \/ (todo \in {next, save} /\ (~Claims(tx) \/ Known(d, tx.hash)))
    <3>1. CASE Refunded(tx.hash) /\ Does(d, save)
      BY <3>1 DEF Does, Known
    <3>2. CASE job' = [job EXCEPT ![d] = signs(sender)]
      BY <1>4, <3>2
    <3> QED
      BY <2>3, <3>1, <3>2 DEF SignsRefund, SignsAndCalls, signs
  <2>4. ASSUME NEW sender, Does(d, votes(sender))
        PROVE  \E todo : job' = [job EXCEPT ![d] = todo] /\ Working(todo, tx)
    BY <1>4, <2>4 DEF Does
  <2> QED
    BY <2>1, <2>2, <2>3, <2>4 DEF Mint, next, save, votes
<1>6. PICK todo :
         /\ job' = [job EXCEPT ![d] = todo]
         /\ Working(todo, tx)
              \/ (todo \in {next, save} /\ (~Claims(tx) \/ Known(d, tx.hash)))
  BY <1>5
<1>7. job'[d] = todo
  BY <1>6
<1>8. \/ Elsewhere(todo) \/ Working(todo, tx) \/ Saving(todo, tx)
  BY <1>3, <1>6 DEF Elsewhere, Working, AtEvent, Idle
<1>9. Working(todo, tx) \/ Handled(d, stream[d])'
  <2>1. Handled(d, stream[d])' <=> Handled(d, stream[d])
    BY <1>1 DEF Handled, Claims, Known, Minted, Refunded, palletVars, mintVars,
                refundVars
  <2> QED
    BY <1>2, <1>6, <2>1 DEF Handled, LastTaken
<1>10. StreamKept
  BY <1>1 DEF StreamKept
<1> QED
  BY <1>1, <1>2, <1>6, <1>7, <1>8, <1>9, <1>10, GoesOn

\* A transaction that is taken is the next, and makes all of its mint events
\* when Horizon answers (stellar.go:362).
LEMMA TakeGoesOn ==
    ASSUME DepositAssumption, StreamShape, DOMAIN job = Daemon, ~faults.flaky,
           NEW d \in Daemon, DaemonOK(d), TakeTransaction(d)
    PROVE  DaemonOK(d)' /\ \E todo : job' = [job EXCEPT ![d] = todo]
<1> DEFINE last == stream[d] + 1
           tx == account_txs[last]
           todo == ToMint(tx, MintEvents(tx))
<1>1. /\ job[d] = Idle /\ stream[d] < Len(account_txs)
      /\ stream' = [stream EXCEPT ![d] = last]
      /\ job' = [job EXCEPT ![d] = todo]
      /\ UNCHANGED <<palletVars, account_txs, cursor>>
  BY DEF TakeTransaction
<1>2. /\ stream[d] \in Nat /\ stream'[d] = last /\ job'[d] = todo
  BY <1>1, Indices DEF StreamShape
<1>3. \A i \in DOMAIN account_txs : Handled(d, i) => Handled(d, i)'
  BY <1>1 DEF Handled, Claims, Known, Minted, Refunded, palletVars, mintVars,
              refundVars
<1>4. LastTaken(d)' = tx
  BY <1>1, <1>2 DEF LastTaken
<1>5. \/ todo = Idle /\ ~Claims(tx)
      \/ Working(todo, tx)
  BY DEF ToMint, Claims, Working
<1> HIDE DEF todo
<1>6. WorkShape(d)'
  BY <1>2, <1>4, <1>5 DEF WorkShape, Elsewhere, Working, Saving, AtEvent, Idle
<1>7. ASSUME NEW i \in 1..last
      PROVE  Handled(d, i)' \/ (i = last /\ Working(todo, tx))
  <2>1. CASE i = last
    <3>1. Claims(account_txs[i])' <=> Claims(tx)
      BY <1>1, <2>1 DEF Claims
    <3> QED
      BY <1>5, <2>1, <3>1 DEF Handled
  <2>2. CASE i # last
    <3>1. i \in 1..stream[d] /\ i \in DOMAIN account_txs
      BY <1>2, <2>2, Indices
    <3>2. Handled(d, i)
      BY <1>1, <3>1 DEF DaemonOK, TakenIsHandled, Working, Idle
    <3> QED
      BY <1>3, <3>1, <3>2
  <2> QED
    BY <2>1, <2>2
<1>8. TakenIsHandled(d)'
  BY <1>2, <1>4, <1>7 DEF TakenIsHandled, Working, Saving, AtEvent, Idle
<1>9. SavedIsHandled(d)'
  BY <1>1, <1>3, Indices DEF DaemonOK, SavedIsHandled
<1> QED
  BY <1>1, <1>6, <1>8, <1>9 DEF DaemonOK

\* The cursor is saved when the last taken is handled (mint.go:92).
LEMMA SaveGoesOn ==
    ASSUME DepositAssumption, StreamShape, DOMAIN job = Daemon,
           NEW d \in Daemon, DaemonOK(d), SaveStellarCursor(d)
    PROVE  DaemonOK(d)' /\ \E todo : job' = [job EXCEPT ![d] = todo]
<1>1. /\ job[d].pc = "save" /\ job' = [job EXCEPT ![d] = job[d].then]
      /\ cursor' = [cursor EXCEPT ![d] = stream[d]]
      /\ UNCHANGED <<palletVars, account_txs, stream>>
  BY DEF SaveStellarCursor, SavedCursor
<1>2. job'[d] = job[d].then /\ cursor'[d] = stream[d]
  BY <1>1 DEF StreamShape
<1>3. stream[d] # 0 /\ AtEvent(job[d].then, LastTaken(d))
  BY <1>1 DEF DaemonOK, WorkShape, Elsewhere, Working, Saving
<1>4. \A i \in 1..stream[d] : Handled(d, i)
  BY <1>1 DEF DaemonOK, TakenIsHandled, Working
<1>5. \A i \in 1..stream[d] : Handled(d, i)'
  BY <1>1, <1>4 DEF Handled, Claims, Known, Minted, Refunded, palletVars,
                    mintVars, refundVars
<1>6. LastTaken(d)' = LastTaken(d)
  BY <1>1 DEF LastTaken
<1>7. WorkShape(d)'
  BY <1>1, <1>2, <1>3, <1>6 DEF WorkShape, Elsewhere, Working, AtEvent, Idle
<1> QED
  BY <1>1, <1>2, <1>5, <1>7 DEF DaemonOK, TakenIsHandled, SavedIsHandled

\* What was saved in the file is handled; what was taken beyond it is taken again
\* (bridge.go:75).
LEMMA ProcessGoesOn ==
    ASSUME DepositAssumption, StreamShape, DOMAIN job = Daemon,
           NEW d \in Daemon, DaemonOK(d), CrashBridge(d) \/ RestartBridge(d)
    PROVE  DaemonOK(d)' /\ \E todo : job' = [job EXCEPT ![d] = todo]
<1>1. UNCHANGED <<palletVars, account_txs>>
  BY DEF CrashBridge, Crash, RestartBridge, Restart
<1>2. \A i \in DOMAIN account_txs : Handled(d, i) => Handled(d, i)'
  BY <1>1 DEF Handled, Claims, Known, Minted, Refunded, palletVars, mintVars,
              refundVars
<1>3. cursor[d] # None => \A i \in 1..cursor[d] : Handled(d, i)'
  BY <1>2, Indices DEF DaemonOK, SavedIsHandled
<1>4. CASE CrashBridge(d)
  <2>1. /\ job' = [job EXCEPT ![d] = Down("crash")]
        /\ \E left \in {cursor[d], None} : cursor' = [cursor EXCEPT ![d] = left]
    BY <1>4 DEF CrashBridge, Crash
  <2>2. job'[d].pc = "down" /\ cursor'[d] \in {cursor[d], None}
    BY <2>1 DEF StreamShape, Down
  <2> QED
    BY <1>3, <2>1, <2>2 DEF DaemonOK, WorkShape, Elsewhere, TakenIsHandled,
                            SavedIsHandled
<1>5. CASE RestartBridge(d)
  <2>1. PICK from \in {cursor[d], 0} :
           /\ cursor' = [cursor EXCEPT ![d] = from]
           /\ stream' = [stream EXCEPT ![d] = from]
    BY <1>5 DEF RestartBridge
  <2>2. cursor[d] # None /\ job' = [job EXCEPT ![d] = Idle]
    BY <1>5 DEF RestartBridge, Restart
  <2>3. job'[d] = Idle /\ cursor'[d] = from /\ stream'[d] = from
    BY <2>1, <2>2 DEF StreamShape
  <2>4. \A i \in 1..from : Handled(d, i)'
    BY <1>3, <2>1, <2>2
  <2> QED
    BY <2>2, <2>3, <2>4 DEF DaemonOK, WorkShape, Elsewhere, TakenIsHandled,
                            SavedIsHandled, Idle
<1> QED
  BY <1>4, <1>5

-----------------------------------------------------------------------------
(* The theorem. *)

Cautious ==
    /\ StreamShape /\ MapShape
    /\ ~faults.flaky => DOMAIN job = Daemon /\ \A d \in Daemon : DaemonOK(d)

\* At the start nothing is on the stream.
LEMMA CautiousInit ==
    ASSUME PalletAssumption, DepositAssumption, DepositInit
    PROVE  Cautious
<1>1. MapShape
  BY DEF DepositInit, DaemonInit, Init, MapShape
<1>2. DOMAIN job = Daemon /\ \A d \in Daemon : job[d] = Idle
  BY DEF DepositInit, DaemonInit
<1>3. \A d \in Daemon : stream[d] = 0 /\ cursor[d] = 0
  BY DEF DepositInit
<1>4. \A d \in Daemon : DaemonOK(d)
  BY <1>2, <1>3 DEF DaemonOK, WorkShape, Elsewhere, TakenIsHandled,
                    SavedIsHandled, Idle
<1> QED
  BY <1>1, <1>2, <1>4, StreamInit DEF Cautious

\* A step of one daemon.
OneDaemon(d) ==
    /\ \A e \in Daemon \ {d} : /\ job'[e] = job[e] /\ stream'[e] = stream[e]
                               /\ cursor'[e] = cursor[e]
    /\ DaemonOK(d)'
    /\ DOMAIN job' = Daemon

\* Every step of a daemon leaves it in order.
LEMMA DaemonStep ==
    ASSUME NoneAssumption, DepositAssumption, StreamShape, MapShape,
           DOMAIN job = Daemon, KnownStays, ~faults.flaky,
           NEW d \in Daemon, DaemonOK(d),
           \/ (HandleWithdraw(d) \/ HandleRefund(d) \/ Submit(d)) /\ UNCHANGED depositVars
           \/ /\ \/ RetryProposeWithdrawOrAddSig(d) \/ RetrySetWithdrawExecuted(d)
                 \/ CallDeposit(d)
              /\ UNCHANGED depositVars
           \/ Mint(d) \/ TakeTransaction(d) \/ SaveStellarCursor(d)
           \/ CrashBridge(d) \/ RestartBridge(d)
    PROVE  OneDaemon(d)
<1>1. CASE (HandleWithdraw(d) \/ HandleRefund(d) \/ Submit(d)) /\ UNCHANGED depositVars
  <2>1. PICK todo : /\ job' = [job EXCEPT ![d] = todo]
                    /\ Elsewhere(todo)
                    /\ job[d].pc \in {"idle", "fetch_burn", "fetch_refund", "submit"}
    BY <1>1, HandlersTurnElsewhere DEF DaemonOK
  <2>2. job'[d] = todo /\ ~Working(job[d], LastTaken(d))
    BY <2>1 DEF Working
  <2>3. StreamKept /\ stream'[d] = stream[d] /\ cursor'[d] = cursor[d]
    BY <1>1 DEF StreamKept, depositVars
  <2>4. DaemonOK(d)'
    BY <2>1, <2>2, <2>3, GoesOn
  <2> QED
    BY <1>1, <2>1, <2>4 DEF OneDaemon, depositVars
<1>2. CASE /\ \/ RetryProposeWithdrawOrAddSig(d) \/ RetrySetWithdrawExecuted(d)
              \/ CallDeposit(d)
           /\ UNCHANGED depositVars
  <2>1. KeepsStream
    BY <1>2 DEF KeepsStream, depositVars
  <2>2. DaemonOK(d)' /\ \E todo : job' = [job EXCEPT ![d] = todo] \/ UNCHANGED job
    BY <1>2, <2>1, CallGoesOn
  <2> QED
    BY <2>1, <2>2 DEF OneDaemon, KeepsStream
<1>3. CASE Mint(d)
  BY <1>3, MintGoesOn DEF OneDaemon, Mint, depositVars
<1>4. CASE TakeTransaction(d)
  BY <1>4, TakeGoesOn DEF OneDaemon, TakeTransaction, StreamShape
<1>5. CASE SaveStellarCursor(d)
  BY <1>5, SaveGoesOn DEF OneDaemon, SaveStellarCursor, StreamShape
<1>6. CASE CrashBridge(d) \/ RestartBridge(d)
  BY <1>6, ProcessGoesOn DEF OneDaemon, CrashBridge, RestartBridge, StreamShape
<1> QED
  BY <1>1, <1>2, <1>3, <1>4, <1>5, <1>6

\* The faults of a behaviour stay what they are.
LEMMA FaultsStay ==
    ASSUME [BridgeNext]_bridgeVars
    PROVE  UNCHANGED faults
<1>1. ASSUME NEW target, NEW amount, Swap(target, amount)
      PROVE  UNCHANGED faults
  BY <1>1 DEF Swap, faultVars
<1>2. EndBlock => UNCHANGED faults
  BY DEF EndBlock
<1>3. ASSUME NEW d, HandleWithdraw(d) \/ HandleRefund(d) \/ Submit(d)
      PROVE  UNCHANGED faults
  BY <1>3, HandlersReadOnly
<1>4. ASSUME NEW d, \/ RetryProposeWithdrawOrAddSig(d)
                   \/ RetrySetWithdrawExecuted(d) \/ CallDeposit(d)
      PROVE  UNCHANGED faults
  BY <1>4, CallsKeepFees
<1>5. ASSUME NEW tx, NEW fee, NEW d,
             \/ Deposit(tx) \/ ChangeFee(fee)
             \/ TakeTransaction(d) \/ Mint(d) \/ SaveStellarCursor(d)
             \/ CrashBridge(d) \/ RestartBridge(d)
      PROVE  UNCHANGED faults
  BY <1>5 DEF Deposit, ChangeFee, TakeTransaction, Mint, SaveStellarCursor,
              CrashBridge, RestartBridge, Crash, Restart, daemonVars, faultVars
<1>6. UNCHANGED bridgeVars => UNCHANGED faults
  BY DEF bridgeVars, daemonVars, faultVars
<1>7. CASE DepositNext
  BY <1>2, <1>3, <1>4, <1>5, <1>7 DEF DepositNext, HandleDeposit
<1>8. CASE BridgeNext /\ ~DepositNext
  BY <1>1, <1>3, <1>4, <1>8 DEF BridgeNext
<1> QED
  BY <1>6, <1>7, <1>8

\* The steps that no daemon takes.
LEMMA SurroundingsStep ==
    ASSUME NEW target, NEW amount, NEW tx, NEW fee,
           \/ Swap(target, amount) /\ UNCHANGED depositVars
           \/ EndBlock /\ UNCHANGED depositVars
           \/ Deposit(tx) \/ ChangeFee(fee) \/ UNCHANGED bridgeVars
    PROVE  UNCHANGED <<job, stream, cursor>>
BY DEF Swap, EndBlock, Deposit, ChangeFee, bridgeVars, daemonVars, loopVars,
       depositVars

\* Every step: that of a daemon concerns no other one.
LEMMA CautiousStep ==
    ASSUME NoneAssumption, PalletAssumption, DepositAssumption, Cautious,
           [BridgeNext]_bridgeVars
    PROVE  Cautious'
<1>1. /\ StreamShape /\ MapShape
      /\ ~faults.flaky => DOMAIN job = Daemon /\ \A d \in Daemon : DaemonOK(d)
  BY DEF Cautious
<1>2. StreamShape' /\ MapShape' /\ KnownStays /\ StreamKept
  BY <1>1, StreamShapeStep, MapsStep, StreamIsKept
<1>3. UNCHANGED faults
  BY FaultsStay
<1>4. SUFFICES ASSUME ~faults.flaky
               PROVE  DOMAIN job' = Daemon /\ \A d \in Daemon : DaemonOK(d)'
  BY <1>2, <1>3 DEF Cautious
<1>5. CASE UNCHANGED <<job, stream, cursor>>
  BY <1>1, <1>2, <1>4, <1>5, LeftAlone
<1>6. ASSUME NEW d \in Daemon, OneDaemon(d)
      PROVE  DOMAIN job' = Daemon /\ \A e \in Daemon : DaemonOK(e)'
  <2>1. ASSUME NEW e \in Daemon \ {d}
        PROVE  DaemonOK(e)'
    BY <1>1, <1>2, <1>4, <1>6, LeftAlone DEF OneDaemon
  <2> QED
    BY <1>6, <2>1 DEF OneDaemon
<1>7. ASSUME NEW d \in Daemon,
             \/ (HandleWithdraw(d) \/ HandleRefund(d) \/ Submit(d)) /\ UNCHANGED depositVars
             \/ /\ \/ RetryProposeWithdrawOrAddSig(d) \/ RetrySetWithdrawExecuted(d)
                   \/ CallDeposit(d)
                /\ UNCHANGED depositVars
             \/ Mint(d) \/ TakeTransaction(d) \/ SaveStellarCursor(d)
             \/ CrashBridge(d) \/ RestartBridge(d)
      PROVE  OneDaemon(d)
  BY <1>1, <1>2, <1>4, <1>7, DaemonStep
<1>8. CASE DepositNext
  BY <1>5, <1>6, <1>7, <1>8, SurroundingsStep DEF DepositNext, HandleDeposit
<1>9. CASE BridgeNext /\ ~DepositNext
  BY <1>5, <1>6, <1>7, <1>9, SurroundingsStep DEF BridgeNext
<1> QED
  BY <1>5, <1>8, <1>9, SurroundingsStep

\* With a Horizon that answers, no saved cursor is beyond a deposit that its
\* daemon has done nothing for, in the whole bridge and whatever breaks, is torn,
\* is rescanned or is repeated (mint.go:92, refund.go:24, bridge.go:47).
THEOREM NothingIsSkipped ==
    ASSUME NoneAssumption
    PROVE  BridgeSpec => []NothingSkipped
<1>1. DepositInit => Cautious
  BY CautiousInit, PalletAssumption, DepositAssumption
<1>2. Cautious /\ [BridgeNext]_bridgeVars => Cautious'
  BY CautiousStep, PalletAssumption, DepositAssumption
<1>3. Cautious => NothingSkipped
  BY DEF Cautious, DaemonOK, SavedIsHandled, Handled, Known, NothingSkipped
<1> QED
  BY <1>1, <1>2, <1>3, PTL DEF BridgeSpec

\* A bridge that only takes deposits is such a bridge.
LEMMA DepositsAreOfTheBridge == DepositSpec => BridgeSpec
<1>1. [DepositNext]_bridgeVars => [BridgeNext]_bridgeVars
  BY DEF BridgeNext
<1> QED
  BY <1>1, PTL DEF DepositSpec, BridgeSpec

\* The same for the specification of deposits alone, which the run checks.
THEOREM NothingIsSkippedAlone ==
    ASSUME NoneAssumption
    PROVE  DepositSpec => []NothingSkipped
BY NothingIsSkipped, DepositsAreOfTheBridge, PTL
=============================================================================
