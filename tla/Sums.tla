-------------------------------- MODULE Sums --------------------------------
(***************************************************************************)
(* What a sum over a finite set is (MapThenSumSet, the operator in which     *)
(* the models say how much there is in all): it is an integer, it splits     *)
(* off any of its elements, and it changes with one of its terms as much as  *)
(* that term does.                                                         *)
(*                                                                         *)
(* The library's principles of induction take the predicate as an operator.  *)
(* Here induction is over the set of the numbers that a statement holds for  *)
(* (NumbersInTurn), which needs no operator.                                 *)
(***************************************************************************)
EXTENDS Integers, FiniteSetsExt, FiniteSetTheorems, WellFoundedInduction, TLAPS

\* A set of numbers that is not empty has a least one.
LEMMA LeastNumber ==
    ASSUME NEW T, T \subseteq Nat, T # {}
    PROVE  \E n \in T : \A m \in T : n <= m
<1>1. PICK n \in T : \A m \in T : ~ (<<m, n>> \in OpToRel(<, Nat))
  BY WFMin, NatLessThanWellFounded
<1>2. \A m \in T : m < n => <<m, n>> \in OpToRel(<, Nat)
  BY DEF OpToRel
<1>3. \A m \in T : ~(m < n)
  BY <1>1, <1>2, Zenon
<1> QED
  BY <1>3, SMT

\* A set that has 0, and with a number the next, has all numbers.
LEMMA NumbersInTurn ==
    ASSUME NEW T, 0 \in T, \A n \in Nat : n \in T => n + 1 \in T
    PROVE  \A n \in Nat : n \in T
<1> DEFINE missing == {n \in Nat : n \notin T}
<1>1. SUFFICES ASSUME missing # {}
               PROVE  FALSE
  OBVIOUS
<1>2. PICK n \in missing : \A m \in missing : n <= m
  BY <1>1, LeastNumber
<1>3. n \in Nat /\ n # 0 /\ n - 1 \in Nat
  OBVIOUS
<1>4. n - 1 \notin missing
  BY <1>2, <1>3
<1>5. n - 1 \in T /\ n = (n - 1) + 1
  BY <1>3, <1>4
<1> QED
  BY <1>3, <1>5

-----------------------------------------------------------------------------
(* The function of partial sums that MapThenSumSet computes. *)

\* A member of a set, the one that the sum takes next.
Pick(s) == CHOOSE x \in s : TRUE

\* The sum of the terms f over s, in terms of those over smaller sets.
Unfolded(F, f, s) == IF s = {} THEN 0 ELSE f[Pick(s)] + F[s \ {Pick(s)}]

IsSum(F, D, f) == F = [s \in SUBSET D |-> Unfolded(F, f, s)]

SumOver(f, S) == MapThenSumSet(LAMBDA x : f[x], S)

\* The set that is left is a smaller one.
LEMMA Smaller ==
    ASSUME NEW D, IsFiniteSet(D), NEW s \in SUBSET D, NEW x \in s
    PROVE  /\ s \ {x} \in SUBSET D
           /\ Cardinality(s) \in Nat
           /\ Cardinality(s \ {x}) = Cardinality(s) - 1
           /\ Cardinality(s \ {x}) \in Nat
<1>1. IsFiniteSet(s) /\ IsFiniteSet(s \ {x})
  BY FS_Subset, FS_RemoveElement
<1> QED
  BY <1>1, FS_RemoveElement, FS_CardinalityType

\* What is picked is a member.
LEMMA Picked ==
    ASSUME NEW s, s # {}
    PROVE  Pick(s) \in s
BY DEF Pick

\* There is such a function: that of the sets of n + 1 elements is made from that
\* of the sets of n.
LEMMA SumExists ==
    ASSUME NEW D, IsFiniteSet(D), NEW f
    PROVE  \E F : IsSum(F, D, f)
<1> DEFINE UpTo(n, F) ==
             /\ F = [s \in SUBSET D |-> F[s]]
             /\ \A s \in SUBSET D : Cardinality(s) <= n => F[s] = Unfolded(F, f, s)
           reached == {n \in Nat : \E F : UpTo(n, F)}
<1>1. 0 \in reached
  <2> DEFINE F == [s \in SUBSET D |-> 0]
  <2>1. ASSUME NEW s \in SUBSET D, Cardinality(s) <= 0
        PROVE  s = {}
    <3>1. IsFiniteSet(s) /\ Cardinality(s) \in Nat
      BY FS_Subset, FS_CardinalityType
    <3> QED
      BY <2>1, <3>1, FS_EmptySet
  <2>2. UpTo(0, F)
    BY <2>1 DEF Unfolded
  <2> QED
    BY <2>2
<1>2. ASSUME NEW n \in Nat, n \in reached
      PROVE  n + 1 \in reached
  <2>1. PICK F : UpTo(n, F)
    BY <1>2
  <2> DEFINE G == [s \in SUBSET D |-> IF Cardinality(s) <= n THEN F[s]
                                      ELSE Unfolded(F, f, s)]
  <2>2. ASSUME NEW s \in SUBSET D, Cardinality(s) <= n + 1
        PROVE  G[s] = Unfolded(G, f, s)
    <3>1. CASE s = {}
      <4>1. Cardinality(s) <= n
        BY <3>1, FS_EmptySet
      <4> QED
        BY <2>1, <3>1, <4>1 DEF Unfolded
    <3>2. CASE s # {}
      <4>1. /\ s \ {Pick(s)} \in SUBSET D
            /\ Cardinality(s \ {Pick(s)}) <= n
        BY <2>2, <3>2, Picked, Smaller
      <4>2. G[s \ {Pick(s)}] = F[s \ {Pick(s)}]
        BY <4>1
      <4>3. G[s] = Unfolded(F, f, s)
        BY <2>1
      <4> QED
        BY <3>2, <4>2, <4>3 DEF Unfolded
    <3> QED
      BY <3>1, <3>2
  <2>3. UpTo(n + 1, G)
    BY <2>2
  <2> HIDE DEF G
  <2>4. \E H : UpTo(n + 1, H)
    BY <2>3
  <2> HIDE DEF UpTo
  <2>5. n + 1 \in Nat
    OBVIOUS
  <2> QED
    BY <2>4, <2>5
<1> HIDE DEF reached
<1>3. Cardinality(D) \in reached
  BY <1>1, <1>2, NumbersInTurn, FS_CardinalityType
<1>4. PICK F : UpTo(Cardinality(D), F)
  BY <1>3 DEF reached
<1>5. ASSUME NEW s \in SUBSET D
      PROVE  Cardinality(s) <= Cardinality(D)
  BY FS_Subset
<1>6. F = [s \in SUBSET D |-> Unfolded(F, f, s)]
  BY <1>4, <1>5
<1> QED
  BY <1>6 DEF IsSum

\* It depends on the terms it sums alone.
LEMMA SumsAgree ==
    ASSUME NEW D, IsFiniteSet(D), NEW f, NEW F, IsSum(F, D, f),
           NEW g, NEW G, IsSum(G, D, g),
           NEW S \in SUBSET D, \A x \in S : f[x] = g[x]
    PROVE  F[S] = G[S]
<1> DEFINE agreed == {n \in Nat : \A s \in SUBSET S :
                                    Cardinality(s) <= n => F[s] = G[s]}
<1>1. \A s \in SUBSET D : F[s] = Unfolded(F, f, s) /\ G[s] = Unfolded(G, g, s)
  BY DEF IsSum
<1>2. ASSUME NEW s \in SUBSET S, s # {},
             F[s \ {Pick(s)}] = G[s \ {Pick(s)}]
      PROVE  F[s] = G[s]
  BY <1>1, <1>2, Picked DEF Unfolded
<1>3. F[{}] = G[{}]
  BY <1>1 DEF Unfolded
<1>4. 0 \in agreed
  <2>1. ASSUME NEW s \in SUBSET S, Cardinality(s) <= 0
        PROVE  s = {}
    <3>1. IsFiniteSet(s) /\ Cardinality(s) \in Nat
      BY FS_Subset, FS_CardinalityType
    <3> QED
      BY <2>1, <3>1, FS_EmptySet
  <2> QED
    BY <1>3, <2>1
<1>5. ASSUME NEW n \in Nat, n \in agreed
      PROVE  n + 1 \in agreed
  <2>1. ASSUME NEW s \in SUBSET S, Cardinality(s) <= n + 1
        PROVE  F[s] = G[s]
    <3>1. CASE s # {}
      <4>1. Pick(s) \in s /\ s \in SUBSET D
        BY <3>1, Picked
      <4>2. Cardinality(s \ {Pick(s)}) <= n
        BY <2>1, <4>1, Smaller
      <4>3. F[s \ {Pick(s)}] = G[s \ {Pick(s)}]
        BY <1>5, <4>2
      <4> QED
        BY <1>2, <3>1, <4>3
    <3> QED
      BY <1>3, <3>1
  <2> QED
    BY <2>1
<1> HIDE DEF agreed
<1>6. IsFiniteSet(S) /\ Cardinality(S) \in Nat
  BY FS_Subset, FS_CardinalityType
<1>7. Cardinality(S) \in agreed
  BY <1>4, <1>5, <1>6, NumbersInTurn
<1> QED
  BY <1>6, <1>7 DEF agreed

\* The operator of the library is that function.
LEMMA SumIsSum ==
    ASSUME NEW S, IsFiniteSet(S), NEW f
    PROVE  \E F : IsSum(F, S, f) /\ SumOver(f, S) = F[S]
<1>1. \E F : IsSum(F, S, f)
  BY SumExists
<1> QED
  BY <1>1 DEF SumOver, MapThenSumSet, MapThenFoldSet, IsSum, Unfolded, Pick

\* A sum of integers is an integer, and splits off any of its terms.
LEMMA SumSplits ==
    ASSUME NEW D, IsFiniteSet(D), NEW f, \A x \in D : f[x] \in Int,
           NEW F, IsSum(F, D, f)
    PROVE  \A s \in SUBSET D :
             F[s] \in Int /\ \A x \in s : F[s] = f[x] + F[s \ {x}]
<1> DEFINE Splits(s) == F[s] \in Int /\ \A x \in s : F[s] = f[x] + F[s \ {x}]
           split == {n \in Nat : \A s \in SUBSET D :
                                   Cardinality(s) <= n => Splits(s)}
<1>1. \A s \in SUBSET D : F[s] = Unfolded(F, f, s)
  BY DEF IsSum
<1>2. Splits({})
  <2>1. F[{}] = 0
    BY <1>1 DEF Unfolded
  <2> QED
    BY <2>1
<1>3. 0 \in split
  <2>1. ASSUME NEW s \in SUBSET D, Cardinality(s) <= 0
        PROVE  s = {}
    <3>1. IsFiniteSet(s) /\ Cardinality(s) \in Nat
      BY FS_Subset, FS_CardinalityType
    <3> QED
      BY <2>1, <3>1, FS_EmptySet
  <2> QED
    BY <1>2, <2>1
<1>4. ASSUME NEW n \in Nat, n \in split
      PROVE  n + 1 \in split
  <2>1. ASSUME NEW s \in SUBSET D, Cardinality(s) <= n + 1, s # {}
        PROVE  Splits(s)
    <3> DEFINE y == Pick(s)
    <3>1. y \in s
      BY <2>1, Picked
    <3> HIDE DEF y
    <3>2. F[s] = f[y] + F[s \ {y}]
      BY <1>1, <2>1 DEF Unfolded, y
    <3>3. ASSUME NEW x \in s
          PROVE  Splits(s \ {x}) /\ s \ {x} \in SUBSET D
      <4>1. Cardinality(s \ {x}) <= n /\ s \ {x} \in SUBSET D
        BY <2>1, <3>3, Smaller
      <4> QED
        BY <1>4, <4>1
    <3>4. F[s] \in Int
      BY <3>1, <3>2, <3>3
    <3>5. ASSUME NEW x \in s, x # y
          PROVE  F[s] = f[x] + F[s \ {x}]
      <4> DEFINE both == (s \ {x}) \ {y}
      <4>1. both = (s \ {y}) \ {x}
        OBVIOUS
      <4>2. F[s \ {x}] = f[y] + F[both]
        BY <3>1, <3>3, <3>5
      <4>3. x \in s \ {y} /\ Splits(s \ {y})
        BY <3>1, <3>3, <3>5
      <4>4. F[s \ {y}] = f[x] + F[both]
        BY <4>1, <4>3
      <4>5. F[s \ {x}] \in Int /\ F[s \ {y}] \in Int /\ f[x] \in Int /\ f[y] \in Int
        BY <3>1, <3>3
      <4>6. both \in SUBSET D /\ F[both] \in Int
        <5>1. Cardinality(s \ {x}) <= n /\ s \ {x} \in SUBSET D
          BY <2>1, Smaller
        <5>2. Cardinality(both) <= Cardinality(s \ {x}) /\ both \in SUBSET D
              /\ Cardinality(s \ {x}) \in Nat /\ Cardinality(both) \in Nat
          <6>1. y \in s \ {x}
            BY <3>1, <3>5
          <6> HIDE DEF both
          <6> QED
            BY <5>1, <6>1, Smaller DEF both
        <5>3. Cardinality(both) <= n
          BY <5>1, <5>2
        <5> QED
          BY <1>4, <5>2, <5>3
      <4> HIDE DEF both
      <4> QED
        BY <3>2, <4>2, <4>4, <4>5, <4>6
    <3> QED
      BY <3>2, <3>4, <3>5
  <2>2. ASSUME NEW s \in SUBSET D, Cardinality(s) <= n + 1
        PROVE  Splits(s)
    BY <1>2, <2>1, <2>2
  <2> HIDE DEF Splits
  <2> QED
    BY <2>2
<1> HIDE DEF split
<1>5. Cardinality(D) \in split
  BY <1>3, <1>4, NumbersInTurn, FS_CardinalityType
<1>6. \A s \in SUBSET D : Cardinality(s) <= Cardinality(D)
  BY FS_Subset
<1> HIDE DEF Splits
<1>7. \A s \in SUBSET D : Splits(s)
  BY <1>5, <1>6 DEF split
<1> QED
  BY <1>7 DEF Splits

-----------------------------------------------------------------------------
(* Sums as the models use them. *)

\* A sum of integers is an integer.
LEMMA SumType ==
    ASSUME NEW S, IsFiniteSet(S), NEW f, \A x \in S : f[x] \in Int
    PROVE  SumOver(f, S) \in Int
BY SumIsSum, SumSplits

\* A sum of natural numbers is one.
LEMMA SumIsNat ==
    ASSUME NEW S, IsFiniteSet(S), NEW f, \A x \in S : f[x] \in Nat
    PROVE  SumOver(f, S) \in Nat
<1>1. PICK F : IsSum(F, S, f) /\ SumOver(f, S) = F[S]
  BY SumIsSum
<1> DEFINE natural == {n \in Nat : \A s \in SUBSET S :
                                     Cardinality(s) <= n => F[s] \in Nat}
<1>2. \A s \in SUBSET S : F[s] = Unfolded(F, f, s)
  BY <1>1 DEF IsSum
<1>3. F[{}] \in Nat
  BY <1>2 DEF Unfolded
<1>4. 0 \in natural
  <2>1. ASSUME NEW s \in SUBSET S, Cardinality(s) <= 0
        PROVE  s = {}
    <3>1. IsFiniteSet(s) /\ Cardinality(s) \in Nat
      BY FS_Subset, FS_CardinalityType
    <3> QED
      BY <2>1, <3>1, FS_EmptySet
  <2> QED
    BY <1>3, <2>1
<1>5. ASSUME NEW n \in Nat, n \in natural
      PROVE  n + 1 \in natural
  <2>1. ASSUME NEW s \in SUBSET S, Cardinality(s) <= n + 1, s # {}
        PROVE  F[s] \in Nat
    <3>1. Pick(s) \in s
      BY <2>1, Picked
    <3>2. Cardinality(s \ {Pick(s)}) <= n /\ s \ {Pick(s)} \in SUBSET S
      BY <2>1, <3>1, Smaller
    <3>3. F[s \ {Pick(s)}] \in Nat
      BY <1>5, <3>2
    <3>4. F[s] = f[Pick(s)] + F[s \ {Pick(s)}]
      BY <1>2, <2>1 DEF Unfolded
    <3> QED
      BY <3>1, <3>3, <3>4
  <2>2. \A s \in SUBSET S : Cardinality(s) <= n + 1 => F[s] \in Nat
    BY <1>3, <2>1
  <2> QED
    BY <2>2
<1> HIDE DEF natural
<1>6. Cardinality(S) \in natural
  BY <1>4, <1>5, NumbersInTurn, FS_CardinalityType
<1> QED
  BY <1>1, <1>6, FS_CardinalityType DEF natural

\* What is summed over nothing.
LEMMA SumEmpty ==
    ASSUME NEW f
    PROVE  SumOver(f, {}) = 0
<1>1. PICK F : IsSum(F, {}, f) /\ SumOver(f, {}) = F[{}]
  BY SumIsSum, FS_EmptySet
<1> QED
  BY <1>1 DEF IsSum, Unfolded

\* Terms that are all 0 sum up to 0.
LEMMA SumOfZeros ==
    ASSUME NEW S, IsFiniteSet(S), NEW f, \A x \in S : f[x] = 0
    PROVE  SumOver(f, S) = 0
<1>1. PICK F : IsSum(F, S, f) /\ SumOver(f, S) = F[S]
  BY SumIsSum
<1> DEFINE Z == [s \in SUBSET S |-> 0]
           zero == [x \in S |-> 0]
<1>2. IsSum(Z, S, zero)
  <2>1. ASSUME NEW s \in SUBSET S
        PROVE  Unfolded(Z, zero, s) = 0
    <3>1. CASE s # {}
      <4>1. Pick(s) \in S /\ s \ {Pick(s)} \in SUBSET S
        BY <3>1, Picked
      <4> QED
        BY <3>1, <4>1 DEF Unfolded
    <3> QED
      BY <3>1 DEF Unfolded
  <2> QED
    BY <2>1 DEF IsSum
<1>3. F[S] = Z[S]
  <2>1. \A x \in S : f[x] = zero[x]
    OBVIOUS
  <2> HIDE DEF Z, zero
  <2> QED
    BY <1>1, <1>2, <2>1, SumsAgree
<1> QED
  BY <1>1, <1>3

\* The sum depends on its terms alone.
LEMMA SumEqual ==
    ASSUME NEW S, IsFiniteSet(S), NEW f, NEW g, \A x \in S : f[x] = g[x]
    PROVE  SumOver(f, S) = SumOver(g, S)
<1>1. PICK F : IsSum(F, S, f) /\ SumOver(f, S) = F[S]
  BY SumIsSum
<1>2. PICK G : IsSum(G, S, g) /\ SumOver(g, S) = G[S]
  BY SumIsSum
<1> QED
  BY <1>1, <1>2, SumsAgree

\* The sum over a part of a set is computed in that over the whole of it.
LEMMA SumRestricts ==
    ASSUME NEW D, IsFiniteSet(D), NEW f, NEW F, IsSum(F, D, f), NEW S \in SUBSET D
    PROVE  SumOver(f, S) = F[S]
<1> DEFINE R == [s \in SUBSET S |-> F[s]]
<1>1. ASSUME NEW s \in SUBSET S
      PROVE  R[s] = Unfolded(R, f, s)
  <2>1. F[s] = Unfolded(F, f, s)
    BY DEF IsSum
  <2> QED
    BY <2>1 DEF Unfolded
<1>2. IsSum(R, S, f)
  BY <1>1 DEF IsSum
<1>3. IsFiniteSet(S)
  BY FS_Subset
<1>4. PICK G : IsSum(G, S, f) /\ SumOver(f, S) = G[S]
  BY <1>3, SumIsSum
<1>5. G[S] = R[S]
  BY <1>2, <1>3, <1>4, SumsAgree
<1> QED
  BY <1>4, <1>5

\* Any term can be taken out of a sum.
LEMMA SumTakeOut ==
    ASSUME NEW S, IsFiniteSet(S), NEW f, \A x \in S : f[x] \in Int, NEW x \in S
    PROVE  SumOver(f, S) = f[x] + SumOver(f, S \ {x})
<1>1. PICK F : IsSum(F, S, f) /\ SumOver(f, S) = F[S]
  BY SumIsSum
<1>2. SumOver(f, S \ {x}) = F[S \ {x}]
  BY <1>1, SumRestricts
<1>3. \A y \in S : F[S] = f[y] + F[S \ {y}]
  <2>1. S \in SUBSET S
    OBVIOUS
  <2> QED
    BY <1>1, <2>1, SumSplits
<1> QED
  BY <1>1, <1>2, <1>3

\* A sum changes with one of its terms as much as that term does.
LEMMA SumChanges ==
    ASSUME NEW S, IsFiniteSet(S), NEW x \in S,
           NEW f, \A y \in S : f[y] \in Int,
           NEW g, \A y \in S : g[y] \in Int,
           \A y \in S \ {x} : g[y] = f[y]
    PROVE  SumOver(g, S) = SumOver(f, S) + g[x] - f[x]
<1>1. IsFiniteSet(S \ {x})
  BY FS_RemoveElement
<1>2. SumOver(f, S \ {x}) = SumOver(g, S \ {x})
  BY <1>1, SumEqual
<1>3. /\ SumOver(f, S) = f[x] + SumOver(f, S \ {x})
      /\ SumOver(g, S) = g[x] + SumOver(g, S \ {x})
  BY SumTakeOut
<1>4. SumOver(f, S \ {x}) \in Int
  BY <1>1, SumType
<1> QED
  BY <1>2, <1>3, <1>4

\* The sums of two kinds of terms are the sum of both.
LEMMA SumAdds ==
    ASSUME NEW S, IsFiniteSet(S),
           NEW f, \A x \in S : f[x] \in Int,
           NEW g, \A x \in S : g[x] \in Int,
           NEW h, \A x \in S : h[x] = f[x] + g[x]
    PROVE  SumOver(h, S) = SumOver(f, S) + SumOver(g, S)
<1>1. PICK F : IsSum(F, S, f) /\ SumOver(f, S) = F[S]
  BY SumIsSum
<1>2. PICK G : IsSum(G, S, g) /\ SumOver(g, S) = G[S]
  BY SumIsSum
<1>3. PICK H : IsSum(H, S, h) /\ SumOver(h, S) = H[S]
  BY SumIsSum
<1> DEFINE B == [s \in SUBSET S |-> F[s] + G[s]]
<1>4. ASSUME NEW s \in SUBSET S
      PROVE  B[s] = Unfolded(B, h, s)
  <2>1. F[s] = Unfolded(F, f, s) /\ G[s] = Unfolded(G, g, s)
    BY <1>1, <1>2 DEF IsSum
  <2>2. CASE s = {}
    BY <2>1, <2>2 DEF Unfolded
  <2>3. CASE s # {}
    <3> DEFINE x == Pick(s)
               t == s \ {x}
    <3>1. x \in S /\ t \in SUBSET S
      BY <2>3, Picked
    <3> HIDE DEF x
    <3>2. F[s] = f[x] + F[t] /\ G[s] = g[x] + G[t] /\ h[x] = f[x] + g[x]
      BY <2>1, <2>3, <3>1 DEF Unfolded, x
    <3>3. F[t] \in Int /\ G[t] \in Int /\ f[x] \in Int /\ g[x] \in Int
      BY <1>1, <1>2, <3>1, SumSplits
    <3>4. Unfolded(B, h, s) = h[x] + B[t]
      BY <2>3 DEF Unfolded, x
    <3>5. B[t] = F[t] + G[t] /\ B[s] = F[s] + G[s]
      BY <3>1
    <3> HIDE DEF t, B
    <3> QED
      BY <3>2, <3>3, <3>4, <3>5
  <2> QED
    BY <2>2, <2>3
<1>5. IsSum(B, S, h)
  BY <1>4 DEF IsSum
<1>6. H[S] = B[S]
  <2> HIDE DEF B
  <2> QED
    BY <1>3, <1>5, SumsAgree
<1> QED
  BY <1>1, <1>2, <1>3, <1>6

\* Terms that each are at most one of some other terms, and each one of its own,
\* sum up to no more than those.
LEMMA SumInto ==
    ASSUME NEW S, IsFiniteSet(S), NEW f, \A x \in S : f[x] \in Nat,
           NEW T, IsFiniteSet(T), NEW g, \A y \in T : g[y] \in Nat,
           NEW p,
           \A x \in S : f[x] # 0 => p[x] \in T /\ f[x] <= g[p[x]],
           \A x, y \in S : f[x] # 0 /\ f[y] # 0 /\ p[x] = p[y] => x = y
    PROVE  SumOver(f, S) <= SumOver(g, T)
<1>1. PICK F : IsSum(F, S, f) /\ SumOver(f, S) = F[S]
  BY SumIsSum
<1>2. PICK G : IsSum(G, T, g) /\ SumOver(g, T) = G[T]
  BY SumIsSum
<1> DEFINE Into(s, t) == \A x \in s : f[x] # 0 => p[x] \in t
           Less(s) == \A t \in SUBSET T : Into(s, t) => F[s] <= G[t]
           less == {n \in Nat : \A s \in SUBSET S : Cardinality(s) <= n => Less(s)}
<1>3. /\ \A s \in SUBSET S : F[s] \in Int /\ \A x \in s : F[s] = f[x] + F[s \ {x}]
      /\ \A t \in SUBSET T : G[t] \in Int /\ \A y \in t : G[t] = g[y] + G[t \ {y}]
  <2>1. (\A x \in S : f[x] \in Int) /\ (\A y \in T : g[y] \in Int)
    OBVIOUS
  <2>2. IsSum(F, S, f) /\ IsSum(G, T, g)
    BY <1>1, <1>2
  <2> HIDE DEF Into, Less, less
  <2>3. \A s \in SUBSET S : F[s] \in Int /\ \A x \in s : F[s] = f[x] + F[s \ {x}]
    BY ONLY IsFiniteSet(S), <2>1, <2>2, SumSplits
  <2>4. \A t \in SUBSET T : G[t] \in Int /\ \A y \in t : G[t] = g[y] + G[t \ {y}]
    BY ONLY IsFiniteSet(T), <2>1, <2>2, SumSplits
  <2> QED
    BY <2>3, <2>4
<1>4. ASSUME NEW t \in SUBSET T
      PROVE  G[t] \in Nat
  <2>1. SumOver(g, t) = G[t] /\ IsFiniteSet(t)
    BY <1>2, SumRestricts, FS_Subset
  <2> QED
    BY <2>1, SumIsNat
<1>5. Less({})
  <2>1. F[{}] = 0
    BY <1>1 DEF IsSum, Unfolded
  <2> QED
    BY <1>4, <2>1
<1>6. 0 \in less
  <2>1. ASSUME NEW s \in SUBSET S, Cardinality(s) <= 0
        PROVE  s = {}
    <3>1. IsFiniteSet(s) /\ Cardinality(s) \in Nat
      BY FS_Subset, FS_CardinalityType
    <3> QED
      BY <2>1, <3>1, FS_EmptySet
  <2> HIDE DEF Less
  <2> QED
    BY <1>5, <2>1
<1>7. ASSUME NEW n \in Nat, n \in less
      PROVE  n + 1 \in less
  <2>1. ASSUME NEW s \in SUBSET S, Cardinality(s) <= n + 1, NEW x \in s,
               NEW t \in SUBSET T, Into(s, t)
        PROVE  F[s] <= G[t]
    <3>1. s \ {x} \in SUBSET S /\ Cardinality(s \ {x}) <= n
      BY <2>1, Smaller
    <3>2. Less(s \ {x})
      BY <1>7, <3>1
    <3>3. F[s] = f[x] + F[s \ {x}] /\ F[s \ {x}] \in Int /\ f[x] \in Nat
      BY <1>3, <3>1
    <3>4. CASE f[x] = 0
      <4>1. F[s \ {x}] <= G[t]
        BY <2>1, <3>2
      <4> QED
        BY <3>3, <3>4, <4>1
    <3>5. CASE f[x] # 0
      <4> DEFINE y == p[x]
      <4>1. y \in t /\ f[x] <= g[y]
        BY <2>1, <3>5
      <4>2. Into(s \ {x}, t \ {y})
        BY <2>1, <3>5
      <4>3. t \ {y} \in SUBSET T
        OBVIOUS
      <4>4. F[s \ {x}] <= G[t \ {y}]
        BY <3>2, <4>2, <4>3
      <4> HIDE DEF y
      <4>5. /\ G[t] = g[y] + G[t \ {y}] /\ G[t \ {y}] \in Int
            /\ g[y] \in Nat
        BY <1>3, <4>1, <4>3
      <4> QED
        BY <3>3, <4>1, <4>4, <4>5
    <3> QED
      BY <3>4, <3>5
  <2>2. ASSUME NEW s \in SUBSET S, Cardinality(s) <= n + 1
        PROVE  Less(s)
    <3>1. CASE s = {}
      BY <1>5, <3>1
    <3>2. CASE s # {}
      BY <2>1, <2>2, <3>2
    <3> QED
      BY <3>1, <3>2
  <2> HIDE DEF Less
  <2> QED
    BY <2>2
<1> HIDE DEF less
<1>8. Cardinality(S) \in less
  BY <1>6, <1>7, NumbersInTurn, FS_CardinalityType
<1>9. Less(S)
  <2>1. Cardinality(S) <= Cardinality(S) /\ S \in SUBSET S
    BY FS_CardinalityType
  <2> HIDE DEF Less
  <2> QED
    BY <1>8, <2>1 DEF less
<1> QED
  BY <1>1, <1>2, <1>9
=============================================================================
