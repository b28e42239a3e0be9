----------------------------- MODULE FoldLemmas -----------------------------
(***************************************************************************)
(* Lemmas about numbers and folds that the proofs of several modules rest  *)
(* on.  A fold of the library is a recursive function on the subsets of     *)
(* what is folded, and so CHOOSEn: it is known by its equation only once    *)
(* some function satisfies it.                                             *)
(***************************************************************************)
EXTENDS SequencesExt, NaturalsInduction, WellFoundedInduction, TLAPS

-----------------------------------------------------------------------------
(* Induction, as a fact about sets of numbers. *)

LEMMA LeastNumber ==
  ASSUME NEW T \in SUBSET Nat, T # {}
  PROVE  \E n \in T : \A m \in T : ~ (m < n)
<1>1. PICK n \in T : \A m \in T : ~ (<<m, n>> \in OpToRel(<, Nat))
  BY NatLessThanWellFounded, WFMin
<1> QED
  BY <1>1 DEF OpToRel

LEMMA NatSet ==
  ASSUME NEW S \in SUBSET Nat, 0 \in S, \A n \in S : n + 1 \in S
  PROVE  S = Nat
<1> SUFFICES ASSUME Nat \ S # {}
             PROVE  FALSE
  OBVIOUS
<1> DEFINE T == Nat \ S
<1>1. \E n \in T : \A m \in T : ~ (m < n)
  <2>1. T \in SUBSET Nat /\ T # {}
    OBVIOUS
  <2> HIDE DEF T
  <2> QED
    BY <2>1, LeastNumber
<1>2. PICK n \in T : \A m \in T : ~ (m < n)
  BY <1>1
<1>3. n # 0 /\ n \in Nat
  BY <1>2
<1>4. n - 1 \in Nat /\ n - 1 < n /\ (n - 1) + 1 = n
  BY <1>3
<1>5. n - 1 \in S
  BY <1>2, <1>4
<1> QED
  BY <1>2, <1>4, <1>5

-----------------------------------------------------------------------------
(* Folds: the functions that FoldLeft and FlattenSeq choose exist. *)

LEMMA MaxIs ==
  ASSUME NEW n \in Nat, NEW s \in SUBSET (1 .. n), s # {}
  PROVE  Max(s) \in s
<1> DEFINE HasMax(t) == \E x \in t : \A y \in t : x >= y
           S == {k \in Nat : \A t \in SUBSET (1 .. k) : t # {} => HasMax(t)}
<1>1. 0 \in S
  <2>1. 1 .. 0 = {}
    OBVIOUS
  <2> QED
    BY <2>1
<1>2. ASSUME NEW k \in S
      PROVE  k + 1 \in S
  <2> SUFFICES ASSUME NEW t \in SUBSET (1 .. k + 1), t # {}
               PROVE  HasMax(t)
    OBVIOUS
  <2>1. CASE k + 1 \in t
    BY <2>1
  <2>2. CASE k + 1 \notin t
    <3>1. t \in SUBSET (1 .. k)
      BY <2>2
    <3> QED
      BY <3>1
  <2> QED
    BY <2>1, <2>2
<1>3. S = Nat
  <2> HIDE DEF S
  <2>1. S \in SUBSET Nat
    BY DEF S
  <2> QED
    BY <1>1, <1>2, <2>1, NatSet
<1>4. n \in S
  BY <1>3
<1>5. HasMax(s)
  BY <1>4
<1> QED
  BY <1>5 DEF Max

LEMMA MaxOfInterval ==
  ASSUME NEW k \in Nat, NEW s, k + 1 \in s, \A y \in s : y \in Nat /\ y <= k + 1
  PROVE  Max(s) = k + 1
<1>1. Max(s) \in s /\ \A y \in s : Max(s) >= y
  BY DEF Max
<1> QED
  BY <1>1

IsFold(n, base, step, f) ==
  \A s \in SUBSET (1 .. n) :
    f[s] = IF s = {} THEN base ELSE step[<<Max(s), f[s \ {Max(s)}]>>]

LEMMA LastOfInterval ==
  ASSUME NEW n \in Nat, NEW k \in Nat, k + 1 <= n
  PROVE  /\ 1 .. k + 1 \in SUBSET (1 .. n) /\ 1 .. k + 1 # {}
         /\ Max(1 .. k + 1) = k + 1 /\ (1 .. k + 1) \ {k + 1} = 1 .. k
<1>1. 1 .. k + 1 \in SUBSET (1 .. n)
  OBVIOUS
<1>2. 1 .. k + 1 # {}
  OBVIOUS
<1>3. (1 .. k + 1) \ {k + 1} = 1 .. k
  OBVIOUS
<1>4. Max(1 .. k + 1) = k + 1
  BY MaxOfInterval
<1> QED
  BY <1>1, <1>2, <1>3, <1>4

LEMMA FoldExists ==
  ASSUME NEW n \in Nat, NEW V, NEW base \in V, NEW step \in [(1 .. n) \X V -> V]
  PROVE  \E f \in [SUBSET (1 .. n) -> V] : IsFold(n, base, step, f)
<1> DEFINE Folds(k, f) == IsFold(k, base, step, f)
           S == {k \in Nat : k <= n => \E f \in [SUBSET (1 .. k) -> V] : Folds(k, f)}
<1>0. S \in SUBSET Nat
  OBVIOUS
<1>1. 0 \in S
  <2> DEFINE f == [s \in SUBSET (1 .. 0) |-> base]
  <2>1. SUBSET (1 .. 0) = {{}}
    OBVIOUS
  <2>2. f \in [SUBSET (1 .. 0) -> V] /\ Folds(0, f)
    BY <2>1 DEF IsFold
  <2> QED
    BY <2>2
<1>2. ASSUME NEW k \in S
      PROVE  k + 1 \in S
  <2> SUFFICES ASSUME k + 1 <= n
               PROVE  \E f \in [SUBSET (1 .. k + 1) -> V] : Folds(k + 1, f)
    <3>1. k + 1 \in Nat
      <4> HIDE DEF S, Folds
      <4> QED
        BY <1>0
    <3> HIDE DEF Folds
    <3> QED
      BY <3>1
  <2>1. k \in Nat /\ k <= n /\ k + 1 \in 1 .. n
    <3> HIDE DEF S, Folds
    <3> QED
      BY <1>0
  <2>2. PICK f \in [SUBSET (1 .. k) -> V] : Folds(k, f)
    BY <2>1
  <2> DEFINE g == [s \in SUBSET (1 .. k + 1) |->
                     IF k + 1 \in s THEN step[<<k + 1, f[s \ {k + 1}]>>] ELSE f[s]]
  <2>3. ASSUME NEW s \in SUBSET (1 .. k + 1), k + 1 \in s
        PROVE  /\ s \ {k + 1} \in SUBSET (1 .. k) /\ k + 1 \notin s \ {k + 1}
               /\ s # {} /\ Max(s) = k + 1
    <3> HIDE DEF S, Folds, g
    <3>1. \A y \in s : y \in Nat /\ y <= k + 1
      BY <2>1
    <3>2. Max(s) = k + 1
      BY <2>1, <2>3, <3>1, MaxOfInterval
    <3> QED
      BY <2>1, <2>3, <3>1, <3>2
  <2>4. ASSUME NEW s \in SUBSET (1 .. k + 1), k + 1 \notin s
        PROVE  s \in SUBSET (1 .. k)
    BY <2>1, <2>4
  <2>5. g \in [SUBSET (1 .. k + 1) -> V]
    <3> SUFFICES ASSUME NEW s \in SUBSET (1 .. k + 1)
                 PROVE  g[s] \in V
      OBVIOUS
    <3>1. CASE k + 1 \in s
      <4>1. f[s \ {k + 1}] \in V
        BY <2>2, <2>3, <3>1
      <4>2. step[<<k + 1, f[s \ {k + 1}]>>] \in V
        BY <2>1, <4>1
      <4> QED
        BY <3>1, <4>2
    <3>2. CASE k + 1 \notin s
      BY <2>2, <2>4, <3>2
    <3> QED
      BY <3>1, <3>2
  <2>6. ASSUME NEW s \in SUBSET (1 .. k)
        PROVE  g[s] = f[s]
    BY <2>1
  <2>7. ASSUME NEW s \in SUBSET (1 .. k + 1)
        PROVE  g[s] = IF s = {} THEN base ELSE step[<<Max(s), g[s \ {Max(s)}]>>]
    <3>1. CASE k + 1 \in s
      <4>1. g[s] = step[<<k + 1, f[s \ {k + 1}]>>]
        BY <3>1
      <4>2. g[s \ {k + 1}] = f[s \ {k + 1}]
        BY <2>3, <2>6, <3>1
      <4> HIDE DEF g
      <4> QED
        BY <2>3, <3>1, <4>1, <4>2
    <3>2. CASE k + 1 \notin s
      <4>1. s \in SUBSET (1 .. k) /\ s \ {Max(s)} \in SUBSET (1 .. k)
        BY <2>4, <3>2
      <4>2. g[s] = f[s] /\ g[s \ {Max(s)}] = f[s \ {Max(s)}]
        BY <2>6, <4>1
      <4> HIDE DEF g
      <4> QED
        BY <2>2, <4>1, <4>2 DEF IsFold
    <3> QED
      BY <3>1, <3>2
  <2> HIDE DEF g
  <2>8. Folds(k + 1, g)
    BY <2>7 DEF IsFold
  <2> QED
    BY <2>5, <2>8
<1>3. S = Nat
  <2> HIDE DEF S
  <2>1. S \in SUBSET Nat
    BY DEF S
  <2> QED
    BY <1>1, <1>2, <2>1, NatSet
<1>4. n \in S
  <2> HIDE DEF S
  <2> QED
    BY <1>3
<1>5. n <= n
  OBVIOUS
<1> QED
  BY <1>4, <1>5

IsChain(n, base, step, f) ==
  f[0] = base /\ \A i \in 1 .. n : f[i] = step[<<i, f[i - 1]>>]

LEMMA ChainExists ==
  ASSUME NEW n \in Nat, NEW V, NEW base \in V, NEW step \in [(1 .. n) \X V -> V]
  PROVE  \E f \in [0 .. n -> V] : IsChain(n, base, step, f)
<1>1. PICK h \in [SUBSET (1 .. n) -> V] : IsFold(n, base, step, h)
  BY FoldExists
<1> DEFINE f == [i \in 0 .. n |-> h[1 .. i]]
<1>2. \A i \in 0 .. n : 1 .. i \in SUBSET (1 .. n)
  OBVIOUS
<1>3. f \in [0 .. n -> V]
  BY <1>1, <1>2
<1>4. f[0] = base
  <2>1. 1 .. 0 = {} /\ 0 \in 0 .. n
    OBVIOUS
  <2> QED
    BY <1>1, <1>2, <2>1 DEF IsFold
<1>5. ASSUME NEW i \in 1 .. n
      PROVE  f[i] = step[<<i, f[i - 1]>>]
  <2>1. i - 1 \in Nat /\ (i - 1) + 1 = i /\ i \in 0 .. n /\ i - 1 \in 0 .. n
    OBVIOUS
  <2>2. 1 .. i # {} /\ (1 .. i) \ {i} = 1 .. i - 1
    OBVIOUS
  <2>3. Max(1 .. i) = i
    BY <2>1, MaxOfInterval
  <2> QED
    BY <1>1, <1>2, <2>1, <2>2, <2>3 DEF IsFold
<1> HIDE DEF f
<1> QED
  BY <1>3, <1>4, <1>5 DEF IsChain
=============================================================================
