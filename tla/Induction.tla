----------------------------- MODULE Induction -----------------------------
(***************************************************************************)
(* Induction over the naturals as facts about sets, which the provers can  *)
(* use where they cannot instantiate an operator: the property to be       *)
(* proved is the set of the numbers that have it.                          *)
(***************************************************************************)
EXTENDS Integers, FiniteSetTheorems, WellFoundedInduction, TLAPS

\* A set of naturals that is not empty has a least one: of the intervals from 0
\* to its numbers, which are finite, one is minimal under inclusion.
LEMMA LeastExists ==
  ASSUME NEW S \in SUBSET Nat, S # {}
  PROVE  \E i \in S : \A j \in S : i <= j
<1> DEFINE T == {0..i : i \in S}
<1>1. T \subseteq FiniteSubsetsOf(Nat)
  <2> SUFFICES ASSUME NEW i \in S PROVE 0..i \in FiniteSubsetsOf(Nat)
    OBVIOUS
  <2>1. IsFiniteSet(0..i)
    BY FS_Interval
  <2> QED
    BY <2>1 DEF FiniteSubsetsOf
<1>2. T # {}
  OBVIOUS
<1>3. IsWellFoundedOn(StrictSubsetOrdering(Nat), FiniteSubsetsOf(Nat))
  BY FS_StrictSubsetOrderingWellFounded
<1> HIDE DEF T
<1>4. PICK t \in T : \A u \in T : <<u, t>> \notin StrictSubsetOrdering(Nat)
  BY <1>1, <1>2, <1>3, WFMin
<1>5. PICK i \in S : t = 0..i
  BY DEF T
<1>6. ASSUME NEW j \in S, j < i PROVE FALSE
  <2>1. 0..j \in T /\ 0..j \subseteq 0..i /\ i \in 0..i /\ i \notin 0..j
    BY <1>6 DEF T
  <2>2. 0..j \in SUBSET Nat /\ t \in SUBSET Nat
    BY <1>5
  <2>3. <<0..j, t>> \in StrictSubsetOrdering(Nat)
    BY <1>5, <2>1, <2>2 DEF StrictSubsetOrdering
  <2> QED
    BY <1>4, <2>1, <2>3
<1> QED
  BY <1>6

\* And one that is bounded has a greatest one.
LEMMA GreatestExists ==
  ASSUME NEW n \in Nat, NEW S \in SUBSET (0..n), S # {}
  PROVE  \E i \in S : \A j \in S : j <= i
<1> DEFINE Below == {n - i : i \in S}
<1>1. Below \in SUBSET Nat /\ Below # {}
  <2>1. \A i \in S : n - i \in Nat
    <3> SUFFICES ASSUME NEW i \in S PROVE n - i \in Nat
      OBVIOUS
    <3>1. i \in 0..n
      OBVIOUS
    <3> QED
      BY <3>1
  <2> QED
    BY <2>1
<1>2. PICK b \in Below : \A c \in Below : b <= c
  BY <1>1, LeastExists
<1>3. PICK i \in S : b = n - i
  BY <1>2
<1>4. ASSUME NEW j \in S PROVE j <= i
  <2>1. b <= n - j
    BY <1>2
  <2>2. i \in 0..n /\ j \in 0..n
    OBVIOUS
  <2> QED
    BY <1>3, <2>1, <2>2
<1> QED
  BY <1>4

\* Induction: a set with 0, and with n + 1 if it has n, has every natural.
LEMMA SetInduction ==
  ASSUME NEW S, 0 \in S, \A n \in Nat : n \in S => n + 1 \in S
  PROVE  Nat \subseteq S
<1> DEFINE Out == {n \in Nat : n \notin S}
<1> SUFFICES ASSUME Out # {} PROVE FALSE
  OBVIOUS
<1>1. Out \in SUBSET Nat
  OBVIOUS
<1>2. PICK n \in Out : \A m \in Out : n <= m
  BY <1>1, LeastExists
<1>3. n \in Nat /\ n \notin S /\ n # 0
  OBVIOUS
<1>4. n - 1 \in Nat /\ n - 1 \notin Out
  BY <1>2, <1>3
<1>5. n - 1 \in S /\ (n - 1) + 1 = n
  BY <1>3, <1>4
<1> QED
  BY <1>3, <1>4, <1>5

\* Recursion: a value at 0 and a step from each number to the next make a
\* function on the numbers up to n.
IsRecursion(f, T, base, n, step) ==
  /\ f \in [0..n -> T]
  /\ f[0] = base
  /\ \A k \in 1..n : f[k] = step[<<f[k - 1], k>>]

LEMMA FunctionByRecursion ==
  ASSUME NEW T, NEW base \in T, NEW n \in Nat, NEW step \in [T \X (1..n) -> T]
  PROVE  \E f : IsRecursion(f, T, base, n, step)
<1> DEFINE UpTo(f, m) == f[0] = base /\ \A k \in 1..m : f[k] = step[<<f[k - 1], k>>]
           S == {m \in Nat : m <= n => \E f \in [0..m -> T] : UpTo(f, m)}
<1>1. 0 \in S
  <2>1. [i \in 0..0 |-> base] \in [0..0 -> T] /\ UpTo([i \in 0..0 |-> base], 0)
    OBVIOUS
  <2> QED
    BY <2>1
<1>2. ASSUME NEW m \in Nat, m \in S PROVE m + 1 \in S
  <2> SUFFICES ASSUME m + 1 <= n PROVE \E f \in [0..(m + 1) -> T] : UpTo(f, m + 1)
    OBVIOUS
  <2>1. PICK f \in [0..m -> T] : UpTo(f, m)
    BY <1>2
  <2> DEFINE g == [i \in 0..(m + 1) |-> IF i <= m THEN f[i] ELSE step[<<f[m], m + 1>>]]
  <2>2. f[m] \in T /\ m + 1 \in 1..n
    OBVIOUS
  <2>3. <<f[m], m + 1>> \in T \X (1..n)
    BY <2>2
  <2>4. step[<<f[m], m + 1>>] \in T
    BY <2>3
  <2>5. g \in [0..(m + 1) -> T]
    <3>1. \A i \in 0..(m + 1) : i <= m => f[i] \in T
      OBVIOUS
    <3> QED
      BY <2>4, <3>1
  <2>6. \A k \in 0..m : g[k] = f[k]
    OBVIOUS
  <2>7. g[m + 1] = step[<<g[m], m + 1>>]
    <3>1. m + 1 \in 0..(m + 1) /\ ~(m + 1 <= m) /\ m \in 0..m
      OBVIOUS
    <3>2. g[m + 1] = step[<<f[m], m + 1>>]
      BY <3>1
    <3> HIDE DEF g
    <3> QED
      BY <2>6, <3>1, <3>2
  <2> HIDE DEF g
  <2>8. \A k \in 1..m : g[k] = step[<<g[k - 1], k>>]
    BY <2>1, <2>6
  <2>9. UpTo(g, m + 1)
    <3>1. \A k \in 1..(m + 1) : k \in 1..m \/ k = m + 1
      OBVIOUS
    <3>2. (m + 1) - 1 = m /\ g[0] = base
      BY <2>1, <2>6
    <3> QED
      BY <2>7, <2>8, <3>1, <3>2
  <2> QED
    BY <2>5, <2>9
<1> HIDE DEF S
<1>3. n \in S
  BY <1>1, <1>2, SetInduction
<1> QED
  BY <1>3 DEF S, IsRecursion

\* f gives what a step leads to that is taken n times, one after another.
AreSteps(f, T, base, n, grow) ==
  f \in [0..n -> T] /\ f[0] = base /\ \A k \in 1..n : f[k] = grow[f[k - 1]]

LEMMA StepsExist ==
  ASSUME NEW T, NEW base \in T, NEW n \in Nat, NEW grow \in [T -> T]
  PROVE  \E f : AreSteps(f, T, base, n, grow)
<1> DEFINE step == [x \in T \X (1..n) |-> grow[x[1]]]
<1>1. step \in [T \X (1..n) -> T]
  OBVIOUS
<1>2. \A s \in T, k \in 1..n : step[<<s, k>>] = grow[s]
  OBVIOUS
<1> HIDE DEF step
<1>3. PICK f : IsRecursion(f, T, base, n, step)
  BY <1>1, FunctionByRecursion
<1>4. ASSUME NEW k \in 1..n PROVE f[k] = grow[f[k - 1]]
  <2>1. k - 1 \in 0..n
    OBVIOUS
  <2>2. f[k - 1] \in T
    BY <1>3, <2>1 DEF IsRecursion
  <2> QED
    BY <1>2, <1>3, <2>2 DEF IsRecursion
<1> QED
  BY <1>3, <1>4 DEF IsRecursion, AreSteps

=============================================================================
