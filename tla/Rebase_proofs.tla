--------------------------- MODULE Rebase_proofs ----------------------------
(***************************************************************************)
(* Proofs about GetAsList(), for streams of any length, integers of any    *)
(* width and any operands, and about the numbers the operands are read as. *)
(***************************************************************************)
EXTENDS RebaseActions, Leb128, TLAPS

Ind == INSTANCE Induction

(***************************************************************************)
(* The numbers of the operands: ReadLeb128Base reads the number, or        *)
(* refuses it with reason, and stays in its list, for numbers and bytes of *)
(* any width and lists of any length.                                      *)
(***************************************************************************)

\* StaysInTheList is not inductive: a call that has read the whole list and
\* still reads would go on.  The test for the end after each byte rules it out;
\* what it compares is right only after the second byte, and for the first one
\* it is enough that the list has another.
ReadingInv ==
  /\ bytes \in Seq(LebByte) /\ left \in Nat
  /\ left > 1 => Len(bytes) <= left
  /\ left > 1 /\ result = "reading" => Len(bytes) < left

LEMMA InitReads == LebInit => ReadingInv
<1> SUFFICES ASSUME LebInit PROVE ReadingInv
  OBVIOUS
<1>1. bytes = <<>> /\ left \in Nat
  BY Leb128Assumption DEF LebInit
<1> QED
  BY <1>1 DEF ReadingInv

\* A byte more in the list.
LEMMA ReadGrows ==
  ASSUME ReadingInv, NEW b \in LebByte, Read(b)
  PROVE  /\ bytes' \in Seq(LebByte) /\ left' = left /\ left \in Nat
         /\ Len(bytes) \in Nat /\ Len(bytes') = Len(bytes) + 1
         /\ left > 1 => Len(bytes) < left
BY DEF ReadingInv, Read

LEMMA ReadFirstStays == ASSUME ReadingInv, NEW b \in LebByte, ReadFirst(b) PROVE ReadingInv'
<1>1. Read(b) /\ Len(bytes) = 0
  BY DEF ReadFirst
<1>2. bytes' \in Seq(LebByte) /\ left' = left /\ left \in Nat /\ Len(bytes') = 1
  BY <1>1, ReadGrows
<1>3. left' > 1 => Len(bytes') < left'
  BY <1>2
<1> QED
  BY <1>2, <1>3 DEF ReadingInv

LEMMA ReadNextStays == ASSUME ReadingInv, NEW b \in LebByte, ReadNext(b) PROVE ReadingInv'
<1>1. Read(b)
  BY DEF ReadNext
<1>2. result' = "reading" => Len(bytes') # left
  BY DEF ReadNext
<1> QED
  BY <1>1, <1>2, ReadGrows DEF ReadingInv

LEMMA ReadLastStays == ASSUME ReadingInv, NEW b \in LebByte, ReadLast(b) PROVE ReadingInv'
<1>1. Read(b)
  BY DEF ReadLast
<1>2. result' # "reading"
  BY DEF ReadLast
<1> QED
  BY <1>1, <1>2, ReadGrows DEF ReadingInv

LEMMA StepReads == ReadingInv /\ [LebNext]_lebVars => ReadingInv'
<1> SUFFICES ASSUME ReadingInv, [LebNext]_lebVars PROVE ReadingInv'
  OBVIOUS
<1>1. CASE UNCHANGED lebVars
  BY <1>1 DEF lebVars, ReadingInv
<1> QED
  BY <1>1, ReadFirstStays, ReadNextStays, ReadLastStays DEF LebNext, Done

\* However long the number goes on, ReadLeb128Base reads no byte after the end
\* of a list that has more than one byte left.
THEOREM ReadsInsideTheList == LebSpec => []StaysInTheList
<1>1. ReadingInv => StaysInTheList
  BY DEF ReadingInv, StaysInTheList
<1> QED
  BY InitReads, StepReads, <1>1, PTL DEF LebSpec

(***************************************************************************)
(* The weights and the number                                              *)
(***************************************************************************)

\* Weight satisfies its equation, and so the weights grow by the base.
LEMMA WeightsGrow ==
  /\ Weight \in [0..LastWeight -> Nat \ {0}]
  /\ Weight[0] = 1
  /\ \A k \in 1..LastWeight : Weight[k] = Weight[k - 1] * Base
<1> DEFINE T == Nat \ {0}
           step == [p \in T \X (1..LastWeight) |-> p[1] * Base]
           Equation(f) == f = [k \in 0..LastWeight |-> IF k = 0 THEN 1 ELSE f[k - 1] * Base]
<1>1. Base \in Nat /\ Base > 1 /\ LastWeight \in Nat
  BY Leb128Assumption
<1>2. step \in [T \X (1..LastWeight) -> T]
  <2>1. \A x \in T : x * Base \in T
    BY <1>1
  <2> QED
    BY <2>1
<1>3. \A x \in T, k \in 1..LastWeight : step[<<x, k>>] = x * Base
  OBVIOUS
<1> HIDE DEF step
<1>4. PICK f \in [0..LastWeight -> T] :
        f[0] = 1 /\ \A k \in 1..LastWeight : f[k] = step[<<f[k - 1], k>>]
  <2>1. 1 \in T
    OBVIOUS
  <2> HIDE DEF T
  <2>2. \E f : Ind!IsRecursion(f, T, 1, LastWeight, step)
    BY <1>1, <1>2, <2>1, Ind!FunctionByRecursion
  <2> QED
    BY <2>2 DEF Ind!IsRecursion
<1>5. Equation(f)
  <2>1. \A k \in 1..LastWeight : f[k] = f[k - 1] * Base
    <3> SUFFICES ASSUME NEW k \in 1..LastWeight PROVE f[k] = f[k - 1] * Base
      OBVIOUS
    <3>1. k - 1 \in 0..LastWeight
      BY <1>1
    <3>2. f[k - 1] \in T
      BY <3>1
    <3> QED
      BY <1>3, <1>4, <3>2
  <2> QED
    BY <1>4, <2>1
<1>6. Weight = CHOOSE g : Equation(g)
  BY DEF Weight
<1>7. Equation(Weight)
  BY <1>5, <1>6
<1>8. Weight[0] = 1 /\ \A k \in 1..LastWeight : Weight[k] = Weight[k - 1] * Base
  BY <1>1, <1>7
<1>9. \A k \in 0..LastWeight : Weight[k] \in T
  <2> DEFINE S == {k \in Nat : k <= LastWeight => Weight[k] \in T}
  <2>1. 0 \in S
    BY <1>8
  <2>2. ASSUME NEW k \in Nat, k \in S PROVE k + 1 \in S
    <3> SUFFICES ASSUME k + 1 <= LastWeight PROVE Weight[k + 1] \in T
      OBVIOUS
    <3>1. Weight[k] \in T /\ k + 1 \in 1..LastWeight /\ (k + 1) - 1 = k
      BY <1>1, <2>2
    <3>2. Weight[k + 1] = Weight[k] * Base
      BY <1>8, <3>1
    <3> QED
      BY <1>1, <3>1, <3>2
  <2> HIDE DEF S
  <2>3. Nat \subseteq S
    BY <2>1, <2>2, Ind!SetInduction
  <2> QED
    BY <1>1, <2>3 DEF S
<1> QED
  BY <1>7, <1>8, <1>9

\* The weights before the last one, times the base, are not beyond it.
LEMMA NextWeightFits ==
  ASSUME NEW k \in 0..LastWeight, Weight[k] < LastWeight
  PROVE  k + 1 \in 0..LastWeight /\ Weight[k + 1] = Weight[k] * Base /\ Weight[k + 1] <= LastWeight
<1>1. Base \in Nat /\ Base > 1 /\ LastWeight \in Nat
  BY Leb128Assumption
<1>2. PICK m \in 0..LastWeight : LastWeight = Weight[m]
  BY Leb128Assumption
<1>3. /\ \A n \in 0..LastWeight : Weight[n] \in Nat \ {0}
      /\ \A n \in 1..LastWeight : Weight[n] = Weight[n - 1] * Base
  BY WeightsGrow
<1>4. \A n \in 1..LastWeight : Weight[n - 1] <= Weight[n]
  <2> SUFFICES ASSUME NEW n \in 1..LastWeight PROVE Weight[n - 1] <= Weight[n]
    OBVIOUS
  <2>1. n \in 0..LastWeight /\ n - 1 \in 0..LastWeight
    BY <1>1
  <2>2. \A x \in Nat : x <= x * Base
    BY <1>1
  <2> QED
    BY <1>3, <2>1, <2>2
<1>5. \A n \in 0..LastWeight : \A d \in Nat : n + d <= LastWeight => Weight[n] <= Weight[n + d]
  <2> SUFFICES ASSUME NEW n \in 0..LastWeight
               PROVE  \A d \in Nat : n + d <= LastWeight => Weight[n] <= Weight[n + d]
    OBVIOUS
  <2> DEFINE S == {d \in Nat : n + d <= LastWeight => Weight[n] <= Weight[n + d]}
  <2>1. 0 \in S
    BY <1>1, <1>3
  <2>2. ASSUME NEW d \in Nat, d \in S PROVE d + 1 \in S
    <3> SUFFICES ASSUME n + (d + 1) <= LastWeight PROVE Weight[n] <= Weight[n + (d + 1)]
      OBVIOUS
    <3>1. Weight[n] <= Weight[n + d]
      BY <1>1, <2>2
    <3>2. /\ n + (d + 1) \in 1..LastWeight /\ (n + (d + 1)) - 1 = n + d
          /\ n + d \in 0..LastWeight /\ n + (d + 1) \in 0..LastWeight
      BY <1>1
    <3>3. Weight[n + d] <= Weight[n + (d + 1)]
      BY <1>4, <3>2
    <3>4. Weight[n] \in Nat /\ Weight[n + d] \in Nat /\ Weight[n + (d + 1)] \in Nat
      BY <1>3, <3>2
    <3> QED
      BY <3>1, <3>3, <3>4
  <2> HIDE DEF S
  <2>3. Nat \subseteq S
    BY <2>1, <2>2, Ind!SetInduction
  <2> QED
    BY <2>3 DEF S
<1>6. k < m
  <2>1. SUFFICES ASSUME m <= k PROVE FALSE
    BY <1>1, <1>2
  <2>2. k - m \in Nat /\ m + (k - m) = k
    BY <1>1, <1>2, <2>1
  <2>3. Weight[m] <= Weight[k]
    BY <1>1, <1>5, <2>2
  <2> QED
    BY <1>1, <1>2, <1>3, <2>3
<1>7. k + 1 \in 1..LastWeight /\ (k + 1) - 1 = k /\ k + 1 \in 0..LastWeight
  BY <1>1, <1>6
<1>8. Weight[k + 1] = Weight[k] * Base
  BY <1>3, <1>7
<1>9. Weight[k + 1] <= Weight[m]
  <2>1. m - (k + 1) \in Nat /\ (k + 1) + (m - (k + 1)) = m
    BY <1>1, <1>6
  <2> QED
    BY <1>1, <1>5, <1>7, <2>1
<1> QED
  BY <1>2, <1>7, <1>8, <1>9

Sum == [number : Nat, over : Nat \ {0}]

\* f has the sums of the first digits of s.
Sums(s, f) ==
  /\ f \in [0..Len(s) -> Sum]
  /\ f[0] = [number |-> 0, over |-> 1]
  /\ \A k \in 1..Len(s) : f[k] = [number |-> f[k - 1].number + s[k].digit * f[k - 1].over,
                                  over |-> f[k - 1].over * Base]

LEMMA Products ==
  /\ \A a, b \in Nat : a * b \in Nat /\ a * b = b * a
  /\ \A a, b \in Nat \ {0} : a * b \in Nat \ {0}
<1>1. \A a, b \in Nat : a * b \in Nat
  OBVIOUS
<1>2. \A a, b \in Nat : a * b = b * a
  OBVIOUS
<1>3. \A a, b \in Nat \ {0} : a * b \in Nat \ {0}
  OBVIOUS
<1> QED
  BY <1>1, <1>2, <1>3

LEMMA NumberIsSum ==
  ASSUME NEW s \in Seq(LebByte)
  PROVE  \E f : Sums(s, f) /\ NumberOf(s) = f[Len(s)]
<1> DEFINE Next1(x, k) == [number |-> x.number + s[k].digit * x.over, over |-> x.over * Base]
           step == [p \in Sum \X (1..Len(s)) |-> Next1(p[1], p[2])]
           Equation(f) == f = [k \in 0..Len(s) |-> IF k = 0 THEN [number |-> 0, over |-> 1]
                                                   ELSE Next1(f[k - 1], k)]
<1>1. Base \in Nat /\ Base > 1 /\ Len(s) \in Nat
  BY Leb128Assumption
<1>2. \A x \in Sum, k \in 1..Len(s) : Next1(x, k) \in Sum
  <2> SUFFICES ASSUME NEW x \in Sum, NEW k \in 1..Len(s) PROVE Next1(x, k) \in Sum
    OBVIOUS
  <2>1. s[k] \in LebByte
    OBVIOUS
  <2>2. s[k].digit \in Nat /\ x.number \in Nat /\ x.over \in Nat \ {0}
    BY <1>1, <2>1 DEF LebByte, Sum
  <2>3. s[k].digit * x.over \in Nat /\ x.over * Base \in Nat \ {0}
    <3>1. Base \in Nat \ {0} /\ x.over \in Nat
      BY <1>1, <2>2
    <3> QED
      BY <2>2, <3>1, Products
  <2>4. x.number + s[k].digit * x.over \in Nat
    BY <2>2, <2>3
  <2> QED
    BY <2>3, <2>4 DEF Sum
<1> HIDE DEF Next1
<1>3. step \in [Sum \X (1..Len(s)) -> Sum]
      /\ \A x \in Sum, k \in 1..Len(s) : step[<<x, k>>] = Next1(x, k)
  BY <1>2
<1> HIDE DEF step
<1>4. [number |-> 0, over |-> 1] \in Sum
  BY DEF Sum
<1>5. PICK f \in [0..Len(s) -> Sum] :
        /\ f[0] = [number |-> 0, over |-> 1]
        /\ \A k \in 1..Len(s) : f[k] = step[<<f[k - 1], k>>]
  <2>1. \E f : Ind!IsRecursion(f, Sum, [number |-> 0, over |-> 1], Len(s), step)
    BY <1>1, <1>3, <1>4, Ind!FunctionByRecursion
  <2> QED
    BY <2>1 DEF Ind!IsRecursion
<1>6. Equation(f)
  <2>1. \A k \in 1..Len(s) : f[k] = Next1(f[k - 1], k)
    <3> SUFFICES ASSUME NEW k \in 1..Len(s) PROVE f[k] = Next1(f[k - 1], k)
      OBVIOUS
    <3>1. k - 1 \in 0..Len(s)
      BY <1>1
    <3>2. f[k - 1] \in Sum
      BY <3>1
    <3> QED
      BY <1>3, <1>5, <3>2
  <2> QED
    BY <1>5, <2>1
<1> DEFINE F == CHOOSE g : Equation(g)
<1>7. NumberOf(s) = F[Len(s)]
  BY DEF NumberOf, Next1
<1>8. Equation(F)
  BY <1>6
<1> HIDE DEF F
<1>9. F[0] = [number |-> 0, over |-> 1] /\ \A k \in 1..Len(s) : F[k] = Next1(F[k - 1], k)
  <2>1. 0 \in 0..Len(s) /\ \A k \in 1..Len(s) : k \in 0..Len(s) /\ k # 0
    BY <1>1
  <2>2. \A k \in 0..Len(s) : F[k] = IF k = 0 THEN [number |-> 0, over |-> 1]
                                 ELSE Next1(F[k - 1], k)
    BY <1>8
  <2> QED
    BY <2>1, <2>2
<1>10. \A k \in 0..Len(s) : F[k] \in Sum
  <2> DEFINE S == {k \in Nat : k <= Len(s) => F[k] \in Sum}
  <2>1. 0 \in S
    BY <1>4, <1>9
  <2>2. ASSUME NEW k \in Nat, k \in S PROVE k + 1 \in S
    <3> SUFFICES ASSUME k + 1 <= Len(s) PROVE F[k + 1] \in Sum
      OBVIOUS
    <3>1. F[k] \in Sum /\ k + 1 \in 1..Len(s) /\ (k + 1) - 1 = k
      BY <1>1, <2>2
    <3> QED
      BY <1>2, <1>9, <3>1
  <2> HIDE DEF S
  <2>3. Nat \subseteq S
    BY <2>1, <2>2, Ind!SetInduction
  <2> QED
    BY <1>1, <2>3 DEF S
<1>11. F \in [0..Len(s) -> Sum]
  BY <1>8, <1>10
<1>12. Sums(s, F)
  BY <1>9, <1>11 DEF Sums, Next1
<1> QED
  BY <1>7, <1>12

\* The sums of a sequence are the only ones.
LEMMA SumsAgree ==
  ASSUME NEW s \in Seq(LebByte), NEW t \in Seq(LebByte), Len(s) <= Len(t),
         \A k \in 1..Len(s) : s[k] = t[k], NEW f, NEW g, Sums(s, f), Sums(t, g)
  PROVE  \A k \in 0..Len(s) : f[k] = g[k]
<1> DEFINE S == {k \in Nat : k <= Len(s) => f[k] = g[k]}
<1>1. Len(s) \in Nat /\ Len(t) \in Nat
  OBVIOUS
<1>2. 0 \in S
  BY DEF Sums
<1>3. ASSUME NEW k \in Nat, k \in S PROVE k + 1 \in S
  <2> SUFFICES ASSUME k + 1 <= Len(s) PROVE f[k + 1] = g[k + 1]
    OBVIOUS
  <2>1. f[k] = g[k] /\ k + 1 \in 1..Len(s) /\ k + 1 \in 1..Len(t) /\ (k + 1) - 1 = k
    BY <1>1, <1>3
  <2>2. f[k + 1] = [number |-> f[k].number + s[k + 1].digit * f[k].over,
                    over |-> f[k].over * Base]
    BY <2>1 DEF Sums
  <2>3. g[k + 1] = [number |-> g[k].number + t[k + 1].digit * g[k].over,
                    over |-> g[k].over * Base]
    BY <2>1 DEF Sums
  <2> QED
    BY <2>1, <2>2, <2>3
<1> HIDE DEF S
<1>4. Nat \subseteq S
  BY <1>2, <1>3, Ind!SetInduction
<1> QED
  BY <1>1, <1>4 DEF S

\* A digit more adds its value.
LEMMA NumberGrows ==
  ASSUME NEW s \in Seq(LebByte), NEW b \in LebByte
  PROVE  /\ NumberOf(s) \in Sum
         /\ NumberOf(Append(s, b))
              = [number |-> NumberOf(s).number + b.digit * NumberOf(s).over,
                 over |-> NumberOf(s).over * Base]
<1> DEFINE t == Append(s, b)
<1>1. /\ t \in Seq(LebByte) /\ Len(s) \in Nat /\ Len(t) = Len(s) + 1 /\ t[Len(s) + 1] = b
      /\ \A k \in 1..Len(s) : s[k] = t[k]
  OBVIOUS
<1> HIDE DEF t
<1>2. PICK f : Sums(s, f) /\ NumberOf(s) = f[Len(s)]
  BY NumberIsSum
<1>3. PICK g : Sums(t, g) /\ NumberOf(t) = g[Len(t)]
  BY <1>1, NumberIsSum
<1>4. g[Len(s)] = f[Len(s)]
  BY <1>1, <1>2, <1>3, SumsAgree
<1>5. f[Len(s)] \in Sum
  BY <1>1, <1>2 DEF Sums
<1>6. Len(t) \in 1..Len(t) /\ Len(t) - 1 = Len(s) /\ t[Len(t)] = b
  BY <1>1
<1>7. g[Len(t)] = [number |-> g[Len(s)].number + b.digit * g[Len(s)].over,
                   over |-> g[Len(s)].over * Base]
  BY <1>3, <1>6 DEF Sums
<1> QED
  BY <1>2, <1>3, <1>4, <1>5, <1>7 DEF t

LEMMA NumberOfNothing == NumberOf(<<>>) = [number |-> 0, over |-> 1]
<1>1. <<>> \in Seq(LebByte) /\ Len(<<>>) = 0
  OBVIOUS
<1>2. PICK f : Sums(<<>>, f) /\ NumberOf(<<>>) = f[Len(<<>>)]
  BY <1>1, NumberIsSum
<1> QED
  BY <1>1, <1>2 DEF Sums

(***************************************************************************)
(* The verdict                                                             *)
(***************************************************************************)

\* What has been read is a number that goes on: its value and the next weight
\* are those of its bytes.
Exact ==
  /\ value = Number.number /\ weight = Number.over
  /\ value < weight
  /\ \E k \in 0..LastWeight : weight = Weight[k]
  /\ \A k \in 1..Len(bytes) : bytes[k].more

\* VerdictIsRight says nothing of a call that still reads; the next byte
\* completes the right number only because the bytes so far are held exactly.
ValueInv == VerdictIsRight /\ (result = "reading" => Exact)

\* Digits below n and less than a weight are below n weights.
LEMMA DigitsBelow ==
  ASSUME NEW w \in Nat \ {0}, NEW v \in Nat, v < w, NEW d \in Nat, NEW n \in Nat, d < n
  PROVE  v + d * w \in Nat /\ v + d * w < n * w /\ n * w \in Nat
<1>1. d + 1 <= n /\ (d + 1) * w = d * w + w /\ d * w \in Nat /\ n * w \in Nat
  OBVIOUS
<1>2. (d + 1) * w <= n * w
  <2>1. n - (d + 1) \in Nat /\ n = (d + 1) + (n - (d + 1))
    BY <1>1
  <2>2. \A a, b \in Nat : (a + b) * w = a * w + b * w /\ b * w \in Nat /\ a * w \in Nat
    OBVIOUS
  <2>3. n * w = (d + 1) * w + (n - (d + 1)) * w /\ (n - (d + 1)) * w \in Nat /\ (d + 1) * w \in Nat
    BY <2>1, <2>2
  <2> QED
    BY <1>1, <2>3
<1> QED
  BY <1>1, <1>2

\* The sizes: a digit is below the last weight, and that in the integer.
LEMMA Sizes ==
  /\ Base \in Nat /\ Base > 1 /\ LastWeight \in Nat /\ LastWeight > 1 /\ MaxLeft \in Nat
  /\ LastDigits \in 2..(Base - 1) /\ LastDigits * LastWeight = UMax + 1
  /\ UMax \in Nat /\ Base <= LastWeight /\ LastWeight <= UMax
  /\ 1 \in 0..LastWeight /\ Weight[0] = 1 /\ Weight[1] = Base
<1>1. /\ Base \in Nat /\ Base > 1 /\ LastWeight \in Nat /\ LastWeight > 1 /\ MaxLeft \in Nat
      /\ LastDigits \in 2..(Base - 1) /\ LastDigits * LastWeight = UMax + 1
  BY Leb128Assumption
<1>2. 0 \in 0..LastWeight /\ Weight[0] < LastWeight /\ Weight[0] = 1
  BY <1>1, WeightsGrow
<1>3. 1 \in 0..LastWeight /\ Weight[1] = Base /\ Base <= LastWeight
  BY <1>1, <1>2, NextWeightFits
<1>4. LastWeight + 1 < LastDigits * LastWeight /\ LastDigits * LastWeight \in Nat
  <2>1. LastDigits \in Nat /\ 1 < LastDigits
    BY <1>1
  <2>2. \A w \in Nat, d \in Nat : 1 < d /\ 1 < w => w + 1 < d * w /\ d * w \in Nat
    <3> SUFFICES ASSUME NEW w \in Nat, NEW d \in Nat, 1 < d, 1 < w
                 PROVE  w + 1 < d * w /\ d * w \in Nat
      OBVIOUS
    <3>1. PICK e \in Nat : d = 2 + e
      <4>1. d - 2 \in Nat /\ d = 2 + (d - 2)
        OBVIOUS
      <4> QED
        BY <4>1
    <3>2. d * w = 2 * w + e * w /\ e * w \in Nat
      BY <3>1
    <3> QED
      BY <3>2
  <2> QED
    BY <1>1, <2>1, <2>2
<1>5. UMax \in Int
  BY Leb128Assumption DEF UMax
<1> QED
  BY <1>1, <1>2, <1>3, <1>4, <1>5

LEMMA InitExact == LebInit => ValueInv
<1> SUFFICES ASSUME LebInit PROVE ValueInv
  OBVIOUS
<1>1. /\ bytes = <<>> /\ result = "reading" /\ weight = 1 /\ value = 0
      /\ left \in 0..MaxLeft /\ signed \in BOOLEAN
  BY DEF LebInit
<1>2. LebTypeOK
  <2>1. <<>> \in Seq(LebByte)
    OBVIOUS
  <2> QED
    BY <1>1, <2>1, Sizes DEF LebTypeOK
<1>3. Exact
  <2>1. 0 \in 0..LastWeight
    BY Sizes
  <2>2. Number = [number |-> 0, over |-> 1]
    BY <1>1, NumberOfNothing DEF Number
  <2> QED
    BY <1>1, <2>1, <2>2, Sizes DEF Exact
<1> QED
  BY <1>1, <1>2, <1>3 DEF ValueInv, VerdictIsRight, ReadsTheNumber, RefusalsHaveAReason

\* What a byte more does to the number.
LEMMA ReadAdds ==
  ASSUME ValueInv, NEW b \in LebByte, Read(b)
  PROVE  /\ Exact /\ LebTypeOK /\ value \in Nat /\ weight \in Nat \ {0}
         /\ b.digit \in Nat /\ b.digit < Base /\ b.more \in BOOLEAN
         /\ signed' \in BOOLEAN /\ left' \in 0..MaxLeft /\ left' = left
         /\ bytes' \in Seq(LebByte) /\ Len(bytes) \in Nat /\ Len(bytes') = Len(bytes) + 1
         /\ bytes'[Len(bytes')] = b
         /\ \A k \in 1..(Len(bytes') - 1) : bytes'[k].more
         /\ b.more => \A k \in 1..Len(bytes') : bytes'[k].more
         /\ Number' = [number |-> value + b.digit * weight, over |-> weight * Base]
<1>1. result = "reading" /\ bytes' = Append(bytes, b) /\ left' = left /\ signed' = signed
  BY DEF Read
<1>2. Exact /\ LebTypeOK
  BY <1>1 DEF ValueInv, VerdictIsRight
<1>3. bytes \in Seq(LebByte) /\ value \in Nat /\ weight \in Nat \ {0}
  BY <1>2, Sizes DEF LebTypeOK
<1>4. /\ bytes' \in Seq(LebByte) /\ Len(bytes) \in Nat /\ Len(bytes') = Len(bytes) + 1
      /\ bytes'[Len(bytes')] = b
      /\ \A k \in 1..Len(bytes) : bytes'[k] = bytes[k]
  BY <1>1, <1>3
<1>5. \A k \in 1..Len(bytes) : bytes'[k].more
  BY <1>2, <1>4 DEF Exact
<1>6. \A k \in 1..Len(bytes') : k \in 1..Len(bytes) \/ k = Len(bytes')
  BY <1>4
<1>7. Number' = [number |-> value + b.digit * weight, over |-> weight * Base]
  <2>1. Number' = NumberOf(bytes')
    BY DEF Number
  <2>2. value = NumberOf(bytes).number /\ weight = NumberOf(bytes).over
    BY <1>2 DEF Exact, Number
  <2> QED
    BY <1>1, <1>3, <2>1, <2>2, NumberGrows
<1>8. b.digit \in Nat /\ b.digit < Base /\ b.more \in BOOLEAN
  BY Sizes DEF LebByte
<1>9. \A k \in 1..(Len(bytes') - 1) : bytes'[k].more
  BY <1>4, <1>5
<1>10. b.more => \A k \in 1..Len(bytes') : bytes'[k].more
  BY <1>4, <1>5, <1>6
<1>11. signed' \in BOOLEAN /\ left' \in 0..MaxLeft
  BY <1>1, <1>2 DEF LebTypeOK
<1> QED
  BY <1>1, <1>2, <1>3, <1>4, <1>7, <1>8, <1>9, <1>10, <1>11

LEMMA ReadFirstExact == ASSUME ValueInv, NEW b \in LebByte, ReadFirst(b) PROVE ValueInv'
<1>1. /\ bytes = <<>> /\ Read(b) /\ value' = b.digit
      /\ weight' = IF b.more THEN Base ELSE weight
      /\ ~b.more => result' = "number"
      /\ b.more /\ left = 0 => result' = "refused"
      /\ b.more /\ left # 0 => result' = "reading"
  <2>1. b.more \in BOOLEAN
    BY DEF LebByte
  <2> QED
    BY <2>1 DEF ReadFirst
<1>2. /\ Exact /\ LebTypeOK /\ value \in Nat /\ weight \in Nat \ {0}
      /\ b.digit \in Nat /\ b.digit < Base /\ b.more \in BOOLEAN
      /\ signed' \in BOOLEAN /\ left' \in 0..MaxLeft /\ left' = left
      /\ bytes' \in Seq(LebByte) /\ Len(bytes) \in Nat /\ Len(bytes') = Len(bytes) + 1
      /\ bytes'[Len(bytes')] = b
      /\ \A k \in 1..(Len(bytes') - 1) : bytes'[k].more
      /\ b.more => \A k \in 1..Len(bytes') : bytes'[k].more
      /\ Number' = [number |-> value + b.digit * weight, over |-> weight * Base]
  BY <1>1, ReadAdds
<1>3. value = 0 /\ weight = 1 /\ Len(bytes) = 0
  <2>1. Number = [number |-> 0, over |-> 1]
    BY <1>1, NumberOfNothing DEF Number
  <2> QED
    BY <1>1, <1>2, <2>1 DEF Exact
<1>4. Number' = [number |-> b.digit, over |-> Base]
  BY <1>2, <1>3, Sizes
<1>5. LebTypeOK'
  BY <1>1, <1>2, <1>3, Sizes DEF LebTypeOK
<1>6. ReadsTheNumber'
  BY <1>1, <1>2, <1>4, SMTT(30) DEF ReadsTheNumber
<1>7. RefusalsHaveAReason'
  BY <1>1, <1>2, <1>3 DEF RefusalsHaveAReason
<1>8. result' = "reading" => Exact'
  <2> HAVE result' = "reading"
  <2>1. b.more /\ weight' = Base
    BY <1>1, <1>2
  <2>2. value' = Number'.number /\ weight' = Number'.over /\ value' < weight'
    BY <1>1, <1>2, <1>4, <2>1
  <2>3. \E k \in 0..LastWeight : weight' = Weight[k]
    BY <2>1, Sizes
  <2> QED
    BY <1>2, <2>1, <2>2, <2>3 DEF Exact
<1> QED
  BY <1>5, <1>6, <1>7, <1>8 DEF ValueInv, VerdictIsRight

LEMMA ReadNextExact == ASSUME ValueInv, NEW b \in LebByte, ReadNext(b) PROVE ValueInv'
<1>1. /\ Read(b) /\ weight # LastWeight
      /\ value' = value + b.digit * weight /\ weight' = weight * Base
      /\ ~b.more => result' = "number"
      /\ b.more /\ Len(bytes') = left => result' = "refused"
      /\ b.more /\ Len(bytes') # left => result' = "reading"
  <2>1. b.more \in BOOLEAN
    BY DEF LebByte
  <2> QED
    BY <2>1 DEF ReadNext
<1>2. /\ Exact /\ LebTypeOK /\ value \in Nat /\ weight \in Nat \ {0}
      /\ b.digit \in Nat /\ b.digit < Base /\ b.more \in BOOLEAN
      /\ signed' \in BOOLEAN /\ left' \in 0..MaxLeft /\ left' = left
      /\ bytes' \in Seq(LebByte) /\ Len(bytes) \in Nat /\ Len(bytes') = Len(bytes) + 1
      /\ bytes'[Len(bytes')] = b
      /\ \A k \in 1..(Len(bytes') - 1) : bytes'[k].more
      /\ b.more => \A k \in 1..Len(bytes') : bytes'[k].more
      /\ Number' = [number |-> value + b.digit * weight, over |-> weight * Base]
  BY <1>1, ReadAdds
<1>3. PICK k \in 0..LastWeight : weight = Weight[k]
  BY <1>2 DEF Exact
<1>4. /\ k + 1 \in 0..LastWeight /\ Weight[k + 1] = weight'
      /\ weight' \in Nat /\ weight' <= LastWeight
  <2>1. weight < LastWeight
    BY <1>1, <1>2, Sizes DEF LebTypeOK
  <2>2. weight * Base \in Nat
    <3>1. Base \in Nat /\ weight \in Nat
      BY <1>2, Sizes
    <3> QED
      BY <3>1, Products
  <2> QED
    BY <1>1, <1>3, <2>1, <2>2, NextWeightFits
<1>5. value' \in Nat /\ value' < weight'
  <2>1. value < weight
    BY <1>2 DEF Exact
  <2>2. value + b.digit * weight \in Nat /\ value + b.digit * weight < Base * weight
    BY <1>2, <2>1, Sizes, DigitsBelow
  <2>3. Base * weight = weight * Base
    <3>1. Base \in Nat /\ weight \in Nat
      BY <1>2, Sizes
    <3> QED
      BY <3>1, Products
  <2> QED
    BY <1>1, <2>2, <2>3
<1>6. LebTypeOK'
  <2>1. weight' \in 1..LastWeight
    <3>1. Base \in Nat \ {0} /\ weight \in Nat \ {0} /\ LastWeight \in Nat
      BY <1>2, Sizes
    <3>2. weight' \in Nat \ {0}
      BY <1>1, <3>1, Products
    <3> QED
      BY <1>4, <3>1, <3>2
  <2>2. value' \in 0..UMax
    <3>1. LastWeight <= UMax /\ UMax \in Nat /\ LastWeight \in Nat
      BY Sizes
    <3> QED
      BY <1>4, <1>5, <3>1
  <2>3. result' \in {"reading", "number", "refused"}
    BY <1>1, <1>2
  <2> QED
    BY <1>2, <2>1, <2>2, <2>3 DEF LebTypeOK
<1>7. ReadsTheNumber'
  BY <1>1, <1>2 DEF ReadsTheNumber
<1>8. RefusalsHaveAReason'
  BY <1>1, <1>2 DEF RefusalsHaveAReason
<1>9. result' = "reading" => Exact'
  BY <1>1, <1>2, <1>4, <1>5 DEF Exact
<1> QED
  BY <1>6, <1>7, <1>8, <1>9 DEF ValueInv, VerdictIsRight

LEMMA ReadLastExact == ASSUME ValueInv, NEW b \in LebByte, ReadLast(b) PROVE ValueInv'
<1>1. /\ Read(b) /\ weight = LastWeight /\ weight' = weight
      /\ IF b.more \/ b.digit >= LastDigits
         THEN result' = "refused" /\ value' = value
         ELSE result' = "number" /\ value' = value + b.digit * weight
  BY DEF ReadLast
<1>2. /\ Exact /\ LebTypeOK /\ value \in Nat /\ weight \in Nat \ {0}
      /\ b.digit \in Nat /\ b.digit < Base /\ b.more \in BOOLEAN
      /\ signed' \in BOOLEAN /\ left' \in 0..MaxLeft /\ left' = left
      /\ bytes' \in Seq(LebByte) /\ Len(bytes) \in Nat /\ Len(bytes') = Len(bytes) + 1
      /\ bytes'[Len(bytes')] = b
      /\ \A k \in 1..(Len(bytes') - 1) : bytes'[k].more
      /\ b.more => \A k \in 1..Len(bytes') : bytes'[k].more
      /\ Number' = [number |-> value + b.digit * weight, over |-> weight * Base]
  BY <1>1, ReadAdds
<1>3. value < weight
  BY <1>2 DEF Exact
<1>4. LastDigits \in Nat /\ value + b.digit * weight \in Nat
  <2>1. LastDigits \in Nat
    BY Sizes
  <2>2. b.digit * weight \in Nat
    BY <1>2
  <2> QED
    BY <1>2, <2>1, <2>2
<1>5. b.digit < LastDigits => value + b.digit * weight <= UMax
  <2> HAVE b.digit < LastDigits
  <2>1. value + b.digit * weight < LastDigits * weight
    BY <1>2, <1>3, <1>4, DigitsBelow
  <2> QED
    BY <1>1, <1>4, <2>1, Sizes
<1>6. b.digit >= LastDigits => value + b.digit * weight > UMax
  <2> HAVE b.digit >= LastDigits
  <2>1. PICK e \in Nat : b.digit = LastDigits + e
    <3>1. b.digit - LastDigits \in Nat /\ b.digit = LastDigits + (b.digit - LastDigits)
      BY <1>2, <1>4
    <3> QED
      BY <3>1
  <2>2. b.digit * weight = LastDigits * weight + e * weight /\ e * weight \in Nat
    BY <1>2, <1>4, <2>1
  <2>3. LastDigits * weight = UMax + 1 /\ UMax \in Nat
    BY <1>1, Sizes
  <2> QED
    BY <1>2, <2>2, <2>3, SMTT(30)
<1>7. LebTypeOK'
  <2>1. value' \in 0..UMax
    <3>1. UMax \in Nat /\ value \in 0..UMax
      BY <1>2, Sizes DEF LebTypeOK
    <3>2. ~(b.digit >= LastDigits) => b.digit < LastDigits
      BY <1>2, <1>4
    <3> QED
      BY <1>1, <1>4, <1>5, <3>1, <3>2
  <2>2. weight' \in 1..LastWeight
    BY <1>1, Sizes
  <2> QED
    BY <1>1, <1>2, <2>1, <2>2 DEF LebTypeOK
<1>8. ReadsTheNumber'
  BY <1>1, <1>2 DEF ReadsTheNumber
<1>9. RefusalsHaveAReason'
  BY <1>1, <1>2, <1>6 DEF RefusalsHaveAReason
<1> QED
  BY <1>1, <1>7, <1>8, <1>9 DEF ValueInv, VerdictIsRight

LEMMA StepExact == ValueInv /\ [LebNext]_lebVars => ValueInv'
<1> SUFFICES ASSUME ValueInv, [LebNext]_lebVars PROVE ValueInv'
  OBVIOUS
<1>1. CASE UNCHANGED lebVars
  BY <1>1 DEF lebVars, ValueInv, VerdictIsRight, LebTypeOK, ReadsTheNumber, RefusalsHaveAReason,
              Exact, Number
<1> QED
  BY <1>1, ReadFirstExact, ReadNextExact, ReadLastExact DEF LebNext, Done

\* ReadLeb128Base returns the number its bytes stand for, with no bit lost, and
\* refuses only a number that does not end in its list or does not fit.
THEOREM ReadsItsNumber == LebSpec => []VerdictIsRight
<1>1. ValueInv => VerdictIsRight
  BY DEF ValueInv
<1> QED
  BY InitExact, StepExact, <1>1, PTL DEF LebSpec

-----------------------------------------------------------------------------
USE WidthAssumption

(***************************************************************************)
(* The integers                                                            *)
(***************************************************************************)

\* Reducing a number to the unsigned type gives a number of that type.
LEMMA UnsignedFits ==
  ASSUME NEW n \in Int
  PROVE  ToUnsigned(n) \in 0..UMax
  BY DEF WidthAssumption, ToUnsigned, UMax

\* Reading a number as a signed one gives a number of the signed type.
LEMMA SignedFits ==
  ASSUME NEW n \in Int
  PROVE  ToSigned(n) \in (-SMax - 1)..SMax
<1>1. ToUnsigned(n) \in 0..UMax
  BY UnsignedFits
<1> QED
  BY <1>1 DEF WidthAssumption, ToSigned, UMax, SMax

(***************************************************************************)
(* The opcodes                                                             *)
(***************************************************************************)

\* What the members of Opcodes have in common.
LEMMA OpcodeFields ==
  ASSUME NEW o \in Opcodes
  PROVE  /\ o.valid \in BOOLEAN /\ o.n \in Int /\ o.m \in Int
         /\ o.op = "SetSegmentAndOffsetUleb" => o.n \in 0..UMax
         /\ o.op = "AddAddrImmScaled" => o.n \in 0..UMax
         /\ o.op = "SetKindImm" => o.valid /\ o.n \in 0..UMax
<1>1. CASE \E op \in {"SetKindImm", "SetSegmentAndOffsetUleb", "AddAddrImmScaled"},
               n \in Offsets \cup Scales \cup Kinds :
             o = [op |-> op, n |-> n, m |-> 0, valid |-> TRUE]
  BY <1>1, OperandsAssumption DEF OperandsAssumption, WidthAssumption, UMax
<1>2. CASE \E op \in {"AddAddrUleb", "DoRebaseTimes", "DoRebaseAddAddrUleb",
                      "DoRebaseUlebTimesSkipUleb", "Unrecognized"},
               n \in Adds \cup Counts \cup {0}, m \in Skips \cup {0} :
             o = [op |-> op, n |-> n, m |-> m, valid |-> TRUE]
  BY <1>2, OperandsAssumption DEF OperandsAssumption, WidthAssumption, UMax, SMax
<1>3. CASE \E op \in UlebOpcodes : o = [op |-> op, n |-> 0, m |-> 0, valid |-> FALSE]
  BY <1>3 DEF UlebOpcodes, WidthAssumption, UMax
<1> QED
  BY <1>1, <1>2, <1>3 DEF Opcodes, Opcode

(***************************************************************************)
(* The type invariant                                                      *)
(***************************************************************************)

Errors == {"None", "InvalidLeb128", "UnrecognizedRebaseOpcode", "UnrecognizedRebaseWriteKind",
           "NoSegmentIndex", "NoWriteKind", "OutOfBoundsSegmentAddr"}

InfoType == [error : Errors, kind : Int, hasSegment : BOOLEAN, segOffset : 0..UMax,
             addAddr : Int, skip : 0..UMax, addrInSeg : 0..UMax]

EntryType == [addr : 0..UMax, error : Errors, at : Nat]

\* What TypeOK needs to be inductive: the types of all fields, and that there is
\* a current opcode unless the end is reached.
TypeInv ==
  /\ pc \in {"advance", "list", "done", "stopped"}
  /\ stream \in Seq(Opcodes) /\ atEnd \in BOOLEAN
  /\ ~atEnd => stream # <<>>
  /\ info \in InfoType
  /\ last \in RunOpcodes \cup {"SetKindImm", "DoRebaseAddAddrUleb", "Done"}
  /\ segAdd \in (-SMax - 1)..SMax /\ addAmt \in (-SMax - 1)..SMax
  /\ count \in 0..UMax
  /\ list \in Seq(EntryType)
  /\ \A k \in 1..Len(list) : CanIgnoreError(list[k].error)

\* What an advance of the opcode iterator writes, and what it leaves.
LEMMA ErrorCleared ==
  ASSUME NEW i \in InfoType
  PROVE  [i EXCEPT !.error = "None"] \in InfoType
<1>1. "None" \in Errors
  BY DEF Errors
<1> QED
  BY <1>1 DEF InfoType

LEMMA ReadOpcodeFields ==
  ASSUME NEW i \in InfoType, NEW o \in Opcodes
  PROVE  /\ ReadOpcode(i, o) \in InfoType
         /\ ReadOpcode(i, o).error = ReadError(o)
         /\ ReadOpcode(i, o).hasSegment
              = (i.hasSegment \/ (o.valid /\ o.op = "SetSegmentAndOffsetUleb"))
         /\ ReadOpcode(i, o).kind = IF o.op = "SetKindImm" THEN o.n ELSE i.kind
<1>1. ReadError(o) \in Errors
  BY DEF ReadError, Errors
<1>2. ToUnsigned(o.m) \in 0..UMax
  BY OpcodeFields, UnsignedFits
<1>3. /\ o.valid \in BOOLEAN /\ o.n \in Int
      /\ o.op = "SetSegmentAndOffsetUleb" => o.n \in 0..UMax
      /\ o.op = "AddAddrImmScaled" => o.n \in 0..UMax
      /\ o.op = "SetKindImm" => o.valid
  BY OpcodeFields
<1>4. CASE ~o.valid
  <2>1. ReadOpcode(i, o) = [i EXCEPT !.error = ReadError(o)]
    BY <1>4 DEF ReadOpcode
  <2> QED
    BY <1>1, <1>3, <1>4, <2>1 DEF InfoType
<1>5. CASE o.valid
  <2> DEFINE j == [i EXCEPT !.error = ReadError(o)]
  <2>1. j \in InfoType /\ j.kind = i.kind /\ j.hasSegment = i.hasSegment
        /\ j.error = ReadError(o)
    BY <1>1 DEF InfoType
  <2>2. ReadOpcode(i, o) =
          CASE o.op = "SetKindImm" -> [j EXCEPT !.kind = o.n]
            [] o.op = "SetSegmentAndOffsetUleb" ->
                 [j EXCEPT !.segOffset = o.n, !.hasSegment = TRUE]
            [] o.op = "AddAddrImmScaled" -> [j EXCEPT !.skip = o.n]
            [] o.op = "DoRebaseUlebTimesSkipUleb" ->
                 [j EXCEPT !.addAddr = o.n, !.skip = ToUnsigned(o.m)]
            [] o.op \in {"AddAddrUleb", "DoRebaseAddAddrUleb", "DoRebaseTimes"} ->
                 [j EXCEPT !.addAddr = o.n]
            [] OTHER -> j
    BY <1>5 DEF ReadOpcode
  <2> HIDE DEF j
  <2>3. CASE o.op = "SetKindImm"
    BY <1>3, <2>1, <2>2, <2>3 DEF InfoType
  <2>4. CASE o.op = "SetSegmentAndOffsetUleb"
    BY <1>3, <1>5, <2>1, <2>2, <2>4 DEF InfoType
  <2>5. CASE o.op = "AddAddrImmScaled"
    BY <1>3, <2>1, <2>2, <2>5 DEF InfoType
  <2>6. CASE o.op = "DoRebaseUlebTimesSkipUleb"
    BY <1>2, <1>3, <2>1, <2>2, <2>6 DEF InfoType
  <2>7. CASE o.op \in {"AddAddrUleb", "DoRebaseAddAddrUleb", "DoRebaseTimes"}
    BY <1>3, <2>1, <2>2, <2>7 DEF InfoType
  <2>8. CASE o.op \notin {"SetKindImm", "SetSegmentAndOffsetUleb", "AddAddrImmScaled",
                         "DoRebaseUlebTimesSkipUleb", "AddAddrUleb",
                         "DoRebaseAddAddrUleb", "DoRebaseTimes"}
    <3>1. ReadOpcode(i, o) = j
      BY <2>2, <2>8
    <3> QED
      BY <2>1, <2>8, <3>1 DEF InfoType
  <2> QED
    BY <2>3, <2>4, <2>5, <2>6, <2>7, <2>8
<1> QED
  BY <1>4, <1>5

\* The opcode iterator keeps the types, whatever it reads.
LEMMA NextOpcodeType ==
  ASSUME NEW i \in InfoType, NextOpcode(i), stream \in Seq(Opcodes), atEnd \in BOOLEAN
  PROVE  /\ stream' \in Seq(Opcodes) /\ atEnd' \in BOOLEAN /\ info' \in InfoType
         /\ ~atEnd' => stream' # <<>>
<1>1. CASE atEnd' = TRUE /\ info' = [i EXCEPT !.error = "None"] /\ UNCHANGED stream
  BY <1>1, ErrorCleared
<1>2. ASSUME NEW o \in Opcodes, info' = ReadOpcode(i, o), stream' = Append(stream, o),
             UNCHANGED atEnd
      PROVE  /\ stream' \in Seq(Opcodes) /\ atEnd' \in BOOLEAN /\ info' \in InfoType
             /\ ~atEnd' => stream' # <<>>
  <2>1. info' \in InfoType
    BY <1>2, ReadOpcodeFields
  <2>2. stream' \in Seq(Opcodes) /\ stream' # <<>>
    BY <1>2
  <2> QED
    BY <1>2, <2>1, <2>2
<1> QED
  BY <1>1, <1>2 DEF NextOpcode

LEMMA TypeInvInit == Init => TypeInv
<1> SUFFICES ASSUME Init
             PROVE  TypeInv
  OBVIOUS
<1>1. InitInfo \in InfoType
  BY DEF InitInfo, InfoType, Errors, NoWriteKind, WidthAssumption, UMax
<1>2. stream \in Seq(Opcodes) /\ atEnd \in BOOLEAN /\ info \in InfoType
      /\ (~atEnd => stream # <<>>)
  <2>1. CASE stream = <<>> /\ atEnd = TRUE /\ info = InitInfo
    BY <1>1, <2>1
  <2>2. ASSUME NEW o \in Opcodes, stream = <<o>>, atEnd = FALSE,
               info = [ReadOpcode(InitInfo, o) EXCEPT !.error = "None"]
        PROVE  stream \in Seq(Opcodes) /\ info \in InfoType /\ stream # <<>>
    <3>1. ReadOpcode(InitInfo, o) \in InfoType
      BY <1>1, ReadOpcodeFields
    <3> QED
      BY <2>2, <3>1 DEF InfoType, Errors
  <2> QED
    BY <2>1, <2>2 DEF Init
<1> QED
  BY <1>2 DEF Init, TypeInv, WidthAssumption, UMax, SMax, EntryType

\* Returning from Advance() keeps the types.
LEMMA YieldType ==
  ASSUME NEW e \in Errors, Yield(e), info \in InfoType
  PROVE  info' \in InfoType /\ pc' = "list" /\ info' = [info EXCEPT !.error = e]
  BY DEF Yield, InfoType

LEMMA RepeatRebaseType ==
  ASSUME TypeInv, RepeatRebase
  PROVE  TypeInv'
<1> DEFINE once == [info EXCEPT !.addrInSeg = ToUnsigned(@ + addAmt)]
           twice == [once EXCEPT !.addrInSeg = ToUnsigned(@ + addAmt)]
<1>1. info \in InfoType /\ addAmt \in Int /\ count \in Int
  BY DEF TypeInv, SMax, UMax, WidthAssumption
<1>2. ToUnsigned(info.addrInSeg + addAmt) \in 0..UMax
  BY <1>1, UnsignedFits DEF InfoType, UMax, WidthAssumption
<1>3. once \in InfoType
  BY <1>1, <1>2 DEF InfoType
<1>4. ToUnsigned(once.addrInSeg + addAmt) \in 0..UMax
  BY <1>1, <1>3, UnsignedFits DEF InfoType, UMax, WidthAssumption
<1>5. twice \in InfoType
  BY <1>3, <1>4 DEF InfoType
<1>6. count' \in 0..UMax
  BY <1>1, UnsignedFits DEF RepeatRebase
<1> HIDE DEF once, twice
<1>7. CASE /\ info' = [once EXCEPT !.error = "None"] /\ pc' = "list"
           /\ UNCHANGED <<stream, atEnd, last>>
  <2>1. info' \in InfoType
    BY <1>3, <1>7 DEF InfoType, Errors
  <2> QED
    BY <1>6, <1>7, <2>1 DEF TypeInv, RepeatRebase
<1>8. CASE last' = "SetKindImm" /\ NextOpcode(twice) /\ UNCHANGED pc
  <2>1. /\ stream' \in Seq(Opcodes) /\ atEnd' \in BOOLEAN /\ info' \in InfoType
        /\ ~atEnd' => stream' # <<>>
    BY <1>5, <1>8, NextOpcodeType DEF TypeInv
  <2> QED
    BY <1>6, <1>8, <2>1 DEF TypeInv, RepeatRebase
<1> QED
  BY <1>7, <1>8 DEF RepeatRebase, once, twice

LEMMA FinalizeRebaseType ==
  ASSUME TypeInv, FinalizeRebase
  PROVE  TypeInv'
<1> DEFINE moved == [info EXCEPT !.addrInSeg = ToUnsigned(@ + segAdd)]
<1>0. info.addrInSeg + segAdd \in Int
  BY DEF TypeInv, InfoType, SMax, UMax, WidthAssumption
<1>1. ToUnsigned(info.addrInSeg + segAdd) \in 0..UMax
  BY <1>0, UnsignedFits
<1>2. moved \in InfoType
  BY <1>1 DEF TypeInv, InfoType
<1> HIDE DEF moved
<1>3. /\ stream' \in Seq(Opcodes) /\ atEnd' \in BOOLEAN /\ info' \in InfoType
      /\ ~atEnd' => stream' # <<>>
  BY <1>2, NextOpcodeType DEF TypeInv, FinalizeRebase, moved
<1> QED
  BY <1>3 DEF TypeInv, FinalizeRebase, SMax, WidthAssumption

\* The steps that only yield an error.
LEMMA ScanErrorType ==
  ASSUME TypeInv, ScanError \/ ScanUnrecognized
  PROVE  TypeInv'
<1>1. \E e \in Errors : Yield(e)
  BY DEF TypeInv, InfoType, Errors, ScanError, ScanUnrecognized
<1>2. info' \in InfoType /\ pc' = "list"
  BY <1>1, YieldType DEF TypeInv
<1> QED
  BY <1>2 DEF TypeInv, ScanError, ScanUnrecognized

LEMMA ScanSetupType ==
  ASSUME TypeInv, ScanSetup
  PROVE  TypeInv'
<1>1. [info EXCEPT !.addrInSeg = info.segOffset] \in InfoType
  BY DEF TypeInv, InfoType
<1>2. /\ stream' \in Seq(Opcodes) /\ atEnd' \in BOOLEAN /\ info' \in InfoType
      /\ ~atEnd' => stream' # <<>>
  BY <1>1, NextOpcodeType DEF TypeInv, ScanSetup
<1> QED
  BY <1>2 DEF TypeInv, ScanSetup

LEMMA ScanAddAddrType ==
  ASSUME TypeInv, ScanAddAddr
  PROVE  TypeInv'
<1> DEFINE add == IF Byte.op = "AddAddrImmScaled"
                  THEN ToUnsigned(info.skip * PtrSize) ELSE ToSigned(info.addAddr)
           sum == info.addrInSeg + add
           added == [info EXCEPT !.addrInSeg = sum]
<1>1. CASE AddressFits(sum)
  <2>1. added \in InfoType
    BY <1>1 DEF TypeInv, InfoType, AddressFits, FitsUnsigned
  <2>2. NextOpcode(added) /\ UNCHANGED pc
    BY <1>1 DEF ScanAddAddr
  <2> HIDE DEF added
  <2>3. /\ stream' \in Seq(Opcodes) /\ atEnd' \in BOOLEAN /\ info' \in InfoType
        /\ ~atEnd' => stream' # <<>>
    BY <2>1, <2>2, NextOpcodeType DEF TypeInv
  <2> QED
    BY <2>2, <2>3 DEF TypeInv, ScanAddAddr
<1>2. CASE ~AddressFits(sum)
  <2>1. Yield("OutOfBoundsSegmentAddr") /\ UNCHANGED <<stream, atEnd>>
    BY <1>2 DEF ScanAddAddr
  <2>2. info' \in InfoType /\ pc' = "list"
    BY <2>1, YieldType DEF TypeInv, Errors
  <2> QED
    BY <2>1, <2>2 DEF TypeInv, ScanAddAddr
<1> QED
  BY <1>1, <1>2

\* A sum that is kept in SegAddAddress is a signed number.
LEMMA AddChangeType ==
  ASSUME NEW sum \in (-SMax - 1)..SMax, NEW add \in Int
  PROVE  AddChange(sum, add) \in (-SMax - 1)..SMax
  BY DEF AddChange, FitsSigned

LEMMA CheckIfCanRebaseType == CheckIfCanRebase \in Errors
  BY DEF CheckIfCanRebase, Errors

LEMMA ScanRebaseAddAddrType ==
  ASSUME TypeInv, ScanRebaseAddAddr
  PROVE  TypeInv'
<1> DEFINE add == ToSigned(info.addAddr)
           afterAdd == AddChange(segAdd, add)
<1>1. \E e \in Errors : Yield(e)
  BY CheckIfCanRebaseType DEF ScanRebaseAddAddr, Errors
<1>2. info' \in InfoType /\ pc' = "list"
  BY <1>1, YieldType DEF TypeInv
<1>3. add \in Int /\ PtrSize \in Int
  BY SignedFits DEF TypeInv, InfoType, SMax, WidthAssumption
<1>4. afterAdd \in (-SMax - 1)..SMax
  BY <1>3, AddChangeType DEF TypeInv
<1>5. AddChange(afterAdd, PtrSize) \in (-SMax - 1)..SMax
  BY <1>3, <1>4, AddChangeType
<1>6. segAdd' \in {segAdd, afterAdd, AddChange(afterAdd, PtrSize)}
      /\ last' \in {last, Byte.op} /\ Byte.op = "DoRebaseAddAddrUleb"
  BY DEF ScanRebaseAddAddr
<1> HIDE DEF add, afterAdd
<1> QED
  BY <1>2, <1>4, <1>5, <1>6 DEF TypeInv, ScanRebaseAddAddr

LEMMA ScanRebaseTimesType ==
  ASSUME TypeInv, ScanRebaseTimes
  PROVE  TypeInv'
<1> DEFINE isSkip == Byte.op = "DoRebaseUlebTimesSkipUleb"
           n == ToUnsigned(info.addAddr)
           step == IF isSkip THEN PtrSize + info.skip ELSE PtrSize
<1>1. \E e \in Errors : Yield(e)
  BY CheckIfCanRebaseType DEF ScanRebaseTimes, Errors
<1>2. info' \in InfoType /\ pc' = "list"
  BY <1>1, YieldType DEF TypeInv
<1>3. n \in Int
  BY UnsignedFits DEF TypeInv, InfoType, UMax, WidthAssumption
<1>4. ToUnsigned(n - 1) \in 0..UMax
  BY <1>3, UnsignedFits
<1>5. CASE UNCHANGED <<last, addAmt, count>>
  BY <1>2, <1>5 DEF TypeInv, ScanRebaseTimes
<1>6. CASE /\ last' = Byte.op /\ addAmt' = step /\ count' = ToUnsigned(n - 1)
           /\ isSkip => FitsSigned(step)
  <2>1. addAmt' \in (-SMax - 1)..SMax
    BY <1>6 DEF FitsSigned, WidthAssumption, SMax
  <2> QED
    BY <1>2, <1>4, <1>6, <2>1 DEF TypeInv, ScanRebaseTimes
<1> QED
  BY <1>5, <1>6 DEF ScanRebaseTimes

\* What GetAsList appends to the list.
LEMMA ListedType ==
  ASSUME TypeInv, CanIgnoreError(info.error)
  PROVE  /\ Listed \in Seq(EntryType) /\ Len(Listed) = Len(list) + 1
         /\ \A k \in 1..Len(list) : Listed[k] = list[k]
         /\ Listed[Len(list) + 1] =
              [addr |-> info.addrInSeg, error |-> info.error, at |-> Len(stream)]
         /\ \A k \in 1..Len(Listed) : CanIgnoreError(Listed[k].error)
<1> DEFINE entry == [addr |-> info.addrInSeg, error |-> info.error, at |-> Len(stream)]
<1>1. entry \in EntryType /\ entry.error = info.error
  BY DEF TypeInv, EntryType, InfoType
<1> HIDE DEF entry
<1>2. list \in Seq(EntryType) /\ \A k \in 1..Len(list) : CanIgnoreError(list[k].error)
  BY DEF TypeInv
<1>3. Listed = Append(list, entry)
  BY DEF Listed, entry
<1>4. /\ Listed \in Seq(EntryType) /\ Len(Listed) = Len(list) + 1
      /\ \A k \in 1..Len(list) : Listed[k] = list[k]
      /\ Listed[Len(list) + 1] = entry
  BY <1>1, <1>2, <1>3
<1> QED
  <2>1. entry = [addr |-> info.addrInSeg, error |-> info.error, at |-> Len(stream)]
    BY DEF entry
  <2>2. \A k \in 1..Len(Listed) : CanIgnoreError(Listed[k].error)
    <3> TAKE k \in 1..Len(Listed)
    <3>1. k \in 1..Len(list) \/ k = Len(list) + 1
      BY <1>2, <1>4
    <3> QED
      BY <1>1, <1>2, <1>4, <3>1
  <2> QED
    BY <1>4, <2>1, <2>2

LEMMA ListActionType ==
  ASSUME TypeInv, ListAction
  PROVE  TypeInv'
<1>1. CanIgnoreError(info.error)
  BY DEF ListAction, CanIgnoreError
<1> QED
  BY <1>1, ListedType DEF TypeInv, ListAction

LEMMA ListIgnoredErrorType ==
  ASSUME TypeInv, ListIgnoredError
  PROVE  TypeInv'
<1>1. CanIgnoreError(info.error)
  BY DEF ListIgnoredError
<1>2. CASE atEnd' = TRUE /\ info' = [info EXCEPT !.error = "None"] /\ UNCHANGED stream
  <2>1. info' \in InfoType
    BY <1>2, ErrorCleared DEF TypeInv
  <2> QED
    BY <1>1, <1>2, <2>1, ListedType DEF TypeInv, ListIgnoredError
<1>3. ASSUME NEW o \in Opcodes, info' = [ReadOpcode(info, o) EXCEPT !.error = "None"],
             stream' = Append(stream, o), UNCHANGED atEnd
      PROVE  TypeInv'
  <2>1. ReadOpcode(info, o) \in InfoType
    BY ReadOpcodeFields DEF TypeInv
  <2>2. info' \in InfoType
    <3>1. [ReadOpcode(info, o) EXCEPT !.error = "None"] \in InfoType
      BY <2>1, ErrorCleared
    <3> QED
      BY <1>3, <3>1
  <2>3. stream' \in Seq(Opcodes) /\ stream' # <<>>
    <3>1. stream \in Seq(Opcodes)
      BY DEF TypeInv
    <3> QED
      BY <1>3, <3>1
  <2> QED
    BY <1>1, <1>3, <2>2, <2>3, ListedType DEF TypeInv, ListIgnoredError
<1> QED
  BY <1>2, <1>3 DEF ListIgnoredError

LEMMA TypeInvStep == TypeInv /\ [Next]_vars => TypeInv'
<1> SUFFICES ASSUME TypeInv, [Next]_vars
             PROVE  TypeInv'
  OBVIOUS
<1>1. CASE Advance
  <2>1. CASE ScanEnd
    BY <2>1 DEF TypeInv, ScanEnd
  <2> QED
    BY <1>1, <2>1, RepeatRebaseType, FinalizeRebaseType, ScanErrorType, ScanSetupType,
       ScanAddAddrType, ScanRebaseAddAddrType, ScanRebaseTimesType DEF Advance
<1>2. CASE GetAsList
  <2>1. CASE StopAtError
    BY <2>1 DEF TypeInv, StopAtError
  <2> QED
    BY <1>2, <2>1, ListActionType, ListIgnoredErrorType DEF GetAsList
<1>3. CASE Finished \/ UNCHANGED vars
  BY <1>3 DEF TypeInv, Finished, vars
<1> QED
  BY <1>1, <1>2, <1>3 DEF Next

LEMMA TypeInvHolds == Spec => []TypeInv
  BY TypeInvInit, TypeInvStep, PTL DEF Spec

\* No address, delta or count ever leaves the C type it is kept in, and no error
\* that cannot be ignored is listed.
THEOREM TypeCorrect == Spec => []TypeOK
<1>1. TypeInv => TypeOK
  BY DEF TypeInv, TypeOK, InfoType, FitsSigned, FitsUnsigned
<1> QED
  BY <1>1, TypeInvHolds, PTL

(***************************************************************************)
(* A rebase needs a segment and a kind                                     *)
(***************************************************************************)

\* What the iterator knows is what the opcodes it has read say.
KnowsStream ==
  /\ info.hasSegment => \E j \in 1..Len(stream) :
       stream[j].op = "SetSegmentAndOffsetUleb" /\ stream[j].valid
  /\ info.kind # NoWriteKind => \E j \in 1..Len(stream) :
       /\ stream[j].op = "SetKindImm" /\ stream[j].n # NoWriteKind
       /\ \A i \in 1..Len(stream) : stream[i].op = "SetKindImm" => i <= j

\* The inductive invariant: an action that is about to be listed, or a run that
\* may still yield one, has its segment and kind; outside the loop over the
\* opcodes there is no error.
ReadyInv ==
  /\ KnowsStream
  /\ \A k \in 1..Len(list) :
       /\ list[k].at \in 1..Len(stream)
       /\ list[k].error = "None" => SegmentAndKindBefore(list[k].at)
  /\ pc = "list" => stream # <<>>
  /\ pc = "list" /\ info.error = "None" => SegmentAndKindBefore(Len(stream))
  /\ pc = "list" /\ last # "SetKindImm" => info.error = "None"
  /\ last \in RunOpcodes => stream # <<>> /\ SegmentAndKindBefore(Len(stream))

\* What was before an opcode stays before it while the stream grows.
LEMMA BeforeStays ==
  ASSUME stream \in Seq(Opcodes),
         UNCHANGED stream \/ \E o \in Opcodes : stream' = Append(stream, o)
  PROVE  \A k \in 1..Len(stream) : SegmentAndKindBefore(k) => SegmentAndKindBefore(k)'
<1>1. \A k \in 1..Len(stream) : \A j \in 1..(k - 1) : stream'[j] = stream[j]
  OBVIOUS
<1> QED
  BY <1>1 DEF SegmentAndKindBefore

\* Reading an opcode, with its error or without, keeps the knowledge.
LEMMA ReadKeepsKnowledge ==
  ASSUME stream \in Seq(Opcodes), NEW i \in InfoType, NEW o \in Opcodes,
         i.hasSegment = info.hasSegment, i.kind = info.kind, KnowsStream,
         info'.hasSegment = ReadOpcode(i, o).hasSegment,
         info'.kind = ReadOpcode(i, o).kind,
         stream' = Append(stream, o)
  PROVE  KnowsStream'
<1>1. /\ Len(stream') = Len(stream) + 1 /\ stream'[Len(stream) + 1] = o
      /\ \A j \in 1..Len(stream) : stream'[j] = stream[j]
      /\ Len(stream) \in Nat
  OBVIOUS
<1>2. /\ info'.hasSegment =>
           info.hasSegment \/ (o.valid /\ o.op = "SetSegmentAndOffsetUleb")
      /\ info'.kind = IF o.op = "SetKindImm" THEN o.n ELSE info.kind
  BY ReadOpcodeFields
<1>3. info'.hasSegment => \E j \in 1..Len(stream') :
        stream'[j].op = "SetSegmentAndOffsetUleb" /\ stream'[j].valid
  <2>1. CASE o.valid /\ o.op = "SetSegmentAndOffsetUleb"
    BY <1>1, <2>1
  <2>2. CASE info.hasSegment
    <3>1. PICK j \in 1..Len(stream) :
            stream[j].op = "SetSegmentAndOffsetUleb" /\ stream[j].valid
      BY <2>2 DEF KnowsStream
    <3>2. j \in 1..Len(stream') /\ stream'[j] = stream[j]
      BY <1>1
    <3> QED
      BY <3>1, <3>2
  <2> QED
    BY <1>2, <2>1, <2>2
<1>4. info'.kind # NoWriteKind => \E j \in 1..Len(stream') :
        /\ stream'[j].op = "SetKindImm" /\ stream'[j].n # NoWriteKind
        /\ \A m \in 1..Len(stream') : stream'[m].op = "SetKindImm" => m <= j
  <2> HAVE info'.kind # NoWriteKind
  <2>1. CASE o.op = "SetKindImm"
    <3> WITNESS Len(stream) + 1 \in 1..Len(stream')
    <3> QED
      BY <1>1, <1>2, <2>1
  <2>2. CASE o.op # "SetKindImm"
    <3>1. PICK j \in 1..Len(stream) :
            /\ stream[j].op = "SetKindImm" /\ stream[j].n # NoWriteKind
            /\ \A m \in 1..Len(stream) : stream[m].op = "SetKindImm" => m <= j
      BY <1>2, <2>2 DEF KnowsStream
    <3> WITNESS j \in 1..Len(stream')
    <3> QED
      BY <1>1, <2>2, <3>1, SMTT(30)
  <2> QED
    BY <2>1, <2>2
<1> QED
  BY <1>3, <1>4 DEF KnowsStream

\* An advance of the opcode iterator keeps the knowledge.
LEMMA NextOpcodeKnows ==
  ASSUME TypeInv, KnowsStream, NEW i \in InfoType, NextOpcode(i),
         i.hasSegment = info.hasSegment, i.kind = info.kind
  PROVE  /\ KnowsStream'
         /\ UNCHANGED stream \/ \E o \in Opcodes : stream' = Append(stream, o)
<1>1. CASE info' = [i EXCEPT !.error = "None"] /\ UNCHANGED stream
  BY <1>1 DEF KnowsStream, InfoType
<1>2. ASSUME NEW o \in Opcodes, info' = ReadOpcode(i, o), stream' = Append(stream, o)
      PROVE  KnowsStream'
  BY <1>2, ReadKeepsKnowledge DEF TypeInv
<1> QED
  BY <1>1, <1>2 DEF NextOpcode

\* Advance() checks what it knows before it yields: at an opcode that sets neither
\* segment nor kind, both were set before.
LEMMA CheckedIsReady ==
  ASSUME TypeInv, KnowsStream, ~atEnd, CheckIfCanRebase = "None",
         Byte.op \notin {"SetKindImm", "SetSegmentAndOffsetUleb"}
  PROVE  SegmentAndKindBefore(Len(stream))
<1>1. info.hasSegment /\ info.kind # NoWriteKind
  BY DEF CheckIfCanRebase, TypeInv, InfoType
<1>2. stream # <<>> /\ Len(stream) \in Nat
  BY DEF TypeInv
<1>3. PICK j \in 1..Len(stream) : stream[j].op = "SetSegmentAndOffsetUleb" /\ stream[j].valid
  BY <1>1 DEF KnowsStream
<1>4. PICK k \in 1..Len(stream) :
        /\ stream[k].op = "SetKindImm" /\ stream[k].n # NoWriteKind
        /\ \A i \in 1..Len(stream) : stream[i].op = "SetKindImm" => i <= k
  BY <1>1 DEF KnowsStream
<1>5. j \in 1..(Len(stream) - 1) /\ k \in 1..(Len(stream) - 1)
  BY <1>2, <1>3, <1>4 DEF Byte
<1> QED
  BY <1>3, <1>4, <1>5 DEF SegmentAndKindBefore

\* The list as it is stays justified while the stream grows.
LEMMA ListStaysReady ==
  ASSUME TypeInv, ReadyInv, UNCHANGED list,
         UNCHANGED stream \/ \E o \in Opcodes : stream' = Append(stream, o)
  PROVE  (\A k \in 1..Len(list) :
            /\ list[k].at \in 1..Len(stream)
            /\ list[k].error = "None" => SegmentAndKindBefore(list[k].at))'
<1>1. stream \in Seq(Opcodes) /\ Len(stream') \in {Len(stream), Len(stream) + 1}
  BY DEF TypeInv
<1>2. \A k \in 1..Len(stream) : SegmentAndKindBefore(k) => SegmentAndKindBefore(k)'
  BY <1>1, BeforeStays
<1>3. \A k \in 1..Len(list) :
        /\ list[k].at \in 1..Len(stream)
        /\ list[k].error = "None" => SegmentAndKindBefore(list[k].at)
  BY DEF ReadyInv
<1>4. ASSUME NEW k \in 1..Len(list')
      PROVE  (/\ list[k].at \in 1..Len(stream)
              /\ list[k].error = "None" => SegmentAndKindBefore(list[k].at))'
  <2>1. PICK a \in 1..Len(stream) : a = list[k].at
    BY <1>3
  <2>2. list[k].error = "None" => SegmentAndKindBefore(a)'
    BY <1>2, <1>3, <2>1
  <2>3. a \in 1..Len(stream')
    BY <1>1, <2>1
  <2>4. a = list'[k].at /\ list'[k].error = list[k].error
    BY <2>1
  <2> QED
    BY <2>2, <2>3, <2>4
<1> QED
  BY <1>4

LEMMA ReadyInvInit == Init => ReadyInv
<1> SUFFICES ASSUME Init
             PROVE  ReadyInv
  OBVIOUS
<1>1. InitInfo \in InfoType /\ InitInfo.kind = NoWriteKind /\ ~InitInfo.hasSegment
  BY DEF InitInfo, InfoType, Errors, NoWriteKind, WidthAssumption, UMax
<1>2. ASSUME stream = <<>>, info = InitInfo
      PROVE  KnowsStream
  <2>1. info.hasSegment = FALSE /\ info.kind = NoWriteKind
    BY <1>2 DEF InitInfo
  <2> QED
    BY <2>1 DEF KnowsStream
<1>3. ASSUME NEW o \in Opcodes, stream = <<o>>,
             info = [ReadOpcode(InitInfo, o) EXCEPT !.error = "None"]
      PROVE  KnowsStream
  <2>1. /\ ReadOpcode(InitInfo, o) \in InfoType
        /\ ReadOpcode(InitInfo, o).hasSegment
             = (o.valid /\ o.op = "SetSegmentAndOffsetUleb")
        /\ ReadOpcode(InitInfo, o).kind = IF o.op = "SetKindImm" THEN o.n ELSE NoWriteKind
    BY <1>1, ReadOpcodeFields
  <2>2. /\ info.hasSegment = (o.valid /\ o.op = "SetSegmentAndOffsetUleb")
        /\ info.kind = IF o.op = "SetKindImm" THEN o.n ELSE NoWriteKind
    BY <1>3, <2>1 DEF InfoType
  <2>3. Len(stream) = 1 /\ stream[1] = o /\ 1 \in 1..Len(stream)
    BY <1>3
  <2>4. info.hasSegment => stream[1].op = "SetSegmentAndOffsetUleb" /\ stream[1].valid
    BY <2>2, <2>3
  <2>5. info.kind # NoWriteKind =>
          /\ stream[1].op = "SetKindImm" /\ stream[1].n # NoWriteKind
          /\ \A i \in 1..Len(stream) : stream[i].op = "SetKindImm" => i <= 1
    BY <2>2, <2>3
  <2> QED
    BY <2>3, <2>4, <2>5 DEF KnowsStream
<1> QED
  <2>1. KnowsStream
    <3>1. CASE stream = <<>> /\ atEnd = TRUE /\ info = InitInfo
      BY <1>2, <3>1
    <3>2. CASE \E o \in Opcodes :
                 /\ stream = <<o>> /\ atEnd = FALSE
                 /\ info = [ReadOpcode(InitInfo, o) EXCEPT !.error = "None"]
      BY <1>3, <3>2
    <3> QED
      BY <3>1, <3>2 DEF Init
  <2>2. pc = "advance" /\ last = "SetKindImm" /\ list = <<>>
    BY DEF Init
  <2> QED
    BY <2>1, <2>2 DEF ReadyInv, RunOpcodes

LEMMA RepeatRebaseReady ==
  ASSUME TypeInv, ReadyInv, RepeatRebase
  PROVE  ReadyInv'
<1> DEFINE once == [info EXCEPT !.addrInSeg = ToUnsigned(@ + addAmt)]
           twice == [once EXCEPT !.addrInSeg = ToUnsigned(@ + addAmt)]
<1>1. /\ once \in InfoType /\ twice \in InfoType
      /\ \A i \in {once, twice} : i.hasSegment = info.hasSegment /\ i.kind = info.kind
  <2>1. info \in InfoType /\ addAmt \in Int
    BY DEF TypeInv, SMax, WidthAssumption
  <2>2. ToUnsigned(info.addrInSeg + addAmt) \in 0..UMax
    BY <2>1, UnsignedFits DEF InfoType, UMax, WidthAssumption
  <2>3. /\ once \in InfoType /\ once.hasSegment = info.hasSegment /\ once.kind = info.kind
    BY <2>1, <2>2 DEF InfoType
  <2> HIDE DEF once
  <2>4. ToUnsigned(once.addrInSeg + addAmt) \in 0..UMax
    BY <2>1, <2>3, UnsignedFits DEF InfoType, UMax, WidthAssumption
  <2>5. /\ twice \in InfoType /\ twice.hasSegment = once.hasSegment /\ twice.kind = once.kind
    BY <2>3, <2>4 DEF InfoType
  <2> QED
    BY <2>3, <2>5
<1>2. stream \in Seq(Opcodes) /\ last \in RunOpcodes /\ UNCHANGED list
  BY DEF TypeInv, RepeatRebase
<1> HIDE DEF once, twice
<1>3. CASE /\ info' = [once EXCEPT !.error = "None"] /\ pc' = "list"
           /\ UNCHANGED <<stream, atEnd, last>>
  <2>1. info'.error = "None" /\ info'.hasSegment = info.hasSegment /\ info'.kind = info.kind
    BY <1>1, <1>3 DEF InfoType
  <2>2. KnowsStream'
    BY <1>3, <2>1 DEF ReadyInv, KnowsStream
  <2>3. SegmentAndKindBefore(Len(stream))' /\ stream' # <<>>
    BY <1>2, <1>3 DEF ReadyInv, SegmentAndKindBefore
  <2> QED
    BY <1>2, <1>3, <2>1, <2>2, <2>3, ListStaysReady DEF ReadyInv
<1>4. CASE last' = "SetKindImm" /\ NextOpcode(twice) /\ UNCHANGED pc
  <2>1. /\ KnowsStream'
        /\ UNCHANGED stream \/ \E o \in Opcodes : stream' = Append(stream, o)
    BY <1>1, <1>4, NextOpcodeKnows DEF ReadyInv
  <2>2. pc' = "advance"
    BY <1>4 DEF RepeatRebase
  <2> QED
    BY <1>2, <1>4, <2>1, <2>2, ListStaysReady DEF ReadyInv, RunOpcodes
<1> QED
  BY <1>3, <1>4 DEF RepeatRebase, once, twice

LEMMA FinalizeRebaseReady ==
  ASSUME TypeInv, ReadyInv, FinalizeRebase
  PROVE  ReadyInv'
<1> DEFINE moved == [info EXCEPT !.addrInSeg = ToUnsigned(@ + segAdd)]
<1>1. info.addrInSeg + segAdd \in Int
  BY DEF TypeInv, InfoType, SMax, UMax, WidthAssumption
<1>2. ToUnsigned(info.addrInSeg + segAdd) \in 0..UMax
  BY <1>1, UnsignedFits
<1>3. moved \in InfoType /\ moved.hasSegment = info.hasSegment /\ moved.kind = info.kind
  BY <1>2 DEF TypeInv, InfoType
<1>4. NextOpcode(moved) /\ last' = "SetKindImm" /\ pc' = "advance" /\ UNCHANGED list
  BY DEF FinalizeRebase
<1> HIDE DEF moved
<1>5. /\ KnowsStream'
      /\ UNCHANGED stream \/ \E o \in Opcodes : stream' = Append(stream, o)
  BY <1>3, <1>4, NextOpcodeKnows DEF ReadyInv
<1> QED
  BY <1>4, <1>5, ListStaysReady DEF ReadyInv, RunOpcodes

\* The loop over the opcodes yields an action only if segment and kind are known.
LEMMA YieldReady ==
  ASSUME TypeInv, ReadyInv, NEW e \in Errors, Yield(e), ~atEnd,
         UNCHANGED <<stream, list>>,
         e = "None" => SegmentAndKindBefore(Len(stream)),
         last' # "SetKindImm" => e = "None"
  PROVE  ReadyInv'
<1>1. /\ pc' = "list" /\ info'.error = e
      /\ info'.hasSegment = info.hasSegment /\ info'.kind = info.kind
  BY YieldType DEF TypeInv, InfoType
<1>2. KnowsStream'
  BY <1>1 DEF ReadyInv, KnowsStream
<1>3. stream # <<>>
  BY DEF TypeInv
<1>4. (\A k \in 1..Len(list) :
         /\ list[k].at \in 1..Len(stream)
         /\ list[k].error = "None" => SegmentAndKindBefore(list[k].at))'
  BY ListStaysReady
<1>5. e = "None" => SegmentAndKindBefore(Len(stream))'
  BY DEF SegmentAndKindBefore
<1> QED
  BY <1>1, <1>2, <1>3, <1>4, <1>5 DEF ReadyInv, RunOpcodes

LEMMA ScanErrorReady ==
  ASSUME TypeInv, ReadyInv, ScanError \/ ScanUnrecognized
  PROVE  ReadyInv'
<1>1. PICK e \in Errors : Yield(e) /\ e # "None"
  BY DEF TypeInv, InfoType, Errors, ScanError, ScanUnrecognized
<1>2. ~atEnd /\ UNCHANGED <<stream, list>> /\ last' = "SetKindImm"
  BY DEF ScanError, ScanUnrecognized, Scanning
<1> QED
  BY <1>1, <1>2, YieldReady

LEMMA ScanSetupReady ==
  ASSUME TypeInv, ReadyInv, ScanSetup
  PROVE  ReadyInv'
<1> DEFINE moved == [info EXCEPT !.addrInSeg = info.segOffset]
<1>1. info \in InfoType /\ moved \in InfoType
      /\ moved.hasSegment = info.hasSegment /\ moved.kind = info.kind
  BY DEF TypeInv, InfoType
<1>2. NextOpcode(info) \/ NextOpcode(moved)
  BY DEF ScanSetup
<1> HIDE DEF moved
<1>3. /\ KnowsStream'
      /\ UNCHANGED stream \/ \E o \in Opcodes : stream' = Append(stream, o)
  BY <1>1, <1>2, NextOpcodeKnows DEF ReadyInv
<1>4. pc' = "advance" /\ last' = "SetKindImm" /\ UNCHANGED list
  BY DEF ScanSetup, Scanning
<1> QED
  BY <1>3, <1>4, ListStaysReady DEF ReadyInv, RunOpcodes

LEMMA ScanAddAddrReady ==
  ASSUME TypeInv, ReadyInv, ScanAddAddr
  PROVE  ReadyInv'
<1> DEFINE add == IF Byte.op = "AddAddrImmScaled"
                  THEN ToUnsigned(info.skip * PtrSize) ELSE ToSigned(info.addAddr)
           sum == info.addrInSeg + add
           added == [info EXCEPT !.addrInSeg = sum]
<1>1. ~atEnd /\ pc = "advance" /\ last' = "SetKindImm" /\ UNCHANGED list
  BY DEF ScanAddAddr, Scanning
<1>2. CASE AddressFits(sum)
  <2>1. added \in InfoType /\ added.hasSegment = info.hasSegment /\ added.kind = info.kind
    BY <1>2 DEF TypeInv, InfoType, AddressFits, FitsUnsigned
  <2>2. NextOpcode(added) /\ pc' = "advance"
    BY <1>2 DEF ScanAddAddr, Scanning
  <2> HIDE DEF added
  <2>3. /\ KnowsStream'
        /\ UNCHANGED stream \/ \E o \in Opcodes : stream' = Append(stream, o)
    BY <2>1, <2>2, NextOpcodeKnows DEF ReadyInv
  <2> QED
    BY <1>1, <2>2, <2>3, ListStaysReady DEF ReadyInv, RunOpcodes
<1>3. CASE ~AddressFits(sum)
  <2>1. Yield("OutOfBoundsSegmentAddr") /\ UNCHANGED stream
    BY <1>3 DEF ScanAddAddr
  <2> QED
    BY <1>1, <2>1, YieldReady DEF Errors
<1> QED
  BY <1>2, <1>3

LEMMA ScanRebaseAddAddrReady ==
  ASSUME TypeInv, ReadyInv, ScanRebaseAddAddr
  PROVE  ReadyInv'
<1>1. ~atEnd /\ UNCHANGED <<stream, list>> /\ Byte.op = "DoRebaseAddAddrUleb"
      /\ last = "SetKindImm"
  BY DEF ScanRebaseAddAddr, Scanning
<1>2. CASE CheckIfCanRebase # "None"
  <2>1. Yield(CheckIfCanRebase) /\ last' = "SetKindImm"
    BY <1>1, <1>2 DEF ScanRebaseAddAddr
  <2> QED
    BY <1>1, <1>2, <2>1, CheckIfCanRebaseType, YieldReady
<1>3. CASE CheckIfCanRebase = "None"
  <2>1. SegmentAndKindBefore(Len(stream))
    BY <1>1, <1>3, CheckedIsReady DEF ReadyInv
  <2>2. PICK e \in Errors : Yield(e) /\ (last' # "SetKindImm" => e = "None")
    BY <1>1, <1>3 DEF ScanRebaseAddAddr, Errors
  <2> QED
    BY <1>1, <2>1, <2>2, YieldReady
<1> QED
  BY <1>2, <1>3

LEMMA ScanRebaseTimesReady ==
  ASSUME TypeInv, ReadyInv, ScanRebaseTimes
  PROVE  ReadyInv'
<1>1. ~atEnd /\ UNCHANGED <<stream, list>> /\ Byte.op \in RunOpcodes
      /\ last = "SetKindImm"
  BY DEF ScanRebaseTimes, Scanning
<1>2. CASE CheckIfCanRebase # "None"
  <2>1. Yield(CheckIfCanRebase) /\ last' = "SetKindImm"
    BY <1>1, <1>2 DEF ScanRebaseTimes
  <2> QED
    BY <1>1, <1>2, <2>1, CheckIfCanRebaseType, YieldReady
<1>3. CASE CheckIfCanRebase = "None"
  <2>1. SegmentAndKindBefore(Len(stream))
    BY <1>1, <1>3, CheckedIsReady DEF ReadyInv, RunOpcodes
  <2>2. PICK e \in Errors : Yield(e) /\ (last' # "SetKindImm" => e = "None")
    BY <1>1, <1>3 DEF ScanRebaseTimes, Errors
  <2> QED
    BY <1>1, <2>1, <2>2, YieldReady
<1> QED
  BY <1>2, <1>3

\* Listing an action whose opcode has its segment and kind keeps the list justified.
LEMMA ListedReady ==
  ASSUME TypeInv, ReadyInv, pc = "list", CanIgnoreError(info.error), list' = Listed,
         UNCHANGED stream \/ \E o \in Opcodes : stream' = Append(stream, o)
  PROVE  (\A k \in 1..Len(list) :
            /\ list[k].at \in 1..Len(stream)
            /\ list[k].error = "None" => SegmentAndKindBefore(list[k].at))'
<1>1. stream \in Seq(Opcodes) /\ Len(stream') \in {Len(stream), Len(stream) + 1}
      /\ Len(stream) \in 1..Len(stream)
  BY DEF TypeInv, ReadyInv
<1>2. \A k \in 1..Len(stream) : SegmentAndKindBefore(k) => SegmentAndKindBefore(k)'
  BY <1>1, BeforeStays
<1>3. \A k \in 1..Len(Listed) :
        /\ Listed[k].at \in 1..Len(stream)
        /\ Listed[k].error = "None" => SegmentAndKindBefore(Listed[k].at)
  <2> SUFFICES ASSUME NEW k \in 1..Len(Listed)
               PROVE  /\ Listed[k].at \in 1..Len(stream)
                      /\ Listed[k].error = "None" => SegmentAndKindBefore(Listed[k].at)
    OBVIOUS
  <2>1. CASE k \in 1..Len(list)
    BY <2>1, ListedType DEF ReadyInv
  <2>2. CASE k = Len(list) + 1
    <3>1. Listed[k].at = Len(stream) /\ Listed[k].error = info.error
      BY <2>2, ListedType
    <3> QED
      BY <1>1, <3>1 DEF ReadyInv
  <2>3. Len(list) \in Nat /\ Len(Listed) = Len(list) + 1
    BY ListedType DEF TypeInv
  <2> QED
    BY <2>1, <2>2, <2>3
<1>4. ASSUME NEW k \in 1..Len(list')
      PROVE  (/\ list[k].at \in 1..Len(stream)
              /\ list[k].error = "None" => SegmentAndKindBefore(list[k].at))'
  <2>1. PICK a \in 1..Len(stream) : a = Listed[k].at
    BY <1>3
  <2>2. Listed[k].error = "None" => SegmentAndKindBefore(a)'
    BY <1>2, <1>3, <2>1
  <2>3. a \in 1..Len(stream')
    BY <1>1, <2>1
  <2>4. a = list'[k].at /\ list'[k].error = Listed[k].error
    BY <2>1
  <2> QED
    BY <2>2, <2>3, <2>4
<1> QED
  BY <1>4

LEMMA ListActionReady ==
  ASSUME TypeInv, ReadyInv, ListAction
  PROVE  ReadyInv'
<1>1. CanIgnoreError(info.error) /\ list' = Listed /\ pc = "list" /\ pc' = "advance"
      /\ UNCHANGED <<stream, info, last>>
  BY DEF ListAction, CanIgnoreError
<1>2. KnowsStream'
  BY <1>1 DEF ReadyInv, KnowsStream
<1>3. last \in RunOpcodes => stream # <<>> /\ SegmentAndKindBefore(Len(stream))'
  BY <1>1 DEF ReadyInv, SegmentAndKindBefore
<1> QED
  BY <1>1, <1>2, <1>3, ListedReady DEF ReadyInv

LEMMA ListIgnoredErrorReady ==
  ASSUME TypeInv, ReadyInv, ListIgnoredError
  PROVE  ReadyInv'
<1>1. CanIgnoreError(info.error) /\ list' = Listed /\ pc = "list" /\ pc' = "advance"
      /\ info.error # "None" /\ UNCHANGED last
  BY DEF ListIgnoredError
<1>2. last = "SetKindImm"
  BY <1>1 DEF ReadyInv
<1>3. CASE info' = [info EXCEPT !.error = "None"] /\ UNCHANGED stream
  <2>1. info'.hasSegment = info.hasSegment /\ info'.kind = info.kind
    BY <1>3 DEF TypeInv, InfoType
  <2>2. KnowsStream'
    BY <1>3, <2>1 DEF ReadyInv, KnowsStream
  <2> QED
    BY <1>1, <1>2, <1>3, <2>2, ListedReady DEF ReadyInv, RunOpcodes
<1>4. ASSUME NEW o \in Opcodes, info' = [ReadOpcode(info, o) EXCEPT !.error = "None"],
             stream' = Append(stream, o)
      PROVE  ReadyInv'
  <2>1. ReadOpcode(info, o) \in InfoType
    BY ReadOpcodeFields DEF TypeInv
  <2>2. /\ info'.hasSegment = ReadOpcode(info, o).hasSegment
        /\ info'.kind = ReadOpcode(info, o).kind
    BY <1>4, <2>1 DEF InfoType
  <2>3. KnowsStream'
    BY <1>4, <2>2, ReadKeepsKnowledge DEF TypeInv, ReadyInv
  <2> QED
    BY <1>1, <1>2, <1>4, <2>3, ListedReady DEF ReadyInv, RunOpcodes
<1> QED
  BY <1>3, <1>4 DEF ListIgnoredError

\* A step after which nothing is read, listed or run any more.
LEMMA StopReady ==
  ASSUME TypeInv, ReadyInv, UNCHANGED <<stream, info, list>>,
         \/ pc' = "done" /\ last' = "Done"
         \/ pc' = "stopped" /\ UNCHANGED last
         \/ UNCHANGED <<pc, last>>
  PROVE  ReadyInv'
<1>1. KnowsStream'
  BY DEF ReadyInv, KnowsStream
<1>2. (\A k \in 1..Len(list) :
         /\ list[k].at \in 1..Len(stream)
         /\ list[k].error = "None" => SegmentAndKindBefore(list[k].at))'
  BY ListStaysReady
<1>3. SegmentAndKindBefore(Len(stream)) => SegmentAndKindBefore(Len(stream))'
  BY DEF SegmentAndKindBefore
<1> QED
  BY <1>1, <1>2, <1>3 DEF ReadyInv, RunOpcodes

LEMMA ReadyInvStep == TypeInv /\ ReadyInv /\ [Next]_vars => ReadyInv'
<1> SUFFICES ASSUME TypeInv, ReadyInv, [Next]_vars
             PROVE  ReadyInv'
  OBVIOUS
<1>1. CASE Advance
  <2>1. CASE ScanEnd
    BY <2>1, StopReady DEF ScanEnd
  <2> QED
    BY <1>1, <2>1, RepeatRebaseReady, FinalizeRebaseReady, ScanErrorReady, ScanSetupReady,
       ScanAddAddrReady, ScanRebaseAddAddrReady, ScanRebaseTimesReady DEF Advance
<1>2. CASE GetAsList
  <2>1. CASE StopAtError
    BY <2>1, StopReady DEF StopAtError
  <2> QED
    BY <1>2, <2>1, ListActionReady, ListIgnoredErrorReady DEF GetAsList
<1>3. CASE Finished \/ UNCHANGED vars
  BY <1>3, StopReady DEF Finished, vars
<1> QED
  BY <1>1, <1>2, <1>3 DEF Next

LEMMA ReadyInvHolds == Spec => []ReadyInv
  BY TypeInvHolds, ReadyInvInit, ReadyInvStep, PTL DEF Spec

\* No rebase is listed before a segment was chosen and while no write kind is set,
\* not even after errors, and whatever operands are left over from other opcodes.
THEOREM ListedRebasesAreReady == Spec => []RebasesNeedSegmentAndKind
<1>1. ReadyInv => RebasesNeedSegmentAndKind
  BY DEF ReadyInv, RebasesNeedSegmentAndKind
<1> QED
  BY <1>1, ReadyInvHolds, PTL

(***************************************************************************)
(* Errors that must stop the list                                          *)
(***************************************************************************)

\* The inductive invariant.  At every moment the current opcode is one the list
\* may go past, or its error is still there to be reported, or it is unrecognized,
\* which the loop over the opcodes notices by itself.
StopInv ==
  /\ \A j \in 1..(Len(stream) - 1) : MayGoPast(j)
  /\ last \in RunOpcodes \cup {"DoRebaseAddAddrUleb"} => MayGoPast(Len(stream))
  /\ pc = "list" /\ CanIgnoreError(info.error) => MayGoPast(Len(stream))
  /\ pc = "list" => stream # <<>>
  /\ pc = "advance" /\ last = "SetKindImm" /\ ~atEnd =>
       /\ info.error = "None" => MayGoPast(Len(stream)) \/ Byte.op = "Unrecognized"
       /\ info.error # "None" => info.error = ReadError(Byte)

\* The excuse of an opcode is never lost: opcodes stay, and the list only grows.
LEMMA MayGoPastStays ==
  ASSUME stream \in Seq(Opcodes), TypeInv,
         UNCHANGED stream \/ \E o \in Opcodes : stream' = Append(stream, o),
         UNCHANGED list \/ (list' = Listed /\ CanIgnoreError(info.error))
  PROVE  \A j \in 1..Len(stream) : MayGoPast(j) => MayGoPast(j)'
<1> SUFFICES ASSUME NEW j \in 1..Len(stream), MayGoPast(j)
             PROVE  MayGoPast(j)'
  OBVIOUS
<1>1. stream'[j] = stream[j]
  OBVIOUS
<1>2. \A k \in 1..Len(list) : k \in 1..Len(list') /\ list'[k] = list[k]
  BY ListedType DEF TypeInv
<1> QED
  BY <1>1, <1>2 DEF MayGoPast, ReadError

\* An advance of the opcode iterator past an opcode that may be gone past.
LEMMA NextOpcodeStops ==
  ASSUME TypeInv, StopInv, stream # <<>> => MayGoPast(Len(stream)),
         NEW i \in InfoType, NextOpcode(i), UNCHANGED <<pc, list>>, pc = "advance",
         last' = "SetKindImm"
  PROVE  StopInv'
<1>1. stream \in Seq(Opcodes) /\ Len(stream) \in Nat
      /\ (UNCHANGED stream \/ \E o \in Opcodes : stream' = Append(stream, o))
  BY DEF TypeInv, NextOpcode
<1>2. \A j \in 1..Len(stream) : MayGoPast(j)'
  <2>1. \A j \in 1..Len(stream) : MayGoPast(j)
    BY <1>1 DEF StopInv
  <2> QED
    BY <1>1, <2>1, MayGoPastStays
<1>3. CASE atEnd' = TRUE /\ UNCHANGED stream
  <2>1. (\A j \in 1..(Len(stream) - 1) : MayGoPast(j))'
    BY <1>1, <1>2, <1>3
  <2> QED
    BY <1>3, <2>1 DEF StopInv, RunOpcodes
<1>4. ASSUME NEW o \in Opcodes, info' = ReadOpcode(i, o), stream' = Append(stream, o)
      PROVE  StopInv'
  <2>1. Len(stream') = Len(stream) + 1 /\ stream'[Len(stream')] = o
    BY <1>1, <1>4
  <2>2. (\A j \in 1..(Len(stream) - 1) : MayGoPast(j))'
    BY <1>1, <1>2, <2>1
  <2>3. info'.error = ReadError(o) /\ Byte' = o
    BY <1>4, <2>1, ReadOpcodeFields DEF Byte
  <2>4. info'.error = "None" => MayGoPast(Len(stream))'
    BY <2>1, <2>3 DEF MayGoPast
  <2> QED
    BY <2>2, <2>3, <2>4 DEF StopInv, RunOpcodes
<1> QED
  BY <1>3, <1>4 DEF NextOpcode

\* The loop over the opcodes yields an error that may be ignored only at an opcode
\* that the list may go past.
LEMMA YieldStops ==
  ASSUME TypeInv, StopInv, NEW e \in Errors, Yield(e), stream # <<>>,
         UNCHANGED <<stream, list>>,
         CanIgnoreError(e) \/ last' # "SetKindImm" => MayGoPast(Len(stream))
  PROVE  StopInv'
<1>1. pc' = "list" /\ info'.error = e
  BY YieldType DEF TypeInv, InfoType
<1>2. \A j \in 1..Len(stream) : MayGoPast(j) => MayGoPast(j)'
  BY MayGoPastStays DEF TypeInv
<1>3. Len(stream) \in 1..Len(stream) /\ Len(stream') = Len(stream)
  BY DEF TypeInv
<1>4. (\A j \in 1..(Len(stream) - 1) : MayGoPast(j))'
  BY <1>2, <1>3 DEF StopInv
<1>5. MayGoPast(Len(stream)) => MayGoPast(Len(stream))'
  <2>1. PICK n \in 1..Len(stream) : n = Len(stream)
    BY <1>3
  <2>2. MayGoPast(n) => MayGoPast(n)'
    BY <1>2
  <2> QED
    BY <1>3, <2>1, <2>2
<1>6. CanIgnoreError(info.error)' <=> CanIgnoreError(e)
  BY <1>1 DEF CanIgnoreError
<1> QED
  BY <1>1, <1>4, <1>5, <1>6 DEF StopInv, RunOpcodes

LEMMA RepeatRebaseStops ==
  ASSUME TypeInv, ReadyInv, StopInv, RepeatRebase
  PROVE  StopInv'
<1> DEFINE once == [info EXCEPT !.addrInSeg = ToUnsigned(@ + addAmt)]
           twice == [once EXCEPT !.addrInSeg = ToUnsigned(@ + addAmt)]
<1>1. once \in InfoType /\ twice \in InfoType
  <2>1. info \in InfoType /\ addAmt \in Int
    BY DEF TypeInv, SMax, WidthAssumption
  <2>2. ToUnsigned(info.addrInSeg + addAmt) \in 0..UMax
    BY <2>1, UnsignedFits DEF InfoType, UMax, WidthAssumption
  <2>3. once \in InfoType
    BY <2>1, <2>2 DEF InfoType
  <2> HIDE DEF once
  <2>4. ToUnsigned(once.addrInSeg + addAmt) \in 0..UMax
    BY <2>1, <2>3, UnsignedFits DEF InfoType, UMax, WidthAssumption
  <2>5. twice \in InfoType
    BY <2>3, <2>4 DEF InfoType
  <2> QED
    BY <2>3, <2>5
<1>2. stream # <<>> /\ MayGoPast(Len(stream)) /\ UNCHANGED list /\ pc = "advance"
  BY DEF RepeatRebase, ReadyInv, StopInv
<1> HIDE DEF once, twice
<1>3. CASE pc' = "list" /\ UNCHANGED <<stream, atEnd, last>>
  <2>1. \A j \in 1..Len(stream) : MayGoPast(j) => MayGoPast(j)'
    BY <1>2, <1>3, MayGoPastStays DEF TypeInv
  <2>2. PICK n \in 1..Len(stream) : n = Len(stream)
    BY <1>2 DEF TypeInv
  <2>3. MayGoPast(n)' /\ n = Len(stream')
    BY <1>2, <1>3, <2>1, <2>2
  <2>4. (\A j \in 1..(Len(stream) - 1) : MayGoPast(j))'
    BY <1>3, <2>1, <2>2 DEF StopInv
  <2>5. MayGoPast(Len(stream))'
    BY <2>3
  <2> QED
    BY <1>2, <1>3, <2>4, <2>5 DEF StopInv
<1>4. CASE last' = "SetKindImm" /\ NextOpcode(twice) /\ UNCHANGED pc
  BY <1>1, <1>2, <1>4, NextOpcodeStops
<1> QED
  BY <1>3, <1>4 DEF RepeatRebase, once, twice

LEMMA FinalizeRebaseStops ==
  ASSUME TypeInv, StopInv, FinalizeRebase
  PROVE  StopInv'
<1> DEFINE moved == [info EXCEPT !.addrInSeg = ToUnsigned(@ + segAdd)]
<1>1. info.addrInSeg + segAdd \in Int
  BY DEF TypeInv, InfoType, SMax, UMax, WidthAssumption
<1>2. ToUnsigned(info.addrInSeg + segAdd) \in 0..UMax
  BY <1>1, UnsignedFits
<1>3. moved \in InfoType
  BY <1>2 DEF TypeInv, InfoType
<1>4. NextOpcode(moved) /\ last' = "SetKindImm" /\ pc = "advance" /\ UNCHANGED <<pc, list>>
  BY DEF FinalizeRebase
<1>5. MayGoPast(Len(stream))
  BY DEF FinalizeRebase, StopInv
<1> HIDE DEF moved
<1> QED
  BY <1>3, <1>4, <1>5, NextOpcodeStops

\* An opcode that the loop handles itself, without an error, may be gone past.
LEMMA HandledMayGoPast ==
  ASSUME TypeInv, StopInv, Scanning, info.error = "None", Byte.op # "Unrecognized"
  PROVE  MayGoPast(Len(stream)) /\ stream # <<>>
  BY DEF TypeInv, StopInv, Scanning

LEMMA ScanErrorStops ==
  ASSUME TypeInv, StopInv, ScanError
  PROVE  StopInv'
<1>1. /\ Scanning /\ info.error # "None" /\ Yield(info.error)
      /\ UNCHANGED <<stream, list, last>> /\ info.error \in Errors /\ stream # <<>>
  BY DEF ScanError, Scanning, TypeInv, InfoType
<1>2. info.error = ReadError(stream[Len(stream)])
  BY <1>1 DEF StopInv, Scanning, Byte
<1>3. CanIgnoreError(info.error) => MayGoPast(Len(stream))
  BY <1>2 DEF CanIgnoreError, MayGoPast
<1> QED
  BY <1>1, <1>3, YieldStops DEF Scanning

LEMMA ScanUnrecognizedStops ==
  ASSUME TypeInv, StopInv, ScanUnrecognized
  PROVE  StopInv'
<1>1. /\ Yield("UnrecognizedRebaseOpcode") /\ UNCHANGED <<stream, list, last>>
      /\ last = "SetKindImm" /\ stream # <<>>
  BY DEF ScanUnrecognized, Scanning, TypeInv
<1>2. "UnrecognizedRebaseOpcode" \in Errors /\ ~CanIgnoreError("UnrecognizedRebaseOpcode")
  BY DEF Errors, CanIgnoreError
<1> QED
  BY <1>1, <1>2, YieldStops

LEMMA ScanSetupStops ==
  ASSUME TypeInv, StopInv, ScanSetup
  PROVE  StopInv'
<1> DEFINE moved == [info EXCEPT !.addrInSeg = info.segOffset]
<1>1. info \in InfoType /\ moved \in InfoType
  BY DEF TypeInv, InfoType
<1>2. NextOpcode(info) \/ NextOpcode(moved)
  BY DEF ScanSetup
<1>3. MayGoPast(Len(stream))
  BY HandledMayGoPast DEF ScanSetup
<1>4. pc = "advance" /\ last' = "SetKindImm" /\ UNCHANGED <<pc, list>>
  BY DEF ScanSetup, Scanning
<1> HIDE DEF moved
<1> QED
  BY <1>1, <1>2, <1>3, <1>4, NextOpcodeStops

LEMMA ScanAddAddrStops ==
  ASSUME TypeInv, StopInv, ScanAddAddr
  PROVE  StopInv'
<1> DEFINE add == IF Byte.op = "AddAddrImmScaled"
                  THEN ToUnsigned(info.skip * PtrSize) ELSE ToSigned(info.addAddr)
           sum == info.addrInSeg + add
           added == [info EXCEPT !.addrInSeg = sum]
<1>1. MayGoPast(Len(stream)) /\ stream # <<>>
  BY HandledMayGoPast DEF ScanAddAddr
<1>2. pc = "advance" /\ last' = "SetKindImm" /\ UNCHANGED list
  BY DEF ScanAddAddr, Scanning
<1>3. CASE AddressFits(sum)
  <2>1. added \in InfoType
    BY <1>3 DEF TypeInv, InfoType, AddressFits, FitsUnsigned
  <2>2. NextOpcode(added) /\ UNCHANGED pc
    BY <1>3 DEF ScanAddAddr
  <2> HIDE DEF added
  <2> QED
    BY <1>1, <1>2, <2>1, <2>2, NextOpcodeStops
<1>4. CASE ~AddressFits(sum)
  <2>1. Yield("OutOfBoundsSegmentAddr") /\ UNCHANGED stream
    BY <1>4 DEF ScanAddAddr
  <2> QED
    BY <1>1, <1>2, <2>1, YieldStops DEF Errors
<1> QED
  BY <1>3, <1>4

LEMMA ScanRebaseStops ==
  ASSUME TypeInv, StopInv, ScanRebaseAddAddr \/ ScanRebaseTimes
  PROVE  StopInv'
<1>1. MayGoPast(Len(stream)) /\ stream # <<>>
  BY HandledMayGoPast DEF ScanRebaseAddAddr, ScanRebaseTimes, RunOpcodes
<1>2. UNCHANGED <<stream, list>>
  BY DEF ScanRebaseAddAddr, ScanRebaseTimes
<1>3. PICK e \in Errors : Yield(e)
  BY CheckIfCanRebaseType DEF ScanRebaseAddAddr, ScanRebaseTimes, Errors
<1> QED
  BY <1>1, <1>2, <1>3, YieldStops

LEMMA ListActionStops ==
  ASSUME TypeInv, ReadyInv, StopInv, ListAction
  PROVE  StopInv'
<1>1. /\ CanIgnoreError(info.error) /\ info.error = "None" /\ list' = Listed
      /\ pc = "list" /\ pc' = "advance" /\ UNCHANGED <<stream, atEnd, info, last>>
  BY DEF ListAction, CanIgnoreError
<1>2. \A j \in 1..Len(stream) : MayGoPast(j) => MayGoPast(j)'
  BY <1>1, MayGoPastStays DEF TypeInv
<1>3. PICK n \in 1..Len(stream) : n = Len(stream)
  BY <1>1 DEF TypeInv, StopInv
<1>4. MayGoPast(n)' /\ n = Len(stream')
  BY <1>1, <1>2, <1>3 DEF StopInv
<1>5. (\A j \in 1..(Len(stream) - 1) : MayGoPast(j))'
  BY <1>1, <1>2, <1>3 DEF StopInv
<1>6. MayGoPast(Len(stream))'
  BY <1>4
<1> QED
  BY <1>1, <1>5, <1>6 DEF StopInv

LEMMA ListIgnoredErrorStops ==
  ASSUME TypeInv, ReadyInv, StopInv, ListIgnoredError
  PROVE  StopInv'
<1>1. /\ CanIgnoreError(info.error) /\ info.error # "None" /\ list' = Listed
      /\ pc = "list" /\ pc' = "advance" /\ last' = "SetKindImm" /\ stream # <<>>
  BY DEF ListIgnoredError, ReadyInv
<1>2. stream \in Seq(Opcodes) /\ Len(stream) \in 1..Len(stream)
      /\ (UNCHANGED stream \/ \E o \in Opcodes : stream' = Append(stream, o))
  BY <1>1 DEF ListIgnoredError, TypeInv
<1>3. \A j \in 1..Len(stream) : MayGoPast(j)'
  <2>1. \A j \in 1..Len(stream) : MayGoPast(j)
    BY <1>1, <1>2 DEF StopInv
  <2> QED
    BY <1>1, <1>2, <2>1, MayGoPastStays
<1>4. CASE atEnd' = TRUE /\ UNCHANGED stream
  <2>1. (\A j \in 1..(Len(stream) - 1) : MayGoPast(j))'
    BY <1>2, <1>3, <1>4
  <2> QED
    BY <1>1, <1>4, <2>1 DEF StopInv, RunOpcodes
<1>5. ASSUME NEW o \in Opcodes, info' = [ReadOpcode(info, o) EXCEPT !.error = "None"],
             stream' = Append(stream, o)
      PROVE  StopInv'
  <2>1. Len(stream') = Len(stream) + 1 /\ stream'[Len(stream')] = o
    BY <1>2, <1>5
  <2>2. (\A j \in 1..(Len(stream) - 1) : MayGoPast(j))'
    BY <1>2, <1>3, <2>1
  <2>3. info'.error = "None" /\ Byte' = o
    BY <1>5, <2>1, ReadOpcodeFields DEF Byte, TypeInv, InfoType
  <2>4. \E k \in 1..Len(list') : list'[k].at = Len(stream) /\ list'[k].error # "None"
    <3>1. Len(list) + 1 \in 1..Len(list')
      BY <1>1, ListedType DEF TypeInv
    <3>2. list'[Len(list) + 1].at = Len(stream) /\ list'[Len(list) + 1].error # "None"
      BY <1>1, ListedType
    <3> QED
      BY <3>1, <3>2
  <2>5. MayGoPast(Len(stream))' \/ Byte'.op = "Unrecognized"
    BY <1>2, <2>1, <2>3, <2>4 DEF MayGoPast
  <2> QED
    BY <1>1, <2>2, <2>3, <2>5 DEF StopInv, RunOpcodes
<1> QED
  BY <1>4, <1>5 DEF ListIgnoredError

\* A step after which nothing is read or listed any more.
LEMMA HaltStops ==
  ASSUME TypeInv, ReadyInv, StopInv, UNCHANGED <<stream, atEnd, info, list>>,
         \/ pc' = "done" /\ last' = "Done"
         \/ pc' = "stopped" /\ UNCHANGED last
         \/ UNCHANGED <<pc, last>>
  PROVE  StopInv'
<1>1. \A j \in 1..Len(stream) : MayGoPast(j) => MayGoPast(j)'
  BY MayGoPastStays DEF TypeInv
<1>2. (\A j \in 1..(Len(stream) - 1) : MayGoPast(j))'
  BY <1>1 DEF StopInv, TypeInv
<1>3. MayGoPast(Len(stream)) => MayGoPast(Len(stream))'
  BY DEF MayGoPast, ReadError
<1> QED
  BY <1>2, <1>3 DEF StopInv, RunOpcodes, Byte, ReadError, CanIgnoreError

LEMMA StopInvInit == Init => StopInv
<1> SUFFICES ASSUME Init
             PROVE  StopInv
  OBVIOUS
<1>1. pc = "advance" /\ last = "SetKindImm" /\ info.error = "None" /\ Len(stream) \in {0, 1}
  <2>1. CASE stream = <<>> /\ info = InitInfo
    BY <2>1 DEF Init, InitInfo
  <2>2. ASSUME NEW o \in Opcodes, stream = <<o>>,
               info = [ReadOpcode(InitInfo, o) EXCEPT !.error = "None"]
        PROVE  info.error = "None" /\ Len(stream) = 1
    <3>1. InitInfo \in InfoType
      BY DEF InitInfo, InfoType, Errors, NoWriteKind, WidthAssumption, UMax
    <3>2. ReadOpcode(InitInfo, o) \in InfoType
      BY <3>1, ReadOpcodeFields
    <3> QED
      BY <2>2, <3>2 DEF InfoType
  <2> QED
    BY <2>1, <2>2 DEF Init
<1>2. ~atEnd => MayGoPast(Len(stream)) \/ Byte.op = "Unrecognized"
  <2>1. ~atEnd => Len(stream) = 1
    BY DEF Init
  <2> QED
    BY <2>1 DEF MayGoPast, Byte
<1> QED
  BY <1>1, <1>2 DEF StopInv, RunOpcodes

LEMMA StopInvStep == TypeInv /\ ReadyInv /\ StopInv /\ [Next]_vars => StopInv'
<1> SUFFICES ASSUME TypeInv, ReadyInv, StopInv, [Next]_vars
             PROVE  StopInv'
  OBVIOUS
<1>1. CASE Advance
  <2>1. CASE ScanEnd
    BY <2>1, HaltStops DEF ScanEnd
  <2> QED
    BY <1>1, <2>1, RepeatRebaseStops, FinalizeRebaseStops, ScanErrorStops,
       ScanUnrecognizedStops, ScanSetupStops, ScanAddAddrStops, ScanRebaseStops DEF Advance
<1>2. CASE GetAsList
  <2>1. CASE StopAtError
    BY <2>1, HaltStops DEF StopAtError
  <2> QED
    BY <1>2, <2>1, ListActionStops, ListIgnoredErrorStops DEF GetAsList
<1>3. CASE Finished \/ UNCHANGED vars
  BY <1>3, HaltStops DEF Finished, vars
<1> QED
  BY <1>1, <1>2, <1>3 DEF Next

\* An opcode that cannot be read ends the list, except in the two places where its
\* error is lost.
THEOREM FatalErrorsEndTheList == Spec => []FatalErrorsStop
<1>1. StopInv => FatalErrorsStop
  BY DEF StopInv, FatalErrorsStop
<1> QED
  BY <1>1, TypeInvHolds, ReadyInvHolds, StopInvInit, StopInvStep, PTL DEF Spec

(***************************************************************************)
(* The locations of a stream                                               *)
(***************************************************************************)

\* The ranges of an opcode's operands.
LEMMA OpcodeRanges ==
  ASSUME NEW o \in Opcodes
  PROVE  /\ o.op \in RunOpcodes => o.n \in 0..UMax
         /\ o.op \in {"AddAddrUleb", "DoRebaseAddAddrUleb"} => o.n \in (-SMax - 1)..SMax
         /\ o.m \in (-SMax - 1)..SMax
<1>1. CASE \E op \in {"SetKindImm", "SetSegmentAndOffsetUleb", "AddAddrImmScaled", "Unrecognized"},
               n \in Int :
             o = [op |-> op, n |-> n, m |-> 0, valid |-> TRUE]
  BY <1>1 DEF RunOpcodes, WidthAssumption, SMax
<1>2. CASE \E op \in {"AddAddrUleb", "DoRebaseAddAddrUleb"}, n \in Adds :
             o = [op |-> op, n |-> n, m |-> 0, valid |-> TRUE]
  BY <1>2, OperandsAssumption DEF OperandsAssumption, RunOpcodes, WidthAssumption, SMax
<1>3. CASE \E op \in RunOpcodes, n \in Counts, m \in Skips \cup {0} :
             o = [op |-> op, n |-> n, m |-> m, valid |-> TRUE]
  BY <1>3, OperandsAssumption DEF OperandsAssumption, RunOpcodes, WidthAssumption, SMax
<1>4. CASE \E op \in UlebOpcodes : o = [op |-> op, n |-> 0, m |-> 0, valid |-> FALSE]
  BY <1>4 DEF UlebOpcodes, WidthAssumption, UMax, SMax
<1>5. /\ Offsets \subseteq Int /\ Scales \subseteq Int /\ Kinds \subseteq Int
  BY OperandsAssumption DEF OperandsAssumption, WidthAssumption, UMax
<1> QED
  BY <1>1, <1>2, <1>3, <1>4, <1>5 DEF Opcodes, Opcode, RunOpcodes

\* A product of integers is one.
LEMMA ProductType == \A a, b \in Int : a * b \in Int
OBVIOUS

LEMMA MovedType ==
  ASSUME NEW c \in Int, NEW o \in Opcodes
  PROVE  Moved(c, o) \in Int
<1>1. o.n \in Int /\ o.m \in Int /\ PtrSize \in Int
  BY OpcodeFields DEF WidthAssumption
<1>2. StepSize(o) \in Int
  BY <1>1 DEF StepSize
<1>3. o.n * PtrSize \in Int /\ o.n * StepSize(o) \in Int
  BY <1>1, <1>2, ProductType
<1> QED
  BY <1>1, <1>3 DEF Moved

\* f[k] is the cursor after k opcodes, for the first m of s.
IsCursor(s, m, f) ==
  /\ f \in [0..m -> Int] /\ f[0] = 0
  /\ \A k \in 1..m : f[k] = Moved(f[k - 1], s[k])

LEMMA CursorIsOne ==
  ASSUME NEW s \in Seq(Opcodes), NEW m \in 0..Len(s)
  PROVE  \E f : IsCursor(s, m, f) /\ CursorAt(s, m) = f[m]
<1> DEFINE Equation(f) == f = [j \in 0..m |-> IF j = 0 THEN 0 ELSE Moved(f[j - 1], s[j])]
           step == [q \in Int \X (1..m) |-> Moved(q[1], s[q[2]])]
<1>1. Len(s) \in Nat /\ m \in Nat /\ 0 \in Int
  OBVIOUS
<1>2. \A c \in Int, k \in 1..m : Moved(c, s[k]) \in Int
  <2> SUFFICES ASSUME NEW c \in Int, NEW k \in 1..m PROVE Moved(c, s[k]) \in Int
    OBVIOUS
  <2>1. s[k] \in Opcodes
    BY <1>1
  <2> QED
    BY <2>1, MovedType
<1>3. step \in [Int \X (1..m) -> Int] /\ \A c \in Int, k \in 1..m : step[<<c, k>>] = Moved(c, s[k])
  BY <1>2
<1> HIDE DEF step
<1>4. PICK f : f \in [0..m -> Int] /\ f[0] = 0 /\ \A k \in 1..m : f[k] = step[<<f[k - 1], k>>]
  <2>1. \E f : Ind!IsRecursion(f, Int, 0, m, step)
    BY <1>1, <1>3, Ind!FunctionByRecursion
  <2> QED
    BY <2>1 DEF Ind!IsRecursion
<1>5. \A k \in 1..m : f[k - 1] \in Int /\ f[k] = Moved(f[k - 1], s[k])
  <2> SUFFICES ASSUME NEW k \in 1..m PROVE f[k - 1] \in Int /\ f[k] = Moved(f[k - 1], s[k])
    OBVIOUS
  <2>1. k - 1 \in 0..m
    BY <1>1
  <2>2. f[k - 1] \in Int
    BY <1>4, <2>1
  <2> QED
    BY <1>3, <1>4, <2>2
<1>6. Equation(f)
  <2>1. \A j \in 0..m : f[j] = IF j = 0 THEN 0 ELSE Moved(f[j - 1], s[j])
    BY <1>1, <1>4, <1>5
  <2> QED
    BY <1>4, <2>1
<1> DEFINE g == CHOOSE f_1 : Equation(f_1)
<1>7. Equation(g)
  BY <1>6
<1>8. CursorAt(s, m) = g[m]
  BY DEF CursorAt
<1>9. DOMAIN g = 0..m /\ \A j \in 0..m : g[j] = IF j = 0 THEN 0 ELSE Moved(g[j - 1], s[j])
  BY <1>7
<1> HIDE DEF g, Equation
<1>10. \A j \in 0..m : g[j] = f[j]
  <2> DEFINE S == {j \in Nat : j <= m => g[j] = f[j]}
  <2>1. 0 \in S
    BY <1>1, <1>4, <1>9
  <2>2. ASSUME NEW j \in Nat, j \in S PROVE j + 1 \in S
    <3> SUFFICES ASSUME j + 1 <= m PROVE g[j + 1] = f[j + 1]
      OBVIOUS
    <3>1. j + 1 \in 1..m /\ j + 1 \in 0..m /\ (j + 1) - 1 = j /\ j <= m /\ j + 1 # 0
      BY <1>1
    <3>2. g[j] = f[j]
      BY <2>2, <3>1
    <3> QED
      BY <1>5, <1>9, <3>1, <3>2
  <2> HIDE DEF S
  <2>3. Nat \subseteq S
    BY <2>1, <2>2, Ind!SetInduction
  <2> QED
    BY <1>1, <2>3 DEF S
<1>11. m \in 0..m
  BY <1>1
<1> QED
  BY <1>4, <1>5, <1>8, <1>10, <1>11 DEF IsCursor

\* Two streams have the same cursor as long as they are the same.
LEMMA CursorsAgree ==
  ASSUME NEW s, NEW t, NEW m \in Nat, NEW n \in Nat, NEW f, NEW g,
         IsCursor(s, m, f), IsCursor(t, n, g), m <= n, \A k \in 1..m : s[k] = t[k]
  PROVE  g[m] = f[m]
<1> DEFINE S == {j \in Nat : j <= m => g[j] = f[j]}
<1>1. 0 \in S
  BY DEF IsCursor
<1>2. ASSUME NEW j \in Nat, j \in S PROVE j + 1 \in S
  <2> SUFFICES ASSUME j + 1 <= m PROVE g[j + 1] = f[j + 1]
    OBVIOUS
  <2>1. j + 1 \in 1..m /\ j + 1 \in 1..n /\ (j + 1) - 1 = j /\ j <= m
    OBVIOUS
  <2>2. g[j] = f[j] /\ s[j + 1] = t[j + 1]
    BY <1>2, <2>1
  <2>3. f[j + 1] = Moved(f[j], s[j + 1]) /\ g[j + 1] = Moved(g[j], t[j + 1])
    BY <2>1 DEF IsCursor
  <2> QED
    BY <2>2, <2>3
<1> HIDE DEF S
<1>3. Nat \subseteq S
  BY <1>1, <1>2, Ind!SetInduction
<1> QED
  BY <1>3 DEF S

LEMMA CursorStays ==
  ASSUME NEW s \in Seq(Opcodes), NEW t \in Seq(Opcodes), NEW m \in 0..Len(s), m <= Len(t),
         \A k \in 1..m : s[k] = t[k]
  PROVE  CursorAt(t, m) = CursorAt(s, m)
<1>1. m \in 0..Len(t) /\ m \in Nat /\ m <= m
  OBVIOUS
<1>2. PICK f : IsCursor(s, m, f) /\ CursorAt(s, m) = f[m]
  BY CursorIsOne
<1>3. PICK g : IsCursor(t, m, g) /\ CursorAt(t, m) = g[m]
  BY <1>1, CursorIsOne
<1> QED
  BY <1>1, <1>2, <1>3, CursorsAgree

\* Each opcode moves the cursor.
LEMMA CursorMoves ==
  ASSUME NEW s \in Seq(Opcodes)
  PROVE  /\ CursorAt(s, 0) = 0
         /\ \A k \in 0..Len(s) : CursorAt(s, k) \in Int
         /\ \A k \in 1..Len(s) : CursorAt(s, k) = Moved(CursorAt(s, k - 1), s[k])
<1>1. Len(s) \in Nat /\ 0 \in 0..Len(s)
  OBVIOUS
<1>2. \A k \in 0..Len(s) : k \in 0..k /\ k \in Nat
  BY <1>1
<1>3. CursorAt(s, 0) = 0
  <2>1. PICK f : IsCursor(s, 0, f) /\ CursorAt(s, 0) = f[0]
    BY <1>1, CursorIsOne
  <2> QED
    BY <2>1 DEF IsCursor
<1>4. ASSUME NEW k \in 0..Len(s) PROVE CursorAt(s, k) \in Int
  <2>1. PICK f : IsCursor(s, k, f) /\ CursorAt(s, k) = f[k]
    BY CursorIsOne
  <2> QED
    BY <1>2, <2>1 DEF IsCursor
<1>5. ASSUME NEW k \in 1..Len(s) PROVE CursorAt(s, k) = Moved(CursorAt(s, k - 1), s[k])
  <2>1. k \in 0..Len(s) /\ k - 1 \in 0..Len(s) /\ k \in 1..k /\ k \in Nat
        /\ k - 1 \in Nat /\ k - 1 <= k
    BY <1>1
  <2>2. PICK f : IsCursor(s, k, f) /\ CursorAt(s, k) = f[k]
    BY <2>1, CursorIsOne
  <2>3. PICK g : IsCursor(s, k - 1, g) /\ CursorAt(s, k - 1) = g[k - 1]
    BY <2>1, CursorIsOne
  <2>4. f[k - 1] = g[k - 1]
    BY <2>1, <2>2, <2>3, CursorsAgree
  <2>5. f[k] = Moved(f[k - 1], s[k])
    BY <2>1, <2>2 DEF IsCursor
  <2> QED
    BY <2>2, <2>3, <2>4, <2>5
<1> QED
  BY <1>3, <1>4, <1>5

\* The locations that are listed for an opcode: of a run of two or more, all but
\* the last one.
ListedOf(c, o) ==
  IF o.valid /\ o.op \in RunOpcodes /\ o.n > 1 THEN Front(Rebased(c, o)) ELSE Rebased(c, o)

LocationsOf(s, k) == LocationsWithout(LongRuns(s), s, k)
ListedLocations == LocationsOf(stream, Len(stream))

LEMMA ListedOfFacts ==
  ASSUME NEW c \in Int, NEW o \in Opcodes
  PROVE  /\ ListedOf(c, o) \in Seq(Int)
         /\ o.valid /\ o.op \in RunOpcodes /\ o.n > 1 =>
              /\ Len(ListedOf(c, o)) = o.n - 1
              /\ \A i \in 1..(o.n - 1) : ListedOf(c, o)[i] = c + (i - 1) * StepSize(o)
         /\ o.valid /\ o.op \in RunOpcodes /\ o.n = 1 =>
              Len(ListedOf(c, o)) = 1 /\ ListedOf(c, o)[1] = c
         /\ o.valid /\ o.op = "DoRebaseAddAddrUleb" =>
              Len(ListedOf(c, o)) = 1 /\ ListedOf(c, o)[1] = c
         /\ ~o.valid \/ o.op \notin RunOpcodes \cup {"DoRebaseAddAddrUleb"} =>
              ListedOf(c, o) = <<>>
<1>1. /\ o.n \in Int /\ o.m \in Int /\ (o.op \in RunOpcodes => o.n \in Nat)
      /\ PtrSize \in Int
  BY OpcodeFields, OpcodeRanges DEF WidthAssumption, UMax
<1>2. StepSize(o) \in Int
  BY <1>1 DEF StepSize
<1>3. CASE o.valid /\ o.op \in RunOpcodes
  <2> DEFINE f == [i \in 1..o.n |-> c + (i - 1) * StepSize(o)]
  <2>1. Rebased(c, o) = f /\ o.op # "DoRebaseAddAddrUleb" /\ o.n \in Nat
    BY <1>1, <1>3 DEF Rebased, RunOpcodes
  <2>2. \A i \in 1..o.n : c + (i - 1) * StepSize(o) \in Int
    <3> SUFFICES ASSUME NEW i \in 1..o.n PROVE c + (i - 1) * StepSize(o) \in Int
      OBVIOUS
    <3>1. (i - 1) * StepSize(o) \in Int
      BY <1>2, ProductType
    <3> QED
      BY <3>1
  <2>3. f \in Seq(Int) /\ Len(f) = o.n /\ \A i \in 1..o.n : f[i] = c + (i - 1) * StepSize(o)
    BY <2>1, <2>2
  <2> HIDE DEF f
  <2>4. CASE o.n > 1
    <3>1. ListedOf(c, o) = SubSeq(f, 1, o.n - 1)
      BY <1>3, <2>1, <2>3, <2>4 DEF ListedOf, Front
    <3>2. SubSeq(f, 1, o.n - 1) \in Seq(Int) /\ Len(SubSeq(f, 1, o.n - 1)) = o.n - 1
          /\ \A i \in 1..(o.n - 1) : SubSeq(f, 1, o.n - 1)[i] = f[i]
      BY <2>1, <2>3, <2>4
    <3>3. \A i \in 1..(o.n - 1) : i \in 1..o.n
      BY <2>1
    <3>4. Len(ListedOf(c, o)) = o.n - 1 /\ o.n # 1 /\ ListedOf(c, o) \in Seq(Int)
      BY <2>4, <3>1, <3>2
    <3>5. \A i \in 1..(o.n - 1) : ListedOf(c, o)[i] = c + (i - 1) * StepSize(o)
      BY <2>3, <3>1, <3>2, <3>3
    <3> QED
      BY <1>3, <2>1, <3>4, <3>5
  <2>5. CASE ~(o.n > 1)
    <3>1. ListedOf(c, o) = f
      BY <2>1, <2>5 DEF ListedOf
    <3>2. o.n = 1 => Len(f) = 1 /\ f[1] = c
      <4> SUFFICES ASSUME o.n = 1 PROVE f[1] = c
        BY <2>3
      <4>1. f[1] = c + (1 - 1) * StepSize(o)
        BY <2>3
      <4>2. (1 - 1) * StepSize(o) = 0
        BY <1>2
      <4> QED
        BY <4>1, <4>2
    <3> QED
      BY <1>3, <2>1, <2>3, <2>5, <3>1, <3>2
  <2> QED
    BY <2>4, <2>5
<1>4. CASE o.valid /\ o.op = "DoRebaseAddAddrUleb"
  BY <1>4 DEF ListedOf, Rebased, RunOpcodes
<1>5. CASE ~o.valid \/ o.op \notin RunOpcodes \cup {"DoRebaseAddAddrUleb"}
  BY <1>5 DEF ListedOf, Rebased
<1> QED
  BY <1>3, <1>4, <1>5

\* f[k] are the locations listed for the first k opcodes of s.
IsLocations(s, m, f) ==
  /\ f \in [0..m -> Seq(Int)] /\ f[0] = <<>>
  /\ \A k \in 1..m : f[k] = f[k - 1] \o ListedOf(CursorAt(s, k - 1), s[k])

LEMMA LocationsIsOne ==
  ASSUME NEW s \in Seq(Opcodes), NEW m \in 0..Len(s)
  PROVE  \E f : IsLocations(s, m, f) /\ LocationsOf(s, m) = f[m]
<1> DEFINE rebased(j) == Rebased(CursorAt(s, j - 1), s[j])
           L(j) == IF j \in LongRuns(s) THEN Front(rebased(j)) ELSE rebased(j)
           Equation(f) == f = [j \in 0..m |-> IF j = 0 THEN <<>> ELSE f[j - 1] \o L(j)]
           step == [q \in Seq(Int) \X (1..m) |-> q[1] \o L(q[2])]
<1>1. Len(s) \in Nat /\ m \in Nat /\ <<>> \in Seq(Int)
  OBVIOUS
<1>a. \A k \in 1..m : L(k) = ListedOf(CursorAt(s, k - 1), s[k])
  <2> SUFFICES ASSUME NEW k \in 1..m PROVE L(k) = ListedOf(CursorAt(s, k - 1), s[k])
    OBVIOUS
  <2>1. k \in LongRuns(s) <=> s[k].valid /\ s[k].op \in RunOpcodes /\ s[k].n > 1
    BY <1>1 DEF LongRuns
  <2> QED
    BY <2>1 DEF ListedOf
<1>2. \A k \in 1..m : L(k) \in Seq(Int)
  <2> SUFFICES ASSUME NEW k \in 1..m PROVE L(k) \in Seq(Int)
    OBVIOUS
  <2>1. s[k] \in Opcodes /\ k - 1 \in 0..Len(s)
    BY <1>1
  <2>2. CursorAt(s, k - 1) \in Int
    BY <2>1, CursorMoves
  <2>3. ListedOf(CursorAt(s, k - 1), s[k]) \in Seq(Int)
    BY <2>1, <2>2, ListedOfFacts
  <2> HIDE DEF L
  <2> QED
    BY <1>a, <2>3
<1>3. \A p \in Seq(Int), k \in 1..m : p \o L(k) \in Seq(Int)
  <2> HIDE DEF L
  <2> QED
    BY <1>2
<1>4. step \in [Seq(Int) \X (1..m) -> Seq(Int)]
      /\ \A p \in Seq(Int), k \in 1..m : step[<<p, k>>] = p \o L(k)
  <2>1. \A q \in Seq(Int) \X (1..m) : q[1] \o L(q[2]) \in Seq(Int)
    <3> SUFFICES ASSUME NEW q \in Seq(Int) \X (1..m) PROVE q[1] \o L(q[2]) \in Seq(Int)
      OBVIOUS
    <3>1. q[1] \in Seq(Int) /\ q[2] \in 1..m
      OBVIOUS
    <3> HIDE DEF L
    <3> QED
      BY <1>3, <3>1
  <2>2. \A p \in Seq(Int), k \in 1..m : <<p, k>> \in Seq(Int) \X (1..m)
    OBVIOUS
  <2> HIDE DEF L
  <2> QED
    BY <2>1, <2>2
<1> HIDE DEF step
<1>5. PICK f : f \in [0..m -> Seq(Int)] /\ f[0] = <<>>
               /\ \A k \in 1..m : f[k] = step[<<f[k - 1], k>>]
  <2>1. \E f : Ind!IsRecursion(f, Seq(Int), <<>>, m, step)
    BY <1>1, <1>4, Ind!FunctionByRecursion
  <2> QED
    BY <2>1 DEF Ind!IsRecursion
<1>6. \A k \in 1..m : f[k] = f[k - 1] \o L(k)
  <2> SUFFICES ASSUME NEW k \in 1..m PROVE f[k] = f[k - 1] \o L(k)
    OBVIOUS
  <2>1. k - 1 \in 0..m
    BY <1>1
  <2>2. f[k - 1] \in Seq(Int)
    BY <1>5, <2>1
  <2> HIDE DEF L
  <2> QED
    BY <1>4, <1>5, <2>2
<1>7. Equation(f)
  <2> HIDE DEF L
  <2>1. \A j \in 0..m : f[j] = IF j = 0 THEN <<>> ELSE f[j - 1] \o L(j)
    <3> SUFFICES ASSUME NEW j \in 0..m
                 PROVE  f[j] = IF j = 0 THEN <<>> ELSE f[j - 1] \o L(j)
      OBVIOUS
    <3>1. j = 0 \/ (j # 0 /\ j \in 1..m)
      BY <1>1
    <3> QED
      BY <1>5, <1>6, <3>1
  <2> QED
    BY <1>5, <2>1
<1> DEFINE g == CHOOSE f_1 : Equation(f_1)
<1>8. Equation(g)
  BY <1>7
<1>9. LocationsOf(s, m) = g[m]
  BY DEF LocationsOf, LocationsWithout
<1>10. DOMAIN g = 0..m /\ \A j \in 0..m : g[j] = IF j = 0 THEN <<>> ELSE g[j - 1] \o L(j)
  BY <1>8
<1> HIDE DEF g, Equation, L
<1>11. \A j \in 0..m : g[j] = f[j]
  <2> DEFINE S == {j \in Nat : j <= m => g[j] = f[j]}
  <2>1. 0 \in S
    BY <1>1, <1>5, <1>10
  <2>2. ASSUME NEW j \in Nat, j \in S PROVE j + 1 \in S
    <3> SUFFICES ASSUME j + 1 <= m PROVE g[j + 1] = f[j + 1]
      OBVIOUS
    <3>1. j + 1 \in 1..m /\ j + 1 \in 0..m /\ (j + 1) - 1 = j /\ j <= m /\ j + 1 # 0
      BY <1>1
    <3>2. g[j] = f[j]
      BY <2>2, <3>1
    <3> QED
      BY <1>6, <1>10, <3>1, <3>2
  <2> HIDE DEF S
  <2>3. Nat \subseteq S
    BY <2>1, <2>2, Ind!SetInduction
  <2> QED
    BY <1>1, <2>3 DEF S
<1>12. m \in 0..m
  BY <1>1
<1>13. \A k \in 1..m : f[k] = f[k - 1] \o ListedOf(CursorAt(s, k - 1), s[k])
  BY <1>6, <1>a
<1> QED
  BY <1>5, <1>9, <1>11, <1>12, <1>13 DEF IsLocations

\* They are the same for two streams as long as these are the same.
LEMMA LocationsAgree ==
  ASSUME NEW s \in Seq(Opcodes), NEW t \in Seq(Opcodes), NEW m \in 0..Len(s),
         NEW n \in 0..Len(t), m <= n, NEW f, NEW g,
         IsLocations(s, m, f), IsLocations(t, n, g), \A k \in 1..m : s[k] = t[k]
  PROVE  g[m] = f[m]
<1> DEFINE S == {j \in Nat : j <= m => g[j] = f[j]}
<1>0. Len(s) \in Nat /\ Len(t) \in Nat /\ m \in Nat /\ n \in Nat
  OBVIOUS
<1>1. 0 \in S
  BY DEF IsLocations
<1>2. ASSUME NEW j \in Nat, j \in S PROVE j + 1 \in S
  <2> SUFFICES ASSUME j + 1 <= m PROVE g[j + 1] = f[j + 1]
    OBVIOUS
  <2>1. /\ j + 1 \in 1..m /\ j + 1 \in 1..n /\ (j + 1) - 1 = j /\ j <= m
        /\ j \in 0..Len(s) /\ j <= Len(t) /\ \A k \in 1..j : k \in 1..m
    BY <1>0
  <2>2. g[j] = f[j] /\ s[j + 1] = t[j + 1] /\ \A k \in 1..j : s[k] = t[k]
    BY <1>2, <2>1
  <2>3. CursorAt(t, j) = CursorAt(s, j)
    BY <2>1, <2>2, CursorStays
  <2>4. /\ f[j + 1] = f[j] \o ListedOf(CursorAt(s, j), s[j + 1])
        /\ g[j + 1] = g[j] \o ListedOf(CursorAt(t, j), t[j + 1])
    BY <2>1 DEF IsLocations
  <2> QED
    BY <2>2, <2>3, <2>4
<1> HIDE DEF S
<1>3. Nat \subseteq S
  BY <1>1, <1>2, Ind!SetInduction
<1> QED
  BY <1>0, <1>3 DEF S

LEMMA LocationsStay ==
  ASSUME NEW s \in Seq(Opcodes), NEW t \in Seq(Opcodes), NEW m \in 0..Len(s), m <= Len(t),
         \A k \in 1..m : s[k] = t[k]
  PROVE  LocationsOf(t, m) = LocationsOf(s, m)
<1>1. m \in 0..Len(t) /\ m \in Nat /\ m <= m
  OBVIOUS
<1>2. PICK f : IsLocations(s, m, f) /\ LocationsOf(s, m) = f[m]
  BY LocationsIsOne
<1>3. PICK g : IsLocations(t, m, g) /\ LocationsOf(t, m) = g[m]
  BY <1>1, LocationsIsOne
<1> QED
  BY <1>1, <1>2, <1>3, LocationsAgree

\* Each opcode adds those it lists.
LEMMA LocationsGrow ==
  ASSUME NEW s \in Seq(Opcodes)
  PROVE  /\ LocationsOf(s, 0) = <<>>
         /\ \A k \in 0..Len(s) : LocationsOf(s, k) \in Seq(Int)
         /\ \A k \in 1..Len(s) :
              LocationsOf(s, k) = LocationsOf(s, k - 1) \o ListedOf(CursorAt(s, k - 1), s[k])
<1>1. Len(s) \in Nat /\ 0 \in 0..Len(s)
  OBVIOUS
<1>2. \A k \in 0..Len(s) : k \in 0..k /\ k \in Nat
  BY <1>1
<1>3. LocationsOf(s, 0) = <<>>
  <2>1. PICK f : IsLocations(s, 0, f) /\ LocationsOf(s, 0) = f[0]
    BY <1>1, LocationsIsOne
  <2> QED
    BY <2>1 DEF IsLocations
<1>4. ASSUME NEW k \in 0..Len(s) PROVE LocationsOf(s, k) \in Seq(Int)
  <2>1. PICK f : IsLocations(s, k, f) /\ LocationsOf(s, k) = f[k]
    BY LocationsIsOne
  <2> QED
    BY <1>2, <2>1 DEF IsLocations
<1>5. ASSUME NEW k \in 1..Len(s)
      PROVE  LocationsOf(s, k) = LocationsOf(s, k - 1) \o ListedOf(CursorAt(s, k - 1), s[k])
  <2>1. k \in 0..Len(s) /\ k - 1 \in 0..Len(s) /\ k \in 1..k /\ k \in Nat
        /\ k - 1 \in Nat /\ k - 1 <= k
        /\ (\A j \in 1..(k - 1) : s[j] = s[j])
    BY <1>1
  <2>2. PICK f : IsLocations(s, k, f) /\ LocationsOf(s, k) = f[k]
    BY <2>1, LocationsIsOne
  <2>3. PICK g : IsLocations(s, k - 1, g) /\ LocationsOf(s, k - 1) = g[k - 1]
    BY <2>1, LocationsIsOne
  <2>4. f[k - 1] = g[k - 1]
    BY <2>1, <2>2, <2>3, LocationsAgree
  <2>5. f[k] = f[k - 1] \o ListedOf(CursorAt(s, k - 1), s[k])
    BY <2>1, <2>2 DEF IsLocations
  <2> QED
    BY <2>2, <2>3, <2>4, <2>5
<1> QED
  BY <1>3, <1>4, <1>5

(***************************************************************************)
(* The addresses follow the stream                                         *)
(***************************************************************************)

\* A number of a type stays as it is.
LEMMA UnsignedSame == \A n \in 0..UMax : ToUnsigned(n) = n
BY DEF WidthAssumption, ToUnsigned, UMax

LEMMA SignedSame ==
  ASSUME NEW n \in (-SMax - 1)..SMax
  PROVE  ToSigned(n) = n
<1>1. TopBit \in Nat /\ TopBit >= 1
  BY DEF WidthAssumption
<1>2. CASE n >= 0
  <2>1. n \in 0..UMax
    BY <1>1, <1>2 DEF SMax, UMax
  <2> QED
    BY <2>1, UnsignedSame DEF ToSigned
<1>3. CASE n < 0
  <2>1. n + 2 * TopBit \in 0..UMax /\ n + 2 * TopBit > SMax
    BY <1>1, <1>3 DEF SMax, UMax
  <2>2. n % (2 * TopBit) = n + 2 * TopBit
    BY <1>1, <1>3, <2>1 DEF SMax, UMax
  <2> QED
    BY <1>1, <2>1, <2>2 DEF ToSigned, ToUnsigned, SMax
<1> QED
  BY <1>2, <1>3

\* What the opcode iterator has of the opcode it is at.  The first one may be one
\* whose operand was rejected, since the constructor drops the error.
Operands(i, o) ==
  IF o.valid
  THEN /\ o.op = "SetSegmentAndOffsetUleb" => i.segOffset = o.n
       /\ o.op = "AddAddrImmScaled" => i.skip = o.n
       /\ o.op \in RunOpcodes \cup {"AddAddrUleb", "DoRebaseAddAddrUleb"} => i.addAddr = o.n
       /\ o.op = "DoRebaseUlebTimesSkipUleb" => i.skip = ToUnsigned(o.m)
  ELSE i.addAddr = 0 /\ i.segOffset = 0 /\ ~i.hasSegment

LEMMA ReadsOperands ==
  ASSUME NEW i \in InfoType, NEW o \in Opcodes
  PROVE  /\ ReadOpcode(i, o).addrInSeg = i.addrInSeg
         /\ o.valid => Operands(ReadOpcode(i, o), o)
         /\ ~o.valid => ReadOpcode(i, o) = [i EXCEPT !.error = ReadError(o)]
<1> DEFINE j == [i EXCEPT !.error = ReadError(o)]
<1>1. ReadError(o) \in Errors
  BY DEF ReadError, Errors
<1>2. j \in InfoType /\ j.addrInSeg = i.addrInSeg
  BY <1>1 DEF InfoType
<1>3. CASE ~o.valid
  BY <1>2, <1>3 DEF ReadOpcode
<1>4. CASE o.valid
  <2>1. ReadOpcode(i, o) =
          CASE o.op = "SetKindImm" -> [j EXCEPT !.kind = o.n]
            [] o.op = "SetSegmentAndOffsetUleb" ->
                 [j EXCEPT !.segOffset = o.n, !.hasSegment = TRUE]
            [] o.op = "AddAddrImmScaled" -> [j EXCEPT !.skip = o.n]
            [] o.op = "DoRebaseUlebTimesSkipUleb" ->
                 [j EXCEPT !.addAddr = o.n, !.skip = ToUnsigned(o.m)]
            [] o.op \in {"AddAddrUleb", "DoRebaseAddAddrUleb", "DoRebaseTimes"} ->
                 [j EXCEPT !.addAddr = o.n]
            [] OTHER -> j
    BY <1>4 DEF ReadOpcode
  <2> HIDE DEF j
  <2>2. CASE o.op = "SetKindImm"
    BY <1>2, <1>4, <2>1, <2>2 DEF InfoType, Operands, RunOpcodes
  <2>3. CASE o.op = "SetSegmentAndOffsetUleb"
    BY <1>2, <1>4, <2>1, <2>3 DEF InfoType, Operands, RunOpcodes
  <2>4. CASE o.op = "AddAddrImmScaled"
    BY <1>2, <1>4, <2>1, <2>4 DEF InfoType, Operands, RunOpcodes
  <2>5. CASE o.op = "DoRebaseUlebTimesSkipUleb"
    BY <1>2, <1>4, <2>1, <2>5 DEF InfoType, Operands, RunOpcodes
  <2>6. CASE o.op \in {"AddAddrUleb", "DoRebaseAddAddrUleb", "DoRebaseTimes"}
    BY <1>2, <1>4, <2>1, <2>6 DEF InfoType, Operands, RunOpcodes
  <2>7. CASE o.op \notin {"SetKindImm", "SetSegmentAndOffsetUleb", "AddAddrImmScaled",
                         "DoRebaseUlebTimesSkipUleb", "AddAddrUleb",
                         "DoRebaseAddAddrUleb", "DoRebaseTimes"}
    BY <1>2, <1>4, <2>1, <2>7 DEF InfoType, Operands, RunOpcodes
  <2> QED
    BY <1>4, <2>2, <2>3, <2>4, <2>5, <2>6, <2>7
<1> QED
  BY <1>3, <1>4

\* The list has the locations of the first m opcodes, and r of those of the next.
HasListed(m, r) ==
  /\ Len(list) = Len(LocationsOf(stream, m)) + r
  /\ \A j \in 1..Len(LocationsOf(stream, m)) : list[j].addr = LocationsOf(stream, m)[j]
  /\ \A j \in 1..r : list[Len(LocationsOf(stream, m)) + j].addr
                       = ListedOf(CursorAt(stream, m), stream[m + 1])[j]

\* Between two opcodes the address is the cursor, unless it went astray.
Between ==
  /\ segAdd = 0 /\ (~Astray(stream, Passed + 1) => info.addrInSeg = CursorAt(stream, Passed))
  /\ HasListed(Passed, 0)

\* In a run, r addresses have been passed.
InRun(r) ==
  /\ ~atEnd /\ stream # <<>> /\ Byte.valid /\ Byte.op \in RunOpcodes /\ last = Byte.op
  /\ segAdd = 0 /\ addAmt = StepSize(Byte)
  /\ r \in 0..(Byte.n - 2) \/ (Byte.n = 1 /\ r = 0)
  /\ count = Byte.n - 1 - r
  /\ info.addrInSeg = CursorAt(stream, Len(stream) - 1) + r * StepSize(Byte)
  /\ HasListed(Len(stream) - 1, IF pc = "list" THEN r ELSE r + 1)

InAdd ==
  /\ ~atEnd /\ stream # <<>> /\ Byte.valid /\ Byte.op = "DoRebaseAddAddrUleb"
  /\ segAdd = Byte.n + PtrSize
  /\ info.addrInSeg = CursorAt(stream, Len(stream) - 1)
  /\ HasListed(Len(stream) - 1, IF pc = "list" THEN 0 ELSE 1)

\* The inductive invariant: where the iterator is in the opcode that LastByte
\* has, and what has been listed up to there.
Follows ==
  /\ ~atEnd => Operands(info, Byte) /\ (Byte.valid \/ Len(stream) = 1)
  /\ pc = "advance" => last # "Done"
  /\ pc = "advance" /\ last = "SetKindImm" => Between
  /\ pc \in {"advance", "list"} /\ last \in RunOpcodes => \E r \in Nat : InRun(r)
  /\ pc \in {"advance", "list"} /\ last = "DoRebaseAddAddrUleb" => InAdd
  /\ pc = "list" => last \in RunOpcodes \cup {"DoRebaseAddAddrUleb"}
  /\ pc = "done" => HasListed(Len(stream), 0)
  /\ pc # "stopped"

AddressInv ==
  /\ pc = "advance" /\ last # "SetKindImm" => info.error = "None"
  /\ Regular => Follows

\* Whether the iterator is astray depends on the opcodes before alone.
LEMMA AstrayStays ==
  ASSUME NEW s, NEW t, NEW k \in Int, \A j \in 1..(k - 1) : s[j] = t[j]
  PROVE  Astray(s, k) <=> Astray(t, k)
<1> DEFINE Lost(u, j) ==
             /\ LosesPlace(u[j])
             /\ \A i \in (j + 1)..(k - 1) :
                    ~(u[i].valid /\ u[i].op = "SetSegmentAndOffsetUleb")
<1>1. ASSUME NEW j \in 1..(k - 1) PROVE Lost(s, j) <=> Lost(t, j)
  <2>1. s[j] = t[j] /\ \A i \in (j + 1)..(k - 1) : i \in 1..(k - 1)
    OBVIOUS
  <2> QED
    BY <2>1
<1>2. \A u : Astray(u, k) <=> \E j \in 1..(k - 1) : Lost(u, j)
  BY DEF Astray
<1> HIDE DEF Lost
<1> QED
  BY <1>1, <1>2

\* An opcode that sets no segment is not a way back.
LEMMA AstrayGoesOn ==
  ASSUME NEW s, NEW k \in Nat, k >= 1, ~Astray(s, k + 1),
         ~(s[k].valid /\ s[k].op = "SetSegmentAndOffsetUleb")
  PROVE  ~Astray(s, k) /\ ~LosesPlace(s[k])
<1>1. (k + 1) - 1 = k /\ k \in 1..k
  OBVIOUS
<1>2. ASSUME NEW j \in 1..(k - 1), LosesPlace(s[j]),
             \A i \in (j + 1)..(k - 1) : ~(s[i].valid /\ s[i].op = "SetSegmentAndOffsetUleb")
      PROVE  FALSE
  <2>1. j \in 1..k /\ \A i \in (j + 1)..k : i = k \/ i \in (j + 1)..(k - 1)
    OBVIOUS
  <2> QED
    BY <1>1, <1>2, <2>1 DEF Astray
<1>3. ~LosesPlace(s[k])
  <2>1. (k + 1)..k = {}
    OBVIOUS
  <2> QED
    BY <1>1, <2>1 DEF Astray
<1> QED
  BY <1>2, <1>3 DEF Astray

\* A stream that will be regular has been so.
LEMMA RegularBefore ==
  ASSUME TypeInv, Regular',
         UNCHANGED stream \/ \E o \in Opcodes : stream' = Append(stream, o),
         UNCHANGED list \/ list' = Listed
  PROVE  info.error = "None" => Regular
<1>1. /\ stream \in Seq(Opcodes) /\ stream' \in Seq(Opcodes) /\ Len(stream) \in Nat
      /\ list \in Seq(EntryType)
  BY DEF TypeInv
<1>2. Len(stream) <= Len(stream') /\ \A k \in 1..Len(stream) : stream[k] = stream'[k]
  BY <1>1
<1>3. \A k \in 1..Len(stream) : CursorAt(stream', k) = CursorAt(stream, k)
  <2> SUFFICES ASSUME NEW k \in 1..Len(stream) PROVE CursorAt(stream', k) = CursorAt(stream, k)
    OBVIOUS
  <2>1. k \in 0..Len(stream) /\ k <= Len(stream') /\ \A j \in 1..k : stream[j] = stream'[j]
    BY <1>1, <1>2
  <2> QED
    BY <1>1, <2>1, CursorStays
<1>4. \A k \in 1..Len(stream) : k \in 1..Len(stream')
  BY <1>1, <1>2
<1>5. WithinSegment(stream)
  BY <1>2, <1>3, <1>4 DEF Regular, WithinSegment
<1>6. \A k \in 1..Len(stream) : stream[k].valid /\ stream[k].op \in RunOpcodes => stream[k].n > 0
  BY <1>2, <1>4 DEF Regular
<1>a. KeepsPlace(stream)
  <2> SUFFICES ASSUME NEW k \in 1..Len(stream),
                      stream[k].op \in RunOpcodes \cup {"AddAddrUleb", "AddAddrImmScaled",
                                                      "DoRebaseAddAddrUleb"}
               PROVE  ~Astray(stream, k)
    BY DEF KeepsPlace
  <2>1. k \in Int /\ \A j \in 1..(k - 1) : j \in 1..Len(stream)
    BY <1>1
  <2>2. Astray(stream, k) <=> Astray(stream', k)
    BY <1>2, <2>1, AstrayStays
  <2> QED
    BY <1>2, <1>4, <2>2 DEF Regular, KeepsPlace
<1>7. Len(list) \in Nat /\ Len(list) <= Len(list') /\ \A k \in 1..Len(list) : list'[k] = list[k]
  <2>1. CASE UNCHANGED list
    BY <1>1, <2>1
  <2>2. CASE list' = Listed
    <3> DEFINE e == [addr |-> info.addrInSeg, error |-> info.error, at |-> Len(stream)]
    <3>1. list' = Append(list, e)
      BY <2>2 DEF Listed
    <3> HIDE DEF e
    <3> QED
      BY <1>1, <3>1
  <2> QED
    BY <2>1, <2>2
<1>8. \A k \in 1..Len(list) : k \in 1..Len(list')
  <2>1. Len(list') \in Nat
    <3> DEFINE e == [addr |-> info.addrInSeg, error |-> info.error, at |-> Len(stream)]
    <3>1. list' = list \/ list' = Append(list, e)
      BY DEF Listed
    <3> HIDE DEF e
    <3> QED
      BY <1>1, <3>1
  <2> QED
    BY <1>7, <2>1
<1>9. \A k \in 1..Len(list) : list[k].error = "None"
  BY <1>7, <1>8 DEF Regular, NoErrorYet
<1> QED
  BY <1>5, <1>6, <1>9, <1>a DEF Regular, NoErrorYet

\* An opcode that has listed all its locations is done.
LEMMA OpcodeDone ==
  ASSUME TypeInv, stream # <<>>,
         HasListed(Len(stream) - 1,
                   Len(ListedOf(CursorAt(stream, Len(stream) - 1), stream[Len(stream)])))
  PROVE  HasListed(Len(stream), 0)
<1>1. PICK n \in Nat \ {0} : n = Len(stream) /\ n \in 1..Len(stream) /\ n - 1 \in 0..Len(stream)
                             /\ (n - 1) + 1 = n
  BY DEF TypeInv
<1>2. stream \in Seq(Opcodes) /\ stream[n] \in Opcodes
  BY <1>1 DEF TypeInv
<1> DEFINE a == LocationsOf(stream, n - 1)
           b == ListedOf(CursorAt(stream, n - 1), stream[n])
<1>3. a \in Seq(Int) /\ b \in Seq(Int) /\ LocationsOf(stream, n) = a \o b
  BY <1>1, <1>2, LocationsGrow, CursorMoves, ListedOfFacts
<1>4. /\ Len(list) = Len(a) + Len(b)
      /\ \A j \in 1..Len(a) : list[j].addr = a[j]
      /\ \A j \in 1..Len(b) : list[Len(a) + j].addr = b[j]
  BY <1>1 DEF HasListed
<1> HIDE DEF a, b
<1>5. /\ Len(a \o b) = Len(a) + Len(b) /\ Len(a) \in Nat /\ Len(b) \in Nat
      /\ \A j \in 1..(Len(a) + Len(b)) : (a \o b)[j] = IF j <= Len(a) THEN a[j] ELSE b[j - Len(a)]
  BY <1>3
<1>6. \A j \in 1..(Len(a) + Len(b)) : list[j].addr = (a \o b)[j]
  <2> SUFFICES ASSUME NEW j \in 1..(Len(a) + Len(b)) PROVE list[j].addr = (a \o b)[j]
    OBVIOUS
  <2>1. CASE j <= Len(a)
    BY <1>4, <1>5, <2>1
  <2>2. CASE ~(j <= Len(a))
    <3>1. j - Len(a) \in 1..Len(b) /\ Len(a) + (j - Len(a)) = j
      BY <1>5, <2>2
    <3> QED
      BY <1>4, <1>5, <2>2, <3>1
  <2> QED
    BY <2>1, <2>2
<1>7. 1..0 = {}
  OBVIOUS
<1> DEFINE l == LocationsOf(stream, n)
<1>8. Len(list) = Len(l) + 0 /\ \A j \in 1..Len(l) : list[j].addr = l[j]
  BY <1>3, <1>4, <1>5, <1>6
<1> HIDE DEF l
<1> QED
  BY <1>1, <1>7, <1>8 DEF HasListed, l

\* An action is listed at the address of the iterator.
LEMMA ListsNext ==
  ASSUME TypeInv, list' = Listed, UNCHANGED stream, NEW m, NEW r \in Nat, HasListed(m, r),
         m \in 0..Len(stream),
         info.addrInSeg = ListedOf(CursorAt(stream, m), stream[m + 1])[r + 1]
  PROVE  HasListed(m, r + 1)'
<1>1. /\ list \in Seq(EntryType) /\ stream \in Seq(Opcodes)
      /\ Len(list') = Len(list) + 1 /\ \A k \in 1..Len(list) : list'[k] = list[k]
      /\ list'[Len(list) + 1].addr = info.addrInSeg
  BY DEF TypeInv, Listed
<1> DEFINE a == LocationsOf(stream, m)
           b == ListedOf(CursorAt(stream, m), stream[m + 1])
<1>2. Len(a) \in Nat
  BY <1>1, LocationsGrow
<1>3. /\ Len(list) = Len(a) + r
      /\ \A j \in 1..Len(a) : list[j].addr = a[j]
      /\ \A j \in 1..r : list[Len(a) + j].addr = b[j]
      /\ info.addrInSeg = b[r + 1]
  BY DEF HasListed
<1>4. HasListed(m, r + 1)' =
        (/\ Len(list') = Len(a) + (r + 1)
         /\ \A j \in 1..Len(a) : list'[j].addr = a[j]
         /\ \A j \in 1..(r + 1) : list'[Len(a) + j].addr = b[j])
  BY DEF HasListed
<1> HIDE DEF a, b
<1>5. \A j \in 1..Len(a) : list'[j].addr = a[j]
  <2>1. \A j \in 1..Len(a) : j \in 1..Len(list)
    BY <1>2, <1>3
  <2> QED
    BY <1>1, <1>3, <2>1
<1>6. \A j \in 1..(r + 1) : list'[Len(a) + j].addr = b[j]
  <2> SUFFICES ASSUME NEW j \in 1..(r + 1) PROVE list'[Len(a) + j].addr = b[j]
    OBVIOUS
  <2>1. CASE j = r + 1
    <3>1. Len(a) + j = Len(list) + 1
      BY <1>2, <1>3, <2>1
    <3> QED
      BY <1>1, <1>3, <2>1, <3>1
  <2>2. CASE j # r + 1
    <3>1. j \in 1..r /\ Len(a) + j \in 1..Len(list)
      BY <1>2, <1>3, <2>2
    <3> QED
      BY <1>1, <1>3, <3>1
  <2> QED
    BY <2>1, <2>2
<1>7. Len(list') = Len(a) + (r + 1)
  BY <1>1, <1>2, <1>3
<1> QED
  BY <1>4, <1>5, <1>6, <1>7

LEMMA KeepsListed ==
  ASSUME UNCHANGED <<stream, list>>, NEW m, NEW r
  PROVE  HasListed(m, r)' = HasListed(m, r)
BY DEF HasListed

LEMMA ProductGrows == \A a, b, s \in Nat : a <= b => a * s <= b * s /\ a * s \in Nat
<1> SUFFICES ASSUME NEW a \in Nat, NEW b \in Nat, NEW s \in Nat, a <= b
             PROVE  a * s <= b * s /\ a * s \in Nat
  OBVIOUS
<1>1. PICK d \in Nat : b = a + d
  <2>1. b - a \in Nat /\ b = a + (b - a)
    OBVIOUS
  <2> QED
    BY <2>1
<1>2. b * s = a * s + d * s /\ d * s \in Nat /\ a * s \in Nat
  BY <1>1
<1> QED
  BY <1>2

\* The cursor stays in the segment.
LEMMA CursorInSegment ==
  ASSUME TypeInv, WithinSegment(stream), NEW k \in 0..Len(stream)
  PROVE  CursorAt(stream, k) \in 0..SMax
<1>1. stream \in Seq(Opcodes) /\ Len(stream) \in Nat /\ 0 \in 0..SMax
  BY DEF TypeInv, WidthAssumption, SMax
<1>2. CASE k = 0
  BY <1>1, <1>2, CursorMoves
<1>3. CASE k # 0
  BY <1>1, <1>3 DEF WithinSegment
<1> QED
  BY <1>2, <1>3

\* What a run of n steps of s passes from the cursor c on.
RunFacts(c, n, s) ==
  /\ c \in 0..SMax /\ n \in Nat /\ s \in Nat \ {0}
  /\ c = CursorAt(stream, Len(stream) - 1) /\ n = Byte.n /\ s = StepSize(Byte)
  /\ n > 0 /\ n \in 0..UMax /\ Byte.m \in 0..SMax
  /\ CursorAt(stream, Len(stream)) = c + n * s
  /\ n * s \in 0..SMax /\ s \in 0..SMax
  /\ \A r \in 0..n : r * s \in Nat /\ c + r * s \in 0..SMax /\ (r + 1) * s = r * s + s

LEMMA RunBounds ==
  ASSUME TypeInv, Regular, stream # <<>>, Byte.valid, Byte.op \in RunOpcodes
  PROVE  \E c, n, s : RunFacts(c, n, s)
<1>1. PICK k \in Nat \ {0} : k = Len(stream) /\ k \in 1..Len(stream) /\ k - 1 \in 0..Len(stream)
                             /\ k \in 0..Len(stream)
  BY DEF TypeInv
<1>2. stream \in Seq(Opcodes) /\ Byte = stream[k] /\ Byte \in Opcodes
  BY <1>1 DEF TypeInv, Byte
<1>3. PICK c \in 0..SMax : c = CursorAt(stream, k - 1)
  BY <1>1, CursorInSegment DEF Regular
<1>4. PICK n \in Nat : n = Byte.n /\ n > 0 /\ n \in 0..UMax
  <2>1. Byte.n \in 0..UMax
    BY <1>2, OpcodeRanges
  <2>2. Byte.n > 0
    BY <1>1, <1>2 DEF Regular
  <2> QED
    BY <2>1, <2>2 DEF UMax, WidthAssumption
<1>5. Byte.m \in 0..SMax
  <2>1. Byte.m >= 0
    BY <1>1, <1>2 DEF Regular, WithinSegment
  <2> QED
    BY <1>2, <2>1, OpcodeRanges DEF SMax, WidthAssumption
<1>6. PICK s \in Nat \ {0} : s = StepSize(Byte)
  BY <1>5 DEF StepSize, WidthAssumption, SMax
<1>7. CursorAt(stream, k) = c + n * s
  <2>1. CursorAt(stream, k) = Moved(c, Byte)
    BY <1>1, <1>2, <1>3, CursorMoves
  <2>2. Moved(c, Byte) = c + n * s
    BY <1>4, <1>6 DEF Moved, RunOpcodes
  <2> QED
    BY <2>1, <2>2
<1>8. c + n * s \in 0..SMax
  BY <1>1, <1>7, CursorInSegment DEF Regular
<1>9. n * s \in Nat /\ SMax \in Nat /\ c \in Nat
  BY <1>6, ProductGrows DEF SMax, WidthAssumption
<1>10. n * s \in 0..SMax
  BY <1>8, <1>9
<1>11. s \in 0..SMax
  <2>1. 1 * s <= n * s /\ 1 * s = s
    BY <1>4, <1>6, ProductGrows
  <2> QED
    BY <1>9, <1>10, <2>1
<1>12. ASSUME NEW r \in 0..n
       PROVE  r * s \in Nat /\ c + r * s \in 0..SMax /\ (r + 1) * s = r * s + s
  <2>1. r \in Nat /\ r <= n
    BY <1>4
  <2>2. r * s <= n * s /\ r * s \in Nat
    BY <1>4, <1>6, <2>1, ProductGrows
  <2>3. (r + 1) * s = r * s + s
    BY <1>6, <2>1
  <2>4. c + r * s \in Nat /\ c + r * s <= c + n * s
    BY <1>9, <2>2
  <2> QED
    BY <1>8, <1>9, <2>2, <2>3, <2>4
<1> QED
  BY <1>1, <1>3, <1>4, <1>5, <1>6, <1>7, <1>10, <1>11, <1>12, ZenonT(60) DEF RunFacts

\* An opcode that is done leaves the address at the cursor.
LEMMA NextFollows ==
  ASSUME TypeInv, NEW i \in InfoType, NextOpcode(i), Regular', ~atEnd,
         UNCHANGED <<pc, list>>, pc = "advance", last' = "SetKindImm", segAdd' = 0,
         ~Astray(stream, Len(stream) + 1) => i.addrInSeg = CursorAt(stream, Len(stream)),
         HasListed(Len(stream), 0)
  PROVE  Follows'
<1>1. PICK k \in Nat : k = Len(stream) /\ k \in 0..Len(stream)
  BY DEF TypeInv
<1>2. stream \in Seq(Opcodes)
  BY DEF TypeInv
<1>3. info'.error = "None"
  BY DEF Regular, NoErrorYet
<1>4. pc' = "advance" /\ last' # "Done" /\ last' \notin RunOpcodes \cup {"DoRebaseAddAddrUleb"}
  BY DEF RunOpcodes
<1>5. CASE atEnd' = TRUE /\ info' = [i EXCEPT !.error = "None"] /\ UNCHANGED stream
  <2>1. info'.addrInSeg = i.addrInSeg
    BY <1>5 DEF InfoType
  <2>2. Passed' = k
    BY <1>1, <1>5 DEF Passed
  <2>3. HasListed(k, 0)'
    BY <1>1, <1>5, KeepsListed
  <2>4. Between'
    BY <1>1, <1>5, <2>1, <2>2, <2>3 DEF Between
  <2> QED
    BY <1>4, <1>5, <2>4 DEF Follows
<1>6. ASSUME NEW o \in Opcodes, info' = ReadOpcode(i, o), stream' = Append(stream, o),
             UNCHANGED atEnd
      PROVE  Follows'
  <2>1. /\ stream' \in Seq(Opcodes) /\ Len(stream') = k + 1 /\ Byte' = o
        /\ \A j \in 1..k : stream[j] = stream'[j]
    BY <1>1, <1>2, <1>6 DEF Byte
  <2>2. Passed' = k
    BY <1>1, <1>6, <2>1 DEF Passed
  <2>3. ~Astray(stream', k + 1) => info'.addrInSeg = CursorAt(stream', k)
    <3>1. CursorAt(stream', k) = CursorAt(stream, k)
      BY <1>1, <1>2, <2>1, CursorStays
    <3>2. k + 1 \in Int /\ \A j \in 1..((k + 1) - 1) : stream[j] = stream'[j]
      BY <2>1
    <3>3. Astray(stream, k + 1) <=> Astray(stream', k + 1)
      BY <3>2, AstrayStays
    <3> QED
      BY <1>1, <1>6, <3>1, <3>3, ReadsOperands
  <2>4. HasListed(k, 0)'
    <3>1. LocationsOf(stream', k) = LocationsOf(stream, k)
      BY <1>1, <1>2, <2>1, LocationsStay
    <3>2. 1..0 = {}
      OBVIOUS
    <3> QED
      BY <1>1, <3>1, <3>2 DEF HasListed
  <2>5. Between'
    BY <2>2, <2>3, <2>4 DEF Between
  <2>6. o.valid /\ Operands(info', o)
    <3>1. ReadError(o) = "None"
      BY <1>3, <1>6, ReadOpcodeFields
    <3>2. o.valid
      BY <3>1 DEF ReadError
    <3> QED
      BY <1>6, <3>2, ReadsOperands
  <2> QED
    BY <1>4, <2>1, <2>5, <2>6 DEF Follows
<1> QED
  BY <1>5, <1>6 DEF NextOpcode

LEMMA RepeatRebaseFollows ==
  ASSUME TypeInv, Regular, Follows, RepeatRebase, Regular'
  PROVE  Follows'
<1>1. pc = "advance" /\ last \in RunOpcodes /\ count # 0 /\ count' = ToUnsigned(count - 1)
      /\ UNCHANGED <<segAdd, addAmt, list>>
  BY DEF RepeatRebase
<1>2. PICK r \in Nat : InRun(r)
  BY <1>1 DEF Follows
<1>3. /\ ~atEnd /\ stream # <<>> /\ Byte.valid /\ Byte.op \in RunOpcodes /\ last = Byte.op
      /\ segAdd = 0 /\ addAmt = StepSize(Byte)
      /\ r \in 0..(Byte.n - 2) \/ (Byte.n = 1 /\ r = 0)
      /\ count = Byte.n - 1 - r
      /\ info.addrInSeg = CursorAt(stream, Len(stream) - 1) + r * StepSize(Byte)
      /\ HasListed(Len(stream) - 1, r + 1)
  BY <1>1, <1>2 DEF InRun
<1>a. PICK c, n, s : RunFacts(c, n, s)
  BY <1>3, RunBounds
<1>4. /\ c \in 0..SMax /\ n \in Nat /\ s \in Nat \ {0}
      /\ c = CursorAt(stream, Len(stream) - 1) /\ n = Byte.n /\ s = StepSize(Byte)
  BY <1>a DEF RunFacts
<1>b. n \in Nat /\ n > 1 /\ n <= UMax /\ UMax \in Nat
  <2>1. n > 0 /\ n <= UMax /\ UMax \in Nat
    BY <1>a DEF RunFacts, UMax, WidthAssumption
  <2>2. ASSUME n = 1 PROVE FALSE
    <3>1. r \in 0..(1 - 2) \/ r = 0
      BY <1>3, <1>4, <2>2
    <3>2. r = 0
      BY <3>1
    <3>3. count = 1 - 1 - 0
      BY <1>3, <1>4, <2>2, <3>2
    <3> QED
      BY <1>1, <3>3
  <2> QED
    BY <1>4, <2>1, <2>2
<1>c. /\ CursorAt(stream, Len(stream)) = c + n * s
      /\ \A q \in 0..n : q * s \in Nat /\ c + q * s \in 0..SMax /\ (q + 1) * s = q * s + s
  BY <1>a DEF RunFacts
<1>5. info \in InfoType /\ Byte \in Opcodes
  <2>1. Len(stream) \in 1..Len(stream) /\ stream \in Seq(Opcodes)
    BY <1>3 DEF TypeInv
  <2> QED
    BY <2>1 DEF TypeInv, Byte
<1>6. r \in 0..(n - 2) /\ r \in 0..n /\ r + 1 \in 0..n /\ r + 2 \in 0..n /\ r + 1 \in Nat
      /\ (r + 1) + 1 = r + 2
  <2>1. r \in 0..(n - 2)
    BY <1>3, <1>4, <1>b
  <2> QED
    BY <1>b, <2>1
<1>7. /\ info.addrInSeg + s = c + (r + 1) * s /\ c + (r + 1) * s \in 0..SMax
      /\ (c + (r + 1) * s) + s = c + (r + 2) * s /\ c + (r + 2) * s \in 0..SMax
  <2>1. r * s \in Nat /\ (r + 1) * s \in Nat /\ (r + 1) * s = r * s + s
        /\ c + (r + 1) * s \in 0..SMax
    BY <1>4, <1>c, <1>6
  <2>2. (r + 2) * s = (r + 1) * s + s /\ (r + 2) * s \in Nat /\ c + (r + 2) * s \in 0..SMax
    BY <1>4, <1>c, <1>6
  <2>3. info.addrInSeg = c + r * s
    BY <1>3, <1>4
  <2>4. \A x, y, z \in Int : y = x + s => (c + x) + s = c + y
    BY <1>4
  <2> QED
    BY <2>1, <2>2, <2>3, <2>4
<1>8. SMax <= UMax /\ 0..SMax \subseteq 0..UMax
  BY DEF SMax, UMax, WidthAssumption
<1>9. ToUnsigned(info.addrInSeg + addAmt) = c + (r + 1) * s
      /\ ToUnsigned((c + (r + 1) * s) + addAmt) = c + (r + 2) * s
  BY <1>3, <1>4, <1>7, <1>8, UnsignedSame
<1>10. count' = n - 1 - (r + 1)
  <2>1. count = n - 1 - r
    BY <1>3, <1>4
  <2>2. count - 1 = n - 1 - (r + 1) /\ count - 1 \in 0..UMax
    BY <1>1, <1>b, <1>6, <2>1
  <2> QED
    BY <1>1, <2>2, UnsignedSame
<1> DEFINE once == [info EXCEPT !.addrInSeg = ToUnsigned(@ + addAmt)]
           twice == [once EXCEPT !.addrInSeg = ToUnsigned(@ + addAmt)]
<1>11. once \in InfoType /\ once.addrInSeg = c + (r + 1) * s
  <2>1. c + (r + 1) * s \in 0..UMax
    BY <1>7, <1>8
  <2>2. once = [info EXCEPT !.addrInSeg = c + (r + 1) * s]
    BY <1>9
  <2> QED
    BY <1>5, <2>1, <2>2 DEF InfoType
<1>12. twice \in InfoType /\ twice.addrInSeg = c + (r + 2) * s
  <2>1. c + (r + 2) * s \in 0..UMax
    BY <1>7, <1>8
  <2>2. twice = [once EXCEPT !.addrInSeg = c + (r + 2) * s]
    BY <1>9, <1>11
  <2> HIDE DEF once
  <2> QED
    BY <1>11, <2>1, <2>2 DEF InfoType
<1>13. CASE count' # 0
  <2>1. /\ info' = [once EXCEPT !.error = "None"] /\ pc' = "list"
        /\ UNCHANGED <<stream, atEnd, last>>
    BY <1>13 DEF RepeatRebase
  <2>2. info' = [info EXCEPT !.addrInSeg = c + (r + 1) * s, !.error = "None"]
    BY <1>9, <2>1
  <2>3. info'.addrInSeg = c + (r + 1) * s /\ Operands(info', Byte)
    BY <1>3, <1>5, <2>2 DEF InfoType, Operands, Follows
  <2>4. r + 1 \in 0..(n - 2) /\ n - 1 - (r + 1) # 0
    BY <1>b, <1>6, <1>10, <1>13
  <2>5. Byte' = Byte
    BY <2>1 DEF Byte
  <2>6. HasListed(Len(stream) - 1, r + 1)'
    BY <1>1, <1>3, <2>1, KeepsListed
  <2>7. InRun(r + 1)'
    BY <1>1, <1>3, <1>4, <1>10, <2>1, <2>3, <2>4, <2>5, <2>6 DEF InRun
  <2> QED
    BY <1>1, <1>6, <2>1, <2>3, <2>5, <2>7 DEF Follows, RunOpcodes
<1>14. CASE count' = 0
  <2>1. last' = "SetKindImm" /\ NextOpcode(twice) /\ UNCHANGED pc
    BY <1>14 DEF RepeatRebase
  <2>2. r + 2 = n /\ r + 1 = n - 1
    BY <1>b, <1>6, <1>10, <1>14
  <2>3. HasListed(Len(stream), 0)
    <3>1. Len(ListedOf(c, Byte)) = n - 1
      <4>1. c \in Int /\ Byte.n > 1
        BY <1>4, <1>b
      <4> QED
        BY <1>3, <1>4, <1>5, <4>1, ListedOfFacts
    <3>2. Byte = stream[Len(stream)]
      BY DEF Byte
    <3> QED
      BY <1>3, <1>4, <2>2, <3>1, <3>2, OpcodeDone
  <2>4. twice.addrInSeg = CursorAt(stream, Len(stream))
    BY <1>c, <1>12, <2>2
  <2> HIDE DEF twice
  <2> QED
    BY <1>1, <1>3, <1>12, <2>1, <2>3, <2>4, NextFollows
<1> QED
  BY <1>13, <1>14

\* The current opcode moves the cursor.
LEMMA ByteMoves ==
  ASSUME TypeInv, stream # <<>>
  PROVE  /\ stream \in Seq(Opcodes) /\ Byte \in Opcodes /\ Byte = stream[Len(stream)]
         /\ Len(stream) - 1 \in 0..Len(stream) /\ Len(stream) \in 1..Len(stream)
         /\ (Len(stream) - 1) + 1 = Len(stream)
         /\ CursorAt(stream, Len(stream) - 1) \in Int
         /\ CursorAt(stream, Len(stream)) = Moved(CursorAt(stream, Len(stream) - 1), Byte)
<1>1. PICK k \in Nat \ {0} : k = Len(stream) /\ k \in 1..Len(stream) /\ k - 1 \in 0..Len(stream)
                             /\ (k - 1) + 1 = k
  BY DEF TypeInv
<1>2. stream \in Seq(Opcodes) /\ Byte = stream[k] /\ Byte \in Opcodes
  BY <1>1 DEF TypeInv, Byte
<1> QED
  BY <1>1, <1>2, CursorMoves

\* An opcode without a location is done at once.
LEMMA NoLocation ==
  ASSUME TypeInv, stream # <<>>, HasListed(Len(stream) - 1, 0),
         ~Byte.valid \/ Byte.op \notin RunOpcodes \cup {"DoRebaseAddAddrUleb"}
  PROVE  HasListed(Len(stream), 0)
<1>1. PICK c \in Int : c = CursorAt(stream, Len(stream) - 1)
  BY ByteMoves
<1>2. ListedOf(c, Byte) = <<>> /\ Byte = stream[Len(stream)]
  BY ByteMoves, ListedOfFacts
<1>3. Len(ListedOf(c, stream[Len(stream)])) = 0
  BY <1>2
<1> QED
  BY <1>1, <1>3, OpcodeDone

LEMMA FinalizeRebaseFollows ==
  ASSUME TypeInv, Regular, Follows, FinalizeRebase, Regular'
  PROVE  Follows'
<1>1. /\ pc = "advance" /\ last' = "SetKindImm" /\ segAdd' = 0
      /\ NextOpcode([info EXCEPT !.addrInSeg = ToUnsigned(@ + segAdd)])
      /\ UNCHANGED <<pc, list>>
      /\ last = "DoRebaseAddAddrUleb" \/ (last \in RunOpcodes /\ count = 0)
  BY DEF FinalizeRebase
<1>2. CASE last \in RunOpcodes /\ count = 0
  <2>1. PICK r \in Nat : InRun(r)
    BY <1>1, <1>2 DEF Follows
  <2>2. /\ ~atEnd /\ stream # <<>> /\ Byte.valid /\ Byte.op \in RunOpcodes /\ segAdd = 0
        /\ r \in 0..(Byte.n - 2) \/ (Byte.n = 1 /\ r = 0)
        /\ Byte.n - 1 - r = 0 /\ HasListed(Len(stream) - 1, r + 1)
    BY <1>1, <1>2, <2>1 DEF InRun
  <2>3. Byte.n = 1 /\ r = 0
    <3>1. Byte.n \in Int
      BY <2>2, ByteMoves, OpcodeFields
    <3> QED
      BY <2>2, <3>1
  <2>4. Astray(stream, Len(stream) + 1)
    <3>1. LosesPlace(stream[Len(stream)])
      BY <2>2, <2>3, ByteMoves DEF LosesPlace
    <3>2. Len(stream) \in Nat /\ Len(stream) >= 1
      BY <2>2, ByteMoves
    <3>3. stream[Len(stream)].op # "SetSegmentAndOffsetUleb"
      BY <2>2, ByteMoves DEF RunOpcodes
    <3> QED
      BY <3>1, <3>2, <3>3, AstrayGoesOn
  <2>5. HasListed(Len(stream), 0)
    <3>1. PICK c \in Int : c = CursorAt(stream, Len(stream) - 1)
      BY <2>2, ByteMoves
    <3>2. Len(ListedOf(c, stream[Len(stream)])) = 1
      BY <2>2, <2>3, ByteMoves, ListedOfFacts
    <3>3. HasListed(Len(stream) - 1, 1)
      BY <2>2, <2>3
    <3> QED
      BY <2>2, <3>1, <3>2, <3>3, OpcodeDone
  <2> DEFINE j == [info EXCEPT !.addrInSeg = ToUnsigned(@ + segAdd)]
  <2>6. j \in InfoType
    <3>1. info \in InfoType /\ info.addrInSeg \in 0..UMax
      BY DEF TypeInv, InfoType
    <3>2. info.addrInSeg + segAdd = info.addrInSeg
      BY <2>2, <3>1 DEF UMax, WidthAssumption
    <3>3. ToUnsigned(info.addrInSeg + segAdd) \in 0..UMax
      BY <3>1, <3>2, UnsignedSame
    <3> QED
      BY <3>1, <3>3 DEF InfoType
  <2>7. NextOpcode(j)
    BY <1>1
  <2> HIDE DEF j
  <2> QED
    BY <1>1, <2>2, <2>4, <2>5, <2>6, <2>7, NextFollows
<1> SUFFICES ASSUME last = "DoRebaseAddAddrUleb" PROVE Follows'
  BY <1>1, <1>2
<1>3. /\ ~atEnd /\ stream # <<>> /\ Byte.valid /\ Byte.op = "DoRebaseAddAddrUleb"
      /\ segAdd = Byte.n + PtrSize
      /\ info.addrInSeg = CursorAt(stream, Len(stream) - 1)
      /\ HasListed(Len(stream) - 1, 1)
  BY <1>1 DEF Follows, InAdd
<1>4. PICK c \in Int : c = CursorAt(stream, Len(stream) - 1)
  BY <1>3, ByteMoves
<1>5. PICK d \in 0..SMax : d = CursorAt(stream, Len(stream))
  BY <1>3, ByteMoves, CursorInSegment DEF Regular
<1>6. info.addrInSeg + segAdd = d
  <2>1. Byte.n \in Int
    BY <1>3, ByteMoves, OpcodeFields
  <2>2. d = c + Byte.n + PtrSize
    BY <1>3, <1>4, <1>5, ByteMoves DEF Moved, RunOpcodes
  <2> QED
    BY <1>3, <1>4, <2>1, <2>2 DEF WidthAssumption
<1>7. ToUnsigned(info.addrInSeg + segAdd) = d /\ d \in 0..UMax
  BY <1>5, <1>6, UnsignedSame DEF SMax, UMax, WidthAssumption
<1> DEFINE i == [info EXCEPT !.addrInSeg = ToUnsigned(@ + segAdd)]
<1>8. i \in InfoType /\ i.addrInSeg = d
  BY <1>7 DEF TypeInv, InfoType
<1>9. HasListed(Len(stream), 0)
  <2>1. Len(ListedOf(c, stream[Len(stream)])) = 1
    BY <1>3, ByteMoves, ListedOfFacts
  <2> QED
    BY <1>3, <1>4, <2>1, OpcodeDone
<1>10. NextOpcode(i)
  BY <1>1
<1> HIDE DEF i
<1> QED
  BY <1>1, <1>3, <1>5, <1>8, <1>9, <1>10, NextFollows

\* A stream is not regular once an error is found.
LEMMA ErrorIsIrregular ==
  ASSUME NEW e, e # "None", info \in InfoType, info' = [info EXCEPT !.error = e]
  PROVE  ~Regular'
BY DEF InfoType, Regular, NoErrorYet

LEMMA ScanSetupFollows ==
  ASSUME TypeInv, Regular, Follows, ScanSetup, Regular'
  PROVE  Follows'
<1>1. /\ pc = "advance" /\ last = "SetKindImm" /\ ~atEnd /\ stream # <<>>
      /\ UNCHANGED <<pc, last, segAdd, list>>
      /\ Byte.op \in {"SetKindImm", "SetSegmentAndOffsetUleb"}
  BY DEF ScanSetup, Scanning, TypeInv
<1>2. Between /\ Passed = Len(stream) - 1 /\ Operands(info, Byte)
      /\ (Byte.valid \/ Len(stream) = 1)
  BY <1>1 DEF Follows, Passed
<1>3. HasListed(Len(stream), 0)
  BY <1>1, <1>2, NoLocation DEF Between, RunOpcodes
<1>4. PICK c \in Int : c = CursorAt(stream, Len(stream) - 1)
  BY <1>1, ByteMoves
<1>5. /\ CursorAt(stream, Len(stream)) = Moved(c, Byte) /\ segAdd = 0
      /\ ~Astray(stream, Len(stream)) => info.addrInSeg = c
  BY <1>1, <1>2, <1>4, ByteMoves DEF Between
<1>6. info \in InfoType
  BY DEF TypeInv
<1>7. CASE Byte.op = "SetKindImm"
  <2>1. NextOpcode(info)
    BY <1>7 DEF ScanSetup
  <2>2. Moved(c, Byte) = c
    BY <1>7 DEF Moved, RunOpcodes
  <2>3. ~Astray(stream, Len(stream) + 1) => info.addrInSeg = CursorAt(stream, Len(stream))
    <3>1. ~Astray(stream, Len(stream) + 1) => ~Astray(stream, Len(stream))
      BY <1>1, <1>7, ByteMoves, AstrayGoesOn
    <3> QED
      BY <1>5, <2>2, <3>1
  <2> QED
    BY <1>1, <1>3, <1>5, <1>6, <2>1, <2>3, NextFollows
<1>8. CASE Byte.op = "SetSegmentAndOffsetUleb"
  <2> DEFINE i == [info EXCEPT !.addrInSeg = info.segOffset]
  <2>1. NextOpcode(i)
    BY <1>8 DEF ScanSetup
  <2>2. i \in InfoType /\ i.addrInSeg = info.segOffset
    BY <1>6 DEF InfoType
  <2>3. info.segOffset = Moved(c, Byte)
    <3>1. CASE Byte.valid
      BY <1>2, <1>8, <3>1 DEF Operands, Moved, RunOpcodes
    <3>2. CASE ~Byte.valid
      <4>1. Len(stream) - 1 = 0
        BY <1>2, <3>2
      <4>2. c = 0
        BY <1>1, <1>4, <4>1, ByteMoves, CursorMoves
      <4> QED
        BY <1>2, <3>2, <4>2 DEF Operands, Moved, RunOpcodes
    <3> QED
      BY <3>1, <3>2
  <2> HIDE DEF i
  <2> QED
    BY <1>1, <1>3, <1>5, <2>1, <2>2, <2>3, NextFollows
<1> QED
  BY <1>1, <1>7, <1>8

\* A scale cannot be rejected.
LEMMA ScaledIsValid == \A o \in Opcodes : o.op = "AddAddrImmScaled" => o.valid
BY DEF Opcodes, Opcode, UlebOpcodes

LEMMA ScanAddAddrFollows ==
  ASSUME TypeInv, Regular, Follows, ScanAddAddr, Regular'
  PROVE  Follows'
<1> DEFINE add == IF Byte.op = "AddAddrImmScaled"
                  THEN ToUnsigned(info.skip * PtrSize) ELSE ToSigned(info.addAddr)
           sum == info.addrInSeg + add
           i == [info EXCEPT !.addrInSeg = sum]
<1>1. /\ pc = "advance" /\ last = "SetKindImm" /\ ~atEnd /\ stream # <<>>
      /\ UNCHANGED <<last, segAdd, list>>
      /\ Byte.op \in {"AddAddrImmScaled", "AddAddrUleb"}
      /\ \/ AddressFits(sum) /\ NextOpcode(i) /\ UNCHANGED pc
         \/ Yield("OutOfBoundsSegmentAddr")
  BY DEF ScanAddAddr, Scanning, TypeInv
<1>2. info \in InfoType
  BY DEF TypeInv
<1>3. AddressFits(sum) /\ NextOpcode(i) /\ UNCHANGED pc
  <2>1. ~Yield("OutOfBoundsSegmentAddr")
    BY <1>2, ErrorIsIrregular DEF Yield
  <2> QED
    BY <1>1, <2>1
<1>4. Between /\ Passed = Len(stream) - 1 /\ Operands(info, Byte)
  BY <1>1 DEF Follows, Passed
<1>5. HasListed(Len(stream), 0)
  BY <1>1, <1>4, NoLocation DEF Between, RunOpcodes
<1>6. PICK c \in 0..SMax : c = CursorAt(stream, Len(stream) - 1)
  BY <1>1, ByteMoves, CursorInSegment DEF Regular
<1>7. info.addrInSeg = c /\ segAdd = 0
  <2>1. ~Astray(stream, Len(stream))
    BY <1>1, ByteMoves DEF Regular, KeepsPlace
  <2> QED
    BY <1>1, <1>4, <1>6, <2>1, ByteMoves DEF Between
<1>8. PICK d \in 0..SMax : d = CursorAt(stream, Len(stream)) /\ d = Moved(c, Byte)
  BY <1>1, <1>6, ByteMoves, CursorInSegment DEF Regular
<1>9. Byte \in Opcodes /\ Byte.n \in Int /\ (Byte.op = "AddAddrImmScaled" => Byte.valid)
  BY <1>1, ByteMoves, OpcodeFields, ScaledIsValid
<1>10. c + add = d
  <2>1. CASE Byte.op = "AddAddrImmScaled"
    <3>1. info.skip = Byte.n /\ d = c + Byte.n * PtrSize
      BY <1>4, <1>8, <1>9, <2>1 DEF Operands, Moved, RunOpcodes
    <3>2. Byte.n * PtrSize \in Nat
      <4>1. Byte.n \in Nat /\ PtrSize \in Nat
        BY <1>9, <2>1, OpcodeFields DEF UMax, WidthAssumption
      <4> QED
        BY <4>1, ProductGrows
    <3>3. Byte.n * PtrSize \in 0..UMax
      BY <1>6, <1>8, <3>1, <3>2 DEF SMax, UMax, WidthAssumption
    <3>4. add = Byte.n * PtrSize
      BY <2>1, <3>1, <3>3, UnsignedSame
    <3> QED
      BY <3>1, <3>4
  <2>2. CASE Byte.op = "AddAddrUleb" /\ Byte.valid
    <3>1. info.addAddr = Byte.n /\ d = c + Byte.n
      BY <1>4, <1>8, <2>2 DEF Operands, Moved, RunOpcodes
    <3>2. Byte.n \in (-SMax - 1)..SMax
      BY <1>9, <2>2, OpcodeRanges
    <3>3. add = Byte.n
      BY <2>2, <3>1, <3>2, SignedSame
    <3> QED
      BY <3>1, <3>3
  <2>3. CASE Byte.op = "AddAddrUleb" /\ ~Byte.valid
    <3>1. info.addAddr = 0 /\ d = c
      BY <1>4, <1>8, <2>3 DEF Operands, Moved, RunOpcodes
    <3>2. 0 \in (-SMax - 1)..SMax
      BY DEF SMax, WidthAssumption
    <3>3. add = 0
      BY <2>3, <3>1, <3>2, SignedSame
    <3> QED
      BY <1>6, <3>1, <3>3
  <2> QED
    BY <1>1, <1>9, <2>1, <2>2, <2>3
<1> HIDE DEF add
<1>11. sum = d /\ d \in 0..UMax
  BY <1>7, <1>8, <1>10 DEF SMax, UMax, WidthAssumption
<1> HIDE DEF sum
<1>12. i \in InfoType /\ i.addrInSeg = d
  BY <1>2, <1>11 DEF InfoType
<1> HIDE DEF i
<1> QED
  BY <1>1, <1>3, <1>5, <1>7, <1>8, <1>12, NextFollows

\* What does not change leaves all as it was.
LEMMA FollowsStays ==
  ASSUME UNCHANGED <<stream, atEnd, info, last, segAdd, addAmt, count, list>>, UNCHANGED pc
  PROVE  Follows' = Follows /\ Regular' = Regular
<1>1. Byte' = Byte
  BY DEF Byte
<1>2. Between' = Between
  BY DEF Between, Passed, HasListed
<1>3. InAdd' = InAdd
  BY <1>1 DEF InAdd, HasListed
<1>4. \A r : InRun(r)' = InRun(r)
  BY <1>1 DEF InRun, HasListed
<1>5. HasListed(Len(stream), 0)' = HasListed(Len(stream), 0)
  BY DEF HasListed
<1>6. Regular' = Regular
  BY DEF Regular, NoErrorYet
<1> QED
  BY <1>1, <1>2, <1>3, <1>4, <1>5, <1>6 DEF Follows

\* An opcode that rebases and is accepted has its operands.
LEMMA AcceptedIsValid ==
  ASSUME Operands(info, Byte), TypeInv, CheckIfCanRebase = "None"
  PROVE  Byte.valid
BY DEF Operands, CheckIfCanRebase, TypeInv, InfoType

LEMMA ScanRebaseAddAddrFollows ==
  ASSUME TypeInv, Regular, Follows, ScanRebaseAddAddr, Regular'
  PROVE  Follows'
<1> DEFINE add == ToSigned(info.addAddr)
           afterAdd == AddChange(segAdd, add)
<1>1. /\ pc = "advance" /\ last = "SetKindImm" /\ ~atEnd /\ stream # <<>> /\ info \in InfoType
      /\ info.error = "None"
      /\ UNCHANGED <<stream, atEnd, addAmt, count, list>>
      /\ Byte.op = "DoRebaseAddAddrUleb"
  BY DEF ScanRebaseAddAddr, Scanning, TypeInv
<1>2. CheckIfCanRebase = "None"
  <2>1. CheckIfCanRebase # "None" => Yield(CheckIfCanRebase)
    BY DEF ScanRebaseAddAddr
  <2> QED
    BY <1>1, <2>1, ErrorIsIrregular DEF Yield
<1>3. ~AddChangeFails(segAdd, add)
  <2>1. AddChangeFails(segAdd, add) => Yield("OutOfBoundsSegmentAddr")
    BY <1>2 DEF ScanRebaseAddAddr
  <2> QED
    BY <1>1, <2>1, ErrorIsIrregular DEF Yield
<1>4. /\ segAdd' = AddChange(afterAdd, PtrSize)
      /\ last' = IF AddChangeFails(afterAdd, PtrSize) THEN last ELSE Byte.op
      /\ Yield("None")
  BY <1>2, <1>3 DEF ScanRebaseAddAddr
<1>5. Between /\ Passed = Len(stream) - 1 /\ Operands(info, Byte)
  BY <1>1 DEF Follows, Passed
<1>6. Byte.valid /\ info.addAddr = Byte.n
  <2>1. Byte.valid
    BY <1>2, <1>5, AcceptedIsValid
  <2> QED
    BY <1>1, <1>5, <2>1 DEF Operands
<1>7. PICK c \in 0..SMax : c = CursorAt(stream, Len(stream) - 1)
  BY <1>1, ByteMoves, CursorInSegment DEF Regular
<1>8. info.addrInSeg = c /\ segAdd = 0 /\ HasListed(Len(stream) - 1, 0)
  <2>1. ~Astray(stream, Len(stream))
    BY <1>1, ByteMoves DEF Regular, KeepsPlace
  <2> QED
    BY <1>1, <1>5, <1>7, <2>1, ByteMoves DEF Between
<1>9. PICK d \in 0..SMax : d = CursorAt(stream, Len(stream)) /\ d = Moved(c, Byte) /\ d >= PtrSize
  <2>1. CursorAt(stream, Len(stream)) >= PtrSize
    BY <1>1, ByteMoves DEF Regular, WithinSegment
  <2> QED
    BY <1>1, <1>7, <2>1, ByteMoves, CursorInSegment DEF Regular
<1>10. PICK n \in (-SMax - 1)..SMax : n = Byte.n
  BY <1>1, ByteMoves, OpcodeRanges
<1>11. d = c + n + PtrSize
  BY <1>1, <1>6, <1>9, <1>10 DEF Moved, RunOpcodes
<1>12. add = n
  BY <1>6, <1>10, SignedSame
<1> HIDE DEF add
<1>13. afterAdd = n
  BY <1>8, <1>10, <1>12 DEF AddChange, FitsSigned, SMax, WidthAssumption
<1> HIDE DEF afterAdd
<1>14. segAdd' = n + PtrSize /\ ~AddChangeFails(afterAdd, PtrSize)
  <2>1. n + PtrSize \in (-SMax - 1)..SMax /\ c + n + PtrSize \in (-SMax - 1)..SMax
    BY <1>9, <1>10, <1>11 DEF SMax, WidthAssumption
  <2> QED
    BY <1>4, <1>8, <1>13, <2>1 DEF AddChange, AddChangeFails, FitsSigned
<1>15. last' = Byte.op /\ pc' = "list" /\ info' = info
  <2>1. [info EXCEPT !.error = "None"] = info
    BY <1>1 DEF InfoType
  <2> QED
    BY <1>4, <1>14, <2>1 DEF Yield
<1>16. Byte' = Byte /\ HasListed(Len(stream) - 1, 0)'
  BY <1>1, <1>8, KeepsListed DEF Byte
<1>17. InAdd'
  BY <1>1, <1>6, <1>7, <1>8, <1>10, <1>14, <1>15, <1>16 DEF InAdd
<1> QED
  BY <1>1, <1>5, <1>6, <1>15, <1>16, <1>17 DEF Follows, RunOpcodes

LEMMA ScanRebaseTimesFollows ==
  ASSUME TypeInv, Regular, Follows, ScanRebaseTimes, Regular'
  PROVE  Follows'
<1> DEFINE isSkip == Byte.op = "DoRebaseUlebTimesSkipUleb"
           n == ToUnsigned(info.addAddr)
           step == IF isSkip THEN PtrSize + info.skip ELSE PtrSize
           fails == Yield(IF CheckIfCanRebase # "None" THEN CheckIfCanRebase
                          ELSE "OutOfBoundsSegmentAddr")
<1>1. /\ pc = "advance" /\ last = "SetKindImm" /\ ~atEnd /\ stream # <<>> /\ info \in InfoType
      /\ info.error = "None"
      /\ UNCHANGED <<stream, atEnd, segAdd, list>>
      /\ Byte.op \in RunOpcodes
  BY DEF ScanRebaseTimes, Scanning, TypeInv
<1>2. \/ fails
      \/ /\ CheckIfCanRebase = "None"
         /\ last' = Byte.op /\ addAmt' = step /\ count' = ToUnsigned(n - 1) /\ Yield("None")
  BY DEF ScanRebaseTimes
<1>3. ~fails
  BY <1>1, ErrorIsIrregular DEF Yield
<1>4. /\ CheckIfCanRebase = "None"
      /\ last' = Byte.op /\ addAmt' = step /\ count' = ToUnsigned(n - 1) /\ Yield("None")
  BY <1>2, <1>3
<1>5. Between /\ Passed = Len(stream) - 1 /\ Operands(info, Byte)
  BY <1>1 DEF Follows, Passed
<1>6. Byte.valid
  BY <1>4, <1>5, AcceptedIsValid
<1>7. PICK c, t, s : RunFacts(c, t, s)
  BY <1>1, <1>6, RunBounds
<1>8. /\ t \in Nat /\ t > 0 /\ t \in 0..UMax /\ t = Byte.n /\ s = StepSize(Byte)
      /\ s \in Nat /\ c \in 0..SMax /\ c = CursorAt(stream, Len(stream) - 1)
      /\ Byte.m \in 0..SMax
  BY <1>7 DEF RunFacts
<1>9. info.addrInSeg = c /\ segAdd = 0 /\ HasListed(Len(stream) - 1, 0)
  <2>1. ~Astray(stream, Len(stream))
    BY <1>1, ByteMoves DEF Regular, KeepsPlace
  <2> QED
    BY <1>1, <1>5, <1>8, <2>1, ByteMoves DEF Between
<1>10. n = t
  <2>1. info.addAddr = t
    BY <1>1, <1>5, <1>6, <1>8 DEF Operands
  <2> QED
    BY <1>8, <2>1, UnsignedSame
<1>11. count' = t - 1 - 0
  <2>1. t - 1 \in 0..UMax
    BY <1>8 DEF UMax, WidthAssumption
  <2> QED
    BY <1>4, <1>8, <1>10, <2>1, UnsignedSame
<1>12. addAmt' = StepSize(Byte)
  <2>1. CASE isSkip
    <3>1. info.skip = ToUnsigned(Byte.m)
      BY <1>5, <1>6, <2>1 DEF Operands
    <3>2. Byte.m \in 0..UMax
      BY <1>8 DEF SMax, UMax, WidthAssumption
    <3>3. info.skip = Byte.m
      BY <3>1, <3>2, UnsignedSame
    <3> QED
      BY <1>4, <2>1, <3>3 DEF StepSize
  <2>2. CASE ~isSkip
    BY <1>4, <2>2 DEF StepSize
  <2> QED
    BY <2>1, <2>2
<1>13. pc' = "list" /\ info' = info
  <2>1. [info EXCEPT !.error = "None"] = info
    BY <1>1 DEF InfoType
  <2> QED
    BY <1>4, <2>1 DEF Yield
<1>14. Byte' = Byte /\ HasListed(Len(stream) - 1, 0)'
  BY <1>1, <1>9, KeepsListed DEF Byte
<1>15. (0 \in 0..(t - 2) \/ t = 1) /\ c = c + 0 * s
  BY <1>8
<1>16. InRun(0)'
  <2>1. info'.addrInSeg = CursorAt(stream, Len(stream) - 1) + 0 * StepSize(Byte)
    BY <1>8, <1>9, <1>13, <1>15
  <2>2. (0 \in 0..(Byte.n - 2) \/ (Byte.n = 1 /\ 0 = 0)) /\ count' = Byte.n - 1 - 0
    BY <1>8, <1>11, <1>15
  <2> QED
    BY <1>1, <1>4, <1>6, <1>9, <1>12, <1>13, <1>14, <2>1, <2>2 DEF InRun
<1>17. \E r \in Nat : InRun(r)'
  BY <1>16
<1> HIDE DEF step, n, fails
<1> QED
  BY <1>1, <1>4, <1>5, <1>6, <1>13, <1>14, <1>17 DEF Follows, RunOpcodes

LEMMA ScanEndFollows ==
  ASSUME TypeInv, Follows, ScanEnd
  PROVE  Follows'
<1>1. /\ pc = "advance" /\ last = "SetKindImm" /\ atEnd /\ last' = "Done" /\ pc' = "done"
      /\ UNCHANGED <<stream, atEnd, info, segAdd, addAmt, count, list>>
  BY DEF ScanEnd
<1>2. HasListed(Len(stream), 0)
  BY <1>1 DEF Follows, Between, Passed
<1>3. HasListed(Len(stream), 0)'
  BY <1>1, <1>2 DEF HasListed
<1> QED
  BY <1>1, <1>3 DEF Follows, RunOpcodes

LEMMA ListActionFollows ==
  ASSUME TypeInv, Regular, Follows, ListAction
  PROVE  Follows'
<1>1. /\ pc = "list" /\ pc' = "advance" /\ list' = Listed
      /\ UNCHANGED <<stream, atEnd, info, last, segAdd, addAmt, count>>
      /\ last \in RunOpcodes \cup {"DoRebaseAddAddrUleb"}
  BY DEF ListAction, Follows
<1>2. Byte' = Byte
  BY <1>1 DEF Byte
<1>3. CASE last \in RunOpcodes
  <2>1. PICK r \in Nat : InRun(r)
    BY <1>1, <1>3 DEF Follows
  <2>2. /\ ~atEnd /\ stream # <<>> /\ Byte.valid /\ Byte.op \in RunOpcodes /\ last = Byte.op
        /\ segAdd = 0 /\ addAmt = StepSize(Byte)
        /\ r \in 0..(Byte.n - 2) \/ (Byte.n = 1 /\ r = 0)
        /\ count = Byte.n - 1 - r
        /\ info.addrInSeg = CursorAt(stream, Len(stream) - 1) + r * StepSize(Byte)
        /\ HasListed(Len(stream) - 1, r)
    BY <1>1, <2>1 DEF InRun
  <2>3. PICK c, n, s : RunFacts(c, n, s)
    BY <2>2, RunBounds
  <2>4. /\ n \in Nat /\ n > 0 /\ n = Byte.n /\ c = CursorAt(stream, Len(stream) - 1)
        /\ c \in Int /\ s = StepSize(Byte) /\ s \in Nat
    BY <2>3 DEF RunFacts
  <2>6. ListedOf(c, Byte)[r + 1] = c + r * s
    <3>1. CASE n = 1
      <4>1. r = 0 /\ r + 1 = 1 /\ c + r * s = c
        BY <2>2, <2>4, <3>1
      <4>2. ListedOf(c, Byte)[1] = c
        <5>1. Byte \in Opcodes /\ Byte.valid /\ Byte.op \in RunOpcodes /\ Byte.n = 1 /\ c \in Int
          BY <2>2, <2>4, <3>1, ByteMoves
        <5> QED
          BY <5>1, ListedOfFacts
      <4> QED
        BY <4>1, <4>2
    <3>2. CASE n > 1
      <4>1. r + 1 \in 1..(n - 1) /\ (r + 1) - 1 = r
        <5>1. r \in 0..(n - 2)
          BY <2>2, <2>4, <3>2
        <5> QED
          BY <2>4, <5>1
      <4>2. \A i \in 1..(n - 1) : ListedOf(c, Byte)[i] = c + (i - 1) * s
        <5>1. Byte \in Opcodes /\ Byte.valid /\ Byte.op \in RunOpcodes /\ Byte.n > 1
          BY <2>2, <2>4, <3>2, ByteMoves
        <5>2. \A i \in 1..(Byte.n - 1) : ListedOf(c, Byte)[i] = c + (i - 1) * StepSize(Byte)
          BY <2>4, <5>1, ListedOfFacts
        <5> QED
          BY <2>4, <5>2, Zenon
      <4>3. ListedOf(c, Byte)[r + 1] = c + ((r + 1) - 1) * s
        BY <4>1, <4>2
      <4> QED
        BY <4>1, <4>3
    <3> QED
      BY <2>4, <3>1, <3>2
  <2>7. info.addrInSeg = ListedOf(c, Byte)[r + 1]
    BY <2>2, <2>4, <2>6
  <2>8. HasListed(Len(stream) - 1, r + 1)'
    <3>1. PICK q : q = Len(stream) - 1
      OBVIOUS
    <3>2. q \in 0..Len(stream) /\ Byte = stream[q + 1] /\ c = CursorAt(stream, q)
      BY <2>2, <2>4, <3>1, ByteMoves
    <3>3. HasListed(q, r) /\ info.addrInSeg = ListedOf(CursorAt(stream, q), stream[q + 1])[r + 1]
      BY <2>2, <2>7, <3>1, <3>2
    <3>4. HasListed(q, r + 1)'
      BY <1>1, <3>2, <3>3, ListsNext
    <3> QED
      BY <1>1, <3>1, <3>4 DEF HasListed
  <2>9. InRun(r)'
    BY <1>1, <1>2, <2>2, <2>8 DEF InRun
  <2> QED
    BY <1>1, <1>2, <1>3, <2>2, <2>9 DEF Follows, RunOpcodes
<1>4. CASE last = "DoRebaseAddAddrUleb"
  <2>1. /\ ~atEnd /\ stream # <<>> /\ Byte.valid /\ Byte.op = "DoRebaseAddAddrUleb"
        /\ info.addrInSeg = CursorAt(stream, Len(stream) - 1)
        /\ HasListed(Len(stream) - 1, 0)
    BY <1>1, <1>4 DEF Follows, InAdd
  <2>2. PICK c \in Int : c = CursorAt(stream, Len(stream) - 1)
    BY <2>1, ByteMoves
  <2>3. info.addrInSeg = ListedOf(c, Byte)[1]
    BY <2>1, <2>2, ByteMoves, ListedOfFacts
  <2>4. HasListed(Len(stream) - 1, 1)'
    <3>1. PICK q : q = Len(stream) - 1
      OBVIOUS
    <3>2. q \in 0..Len(stream) /\ Byte = stream[q + 1] /\ c = CursorAt(stream, q)
      BY <2>1, <2>2, <3>1, ByteMoves
    <3>3. HasListed(q, 0) /\ info.addrInSeg = ListedOf(CursorAt(stream, q), stream[q + 1])[0 + 1]
      BY <2>1, <2>3, <3>1, <3>2
    <3>4. HasListed(q, 0 + 1)'
      BY <1>1, <3>2, <3>3, ListsNext
    <3>5. 0 + 1 = 1 /\ q = (Len(stream) - 1)'
      BY <1>1, <3>1
    <3> QED
      BY <3>4, <3>5 DEF HasListed
  <2>5. InAdd'
    BY <1>1, <1>2, <1>4, <2>1, <2>4 DEF InAdd, Follows
  <2> QED
    BY <1>1, <1>2, <1>4, <2>1, <2>5 DEF Follows, RunOpcodes
<1> QED
  BY <1>1, <1>3, <1>4

LEMMA AddressInvInit == Init => AddressInv
<1> SUFFICES ASSUME Init
             PROVE  Follows
  BY DEF AddressInv, Init
<1>1. pc = "advance" /\ last = "SetKindImm" /\ segAdd = 0 /\ list = <<>> /\ TypeInv
  BY TypeInvInit DEF Init
<1>2. InitInfo \in InfoType /\ InitInfo.addrInSeg = 0
  BY DEF InitInfo, InfoType, Errors, NoWriteKind, WidthAssumption, UMax
<1>3. ASSUME NEW o \in Opcodes, stream = <<o>>, atEnd = FALSE,
             info = [ReadOpcode(InitInfo, o) EXCEPT !.error = "None"]
      PROVE  Passed = 0 /\ info.addrInSeg = 0 /\ Byte = o /\ Len(stream) = 1 /\ Operands(info, o)
  <2>1. Passed = 0 /\ Byte = o /\ Len(stream) = 1
    BY <1>3 DEF Passed, Byte
  <2> DEFINE i == ReadOpcode(InitInfo, o)
  <2>2. i \in InfoType
    BY <1>2, ReadOpcodeFields
  <2>3. i.addrInSeg = 0 /\ (o.valid => Operands(i, o))
        /\ (~o.valid => i = [InitInfo EXCEPT !.error = ReadError(o)])
    BY <1>2, ReadsOperands
  <2>4. info = [i EXCEPT !.error = "None"]
    BY <1>3
  <2>5. Operands(i, o)
    BY <2>3 DEF Operands, InitInfo
  <2> HIDE DEF i
  <2>6. info.addrInSeg = 0 /\ info.segOffset = i.segOffset /\ info.skip = i.skip
        /\ info.addAddr = i.addAddr /\ info.hasSegment = i.hasSegment
    BY <2>2, <2>3, <2>4 DEF InfoType
  <2> QED
    BY <2>1, <2>5, <2>6 DEF Operands
<1>4. Passed = 0 /\ info.addrInSeg = 0
      /\ (~atEnd => Operands(info, Byte) /\ (Byte.valid \/ Len(stream) = 1))
  <2>1. CASE stream = <<>> /\ atEnd = TRUE /\ info = InitInfo
    BY <1>2, <2>1 DEF Passed
  <2> QED
    BY <1>3, <2>1 DEF Init
<1>5. Between
  <2>1. CursorAt(stream, 0) = 0 /\ LocationsOf(stream, 0) = <<>>
    BY <1>1, CursorMoves, LocationsGrow DEF TypeInv
  <2>2. HasListed(0, 0)
    BY <1>1, <2>1 DEF HasListed
  <2> QED
    BY <1>1, <1>4, <2>1, <2>2 DEF Between
<1> QED
  BY <1>1, <1>4, <1>5 DEF Follows, RunOpcodes

\* The steps that end or list an error leave no regular stream.
LEMMA ErrorsAreIrregular ==
  ASSUME TypeInv, ScanError \/ ScanUnrecognized \/ ListIgnoredError \/ StopAtError
  PROVE  ~Regular'
<1>1. CASE ScanError \/ ScanUnrecognized
  <2>1. info \in InfoType
    BY DEF TypeInv
  <2> QED
    BY <1>1, <2>1, ErrorIsIrregular DEF ScanError, ScanUnrecognized, Yield
<1>2. CASE StopAtError
  BY <1>2 DEF StopAtError, CanIgnoreError, Regular, NoErrorYet
<1>3. CASE ListIgnoredError
  <2> DEFINE e == [addr |-> info.addrInSeg, error |-> info.error, at |-> Len(stream)]
  <2>1. list' = Append(list, e) /\ e.error # "None" /\ list \in Seq(EntryType)
    BY <1>3 DEF ListIgnoredError, Listed, TypeInv
  <2> HIDE DEF e
  <2>2. Len(list') \in 1..Len(list') /\ list'[Len(list')] = e
    BY <2>1
  <2> QED
    BY <2>1, <2>2 DEF Regular, NoErrorYet
<1> QED
  BY <1>1, <1>2, <1>3

\* While LastByte has an opcode there is no error.
LEMMA LastHasNoError ==
  ASSUME TypeInv, pc = "advance" /\ last # "SetKindImm" => info.error = "None", [Next]_vars
  PROVE  (pc = "advance" /\ last # "SetKindImm" => info.error = "None")'
<1>0. info \in InfoType /\ "None" \in Errors
  BY DEF TypeInv, Errors
<1>1. CASE RepeatRebase \/ FinalizeRebase
  BY <1>1 DEF RepeatRebase, FinalizeRebase
<1>2. CASE ScanError \/ ScanUnrecognized \/ ScanSetup \/ ScanAddAddr
  BY <1>2 DEF ScanError, ScanUnrecognized, ScanSetup, ScanAddAddr, Scanning, Yield
<1>3. CASE ScanRebaseAddAddr
  BY <1>3 DEF ScanRebaseAddAddr, Yield
<1>4. CASE ScanRebaseTimes
  BY <1>4 DEF ScanRebaseTimes, Yield
<1>5. CASE ScanEnd \/ StopAtError
  BY <1>5 DEF ScanEnd, StopAtError
<1>6. CASE ListAction
  BY <1>6 DEF ListAction
<1>7. CASE ListIgnoredError
  <2>1. ASSUME NEW o \in Opcodes, info' = [ReadOpcode(info, o) EXCEPT !.error = "None"]
        PROVE  info'.error = "None"
    BY <1>0, <2>1, ReadOpcodeFields DEF InfoType
  <2>2. CASE info' = [info EXCEPT !.error = "None"]
    BY <1>0, <2>2 DEF InfoType
  <2> QED
    BY <1>7, <2>1, <2>2 DEF ListIgnoredError
<1>8. CASE Finished \/ UNCHANGED vars
  BY <1>8 DEF Finished, vars
<1> QED
  BY <1>1, <1>2, <1>3, <1>4, <1>5, <1>6, <1>7, <1>8 DEF Next, Advance, GetAsList

\* Each step leaves the stream and the list as they were or adds to them.
LEMMA StreamGrows ==
  ASSUME [Next]_vars
  PROVE  /\ UNCHANGED stream \/ \E o \in Opcodes : stream' = Append(stream, o)
         /\ UNCHANGED list \/ list' = Listed
<1>1. CASE RepeatRebase \/ FinalizeRebase \/ ScanSetup
  BY <1>1 DEF RepeatRebase, FinalizeRebase, ScanSetup, NextOpcode
<1>2. CASE ScanError \/ ScanUnrecognized \/ ScanRebaseAddAddr \/ ScanRebaseTimes \/ ScanEnd
  BY <1>2 DEF ScanError, ScanUnrecognized, ScanRebaseAddAddr, ScanRebaseTimes, ScanEnd
<1>3. CASE ScanAddAddr
  BY <1>3 DEF ScanAddAddr, NextOpcode
<1>4. CASE ListAction \/ ListIgnoredError \/ StopAtError
  BY <1>4 DEF ListAction, ListIgnoredError, StopAtError
<1>5. CASE Finished \/ UNCHANGED vars
  BY <1>5 DEF Finished, vars
<1> QED
  BY <1>1, <1>2, <1>3, <1>4, <1>5 DEF Next, Advance, GetAsList

LEMMA AddressInvStep == TypeInv /\ AddressInv /\ [Next]_vars => AddressInv'
<1> SUFFICES ASSUME TypeInv, AddressInv, [Next]_vars
             PROVE  AddressInv'
  OBVIOUS
<1>1. (pc = "advance" /\ last # "SetKindImm" => info.error = "None")'
  BY LastHasNoError DEF AddressInv
<1>2. ASSUME Regular' PROVE Follows'
  <2>1. info.error = "None" => Regular /\ Follows
    BY <1>2, StreamGrows, RegularBefore DEF AddressInv
  <2>2. CASE RepeatRebase \/ FinalizeRebase
    <3>1. pc = "advance" /\ last # "SetKindImm"
      BY <2>2 DEF RepeatRebase, FinalizeRebase, RunOpcodes
    <3> QED
      BY <1>2, <2>1, <2>2, <3>1, RepeatRebaseFollows, FinalizeRebaseFollows DEF AddressInv
  <2>3. CASE ScanSetup \/ ScanAddAddr \/ ScanRebaseAddAddr \/ ScanRebaseTimes
    <3>1. info.error = "None"
      BY <2>3 DEF ScanSetup, ScanAddAddr, ScanRebaseAddAddr, ScanRebaseTimes
    <3> QED
      BY <1>2, <2>1, <2>3, <3>1, ScanSetupFollows, ScanAddAddrFollows,
         ScanRebaseAddAddrFollows, ScanRebaseTimesFollows
  <2>4. CASE ScanError \/ ScanUnrecognized \/ ListIgnoredError \/ StopAtError
    BY <1>2, <2>4, ErrorsAreIrregular
  <2>5. CASE ScanEnd
    <3>1. UNCHANGED <<stream, list, info>>
      BY <2>5 DEF ScanEnd
    <3>2. info.error = "None"
      BY <1>2, <3>1 DEF Regular, NoErrorYet
    <3> QED
      BY <2>1, <2>5, <3>2, ScanEndFollows
  <2>6. CASE ListAction
    <3>1. info.error = "None"
      BY <2>6 DEF ListAction
    <3> QED
      BY <2>1, <2>6, <3>1, ListActionFollows
  <2>7. CASE Finished \/ UNCHANGED vars
    <3>1. UNCHANGED <<stream, atEnd, info, last, segAdd, addAmt, count, list>> /\ UNCHANGED pc
      BY <2>7 DEF Finished, vars
    <3> QED
      BY <1>2, <3>1, FollowsStays DEF AddressInv
  <2> QED
    BY <2>2, <2>3, <2>4, <2>5, <2>6, <2>7 DEF Next, Advance, GetAsList
<1> QED
  BY <1>1, <1>2 DEF AddressInv

LEMMA AddressInvHolds == Spec => []AddressInv
BY TypeInvHolds, AddressInvInit, AddressInvStep, PTL DEF Spec

(***************************************************************************)
(* The listing of the opcodes                                              *)
(***************************************************************************)

ListingType == [info : InfoType, at : Nat, addrInSeg : 0..UMax, overflows : BOOLEAN,
                lines : Seq([at : Nat, addr : 0..UMax])]

\* The listing has a line of the k-th opcode with an address of A.
HasLine(l, k, A) == \E i \in 1..Len(l.lines) : l.lines[i].at = k /\ l.lines[i].addr \in A

\* m is l with other lines added to its own.
AddsLines(l, m) == \A k, A : HasLine(l, k, A) => HasLine(m, k, A)

LEMMA WithLineFacts ==
  ASSUME NEW l \in ListingType
  PROVE  /\ WithLine(l) \in ListingType
         /\ WithLine(l).info = l.info /\ WithLine(l).at = l.at
         /\ WithLine(l).addrInSeg = l.addrInSeg /\ WithLine(l).overflows = l.overflows
         /\ HasLine(WithLine(l), l.at, {l.addrInSeg})
         /\ AddsLines(l, WithLine(l))
<1> DEFINE E == [at : Nat, addr : 0..UMax]
           e == [at |-> l.at, addr |-> l.addrInSeg]
           q == Append(l.lines, e)
<1>1. e \in E /\ e.at = l.at /\ e.addr = l.addrInSeg /\ l.lines \in Seq(E)
  BY DEF ListingType
<1>2. WithLine(l) = [l EXCEPT !.lines = q]
  BY DEF WithLine
<1> HIDE DEF e, E
<1>3. /\ q \in Seq(E) /\ Len(q) = Len(l.lines) + 1 /\ q[Len(q)] = e /\ Len(q) \in 1..Len(q)
      /\ \A i \in 1..Len(l.lines) : i \in 1..Len(q) /\ q[i] = l.lines[i]
  BY <1>1
<1> HIDE DEF q
<1>4. /\ WithLine(l) \in ListingType
      /\ WithLine(l).info = l.info /\ WithLine(l).at = l.at
      /\ WithLine(l).addrInSeg = l.addrInSeg /\ WithLine(l).overflows = l.overflows
      /\ WithLine(l).lines = q
  BY <1>2, <1>3 DEF ListingType, E
<1>5. HasLine(WithLine(l), l.at, {l.addrInSeg})
  BY <1>1, <1>3, <1>4 DEF HasLine
<1>6. AddsLines(l, WithLine(l))
  <2> SUFFICES ASSUME NEW k, NEW A, HasLine(l, k, A)
               PROVE  HasLine(WithLine(l), k, A)
    BY DEF AddsLines
  <2>1. PICK i \in 1..Len(l.lines) : l.lines[i].at = k /\ l.lines[i].addr \in A
    BY DEF HasLine
  <2>2. i \in 1..Len(q) /\ q[i] = l.lines[i]
    BY <1>3
  <2> QED
    BY <1>4, <2>1, <2>2 DEF HasLine
<1> QED
  BY <1>4, <1>5, <1>6

LEMMA PlusFacts ==
  ASSUME NEW l \in ListingType, NEW add \in Int
  PROVE  /\ Plus(l, add) \in ListingType /\ Plus(l, add).info = l.info
         /\ Plus(l, add).at = l.at /\ Plus(l, add).lines = l.lines
         /\ l.addrInSeg + add \in 0..UMax => /\ Plus(l, add).addrInSeg = l.addrInSeg + add
                                             /\ Plus(l, add).overflows = l.overflows
<1>1. CASE l.addrInSeg + add \in 0..UMax
  <2>1. Plus(l, add) = [l EXCEPT !.addrInSeg = l.addrInSeg + add]
    BY <1>1 DEF Plus, FitsUnsigned
  <2> QED
    BY <1>1, <2>1 DEF ListingType
<1>2. CASE ~(l.addrInSeg + add \in 0..UMax)
  <2>1. Plus(l, add) = [l EXCEPT !.overflows = TRUE]
    BY <1>2 DEF Plus, FitsUnsigned
  <2> QED
    BY <1>2, <2>1 DEF ListingType
<1> QED
  BY <1>1, <1>2

LEMMA ListRebaseAddAddrFacts ==
  ASSUME NEW l \in ListingType
  PROVE  /\ ListRebaseAddAddr(l) \in ListingType /\ ListRebaseAddAddr(l).at = l.at
         /\ ListRebaseAddAddr(l).lines = WithLine(l).lines
         /\ LET a == l.addrInSeg + ToSigned(l.info.addAddr)
            IN a \in 0..UMax /\ a + PtrSize \in 0..UMax
                 => /\ ListRebaseAddAddr(l).addrInSeg = a + PtrSize
                    /\ ListRebaseAddAddr(l).overflows = l.overflows
<1>1. PICK add \in Int : add = ToSigned(l.info.addAddr)
  <2>1. ToSigned(l.info.addAddr) \in Int
    BY SignedFits DEF ListingType, InfoType, SMax, WidthAssumption
  <2> QED
    BY <2>1
<1>2. PtrSize \in Int
  BY DEF WidthAssumption
<1>3. PICK w \in ListingType : w = WithLine(l) /\ w.at = l.at /\ w.addrInSeg = l.addrInSeg
                               /\ w.overflows = l.overflows
  BY WithLineFacts
<1>4. PICK p \in ListingType :
        /\ p = Plus(w, add) /\ p.at = l.at /\ p.lines = w.lines
        /\ l.addrInSeg + add \in 0..UMax => /\ p.addrInSeg = l.addrInSeg + add
                                            /\ p.overflows = l.overflows
  <2>1. /\ Plus(w, add) \in ListingType /\ Plus(w, add).at = w.at /\ Plus(w, add).lines = w.lines
        /\ w.addrInSeg + add \in 0..UMax => /\ Plus(w, add).addrInSeg = w.addrInSeg + add
                                            /\ Plus(w, add).overflows = w.overflows
    BY PlusFacts
  <2> QED
    BY <1>3, <2>1, Zenon
<1>5. PICK t \in ListingType :
        /\ t = Plus(p, PtrSize) /\ t.at = l.at /\ t.lines = w.lines
        /\ p.addrInSeg + PtrSize \in 0..UMax => /\ t.addrInSeg = p.addrInSeg + PtrSize
                                                /\ t.overflows = p.overflows
  <2>1. /\ Plus(p, PtrSize) \in ListingType /\ Plus(p, PtrSize).at = p.at
        /\ Plus(p, PtrSize).lines = p.lines
        /\ p.addrInSeg + PtrSize \in 0..UMax
             => /\ Plus(p, PtrSize).addrInSeg = p.addrInSeg + PtrSize
                /\ Plus(p, PtrSize).overflows = p.overflows
    BY <1>2, PlusFacts
  <2> QED
    BY <1>4, <2>1, Zenon
<1>6. ListRebaseAddAddr(l) = IF l.addrInSeg + add \in 0..UMax THEN t ELSE p
  BY <1>1, <1>3, <1>4, <1>5 DEF ListRebaseAddAddr, FitsUnsigned
<1>7. CASE l.addrInSeg + add \in 0..UMax
  BY <1>1, <1>3, <1>4, <1>5, <1>6, <1>7
<1>8. CASE ~(l.addrInSeg + add \in 0..UMax)
  BY <1>1, <1>3, <1>4, <1>6, <1>8
<1> QED
  BY <1>7, <1>8

LEMMA ListRebaseTimesFacts ==
  ASSUME NEW l \in ListingType, NEW isSkip \in BOOLEAN
  PROVE  /\ ListRebaseTimes(l, isSkip) \in ListingType
         /\ ListRebaseTimes(l, isSkip).at = l.at
         /\ ListRebaseTimes(l, isSkip).overflows = l.overflows
         /\ HasLine(ListRebaseTimes(l, isSkip), l.at, {l.addrInSeg})
         /\ AddsLines(l, ListRebaseTimes(l, isSkip))
         /\ LET step == IF isSkip THEN PtrSize + l.info.skip ELSE PtrSize
                total == step * ToUnsigned(l.info.addAddr)
            IN /\ total \in 0..SMax /\ l.addrInSeg + total \in 0..UMax
               /\ step \in 0..SMax \/ total = 0
               => ListRebaseTimes(l, isSkip).addrInSeg = l.addrInSeg + total
<1> DEFINE step == IF isSkip THEN PtrSize + l.info.skip ELSE PtrSize
           total == step * ToUnsigned(l.info.addAddr)
           moves == /\ IF isSkip THEN FitsSigned(step) /\ FitsSigned(total)
                                 ELSE FitsUnsigned(total)
                    /\ FitsUnsigned(l.addrInSeg + total)
           moved == IF moves THEN [WithLine(l) EXCEPT !.addrInSeg = @ + total] ELSE WithLine(l)
<1>1. step \in Int /\ ToUnsigned(l.info.addAddr) \in Int
  <2>1. l.info.skip \in 0..UMax /\ l.info.addAddr \in Int /\ PtrSize \in Int
    BY DEF ListingType, InfoType, WidthAssumption
  <2>2. ToUnsigned(l.info.addAddr) \in 0..UMax
    BY <2>1, UnsignedFits
  <2> QED
    BY <2>1, <2>2
<1>2. total \in Int /\ l.addrInSeg \in Int
  BY <1>1, ProductType DEF ListingType
<1>3. ListRebaseTimes(l, isSkip) = IF moves = isSkip THEN moved ELSE WithLine(moved)
  BY DEF ListRebaseTimes
<1>4. PICK w \in ListingType :
        /\ w = WithLine(l) /\ w.at = l.at /\ w.addrInSeg = l.addrInSeg
        /\ w.overflows = l.overflows
        /\ HasLine(w, l.at, {l.addrInSeg}) /\ AddsLines(l, w)
  BY WithLineFacts
<1>5. moves \in BOOLEAN /\ (moves => l.addrInSeg + total \in 0..UMax)
  BY DEF FitsUnsigned
<1>6. /\ total \in 0..SMax /\ l.addrInSeg + total \in 0..UMax
      /\ step \in 0..SMax \/ total = 0
      => moves \/ total = 0
  BY DEF FitsUnsigned, FitsSigned, SMax, UMax, WidthAssumption
<1>7. moved = IF moves THEN [w EXCEPT !.addrInSeg = l.addrInSeg + total] ELSE w
  BY <1>4
<1> HIDE DEF moves, moved, total, step
<1>8. /\ moved \in ListingType /\ moved.at = l.at /\ moved.overflows = l.overflows
      /\ moved.lines = w.lines
      /\ moved.addrInSeg = IF moves THEN l.addrInSeg + total ELSE l.addrInSeg
  BY <1>4, <1>5, <1>7 DEF ListingType
<1>9. HasLine(moved, l.at, {l.addrInSeg}) /\ AddsLines(l, moved)
  BY <1>4, <1>8 DEF HasLine, AddsLines
<1>10. PICK t \in ListingType :
         /\ t = WithLine(moved) /\ t.at = l.at /\ t.overflows = l.overflows
         /\ t.addrInSeg = moved.addrInSeg /\ AddsLines(moved, t)
  BY <1>8, WithLineFacts
<1>11. HasLine(t, l.at, {l.addrInSeg}) /\ AddsLines(l, t)
  BY <1>9, <1>10 DEF AddsLines
<1>12. /\ total \in 0..SMax /\ l.addrInSeg + total \in 0..UMax
       /\ step \in 0..SMax \/ total = 0
       => moved.addrInSeg = l.addrInSeg + total
  BY <1>2, <1>6, <1>8
<1>13. ListRebaseTimes(l, isSkip) = moved \/ ListRebaseTimes(l, isSkip) = t
  BY <1>3, <1>10
<1> USE DEF total, step
<1> QED
  BY <1>8, <1>9, <1>10, <1>11, <1>12, <1>13

\* Lines are added to those of another listing with the same.
LEMMA SameLines ==
  ASSUME NEW l, NEW x, NEW w, x.lines = l.lines, AddsLines(x, w)
  PROVE  AddsLines(l, w)
<1>1. ASSUME NEW k, NEW A, HasLine(l, k, A) PROVE HasLine(x, k, A)
  BY <1>1, Zenon DEF HasLine
<1> QED
  BY <1>1 DEF AddsLines

\* The opcode iterator's step in the listing.
ReadBy(l, i) == [l EXCEPT !.info = i, !.at = @ + 1]

LEMMA ReadListing ==
  ASSUME NEW l \in ListingType, NEW i \in InfoType
  PROVE  /\ ReadBy(l, i) \in ListingType /\ ReadBy(l, i).info = i /\ ReadBy(l, i).at = l.at + 1
         /\ ReadBy(l, i).lines = l.lines /\ ReadBy(l, i).addrInSeg = l.addrInSeg
         /\ ReadBy(l, i).overflows = l.overflows
<1>1. PICK n \in Nat : n = l.at + 1
  BY DEF ListingType
<1>2. ReadBy(l, i) = [l EXCEPT !.info = i, !.at = n]
  BY <1>1 DEF ReadBy
<1> QED
  BY <1>1, <1>2 DEF ListingType

LEMMA ListSetupFacts ==
  ASSUME NEW l \in ListingType, NEW o \in Opcodes
  PROVE  /\ ListSetup(l, o) \in ListingType /\ ListSetup(l, o).at = l.at
         /\ AddsLines(l, ListSetup(l, o))
         /\ HasLine(ListSetup(l, o), l.at, {ListSetup(l, o).addrInSeg})
         /\ o.op = "SetSegmentAndOffsetUleb"
              => /\ ListSetup(l, o).addrInSeg = l.info.segOffset
                 /\ ListSetup(l, o).overflows = l.overflows
         /\ o.op = "AddAddrUleb" /\ l.addrInSeg + ToSigned(l.info.addAddr) \in 0..UMax
              => /\ ListSetup(l, o).addrInSeg = l.addrInSeg + ToSigned(l.info.addAddr)
                 /\ ListSetup(l, o).overflows = l.overflows
         /\ o.op \notin {"SetSegmentAndOffsetUleb", "AddAddrUleb", "AddAddrImmScaled"}
              => /\ ListSetup(l, o).addrInSeg = l.addrInSeg
                 /\ ListSetup(l, o).overflows = l.overflows
<1>1. PICK add \in Int : add = ToSigned(l.info.addAddr)
  <2>1. ToSigned(l.info.addAddr) \in Int
    BY SignedFits DEF ListingType, InfoType, SMax, WidthAssumption
  <2> QED
    BY <2>1
<1>2. PICK x \in ListingType :
        /\ ListSetup(l, o) = WithLine(x) /\ x.at = l.at /\ x.lines = l.lines
        /\ o.op = "SetSegmentAndOffsetUleb"
             => x.addrInSeg = l.info.segOffset /\ x.overflows = l.overflows
        /\ o.op = "AddAddrUleb" /\ l.addrInSeg + add \in 0..UMax
             => x.addrInSeg = l.addrInSeg + add /\ x.overflows = l.overflows
        /\ o.op \notin {"SetSegmentAndOffsetUleb", "AddAddrUleb", "AddAddrImmScaled"}
             => x.addrInSeg = l.addrInSeg /\ x.overflows = l.overflows
  <2>1. CASE o.op = "SetSegmentAndOffsetUleb"
    <3> DEFINE x == [l EXCEPT !.addrInSeg = l.info.segOffset]
    <3>1. ListSetup(l, o) = WithLine(x)
      BY <2>1 DEF ListSetup
    <3>2. x \in ListingType /\ x.addrInSeg = l.info.segOffset /\ x.overflows = l.overflows
          /\ x.at = l.at /\ x.lines = l.lines
      <4>1. l.info.segOffset \in 0..UMax
        BY DEF ListingType, InfoType
      <4> QED
        BY <4>1 DEF ListingType
    <3> HIDE DEF x
    <3> QED
      BY <2>1, <3>1, <3>2
  <2>2. CASE o.op \in {"AddAddrUleb", "AddAddrImmScaled"}
    <3>1. ListSetup(l, o) = WithLine(Plus(l, add))
      BY <1>1, <2>2 DEF ListSetup
    <3>2. /\ Plus(l, add) \in ListingType /\ Plus(l, add).at = l.at /\ Plus(l, add).lines = l.lines
          /\ l.addrInSeg + add \in 0..UMax => /\ Plus(l, add).addrInSeg = l.addrInSeg + add
                                              /\ Plus(l, add).overflows = l.overflows
      BY PlusFacts
    <3> QED
      BY <2>2, <3>1, <3>2, Zenon
  <2>3. CASE o.op \notin {"SetSegmentAndOffsetUleb", "AddAddrUleb", "AddAddrImmScaled"}
    <3>1. ListSetup(l, o) = WithLine(l)
      BY <2>3 DEF ListSetup
    <3> QED
      BY <2>3, <3>1
  <2> QED
    BY <2>1, <2>2, <2>3
<1>3. PICK w : /\ w = ListSetup(l, o) /\ w \in ListingType /\ w.at = l.at
               /\ w.addrInSeg = x.addrInSeg /\ w.overflows = x.overflows
               /\ HasLine(w, l.at, {x.addrInSeg}) /\ AddsLines(x, w)
  <2>1. /\ WithLine(x) \in ListingType /\ WithLine(x).at = x.at
        /\ WithLine(x).addrInSeg = x.addrInSeg /\ WithLine(x).overflows = x.overflows
        /\ HasLine(WithLine(x), x.at, {x.addrInSeg}) /\ AddsLines(x, WithLine(x))
    BY WithLineFacts
  <2> QED
    BY <1>2, <2>1, Zenon
<1>4. AddsLines(l, w)
  BY <1>2, <1>3, SameLines
<1> QED
  BY <1>1, <1>2, <1>3, <1>4, Zenon

LEMMA ListOpcodeType ==
  ASSUME NEW l \in ListingType, NEW o \in Opcodes
  PROVE  ListOpcode(l, o) \in ListingType
<1> DEFINE r == ReadBy(l, ReadOpcode(l.info, o))
<1>1. r \in ListingType
  <2>1. l.info \in InfoType
    BY DEF ListingType
  <2>2. ReadOpcode(l.info, o) \in InfoType
    BY <2>1, ReadOpcodeFields
  <2> QED
    BY <2>2, ReadListing
<1>2. ListOpcode(l, o) \in {ListRebaseAddAddr(r), ListSetup(r, o),
                            ListRebaseTimes(r, o.op = "DoRebaseUlebTimesSkipUleb")}
  BY DEF ListOpcode, ReadBy, RunOpcodes
<1> HIDE DEF r
<1>3. ListRebaseAddAddr(r) \in ListingType /\ ListSetup(r, o) \in ListingType
  BY <1>1, ListRebaseAddAddrFacts, ListSetupFacts
<1>4. ListRebaseTimes(r, o.op = "DoRebaseUlebTimesSkipUleb") \in ListingType
  BY <1>1, ListRebaseTimesFacts
<1> QED
  BY <1>2, <1>3, <1>4

\* A run that ends in the segment fits.
LEMMA RunFits ==
  ASSUME NEW c \in 0..SMax, NEW n \in Nat, NEW s \in Nat, c + n * s \in 0..SMax
  PROVE  n * s \in 0..SMax /\ s * n = n * s /\ (s \in 0..SMax \/ n * s = 0)
<1>1. n * s \in Nat /\ s * n = n * s /\ SMax \in Nat /\ c \in Nat
  BY ProductGrows DEF SMax, WidthAssumption
<1>2. n * s <= SMax
  BY <1>1
<1>3. CASE n = 0
  BY <1>1, <1>2, <1>3
<1>4. CASE n # 0
  <2>1. 1 <= n /\ 1 \in Nat /\ 1 * s = s
    BY <1>4
  <2>2. s <= n * s
    BY <2>1, ProductGrows
  <2> QED
    BY <1>1, <1>2, <2>2
<1> QED
  BY <1>3, <1>4

\* Within the segment the listing of an opcode moves the address as the opcode
\* moves the cursor.
LEMMA ListOpcodeFollows ==
  ASSUME NEW l \in ListingType, NEW o \in Opcodes, NEW c \in 0..SMax, NEW d \in 0..SMax,
         l.addrInSeg = c, l.overflows = FALSE, d = Moved(c, o), o.valid, o.op # "AddAddrImmScaled",
         o.op = "DoRebaseAddAddrUleb" => d >= PtrSize, o.m >= 0
  PROVE  /\ ListOpcode(l, o).addrInSeg = d /\ ListOpcode(l, o).overflows = FALSE
         /\ ListOpcode(l, o).at = l.at + 1
         /\ AddsLines(l, ListOpcode(l, o))
         /\ HasLine(ListOpcode(l, o), l.at + 1, {c, d})
<1>1. PICK i \in InfoType : i = ReadOpcode(l.info, o) /\ Operands(i, o)
  <2>1. l.info \in InfoType
    BY DEF ListingType
  <2> QED
    BY <2>1, ReadOpcodeFields, ReadsOperands
<1> DEFINE x == ReadBy(l, ReadOpcode(l.info, o))
<1>2. /\ x \in ListingType /\ x.info = i /\ x.at = l.at + 1 /\ x.lines = l.lines
      /\ x.addrInSeg = c /\ x.overflows = FALSE
  BY <1>1, ReadListing
<1>3. /\ o.op = "DoRebaseAddAddrUleb" => ListOpcode(l, o) = ListRebaseAddAddr(x)
      /\ o.op \in RunOpcodes =>
           ListOpcode(l, o) = ListRebaseTimes(x, o.op = "DoRebaseUlebTimesSkipUleb")
      /\ o.op \notin RunOpcodes \cup {"DoRebaseAddAddrUleb"} => ListOpcode(l, o) = ListSetup(x, o)
  BY DEF ListOpcode, ReadBy, RunOpcodes
<1>4. PICK r \in ListingType :
        /\ o.op = "DoRebaseAddAddrUleb" => ListOpcode(l, o) = ListRebaseAddAddr(r)
        /\ o.op \in RunOpcodes =>
             ListOpcode(l, o) = ListRebaseTimes(r, o.op = "DoRebaseUlebTimesSkipUleb")
        /\ o.op \notin RunOpcodes \cup {"DoRebaseAddAddrUleb"} => ListOpcode(l, o) = ListSetup(r, o)
        /\ r.info = i /\ r.at = l.at + 1 /\ r.lines = l.lines
        /\ r.addrInSeg = c /\ r.overflows = FALSE
  BY <1>2, <1>3
<1> HIDE DEF x
<1>5. \A m : AddsLines(r, m) => AddsLines(l, m)
  BY <1>4, SameLines
<1>6. \A m, k : HasLine(m, k, {c}) \/ HasLine(m, k, {d}) => HasLine(m, k, {c, d})
  BY DEF HasLine
<1>7. c \in 0..UMax /\ d \in 0..UMax /\ PtrSize \in Nat \ {0} /\ o.n \in Int
  BY OpcodeFields DEF SMax, UMax, WidthAssumption
<1>8. CASE o.op = "DoRebaseAddAddrUleb"
  <2>1. i.addAddr = o.n /\ d = c + o.n + PtrSize
    BY <1>1, <1>8 DEF Operands, Moved, RunOpcodes
  <2>2. ToSigned(r.info.addAddr) = o.n
    <3>1. o.n \in (-SMax - 1)..SMax
      BY <1>8, OpcodeRanges
    <3> QED
      BY <1>4, <2>1, <3>1, SignedSame
  <2>3. c + o.n \in 0..UMax /\ (c + o.n) + PtrSize = d
    <3>1. d >= PtrSize /\ UMax \in Nat
      BY <1>8 DEF UMax, WidthAssumption
    <3> QED
      BY <1>7, <2>1, <3>1
  <2> DEFINE t == ListRebaseAddAddr(r)
  <2>4. t.at = r.at /\ t.lines = WithLine(r).lines
    BY ListRebaseAddAddrFacts
  <2>5. t.addrInSeg = d /\ t.overflows = r.overflows
    <3>1. LET a == r.addrInSeg + ToSigned(r.info.addAddr)
          IN a \in 0..UMax /\ a + PtrSize \in 0..UMax
               => t.addrInSeg = a + PtrSize /\ t.overflows = r.overflows
      BY ListRebaseAddAddrFacts
    <3> QED
      BY <1>4, <1>7, <2>2, <2>3, <3>1
  <2>6. HasLine(WithLine(r), r.at, {r.addrInSeg}) /\ AddsLines(r, WithLine(r))
    BY WithLineFacts
  <2>7. ListOpcode(l, o) = t
    BY <1>4, <1>8
  <2> HIDE DEF t
  <2>8. HasLine(t, r.at, {c}) /\ AddsLines(r, t)
    BY <1>4, <2>4, <2>6 DEF HasLine, AddsLines
  <2> QED
    BY <1>4, <1>5, <1>6, <2>4, <2>5, <2>7, <2>8
<1>9. CASE o.op \in RunOpcodes
  <2> DEFINE isSkip == o.op = "DoRebaseUlebTimesSkipUleb"
             t == ListRebaseTimes(r, isSkip)
  <2>1. i.addAddr = o.n /\ d = c + o.n * StepSize(o)
    BY <1>1, <1>9 DEF Operands, Moved, RunOpcodes
  <2>2. o.n \in 0..UMax /\ o.m \in 0..SMax
    BY <1>9, OpcodeRanges DEF SMax, WidthAssumption
  <2>3. ToUnsigned(r.info.addAddr) = o.n
    BY <1>4, <2>1, <2>2, UnsignedSame
  <2>4. (IF isSkip THEN PtrSize + r.info.skip ELSE PtrSize) = StepSize(o)
    <3>1. CASE isSkip
      <4>1. i.skip = ToUnsigned(o.m) /\ o.m \in 0..UMax
        BY <1>1, <2>2, <3>1 DEF Operands, SMax, UMax, WidthAssumption
      <4> QED
        BY <1>4, <3>1, <4>1, UnsignedSame DEF StepSize
    <3>2. CASE ~isSkip
      BY <3>2 DEF StepSize
    <3> QED
      BY <3>1, <3>2
  <2>5. StepSize(o) \in Nat /\ o.n \in Nat
    BY <1>7, <2>2 DEF StepSize, UMax, SMax, WidthAssumption
  <2>6. PICK s, n \in Nat : s = StepSize(o) /\ n = o.n
    BY <2>5
  <2>7. s * n \in 0..SMax /\ c + s * n = d /\ (s \in 0..SMax \/ s * n = 0)
    BY <2>1, <2>6, RunFits
  <2>8. /\ t.at = r.at /\ t.overflows = r.overflows
        /\ HasLine(t, r.at, {r.addrInSeg}) /\ AddsLines(r, t)
    BY ListRebaseTimesFacts
  <2>9. t.addrInSeg = d
    <3>1. LET step == IF isSkip THEN PtrSize + r.info.skip ELSE PtrSize
              total == step * ToUnsigned(r.info.addAddr)
          IN /\ total \in 0..SMax /\ r.addrInSeg + total \in 0..UMax
             /\ step \in 0..SMax \/ total = 0
             => t.addrInSeg = r.addrInSeg + total
      BY ListRebaseTimesFacts
    <3>2. /\ s * n \in 0..SMax /\ r.addrInSeg + s * n \in 0..UMax
          /\ s \in 0..SMax \/ s * n = 0
          => t.addrInSeg = r.addrInSeg + s * n
      BY <2>3, <2>4, <2>6, <3>1, Zenon
    <3> QED
      BY <1>4, <1>7, <2>7, <3>2
  <2>10. ListOpcode(l, o) = t
    BY <1>4, <1>9
  <2> HIDE DEF t
  <2> QED
    BY <1>4, <1>5, <1>6, <2>8, <2>9, <2>10
<1>10. CASE o.op \notin RunOpcodes \cup {"DoRebaseAddAddrUleb"}
  <2> DEFINE t == ListSetup(r, o)
  <2>1. /\ t.at = r.at /\ AddsLines(r, t) /\ HasLine(t, r.at, {t.addrInSeg})
    BY ListSetupFacts
  <2>2. t.addrInSeg = d /\ t.overflows = FALSE
    <3>1. CASE o.op = "SetSegmentAndOffsetUleb"
      <4>1. i.segOffset = o.n /\ d = o.n
        BY <1>1, <3>1 DEF Operands, Moved, RunOpcodes
      <4>2. t.addrInSeg = r.info.segOffset /\ t.overflows = r.overflows
        BY <3>1, ListSetupFacts
      <4> QED
        BY <1>4, <4>1, <4>2
    <3>2. CASE o.op = "AddAddrUleb"
      <4>1. i.addAddr = o.n /\ d = c + o.n
        BY <1>1, <3>2 DEF Operands, Moved, RunOpcodes
      <4>2. o.n \in (-SMax - 1)..SMax
        BY <3>2, OpcodeRanges
      <4>3. r.addrInSeg + ToSigned(r.info.addAddr) = d
        BY <1>4, <4>1, <4>2, SignedSame
      <4>4. t.addrInSeg = r.addrInSeg + ToSigned(r.info.addAddr) /\ t.overflows = r.overflows
        BY <1>7, <3>2, <4>3, ListSetupFacts
      <4> QED
        BY <1>4, <4>3, <4>4
    <3>3. CASE o.op \notin {"SetSegmentAndOffsetUleb", "AddAddrUleb"}
      <4>1. d = c
        BY <1>10, <3>3 DEF Moved
      <4>2. t.addrInSeg = r.addrInSeg /\ t.overflows = r.overflows
        BY <3>3, ListSetupFacts
      <4> QED
        BY <1>4, <4>1, <4>2
    <3> QED
      BY <3>1, <3>2, <3>3
  <2>3. ListOpcode(l, o) = t
    BY <1>4, <1>10
  <2> HIDE DEF t
  <2> QED
    BY <1>4, <1>5, <1>6, <2>1, <2>2, <2>3
<1> QED
  BY <1>8, <1>9, <1>10

\* f[k] is the listing after k opcodes, for the first m of s.
IsListing(s, m, f) ==
  /\ f \in [0..m -> ListingType] /\ f[0] = InitListing
  /\ \A k \in 1..m : f[k] = ListOpcode(f[k - 1], s[k])

LEMMA InitListingType == InitListing \in ListingType
<1>1. InitInfo \in InfoType /\ 0 \in 0..UMax
  BY DEF InitInfo, InfoType, Errors, NoWriteKind, WidthAssumption, UMax
<1> QED
  BY <1>1 DEF InitListing, ListingType

LEMMA ListingIsOne ==
  ASSUME NEW s \in Seq(Opcodes), NEW m \in 0..Len(s)
  PROVE  \E f : IsListing(s, m, f) /\ ListingAt(s, m) = f[m]
<1> DEFINE Equation(f) ==
             f = [j \in 0..m |-> IF j = 0 THEN InitListing ELSE ListOpcode(f[j - 1], s[j])]
           step == [q \in ListingType \X (1..m) |-> ListOpcode(q[1], s[q[2]])]
<1>1. Len(s) \in Nat /\ m \in Nat /\ InitListing \in ListingType
  BY InitListingType
<1>2. \A l \in ListingType, k \in 1..m : ListOpcode(l, s[k]) \in ListingType
  <2> SUFFICES ASSUME NEW l \in ListingType, NEW k \in 1..m
               PROVE  ListOpcode(l, s[k]) \in ListingType
    OBVIOUS
  <2>1. s[k] \in Opcodes
    BY <1>1
  <2> QED
    BY <2>1, ListOpcodeType
<1>3. step \in [ListingType \X (1..m) -> ListingType]
      /\ \A l \in ListingType, k \in 1..m : step[<<l, k>>] = ListOpcode(l, s[k])
  BY <1>2
<1> HIDE DEF step
<1>4. PICK f : f \in [0..m -> ListingType] /\ f[0] = InitListing
               /\ \A k \in 1..m : f[k] = step[<<f[k - 1], k>>]
  <2>1. \E f : Ind!IsRecursion(f, ListingType, InitListing, m, step)
    BY <1>1, <1>3, Ind!FunctionByRecursion
  <2> QED
    BY <2>1 DEF Ind!IsRecursion
<1>5. \A k \in 1..m : f[k - 1] \in ListingType /\ f[k] = ListOpcode(f[k - 1], s[k])
  <2> SUFFICES ASSUME NEW k \in 1..m
               PROVE  f[k - 1] \in ListingType /\ f[k] = ListOpcode(f[k - 1], s[k])
    OBVIOUS
  <2>1. k - 1 \in 0..m
    BY <1>1
  <2>2. f[k - 1] \in ListingType
    BY <1>4, <2>1
  <2> QED
    BY <1>3, <1>4, <2>2
<1>6. Equation(f)
  <2>1. \A j \in 0..m : f[j] = IF j = 0 THEN InitListing ELSE ListOpcode(f[j - 1], s[j])
    <3> SUFFICES ASSUME NEW j \in 0..m
                 PROVE  f[j] = IF j = 0 THEN InitListing ELSE ListOpcode(f[j - 1], s[j])
      OBVIOUS
    <3>1. j = 0 \/ (j # 0 /\ j \in 1..m)
      BY <1>1
    <3> QED
      BY <1>4, <1>5, <3>1
  <2> QED
    BY <1>4, <2>1
<1> DEFINE g == CHOOSE f_1 : Equation(f_1)
<1>7. Equation(g)
  BY <1>6
<1>8. ListingAt(s, m) = g[m]
  BY DEF ListingAt
<1>9. \A j \in 0..m : g[j] = IF j = 0 THEN InitListing ELSE ListOpcode(g[j - 1], s[j])
  BY <1>7
<1> HIDE DEF g, Equation
<1>10. \A j \in 0..m : g[j] = f[j]
  <2> DEFINE S == {j \in Nat : j <= m => g[j] = f[j]}
  <2>1. 0 \in S
    BY <1>1, <1>4, <1>9
  <2>2. ASSUME NEW j \in Nat, j \in S PROVE j + 1 \in S
    <3> SUFFICES ASSUME j + 1 <= m PROVE g[j + 1] = f[j + 1]
      OBVIOUS
    <3>1. j + 1 \in 1..m /\ j + 1 \in 0..m /\ (j + 1) - 1 = j /\ j <= m /\ j + 1 # 0
      BY <1>1
    <3>2. g[j] = f[j]
      BY <2>2, <3>1
    <3> QED
      BY <1>5, <1>9, <3>1, <3>2
  <2> HIDE DEF S
  <2>3. Nat \subseteq S
    BY <2>1, <2>2, Ind!SetInduction
  <2> QED
    BY <1>1, <2>3 DEF S
<1>11. m \in 0..m
  BY <1>1
<1> QED
  BY <1>4, <1>5, <1>8, <1>10, <1>11 DEF IsListing

\* The listing of opcodes that stay in the segment follows the cursor.
LEMMA ListingFollows ==
  ASSUME TypeInv
  PROVE  ListingFollowsStream
<1> SUFFICES ASSUME WithinSegment(stream),
                    \A k \in 1..Len(stream) :
                        stream[k].valid /\ stream[k].op # "AddAddrImmScaled"
             PROVE  LET listing == CollectRebaseOpcodeList(stream)
                    IN /\ listing.addrInSeg = Cursor(stream) /\ ~listing.overflows
                       /\ \A k \in 1..Len(stream) : \E i \in 1..Len(listing.lines) :
                            /\ listing.lines[i].at = k
                            /\ listing.lines[i].addr
                                 \in {CursorAt(stream, k - 1), CursorAt(stream, k)}
  BY DEF ListingFollowsStream
<1>1. PICK n \in Nat : n = Len(stream) /\ n \in 0..Len(stream)
  BY DEF TypeInv
<1>2. stream \in Seq(Opcodes)
  BY DEF TypeInv
<1>3. PICK f : IsListing(stream, n, f) /\ ListingAt(stream, n) = f[n]
  BY <1>1, <1>2, ListingIsOne
<1> DEFINE Right(k) ==
             /\ f[k].at = k /\ f[k].addrInSeg = CursorAt(stream, k) /\ f[k].overflows = FALSE
             /\ \A j \in 1..k : HasLine(f[k], j, {CursorAt(stream, j - 1), CursorAt(stream, j)})
           S == {k \in Nat : k <= n => Right(k)}
<1>4. 0 \in S
  <2>1. f[0] = InitListing /\ CursorAt(stream, 0) = 0
    BY <1>2, <1>3, CursorMoves DEF IsListing
  <2>2. f[0].at = 0 /\ f[0].addrInSeg = 0 /\ f[0].overflows = FALSE
    BY <2>1 DEF InitListing
  <2>3. Right(0)
    BY <2>1, <2>2
  <2> HIDE DEF Right
  <2> QED
    BY <2>3
<1>5. ASSUME NEW k \in Nat, k \in S PROVE k + 1 \in S
  <2> SUFFICES ASSUME k + 1 <= n PROVE Right(k + 1)
    <3>1. k + 1 \in Nat
      OBVIOUS
    <3> HIDE DEF Right
    <3> QED
      BY <3>1 DEF S
  <2>1. /\ k + 1 \in 1..n /\ (k + 1) - 1 = k /\ k <= n /\ k \in 0..n
        /\ \A j \in 1..(k + 1) : j = k + 1 \/ j \in 1..k
    OBVIOUS
  <2>2. Right(k)
    BY <1>5, <2>1
  <2>3. PICK c, d \in 0..SMax : c = CursorAt(stream, k) /\ d = CursorAt(stream, k + 1)
    <3>1. k \in 0..Len(stream) /\ k + 1 \in 0..Len(stream)
      BY <1>1, <2>1
    <3> QED
      BY <3>1, CursorInSegment
  <2>4. PICK o \in Opcodes : o = stream[k + 1]
    BY <1>1, <1>2, <2>1
  <2>5. d = Moved(c, o)
    <3>1. k + 1 \in 1..Len(stream)
      BY <1>1, <2>1
    <3> QED
      BY <1>2, <2>1, <2>3, <2>4, <3>1, CursorMoves
  <2>6. o.valid /\ o.op # "AddAddrImmScaled" /\ o.m >= 0
        /\ (o.op = "DoRebaseAddAddrUleb" => d >= PtrSize)
    BY <1>1, <2>1, <2>3, <2>4 DEF WithinSegment
  <2>7. PICK l \in ListingType : l = f[k] /\ f[k + 1] = ListOpcode(l, o)
    BY <1>3, <2>1, <2>4 DEF IsListing
  <2>8. l.addrInSeg = c /\ l.overflows = FALSE /\ l.at = k
        /\ \A j \in 1..k : HasLine(l, j, {CursorAt(stream, j - 1), CursorAt(stream, j)})
    BY <2>2, <2>3, <2>7
  <2>9. /\ f[k + 1].addrInSeg = d /\ f[k + 1].overflows = FALSE /\ f[k + 1].at = k + 1
        /\ AddsLines(l, f[k + 1]) /\ HasLine(f[k + 1], k + 1, {c, d})
    <3>1. /\ ListOpcode(l, o).addrInSeg = d /\ ListOpcode(l, o).overflows = FALSE
          /\ ListOpcode(l, o).at = l.at + 1 /\ AddsLines(l, ListOpcode(l, o))
          /\ HasLine(ListOpcode(l, o), l.at + 1, {c, d})
      BY <2>5, <2>6, <2>8, ListOpcodeFollows, ZenonT(60)
    <3> QED
      BY <2>7, <2>8, <3>1, Zenon
  <2>10. ASSUME NEW j \in 1..(k + 1)
         PROVE  HasLine(f[k + 1], j, {CursorAt(stream, j - 1), CursorAt(stream, j)})
    <3>1. CASE j = k + 1
      BY <2>1, <2>3, <2>9, <3>1
    <3>2. CASE j \in 1..k
      BY <2>8, <2>9, <3>2 DEF AddsLines
    <3> QED
      BY <2>1, <3>1, <3>2
  <2> QED
    BY <2>3, <2>9, <2>10
<1> HIDE DEF S
<1>6. Nat \subseteq S
  BY <1>4, <1>5, Ind!SetInduction
<1>7. Right(n)
  <2>1. n \in S /\ n <= n
    BY <1>6
  <2> HIDE DEF Right
  <2> QED
    BY <2>1 DEF S
<1>8. CollectRebaseOpcodeList(stream) = f[n] /\ Cursor(stream) = CursorAt(stream, n)
  BY <1>1, <1>3 DEF CollectRebaseOpcodeList, Cursor
<1> QED
  BY <1>1, <1>7, <1>8 DEF HasLine

\* A list with part of the current opcode's locations is a prefix of all.
LEMMA ListedPart ==
  ASSUME TypeInv, stream # <<>>, NEW r \in Nat, HasListed(Len(stream) - 1, r),
         r <= Len(ListedOf(CursorAt(stream, Len(stream) - 1), stream[Len(stream)]))
  PROVE  IsPrefix(Addresses, ListedLocations)
<1>1. PICK n \in Nat \ {0} : n = Len(stream) /\ n \in 1..Len(stream) /\ n - 1 \in 0..Len(stream)
                             /\ (n - 1) + 1 = n
  BY DEF TypeInv
<1>2. stream \in Seq(Opcodes) /\ stream[n] \in Opcodes
  BY <1>1 DEF TypeInv
<1> DEFINE a == LocationsOf(stream, n - 1)
           b == ListedOf(CursorAt(stream, n - 1), stream[n])
<1>3. a \in Seq(Int) /\ b \in Seq(Int) /\ LocationsOf(stream, n) = a \o b
  BY <1>1, <1>2, LocationsGrow, CursorMoves, ListedOfFacts
<1>4. /\ Len(list) = Len(a) + r
      /\ \A j \in 1..Len(a) : list[j].addr = a[j]
      /\ \A j \in 1..r : list[Len(a) + j].addr = b[j]
      /\ r <= Len(b)
  BY <1>1 DEF HasListed
<1>5. ListedLocations = a \o b
  BY <1>1, <1>3 DEF ListedLocations
<1> HIDE DEF a, b
<1>6. /\ Len(a \o b) = Len(a) + Len(b) /\ Len(a) \in Nat /\ Len(b) \in Nat
      /\ \A j \in 1..(Len(a) + Len(b)) : (a \o b)[j] = IF j <= Len(a) THEN a[j] ELSE b[j - Len(a)]
  BY <1>3
<1>7. \A j \in 1..(Len(a) + r) : list[j].addr = (a \o b)[j]
  <2> SUFFICES ASSUME NEW j \in 1..(Len(a) + r) PROVE list[j].addr = (a \o b)[j]
    OBVIOUS
  <2>0. j \in 1..(Len(a) + Len(b))
    BY <1>4, <1>6
  <2>1. CASE j <= Len(a)
    BY <1>4, <1>6, <2>0, <2>1
  <2>2. CASE ~(j <= Len(a))
    <3>1. j - Len(a) \in 1..r /\ Len(a) + (j - Len(a)) = j
      BY <1>6, <2>2
    <3> QED
      BY <1>4, <1>6, <2>0, <2>2, <3>1
  <2> QED
    BY <2>1, <2>2
<1> DEFINE q == Len(a) + r
           t == a \o b
<1>8. q \in Nat /\ q <= Len(t) /\ Len(list) = q /\ \A j \in 1..q : list[j].addr = t[j]
  BY <1>4, <1>6, <1>7
<1> HIDE DEF q, t
<1>9. Addresses = [j \in 1..q |-> t[j]] /\ Len(Addresses) = q
  BY <1>8 DEF Addresses
<1>10. SubSeq(Addresses, 1, q) = SubSeq(t, 1, q)
  BY <1>8, <1>9
<1>11. IsPrefix(Addresses, t)
  BY <1>8, <1>9, <1>10 DEF IsPrefix
<1> QED
  BY <1>5, <1>11 DEF t

LEMMA ListedWhole ==
  ASSUME TypeInv, HasListed(Len(stream), 0)
  PROVE  Addresses = ListedLocations /\ IsPrefix(Addresses, ListedLocations)
<1>1. PICK t \in Seq(Int) : t = LocationsOf(stream, Len(stream))
  <2>1. Len(stream) \in 0..Len(stream) /\ stream \in Seq(Opcodes)
    BY DEF TypeInv
  <2> QED
    BY <2>1, LocationsGrow
<1>2. Len(list) = Len(t) /\ Len(t) \in Nat /\ \A j \in 1..Len(t) : list[j].addr = t[j]
  BY <1>1 DEF HasListed
<1>3. Addresses = [j \in 1..Len(t) |-> t[j]]
  BY <1>2 DEF Addresses
<1>4. Addresses = t
  BY <1>1, <1>3
<1> QED
  BY <1>1, <1>2, <1>4 DEF ListedLocations, IsPrefix

\* What the invariant says of the address and of the list.
LEMMA InvFollowsStream ==
  ASSUME TypeInv, AddressInv
  PROVE  CursorFollowsStream /\ ListedInOrder
<1>1. CursorFollowsStream
  <2> SUFFICES ASSUME Regular, pc = "advance", last = "SetKindImm",
                      ~Astray(stream, Passed + 1)
               PROVE  info.addrInSeg + segAdd = CursorAt(stream, Passed)
    BY DEF CursorFollowsStream
  <2>1. segAdd = 0 /\ info.addrInSeg = CursorAt(stream, Passed) /\ info.addrInSeg \in 0..UMax
    BY DEF AddressInv, Follows, Between, TypeInv, InfoType
  <2> QED
    BY <2>1
<1>2. ListedInOrder
  <2> SUFFICES ASSUME Regular
               PROVE  IsPrefix(Addresses, ListedLocations)
                      /\ (pc = "done" => Addresses = ListedLocations)
    <3>1. LongRuns(stream) \in SUBSET LongRuns(stream)
      OBVIOUS
    <3> QED
      BY <3>1 DEF ListedInOrder, ListedLocations, LocationsOf
  <2>1. Follows
    BY DEF AddressInv
  <2>2. CASE pc = "done"
    BY <2>1, <2>2, ListedWhole DEF Follows
  <2>3. CASE pc = "advance" /\ last = "SetKindImm" /\ atEnd
    BY <2>1, <2>3, ListedWhole DEF Follows, Between, Passed
  <2>4. CASE pc = "advance" /\ last = "SetKindImm" /\ ~atEnd
    <3>1. HasListed(Len(stream) - 1, 0) /\ stream # <<>>
      BY <2>1, <2>4 DEF Follows, Between, Passed, TypeInv
    <3>2. 0 <= Len(ListedOf(CursorAt(stream, Len(stream) - 1), stream[Len(stream)]))
      <4>1. ListedOf(CursorAt(stream, Len(stream) - 1), stream[Len(stream)]) \in Seq(Int)
        BY <3>1, ByteMoves, ListedOfFacts
      <4> QED
        BY <4>1
    <3> QED
      BY <2>4, <3>1, <3>2, ListedPart
  <2>5. CASE pc \in {"advance", "list"} /\ last \in RunOpcodes
    <3>1. PICK r \in Nat : InRun(r)
      BY <2>1, <2>5 DEF Follows
    <3>2. PICK k \in {r, r + 1} : HasListed(Len(stream) - 1, k)
      BY <3>1 DEF InRun
    <3>3. /\ stream # <<>> /\ Byte.valid /\ Byte.op \in RunOpcodes
          /\ r \in 0..(Byte.n - 2) \/ (Byte.n = 1 /\ r = 0)
      BY <3>1 DEF InRun
    <3>4. PICK n \in Int : n = Byte.n /\ n > 0
      <4>1. Byte.n > 0
        BY <3>3, ByteMoves DEF Regular
      <4> QED
        BY <3>3, <4>1, ByteMoves, OpcodeFields
    <3>5. Len(ListedOf(CursorAt(stream, Len(stream) - 1), stream[Len(stream)]))
            = IF n = 1 THEN 1 ELSE n - 1
      <4>1. PICK c \in Int : c = CursorAt(stream, Len(stream) - 1)
        BY <3>3, ByteMoves
      <4>2. Len(ListedOf(c, Byte)) = IF n = 1 THEN 1 ELSE n - 1
        BY <3>3, <3>4, ByteMoves, ListedOfFacts
      <4> QED
        BY <3>3, <4>1, <4>2, ByteMoves
    <3>6. k \in Nat /\ k <= IF n = 1 THEN 1 ELSE n - 1
      BY <3>3, <3>4
    <3> QED
      BY <2>5, <3>2, <3>3, <3>5, <3>6, ListedPart
  <2>6. CASE pc \in {"advance", "list"} /\ last = "DoRebaseAddAddrUleb"
    <3>1. InAdd
      BY <2>1, <2>6 DEF Follows
    <3>2. stream # <<>> /\ Byte.valid /\ Byte.op = "DoRebaseAddAddrUleb"
      BY <3>1 DEF InAdd
    <3>3. PICK k \in {0, 1} : HasListed(Len(stream) - 1, k)
      BY <3>1 DEF InAdd
    <3>4. Len(ListedOf(CursorAt(stream, Len(stream) - 1), stream[Len(stream)])) = 1
      BY <3>2, ByteMoves, ListedOfFacts
    <3>5. k \in Nat /\ k <= 1
      OBVIOUS
    <3> QED
      BY <2>6, <3>2, <3>3, <3>4, <3>5, ListedPart
  <2> QED
    BY <2>1, <2>2, <2>3, <2>4, <2>5, <2>6 DEF Follows, TypeInv
<1> QED
  BY <1>1, <1>2

\* The address of the iterator, the list of actions and the listing of opcodes are
\* where the opcodes lead, as long as these stay in the segment and none is reached
\* astray; of the locations a run rebases only its last one is missing.
THEOREM AddressesAreFollowed == Spec => []AddressesFollowStream
<1>1. TypeInv /\ AddressInv => AddressesFollowStream
  BY InvFollowsStream, ListingFollows DEF AddressesFollowStream
<1> QED
  BY <1>1, TypeInvHolds, AddressInvHolds, PTL

=============================================================================
