---------------------- MODULE ExportTrieIterator_proofs ----------------------
(***************************************************************************)
(* Proofs about the walk over an export trie, for any file, any depth      *)
(* limit and any fault.                                                    *)
(***************************************************************************)
EXTENDS ExportTrieIterator, SequenceTheorems, TLAPS

Ind == INSTANCE Induction

FrameType == [node : Nodes, prefix : Seq(Nodes \X Nat), ordinal : Nat, read : Nat,
              ranges : Nat]

Pcs == {"open", "advance", "loop", "end", "error"}
Errors == {"None", "Invalid", "OverlappingRanges", "EmptyExport", "TooDeep"}

\* The types of the variables.
IterTypes ==
  /\ trie \in [Nodes -> [export : BOOLEAN, children : Seq(Nodes)]]
  /\ pc \in Pcs /\ error \in Errors
  /\ stack \in Seq(FrameType) /\ next \in FrameType
  /\ ranges \in Seq(Nodes) /\ kind \in BOOLEAN
  /\ pc = "loop" => stack # <<>>
  /\ pc \in {"open", "end"} => stack = <<>>
  /\ Len(stack) <= MaxDepth

\* How far each node of the path is: a parent's last edge read is the one to the
\* node above it; the innermost node is at its next edge, or not begun, or, between
\* two calls, has been given to the caller.
InStep ==
  /\ \A k \in 1..Len(stack) :
       /\ stack[k].read <= Len(Children(stack[k].node))
       /\ stack[k].ordinal <= Len(Children(stack[k].node)) + 1
  /\ pc \in {"advance", "loop"} =>
       \A k \in 1..(Len(stack) - 1) : stack[k].read = stack[k].ordinal
  /\ pc = "loop" =>
       Top.ordinal = Top.read + 1 \/ (Top.ordinal = 0 /\ Top.read = 0)
  /\ pc = "advance" /\ stack # <<>> =>
       Top.ordinal = 0 /\ Top.read = IF IsExport(Top.node) THEN 0 ELSE 1

\* Where the range of the k-th node of the path is in RangeList.
Pos(k) == IF k = 1 THEN 1 ELSE stack[k].ranges

\* RangeList holds no export twice.
NoExportRecordedTwice ==
  \A i, j \in 1..Len(ranges) : i # j /\ ranges[i] = ranges[j] => ~IsExport(ranges[i])

\* RangeList holds the nodes of the path, in their order.
PathOnRecord ==
  /\ ranges # <<>> /\ ranges[1] = Root
  /\ \A k \in 1..Len(stack) : Pos(k) \in 1..Len(ranges) /\ ranges[Pos(k)] = stack[k].node
  /\ \A j, k \in 1..Len(stack) : j < k => Pos(j) < Pos(k)

\* Between two calls the child that is still to be entered is the last on record.
RangesInv ==
  /\ NoExportRecordedTwice
  /\ pc \in {"advance", "loop", "error"} => PathOnRecord
  /\ pc = "open" => ranges = <<>>
  /\ pc \in {"open", "advance"} /\ stack = <<>> => next = Frame(Root, <<>>)
  /\ pc = "advance" /\ stack # <<>> /\ ~IsExport(Top.node) =>
       /\ next.ranges = Len(ranges) /\ ranges[Len(ranges)] = next.node
       /\ next.ordinal = 0 /\ next.read = 0
       /\ Pos(Len(stack)) < Len(ranges)

IterInv == IterTypes /\ InStep /\ RangesInv

LEMMA IterInvInit == Init => IterInv
<1> SUFFICES ASSUME Init
             PROVE  IterInv
  OBVIOUS
<1>1. SeqOf(Nodes, MaxChildren) \subseteq Seq(Nodes)
  BY TrieAssumption DEF TrieAssumption, SeqOf
<1>2. trie \in [Nodes -> [export : BOOLEAN, children : Seq(Nodes)]]
  BY <1>1 DEF Init
<1>3. Frame(Root, <<>>) \in FrameType
  BY TrieAssumption DEF TrieAssumption, Frame, FrameType
<1>4. /\ pc = "open" /\ error = "None" /\ stack = <<>> /\ next = Frame(Root, <<>>)
      /\ ranges = <<>> /\ kind = FALSE
  BY DEF Init
<1>5. IterTypes
  <2>1. /\ pc \in Pcs /\ error \in Errors /\ kind \in BOOLEAN /\ next \in FrameType
        /\ pc # "loop"
    BY <1>3, <1>4 DEF Pcs, Errors
  <2>2. stack \in Seq(FrameType) /\ ranges \in Seq(Nodes) /\ Len(stack) = 0
    BY <1>4
  <2> QED
    BY <1>2, <1>4, <2>1, <2>2, TrieAssumption DEF IterTypes, TrieAssumption
<1>6. InStep /\ RangesInv
  BY <1>4 DEF InStep, RangesInv, NoExportRecordedTwice
<1> QED
  BY <1>5, <1>6 DEF IterInv

-----------------------------------------------------------------------------
(* What the parts of Advance() do to the stack and to RangeList *)

LEMMA TopFacts ==
  ASSUME IterTypes, stack # <<>>
  PROVE  /\ Len(stack) \in Nat \ {0} /\ Top = stack[Len(stack)] /\ Top \in FrameType
         /\ \A k \in 1..Len(stack) : stack[k] \in FrameType
BY DEF IterTypes, Top, Last

LEMMA ChildrenType ==
  ASSUME IterTypes
  PROVE  \A x \in Nodes : Children(x) \in Seq(Nodes) /\ Len(Children(x)) \in Nat
<1> TAKE x \in Nodes
<1>1. trie[x] \in [export : BOOLEAN, children : Seq(Nodes)]
  BY DEF IterTypes
<1>2. Children(x) \in Seq(Nodes)
  BY <1>1 DEF Children
<1> QED
  BY <1>2

LEMMA FrontFacts ==
  ASSUME NEW S, NEW s \in Seq(S), Len(s) # 0
  PROVE  /\ Front(s) \in Seq(S) /\ Len(Front(s)) = Len(s) - 1
         /\ \A k \in 1..(Len(s) - 1) : Front(s)[k] = s[k]
<1> DEFINE m == Len(s) - 1
<1>1. m \in Nat /\ 1 \in Int /\ m \in Int /\ m - 1 + 1 = m /\ \A k \in 1..m : k \in 1..Len(s)
  OBVIOUS
<1>2. \A k \in 1..m : s[k] \in S
  BY <1>1
<1> HIDE DEF m
<1>3. /\ SubSeq(s, 1, m) \in Seq(S)
      /\ Len(SubSeq(s, 1, m)) = IF 1 <= m THEN m - 1 + 1 ELSE 0
      /\ \A k \in 1..(m - 1 + 1) : SubSeq(s, 1, m)[k] = s[1 + k - 1]
  BY <1>1, <1>2, SubSeqProperties
<1>4. Len(SubSeq(s, 1, m)) = m
  BY <1>1, <1>3
<1>5. \A k \in 1..m : SubSeq(s, 1, m)[k] = s[k]
  <2> TAKE k \in 1..m
  <2>1. 1 + k - 1 = k
    BY <1>1
  <2> QED
    BY <1>1, <1>3, <2>1
<1> QED
  BY <1>3, <1>4, <1>5 DEF Front, m

LEMMA ParseErrorFacts ==
  ASSUME NEW n
  PROVE  /\ ParseError(n) \in {"None", "Invalid", "OverlappingRanges"}
         /\ ParseError(n) = "None" => ~Overlaps(n)
BY DEF ParseError

\* Leaving a node for its parent: the parent goes on to its next edge, and of
\* RangeList only what comes after the node is forgotten.
LEMMA MoveUp ==
  ASSUME IterInv, pc \in {"advance", "loop"}, stack # <<>>,
         MoveUptoParentNode, kind' \in BOOLEAN,
         UNCHANGED <<trie, fault, error, next>>
  PROVE  IterInv'
<1> DEFINE n == Len(stack)
<1>0. IterTypes /\ InStep /\ RangesInv
  BY DEF IterInv
<1>1. /\ n \in Nat \ {0} /\ \A k \in 1..n : stack[k] \in FrameType
      /\ Top = stack[n] /\ Top \in FrameType
  BY <1>0, TopFacts
<1>2. ASSUME n = 1
      PROVE  IterInv'
  <2>1. stack' = <<>> /\ pc' = "end" /\ ranges' = ranges
    BY <1>2 DEF MoveUptoParentNode
  <2>2. IterTypes'
    BY <1>0, <2>1, TrieAssumption DEF IterTypes, TrieAssumption, Pcs
  <2>3. InStep'
    BY <2>1 DEF InStep
  <2>4. RangesInv'
    BY <1>0, <2>1 DEF RangesInv, NoExportRecordedTwice, IsExport
  <2> QED
    BY <2>2, <2>3, <2>4 DEF IterInv
<1>3. ASSUME n # 1
      PROVE  IterInv'
  <2> DEFINE parent == [stack[n - 1] EXCEPT !.ordinal = @ + 1]
  <2>1. n - 1 \in 1..n /\ n \in 1..n /\ n - 1 < n /\ n >= 2
    <3>1. n \in Nat /\ n # 0 /\ n # 1
      BY <1>1, <1>3
    <3> QED
      BY <3>1
  <2>2. /\ Len(Front(stack)) = n - 1 /\ Front(stack) \in Seq(FrameType)
        /\ \A k \in 1..(n - 1) : Front(stack)[k] = stack[k]
    BY <1>0, <1>1, FrontFacts DEF IterTypes
  <2>3. /\ stack[n - 1] \in FrameType /\ parent \in FrameType
        /\ parent.read = stack[n - 1].read /\ parent.node = stack[n - 1].node
        /\ parent.ordinal = stack[n - 1].ordinal + 1 /\ parent.ranges = stack[n - 1].ranges
    <3>1. stack[n - 1] \in FrameType
      BY <1>1, <2>1
    <3> QED
      BY <3>1, SMTT(30) DEF FrameType
  <2>4. stack' = [Front(stack) EXCEPT ![n - 1].ordinal = @ + 1] /\ pc' = "loop"
    BY <1>3 DEF MoveUptoParentNode
  <2>5. stack' = [Front(stack) EXCEPT ![n - 1] = parent]
    <3>1. Front(stack)[n - 1] = stack[n - 1]
      BY <1>1, <2>1, <2>2
    <3> QED
      BY <2>4, <3>1
  <2>6. /\ Len(stack') = n - 1 /\ stack' \in Seq(FrameType)
        /\ stack'[n - 1] = parent /\ \A k \in 1..(n - 2) : stack'[k] = stack[k]
    BY <1>1, <2>1, <2>2, <2>3, <2>5
  <2>7. stack' # <<>> /\ Top' = parent
    BY <1>1, <2>1, <2>6 DEF Top, Last
  <2>8. Pos(n) = Top.ranges /\ Pos(n) \in 1..Len(ranges) /\ ranges \in Seq(Nodes)
    BY <1>0, <1>1, <1>3, <2>1 DEF Pos, RangesInv, PathOnRecord, IterTypes
  <2>9. ranges' = SubSeq(ranges, 1, Pos(n))
    BY <1>3, <2>8 DEF MoveUptoParentNode
  <2>10. /\ ranges' \in Seq(Nodes) /\ Len(ranges') = Pos(n)
         /\ \A i \in 1..Pos(n) : ranges'[i] = ranges[i]
    BY <2>8, <2>9
  <2>11. IterTypes'
    BY <1>0, <1>1, <2>4, <2>6, <2>7, <2>10, TrieAssumption
    DEF IterTypes, TrieAssumption, Pcs
  <2>12. InStep'
    <3>1. /\ stack[n - 1].read = stack[n - 1].ordinal
          /\ stack[n - 1].read <= Len(Children(stack[n - 1].node))
      BY <1>0, <1>1, <2>1 DEF InStep
    <3>2. /\ parent.read = stack[n - 1].read /\ parent.node = stack[n - 1].node
          /\ parent.ordinal = stack[n - 1].ordinal + 1
      BY <2>3
    <3>3. stack[n - 1].read \in Nat /\ stack[n - 1].node \in Nodes
      BY <2>3 DEF FrameType
    <3>4. \A k \in 1..(n - 1) : Len(Children(stack[k].node)) \in Nat
      BY <1>0, <1>1, ChildrenType DEF FrameType
    <3>5. \A x : Children(x)' = Children(x)
      BY DEF Children
    <3>6. \A k \in 1..(n - 1) :
            /\ stack'[k].read <= Len(Children(stack'[k].node))
            /\ stack'[k].ordinal <= Len(Children(stack'[k].node)) + 1
      <4> TAKE k \in 1..(n - 1)
      <4>1. CASE k = n - 1
        <5>1. stack'[k] = parent /\ Len(Children(stack[n - 1].node)) \in Nat
          BY <2>6, <3>4, <4>1
        <5>2. /\ parent.read <= Len(Children(parent.node))
              /\ parent.ordinal <= Len(Children(parent.node)) + 1
          BY <3>1, <3>2, <3>3, <5>1
        <5> QED
          BY <5>1, <5>2
      <4>2. CASE k # n - 1
        <5>1. k \in 1..(n - 2) /\ k \in 1..n
          BY <1>1, <4>2
        <5> QED
          BY <1>0, <2>6, <5>1 DEF InStep
      <4> QED
        BY <4>1, <4>2
    <3>7. \A k \in 1..(n - 2) : stack'[k].read = stack'[k].ordinal
      <4> TAKE k \in 1..(n - 2)
      <4>1. k \in 1..(n - 1)
        BY <1>1
      <4> QED
        BY <1>0, <2>6, <4>1 DEF InStep
    <3>8. parent.ordinal = parent.read + 1
      BY <3>1, <3>2
    <3>9. n - 1 - 1 = n - 2
      BY <1>1
    <3> QED
      BY <2>4, <2>6, <2>7, <3>5, <3>6, <3>7, <3>8, <3>9 DEF InStep
  <2>13. RangesInv'
    <3>1. \A k \in 1..(n - 1) : stack'[k].node = stack[k].node /\ stack'[k].ranges = stack[k].ranges
      <4> TAKE k \in 1..(n - 1)
      <4>1. CASE k = n - 1
        BY <2>3, <2>6, <4>1 DEF FrameType
      <4>2. CASE k # n - 1
        BY <1>1, <2>6, <4>2
      <4> QED
        BY <4>1, <4>2
    <3>2. \A k \in 1..(n - 1) : Pos(k)' = Pos(k)
      BY <3>1 DEF Pos
    <3>3. \A k \in 1..(n - 1) : k \in 1..n /\ k < n
      BY <1>1
    <3>4. \A k \in 1..(n - 1) :
            Pos(k) \in 1..Len(ranges) /\ Pos(k) < Pos(n) /\ ranges[Pos(k)] = stack[k].node
      BY <1>0, <2>1, <3>3 DEF RangesInv, NoExportRecordedTwice, PathOnRecord
    <3>5. \A k \in 1..(n - 1) :
            Pos(k)' \in 1..Len(ranges') /\ ranges'[Pos(k)'] = stack'[k].node
      <4> TAKE k \in 1..(n - 1)
      <4>1. Pos(k)' = Pos(k) /\ stack'[k].node = stack[k].node
        BY <3>1, <3>2
      <4>2. Pos(k) \in 1..Pos(n) /\ ranges[Pos(k)] = stack[k].node
        BY <2>8, <3>4
      <4> QED
        BY <2>10, <4>1, <4>2
    <3>6. \A j, k \in 1..(n - 1) : j < k => Pos(j)' < Pos(k)'
      BY <1>0, <3>2, <3>3 DEF RangesInv, NoExportRecordedTwice, PathOnRecord
    <3>7. ranges' # <<>> /\ ranges'[1] = Root
      BY <1>0, <2>8, <2>10 DEF RangesInv, NoExportRecordedTwice, PathOnRecord
    <3>8. \A i, j \in 1..Len(ranges') :
            i # j /\ ranges'[i] = ranges'[j] => ~trie'[ranges'[i]].export
      <4>1. \A x : trie'[x].export = IsExport(x)
        BY DEF IsExport
      <4>2. \A i \in 1..Len(ranges') : i \in 1..Len(ranges)
        BY <2>8, <2>10
      <4>3. \A i, j \in 1..Len(ranges) : i # j /\ ranges[i] = ranges[j] => ~IsExport(ranges[i])
        BY <1>0 DEF RangesInv, NoExportRecordedTwice, PathOnRecord
      <4> QED
        BY <2>10, <4>1, <4>2, <4>3
    <3>9. pc' = "loop" /\ stack' # <<>> /\ Len(stack') = n - 1
      BY <2>4, <2>6, <2>7
    <3> QED
      BY <3>5, <3>6, <3>7, <3>8, <3>9 DEF RangesInv, NoExportRecordedTwice, PathOnRecord, IsExport
  <2> QED
    BY <2>11, <2>12, <2>13 DEF IterInv
<1> QED
  BY <1>2, <1>3

\* Replacing the last element of a sequence.
LEMMA ReplaceLast ==
  ASSUME NEW S, NEW s \in Seq(S), s # <<>>, NEW e \in S
  PROVE  /\ [s EXCEPT ![Len(s)] = e] \in Seq(S)
         /\ Len([s EXCEPT ![Len(s)] = e]) = Len(s)
         /\ [s EXCEPT ![Len(s)] = e][Len(s)] = e
         /\ \A k \in 1..(Len(s) - 1) : [s EXCEPT ![Len(s)] = e][k] = s[k]
OBVIOUS

\* A step that enters or leaves no node, and adds to RangeList at most a node
\* that does not overlap.
LEMMA RecordGrows ==
  ASSUME IterTypes, NoExportRecordedTwice, UNCHANGED trie,
         \/ ranges' = ranges
         \/ \E c \in Nodes : ~Overlaps(c) /\ ranges' = Append(ranges, c)
  PROVE  NoExportRecordedTwice'
<1> USE DEF NoExportRecordedTwice, IsExport
<1>1. CASE ranges' = ranges
  BY <1>1
<1>2. ASSUME NEW c \in Nodes, ~Overlaps(c), ranges' = Append(ranges, c)
      PROVE  NoExportRecordedTwice'
  <2>1. ranges \in Seq(Nodes)
    BY DEF IterTypes
  <2>2. trie[c].export => \A k \in 1..Len(ranges) : ranges[k] # c
    BY <1>2, <2>1 DEF Overlaps
  <2>3. /\ Len(ranges') = Len(ranges) + 1 /\ ranges'[Len(ranges) + 1] = c
        /\ \A k \in 1..Len(ranges) : ranges'[k] = ranges[k]
        /\ Len(ranges) \in Nat
    BY <1>2, <2>1
  <2>4. \A k \in 1..Len(ranges') : k \in 1..Len(ranges) \/ k = Len(ranges) + 1
    BY <2>3
  <2> QED
    BY <2>2, <2>3, <2>4
<1> QED
  BY <1>1, <1>2

LEMMA RecordStays ==
  ASSUME IterTypes, PathOnRecord,
         Len(stack') = Len(stack),
         \A k \in 1..Len(stack) :
            stack'[k].node = stack[k].node /\ stack'[k].ranges = stack[k].ranges,
         \/ ranges' = ranges
         \/ \E c \in Nodes : ranges' = Append(ranges, c)
  PROVE  PathOnRecord'
<1>1. /\ ranges \in Seq(Nodes) /\ Len(ranges) \in Nat \ {0}
  BY DEF IterTypes, PathOnRecord
<1>2. /\ Len(ranges') >= Len(ranges) /\ ranges' # <<>> /\ Len(ranges') \in Nat
      /\ \A k \in 1..Len(ranges) : ranges'[k] = ranges[k]
  <2>1. CASE ranges' = ranges
    BY <1>1, <2>1
  <2>2. CASE \E c \in Nodes : ranges' = Append(ranges, c)
    BY <1>1, <2>2
  <2> QED
    BY <2>1, <2>2
<1>3. \A k \in 1..Len(stack) : Pos(k)' = Pos(k)
  BY DEF Pos
<1>4. \A k \in 1..Len(stack) : Pos(k) \in 1..Len(ranges) /\ Pos(k) \in 1..Len(ranges')
  BY <1>1, <1>2 DEF PathOnRecord
<1>5. \A k \in 1..Len(stack) : ranges'[Pos(k)] = stack'[k].node
  BY <1>2, <1>4 DEF PathOnRecord
<1>6. ranges'[1] = Root
  BY <1>1, <1>2 DEF PathOnRecord
<1> QED
  BY <1>2, <1>3, <1>4, <1>5, <1>6 DEF PathOnRecord

\* What ParseNextNode makes of the next edge of the node of the top.
LEMMA NextEdge ==
  ASSUME IterTypes, stack # <<>>, Edge <= Len(Children(Top.node))
  PROVE  /\ Edge = Top.read + 1 /\ Child \in Nodes
         /\ NextError \in Errors /\ (NextError = "None" => ~Overlaps(Child))
         /\ NextFrame \in FrameType /\ NextFrame.node = Child
         /\ NextFrame.ordinal = 0 /\ NextFrame.read = 0
         /\ NextFrame.ranges = Len(ranges) + 1
         /\ EdgeRead \in Seq(FrameType) /\ Len(EdgeRead) = Len(stack)
         /\ \A k \in 1..(Len(stack) - 1) : EdgeRead[k] = stack[k]
         /\ EdgeRead[Len(stack)] = [Top EXCEPT !.read = Edge]
<1>1. Top \in FrameType /\ Top = stack[Len(stack)] /\ Len(stack) \in Nat \ {0}
  BY TopFacts
<1>2. Edge = Top.read + 1 /\ Edge \in Nat \ {0} /\ Top.node \in Nodes
  BY <1>1 DEF Edge, FrameType
<1>3. Children(Top.node) \in Seq(Nodes) /\ Child \in Nodes
  BY <1>2, ChildrenType DEF Child
<1>4. NextError \in Errors /\ (NextError = "None" => ~Overlaps(Child))
  <2>1. /\ ParseError(Child) \in {"None", "Invalid", "OverlappingRanges"}
        /\ ParseError(Child) = "None" => ~Overlaps(Child)
    BY ParseErrorFacts
  <2> QED
    BY <2>1 DEF NextError, Errors
<1>5. Prefix(Top.node, Edge) \in Seq(Nodes \X Nat)
  <2>1. <<Top.node, Edge>> \in Nodes \X Nat
    BY <1>2
  <2>2. \A x \in Nodes \X Nat : <<x>> \in Seq(Nodes \X Nat)
    OBVIOUS
  <2>3. <<>> \in Seq(Nodes \X Nat)
    OBVIOUS
  <2> QED
    BY <2>1, <2>2, <2>3 DEF Prefix
<1>6. Len(ranges) + 1 \in Nat
  BY DEF IterTypes
<1>7. /\ NextFrame \in FrameType /\ NextFrame.node = Child
      /\ NextFrame.ordinal = 0 /\ NextFrame.read = 0
      /\ NextFrame.ranges = Len(ranges) + 1
  BY <1>3, <1>5, <1>6 DEF NextFrame, Frame, FrameType
<1>8. [Top EXCEPT !.read = Edge] \in FrameType
  BY <1>1, <1>2 DEF FrameType
<1>9. EdgeRead = [stack EXCEPT ![Len(stack)] = [Top EXCEPT !.read = Edge]]
  BY <1>1 DEF EdgeRead
<1>10. /\ EdgeRead \in Seq(FrameType) /\ Len(EdgeRead) = Len(stack)
       /\ \A k \in 1..(Len(stack) - 1) : EdgeRead[k] = stack[k]
       /\ EdgeRead[Len(stack)] = [Top EXCEPT !.read = Edge]
  BY <1>8, <1>9, ReplaceLast DEF IterTypes
<1> QED
  BY <1>2, <1>3, <1>4, <1>7, <1>10

-----------------------------------------------------------------------------
(* The steps *)

\* A step that ends the walk with an error, whether it has read an edge or not.
LEMMA Failing ==
  ASSUME IterInv, pc \in {"advance", "loop"}, stack # <<>>,
         pc' = "error", error' \in Errors, kind' = kind, next' \in FrameType,
         stack' = stack \/ (Edge <= Len(Children(Top.node)) /\ stack' = EdgeRead),
         \/ ranges' = ranges
         \/ \E c \in Nodes : ~Overlaps(c) /\ ranges' = Append(ranges, c),
         UNCHANGED trie
  PROVE  IterInv'
<1> DEFINE n == Len(stack)
<1>0. IterTypes /\ InStep /\ RangesInv
  BY DEF IterInv
<1>1. NoExportRecordedTwice /\ PathOnRecord
  BY <1>0 DEF RangesInv
<1>2. /\ n \in Nat \ {0} /\ \A k \in 1..n : stack[k] \in FrameType
      /\ Top = stack[n] /\ Top \in FrameType
  BY <1>0, TopFacts
<1>3. \A x : Children(x)' = Children(x)
  BY DEF Children
<1>4. /\ stack' \in Seq(FrameType) /\ Len(stack') = n
      /\ \A k \in 1..n :
           /\ stack'[k].node = stack[k].node /\ stack'[k].ranges = stack[k].ranges
           /\ stack'[k].ordinal = stack[k].ordinal
           /\ stack'[k].read <= Len(Children(stack[k].node))
  <2>1. CASE stack' = stack
    BY <1>0, <2>1 DEF IterTypes, InStep
  <2>2. CASE Edge <= Len(Children(Top.node)) /\ stack' = EdgeRead
    <3>1. /\ stack' \in Seq(FrameType) /\ Len(stack') = n /\ Edge = Top.read + 1
          /\ \A k \in 1..(n - 1) : stack'[k] = stack[k]
          /\ stack'[n] = [Top EXCEPT !.read = Edge]
      BY <1>0, <2>2, NextEdge
    <3>2. /\ stack'[n].node = Top.node /\ stack'[n].ranges = Top.ranges
          /\ stack'[n].ordinal = Top.ordinal /\ stack'[n].read = Edge
      BY <1>2, <3>1 DEF FrameType
    <3> SUFFICES ASSUME NEW k \in 1..n
                 PROVE  /\ stack'[k].node = stack[k].node
                        /\ stack'[k].ranges = stack[k].ranges
                        /\ stack'[k].ordinal = stack[k].ordinal
                        /\ stack'[k].read <= Len(Children(stack[k].node))
      BY <3>1
    <3>3. CASE k = n
      BY <1>2, <2>2, <3>2, <3>3
    <3>4. CASE k # n
      <4>1. k \in 1..(n - 1)
        BY <1>2, <3>4
      <4> QED
        BY <1>0, <3>1, <4>1 DEF InStep
    <3> QED
      BY <3>3, <3>4
  <2> QED
    BY <2>1, <2>2
<1>5. IterTypes'
  <2>1. ranges' \in Seq(Nodes)
    <3>1. ranges \in Seq(Nodes)
      BY <1>0 DEF IterTypes
    <3>2. \A c \in Nodes : Append(ranges, c) \in Seq(Nodes)
      BY <3>1
    <3> QED
      BY <3>1, <3>2
  <2>2. pc' \in Pcs /\ pc' # "loop" /\ pc' \notin {"open", "end"}
    BY DEF Pcs
  <2> QED
    BY <1>0, <1>4, <2>1, <2>2 DEF IterTypes
<1>6. InStep'
  BY <1>0, <1>3, <1>4 DEF InStep
<1>7. RangesInv'
  <2>1. NoExportRecordedTwice'
    BY <1>0, <1>1, RecordGrows
  <2>2. PathOnRecord'
    BY <1>0, <1>1, <1>4, RecordStays
  <2> QED
    BY <2>1, <2>2 DEF RangesInv
<1> QED
  BY <1>5, <1>6, <1>7 DEF IterInv

LEMMA OpenStep == IterInv /\ Open => IterInv'
<1> SUFFICES ASSUME IterInv, Open
             PROVE  IterInv'
  OBVIOUS
<1>1. /\ IterTypes /\ RangesInv /\ stack = <<>> /\ ranges = <<>> /\ next = Frame(Root, <<>>)
      /\ UNCHANGED <<trie, fault, stack, next, kind>>
  BY DEF IterInv, Open, file, RangesInv, IterTypes
<1>2. CASE error' = ParseError(Root) /\ pc' = "end" /\ ranges' = ranges
  <2>1. error' \in Errors
    BY <1>2, ParseErrorFacts DEF Errors
  <2>2. IterTypes'
    BY <1>1, <1>2, <2>1 DEF IterTypes, Pcs
  <2>3. InStep' /\ RangesInv'
    BY <1>1, <1>2 DEF InStep, RangesInv, NoExportRecordedTwice
  <2> QED
    BY <2>2, <2>3 DEF IterInv
<1>3. CASE ranges' = <<Root>> /\ pc' = "advance" /\ error' = error
  <2>1. ranges' \in Seq(Nodes) /\ Len(ranges') = 1 /\ ranges'[1] = Root
    BY <1>3, TrieAssumption DEF TrieAssumption
  <2>2. IterTypes'
    BY <1>1, <1>3, <2>1 DEF IterTypes, Pcs
  <2>3. InStep'
    BY <1>1, <1>3 DEF InStep
  <2>4. RangesInv'
    BY <1>1, <1>3, <2>1 DEF RangesInv, NoExportRecordedTwice, PathOnRecord
  <2> QED
    BY <2>2, <2>3, <2>4 DEF IterInv
<1> QED
  BY <1>2, <1>3 DEF Open

LEMMA ResumeEmptyStep == IterInv /\ ResumeEmpty => IterInv'
<1> SUFFICES ASSUME IterInv, ResumeEmpty
             PROVE  IterInv'
  OBVIOUS
<1>1. /\ pc = "advance" /\ stack = <<>> /\ stack' = Append(stack, next) /\ pc' = "loop"
      /\ UNCHANGED <<trie, fault, error, next, ranges, kind>>
  BY DEF ResumeEmpty, SetupInfoForNewStack, file
<1>2. /\ IterTypes /\ NoExportRecordedTwice /\ PathOnRecord
      /\ next = Frame(Root, <<>>) /\ next \in FrameType
  BY <1>1 DEF IterInv, RangesInv, IterTypes
<1>3. /\ stack' \in Seq(FrameType) /\ Len(stack') = 1 /\ stack'[1] = next /\ stack' # <<>>
      /\ Top' = next
  BY <1>1, <1>2 DEF Top, Last
<1>4. next.node = Root /\ next.ordinal = 0 /\ next.read = 0
  BY <1>2 DEF Frame
<1>5. IterTypes'
  BY <1>1, <1>2, <1>3, TrieAssumption DEF IterTypes, Pcs, TrieAssumption
<1>6. InStep'
  <2>1. Len(Children(Root)') \in Nat
    BY <1>1, <1>2, ChildrenType, TrieAssumption DEF TrieAssumption, Children
  <2> QED
    BY <1>1, <1>3, <1>4, <2>1 DEF InStep
<1>7. RangesInv'
  <2>1. NoExportRecordedTwice'
    BY <1>1, <1>2, RecordGrows
  <2>2. PathOnRecord'
    BY <1>1, <1>2, <1>3, <1>4 DEF PathOnRecord, Pos, IterTypes
  <2> QED
    BY <1>1, <2>1, <2>2 DEF RangesInv
<1> QED
  BY <1>5, <1>6, <1>7 DEF IterInv

LEMMA ResumeTooDeepStep == IterInv /\ ResumeTooDeep => IterInv'
<1> SUFFICES ASSUME IterInv, ResumeTooDeep
             PROVE  IterInv'
  OBVIOUS
<1>1. /\ IterTypes /\ pc = "advance" /\ Len(stack) = MaxDepth
      /\ error' = "TooDeep" /\ pc' = "error"
      /\ UNCHANGED <<trie, stack, next, ranges, kind>>
  BY DEF IterInv, ResumeTooDeep, AtMaxDepth, Fail, file
<1>2. stack # <<>> /\ next' \in FrameType /\ error' \in Errors
  BY <1>1, TrieAssumption DEF TrieAssumption, IterTypes, Errors
<1> QED
  BY <1>1, <1>2, Failing

LEMMA ResumeExportLeafStep == IterInv /\ ResumeExportLeaf => IterInv'
<1> SUFFICES ASSUME IterInv, ResumeExportLeaf
             PROVE  IterInv'
  OBVIOUS
<1>1. /\ pc = "advance" /\ stack # <<>> /\ MoveUptoParentNode /\ kind' = FALSE
      /\ UNCHANGED <<trie, fault, error, next>>
  BY DEF ResumeExportLeaf, Resumable, file
<1> QED
  BY <1>1, MoveUp

\* A step that moves the innermost node on to the edge after the last one read.
LEMMA SetOrdinal ==
  ASSUME IterInv, pc = "advance", stack # <<>>,
         stack' = [stack EXCEPT ![Len(stack)].ordinal = 1], Top.read = 0,
         pc' = "loop", kind' \in BOOLEAN, UNCHANGED <<trie, error, next, ranges>>
  PROVE  IterInv'
<1> DEFINE n == Len(stack)
           e == [Top EXCEPT !.ordinal = 1]
<1>0. IterTypes /\ InStep /\ RangesInv /\ NoExportRecordedTwice /\ PathOnRecord
  BY DEF IterInv, RangesInv
<1>1. /\ n \in Nat \ {0} /\ Top = stack[n] /\ Top \in FrameType
  BY <1>0, TopFacts
<1>2. /\ e \in FrameType /\ e.node = Top.node /\ e.ranges = Top.ranges
      /\ e.ordinal = 1 /\ e.read = 0
  BY <1>1 DEF FrameType
<1>3. stack' = [stack EXCEPT ![n] = e]
  BY <1>1
<1>4. /\ stack' \in Seq(FrameType) /\ Len(stack') = n /\ stack'[n] = e
      /\ \A k \in 1..(n - 1) : stack'[k] = stack[k]
  <2>1. stack \in Seq(FrameType) /\ stack # <<>> /\ e \in FrameType
    BY <1>0, <1>2 DEF IterTypes
  <2> HIDE DEF e
  <2> DEFINE s == [stack EXCEPT ![Len(stack)] = e]
  <2>2. /\ s \in Seq(FrameType) /\ Len(s) = Len(stack) /\ s[Len(stack)] = e
        /\ \A k \in 1..(Len(stack) - 1) : s[k] = stack[k]
    BY <2>1, ReplaceLast
  <2>3. stack' = s
    BY <1>3
  <2> QED
    BY <2>2, <2>3
<1>5. stack' # <<>> /\ Top' = e
  BY <1>1, <1>4 DEF Top, Last
<1>6. \A k \in 1..n : k = n \/ k \in 1..(n - 1)
  BY <1>1
<1>7. \A k \in 1..n : stack'[k].node = stack[k].node /\ stack'[k].ranges = stack[k].ranges
  BY <1>1, <1>2, <1>4, <1>6
<1>8. IterTypes'
  BY <1>0, <1>4, <1>5 DEF IterTypes, Pcs
<1>9. InStep'
  <2>1. \A x : Children(x)' = Children(x)
    BY DEF Children
  <2>2. Len(Children(Top.node)) \in Nat
    BY <1>0, <1>1, ChildrenType DEF FrameType
  <2>3. \A k \in 1..n : /\ stack'[k].read <= Len(Children(stack'[k].node))
                        /\ stack'[k].ordinal <= Len(Children(stack'[k].node)) + 1
    BY <1>0, <1>2, <1>4, <1>6, <2>2 DEF InStep
  <2>4. \A k \in 1..(n - 1) : stack'[k].read = stack'[k].ordinal
    BY <1>0, <1>4 DEF InStep
  <2> QED
    BY <1>2, <1>4, <1>5, <2>1, <2>3, <2>4 DEF InStep
<1>10. RangesInv'
  <2>1. NoExportRecordedTwice'
    BY <1>0, RecordGrows
  <2>2. PathOnRecord'
    BY <1>0, <1>4, <1>7, RecordStays
  <2> QED
    BY <2>1, <2>2 DEF RangesInv
<1> QED
  BY <1>8, <1>9, <1>10 DEF IterInv

LEMMA ResumeExportStep == IterInv /\ ResumeExport => IterInv'
<1> SUFFICES ASSUME IterInv, ResumeExport
             PROVE  IterInv'
  OBVIOUS
<1>1. /\ pc = "advance" /\ stack # <<>> /\ IsExport(Top.node) /\ kind' = FALSE
      /\ stack' = [stack EXCEPT ![Len(stack)].ordinal = 1] /\ pc' = "loop"
      /\ UNCHANGED <<trie, error, next, ranges>>
  BY DEF ResumeExport, Resumable, file
<1>2. Top.read = 0
  BY <1>1 DEF IterInv, InStep
<1> QED
  BY <1>1, <1>2, SetOrdinal

LEMMA VisitFaultyExportStep == IterInv /\ VisitFaultyExport => IterInv'
<1> SUFFICES ASSUME IterInv, VisitFaultyExport
             PROVE  IterInv'
  OBVIOUS
<1>1. /\ pc = "loop" /\ pc' = "error" /\ error' \in Errors
      /\ UNCHANGED <<trie, stack, next, ranges, kind>>
  BY DEF VisitFaultyExport, FirstVisit, Looping, Fail, Errors, file
<1>2. stack # <<>> /\ next' \in FrameType
  BY <1>1 DEF IterInv, IterTypes
<1> QED
  BY <1>1, <1>2, Failing

LEMMA VisitExportStep == IterInv /\ VisitExport => IterInv'
<1> SUFFICES ASSUME IterInv, VisitExport
             PROVE  IterInv'
  OBVIOUS
<1>1. /\ pc = "loop" /\ Top.ordinal = 0 /\ IsExport(Top.node) /\ pc' = "advance"
      /\ kind' = (kind \/ ~At("unknownKind", Top.node))
      /\ UNCHANGED <<trie, error, stack, next, ranges>>
  BY DEF VisitExport, FirstVisit, Looping, file
<1>2. IterTypes /\ InStep /\ RangesInv /\ stack # <<>> /\ Top \in FrameType
  BY <1>1, TopFacts DEF IterInv, IterTypes
<1>3. Top.read = 0
  BY <1>1, <1>2 DEF InStep, FrameType
<1>4. kind' \in BOOLEAN
  BY <1>1
<1>5. IterTypes'
  BY <1>1, <1>2, <1>4 DEF IterTypes, Pcs
<1>6. InStep'
  BY <1>1, <1>2, <1>3 DEF InStep, Children, IsExport, Top
<1>7. RangesInv'
  <2>1. NoExportRecordedTwice' /\ PathOnRecord'
    BY <1>1, <1>2 DEF RangesInv, NoExportRecordedTwice, PathOnRecord, IsExport, Pos
  <2> QED
    BY <1>1, <1>2, <2>1 DEF RangesInv, IsExport, Top
<1> QED
  BY <1>5, <1>6, <1>7 DEF IterInv

LEMMA SkipBarrenStep == IterInv /\ SkipBarren => IterInv'
<1> SUFFICES ASSUME IterInv, SkipBarren
             PROVE  IterInv'
  OBVIOUS
<1>1. /\ pc = "loop" /\ MoveUptoParentNode
      /\ UNCHANGED <<trie, fault, error, next, kind>>
  BY DEF SkipBarren, FirstVisit, Looping, file
<1>2. stack # <<>> /\ kind' \in BOOLEAN
  BY <1>1 DEF IterInv, IterTypes
<1> QED
  BY <1>1, <1>2, MoveUp

LEMMA FinishNodeStep == IterInv /\ FinishNode => IterInv'
<1> SUFFICES ASSUME IterInv, FinishNode
             PROVE  IterInv'
  OBVIOUS
<1>1. /\ pc = "loop" /\ MoveUptoParentNode
      /\ UNCHANGED <<trie, fault, error, next, kind>>
  BY DEF FinishNode, Looping, file
<1>2. stack # <<>> /\ kind' \in BOOLEAN
  BY <1>1 DEF IterInv, IterTypes
<1> QED
  BY <1>1, <1>2, MoveUp

\* Entering a node that is on record after the one it is a child of: s is the
\* path so far, with the ordinals and the edges read as the step leaves them.
LEMMA Enter ==
  ASSUME IterInv, pc \in {"advance", "loop"}, stack # <<>>, Len(stack) # MaxDepth,
         NEW s \in Seq(FrameType), NEW f \in FrameType,
         stack' = Append(s, f), Len(s) = Len(stack),
         \A k \in 1..Len(stack) :
            /\ s[k].node = stack[k].node /\ s[k].ranges = stack[k].ranges
            /\ s[k].read = s[k].ordinal /\ s[k].read <= Len(Children(stack[k].node)),
         f.ordinal = 0, f.read = 0,
         \/ ranges' = ranges
         \/ \E c \in Nodes : ~Overlaps(c) /\ ranges' = Append(ranges, c),
         f.ranges = Len(ranges'), ranges'[Len(ranges')] = f.node,
         Pos(Len(stack)) < Len(ranges'),
         pc' = "loop", kind' = kind, error' = error, next' \in FrameType,
         UNCHANGED trie
  PROVE  IterInv'
<1> DEFINE n == Len(stack)
<1>0. IterTypes /\ RangesInv /\ NoExportRecordedTwice /\ PathOnRecord
  BY DEF IterInv, RangesInv
<1>1. n \in Nat \ {0} /\ n + 1 <= MaxDepth
  BY <1>0, TrieAssumption DEF IterTypes, TrieAssumption
<1>2. /\ stack' \in Seq(FrameType) /\ Len(stack') = n + 1 /\ stack'[n + 1] = f
      /\ \A k \in 1..n : stack'[k] = s[k]
  OBVIOUS
<1>3. stack' # <<>> /\ Top' = f
  BY <1>1, <1>2 DEF Top, Last
<1>4. /\ ranges \in Seq(Nodes) /\ Len(ranges) \in Nat \ {0}
      /\ ranges' \in Seq(Nodes) /\ Len(ranges') \in Nat \ {0} /\ Len(ranges) <= Len(ranges')
      /\ \A i \in 1..Len(ranges) : ranges'[i] = ranges[i]
  <2>1. ranges \in Seq(Nodes) /\ Len(ranges) \in Nat \ {0}
    BY <1>0 DEF IterTypes, PathOnRecord
  <2>2. CASE ranges' = ranges
    BY <2>1, <2>2
  <2>3. CASE \E c \in Nodes : ~Overlaps(c) /\ ranges' = Append(ranges, c)
    BY <2>1, <2>3
  <2> QED
    BY <2>1, <2>2, <2>3
<1>5. \A k \in 1..(n + 1) : k = n + 1 \/ k \in 1..n
  BY <1>1
<1>6. IterTypes'
  BY <1>0, <1>1, <1>2, <1>3, <1>4 DEF IterTypes, Pcs
<1>7. InStep'
  <2>1. \A x : Children(x)' = Children(x)
    BY DEF Children
  <2>2. Len(Children(f.node)) \in Nat /\ \A k \in 1..n : Len(Children(stack[k].node)) \in Nat
    <3>1. f.node \in Nodes
      BY DEF FrameType
    <3>2. \A k \in 1..n : stack[k].node \in Nodes
      BY <1>0, TopFacts DEF FrameType
    <3> QED
      BY <1>0, <3>1, <3>2, ChildrenType
  <2>3. \A k \in 1..n : /\ s[k].read \in Nat /\ s[k].read = s[k].ordinal
                        /\ s[k].read <= Len(Children(s[k].node))
                        /\ s[k].ordinal <= Len(Children(s[k].node)) + 1
    <3>1. \A k \in 1..n : s[k].read \in Nat
      <4>1. \A k \in 1..n : s[k] \in FrameType
        OBVIOUS
      <4> QED
        BY <4>1 DEF FrameType
    <3> QED
      BY <2>2, <3>1
  <2>4. \A k \in 1..(n + 1) : /\ stack'[k].read <= Len(Children(stack'[k].node))
                              /\ stack'[k].ordinal <= Len(Children(stack'[k].node)) + 1
    BY <1>2, <1>5, <2>2, <2>3, SMTT(30)
  <2>5. n + 1 - 1 = n
    BY <1>1
  <2> QED
    <3>1. \A k \in 1..(n + 1 - 1) : stack'[k].read = stack'[k].ordinal
      BY <1>2, <2>3, <2>5
    <3>2. pc' = "loop" /\ Top'.ordinal = 0 /\ Top'.read = 0
      BY <1>3
    <3> QED
      BY <1>2, <2>1, <2>4, <3>1, <3>2, SMTT(30) DEF InStep
<1>8. RangesInv'
  <2>1. NoExportRecordedTwice'
    BY <1>0, RecordGrows
  <2>2. \A k \in 1..n : Pos(k)' = Pos(k)
    BY <1>2 DEF Pos
  <2>3. \A k : k = n + 1 => Pos(k)' = Len(ranges')
    <3>1. n + 1 # 1 /\ stack'[n + 1].ranges = Len(ranges')
      BY <1>1, <1>2
    <3> QED
      BY <3>1 DEF Pos
  <2>4. \A k \in 1..n : /\ Pos(k) \in 1..Len(ranges) /\ ranges[Pos(k)] = stack[k].node
                        /\ Pos(k) \in Nat /\ Pos(k) <= Pos(n)
    <3>1. \A k \in 1..n : Pos(k) \in 1..Len(ranges) /\ ranges[Pos(k)] = stack[k].node
      BY <1>0 DEF PathOnRecord
    <3>2. n \in 1..n /\ \A k \in 1..n : k = n \/ k < n
      BY <1>1
    <3>3. \A k \in 1..n : k < n => Pos(k) < Pos(n)
      BY <1>0, <3>2 DEF PathOnRecord
    <3>4. \A k \in 1..n : Pos(k) \in Nat
      BY <1>4, <3>1
    <3> QED
      BY <3>1, <3>2, <3>3, <3>4, SMTT(30)
  <2>5. \A k \in 1..(n + 1) : Pos(k)' \in 1..Len(ranges') /\ ranges'[Pos(k)'] = stack'[k].node
    <3> TAKE k \in 1..(n + 1)
    <3>1. CASE k = n + 1
      BY <1>2, <1>4, <2>3, <3>1
    <3>2. CASE k # n + 1
      <4>1. k \in 1..n /\ stack'[k].node = stack[k].node /\ Pos(k)' = Pos(k)
        BY <1>2, <1>5, <2>2, <3>2
      <4> QED
        BY <1>4, <2>4, <4>1
    <3> QED
      BY <3>1, <3>2
  <2>6. \A j, k \in 1..(n + 1) : j < k => Pos(j)' < Pos(k)'
    <3> TAKE j, k \in 1..(n + 1)
    <3> HAVE j < k
    <3>1. j \in 1..n
      BY <1>1
    <3>2. CASE k = n + 1
      <4>1. Pos(n) \in Nat /\ Pos(j) \in Nat /\ Pos(j) <= Pos(n)
        BY <1>1, <2>4, <3>1
      <4>2. Pos(j)' = Pos(j) /\ Pos(k)' = Len(ranges')
        BY <2>2, <2>3, <3>1, <3>2
      <4>3. Pos(n) < Len(ranges')
        OBVIOUS
      <4> QED
        BY <1>4, <4>1, <4>2, <4>3
    <3>3. CASE k # n + 1
      <4>1. k \in 1..n /\ Pos(j)' = Pos(j) /\ Pos(k)' = Pos(k)
        BY <1>5, <2>2, <3>1, <3>3
      <4> QED
        BY <1>0, <3>1, <4>1 DEF PathOnRecord
    <3> QED
      BY <3>2, <3>3
  <2>7. ranges' # <<>> /\ ranges'[1] = Root
    <3>1. ranges[1] = Root /\ 1 \in 1..Len(ranges)
      BY <1>0, <1>4 DEF PathOnRecord
    <3>2. ranges'[1] = ranges[1]
      BY <1>4, <3>1
    <3> QED
      BY <1>4, <3>1, <3>2
  <2>8. PathOnRecord'
    BY <1>2, <2>5, <2>6, <2>7 DEF PathOnRecord
  <2> QED
    BY <1>3, <2>1, <2>8 DEF RangesInv
<1> QED
  BY <1>6, <1>7, <1>8 DEF IterInv

LEMMA ResumeInteriorStep == IterInv /\ ResumeInterior => IterInv'
<1> SUFFICES ASSUME IterInv, ResumeInterior
             PROVE  IterInv'
  OBVIOUS
<1> DEFINE n == Len(stack)
           e == [Top EXCEPT !.ordinal = @ + 1]
           s == [stack EXCEPT ![n].ordinal = @ + 1]
<1>1. /\ pc = "advance" /\ stack # <<>> /\ n # MaxDepth /\ ~IsExport(Top.node)
      /\ stack' = Append(s, next) /\ pc' = "loop"
      /\ UNCHANGED <<trie, error, next, ranges, kind>>
  BY DEF ResumeInterior, Resumable, AtMaxDepth, SetupInfoForNewStack, file
<1>2. /\ IterTypes /\ InStep /\ RangesInv
      /\ n \in Nat \ {0} /\ Top = stack[n] /\ Top \in FrameType
      /\ stack \in Seq(FrameType) /\ next \in FrameType
  BY <1>1, TopFacts DEF IterInv, IterTypes
<1>3. Top.ordinal = 0 /\ Top.read = 1 /\ Top.read <= Len(Children(Top.node))
  BY <1>1, <1>2 DEF InStep
<1>4. /\ e \in FrameType /\ e.node = Top.node /\ e.ranges = Top.ranges
      /\ e.ordinal = 1 /\ e.read = 1
  <2>1. Top.ordinal + 1 = 1 /\ e = [Top EXCEPT !.ordinal = 1]
    BY <1>3
  <2> QED
    BY <1>2, <1>3, <2>1 DEF FrameType
<1>5. s = [stack EXCEPT ![n] = e]
  BY <1>2
<1>6. /\ s \in Seq(FrameType) /\ Len(s) = n /\ s[n] = e /\ \A k \in 1..(n - 1) : s[k] = stack[k]
  BY <1>1, <1>2, <1>4, <1>5, ReplaceLast
<1>7. \A k \in 1..n : /\ s[k].node = stack[k].node /\ s[k].ranges = stack[k].ranges
                      /\ s[k].read = s[k].ordinal
                      /\ s[k].read <= Len(Children(stack[k].node))
  <2>1. \A k \in 1..n : k = n \/ k \in 1..(n - 1)
    BY <1>2
  <2> QED
    BY <1>1, <1>2, <1>3, <1>4, <1>6, <2>1 DEF InStep
<1>8. /\ next.ranges = Len(ranges) /\ ranges[Len(ranges)] = next.node
      /\ next.ordinal = 0 /\ next.read = 0 /\ Pos(n) < Len(ranges)
  BY <1>1, <1>2 DEF RangesInv
<1> HIDE DEF s
<1> QED
  BY <1>1, <1>2, <1>6, <1>7, <1>8, Enter

\* The edge that the innermost node reads next is one it has.
LEMMA ReadsAnEdge ==
  ASSUME IterInv, pc = "loop", Top.ordinal # Len(Children(Top.node)) + 1,
         Top.ordinal # 0 \/ Children(Top.node) # <<>>
  PROVE  Edge <= Len(Children(Top.node)) /\ Edge = IF Top.ordinal = 0 THEN 1 ELSE Top.ordinal
<1>1. /\ IterTypes /\ InStep /\ stack # <<>>
  BY DEF IterInv, IterTypes
<1>2. /\ Len(stack) \in Nat \ {0} /\ Top = stack[Len(stack)] /\ Top \in FrameType
  BY <1>1, TopFacts
<1>3. Top.node \in Nodes /\ Top.ordinal \in Nat /\ Top.read \in Nat
  BY <1>2 DEF FrameType
<1>4. Children(Top.node) \in Seq(Nodes) /\ Len(Children(Top.node)) \in Nat
  BY <1>1, <1>3, ChildrenType
<1>5. Top.ordinal = Top.read + 1 \/ (Top.ordinal = 0 /\ Top.read = 0)
  BY <1>1 DEF InStep
<1>6. Top.ordinal <= Len(Children(Top.node)) + 1
  BY <1>1, <1>2 DEF InStep
<1>7. CASE Top.ordinal = 0
  BY <1>3, <1>4, <1>5, <1>7 DEF Edge
<1>8. CASE Top.ordinal # 0
  BY <1>3, <1>4, <1>5, <1>6, <1>8 DEF Edge
<1> QED
  BY <1>7, <1>8

\* Recording the child that the next edge leads to.
LEMMA RecordChild ==
  ASSUME IterInv, pc = "loop", stack # <<>>,
         Edge <= Len(Children(Top.node)), NextError = "None",
         ranges' = Append(ranges, Child)
  PROVE  /\ \E c \in Nodes : ~Overlaps(c) /\ ranges' = Append(ranges, c)
         /\ Len(ranges') = NextFrame.ranges /\ ranges'[Len(ranges')] = NextFrame.node
         /\ Pos(Len(stack)) < Len(ranges')
<1>1. IterTypes /\ PathOnRecord /\ ranges \in Seq(Nodes) /\ Len(ranges) \in Nat
  BY DEF IterInv, RangesInv, IterTypes
<1>2. /\ Child \in Nodes /\ ~Overlaps(Child) /\ NextFrame.node = Child
      /\ NextFrame.ranges = Len(ranges) + 1
  BY <1>1, NextEdge
<1>3. Len(ranges') = Len(ranges) + 1 /\ ranges'[Len(ranges) + 1] = Child
  BY <1>1, <1>2
<1>4. Pos(Len(stack)) \in 1..Len(ranges)
  <2>1. Len(stack) \in 1..Len(stack)
    BY <1>1, TopFacts
  <2> QED
    BY <1>1, <2>1 DEF PathOnRecord
<1>5. Pos(Len(stack)) < Len(ranges')
  BY <1>1, <1>3, <1>4
<1> QED
  BY <1>2, <1>3, <1>5

LEMMA VisitInteriorStep == IterInv /\ VisitInterior => IterInv'
<1> SUFFICES ASSUME IterInv, VisitInterior
             PROVE  IterInv'
  OBVIOUS
<1> DEFINE n == Len(stack)
<1>1. /\ pc = "loop" /\ Top.ordinal = 0 /\ ~IsExport(Top.node)
      /\ Children(Top.node) # <<>> /\ stack' = EdgeRead
      /\ UNCHANGED <<trie, kind>>
  BY DEF VisitInterior, FirstVisit, Looping, file
<1>2. /\ IterTypes /\ InStep /\ RangesInv /\ NoExportRecordedTwice /\ PathOnRecord
      /\ stack # <<>> /\ next \in FrameType
  BY <1>1 DEF IterInv, IterTypes, RangesInv
<1>3. n \in Nat \ {0} /\ Top = stack[n] /\ Top \in FrameType
  BY <1>2, TopFacts
<1>4. Children(Top.node) \in Seq(Nodes) /\ Len(Children(Top.node)) \in Nat
  BY <1>2, <1>3, ChildrenType DEF FrameType
<1>5. Edge <= Len(Children(Top.node)) /\ Edge = 1
  <2>1. Top.ordinal # Len(Children(Top.node)) + 1
    BY <1>1, <1>4
  <2> QED
    BY <1>1, <2>1, ReadsAnEdge
<1>6. ASSUME NextError # "None"
      PROVE  IterInv'
  <2>1. pc' = "error" /\ error' = NextError /\ UNCHANGED <<next, ranges>>
    BY <1>6 DEF VisitInterior, Fail
  <2>2. error' \in Errors
    BY <1>2, <1>5, <2>1, NextEdge
  <2> QED
    BY <1>1, <1>2, <1>5, <2>1, <2>2, Failing
<1>7. ASSUME NextError = "None"
      PROVE  IterInv'
  <2>1. /\ next' = NextFrame /\ ranges' = Append(ranges, Child) /\ pc' = "advance"
        /\ error' = error
    BY <1>7 DEF VisitInterior
  <2>2. /\ Edge = Top.read + 1 /\ NextFrame \in FrameType
        /\ NextFrame.ordinal = 0 /\ NextFrame.read = 0
        /\ EdgeRead \in Seq(FrameType) /\ Len(EdgeRead) = n
        /\ \A k \in 1..(n - 1) : EdgeRead[k] = stack[k]
        /\ EdgeRead[n] = [Top EXCEPT !.read = Edge]
    BY <1>2, <1>5, NextEdge
  <2>3. /\ \E c \in Nodes : ~Overlaps(c) /\ ranges' = Append(ranges, c)
        /\ Len(ranges') = NextFrame.ranges /\ ranges'[Len(ranges')] = NextFrame.node
        /\ Pos(n) < Len(ranges')
    BY <1>1, <1>2, <1>5, <1>7, <2>1, RecordChild
  <2>4. /\ stack'[n].node = Top.node /\ stack'[n].ranges = Top.ranges
        /\ stack'[n].ordinal = 0 /\ stack'[n].read = 1
    BY <1>1, <1>3, <1>5, <2>2 DEF FrameType
  <2>5. Len(stack') = n /\ stack' # <<>> /\ Top' = stack'[n]
    BY <1>1, <1>3, <2>2 DEF Top, Last
  <2>6. \A k \in 1..n : k = n \/ k \in 1..(n - 1)
    BY <1>3
  <2>7. \A k \in 1..n : stack'[k].node = stack[k].node /\ stack'[k].ranges = stack[k].ranges
    BY <1>1, <1>3, <2>2, <2>4, <2>6
  <2>8. \A k : k = n => Pos(k)' = Pos(k)
    BY <1>3, <2>4 DEF Pos
  <2>9. \A x : Children(x)' = Children(x) /\ trie'[x].export = IsExport(x)
    BY <1>1 DEF Children, IsExport
  <2>10. IterTypes'
    <3>1. ranges' \in Seq(Nodes)
      BY <1>2, <2>3 DEF IterTypes
    <3> QED
      BY <1>1, <1>2, <2>1, <2>2, <3>1 DEF IterTypes, Pcs
  <2>11. InStep'
    <3>1. \A k \in 1..n : /\ stack'[k].read <= Len(Children(stack'[k].node))
                          /\ stack'[k].ordinal <= Len(Children(stack'[k].node)) + 1
      <4> TAKE k \in 1..n
      <4>1. CASE k = n
        BY <1>4, <1>5, <2>4, <4>1
      <4>2. CASE k # n
        <5>1. stack'[k] = stack[k]
          BY <1>1, <2>2, <2>6, <4>2
        <5> QED
          BY <1>2, <5>1 DEF InStep
      <4> QED
        BY <4>1, <4>2
    <3>2. \A k \in 1..(n - 1) : stack'[k].read = stack'[k].ordinal
      BY <1>1, <1>2, <2>2 DEF InStep
    <3>3. Top'.ordinal = 0 /\ Top'.read = 1 /\ ~trie'[Top'.node].export
      BY <1>1, <2>4, <2>5, <2>9
    <3> QED
      BY <2>1, <2>5, <2>9, <3>1, <3>2, <3>3 DEF InStep, IsExport
  <2>12. RangesInv'
    <3>1. NoExportRecordedTwice'
      BY <1>1, <1>2, <2>3, RecordGrows
    <3>2. PathOnRecord'
      BY <1>2, <2>3, <2>5, <2>7, RecordStays
    <3>3. \A k : k = Len(stack') => Pos(k)' < Len(ranges')
      BY <2>3, <2>5, <2>8
    <3> QED
      BY <2>1, <2>2, <2>3, <2>5, <3>1, <3>2, <3>3 DEF RangesInv
  <2> QED
    BY <2>10, <2>11, <2>12 DEF IterInv
<1> QED
  BY <1>6, <1>7

LEMMA NextChildStep == IterInv /\ NextChild => IterInv'
<1> SUFFICES ASSUME IterInv, NextChild
             PROVE  IterInv'
  OBVIOUS
<1> DEFINE n == Len(stack)
<1>1. /\ pc = "loop" /\ Top.ordinal # 0 /\ Top.ordinal # Len(Children(Top.node)) + 1
      /\ UNCHANGED <<trie, kind>>
  BY DEF NextChild, Looping, file
<1>2. /\ IterTypes /\ InStep /\ RangesInv /\ stack # <<>> /\ next \in FrameType
  BY <1>1 DEF IterInv, IterTypes
<1>3. Edge <= Len(Children(Top.node)) /\ Edge = Top.ordinal
  BY <1>1, ReadsAnEdge
<1>4. /\ n \in Nat \ {0} /\ Top = stack[n] /\ Top \in FrameType
  BY <1>2, TopFacts
<1>5. /\ NextError \in Errors /\ NextFrame \in FrameType
      /\ NextFrame.ordinal = 0 /\ NextFrame.read = 0
      /\ EdgeRead \in Seq(FrameType) /\ Len(EdgeRead) = n
      /\ \A k \in 1..(n - 1) : EdgeRead[k] = stack[k]
      /\ EdgeRead[n] = [Top EXCEPT !.read = Edge]
  BY <1>2, <1>3, NextEdge
<1>6. ASSUME NextError # "None"
      PROVE  IterInv'
  <2>1. pc' = "error" /\ error' = NextError /\ stack' = EdgeRead /\ UNCHANGED <<next, ranges>>
    BY <1>6 DEF NextChild, Fail
  <2> QED
    BY <1>1, <1>2, <1>3, <1>5, <2>1, Failing
<1>7. ASSUME NextError = "None"
      PROVE  IterInv'
  <2>1. next' = NextFrame /\ ranges' = Append(ranges, Child)
    BY <1>7 DEF NextChild
  <2>2. /\ \E c \in Nodes : ~Overlaps(c) /\ ranges' = Append(ranges, c)
        /\ Len(ranges') = NextFrame.ranges /\ ranges'[Len(ranges')] = NextFrame.node
        /\ Pos(n) < Len(ranges')
    BY <1>1, <1>2, <1>3, <1>7, <2>1, RecordChild
  <2>3. ASSUME AtMaxDepth
        PROVE  IterInv'
    <3>1. pc' = "error" /\ error' = "TooDeep" /\ stack' = EdgeRead
      BY <1>7, <2>3 DEF NextChild, Fail
    <3>2. error' \in Errors
      BY <3>1 DEF Errors
    <3> QED
      BY <1>1, <1>2, <1>3, <1>5, <2>1, <2>2, <3>1, <3>2, Failing
  <2>4. ASSUME ~AtMaxDepth
        PROVE  IterInv'
    <3>1. stack' = Append(EdgeRead, NextFrame) /\ pc' = pc /\ error' = error
      BY <1>7, <2>4 DEF NextChild, SetupInfoForNewStack
    <3>2. /\ EdgeRead[n].node = Top.node /\ EdgeRead[n].ranges = Top.ranges
          /\ EdgeRead[n].ordinal = Top.ordinal /\ EdgeRead[n].read = Edge
      BY <1>4, <1>5 DEF FrameType
    <3>3. \A k \in 1..n : /\ EdgeRead[k].node = stack[k].node
                          /\ EdgeRead[k].ranges = stack[k].ranges
                          /\ EdgeRead[k].read = EdgeRead[k].ordinal
                          /\ EdgeRead[k].read <= Len(Children(stack[k].node))
      <4> TAKE k \in 1..n
      <4>1. CASE k = n
        BY <1>3, <1>4, <3>2, <4>1
      <4>2. CASE k # n
        <5>1. k \in 1..(n - 1) /\ EdgeRead[k] = stack[k]
          BY <1>4, <1>5, <4>2
        <5> QED
          BY <1>1, <1>2, <5>1 DEF InStep
      <4> QED
        BY <4>1, <4>2
    <3>4. Len(stack) # MaxDepth
      BY <2>4 DEF AtMaxDepth
    <3> QED
      BY <1>1, <1>2, <1>5, <2>1, <2>2, <3>1, <3>3, <3>4, Enter
  <2> QED
    BY <2>3, <2>4
<1> QED
  BY <1>6, <1>7

LEMMA IterInvStep == IterInv /\ [Next]_vars => IterInv'
<1> SUFFICES ASSUME IterInv, [Next]_vars
             PROVE  IterInv'
  OBVIOUS
<1>1. CASE Open
  BY <1>1, OpenStep
<1>2. CASE ResumeEmpty
  BY <1>2, ResumeEmptyStep
<1>3. CASE ResumeTooDeep
  BY <1>3, ResumeTooDeepStep
<1>4. CASE ResumeExportLeaf
  BY <1>4, ResumeExportLeafStep
<1>5. CASE ResumeExport
  BY <1>5, ResumeExportStep
<1>6. CASE ResumeInterior
  BY <1>6, ResumeInteriorStep
<1>7. CASE VisitFaultyExport
  BY <1>7, VisitFaultyExportStep
<1>8. CASE VisitExport
  BY <1>8, VisitExportStep
<1>9. CASE SkipBarren
  BY <1>9, SkipBarrenStep
<1>10. CASE VisitInterior
  BY <1>10, VisitInteriorStep
<1>11. CASE FinishNode
  BY <1>11, FinishNodeStep
<1>12. CASE NextChild
  BY <1>12, NextChildStep
<1>13. CASE UNCHANGED vars
  <2>1. IterTypes'
    BY <1>13 DEF IterInv, vars, IterTypes
  <2>2. InStep'
    BY <1>13 DEF IterInv, vars, InStep, Children, IsExport, Top
  <2>3. RangesInv'
    BY <1>13 DEF IterInv, vars, RangesInv, NoExportRecordedTwice, PathOnRecord, Pos,
                 IsExport, Top
  <2> QED
    BY <2>1, <2>2, <2>3 DEF IterInv
<1> QED
  BY <1>1, <1>2, <1>3, <1>4, <1>5, <1>6, <1>7, <1>8, <1>9, <1>10, <1>11, <1>12, <1>13
  DEF Next, Advance, Stopped

LEMMA IterInvAlways == Spec => []IterInv
<1> QED
  BY IterInvInit, IterInvStep, PTL DEF Spec

-----------------------------------------------------------------------------
(* Sequences of sequences, end to end *)

\* f[k] is what the first k of seqs make, end to end.
IsFlat(seqs, f) ==
  f[0] = <<>> /\ \A k \in 1..Len(seqs) : f[k] = f[k - 1] \o seqs[k]

LEMMA FlattenIsFlat ==
  ASSUME NEW S, NEW seqs \in Seq(Seq(S))
  PROVE  \E f : /\ IsFlat(seqs, f) /\ FlattenSeq(seqs) = f[Len(seqs)]
                /\ \A k \in 0..Len(seqs) : f[k] \in Seq(S)
<1>1. Len(seqs) \in Nat /\ <<>> \in Seq(S) /\ \A k \in 1..Len(seqs) : seqs[k] \in Seq(S)
  OBVIOUS
<1> DEFINE n == Len(seqs)
           step == [q \in Seq(S) \X (1..n) |-> q[1] \o seqs[q[2]]]
<1>2. step \in [Seq(S) \X (1..n) -> Seq(S)]
  <2> SUFFICES ASSUME NEW q \in Seq(S) \X (1..n) PROVE q[1] \o seqs[q[2]] \in Seq(S)
    OBVIOUS
  <2>1. q[1] \in Seq(S) /\ seqs[q[2]] \in Seq(S)
    BY <1>1
  <2> QED
    BY <2>1
<1>3. PICK f : Ind!IsRecursion(f, Seq(S), <<>>, n, step)
  <2> HIDE DEF step
  <2> QED
    BY <1>1, <1>2, Ind!FunctionByRecursion
<1>4. f \in [0..n -> Seq(S)] /\ f[0] = <<>>
  BY <1>3 DEF Ind!IsRecursion
<1>5. \A k \in 1..n : f[k] = f[k - 1] \o seqs[k]
  <2> SUFFICES ASSUME NEW k \in 1..n PROVE f[k] = f[k - 1] \o seqs[k]
    OBVIOUS
  <2>1. k - 1 \in 0..n
    BY <1>1
  <2>2. f[k - 1] \in Seq(S)
    BY <1>4, <2>1
  <2>3. f[k] = step[<<f[k - 1], k>>]
    BY <1>3 DEF Ind!IsRecursion
  <2> QED
    BY <2>2, <2>3
<1>6. CASE n = 0
  <2>1. FlattenSeq(seqs) = seqs /\ seqs = <<>>
    BY <1>1, <1>6 DEF FlattenSeq
  <2> QED
    BY <1>4, <1>5, <1>6, <2>1 DEF IsFlat
<1>7. CASE n # 0
  <2> DEFINE Equation(g) == g = [i \in 1..n |-> IF i = 1 THEN seqs[i] ELSE g[i - 1] \o seqs[i]]
             h == [i \in 1..n |-> f[i]]
             F == CHOOSE g : Equation(g)
  <2>0. f[1] = <<>> \o seqs[1] /\ seqs[1] \in Seq(S)
    <3>1. 1 \in 1..n /\ 1 - 1 = 0
      BY <1>1, <1>7
    <3>2. f[1] = f[1 - 1] \o seqs[1]
      BY <1>5, <3>1
    <3> QED
      BY <1>1, <1>4, <3>1, <3>2
  <2>1. Equation(h)
    <3> SUFFICES ASSUME NEW i \in 1..n
                 PROVE  f[i] = IF i = 1 THEN seqs[i] ELSE h[i - 1] \o seqs[i]
      OBVIOUS
    <3>1. CASE i = 1
      <4>1. f[1] = <<>> \o seqs[1] /\ seqs[1] \in Seq(S)
        BY <2>0
      <4> QED
        BY <3>1, <4>1
    <3>2. CASE i # 1
      <4>1. i - 1 \in 1..n
        BY <1>1, <3>2
      <4>2. h[i - 1] = f[i - 1]
        BY <4>1
      <4> QED
        BY <1>5, <3>2, <4>2
    <3> QED
      BY <3>1, <3>2
  <2>2. FlattenSeq(seqs) = F[n]
    BY <1>7 DEF FlattenSeq
  <2>3. Equation(F)
    BY <2>1
  <2> HIDE DEF F
  <2> DEFINE P == {k \in Nat : k + 1 <= n => F[k + 1] = f[k + 1]}
  <2>4. \A i \in 1..n : F[i] = IF i = 1 THEN seqs[i] ELSE F[i - 1] \o seqs[i]
    BY <2>3
  <2>5. \A i \in 1..n : f[i] = IF i = 1 THEN seqs[i] ELSE f[i - 1] \o seqs[i]
    <3> SUFFICES ASSUME NEW i \in 1..n, i = 1 PROVE f[i] = seqs[i]
      BY <1>5
    <3>1. f[1] = <<>> \o seqs[1] /\ seqs[1] \in Seq(S)
      BY <2>0
    <3> QED
      BY <3>1
  <2>6. 0 \in P
    BY <1>1, <2>4, <2>5
  <2>7. ASSUME NEW k \in Nat, k \in P PROVE k + 1 \in P
    <3> SUFFICES ASSUME k + 1 + 1 <= n PROVE F[k + 1 + 1] = f[k + 1 + 1]
      OBVIOUS
    <3>1. /\ k + 1 + 1 \in 1..n /\ k + 1 + 1 # 1 /\ (k + 1 + 1) - 1 = k + 1
          /\ F[k + 1] = f[k + 1]
      BY <1>1, <2>7
    <3> QED
      BY <2>4, <2>5, <3>1
  <2> HIDE DEF P
  <2>8. Nat \subseteq P
    BY <2>6, <2>7, Ind!SetInduction
  <2>9. n - 1 \in P /\ n - 1 + 1 = n
    BY <1>1, <1>7, <2>8
  <2>10. FlattenSeq(seqs) = f[n]
    BY <1>1, <2>2, <2>9 DEF P
  <2> QED
    BY <1>4, <1>5, <2>10 DEF IsFlat
<1> QED
  BY <1>6, <1>7

LEMMA FlattenNothing == FlattenSeq(<<>>) = <<>>
BY DEF FlattenSeq

LEMMA FlattenAppend ==
  ASSUME NEW S, NEW seqs \in Seq(Seq(S)), NEW e \in Seq(S)
  PROVE  /\ FlattenSeq(seqs) \in Seq(S)
         /\ FlattenSeq(Append(seqs, e)) = FlattenSeq(seqs) \o e
<1> DEFINE t == Append(seqs, e)
           n == Len(seqs)
<1>1. /\ t \in Seq(Seq(S)) /\ n \in Nat /\ Len(t) = n + 1 /\ t[n + 1] = e
      /\ \A k \in 1..n : t[k] = seqs[k]
  OBVIOUS
<1> HIDE DEF t
<1>2. PICK f : /\ IsFlat(seqs, f) /\ FlattenSeq(seqs) = f[n]
               /\ \A k \in 0..n : f[k] \in Seq(S)
  BY FlattenIsFlat
<1>3. PICK g : IsFlat(t, g) /\ FlattenSeq(t) = g[n + 1]
  BY <1>1, FlattenIsFlat
<1> DEFINE P == {k \in Nat : k <= n => f[k] = g[k]}
<1>4. 0 \in P
  BY <1>2, <1>3 DEF IsFlat
<1>5. ASSUME NEW k \in Nat, k \in P PROVE k + 1 \in P
  <2> SUFFICES ASSUME k + 1 <= n PROVE f[k + 1] = g[k + 1]
    OBVIOUS
  <2>1. f[k] = g[k] /\ k + 1 \in 1..n /\ k + 1 \in 1..(n + 1) /\ (k + 1) - 1 = k
    BY <1>1, <1>5
  <2>2. f[k + 1] = f[k] \o seqs[k + 1]
    BY <1>2, <2>1 DEF IsFlat
  <2>3. g[k + 1] = g[k] \o t[k + 1]
    BY <1>1, <1>3, <2>1 DEF IsFlat
  <2> QED
    BY <1>1, <2>1, <2>2, <2>3
<1> HIDE DEF P
<1>6. Nat \subseteq P
  BY <1>4, <1>5, Ind!SetInduction
<1>7. f[n] = g[n]
  BY <1>1, <1>6 DEF P
<1>8. n + 1 \in 1..Len(t) /\ (n + 1) - 1 = n
  BY <1>1
<1>9. g[n + 1] = g[n] \o e
  BY <1>1, <1>3, <1>8 DEF IsFlat
<1> QED
  BY <1>1, <1>2, <1>3, <1>7, <1>9 DEF t

-----------------------------------------------------------------------------
(* Paths *)

\* f[k] is the node that the first k steps of p lead to.
IsAlong(p, f) ==
  f[0] = Root /\ \A k \in 1..Len(p) : f[k] = Follow(f[k - 1], p[k])

LEMMA FollowType ==
  ASSUME IterTypes, NEW n, NEW i
  PROVE  Follow(n, i) \in Nodes \cup {Null}
<1>1. CASE n \in Nodes /\ i \in DOMAIN Children(n)
  <2>1. Children(n) \in Seq(Nodes)
    BY <1>1, ChildrenType
  <2>2. Children(n)[i] \in Nodes
    BY <1>1, <2>1
  <2> QED
    BY <1>1, <2>2 DEF Follow
<1>2. CASE ~(n \in Nodes /\ i \in DOMAIN Children(n))
  BY <1>2 DEF Follow
<1> QED
  BY <1>1, <1>2

LEMMA NodeAtIsAlong ==
  ASSUME IterTypes, NEW p \in Seq(Nat)
  PROVE  \E f : /\ IsAlong(p, f) /\ NodeAt(p) = f[Len(p)]
                /\ \A k \in 0..Len(p) : f[k] \in Nodes \cup {Null}
<1> DEFINE n == Len(p)
           T == Nodes \cup {Null}
           step == [q \in T \X (1..n) |-> Follow(q[1], p[q[2]])]
<1>1. n \in Nat /\ Root \in T
  BY TrieAssumption DEF TrieAssumption
<1>2. step \in [T \X (1..n) -> T]
  BY FollowType
<1>3. PICK f : Ind!IsRecursion(f, T, Root, n, step)
  <2> HIDE DEF step, T
  <2> QED
    BY <1>1, <1>2, Ind!FunctionByRecursion
<1>4. f \in [0..n -> T] /\ f[0] = Root
  BY <1>3 DEF Ind!IsRecursion
<1>5. \A k \in 1..n : f[k] = Follow(f[k - 1], p[k])
  <2> SUFFICES ASSUME NEW k \in 1..n PROVE f[k] = Follow(f[k - 1], p[k])
    OBVIOUS
  <2>1. k - 1 \in 0..n
    BY <1>1
  <2>2. f[k - 1] \in T
    BY <1>4, <2>1
  <2>3. f[k] = step[<<f[k - 1], k>>]
    BY <1>3 DEF Ind!IsRecursion
  <2> HIDE DEF T
  <2> QED
    BY <2>2, <2>3
<1> DEFINE Equation(g) == g = [k \in 0..n |-> IF k = 0 THEN Root ELSE Follow(g[k - 1], p[k])]
           F == CHOOSE g : Equation(g)
<1>6. Equation(f)
  BY <1>1, <1>4, <1>5
<1>7. NodeAt(p) = F[n]
  BY DEF NodeAt
<1>8. Equation(F)
  BY <1>6
<1> HIDE DEF F
<1>9. \A k \in 0..n : F[k] = IF k = 0 THEN Root ELSE Follow(F[k - 1], p[k])
  BY <1>8
<1>10. IsAlong(p, F)
  <2>1. 0 \in 0..n /\ \A k \in 1..n : k \in 0..n /\ k # 0
    BY <1>1
  <2> QED
    BY <1>9, <2>1 DEF IsAlong
<1>11. \A k \in 0..n : F[k] \in T
  <2> SUFFICES ASSUME NEW k \in 0..n PROVE F[k] \in T
    OBVIOUS
  <2> QED
    BY <1>1, <1>9, FollowType
<1> QED
  BY <1>7, <1>10, <1>11

LEMMA NodeAtRoot == IterTypes => NodeAt(<<>>) = Root
<1>1. <<>> \in Seq(Nat) /\ Len(<<>>) = 0
  OBVIOUS
<1>2. ASSUME IterTypes PROVE NodeAt(<<>>) = Root
  <2>1. PICK f : IsAlong(<<>>, f) /\ NodeAt(<<>>) = f[Len(<<>>)]
    BY <1>1, <1>2, NodeAtIsAlong
  <2> QED
    BY <1>1, <2>1 DEF IsAlong
<1> QED
  BY <1>2

\* A step more follows one edge.
LEMMA NodeAtAppend ==
  ASSUME IterTypes, NEW p \in Seq(Nat), NEW i \in Nat
  PROVE  /\ NodeAt(p) \in Nodes \cup {Null}
         /\ NodeAt(Append(p, i)) = Follow(NodeAt(p), i)
<1> DEFINE t == Append(p, i)
           n == Len(p)
<1>1. /\ t \in Seq(Nat) /\ n \in Nat /\ Len(t) = n + 1 /\ t[n + 1] = i
      /\ \A k \in 1..n : t[k] = p[k]
  OBVIOUS
<1> HIDE DEF t
<1>2. PICK f : /\ IsAlong(p, f) /\ NodeAt(p) = f[n]
               /\ \A k \in 0..n : f[k] \in Nodes \cup {Null}
  BY NodeAtIsAlong
<1>3. PICK g : IsAlong(t, g) /\ NodeAt(t) = g[n + 1]
  BY <1>1, NodeAtIsAlong
<1> DEFINE P == {k \in Nat : k <= n => f[k] = g[k]}
<1>4. 0 \in P
  BY <1>2, <1>3 DEF IsAlong
<1>5. ASSUME NEW k \in Nat, k \in P PROVE k + 1 \in P
  <2> SUFFICES ASSUME k + 1 <= n PROVE f[k + 1] = g[k + 1]
    OBVIOUS
  <2>1. f[k] = g[k] /\ k + 1 \in 1..n /\ k + 1 \in 1..(n + 1) /\ (k + 1) - 1 = k
    BY <1>1, <1>5
  <2>2. f[k + 1] = Follow(f[k], p[k + 1])
    BY <1>2, <2>1 DEF IsAlong
  <2>3. g[k + 1] = Follow(g[k], t[k + 1])
    BY <1>1, <1>3, <2>1 DEF IsAlong
  <2> QED
    BY <1>1, <2>1, <2>2, <2>3
<1> HIDE DEF P
<1>6. Nat \subseteq P
  BY <1>4, <1>5, Ind!SetInduction
<1>7. f[n] = g[n]
  BY <1>1, <1>6 DEF P
<1>8. n + 1 \in 1..Len(t) /\ (n + 1) - 1 = n
  BY <1>1
<1>9. g[n + 1] = Follow(g[n], i)
  BY <1>1, <1>3, <1>8 DEF IsAlong
<1> QED
  BY <1>1, <1>2, <1>3, <1>7, <1>9 DEF t

\* The nodes and prefixes are those of the file, which does not change.
LEMMA FileStays ==
  ASSUME UNCHANGED <<trie, fault>>
  PROVE  /\ \A x : Children(x)' = Children(x) /\ IsExport(x)' = IsExport(x)
         /\ \A p : NodeAt(p)' = NodeAt(p)
         /\ \A x, i : Prefix(x, i)' = Prefix(x, i)
         /\ \A p : StringAt(p)' = StringAt(p)
         /\ \A f, x : At(f, x)' = At(f, x)
<1>1. \A x : Children(x)' = Children(x) /\ IsExport(x)' = IsExport(x)
  BY DEF Children, IsExport
<1>2. \A x, i : Prefix(x, i)' = Prefix(x, i)
  BY DEF Prefix, At
<1>3. \A p : NodeAt(p)' = NodeAt(p)
  BY DEF NodeAt, Follow, Children
<1>4. \A p : StringAt(p)' = StringAt(p)
  BY <1>2, <1>3 DEF StringAt
<1>5. \A f, x : At(f, x)' = At(f, x)
  BY DEF At
<1> QED
  BY <1>1, <1>2, <1>3, <1>4, <1>5

LEMMA PrefixType ==
  ASSUME NEW n, NEW i \in Nat
  PROVE  Prefix(n, i) \in Seq({n} \X Nat)
<1> DEFINE S == {n} \X Nat
<1>1. <<n, i>> \in S
  OBVIOUS
<1> HIDE DEF S
<1>2. <<>> \in Seq(S) /\ \A x \in S : <<x>> \in Seq(S)
  OBVIOUS
<1>3. Prefix(n, i) \in Seq(S)
  BY <1>1, <1>2 DEF Prefix
<1> QED
  BY <1>3 DEF S

LEMMA FunctionIsSeq ==
  ASSUME NEW T, NEW m \in Nat, NEW f \in [1..m -> T]
  PROVE  f \in Seq(T) /\ Len(f) = m
OBVIOUS

LEMMA StringAtRoot == StringAt(<<>>) = <<>>
<1>1. DOMAIN <<>> = {}
  OBVIOUS
<1>2. [k \in DOMAIN <<>> |-> Prefix(NodeAt(SubSeq(<<>>, 1, k - 1)), <<>>[k])] = <<>>
  BY <1>1
<1> QED
  BY <1>2, FlattenNothing DEF StringAt

\* A step more adds the prefix of its edge.
LEMMA StringAtAppend ==
  ASSUME IterTypes, NEW p \in Seq(Nat), NEW i \in Nat
  PROVE  StringAt(Append(p, i)) = StringAt(p) \o Prefix(NodeAt(p), i)
<1> DEFINE t == Append(p, i)
           n == Len(p)
           S == (Nodes \cup {Null}) \X Nat
           parts(q) == [k \in DOMAIN q |-> Prefix(NodeAt(SubSeq(q, 1, k - 1)), q[k])]
           e == Prefix(NodeAt(p), i)
<1>0. p \in Seq(Nat) /\ i \in Nat
  OBVIOUS
<1>1. /\ t \in Seq(Nat) /\ n \in Nat /\ Len(t) = n + 1 /\ t[n + 1] = i
      /\ DOMAIN p = 1..n /\ DOMAIN t = 1..(n + 1)
      /\ \A k \in 1..n : t[k] = p[k]
  OBVIOUS
<1>2. \A k \in 1..(n + 1) : SubSeq(t, 1, k - 1) = SubSeq(p, 1, k - 1)
  OBVIOUS
<1>3. SubSeq(p, 1, n) = p /\ (n + 1) - 1 = n
  OBVIOUS
<1> HIDE DEF t
<1>4. \A q \in Seq(Nat) : NodeAt(q) \in Nodes \cup {Null}
  BY NodeAtAppend
<1>5. \A q \in Seq(Nat), j \in Nat : Prefix(NodeAt(q), j) \in Seq(S)
  <2> SUFFICES ASSUME NEW q \in Seq(Nat), NEW j \in Nat
               PROVE  Prefix(NodeAt(q), j) \in Seq(S)
    OBVIOUS
  <2>1. Prefix(NodeAt(q), j) \in Seq({NodeAt(q)} \X Nat)
    BY PrefixType
  <2>2. {NodeAt(q)} \X Nat \subseteq S
    BY <1>4
  <2> HIDE DEF S
  <2> QED
    BY <2>1, <2>2
<1>6. parts(p) \in Seq(Seq(S)) /\ Len(parts(p)) = n /\ e \in Seq(S)
  <2>1. \A k \in 1..n : SubSeq(p, 1, k - 1) \in Seq(Nat) /\ p[k] \in Nat
    OBVIOUS
  <2>2. \A k \in 1..n : parts(p)[k] \in Seq(S)
    BY <1>1, <1>5, <2>1
  <2>3. parts(p) \in [1..n -> Seq(S)]
    BY <1>1, <2>2
  <2>4. e \in Seq(S)
    BY <1>0, <1>5
  <2> HIDE DEF parts, e, S
  <2> QED
    BY <1>1, <2>3, <2>4, FunctionIsSeq
<1>7. parts(t) = Append(parts(p), e)
  <2>1. /\ Append(parts(p), e) = [k \in 1..(n + 1) |-> IF k = n + 1 THEN e ELSE parts(p)[k]]
    BY <1>1, <1>6
  <2>2. \A k \in 1..(n + 1) : parts(t)[k] = IF k = n + 1 THEN e ELSE parts(p)[k]
    <3> SUFFICES ASSUME NEW k \in 1..(n + 1)
                 PROVE  parts(t)[k] = IF k = n + 1 THEN e ELSE parts(p)[k]
      OBVIOUS
    <3>1. parts(t)[k] = Prefix(NodeAt(SubSeq(p, 1, k - 1)), t[k])
      BY <1>1, <1>2
    <3>2. CASE k = n + 1
      BY <1>1, <1>3, <3>1, <3>2
    <3>3. CASE k # n + 1
      <4>1. k \in 1..n
        BY <1>1, <3>3
      <4>2. parts(p)[k] = Prefix(NodeAt(SubSeq(p, 1, k - 1)), p[k])
        BY <1>1, <4>1
      <4> QED
        BY <1>1, <3>1, <3>3, <4>1, <4>2
    <3> QED
      BY <3>2, <3>3
  <2> QED
    BY <1>1, <2>1, <2>2
<1> HIDE DEF parts, e, S
<1>8. FlattenSeq(Append(parts(p), e)) = FlattenSeq(parts(p)) \o e
  BY <1>6, FlattenAppend
<1> QED
  BY <1>7, <1>8 DEF StringAt, parts, e, t

-----------------------------------------------------------------------------
(* The path of the stack *)

\* The edges that lead to the k-th node of the stack.
PathTo(k) == [j \in 1..(k - 1) |-> stack[j].ordinal]

\* The stack is a path from the root; what ParseNextNode has read before a call
\* that goes on with it is the first edge of the innermost node.
StackInv ==
  /\ StackIsPath
  /\ stack # <<>> => stack[1].node = Root /\ stack[1].prefix = <<>>
  /\ \A k \in 1..(Len(stack) - 1) : stack[k].ordinal # 0
  /\ pc \in {"open", "advance"} /\ stack = <<>> => string = <<>>
  /\ pc = "advance" /\ stack # <<>> /\ ~IsExport(Top.node) =>
       next.node = Children(Top.node)[1] /\ next.prefix = Prefix(Top.node, 1)

LEMMA PathFacts ==
  ASSUME IterTypes, NEW k \in 1..Len(stack)
  PROVE  /\ PathTo(k) \in Seq(Nat) /\ Len(PathTo(k)) = k - 1
         /\ PathTo(k + 1) = Append(PathTo(k), stack[k].ordinal)
         /\ stack[k].ordinal \in Nat /\ stack[k].node \in Nodes /\ stack[k].read \in Nat
         /\ stack[k].prefix \in Seq(Nodes \X Nat)
<1>1. k \in Nat /\ k - 1 \in Nat /\ (k + 1) - 1 = k
  OBVIOUS
<1>2. \A j \in 1..Len(stack) : /\ stack[j].ordinal \in Nat /\ stack[j].node \in Nodes
                               /\ stack[j].prefix \in Seq(Nodes \X Nat)
                               /\ stack[j].read \in Nat
  <2>1. \A j \in 1..Len(stack) : stack[j] \in FrameType
    BY DEF IterTypes
  <2> QED
    BY <2>1 DEF FrameType
<1>3. \A j \in 1..k : j \in 1..Len(stack)
  BY DEF IterTypes
<1>4. PathTo(k) \in [1..(k - 1) -> Nat]
  BY <1>1, <1>2, <1>3 DEF PathTo
<1>5. PathTo(k) \in Seq(Nat) /\ Len(PathTo(k)) = k - 1
  BY <1>1, <1>4
<1>6. PathTo(k + 1) = Append(PathTo(k), stack[k].ordinal)
  <2>1. Append(PathTo(k), stack[k].ordinal)
          = [j \in 1..k |-> IF j = k THEN stack[k].ordinal ELSE PathTo(k)[j]]
    BY <1>1, <1>5
  <2>2. \A j \in 1..k : stack[j].ordinal
                          = IF j = k THEN stack[k].ordinal ELSE PathTo(k)[j]
    BY <1>1 DEF PathTo
  <2>3. PathTo(k + 1) = [j \in 1..k |-> stack[j].ordinal]
    BY <1>1 DEF PathTo
  <2> QED
    BY <2>1, <2>2, <2>3
<1> QED
  BY <1>2, <1>5, <1>6

LEMMA PathToRoot == PathTo(1) = <<>>
<1>1. 1 - 1 = 0 /\ 1..0 = {}
  OBVIOUS
<1> QED
  BY <1>1 DEF PathTo

\* The prefixes of the first k nodes of the stack.
PrefixesTo(k) == [j \in 1..k |-> stack[j].prefix]

LEMMA PrefixFacts ==
  ASSUME IterTypes, NEW k \in 0..Len(stack)
  PROVE  /\ PrefixesTo(k) \in Seq(Seq(Nodes \X Nat)) /\ Len(PrefixesTo(k)) = k
         /\ k + 1 \in 1..Len(stack) =>
              PrefixesTo(k + 1) = Append(PrefixesTo(k), stack[k + 1].prefix)
<1> DEFINE T == Seq(Nodes \X Nat)
<1>1. k \in Nat /\ \A j \in 1..k : j \in 1..Len(stack)
  BY DEF IterTypes
<1>2. \A j \in 1..Len(stack) : stack[j].prefix \in T
  BY PathFacts
<1> HIDE DEF T
<1>3. PrefixesTo(k) \in [1..k -> T]
  BY <1>1, <1>2 DEF PrefixesTo
<1>4. PrefixesTo(k) \in Seq(T) /\ Len(PrefixesTo(k)) = k
  BY <1>1, <1>3, FunctionIsSeq
<1>5. ASSUME k + 1 \in 1..Len(stack)
      PROVE  PrefixesTo(k + 1) = Append(PrefixesTo(k), stack[k + 1].prefix)
  <2> DEFINE e == stack[k + 1].prefix
  <2>1. Append(PrefixesTo(k), e) = [j \in 1..(k + 1) |-> IF j = k + 1 THEN e ELSE PrefixesTo(k)[j]]
    BY <1>1, <1>4
  <2>2. \A j \in 1..(k + 1) : stack[j].prefix = IF j = k + 1 THEN e ELSE PrefixesTo(k)[j]
    BY <1>1 DEF PrefixesTo
  <2> QED
    BY <2>1, <2>2 DEF PrefixesTo
<1> QED
  BY <1>4, <1>5 DEF T

\* The node and the string of the path are those of the trie.
LEMMA StackFollowsTrie ==
  ASSUME IterTypes, InStep, StackInv
  PROVE  /\ \A k \in 1..Len(stack) : NodeAt(PathTo(k)) = stack[k].node
         /\ \A k \in 1..(Len(stack) - 1) :
              stack[k].ordinal \in 1..Len(Children(stack[k].node))
         /\ stack # <<>> => StringAt(PathTo(Len(stack))) = string
<1> DEFINE n == Len(stack)
           Good(k) == /\ NodeAt(PathTo(k)) = stack[k].node
                      /\ StringAt(PathTo(k)) = FlattenSeq(PrefixesTo(k))
           P == {i \in Nat : i + 1 <= n => Good(i + 1)}
<1>1. stack \in Seq(FrameType) /\ n \in Nat
  BY DEF IterTypes
<1>2. \A k \in 1..(n - 1) : /\ k \in 1..n /\ k + 1 \in 1..n /\ (k + 1) - 1 = k /\ k + 1 \in 2..n
  BY <1>1
<1>3. \A k \in 1..(n - 1) : stack[k].ordinal \in 1..Len(Children(stack[k].node))
  <2> SUFFICES ASSUME NEW k \in 1..(n - 1)
               PROVE  stack[k].ordinal \in 1..Len(Children(stack[k].node))
    OBVIOUS
  <2>1. stack[k].read = stack[k].ordinal /\ stack[k].ordinal # 0
    BY <1>2 DEF StackInv, StackIsPath
  <2>2. stack[k].read <= Len(Children(stack[k].node)) /\ stack[k].ordinal \in Nat
    BY <1>2, PathFacts DEF InStep
  <2>3. Len(Children(stack[k].node)) \in Nat
    BY <1>2, PathFacts, ChildrenType
  <2> QED
    BY <2>1, <2>2, <2>3
<1>4. 0 \in P
  <2> SUFFICES ASSUME n # 0 PROVE Good(1)
    BY <1>1
  <2>1. stack # <<>> /\ 1 \in 1..n
    BY <1>1
  <2>2. stack[1].node = Root /\ stack[1].prefix = <<>>
    BY <2>1 DEF StackInv
  <2>3. NodeAt(PathTo(1)) = Root /\ StringAt(PathTo(1)) = <<>>
    BY PathToRoot, NodeAtRoot, StringAtRoot
  <2>4. PrefixesTo(0) = <<>>
    <3>1. 1..0 = {}
      OBVIOUS
    <3> QED
      BY <3>1 DEF PrefixesTo
  <2>5. PrefixesTo(1) = Append(<<>>, <<>>)
    <3>1. 0 \in 0..n /\ 0 + 1 = 1
      BY <1>1
    <3> QED
      BY <2>1, <2>2, <2>4, <3>1, PrefixFacts
  <2>6. FlattenSeq(PrefixesTo(1)) = <<>>
    <3> DEFINE S == Nodes \X Nat
    <3>1. <<>> \in Seq(Seq(S)) /\ <<>> \in Seq(S) /\ <<>> \o <<>> = <<>>
      OBVIOUS
    <3> HIDE DEF S
    <3>2. FlattenSeq(Append(<<>>, <<>>)) = FlattenSeq(<<>>) \o <<>>
      BY <3>1, FlattenAppend
    <3> QED
      BY <2>5, <3>1, <3>2, FlattenNothing
  <2> QED
    BY <2>2, <2>3, <2>6
<1>5. ASSUME NEW i \in Nat, i \in P PROVE i + 1 \in P
  <2> SUFFICES ASSUME i + 1 + 1 <= n PROVE Good(i + 1 + 1)
    OBVIOUS
  <2> DEFINE k == i + 1
  <2>1. k \in 1..(n - 1) /\ k \in 1..n /\ k \in 0..n /\ k + 1 \in 1..n /\ (k + 1) - 1 = k
        /\ k + 1 \in 2..n
    BY <1>1
  <2>2. Good(k)
    BY <1>5, <1>1
  <2> HIDE DEF k
  <2>3. /\ PathTo(k) \in Seq(Nat) /\ stack[k].ordinal \in Nat /\ stack[k].node \in Nodes
        /\ PathTo(k + 1) = Append(PathTo(k), stack[k].ordinal)
        /\ stack[k + 1].prefix \in Seq(Nodes \X Nat)
    BY <2>1, PathFacts
  <2>4. /\ stack[k + 1].node = Children(stack[k].node)[stack[k].ordinal]
        /\ stack[k + 1].prefix = Prefix(stack[k].node, stack[k].ordinal)
    BY <2>1 DEF StackInv, StackIsPath
  <2>5. NodeAt(PathTo(k + 1)) = stack[k + 1].node
    <3>1. NodeAt(PathTo(k + 1)) = Follow(stack[k].node, stack[k].ordinal)
      BY <2>2, <2>3, NodeAtAppend
    <3>2. stack[k].ordinal \in DOMAIN Children(stack[k].node)
      <4>1. Children(stack[k].node) \in Seq(Nodes)
        BY <2>3, ChildrenType
      <4> QED
        BY <1>3, <2>1, <4>1
    <3> QED
      BY <2>3, <2>4, <3>1, <3>2 DEF Follow
  <2>6. StringAt(PathTo(k + 1)) = FlattenSeq(PrefixesTo(k + 1))
    <3>1. StringAt(PathTo(k + 1)) = StringAt(PathTo(k)) \o stack[k + 1].prefix
      BY <2>2, <2>3, <2>4, StringAtAppend
    <3>2. /\ PrefixesTo(k) \in Seq(Seq(Nodes \X Nat))
          /\ PrefixesTo(k + 1) = Append(PrefixesTo(k), stack[k + 1].prefix)
      BY <2>1, PrefixFacts
    <3>3. FlattenSeq(PrefixesTo(k + 1)) = FlattenSeq(PrefixesTo(k)) \o stack[k + 1].prefix
      BY <2>3, <3>2, FlattenAppend
    <3> QED
      BY <2>2, <3>1, <3>3
  <2> QED
    BY <2>5, <2>6 DEF k
<1> HIDE DEF P
<1>6. Nat \subseteq P
  BY <1>4, <1>5, Ind!SetInduction
<1>7. \A k \in 1..n : Good(k)
  <2> SUFFICES ASSUME NEW k \in 1..n PROVE Good(k)
    OBVIOUS
  <2>1. k - 1 \in P /\ (k - 1) + 1 = k /\ k <= n
    BY <1>1, <1>6
  <2> HIDE DEF Good
  <2> QED
    BY <2>1 DEF P
<1>8. ASSUME stack # <<>> PROVE StringAt(PathTo(n)) = string
  <2>1. n \in 1..n /\ DOMAIN stack = 1..n
    BY <1>1, <1>8
  <2>2. string = FlattenSeq(PrefixesTo(n))
    BY <1>8, <2>1 DEF StackInv, StackIsPath, PrefixesTo
  <2> QED
    BY <1>7, <2>1, <2>2
<1> QED
  BY <1>3, <1>7, <1>8

-----------------------------------------------------------------------------
(* The steps, by what they do to the path *)

Walking == pc \in {"advance", "loop"} /\ stack # <<>>

\* The k-th node of the stack stays what it is.
SameNode(k) ==
  /\ stack'[k].node = stack[k].node /\ stack'[k].prefix = stack[k].prefix
  /\ stack'[k].ranges = stack[k].ranges

SameNodes == \A k \in 1..Len(stack) : SameNode(k)
SameParents == \A k \in 1..(Len(stack) - 1) : stack'[k] = stack[k]

\* The innermost node is done with: it has no child left.
Exhausted ==
  /\ Walking
  /\ \/ Children(Top.node) = <<>> /\ pc = "advance" /\ IsExport(Top.node)
     \/ Children(Top.node) = <<>> /\ pc = "loop" /\ Top.ordinal = 0 /\ ~IsExport(Top.node)
     \/ pc = "loop" /\ Top.ordinal = Len(Children(Top.node)) + 1

\* It is left for its parent, or the walk is over.
Leaves ==
  /\ Exhausted
  /\ UNCHANGED <<trie, fault, error, next, entries>>
  /\ kind' = FALSE \/ (pc = "loop" /\ kind' = kind)
  /\ \/ Len(stack) = 1 /\ stack' = <<>> /\ pc' = "end" /\ UNCHANGED <<string, ranges>>
     \/ /\ Len(stack) > 1 /\ pc' = "loop"
        /\ Len(stack') = Len(stack) - 1
        /\ \A k \in 1..(Len(stack) - 1) : SameNode(k) /\ stack'[k].read = stack[k].read
        /\ \A k \in 1..(Len(stack) - 2) : stack'[k] = stack[k]
        /\ stack'[Len(stack) - 1].ordinal = stack[Len(stack) - 1].ordinal + 1
        /\ string' = SubSeq(string, 1, Len(string) - Len(Top.prefix))
        /\ ranges' = SubSeq(ranges, 1, Pos(Len(stack)))

\* A child of the innermost node, or the root, is entered.
Enters ==
  /\ pc' = "loop" /\ UNCHANGED <<trie, fault, error, kind, entries>>
  /\ stack' # <<>> /\ Len(stack') = Len(stack) + 1
  /\ Top'.ordinal = 0 /\ Top'.read = 0
  /\ SameNodes /\ SameParents
  /\ string' = string \o Top'.prefix
  /\ \/ /\ pc = "advance" /\ stack = <<>> /\ ranges' = ranges
        /\ Top'.node = Root /\ Top'.prefix = <<>>
     \/ /\ Walking
        /\ stack'[Len(stack)].read = stack'[Len(stack)].ordinal
        /\ Top'.node = Children(Top.node)[stack'[Len(stack)].ordinal]
        /\ Top'.prefix = Prefix(Top.node, stack'[Len(stack)].ordinal)
        /\ Top'.ranges = Len(ranges')
        /\ \/ /\ pc = "advance" /\ ~IsExport(Top.node) /\ stack'[Len(stack)].ordinal = 1
              /\ stack'[Len(stack)].read = Top.read /\ ranges' = ranges /\ UNCHANGED next
           \/ /\ pc = "loop" /\ Top.ordinal \in 1..Len(Children(Top.node))
              /\ stack'[Len(stack)].ordinal = Top.ordinal /\ Edge = Top.ordinal
              /\ NextError = "None" /\ ranges' = Append(ranges, Child)

\* The innermost node, an export, goes on to its first edge.
Begins ==
  /\ Walking /\ pc = "advance" /\ pc' = "loop" /\ kind' = FALSE
  /\ IsExport(Top.node) /\ Children(Top.node) # <<>>
  /\ UNCHANGED <<trie, fault, error, next, string, ranges, entries>>
  /\ stack' # <<>> /\ Len(stack') = Len(stack) /\ SameNodes /\ SameParents
  /\ Top'.ordinal = 1 /\ Top'.read = Top.read

\* An innermost node that is no export is an entry, with its first edge read.
Reads ==
  /\ Walking /\ pc = "loop" /\ pc' = "advance"
  /\ Top.ordinal = 0 /\ ~IsExport(Top.node) /\ Children(Top.node) # <<>>
  /\ UNCHANGED <<trie, fault, error, string, kind>>
  /\ Edge = 1 /\ NextError = "None"
  /\ stack' # <<>> /\ Len(stack') = Len(stack) /\ SameNodes /\ SameParents
  /\ Top'.ordinal = 0 /\ Top'.read = 1
  /\ next'.node = Child /\ next'.prefix = Prefix(Top.node, 1)
  /\ ranges' = Append(ranges, Child)
  /\ entries' = Append(entries, Entry(kind))

\* An innermost node that is an export is an entry.
Lists ==
  /\ Walking /\ pc = "loop" /\ pc' = "advance"
  /\ Top.ordinal = 0 /\ IsExport(Top.node)
  /\ string # <<>> /\ ~At("info", Top.node)
  /\ UNCHANGED <<trie, fault, error, stack, next, string, ranges>>
  /\ kind' = (kind \/ ~At("unknownKind", Top.node))
  /\ entries' = Append(entries, Entry(kind'))

\* The walk ends with an error.
Fails ==
  /\ Walking /\ pc' = "error" /\ UNCHANGED <<trie, fault, string, entries>>
  /\ Len(stack') = Len(stack) /\ SameNodes /\ SameParents
  /\ \A k \in 1..Len(stack) : stack'[k].ordinal = stack[k].ordinal
  /\ \/ error' = "Invalid"
     \/ error' = "TooDeep" /\ Len(stack) = MaxDepth
     \/ error' = "EmptyExport" /\ string = <<>> /\ IsExport(Top.node)
     \/ /\ error' = "OverlappingRanges" /\ pc = "loop" /\ Overlaps(Child)
        /\ Edge \in 1..Len(Children(Top.node))

\* The walk starts, unless the root cannot be read.
Opens ==
  /\ pc = "open" /\ stack = <<>> /\ UNCHANGED <<trie, fault, stack, next, string, kind, entries>>
  /\ \/ error' = "Invalid" /\ pc' = "end" /\ ranges' = ranges
     \/ /\ error' = error /\ pc' = "advance" /\ ranges' = <<Root>>
        /\ ~At("parse", Root)

Shape == Leaves \/ Enters \/ Begins \/ Reads \/ Lists \/ Fails \/ Opens

LEMMA OpenShape == IterInv /\ Open => Opens
<1> SUFFICES ASSUME IterInv, Open PROVE Opens
  OBVIOUS
<1>1. /\ pc = "open" /\ UNCHANGED <<trie, fault, stack, next, string, kind, entries>>
  BY DEF Open, file
<1>2. stack = <<>> /\ ranges = <<>>
  BY <1>1 DEF IterInv, IterTypes, RangesInv
<1>3. ~Overlaps(Root)
  BY <1>2 DEF Overlaps
<1>4. ParseError(Root) # "None" => ParseError(Root) = "Invalid"
  BY <1>3 DEF ParseError
<1>5. ParseError(Root) = "None" => ~At("parse", Root)
  BY DEF ParseError
<1> QED
  BY <1>1, <1>2, <1>4, <1>5 DEF Open, Opens

LEMMA ResumeEmptyShape == IterInv /\ ResumeEmpty => Enters
<1> SUFFICES ASSUME IterInv, ResumeEmpty PROVE Enters
  OBVIOUS
<1>1. /\ pc = "advance" /\ stack = <<>> /\ stack' = Append(stack, next) /\ pc' = "loop"
      /\ string' = string \o next.prefix
      /\ UNCHANGED <<trie, fault, error, next, ranges, kind, entries>>
  BY DEF ResumeEmpty, SetupInfoForNewStack, file
<1>2. next = Frame(Root, <<>>) /\ next \in FrameType
  BY <1>1 DEF IterInv, RangesInv, IterTypes
<1>3. Len(stack) = 0 /\ Len(stack') = 1 /\ stack'[1] = next /\ stack' # <<>> /\ Top' = next
  BY <1>1, <1>2 DEF Top, Last
<1>4. next.node = Root /\ next.ordinal = 0 /\ next.read = 0 /\ next.prefix = <<>>
  BY <1>2 DEF Frame
<1>5. SameNodes /\ SameParents
  BY <1>3 DEF SameNodes, SameParents
<1> QED
  BY <1>1, <1>3, <1>4, <1>5 DEF Enters

\* MoveUptoParentNode, whichever step calls it.
LEMMA MoveUpShape ==
  ASSUME IterInv, Exhausted, MoveUptoParentNode,
         kind' = FALSE \/ (pc = "loop" /\ kind' = kind),
         UNCHANGED <<trie, fault, error, next, entries>>
  PROVE  Leaves
<1> DEFINE n == Len(stack)
<1>1. /\ IterTypes /\ InStep /\ RangesInv /\ stack # <<>> /\ stack \in Seq(FrameType)
      /\ PathOnRecord /\ n \in Nat \ {0} /\ Top = stack[n]
  BY TopFacts DEF IterInv, RangesInv, IterTypes, Exhausted, Walking
<1>2. CASE n = 1
  BY <1>2 DEF MoveUptoParentNode, Leaves
<1>3. CASE n # 1
  <2>1. n > 1 /\ n - 1 \in 1..n /\ n \in 1..n /\ \A k \in 1..(n - 1) : k \in 1..n
    <3>1. n \in Nat /\ n # 0 /\ n # 1
      BY <1>1, <1>3
    <3> HIDE DEF n
    <3> QED
      BY <3>1
  <2>2. /\ stack' = [Front(stack) EXCEPT ![n - 1].ordinal = @ + 1] /\ pc' = "loop"
        /\ string' = SubSeq(string, 1, Len(string) - Len(Top.prefix))
        /\ ranges' = IF Top.ranges # 0 THEN SubSeq(ranges, 1, Top.ranges) ELSE ranges
    BY <1>3 DEF MoveUptoParentNode
  <2>3. ranges' = SubSeq(ranges, 1, Pos(n))
    <3>1. Pos(n) = Top.ranges /\ Pos(n) \in 1..Len(ranges)
      BY <1>1, <1>3, <2>1 DEF Pos, PathOnRecord
    <3>2. Top.ranges # 0
      BY <3>1
    <3> QED
      BY <2>2, <3>1, <3>2
  <2>4. /\ Len(Front(stack)) = n - 1 /\ Front(stack) \in Seq(FrameType)
        /\ \A k \in 1..(n - 1) : Front(stack)[k] = stack[k]
    BY <1>1, FrontFacts
  <2>5. n - 1 \in 1..Len(Front(stack)) /\ stack[n - 1] \in FrameType
    BY <1>1, <2>1, <2>4
  <2> DEFINE parent == [stack[n - 1] EXCEPT !.ordinal = @ + 1]
  <2>6. /\ parent.node = stack[n - 1].node /\ parent.prefix = stack[n - 1].prefix
        /\ parent.ranges = stack[n - 1].ranges /\ parent.read = stack[n - 1].read
        /\ parent.ordinal = stack[n - 1].ordinal + 1 /\ parent \in FrameType
    <3>1. PICK f \in FrameType : f = stack[n - 1]
      BY <2>5
    <3>2. f.ordinal + 1 \in Nat
      BY DEF FrameType
    <3>3. PICK m : m = f.ordinal + 1
      OBVIOUS
    <3>4. parent = [f EXCEPT !.ordinal = m]
      BY <3>1, <3>3
    <3> HIDE DEF parent
    <3>5. parent \in FrameType
      BY <3>2, <3>3, <3>4 DEF FrameType
    <3>6. /\ parent.node = f.node /\ parent.prefix = f.prefix /\ parent.ranges = f.ranges
          /\ parent.read = f.read /\ parent.ordinal = m
      BY <3>4 DEF FrameType
    <3> QED
      BY <3>1, <3>3, <3>5, <3>6
  <2>7. stack' = [Front(stack) EXCEPT ![n - 1] = parent]
    BY <2>2, <2>4, <2>5
  <2> HIDE DEF parent
  <2>8. Len(stack') = n - 1 /\ stack'[n - 1] = parent
        /\ \A k \in 1..(n - 2) : stack'[k] = stack[k]
    BY <1>1, <2>1, <2>4, <2>6, <2>7
  <2>9. \A k \in 1..(n - 1) : SameNode(k) /\ stack'[k].read = stack[k].read
    <3>1. \A k \in 1..(n - 1) : k = n - 1 \/ k \in 1..(n - 2)
      BY <1>1
    <3> QED
      BY <2>6, <2>8, <3>1 DEF SameNode
  <2> QED
    BY <2>1, <2>2, <2>3, <2>6, <2>8, <2>9 DEF Leaves
<1> QED
  BY <1>2, <1>3

LEMMA ResumeExportLeafShape == IterInv /\ ResumeExportLeaf => Leaves
<1> SUFFICES ASSUME IterInv, ResumeExportLeaf PROVE Leaves
  OBVIOUS
<1>1. /\ MoveUptoParentNode /\ kind' = FALSE /\ UNCHANGED <<trie, fault, error, next, entries>>
  BY DEF ResumeExportLeaf, file
<1>2. Exhausted
  BY DEF ResumeExportLeaf, Resumable, Exhausted, Walking
<1> QED
  BY <1>1, <1>2, MoveUpShape

LEMMA SkipBarrenShape == IterInv /\ SkipBarren => Leaves
<1> SUFFICES ASSUME IterInv, SkipBarren PROVE Leaves
  OBVIOUS
<1>1. /\ pc = "loop" /\ MoveUptoParentNode /\ kind' = kind
      /\ UNCHANGED <<trie, fault, error, next, entries>>
  BY DEF SkipBarren, FirstVisit, Looping, file
<1>2. stack # <<>>
  BY <1>1 DEF IterInv, IterTypes
<1>3. Exhausted
  BY <1>2 DEF SkipBarren, FirstVisit, Looping, Exhausted, Walking
<1> QED
  BY <1>1, <1>3, MoveUpShape

LEMMA FinishNodeShape == IterInv /\ FinishNode => Leaves
<1> SUFFICES ASSUME IterInv, FinishNode PROVE Leaves
  OBVIOUS
<1>1. /\ pc = "loop" /\ MoveUptoParentNode /\ kind' = kind
      /\ UNCHANGED <<trie, fault, error, next, entries>>
  BY DEF FinishNode, Looping, file
<1>2. stack # <<>>
  BY <1>1 DEF IterInv, IterTypes
<1>3. Exhausted
  BY <1>2 DEF FinishNode, Looping, Exhausted, Walking
<1> QED
  BY <1>1, <1>3, MoveUpShape

LEMMA ResumeExportShape == IterInv /\ ResumeExport => Begins
<1> SUFFICES ASSUME IterInv, ResumeExport PROVE Begins
  OBVIOUS
<1> DEFINE n == Len(stack)
           e == [Top EXCEPT !.ordinal = 1]
<1>1. /\ pc = "advance" /\ stack # <<>> /\ IsExport(Top.node) /\ Children(Top.node) # <<>>
      /\ kind' = FALSE /\ pc' = "loop"
      /\ stack' = [stack EXCEPT ![n].ordinal = 1]
      /\ UNCHANGED <<trie, fault, error, next, string, ranges, entries>>
  BY DEF ResumeExport, Resumable, file
<1>2. /\ n \in Nat \ {0} /\ Top = stack[n] /\ Top \in FrameType /\ stack \in Seq(FrameType)
  BY <1>1, TopFacts DEF IterInv, IterTypes
<1>3. /\ e \in FrameType /\ e.node = Top.node /\ e.ranges = Top.ranges /\ e.prefix = Top.prefix
      /\ e.ordinal = 1 /\ e.read = Top.read
  BY <1>2 DEF FrameType
<1>4. stack' = [stack EXCEPT ![n] = e]
  BY <1>1, <1>2
<1> HIDE DEF e
<1>5. Len(stack') = n /\ stack'[n] = e /\ \A k \in 1..(n - 1) : stack'[k] = stack[k]
  BY <1>1, <1>2, <1>3, <1>4, ReplaceLast
<1>6. stack' # <<>> /\ Top' = e
  BY <1>2, <1>5 DEF Top, Last
<1>7. SameNodes
  <2>1. \A k \in 1..n : k = n \/ k \in 1..(n - 1)
    BY <1>2
  <2> QED
    BY <1>2, <1>3, <1>5, <2>1 DEF SameNodes, SameNode
<1> QED
  BY <1>1, <1>3, <1>5, <1>6, <1>7 DEF Begins, Walking, SameParents

LEMMA ResumeInteriorShape == IterInv /\ StackInv /\ ResumeInterior => Enters
<1> SUFFICES ASSUME IterInv, StackInv, ResumeInterior PROVE Enters
  OBVIOUS
<1> DEFINE n == Len(stack)
           e == [Top EXCEPT !.ordinal = @ + 1]
           s == [stack EXCEPT ![n].ordinal = @ + 1]
<1>1. /\ pc = "advance" /\ stack # <<>> /\ ~IsExport(Top.node) /\ pc' = "loop"
      /\ stack' = Append(s, next) /\ string' = string \o next.prefix
      /\ UNCHANGED <<trie, fault, error, next, ranges, kind, entries>>
  BY DEF ResumeInterior, Resumable, SetupInfoForNewStack, file
<1>2. /\ n \in Nat \ {0} /\ Top = stack[n] /\ Top \in FrameType /\ stack \in Seq(FrameType)
      /\ InStep /\ RangesInv /\ next \in FrameType
  BY <1>1, TopFacts DEF IterInv, IterTypes
<1>3. Top.ordinal = 0 /\ Top.read = 1
  BY <1>1, <1>2 DEF InStep
<1>4. /\ e \in FrameType /\ e.node = Top.node /\ e.ranges = Top.ranges /\ e.prefix = Top.prefix
      /\ e.ordinal = 1 /\ e.read = 1
  <2>1. Top.ordinal + 1 = 1 /\ e = [Top EXCEPT !.ordinal = 1]
    BY <1>3
  <2> QED
    BY <1>2, <1>3, <2>1 DEF FrameType
<1>5. s = [stack EXCEPT ![n] = e]
  BY <1>2
<1> HIDE DEF e
<1>6. s \in Seq(FrameType) /\ Len(s) = n /\ s[n] = e /\ \A k \in 1..(n - 1) : s[k] = stack[k]
  <2> HIDE DEF s
  <2> QED
    BY <1>1, <1>2, <1>4, <1>5, ReplaceLast
<1> HIDE DEF s
<1>7. /\ Len(stack') = n + 1 /\ stack'[n + 1] = next /\ \A k \in 1..n : stack'[k] = s[k]
      /\ stack' # <<>> /\ Top' = next
  BY <1>1, <1>2, <1>6 DEF Top, Last
<1>8. n \in 1..n /\ stack'[n] = e
  BY <1>2, <1>6, <1>7
<1>9. SameParents
  BY <1>2, <1>6, <1>7 DEF SameParents
<1>10. SameNodes
  <2>1. \A k \in 1..n : k = n \/ k \in 1..(n - 1)
    BY <1>2
  <2> QED
    BY <1>2, <1>4, <1>8, <1>9, <2>1 DEF SameNodes, SameParents, SameNode
<1>11. next.ranges = Len(ranges) /\ next.ordinal = 0 /\ next.read = 0
  BY <1>1, <1>2 DEF RangesInv
<1>12. next.node = Children(Top.node)[1] /\ next.prefix = Prefix(Top.node, 1)
  BY <1>1 DEF StackInv
<1>13. /\ Top'.ordinal = 0 /\ Top'.read = 0 /\ string' = string \o Top'.prefix
       /\ Top'.node = Children(Top.node)[stack'[n].ordinal]
       /\ Top'.prefix = Prefix(Top.node, stack'[n].ordinal) /\ Top'.ranges = Len(ranges')
       /\ stack'[n].read = stack'[n].ordinal /\ stack'[n].ordinal = 1
       /\ stack'[n].read = Top.read
  BY <1>1, <1>3, <1>4, <1>7, <1>8, <1>11, <1>12
<1> QED
  BY <1>1, <1>7, <1>9, <1>10, <1>13 DEF Enters, Walking

\* What ParseNextNode does to the stack.
LEMMA EdgeReadShape ==
  ASSUME IterInv, stack # <<>>, Edge <= Len(Children(Top.node))
  PROVE  /\ EdgeRead \in Seq(FrameType) /\ Len(EdgeRead) = Len(stack)
         /\ \A k \in 1..(Len(stack) - 1) : EdgeRead[k] = stack[k]
         /\ \A k \in 1..Len(stack) : /\ EdgeRead[k].node = stack[k].node
                                     /\ EdgeRead[k].prefix = stack[k].prefix
                                     /\ EdgeRead[k].ranges = stack[k].ranges
                                     /\ EdgeRead[k].ordinal = stack[k].ordinal
         /\ EdgeRead[Len(stack)].read = Edge
<1> DEFINE n == Len(stack)
           e == [Top EXCEPT !.read = Edge]
<1>1. n \in Nat \ {0} /\ Top = stack[n] /\ Top \in FrameType /\ IterTypes
  BY TopFacts DEF IterInv
<1>2. /\ EdgeRead \in Seq(FrameType) /\ Len(EdgeRead) = n
      /\ \A k \in 1..(n - 1) : EdgeRead[k] = stack[k]
      /\ EdgeRead[n] = e
  BY <1>1, NextEdge
<1>3. /\ e.node = Top.node /\ e.prefix = Top.prefix /\ e.ranges = Top.ranges
      /\ e.ordinal = Top.ordinal /\ e.read = Edge
  BY <1>1 DEF FrameType
<1> HIDE DEF e
<1>4. \A k \in 1..n : k = n \/ k \in 1..(n - 1)
  BY <1>1
<1> QED
  BY <1>1, <1>2, <1>3, <1>4

\* An edge that cannot be read.
LEMMA EdgeFails ==
  ASSUME IterInv, pc = "loop", Edge \in 1..Len(Children(Top.node)),
         NextError # "None", stack' = EdgeRead, Fail(NextError),
         UNCHANGED <<trie, fault, string, entries>>
  PROVE  Fails
<1> DEFINE n == Len(stack)
<1>1. stack # <<>> /\ IterTypes
  BY DEF IterInv, IterTypes
<1>2. Top \in FrameType
  BY <1>1, TopFacts
<1>3. Len(Children(Top.node)) \in Nat
  BY <1>1, <1>2, ChildrenType DEF FrameType
<1>4. Edge <= Len(Children(Top.node))
  BY <1>3
<1>5. Len(stack') = n /\ SameNodes /\ SameParents
      /\ \A k \in 1..n : stack'[k].ordinal = stack[k].ordinal
  BY <1>1, <1>4, EdgeReadShape DEF SameNodes, SameNode, SameParents
<1>6. NextError = "Invalid" \/ (NextError = "OverlappingRanges" /\ Overlaps(Child))
  BY DEF NextError, ParseError
<1> QED
  BY <1>1, <1>5, <1>6 DEF Fails, Walking, Fail

LEMMA VisitFaultyExportShape == IterInv /\ VisitFaultyExport => Fails
<1> SUFFICES ASSUME IterInv, VisitFaultyExport PROVE Fails
  OBVIOUS
<1>1. /\ pc = "loop" /\ pc' = "error" /\ IsExport(Top.node)
      /\ UNCHANGED <<trie, fault, stack, string, entries>>
      /\ error' = "Invalid" \/ (error' = "EmptyExport" /\ string = <<>>)
  BY DEF VisitFaultyExport, FirstVisit, Looping, Fail, file
<1>2. stack # <<>>
  BY <1>1 DEF IterInv, IterTypes
<1> QED
  BY <1>1, <1>2 DEF Fails, Walking, SameNodes, SameNode, SameParents

LEMMA ResumeTooDeepShape == IterInv /\ ResumeTooDeep => Fails
<1> SUFFICES ASSUME IterInv, ResumeTooDeep PROVE Fails
  OBVIOUS
<1>1. /\ pc = "advance" /\ Len(stack) = MaxDepth /\ error' = "TooDeep" /\ pc' = "error"
      /\ UNCHANGED <<trie, fault, stack, string, entries>>
  BY DEF ResumeTooDeep, AtMaxDepth, Fail, file
<1>2. stack # <<>>
  BY <1>1, TrieAssumption DEF TrieAssumption
<1> QED
  BY <1>1, <1>2 DEF Fails, Walking, SameNodes, SameNode, SameParents

LEMMA VisitExportShape == IterInv /\ VisitExport => Lists
<1> SUFFICES ASSUME IterInv, VisitExport PROVE Lists
  OBVIOUS
<1>1. stack # <<>>
  BY DEF IterInv, IterTypes, VisitExport, FirstVisit, Looping
<1> QED
  BY <1>1 DEF VisitExport, FirstVisit, Looping, file, Lists, Walking

LEMMA VisitInteriorShape == IterInv /\ VisitInterior => Fails \/ Reads
<1> SUFFICES ASSUME IterInv, VisitInterior PROVE Fails \/ Reads
  OBVIOUS
<1> DEFINE n == Len(stack)
<1>1. /\ pc = "loop" /\ Top.ordinal = 0 /\ ~IsExport(Top.node)
      /\ Children(Top.node) # <<>> /\ stack' = EdgeRead
      /\ UNCHANGED <<trie, fault, string, kind>>
  BY DEF VisitInterior, FirstVisit, Looping, file
<1>2. IterTypes /\ stack # <<>>
  BY <1>1 DEF IterInv, IterTypes
<1>3. n \in Nat \ {0} /\ Top = stack[n] /\ Top \in FrameType
  BY <1>2, TopFacts
<1>4. Children(Top.node) \in Seq(Nodes) /\ Len(Children(Top.node)) \in Nat
  BY <1>2, <1>3, ChildrenType DEF FrameType
<1>5. Edge <= Len(Children(Top.node)) /\ Edge = 1 /\ Edge \in 1..Len(Children(Top.node))
  <2>1. Top.ordinal # Len(Children(Top.node)) + 1
    BY <1>1, <1>4
  <2>2. Edge <= Len(Children(Top.node)) /\ Edge = 1
    BY <1>1, <2>1, ReadsAnEdge
  <2> QED
    BY <1>4, <2>2
<1>6. CASE NextError # "None"
  <2>1. Fail(NextError) /\ UNCHANGED entries
    BY <1>6 DEF VisitInterior
  <2> QED
    BY <1>1, <1>5, <1>6, <2>1, EdgeFails
<1>7. CASE NextError = "None"
  <2>1. /\ next' = NextFrame /\ ranges' = Append(ranges, Child) /\ pc' = "advance"
        /\ error' = error /\ entries' = Append(entries, Entry(kind))
    BY <1>7 DEF VisitInterior
  <2>2. /\ Len(stack') = n /\ stack' \in Seq(FrameType) /\ SameNodes /\ SameParents
        /\ \A k \in 1..n : stack'[k].ordinal = stack[k].ordinal
        /\ stack'[n].read = 1
    BY <1>1, <1>2, <1>5, EdgeReadShape DEF SameNodes, SameNode, SameParents
  <2>3. stack' # <<>> /\ Top' = stack'[n] /\ n \in 1..n
    BY <1>3, <2>2 DEF Top, Last
  <2>4. Top'.ordinal = 0 /\ Top'.read = 1
    BY <1>1, <1>3, <2>2, <2>3
  <2>5. next'.node = Child /\ next'.prefix = Prefix(Top.node, 1)
    BY <1>5, <2>1 DEF NextFrame, Frame
  <2> QED
    BY <1>1, <1>2, <1>5, <1>7, <2>1, <2>2, <2>3, <2>4, <2>5 DEF Reads, Walking
<1> QED
  BY <1>6, <1>7

LEMMA NextChildShape == IterInv /\ NextChild => Fails \/ Enters
<1> SUFFICES ASSUME IterInv, NextChild PROVE Fails \/ Enters
  OBVIOUS
<1> DEFINE n == Len(stack)
<1>1. /\ pc = "loop" /\ Top.ordinal # 0 /\ Top.ordinal # Len(Children(Top.node)) + 1
      /\ UNCHANGED <<trie, fault, kind, entries>>
  BY DEF NextChild, Looping, file
<1>2. IterTypes /\ stack # <<>>
  BY <1>1 DEF IterInv, IterTypes
<1>3. n \in Nat \ {0} /\ Top = stack[n] /\ Top \in FrameType
  BY <1>2, TopFacts
<1>4. Children(Top.node) \in Seq(Nodes) /\ Len(Children(Top.node)) \in Nat
  BY <1>2, <1>3, ChildrenType DEF FrameType
<1>5. Edge <= Len(Children(Top.node)) /\ Edge = Top.ordinal /\ Edge \in 1..Len(Children(Top.node))
  <2>1. Edge <= Len(Children(Top.node)) /\ Edge = Top.ordinal
    BY <1>1, ReadsAnEdge
  <2>2. Top.ordinal \in Nat
    BY <1>3 DEF FrameType
  <2> QED
    BY <1>1, <1>4, <2>1, <2>2
<1>6. CASE NextError # "None"
  <2>1. Fail(NextError) /\ stack' = EdgeRead /\ UNCHANGED string
    BY <1>6 DEF NextChild
  <2> QED
    BY <1>1, <1>5, <1>6, <2>1, EdgeFails
<1>7. CASE NextError = "None" /\ AtMaxDepth
  <2>1. Fail("TooDeep") /\ stack' = EdgeRead /\ UNCHANGED string
    BY <1>7 DEF NextChild
  <2>2. Len(stack') = n /\ SameNodes /\ SameParents
        /\ \A k \in 1..n : stack'[k].ordinal = stack[k].ordinal
    BY <1>2, <1>5, <2>1, EdgeReadShape DEF SameNodes, SameNode, SameParents
  <2> QED
    BY <1>1, <1>2, <1>7, <2>1, <2>2 DEF Fails, Walking, Fail, AtMaxDepth
<1>8. CASE NextError = "None" /\ ~AtMaxDepth
  <2>1. /\ next' = NextFrame /\ ranges' = Append(ranges, Child) /\ pc' = pc /\ error' = error
        /\ stack' = Append(EdgeRead, NextFrame) /\ string' = string \o NextFrame.prefix
    BY <1>8 DEF NextChild, SetupInfoForNewStack
  <2>2. /\ EdgeRead \in Seq(FrameType) /\ Len(EdgeRead) = n
        /\ \A k \in 1..(n - 1) : EdgeRead[k] = stack[k]
        /\ \A k \in 1..n : /\ EdgeRead[k].node = stack[k].node
                           /\ EdgeRead[k].prefix = stack[k].prefix
                           /\ EdgeRead[k].ranges = stack[k].ranges
                           /\ EdgeRead[k].ordinal = stack[k].ordinal
        /\ EdgeRead[n].read = Edge
    BY <1>2, <1>5, EdgeReadShape
  <2>3. /\ NextFrame \in FrameType /\ NextFrame.node = Child
        /\ NextFrame.ordinal = 0 /\ NextFrame.read = 0
        /\ NextFrame.ranges = Len(ranges) + 1
    BY <1>2, <1>5, NextEdge
  <2>4. NextFrame.prefix = Prefix(Top.node, Edge)
    BY DEF NextFrame, Frame
  <2>5. /\ Len(stack') = n + 1 /\ stack'[n + 1] = NextFrame
        /\ \A k \in 1..n : stack'[k] = EdgeRead[k]
        /\ stack' # <<>> /\ Top' = NextFrame
    <3> HIDE DEF n
    <3>1. /\ Len(stack') = n + 1 /\ stack'[n + 1] = NextFrame /\ stack' # <<>>
          /\ \A k \in 1..n : stack'[k] = EdgeRead[k]
      BY <1>3, <2>1, <2>2, <2>3
    <3> QED
      BY <3>1 DEF Top, Last
  <2>6. n \in 1..n /\ \A k \in 1..(n - 1) : k \in 1..n
    BY <1>3
  <2>7. SameNodes /\ SameParents
    BY <2>2, <2>5, <2>6 DEF SameNodes, SameNode, SameParents
  <2>8. stack'[n].read = Edge /\ stack'[n].ordinal = Top.ordinal
    BY <1>3, <2>2, <2>5, <2>6
  <2>9. Len(ranges') = Len(ranges) + 1
    BY <1>2, <1>4, <2>1 DEF IterTypes
  <2>10. Top'.node = Children(Top.node)[Edge]
    BY <2>3, <2>5 DEF Child
  <2>11. /\ Top'.ordinal = 0 /\ Top'.read = 0 /\ string' = string \o Top'.prefix
         /\ Top'.prefix = Prefix(Top.node, stack'[n].ordinal)
         /\ Top'.node = Children(Top.node)[stack'[n].ordinal]
         /\ Top'.ranges = Len(ranges') /\ stack'[n].read = stack'[n].ordinal
         /\ Top.ordinal \in 1..Len(Children(Top.node))
    BY <1>5, <2>1, <2>3, <2>4, <2>5, <2>8, <2>9, <2>10
  <2> QED
    BY <1>1, <1>2, <1>5, <1>8, <2>1, <2>5, <2>7, <2>8, <2>11 DEF Enters, Walking
<1> QED
  BY <1>6, <1>7, <1>8

\* Every step has one of the shapes.
LEMMA StepShape == IterInv /\ StackInv /\ [Next]_vars => Shape \/ UNCHANGED vars
<1> SUFFICES ASSUME IterInv, StackInv, [Next]_vars PROVE Shape \/ UNCHANGED vars
  OBVIOUS
<1>1. CASE Open
  BY <1>1, OpenShape DEF Shape
<1>2. CASE ResumeEmpty
  BY <1>2, ResumeEmptyShape DEF Shape
<1>3. CASE ResumeTooDeep
  BY <1>3, ResumeTooDeepShape DEF Shape
<1>4. CASE ResumeExportLeaf
  BY <1>4, ResumeExportLeafShape DEF Shape
<1>5. CASE ResumeExport
  BY <1>5, ResumeExportShape DEF Shape
<1>6. CASE ResumeInterior
  BY <1>6, ResumeInteriorShape DEF Shape
<1>7. CASE VisitFaultyExport
  BY <1>7, VisitFaultyExportShape DEF Shape
<1>8. CASE VisitExport
  BY <1>8, VisitExportShape DEF Shape
<1>9. CASE SkipBarren
  BY <1>9, SkipBarrenShape DEF Shape
<1>10. CASE VisitInterior
  BY <1>10, VisitInteriorShape DEF Shape
<1>11. CASE FinishNode
  BY <1>11, FinishNodeShape DEF Shape
<1>12. CASE NextChild
  BY <1>12, NextChildShape DEF Shape
<1> QED
  BY <1>1, <1>2, <1>3, <1>4, <1>5, <1>6, <1>7, <1>8, <1>9, <1>10, <1>11, <1>12
  DEF Next, Advance, Stopped

\* A step that enters or leaves no node keeps the path.
LEMMA PathKept ==
  ASSUME IterTypes, IterTypes', StackInv, stack # <<>>,
         UNCHANGED <<trie, fault, string>>,
         Len(stack') = Len(stack), SameNodes, SameParents
  PROVE  /\ StackIsPath'
         /\ stack' # <<>> /\ stack'[1].node = Root /\ stack'[1].prefix = <<>>
         /\ \A k \in 1..(Len(stack') - 1) : stack'[k].ordinal # 0
<1> DEFINE n == Len(stack)
<1>1. /\ stack \in Seq(FrameType) /\ stack' \in Seq(FrameType) /\ n \in Nat \ {0}
      /\ DOMAIN stack = 1..n /\ DOMAIN stack' = 1..n /\ stack' # <<>>
  BY DEF IterTypes
<1>2. /\ \A k \in 1..n : stack'[k].node = stack[k].node /\ stack'[k].prefix = stack[k].prefix
      /\ \A k \in 1..(n - 1) : stack'[k] = stack[k]
  BY DEF SameNodes, SameNode, SameParents
<1>3. \A k \in 2..n : k \in 1..n /\ k - 1 \in 1..n /\ k - 1 \in 1..(n - 1)
  BY <1>1
<1>4. /\ \A x : Children(x)' = Children(x)
      /\ \A x, i : Prefix(x, i)' = Prefix(x, i)
  BY FileStays
<1>5. [k \in DOMAIN stack' |-> stack'[k].prefix] = [k \in DOMAIN stack |-> stack[k].prefix]
  BY <1>1, <1>2
<1>6. string' = FlattenSeq([k \in DOMAIN stack' |-> stack'[k].prefix])
  BY <1>5 DEF StackInv, StackIsPath
<1>7. \A k \in 2..n :
        /\ stack'[k - 1].read = stack'[k - 1].ordinal
        /\ stack'[k].node = Children(stack'[k - 1].node)[stack'[k - 1].ordinal]
        /\ stack'[k].prefix = Prefix(stack'[k - 1].node, stack'[k - 1].ordinal)
  BY <1>2, <1>3 DEF StackInv, StackIsPath
<1>8. StackIsPath'
  BY <1>4, <1>6, <1>7 DEF StackIsPath
<1>9. 1 \in 1..n
  BY <1>1
<1> QED
  BY <1>1, <1>2, <1>8, <1>9 DEF StackInv

LEMMA OpensPath == IterInv' /\ StackInv /\ Opens => StackInv'
<1> SUFFICES ASSUME StackInv, Opens PROVE StackInv'
  OBVIOUS
<1>1. stack = <<>> /\ stack' = <<>> /\ string' = string /\ pc = "open"
  BY DEF Opens
<1>2. Len(stack') = 0
  BY <1>1
<1> QED
  BY <1>1, <1>2 DEF StackInv, StackIsPath

LEMMA FailsPath == IterInv /\ IterInv' /\ StackInv /\ Fails => StackInv'
<1> SUFFICES ASSUME IterInv, IterInv', StackInv, Fails PROVE StackInv'
  OBVIOUS
<1>1. /\ pc' = "error" /\ stack # <<>> /\ UNCHANGED <<trie, fault, string>>
      /\ Len(stack') = Len(stack) /\ SameNodes /\ SameParents
  BY DEF Fails, Walking
<1> QED
  BY <1>1, PathKept DEF IterInv, StackInv

LEMMA BeginsPath == IterInv /\ IterInv' /\ StackInv /\ Begins => StackInv'
<1> SUFFICES ASSUME IterInv, IterInv', StackInv, Begins PROVE StackInv'
  OBVIOUS
<1>1. /\ pc' = "loop" /\ stack # <<>> /\ UNCHANGED <<trie, fault, string>>
      /\ Len(stack') = Len(stack) /\ SameNodes /\ SameParents
  BY DEF Begins, Walking
<1> QED
  BY <1>1, PathKept DEF IterInv, StackInv

LEMMA ListsPath == IterInv /\ IterInv' /\ StackInv /\ Lists => StackInv'
<1> SUFFICES ASSUME IterInv, IterInv', StackInv, Lists PROVE StackInv'
  OBVIOUS
<1>1. /\ pc' = "advance" /\ stack # <<>> /\ UNCHANGED <<trie, fault, stack, string>>
      /\ IsExport(Top.node)
  BY DEF Lists, Walking
<1>2. Len(stack') = Len(stack) /\ SameNodes /\ SameParents
  BY <1>1 DEF SameNodes, SameNode, SameParents
<1>3. Top' = Top /\ IsExport(Top.node)'
  BY <1>1 DEF Top, IsExport
<1> QED
  BY <1>1, <1>2, <1>3, PathKept DEF IterInv, StackInv

LEMMA ReadsPath == IterInv /\ IterInv' /\ StackInv /\ Reads => StackInv'
<1> SUFFICES ASSUME IterInv, IterInv', StackInv, Reads PROVE StackInv'
  OBVIOUS
<1>1. /\ pc' = "advance" /\ stack # <<>> /\ UNCHANGED <<trie, fault, string>>
      /\ Len(stack') = Len(stack) /\ SameNodes /\ SameParents
      /\ next'.node = Child /\ next'.prefix = Prefix(Top.node, 1) /\ Edge = 1
  BY DEF Reads, Walking
<1>2. Top'.node = Top.node
  <2>1. Len(stack) \in 1..Len(stack)
    BY <1>1, TopFacts DEF IterInv
  <2> QED
    BY <1>1, <2>1 DEF SameNodes, SameNode, Top, Last
<1>3. /\ Children(Top.node)' = Children(Top.node)
      /\ Prefix(Top.node, 1)' = Prefix(Top.node, 1)
  BY <1>1, <1>2 DEF Children, Prefix, At
<1>4. next'.node = Children(Top.node)'[1] /\ next'.prefix = Prefix(Top.node, 1)'
  BY <1>1, <1>3 DEF Child
<1> QED
  BY <1>1, <1>4, PathKept DEF IterInv, StackInv

\* Entering a child adds its edge to the path.
LEMMA EntersPath == IterInv /\ IterInv' /\ StackInv /\ Enters => StackInv'
<1> SUFFICES ASSUME IterInv, IterInv', StackInv, Enters PROVE StackInv'
  OBVIOUS
<1> DEFINE n == Len(stack)
<1>0. n \in Nat /\ n \in 0..n
  BY DEF IterInv, IterTypes
<1>1. /\ pc' = "loop" /\ UNCHANGED <<trie, fault>> /\ Len(stack') = n + 1
      /\ SameNodes /\ SameParents /\ string' = string \o Top'.prefix /\ stack' # <<>>
      /\ IterTypes /\ IterTypes' /\ InStep /\ InStep'
  BY DEF Enters, IterInv
<1>2. /\ stack \in Seq(FrameType) /\ stack' \in Seq(FrameType) /\ n \in Nat
      /\ DOMAIN stack = 1..n /\ DOMAIN stack' = 1..(n + 1) /\ Top' = stack'[n + 1]
  BY <1>1 DEF IterTypes, Top, Last
<1>3. /\ \A k \in 1..n : stack'[k].node = stack[k].node /\ stack'[k].prefix = stack[k].prefix
      /\ \A k \in 1..(n - 1) : stack'[k] = stack[k]
  BY <1>1 DEF SameNodes, SameNode, SameParents
<1>4. stack'[n + 1].prefix \in Seq(Nodes \X Nat)
  <2>1. stack'[n + 1] \in FrameType
    BY <1>2
  <2> QED
    BY <2>1 DEF FrameType
<1>5. /\ PrefixesTo(n) \in Seq(Seq(Nodes \X Nat)) /\ Len(PrefixesTo(n)) = n
  BY <1>0, <1>1, PrefixFacts
<1>6. [k \in DOMAIN stack' |-> stack'[k].prefix] = Append(PrefixesTo(n), Top'.prefix)
  <2>1. Append(PrefixesTo(n), Top'.prefix)
          = [k \in 1..(n + 1) |-> IF k = n + 1 THEN Top'.prefix ELSE PrefixesTo(n)[k]]
    BY <1>2, <1>5
  <2>2. \A k \in 1..(n + 1) :
          stack'[k].prefix = IF k = n + 1 THEN Top'.prefix ELSE PrefixesTo(n)[k]
    BY <1>2, <1>3 DEF PrefixesTo
  <2> QED
    BY <1>2, <2>1, <2>2
<1>7. FlattenSeq(Append(PrefixesTo(n), Top'.prefix)) = FlattenSeq(PrefixesTo(n)) \o Top'.prefix
  BY <1>2, <1>4, <1>5, FlattenAppend
<1>8. string = FlattenSeq(PrefixesTo(n))
  <2>1. CASE stack = <<>>
    <3>1. pc = "advance"
      BY <2>1 DEF Enters, Walking
    <3>2. string = <<>>
      BY <2>1, <3>1 DEF StackInv
    <3>3. PrefixesTo(n) = <<>>
      BY <1>5, <2>1
    <3> QED
      BY <3>2, <3>3, FlattenNothing
  <2>2. CASE stack # <<>>
    BY <1>2, <2>2 DEF StackInv, StackIsPath, PrefixesTo
  <2> QED
    BY <2>1, <2>2
<1>9. string' = FlattenSeq([k \in DOMAIN stack' |-> stack'[k].prefix])
  BY <1>1, <1>6, <1>7, <1>8
<1>10. /\ \A x : Children(x)' = Children(x)
       /\ \A x, i : Prefix(x, i)' = Prefix(x, i)
  BY <1>1, FileStays
<1>11. \A k \in 2..(n + 1) :
        /\ stack'[k - 1].read = stack'[k - 1].ordinal
        /\ stack'[k].node = Children(stack'[k - 1].node)[stack'[k - 1].ordinal]
        /\ stack'[k].prefix = Prefix(stack'[k - 1].node, stack'[k - 1].ordinal)
  <2> SUFFICES ASSUME NEW k \in 2..(n + 1)
               PROVE  /\ stack'[k - 1].read = stack'[k - 1].ordinal
                      /\ stack'[k].node = Children(stack'[k - 1].node)[stack'[k - 1].ordinal]
                      /\ stack'[k].prefix = Prefix(stack'[k - 1].node, stack'[k - 1].ordinal)
    OBVIOUS
  <2>1. CASE k = n + 1
    <3>1. stack # <<>> /\ k - 1 = n /\ n \in 1..n
      BY <1>2, <2>1
    <3>2. stack'[n].node = Top.node
      BY <1>3, <3>1 DEF Top, Last
    <3>3. /\ stack'[n].read = stack'[n].ordinal
          /\ Top'.node = Children(Top.node)[stack'[n].ordinal]
          /\ Top'.prefix = Prefix(Top.node, stack'[n].ordinal)
      BY <3>1 DEF Enters
    <3> QED
      BY <1>2, <2>1, <3>1, <3>2, <3>3
  <2>2. CASE k # n + 1
    <3>1. k \in 2..n /\ k \in 1..n /\ k - 1 \in 1..n /\ k - 1 \in 1..(n - 1)
      BY <1>2, <2>2
    <3> QED
      BY <1>3, <3>1 DEF StackInv, StackIsPath
  <2> QED
    BY <2>1, <2>2
<1>12. StackIsPath'
  BY <1>1, <1>9, <1>10, <1>11 DEF StackIsPath
<1>13. stack'[1].node = Root /\ stack'[1].prefix = <<>>
  <2>1. CASE stack = <<>>
    <3>1. Top'.node = Root /\ Top'.prefix = <<>> /\ n + 1 = 1
      BY <2>1 DEF Enters, Walking
    <3> QED
      BY <1>2, <3>1
  <2>2. CASE stack # <<>>
    <3>1. 1 \in 1..n
      BY <1>2, <2>2
    <3> QED
      BY <1>3, <2>2, <3>1 DEF StackInv
  <2> QED
    BY <2>1, <2>2
<1>14. \A k \in 1..n : stack'[k].ordinal # 0
  <2> SUFFICES ASSUME NEW k \in 1..n PROVE stack'[k].ordinal # 0
    OBVIOUS
  <2>1. CASE k = n
    <3>1. stack # <<>> /\ n \in 1..n
      BY <1>2, <2>1
    <3>2. stack'[n].ordinal = 1 \/ stack'[n].ordinal \in 1..Len(Children(Top.node))
      BY <3>1 DEF Enters
    <3>3. \A m : 0 \notin 1..m
      OBVIOUS
    <3> QED
      BY <2>1, <3>2, <3>3
  <2>2. CASE k # n
    <3>1. k \in 1..(n - 1)
      <4>1. n \in Nat /\ k \in 1..n /\ k # n
        BY <1>2, <2>2
      <4> HIDE DEF n
      <4> QED
        BY <4>1
    <3> QED
      BY <1>3, <3>1 DEF StackInv
  <2> QED
    BY <2>1, <2>2
<1>15. Len(stack') - 1 = n
  BY <1>1, <1>2
<1> QED
  BY <1>1, <1>12, <1>13, <1>14, <1>15 DEF StackInv

\* Leaving a node takes the last edge off it.
LEMMA LeavesPath == IterInv /\ IterInv' /\ StackInv /\ Leaves => StackInv'
<1> SUFFICES ASSUME IterInv, IterInv', StackInv, Leaves PROVE StackInv'
  OBVIOUS
<1> DEFINE n == Len(stack)
<1>1. /\ UNCHANGED <<trie, fault>> /\ stack # <<>>
      /\ IterTypes /\ IterTypes' /\ InStep
  BY DEF Leaves, Exhausted, Walking, IterInv
<1>2. /\ stack \in Seq(FrameType) /\ stack' \in Seq(FrameType) /\ n \in Nat \ {0}
      /\ DOMAIN stack = 1..n /\ Top = stack[n]
  BY <1>1, TopFacts DEF IterTypes
<1>3. CASE n = 1
  <2>1. stack' = <<>> /\ pc' = "end" /\ Len(stack') = 0
    BY <1>3 DEF Leaves
  <2> QED
    BY <2>1 DEF StackInv, StackIsPath
<1>4. CASE n # 1
  <2> DEFINE m == n - 1
  <2>1. /\ pc' = "loop" /\ Len(stack') = m
        /\ \A k \in 1..m : SameNode(k) /\ stack'[k].read = stack[k].read
        /\ \A k \in 1..(n - 2) : stack'[k] = stack[k]
        /\ string' = SubSeq(string, 1, Len(string) - Len(Top.prefix))
    BY <1>4 DEF Leaves
  <2>2. /\ m \in Nat \ {0} /\ m \in 0..n /\ m + 1 = n /\ n - 2 = m - 1
        /\ n \in 1..n /\ \A k \in 2..m : k \in 1..m /\ k - 1 \in 1..m /\ k - 1 \in 1..(m - 1)
        /\ \A k \in 2..m : k \in 2..n
    <3>1. n \in Nat /\ n # 0 /\ n # 1
      BY <1>2, <1>4
    <3> HIDE DEF n
    <3> QED
      BY <3>1
  <2> HIDE DEF m
  <2>3. stack' # <<>> /\ DOMAIN stack' = 1..m
    BY <1>2, <2>1, <2>2
  <2>4. \A k \in 1..m : stack'[k].node = stack[k].node /\ stack'[k].prefix = stack[k].prefix
    BY <2>1 DEF SameNode
  <2>5. /\ PrefixesTo(m) \in Seq(Seq(Nodes \X Nat))
        /\ PrefixesTo(n) = Append(PrefixesTo(m), Top.prefix)
    BY <1>1, <1>2, <2>2, PrefixFacts
  <2>6. Top.prefix \in Seq(Nodes \X Nat)
    BY <1>1, <1>2, <2>2, PathFacts
  <2> DEFINE S == Nodes \X Nat
  <2>7. /\ FlattenSeq(PrefixesTo(m)) \in Seq(S)
        /\ FlattenSeq(PrefixesTo(n)) = FlattenSeq(PrefixesTo(m)) \o Top.prefix
    <3> HIDE DEF S
    <3> QED
      BY <2>5, <2>6, FlattenAppend DEF S
  <2>8. string = FlattenSeq(PrefixesTo(m)) \o Top.prefix
    BY <1>1, <1>2, <2>7 DEF StackInv, StackIsPath, PrefixesTo
  <2>9. string' = FlattenSeq(PrefixesTo(m))
    <3> DEFINE a == FlattenSeq(PrefixesTo(m))
               b == Top.prefix
    <3>1. a \in Seq(S) /\ b \in Seq(S) /\ string = a \o b
          /\ string' = SubSeq(string, 1, Len(string) - Len(b))
      BY <2>1, <2>6, <2>7, <2>8
    <3> HIDE DEF a, b, S
    <3>2. Len(string) - Len(b) = Len(a) /\ SubSeq(a \o b, 1, Len(a)) = a
      BY <3>1
    <3> QED
      BY <3>1, <3>2 DEF a
  <2>10. [k \in DOMAIN stack' |-> stack'[k].prefix] = PrefixesTo(m)
    BY <2>3, <2>4 DEF PrefixesTo
  <2>11. /\ \A x : Children(x)' = Children(x)
         /\ \A x, i : Prefix(x, i)' = Prefix(x, i)
    BY <1>1, FileStays
  <2>12. \A k \in 2..m :
           /\ stack'[k - 1].read = stack'[k - 1].ordinal
           /\ stack'[k].node = Children(stack'[k - 1].node)[stack'[k - 1].ordinal]
           /\ stack'[k].prefix = Prefix(stack'[k - 1].node, stack'[k - 1].ordinal)
    <3> TAKE k \in 2..m
    <3>1. k \in 1..m /\ k - 1 \in 1..m /\ k - 1 \in 1..(n - 2) /\ k \in 2..n
      BY <2>2
    <3>2. /\ stack[k - 1].read = stack[k - 1].ordinal
          /\ stack[k].node = Children(stack[k - 1].node)[stack[k - 1].ordinal]
          /\ stack[k].prefix = Prefix(stack[k - 1].node, stack[k - 1].ordinal)
      BY <3>1 DEF StackInv, StackIsPath
    <3>3. /\ stack'[k - 1] = stack[k - 1]
          /\ stack'[k].node = stack[k].node /\ stack'[k].prefix = stack[k].prefix
      BY <2>1, <2>4, <3>1
    <3> QED
      BY <3>2, <3>3
  <2>13. StackIsPath'
    BY <2>1, <2>9, <2>10, <2>11, <2>12 DEF StackIsPath
  <2>14. stack'[1].node = Root /\ stack'[1].prefix = <<>> /\ stack # <<>>
    <3>1. 1 \in 1..m
      BY <2>2
    <3> QED
      BY <1>1, <2>4, <3>1 DEF StackInv
  <2>15. \A k \in 1..(m - 1) : stack'[k].ordinal # 0
    <3>1. \A k \in 1..(m - 1) : k \in 1..(n - 1)
      BY <2>2
    <3> QED
      BY <2>1, <2>2, <3>1 DEF StackInv
  <2> QED
    BY <2>1, <2>3, <2>13, <2>14, <2>15 DEF StackInv
<1> QED
  BY <1>3, <1>4

LEMMA StackInvInit == Init => StackInv
<1> SUFFICES ASSUME Init PROVE StackInv
  OBVIOUS
<1>1. stack = <<>> /\ string = <<>> /\ Len(stack) = 0
  BY DEF Init
<1> QED
  BY <1>1 DEF StackInv, StackIsPath

LEMMA StackInvStep == IterInv /\ IterInv' /\ StackInv /\ [Next]_vars => StackInv'
<1> SUFFICES ASSUME IterInv, IterInv', StackInv, [Next]_vars PROVE StackInv'
  OBVIOUS
<1>1. Shape \/ UNCHANGED vars
  BY StepShape
<1>2. CASE UNCHANGED vars
  BY <1>2 DEF vars, StackInv, StackIsPath, Children, Prefix, At, IsExport, Top
<1>3. CASE Shape
  BY <1>3, OpensPath, FailsPath, BeginsPath, ListsPath, ReadsPath, EntersPath, LeavesPath
  DEF Shape
<1> QED
  BY <1>1, <1>2, <1>3

-----------------------------------------------------------------------------
(* RangeList *)

\* RangeList holds nothing but the root and the children that the nodes of the path
\* have read, each after its parent; what a parent has read is on record up to the
\* node it is in.
RangesOpen ==
  pc \in {"advance", "loop"} =>
    /\ stack = <<>> => Len(ranges) = 1
    /\ \A i \in 2..Len(ranges) : \E k \in 1..Len(stack) :
         Pos(k) < i /\ \E j \in 1..stack[k].read : ranges[i] = Children(stack[k].node)[j]
    /\ \A k \in 1..Len(stack) : \A j \in 1..stack[k].read : \E i \in 1..Len(ranges) :
         ranges[i] = Children(stack[k].node)[j] /\ (k < Len(stack) => i <= Pos(k + 1))

\* A step that neither leaves a node nor adds to RangeList.
LEMMA RangesKept ==
  ASSUME RangesOpen, pc \in {"advance", "loop"}, stack # <<>>,
         UNCHANGED <<trie, ranges>>, stack' # <<>>,
         Len(stack') = Len(stack), SameNodes,
         \A k \in 1..Len(stack) : stack'[k].read = stack[k].read
  PROVE  RangesOpen'
<1>1. \A k \in 1..Len(stack) : /\ stack'[k].node = stack[k].node
                               /\ stack'[k].ranges = stack[k].ranges
  BY DEF SameNodes, SameNode
<1>2. \A k \in 1..Len(stack) : Pos(k)' = Pos(k)
  BY <1>1 DEF Pos
<1>3. \A x : Children(x)' = Children(x)
  BY DEF Children
<1>4. \A i \in 2..Len(ranges) : \E k \in 1..Len(stack) :
        Pos(k)' < i /\ \E j \in 1..stack'[k].read : ranges[i] = Children(stack'[k].node)[j]
  BY <1>1, <1>2, SMTT(60) DEF RangesOpen
<1>5. \A k \in 1..Len(stack) : \A j \in 1..stack'[k].read : \E i \in 1..Len(ranges) :
        ranges[i] = Children(stack'[k].node)[j] /\ (k < Len(stack) => i <= Pos(k + 1))
  BY <1>1 DEF RangesOpen
<1>6. \A k \in 1..Len(stack) : k < Len(stack) => Pos(k + 1)' = Pos(k + 1)
  <2> SUFFICES ASSUME NEW k \in 1..Len(stack), k < Len(stack) PROVE Pos(k + 1)' = Pos(k + 1)
    OBVIOUS
  <2>1. k + 1 \in 1..Len(stack)
    OBVIOUS
  <2> QED
    BY <1>2, <2>1
<1>7. \A i \in 2..Len(ranges') : \E k \in 1..Len(stack') :
        Pos(k)' < i /\ \E j \in 1..stack'[k].read : ranges'[i] = Children(stack'[k].node)[j]
  BY <1>4, SMTT(30)
<1>8. \A k \in 1..Len(stack') : \A j \in 1..stack'[k].read : \E i \in 1..Len(ranges') :
        ranges'[i] = Children(stack'[k].node)[j] /\ (k < Len(stack') => i <= Pos(k + 1)')
  BY <1>5, <1>6
<1> QED
  BY <1>3, <1>7, <1>8 DEF RangesOpen

\* Reading an edge: the child is the last on record.
LEMMA RangesGrow ==
  ASSUME IterInv, IterInv', RangesOpen, pc = "loop", pc' \in {"advance", "loop"},
         UNCHANGED trie, ranges' = Append(ranges, Child), Child \in Nodes,
         stack' # <<>>, SameNodes, SameParents,
         stack'[Len(stack)].read = Edge,
         \/ Len(stack') = Len(stack)
         \/ Len(stack') = Len(stack) + 1 /\ Top'.read = 0 /\ Top'.ranges = Len(ranges')
  PROVE  RangesOpen'
<1>0. PICK n, r : n = Len(stack) /\ r = Len(ranges)
  OBVIOUS
<1>1. /\ IterTypes /\ RangesInv /\ PathOnRecord /\ stack # <<>>
      /\ ranges \in Seq(Nodes) /\ r \in Nat /\ n \in Nat \ {0}
      /\ Top = stack[n] /\ Top \in FrameType
  BY <1>0, TopFacts DEF IterInv, RangesInv, IterTypes
<1>2. Len(ranges') = r + 1 /\ ranges'[r + 1] = Child /\ \A i \in 1..r : ranges'[i] = ranges[i]
  BY <1>0, <1>1
<1>3. /\ n \in 1..n /\ Top.read \in Nat /\ Edge = Top.read + 1 /\ stack[n].read = Top.read
      /\ \A k \in 1..n : k = n \/ k \in 1..(n - 1)
  BY <1>0, <1>1 DEF FrameType, Edge
<1>4. \A k \in 1..n : stack'[k].node = stack[k].node /\ stack'[k].ranges = stack[k].ranges
  BY <1>0 DEF SameNodes, SameNode
<1>5. \A k \in 1..n : Pos(k)' = Pos(k) /\ Pos(k) \in 1..r
  BY <1>0, <1>1, <1>4 DEF Pos, PathOnRecord
<1>6. \A x : Children(x)' = Children(x)
  BY DEF Children
<1>7. \A k \in 1..(n - 1) : stack'[k] = stack[k]
  BY <1>0 DEF SameParents
<1>8. \A k \in 1..n : 1..stack[k].read \subseteq 1..stack'[k].read
  <2> TAKE k \in 1..n
  <2>1. CASE k = n
    <3>1. 1..Top.read \subseteq 1..Edge
      BY <1>3
    <3> QED
      BY <1>0, <1>3, <2>1, <3>1
  <2>2. CASE k # n
    BY <1>3, <1>7, <2>2
  <2> QED
    BY <2>1, <2>2
<1>9. Len(stack') \in Nat /\ 1..n \subseteq 1..Len(stack')
  BY <1>0, <1>1
<1>10. \A i \in 2..(r + 1) : \E k \in 1..Len(stack') :
         Pos(k)' < i /\ \E j \in 1..stack'[k].read : ranges'[i] = Children(stack'[k].node)[j]
  <2> SUFFICES ASSUME NEW i \in 2..(r + 1)
               PROVE  \E k \in 1..n : Pos(k)' < i /\ \E j \in 1..stack'[k].read :
                        ranges'[i] = Children(stack'[k].node)[j]
    BY <1>9
  <2>1. CASE i = r + 1
    <3>1. Pos(n)' < r + 1
      BY <1>1, <1>3, <1>5
    <3>2. Edge \in 1..stack'[n].read
      BY <1>0, <1>3
    <3>3. ranges'[i] = Children(stack'[n].node)[Edge]
      BY <1>1, <1>2, <1>3, <1>4, <2>1 DEF Child
    <3> QED
      BY <1>3, <2>1, <3>1, <3>2, <3>3
  <2>2. CASE i # r + 1
    <3>1. i \in 2..r /\ i \in 1..r
      BY <1>1, <2>2
    <3>2. PICK k \in 1..n : Pos(k) < i /\ \E j \in 1..stack[k].read :
                              ranges[i] = Children(stack[k].node)[j]
      BY <1>0, <3>1 DEF RangesOpen
    <3> QED
      BY <1>2, <1>4, <1>5, <1>8, <3>1, <3>2
  <2> QED
    BY <2>1, <2>2
<1>11. CASE Len(stack') = n
  <2>1. \A k \in 1..n : \A j \in 1..stack'[k].read : \E i \in 1..(r + 1) :
          ranges'[i] = Children(stack'[k].node)[j] /\ (k < n => i <= Pos(k + 1)')
    <3> SUFFICES ASSUME NEW k \in 1..n, NEW j \in 1..stack'[k].read
                 PROVE  \E i \in 1..(r + 1) :
                          /\ ranges'[i] = Children(stack[k].node)[j]
                          /\ k < n => i <= Pos(k + 1)'
      BY <1>4, ZenonT(60)
    <3>1. CASE k = n /\ j = Edge
      <4>1. r + 1 \in 1..(r + 1) /\ ~(k < n)
        BY <1>1, <3>1
      <4> QED
        BY <1>1, <1>2, <3>1, <4>1 DEF Child
    <3>2. CASE ~(k = n /\ j = Edge)
      <4>1. j \in 1..stack[k].read
        <5>1. CASE k = n
          BY <1>0, <1>3, <3>2, <5>1
        <5>2. CASE k # n
          BY <1>3, <1>7, <5>2
        <5> QED
          BY <5>1, <5>2
      <4>2. PICK i \in 1..r : /\ ranges[i] = Children(stack[k].node)[j]
                              /\ k < n => i <= Pos(k + 1)
        BY <1>0, <4>1 DEF RangesOpen
      <4>3. k < n => Pos(k + 1)' = Pos(k + 1)
        <5>1. k < n => k + 1 \in 1..n
          BY <1>1
        <5> QED
          BY <1>5, <5>1
      <4>4. i \in 1..(r + 1)
        BY <1>1
      <4> QED
        BY <1>2, <4>2, <4>3, <4>4
    <3> QED
      BY <3>1, <3>2
  <2> QED
    <3>1. \A i \in 2..Len(ranges') : \E k \in 1..Len(stack') :
            Pos(k)' < i /\ \E j \in 1..stack'[k].read : ranges'[i] = Children(stack'[k].node)[j]
      BY <1>2, <1>10
    <3>2. \A k \in 1..Len(stack') : \A j \in 1..stack'[k].read : \E i \in 1..Len(ranges') :
            /\ ranges'[i] = Children(stack'[k].node)[j]
            /\ k < Len(stack') => i <= Pos(k + 1)'
      BY <1>2, <1>11, <2>1
    <3> QED
      BY <1>6, <3>1, <3>2, ZenonT(60) DEF RangesOpen
<1>12. CASE Len(stack') = n + 1 /\ Top'.read = 0 /\ Top'.ranges = Len(ranges')
  <2>1. Top' = stack'[n + 1] /\ n + 1 # 1 /\ Pos(n + 1)' = r + 1
    BY <1>0, <1>1, <1>2, <1>12 DEF Top, Last, Pos
  <2>2. \A k \in 1..(n + 1) : \A j \in 1..stack'[k].read : \E i \in 1..(r + 1) :
          ranges'[i] = Children(stack'[k].node)[j] /\ (k < n + 1 => i <= Pos(k + 1)')
    <3> SUFFICES ASSUME NEW k \in 1..(n + 1), NEW j \in 1..stack'[k].read
                 PROVE  \E i \in 1..(r + 1) :
                          /\ ranges'[i] = Children(stack'[k].node)[j]
                          /\ k < n + 1 => i <= Pos(k + 1)'
      OBVIOUS
    <3>1. CASE k = n + 1
      BY <1>12, <2>1, <3>1
    <3>2. CASE k = n /\ j = Edge
      <4>1. r + 1 \in 1..(r + 1) /\ r + 1 <= Pos(k + 1)'
        BY <1>1, <2>1, <3>2
      <4> QED
        BY <1>1, <1>2, <1>4, <3>2, <4>1 DEF Child
    <3>3. CASE k # n + 1 /\ ~(k = n /\ j = Edge)
      <4>0. k \in 1..n
        BY <1>1, <3>3
      <4>1. j \in 1..stack[k].read
        <5>1. CASE k = n
          BY <1>0, <1>3, <3>3, <5>1
        <5>2. CASE k # n
          BY <1>3, <1>7, <4>0, <5>2
        <5> QED
          BY <5>1, <5>2
      <4>2. PICK i \in 1..r : /\ ranges[i] = Children(stack[k].node)[j]
                              /\ k < n => i <= Pos(k + 1)
        BY <1>0, <4>0, <4>1 DEF RangesOpen
      <4>3. k < n => Pos(k + 1)' = Pos(k + 1)
        <5>1. k < n => k + 1 \in 1..n
          BY <1>1, <4>0
        <5> QED
          BY <1>5, <5>1
      <4>4. i \in 1..(r + 1) /\ i <= r + 1 /\ (k < n \/ k = n)
        BY <1>1, <4>0
      <4>5. i <= Pos(k + 1)'
        BY <2>1, <4>2, <4>3, <4>4
      <4> QED
        BY <1>2, <1>4, <4>0, <4>2, <4>4, <4>5
    <3> QED
      BY <3>1, <3>2, <3>3
  <2> QED
    <3>1. \A i \in 2..Len(ranges') : \E k \in 1..Len(stack') :
            Pos(k)' < i /\ \E j \in 1..stack'[k].read : ranges'[i] = Children(stack'[k].node)[j]
      BY <1>2, <1>10
    <3>2. \A k \in 1..Len(stack') : \A j \in 1..stack'[k].read : \E i \in 1..Len(ranges') :
            /\ ranges'[i] = Children(stack'[k].node)[j]
            /\ k < Len(stack') => i <= Pos(k + 1)'
      BY <1>2, <1>12, <2>2
    <3> QED
      BY <1>6, <3>1, <3>2, ZenonT(60) DEF RangesOpen
<1> QED
  BY <1>0, <1>11, <1>12

\* An edge read is that of a child.
LEMMA ChildIsANode ==
  ASSUME IterInv, Walking, Edge \in 1..Len(Children(Top.node))
  PROVE  Child \in Nodes
<1>1. Top \in FrameType /\ IterTypes
  BY TopFacts DEF IterInv, Walking
<1>2. Children(Top.node) \in Seq(Nodes)
  BY <1>1, ChildrenType DEF FrameType
<1> QED
  BY <1>2 DEF Child

LEMMA EntersRanges == IterInv /\ IterInv' /\ RangesOpen /\ Enters => RangesOpen'
<1> SUFFICES ASSUME IterInv, IterInv', RangesOpen, Enters PROVE RangesOpen'
  OBVIOUS
<1>0. PICK n, r : n = Len(stack) /\ r = Len(ranges)
  OBVIOUS
<1>1. /\ pc' = "loop" /\ UNCHANGED trie /\ stack' # <<>> /\ Len(stack') = n + 1
      /\ Top'.read = 0 /\ SameNodes /\ SameParents
  BY <1>0 DEF Enters
<1>2. n \in Nat /\ r \in Nat /\ Top' = stack'[n + 1] /\ stack \in Seq(FrameType)
  BY <1>0, <1>1 DEF IterInv, IterTypes, Top, Last
<1>3. CASE stack = <<>>
  <2>1. n = 0 /\ ranges' = ranges /\ pc = "advance"
    BY <1>0, <1>3 DEF Enters, Walking
  <2>2. Len(ranges') = 1
    BY <1>3, <2>1 DEF RangesOpen
  <2>3. stack'[1].read = 0 /\ Len(stack') = 1
    BY <1>1, <1>2, <2>1
  <2>4. 2..1 = {} /\ 1..0 = {} /\ \A k \in 1..1 : k = 1
    OBVIOUS
  <2> QED
    BY <1>1, <2>2, <2>3, <2>4 DEF RangesOpen
<1>4. CASE Walking /\ pc = "loop"
  <2>1. /\ ranges' = Append(ranges, Child) /\ Top'.ranges = Len(ranges')
        /\ stack'[n].read = Edge /\ Edge \in 1..Len(Children(Top.node))
    BY <1>0, <1>4 DEF Enters, Walking
  <2>2. Child \in Nodes
    BY <1>4, <2>1, ChildIsANode
  <2> QED
    BY <1>0, <1>1, <1>4, <2>1, <2>2, RangesGrow
<1>5. CASE Walking /\ pc = "advance"
  <2>1. /\ ranges' = ranges /\ Top'.ranges = r /\ stack'[n].read = Top.read
        /\ stack # <<>>
    BY <1>0, <1>5 DEF Enters, Walking
  <2>2. n \in Nat \ {0} /\ n + 1 # 1 /\ Top = stack[n]
    BY <1>0, <1>2, <2>1 DEF Top, Last
  <2>3. \A k \in 1..n : stack'[k].node = stack[k].node /\ stack'[k].ranges = stack[k].ranges
    BY <1>0, <1>1 DEF SameNodes, SameNode
  <2>4. \A k \in 1..n : stack'[k].read = stack[k].read
    <3>1. \A k \in 1..n : k = n \/ k \in 1..(n - 1)
      BY <2>2
    <3> QED
      BY <1>0, <1>1, <2>1, <2>2, <3>1 DEF SameParents
  <2>5. \A k \in 1..n : Pos(k)' = Pos(k)
    BY <2>3 DEF Pos
  <2>6. Pos(n + 1)' = r
    BY <1>2, <2>1, <2>2 DEF Pos
  <2>7. \A i \in 2..Len(ranges') : \E k \in 1..Len(stack') :
          Pos(k)' < i /\ \E j \in 1..stack'[k].read : ranges'[i] = Children(stack'[k].node)[j]
    <3>1. \A i \in 2..r : \E k \in 1..n :
            Pos(k)' < i /\ \E j \in 1..stack'[k].read : ranges[i] = Children(stack'[k].node)[j]
      BY <1>0, <1>5, <2>3, <2>4, <2>5 DEF RangesOpen
    <3>2. 1..n \subseteq 1..Len(stack')
      BY <1>1, <1>2
    <3> QED
      BY <1>0, <2>1, <3>1, <3>2
  <2>8. \A k \in 1..Len(stack') : \A j \in 1..stack'[k].read : \E i \in 1..Len(ranges') :
          /\ ranges'[i] = Children(stack'[k].node)[j]
          /\ k < Len(stack') => i <= Pos(k + 1)'
    <3> SUFFICES ASSUME NEW k \in 1..(n + 1), NEW j \in 1..stack'[k].read
                 PROVE  \E i \in 1..r : /\ ranges[i] = Children(stack'[k].node)[j]
                                        /\ k < n + 1 => i <= Pos(k + 1)'
      BY <1>0, <1>1, <2>1
    <3>1. k # n + 1 /\ k \in 1..n
      <4>1. ASSUME k = n + 1 PROVE FALSE
        BY <1>1, <1>2, <4>1
      <4> QED
        BY <1>2, <4>1
    <3>2. PICK i \in 1..r : /\ ranges[i] = Children(stack[k].node)[j]
                            /\ k < n => i <= Pos(k + 1)
      BY <1>0, <1>5, <2>4, <3>1 DEF RangesOpen
    <3>3. i <= Pos(k + 1)'
      <4>1. CASE k = n
        BY <1>2, <2>6, <4>1
      <4>2. CASE k # n
        <5>1. k < n /\ k + 1 \in 1..n
          BY <1>2, <3>1, <4>2
        <5> QED
          BY <2>5, <3>2, <5>1
      <4> QED
        BY <4>1, <4>2
    <3> QED
      BY <2>3, <3>1, <3>2, <3>3
  <2>9. \A x : Children(x)' = Children(x)
    BY <1>1 DEF Children
  <2> QED
    BY <1>1, <2>7, <2>8, <2>9, SMTT(60) DEF RangesOpen
<1> QED
  BY <1>3, <1>4, <1>5 DEF Enters, Walking

LEMMA LeavesRanges == IterInv /\ IterInv' /\ RangesOpen /\ Leaves => RangesOpen'
<1> SUFFICES ASSUME IterInv, IterInv', RangesOpen, Leaves PROVE RangesOpen'
  OBVIOUS
<1>0. PICK n, r, m : n = Len(stack) /\ r = Len(ranges) /\ m = n - 1
  OBVIOUS
<1>1. /\ UNCHANGED trie /\ stack # <<>> /\ pc \in {"advance", "loop"} /\ RangesInv /\ PathOnRecord
      /\ stack \in Seq(FrameType) /\ ranges \in Seq(Nodes)
  BY DEF Leaves, Exhausted, Walking, IterInv, RangesInv, IterTypes
<1>2. n \in Nat \ {0} /\ r \in Nat /\ m \in Nat
  BY <1>0, <1>1
<1>3. CASE n = 1
  BY <1>0, <1>3 DEF Leaves, RangesOpen
<1>4. CASE n # 1
  <2>1. /\ pc' = "loop" /\ Len(stack') = m
        /\ \A k \in 1..m : SameNode(k) /\ stack'[k].read = stack[k].read
        /\ ranges' = SubSeq(ranges, 1, Pos(n))
    BY <1>0, <1>4 DEF Leaves
  <2>2. /\ m \in Nat \ {0} /\ n \in 1..n /\ m + 1 = n
        /\ \A k \in 1..m : k \in 1..n /\ k < n /\ k + 1 \in 1..n
    BY <1>0, <1>2, <1>4
  <2>3. \A k \in 1..m : /\ stack'[k].node = stack[k].node /\ stack'[k].ranges = stack[k].ranges
                        /\ stack'[k].read = stack[k].read
    BY <2>1 DEF SameNode
  <2>4. \A k \in 1..m : Pos(k)' = Pos(k)
    BY <2>3 DEF Pos
  <2>5. /\ \A k \in 1..n : Pos(k) \in 1..r
        /\ \A j, k \in 1..n : j < k => Pos(j) < Pos(k)
    BY <1>0, <1>1 DEF PathOnRecord
  <2>6. PICK q \in 1..r : q = Pos(n)
    BY <2>2, <2>5
  <2>7. Len(ranges') = q /\ \A i \in 1..q : ranges'[i] = ranges[i] /\ i \in 1..r
    BY <1>0, <1>1, <1>2, <2>1, <2>6
  <2>8. \A i \in 2..Len(ranges') : \E k \in 1..Len(stack') :
          Pos(k)' < i /\ \E j \in 1..stack'[k].read : ranges'[i] = Children(stack'[k].node)[j]
    <3> SUFFICES ASSUME NEW i \in 2..q
                 PROVE  \E k \in 1..m : Pos(k)' < i /\ \E j \in 1..stack'[k].read :
                          ranges'[i] = Children(stack'[k].node)[j]
      BY <2>1, <2>7
    <3>1. i \in 2..r /\ i \in 1..q
      BY <1>2
    <3>2. PICK k \in 1..n : Pos(k) < i /\ \E j \in 1..stack[k].read :
                              ranges[i] = Children(stack[k].node)[j]
      BY <1>0, <1>1, <3>1 DEF RangesOpen
    <3>3. k # n
      BY <2>5, <2>6, <3>1, <3>2
    <3>4. k \in 1..m
      BY <1>0, <1>2, <3>3
    <3> QED
      BY <2>3, <2>4, <2>7, <3>1, <3>2, <3>4
  <2>9. \A k \in 1..Len(stack') : \A j \in 1..stack'[k].read : \E i \in 1..Len(ranges') :
          /\ ranges'[i] = Children(stack'[k].node)[j]
          /\ k < Len(stack') => i <= Pos(k + 1)'
    <3> SUFFICES ASSUME NEW k \in 1..m, NEW j \in 1..stack[k].read
                 PROVE  \E i \in 1..q : /\ ranges'[i] = Children(stack[k].node)[j]
                                        /\ k < m => i <= Pos(k + 1)'
      <4>1. Len(stack') = m /\ Len(ranges') = q
        BY <2>1, <2>7
      <4> QED
        BY <2>3, <4>1, ZenonT(60)
    <3>1. PICK i \in 1..r : ranges[i] = Children(stack[k].node)[j] /\ i <= Pos(k + 1)
      BY <1>0, <1>1, <2>2 DEF RangesOpen
    <3>2. Pos(k + 1) <= q
      <4>1. k + 1 = n \/ k + 1 < n
        BY <2>2
      <4>2. k + 1 \in 1..n /\ n \in 1..n
        BY <2>2
      <4>3. Pos(k + 1) \in Int /\ Pos(n) \in Int
        BY <2>5, <4>2
      <4> QED
        BY <2>5, <2>6, <4>1, <4>2, <4>3
    <3>3. i \in 1..q
      <4>1. Pos(k + 1) \in Int
        BY <2>2, <2>5
      <4> QED
        BY <3>1, <3>2, <4>1
    <3>4. k < m => Pos(k + 1)' = Pos(k + 1)
      <4>1. k < m => k + 1 \in 1..m
        BY <2>2
      <4> QED
        BY <2>4, <4>1
    <3> QED
      BY <2>7, <3>1, <3>3, <3>4
  <2>10. \A x : Children(x)' = Children(x)
    BY <1>1 DEF Children
  <2>11. stack' # <<>>
    BY <2>1, <2>2
  <2> QED
    BY <2>1, <2>8, <2>9, <2>10, <2>11 DEF RangesOpen
<1> QED
  BY <1>3, <1>4

LEMMA BeginsRanges == IterInv /\ RangesOpen /\ Begins => RangesOpen'
<1> SUFFICES ASSUME IterInv, RangesOpen, Begins PROVE RangesOpen'
  OBVIOUS
<1>0. PICK n : n = Len(stack)
  OBVIOUS
<1>1. /\ pc \in {"advance", "loop"} /\ stack # <<>> /\ UNCHANGED <<trie, ranges>>
      /\ stack' # <<>> /\ Len(stack') = Len(stack) /\ SameNodes /\ SameParents
      /\ Top'.read = Top.read /\ IterTypes
  BY DEF Begins, Walking, IterInv
<1>2. n \in Nat \ {0} /\ Top = stack[n] /\ Top' = stack'[n]
  BY <1>0, <1>1, TopFacts DEF Top, Last
<1>3. \A k \in 1..n : k = n \/ k \in 1..(n - 1)
  BY <1>2
<1>4. \A k \in 1..Len(stack) : stack'[k].read = stack[k].read
  BY <1>0, <1>1, <1>2, <1>3 DEF SameParents
<1> QED
  BY <1>1, <1>4, RangesKept

LEMMA ListsRanges == RangesOpen /\ Lists => RangesOpen'
<1> SUFFICES ASSUME RangesOpen, Lists PROVE RangesOpen'
  OBVIOUS
<1>1. /\ pc \in {"advance", "loop"} /\ stack # <<>> /\ UNCHANGED <<trie, stack, ranges>>
  BY DEF Lists, Walking
<1> QED
  BY <1>1, RangesKept DEF SameNodes, SameNode

LEMMA ReadsRanges == IterInv /\ IterInv' /\ RangesOpen /\ Reads => RangesOpen'
<1> SUFFICES ASSUME IterInv, IterInv', RangesOpen, Reads PROVE RangesOpen'
  OBVIOUS
<1>0. PICK n : n = Len(stack)
  OBVIOUS
<1>1. /\ pc = "loop" /\ pc' = "advance" /\ UNCHANGED trie /\ ranges' = Append(ranges, Child)
      /\ stack # <<>> /\ stack' # <<>> /\ SameNodes /\ SameParents /\ Len(stack') = Len(stack)
      /\ Edge = 1 /\ Top'.read = 1 /\ Walking /\ Children(Top.node) # <<>> /\ IterTypes
  BY DEF Reads, Walking, IterInv
<1>2. Top' = stack'[n] /\ Top \in FrameType
  BY <1>0, <1>1, TopFacts DEF Top, Last
<1>3. Edge \in 1..Len(Children(Top.node))
  <2>1. Children(Top.node) \in Seq(Nodes)
    BY <1>1, <1>2, ChildrenType DEF FrameType
  <2> QED
    BY <1>1, <2>1
<1>4. Child \in Nodes
  BY <1>1, <1>3, ChildIsANode
<1>5. stack'[Len(stack)].read = Edge
  BY <1>0, <1>1, <1>2
<1> QED
  BY <1>1, <1>4, <1>5, RangesGrow

LEMMA OpensRanges == Opens => RangesOpen'
<1> SUFFICES ASSUME Opens PROVE RangesOpen'
  OBVIOUS
<1>1. CASE pc' = "end"
  BY <1>1 DEF RangesOpen
<1>2. CASE pc' # "end"
  <2>1. stack' = <<>> /\ Len(stack') = 0 /\ ranges' = <<Root>> /\ Len(ranges') = 1
    BY <1>2 DEF Opens
  <2> QED
    BY <2>1 DEF RangesOpen
<1> QED
  BY <1>1, <1>2

LEMMA RangesOpenStep ==
  IterInv /\ IterInv' /\ StackInv /\ RangesOpen /\ [Next]_vars => RangesOpen'
<1> SUFFICES ASSUME IterInv, IterInv', StackInv, RangesOpen, [Next]_vars PROVE RangesOpen'
  OBVIOUS
<1>1. Shape \/ UNCHANGED vars
  BY StepShape
<1>2. CASE UNCHANGED vars
  BY <1>2 DEF vars, RangesOpen, Children, Pos
<1>3. CASE Fails
  BY <1>3 DEF Fails, RangesOpen
<1>4. CASE Shape
  BY <1>3, <1>4, OpensRanges, BeginsRanges, ListsRanges, ReadsRanges, EntersRanges, LeavesRanges
  DEF Shape
<1> QED
  BY <1>1, <1>2, <1>4

\* The record as RangesAreOpen states it.
LEMMA OpenRangesAreAll == IterInv /\ StackInv /\ RangesOpen => RangesAreOpen
<1> SUFFICES ASSUME IterInv, StackInv, RangesOpen, stack # <<>>, pc # "error"
             PROVE  ToSet(ranges) = {Root} \cup
                      UNION {{Children(stack[k].node)[i] : i \in 1..stack[k].read} :
                             k \in DOMAIN stack}
  BY DEF RangesAreOpen
<1>1. /\ pc \in {"advance", "loop"} /\ PathOnRecord
      /\ stack \in Seq(FrameType) /\ ranges \in Seq(Nodes) /\ Len(ranges) \in Nat
      /\ DOMAIN stack = 1..Len(stack) /\ DOMAIN ranges = 1..Len(ranges)
  BY DEF IterInv, IterTypes, RangesInv, Pcs
<1>2. ToSet(ranges) = {ranges[i] : i \in 1..Len(ranges)}
  BY <1>1 DEF ToSet
<1>3. ASSUME NEW i \in 1..Len(ranges)
      PROVE  ranges[i] = Root \/ \E k \in 1..Len(stack) : \E j \in 1..stack[k].read :
               ranges[i] = Children(stack[k].node)[j]
  <2>1. CASE i = 1
    BY <1>1, <2>1 DEF PathOnRecord
  <2>2. CASE i # 1
    <3>1. i \in 2..Len(ranges)
      BY <1>1, <2>2
    <3> QED
      BY <1>1, <3>1 DEF RangesOpen
  <2> QED
    BY <2>1, <2>2
<1>4. Root \in ToSet(ranges)
  <2>1. 1 \in 1..Len(ranges) /\ ranges[1] = Root
    BY <1>1 DEF PathOnRecord
  <2> QED
    BY <1>2, <2>1
<1>5. \A k \in 1..Len(stack) : \A j \in 1..stack[k].read :
        Children(stack[k].node)[j] \in ToSet(ranges)
  BY <1>1, <1>2 DEF RangesOpen
<1> DEFINE All == {Root} \cup
                    UNION {{Children(stack[k].node)[i] : i \in 1..stack[k].read} :
                           k \in DOMAIN stack}
<1>6. ToSet(ranges) \subseteq All
  BY <1>1, <1>2, <1>3
<1>7. All \subseteq ToSet(ranges)
  BY <1>1, <1>4, <1>5
<1> QED
  BY <1>6, <1>7

-----------------------------------------------------------------------------
(* Kind *)

\* Kind is set only between two calls, and at an export.
KindInv ==
  /\ pc \in {"open", "loop"} => ~kind
  /\ pc = "advance" /\ kind => stack # <<>> /\ IsExport(Top.node)

LEMMA KindInvInit == Init => KindInv
BY DEF Init, KindInv

LEMMA KindInvStep == IterInv /\ StackInv /\ KindInv /\ [Next]_vars => KindInv'
<1> SUFFICES ASSUME IterInv, StackInv, KindInv, [Next]_vars PROVE KindInv'
  OBVIOUS
<1>1. Shape \/ UNCHANGED vars
  BY StepShape
<1>2. CASE UNCHANGED vars
  BY <1>2 DEF vars, KindInv, IsExport, Top
<1>3. CASE Leaves
  <2>1. pc' \in {"end", "loop"} /\ (kind' = FALSE \/ (pc = "loop" /\ kind' = kind))
    BY <1>3 DEF Leaves
  <2> QED
    BY <2>1 DEF KindInv
<1>4. CASE Enters
  <2>1. pc' = "loop" /\ kind' = kind /\ (pc = "advance" => stack = <<>> \/ ~IsExport(Top.node))
        /\ pc \in {"advance", "loop"}
    BY <1>4 DEF Enters, Walking
  <2> QED
    BY <2>1 DEF KindInv
<1>5. CASE Begins
  BY <1>5 DEF Begins, KindInv
<1>6. CASE Reads
  BY <1>6 DEF Reads, KindInv, Walking
<1>7. CASE Lists
  <2>1. stack' = stack /\ stack # <<>> /\ IsExport(Top.node) /\ trie' = trie /\ pc' = "advance"
    BY <1>7 DEF Lists, Walking
  <2> QED
    BY <2>1 DEF KindInv, IsExport, Top
<1>8. CASE Fails
  BY <1>8 DEF Fails, KindInv
<1>9. CASE Opens
  BY <1>9 DEF Opens, KindInv
<1> QED
  BY <1>1, <1>2, <1>3, <1>4, <1>5, <1>6, <1>7, <1>8, <1>9 DEF Shape

-----------------------------------------------------------------------------
(* The paths of the trie *)

BoundedTrie == trie \in [Nodes -> [export : BOOLEAN, children : SeqOf(Nodes, MaxChildren)]]

LEMMA SeqOfFacts ==
  ASSUME NEW S, NEW m \in Nat
  PROVE  \A p : p \in SeqOf(S, m) <=> p \in Seq(S) /\ Len(p) <= m
<1> TAKE p
<1>1. ASSUME p \in SeqOf(S, m) PROVE p \in Seq(S) /\ Len(p) <= m
  <2>1. PICK k \in 0..m : p \in [1..k -> S]
    BY <1>1 DEF SeqOf
  <2>2. k \in Nat
    OBVIOUS
  <2> QED
    BY <2>1, <2>2, FunctionIsSeq
<1>2. ASSUME p \in Seq(S), Len(p) <= m PROVE p \in SeqOf(S, m)
  <2>1. Len(p) \in 0..m /\ p \in [1..Len(p) -> S]
    BY <1>2
  <2> QED
    BY <2>1 DEF SeqOf
<1> QED
  BY <1>1, <1>2

LEMMA BoundedChildren ==
  ASSUME BoundedTrie
  PROVE  \A x \in Nodes : /\ Children(x) \in Seq(Nodes) /\ Len(Children(x)) <= MaxChildren
                          /\ Len(Children(x)) \in Nat
<1> TAKE x \in Nodes
<1>1. trie[x] \in [export : BOOLEAN, children : SeqOf(Nodes, MaxChildren)]
  BY DEF BoundedTrie
<1>2. Children(x) \in SeqOf(Nodes, MaxChildren)
  BY <1>1 DEF Children
<1>3. Children(x) \in Seq(Nodes) /\ Len(Children(x)) <= MaxChildren
  BY <1>2, SeqOfFacts, TrieAssumption DEF TrieAssumption
<1> QED
  BY <1>3

LEMMA PathsFacts ==
  \A p : p \in Paths <=> /\ p \in Seq(1..MaxChildren) /\ Len(p) <= MaxDepth
                         /\ NodeAt(p) \in Nodes
<1>1. MaxDepth \in Nat
  BY TrieAssumption DEF TrieAssumption
<1> QED
  BY <1>1, SeqOfFacts DEF Paths

LEMMA WiderSeq ==
  ASSUME NEW S, NEW T, S \subseteq T, NEW p \in Seq(S)
  PROVE  p \in Seq(T)
OBVIOUS

LEMMA PathsAreNumbers == \A p \in Paths : p \in Seq(Nat) /\ p \in Seq(Nat \ {0})
<1>1. 1..MaxChildren \subseteq Nat /\ 1..MaxChildren \subseteq Nat \ {0}
  BY TrieAssumption DEF TrieAssumption
<1> QED
  BY <1>1, PathsFacts, WiderSeq

\* A path goes on to each child of its node, as long as it is not too long.
LEMMA PathExtends ==
  ASSUME IterTypes, BoundedTrie, NEW p \in Paths, Len(p) < MaxDepth,
         NEW i \in 1..Len(Children(NodeAt(p)))
  PROVE  /\ Append(p, i) \in Paths /\ Len(Append(p, i)) = Len(p) + 1
         /\ NodeAt(Append(p, i)) = Children(NodeAt(p))[i]
<1>1. /\ p \in Seq(1..MaxChildren) /\ NodeAt(p) \in Nodes /\ p \in Seq(Nat)
  BY PathsFacts, PathsAreNumbers
<1>2. /\ Children(NodeAt(p)) \in Seq(Nodes) /\ Len(Children(NodeAt(p))) <= MaxChildren
      /\ Len(Children(NodeAt(p))) \in Nat
  BY <1>1, BoundedChildren
<1>3. i \in 1..MaxChildren /\ i \in Nat /\ i \in DOMAIN Children(NodeAt(p))
  BY <1>2, TrieAssumption DEF TrieAssumption
<1>4. NodeAt(Append(p, i)) = Children(NodeAt(p))[i]
  BY <1>1, <1>3, NodeAtAppend DEF Follow
<1>5. Children(NodeAt(p))[i] \in Nodes
  BY <1>2
<1>6. Append(p, i) \in Seq(1..MaxChildren) /\ Len(Append(p, i)) = Len(p) + 1
  BY <1>1, <1>3
<1>7. Len(p) + 1 <= MaxDepth
  BY <1>1, TrieAssumption DEF TrieAssumption
<1> QED
  BY <1>4, <1>5, <1>6, <1>7, PathsFacts

LEMMA RootIsAPath == IterTypes => <<>> \in Paths
<1>1. <<>> \in Seq(1..MaxChildren) /\ Len(<<>>) = 0 /\ 0 <= MaxDepth
  BY TrieAssumption DEF TrieAssumption
<1> QED
  BY <1>1, NodeAtRoot, PathsFacts, TrieAssumption DEF TrieAssumption

\* Each node of the stack is at the end of a path.
LEMMA PathToIsAPath ==
  ASSUME IterTypes, InStep, StackInv, BoundedTrie, NEW k \in 1..Len(stack)
  PROVE  PathTo(k) \in Paths /\ Len(PathTo(k)) = k - 1 /\ k - 1 < MaxDepth
         /\ NodeAt(PathTo(k)) = stack[k].node
<1>1. /\ Len(PathTo(k)) = k - 1 /\ stack[k].node \in Nodes /\ k \in Nat /\ Len(stack) \in Nat
      /\ Len(stack) <= MaxDepth /\ MaxDepth \in Nat
  BY PathFacts, TrieAssumption, SMTT(30) DEF IterTypes, TrieAssumption
<1>2. NodeAt(PathTo(k)) = stack[k].node
  BY StackFollowsTrie
<1>3. \A j \in 1..(k - 1) : stack[j].ordinal \in 1..MaxChildren
  <2> TAKE j \in 1..(k - 1)
  <2>1. j \in 1..Len(stack) /\ j \in 1..(Len(stack) - 1)
    BY <1>1
  <2>2. stack[j].node \in Nodes
    BY <2>1, PathFacts
  <2>3. stack[j].ordinal \in 1..Len(Children(stack[j].node))
    BY <2>1, StackFollowsTrie
  <2>4. Len(Children(stack[j].node)) <= MaxChildren /\ Len(Children(stack[j].node)) \in Nat
    BY <2>2, BoundedChildren
  <2> QED
    BY <2>3, <2>4, TrieAssumption DEF TrieAssumption
<1>4. PathTo(k) \in [1..(k - 1) -> 1..MaxChildren] /\ k - 1 \in Nat
  BY <1>1, <1>3 DEF PathTo
<1>5. PathTo(k) \in Seq(1..MaxChildren)
  BY <1>4, FunctionIsSeq
<1>6. k - 1 <= MaxDepth /\ k - 1 < MaxDepth
  BY <1>1
<1> QED
  BY <1>1, <1>2, <1>5, <1>6, PathsFacts

LEMMA PathsStay ==
  ASSUME UNCHANGED <<trie, fault>>
  PROVE  Paths' = Paths
BY FileStays DEF Paths

-----------------------------------------------------------------------------
(* Refusals *)

RefusalsInv ==
  /\ BoundedTrie
  /\ RefusalsAreJustified
  /\ pc \in {"open", "advance", "loop"} => error = "None"

LEMMA RefusalsInvInit == Init => RefusalsInv
BY DEF Init, RefusalsInv, BoundedTrie, RefusalsAreJustified

LEMMA FailsJustified ==
  IterInv /\ StackInv /\ RangesOpen /\ RefusalsInv /\ Fails => RefusalsAreJustified'
<1> SUFFICES ASSUME IterInv, StackInv, RangesOpen, RefusalsInv, Fails
             PROVE  RefusalsAreJustified'
  OBVIOUS
<1> DEFINE n == Len(stack)
           p == PathTo(n)
<1>1. /\ IterTypes /\ InStep /\ BoundedTrie /\ Walking /\ stack # <<>> /\ UNCHANGED <<trie, fault>>
      /\ pc \in {"advance", "loop"}
  BY DEF IterInv, RefusalsInv, Fails, Walking
<1>2. /\ n \in Nat \ {0} /\ n \in 1..n /\ Top = stack[n] /\ n <= MaxDepth /\ MaxDepth \in Nat
      /\ Top \in FrameType
  BY <1>1, TopFacts, TrieAssumption DEF IterTypes, TrieAssumption
<1>3. /\ p \in Paths /\ Len(p) = n - 1 /\ NodeAt(p) = Top.node /\ StringAt(p) = string
      /\ n - 1 < MaxDepth
  BY <1>1, <1>2, PathToIsAPath, StackFollowsTrie
<1>4. CASE error' = "Invalid"
  BY <1>4 DEF RefusalsAreJustified
<1>5. CASE error' = "TooDeep" /\ n = MaxDepth
  <2>1. \E q \in Paths' : Len(q) = MaxDepth - 1
    BY <1>1, <1>3, <1>5, PathsStay
  <2> QED
    BY <1>5, <2>1 DEF RefusalsAreJustified
<1>6. CASE error' = "EmptyExport" /\ string = <<>> /\ IsExport(Top.node)
  <2>1. p \in Paths' /\ IsExport(NodeAt(p)) /\ StringAt(p) = <<>>
    BY <1>1, <1>3, <1>6, PathsStay
  <2>2. \E q \in Paths' : IsExport(NodeAt(q))' /\ StringAt(q)' = <<>>
    <3> HIDE DEF p
    <3>1. \A q : NodeAt(q)' = NodeAt(q) /\ StringAt(q)' = StringAt(q)
      BY <1>1, FileStays
    <3>2. \A q : IsExport(NodeAt(q))' = IsExport(NodeAt(q))
      BY <1>1, <3>1 DEF IsExport
    <3> QED
      BY <2>1, <3>1, <3>2
  <2> QED
    BY <1>6, <2>2 DEF RefusalsAreJustified
<1>7. CASE /\ error' = "OverlappingRanges" /\ pc = "loop" /\ Overlaps(Child)
           /\ Edge \in 1..Len(Children(Top.node))
  <2> DEFINE q == Append(p, Edge)
  <2>1. /\ q \in Paths /\ Len(q) = n /\ NodeAt(q) = Child
    <3>1. Len(p) < MaxDepth /\ Edge \in 1..Len(Children(NodeAt(p)))
      BY <1>3, <1>7
    <3>2. q \in Paths /\ Len(q) = Len(p) + 1 /\ NodeAt(q) = Children(NodeAt(p))[Edge]
      <4> HIDE DEF p
      <4> QED
        BY <1>1, <1>3, <3>1, PathExtends
    <3> QED
      BY <1>2, <1>3, <3>2 DEF Child
  <2>2. PICK i \in 1..Len(ranges) : ranges[i] = Child
    <3>1. ranges \in Seq(Nodes)
      BY <1>1 DEF IterTypes
    <3> QED
      BY <1>7, <3>1 DEF Overlaps
  <2>3. IsExport(Child)
    BY <1>7 DEF Overlaps
  <2>4. \E o \in Paths : o # q /\ NodeAt(o) = Child
    <3>1. CASE i = 1
      <4>1. Child = Root
        BY <1>1, <1>7, <2>2, <3>1 DEF IterInv, RangesInv, PathOnRecord
      <4>2. <<>> \in Paths /\ NodeAt(<<>>) = Root /\ Len(<<>>) = 0
        BY <1>1, RootIsAPath, NodeAtRoot
      <4>3. Len(q) # 0
        BY <1>2, <2>1
      <4> HIDE DEF q
      <4> QED
        BY <4>1, <4>2, <4>3
    <3>2. CASE i # 1
      <4>1. i \in 2..Len(ranges)
        BY <3>2
      <4>2. PICK k \in 1..n : \E j \in 1..stack[k].read : ranges[i] = Children(stack[k].node)[j]
        BY <1>7, <4>1 DEF RangesOpen
      <4>3. PICK j \in 1..stack[k].read : ranges[i] = Children(stack[k].node)[j]
        BY <4>2
      <4>4. /\ PathTo(k) \in Paths /\ Len(PathTo(k)) = k - 1 /\ NodeAt(PathTo(k)) = stack[k].node
            /\ k - 1 < MaxDepth
        BY <1>1, PathToIsAPath
      <4>5. j \in 1..Len(Children(stack[k].node))
        <5>1. stack[k].read <= Len(Children(stack[k].node)) /\ stack[k].read \in Nat
              /\ stack[k].node \in Nodes
          BY <1>1, PathFacts DEF InStep
        <5>2. Len(Children(stack[k].node)) \in Nat
          BY <1>1, <5>1, BoundedChildren
        <5> QED
          BY <5>1, <5>2
      <4> DEFINE o == Append(PathTo(k), j)
      <4>6. o \in Paths /\ Len(o) = k - 1 + 1 /\ NodeAt(o) = Child
        <5>1. /\ o \in Paths /\ Len(o) = Len(PathTo(k)) + 1
              /\ NodeAt(o) = Children(NodeAt(PathTo(k)))[j]
          BY <1>1, <4>4, <4>5, PathExtends
        <5> QED
          BY <2>2, <4>3, <4>4, <5>1
      <4>7. o # q
        <5>1. CASE k # n
          <6>1. Len(o) # Len(q)
            BY <1>2, <2>1, <4>6, <5>1
          <6> HIDE DEF o, q
          <6> QED
            BY <6>1
        <5>2. CASE k = n
          <6>1. j # Edge
            <7>1. Top.read \in Nat /\ j \in 1..Top.read
              BY <1>2, <5>2 DEF FrameType
            <7> QED
              BY <7>1 DEF Edge
          <6>2. p \in Seq(Nat) /\ j \in Nat /\ Edge \in Nat
            BY <1>1, <1>2, <1>7, <4>5, PathFacts
          <6>3. o[n] = j /\ q[n] = Edge
            <7>1. Len(p) + 1 = n /\ PathTo(k) = p
              BY <1>2, <1>3, <5>2
            <7> HIDE DEF p
            <7> QED
              BY <6>2, <7>1
          <6> HIDE DEF o, q
          <6> QED
            BY <6>1, <6>3
        <5> QED
          BY <5>1, <5>2
      <4> QED
        BY <4>6, <4>7
    <3> QED
      BY <3>1, <3>2
  <2> HIDE DEF q
  <2>5. \E a, b \in Paths : a # b /\ NodeAt(a) = NodeAt(b) /\ IsExport(NodeAt(a))
    BY <2>1, <2>3, <2>4
  <2>6. \E a, b \in Paths' : a # b /\ NodeAt(a)' = NodeAt(b)' /\ IsExport(NodeAt(a))'
    <3>1. \A x : NodeAt(x)' = NodeAt(x)
      BY <1>1, FileStays
    <3>2. \A x : IsExport(NodeAt(x))' = IsExport(NodeAt(x))
      BY <1>1, <3>1 DEF IsExport
    <3> QED
      BY <1>1, <2>5, <3>1, <3>2, PathsStay
  <2> QED
    BY <1>7, <2>6 DEF RefusalsAreJustified
<1> QED
  BY <1>4, <1>5, <1>6, <1>7 DEF Fails

LEMMA RefusalsInvStep ==
  IterInv /\ StackInv /\ RangesOpen /\ RefusalsInv /\ [Next]_vars => RefusalsInv'
<1> SUFFICES ASSUME IterInv, StackInv, RangesOpen, RefusalsInv, [Next]_vars
             PROVE  RefusalsInv'
  OBVIOUS
<1>1. Shape \/ UNCHANGED vars
  BY StepShape
<1>2. UNCHANGED trie
  BY <1>1 DEF Shape, Leaves, Enters, Begins, Reads, Lists, Fails, Opens, vars
<1>3. BoundedTrie'
  BY <1>2 DEF RefusalsInv, BoundedTrie
<1>4. CASE UNCHANGED vars
  <2>1. RefusalsAreJustified'
    <3>1. /\ Paths' = Paths /\ \A x : NodeAt(x)' = NodeAt(x) /\ StringAt(x)' = StringAt(x)
      BY <1>4, PathsStay, FileStays DEF vars
    <3>2. \A x : IsExport(NodeAt(x))' = IsExport(NodeAt(x))
      BY <1>2, <3>1 DEF IsExport
    <3>3. error' = error
      BY <1>4 DEF vars
    <3> QED
      BY <3>1, <3>2, <3>3 DEF RefusalsInv, RefusalsAreJustified
  <2> QED
    BY <1>3, <1>4, <2>1 DEF RefusalsInv, vars
<1>5. CASE Fails
  <2>1. RefusalsAreJustified' /\ pc' = "error"
    BY <1>5, FailsJustified DEF Fails
  <2> QED
    BY <1>3, <2>1 DEF RefusalsInv
<1>6. CASE Opens
  <2>1. error' = "Invalid" \/ error' = "None"
    BY <1>6 DEF Opens, RefusalsInv
  <2>2. pc' = "end" \/ error' = error
    BY <1>6 DEF Opens
  <2>3. RefusalsAreJustified' /\ (pc' \in {"open", "advance", "loop"} => error' = "None")
    BY <1>6, <2>1, <2>2 DEF Opens, RefusalsInv, RefusalsAreJustified
  <2> QED
    BY <1>3, <2>3 DEF RefusalsInv
<1>7. CASE Leaves \/ Enters \/ Begins \/ Reads \/ Lists
  <2>1. error' = error /\ pc \in {"advance", "loop"}
    BY <1>7 DEF Leaves, Enters, Begins, Reads, Lists, Exhausted, Walking
  <2>2. error' = "None"
    BY <2>1 DEF RefusalsInv
  <2> QED
    BY <1>3, <2>2 DEF RefusalsInv, RefusalsAreJustified
<1> QED
  BY <1>1, <1>4, <1>5, <1>6, <1>7 DEF Shape

LEMMA RangesOpenInit == Init => RangesOpen
BY DEF Init, RangesOpen

\* The invariants together.
PathInv == IterInv /\ StackInv /\ RangesOpen /\ KindInv /\ RefusalsInv

LEMMA PathInvInit == Init => PathInv
BY IterInvInit, StackInvInit, RangesOpenInit, KindInvInit, RefusalsInvInit DEF PathInv

LEMMA PathInvStep == PathInv /\ [Next]_vars => PathInv'
BY IterInvStep, StackInvStep, RangesOpenStep, KindInvStep, RefusalsInvStep DEF PathInv

-----------------------------------------------------------------------------
(* The order of the paths *)

LEMMA PrefixMeans ==
  ASSUME NEW s \in Seq(Nat), NEW t \in Seq(Nat)
  PROVE  IsPrefix(s, t) <=> Len(s) <= Len(t) /\ \A k \in 1..Len(s) : s[k] = t[k]
<1>1. Len(s) \in Nat /\ Len(t) \in Nat /\ SubSeq(s, 1, Len(s)) = s
  OBVIOUS
<1>2. ASSUME Len(s) <= Len(t)
      PROVE  SubSeq(t, 1, Len(s)) = s <=> \A k \in 1..Len(s) : s[k] = t[k]
  BY <1>1, <1>2
<1> QED
  BY <1>1, <1>2 DEF IsPrefix

LEMMA SameStart ==
  ASSUME NEW s \in Seq(Nat), NEW t \in Seq(Nat), NEW k \in Nat, k <= Len(s), k <= Len(t)
  PROVE  SubSeq(s, 1, k) = SubSeq(t, 1, k) <=> \A j \in 1..k : s[j] = t[j]
<1>1. /\ SubSeq(s, 1, k) = [j \in 1..k |-> s[j]]
      /\ SubSeq(t, 1, k) = [j \in 1..k |-> t[j]]
  OBVIOUS
<1> QED
  BY <1>1

LEMMA BeforeMeans ==
  ASSUME NEW p \in Seq(Nat), NEW q \in Seq(Nat)
  PROVE  Before(p, q) <=>
           \/ Len(p) < Len(q) /\ \A k \in 1..Len(p) : p[k] = q[k]
           \/ \E k \in 1..Len(p) : /\ k <= Len(q) /\ p[k] < q[k]
                                   /\ \A j \in 1..(k - 1) : p[j] = q[j]
<1>1. Len(p) \in Nat /\ Len(q) \in Nat /\ DOMAIN p = 1..Len(p) /\ DOMAIN q = 1..Len(q)
  OBVIOUS
<1>2. IsStrictPrefix(p, q) <=> Len(p) < Len(q) /\ \A k \in 1..Len(p) : p[k] = q[k]
  <2>1. Len(p) = Len(q) /\ (\A k \in 1..Len(p) : p[k] = q[k]) => p = q
    BY SMTT(30)
  <2>2. p = q => ~(Len(p) < Len(q))
    BY <1>1
  <2>3. IsPrefix(p, q) <=> Len(p) <= Len(q) /\ \A k \in 1..Len(p) : p[k] = q[k]
    BY PrefixMeans
  <2>4. CASE Len(p) < Len(q)
    BY <1>1, <2>2, <2>3, <2>4 DEF IsStrictPrefix
  <2>5. CASE Len(p) = Len(q)
    BY <1>1, <2>1, <2>3, <2>5 DEF IsStrictPrefix
  <2>6. CASE Len(p) > Len(q)
    BY <1>1, <2>3, <2>6 DEF IsStrictPrefix
  <2>7. Len(p) < Len(q) \/ Len(p) = Len(q) \/ Len(p) > Len(q)
    <3>1. \A a, b \in Nat : a < b \/ a = b \/ a > b
      OBVIOUS
    <3> QED
      BY <1>1, <3>1
  <2> QED
    BY <2>4, <2>5, <2>6, <2>7
<1>3. \A k \in DOMAIN p \cap DOMAIN q :
        SubSeq(p, 1, k - 1) = SubSeq(q, 1, k - 1) <=> \A j \in 1..(k - 1) : p[j] = q[j]
  <2> TAKE k \in DOMAIN p \cap DOMAIN q
  <2>1. k - 1 \in Nat /\ k - 1 <= Len(p) /\ k - 1 <= Len(q)
    BY <1>1
  <2> QED
    BY <2>1, SameStart
<1>4. \A k : k \in DOMAIN p \cap DOMAIN q <=> k \in 1..Len(p) /\ k <= Len(q)
  BY <1>1
<1> QED
  BY <1>2, <1>3, <1>4 DEF Before

\* What comes before a child: what comes before its parent, the parent, and what
\* is below the smaller children.
LEMMA AppendOrder ==
  ASSUME NEW p \in Seq(Nat), NEW q \in Seq(Nat), NEW o \in Nat
  PROVE  Before(p, Append(q, o)) <=>
           Before(p, q) \/ p = q \/ \E i \in Nat : i < o /\ IsPrefix(Append(q, i), p)
<1>0. PICK n, m : n = Len(q) /\ m = Len(p)
  OBVIOUS
<1>1. /\ n \in Nat /\ m \in Nat
      /\ \A i \in Nat : /\ Append(q, i) \in Seq(Nat) /\ Len(Append(q, i)) = n + 1
                        /\ Append(q, i)[n + 1] = i
                        /\ \A k \in 1..n : Append(q, i)[k] = q[k]
      /\ \A k \in 1..m : p[k] \in Nat
  BY <1>0
<1>2. \A i \in Nat : IsPrefix(Append(q, i), p) <=>
        n + 1 <= m /\ p[n + 1] = i /\ \A k \in 1..n : q[k] = p[k]
  <2> TAKE i \in Nat
  <2>1. IsPrefix(Append(q, i), p) <=>
          n + 1 <= m /\ \A k \in 1..(n + 1) : Append(q, i)[k] = p[k]
    <3> DEFINE u == Append(q, i)
    <3>1. u \in Seq(Nat) /\ Len(u) = n + 1
      BY <1>1
    <3> HIDE DEF u
    <3>2. IsPrefix(u, p) <=> n + 1 <= m /\ \A k \in 1..(n + 1) : u[k] = p[k]
      BY <1>0, <3>1, PrefixMeans
    <3> QED
      BY <3>2 DEF u
  <2>2. \A k \in 1..(n + 1) : k = n + 1 \/ k \in 1..n
    BY <1>1
  <2>3. n + 1 \in 1..(n + 1) /\ \A k \in 1..n : k \in 1..(n + 1)
    BY <1>1
  <2> QED
    BY <1>1, <2>1, <2>2, <2>3
<1> DEFINE t == Append(q, o)
<1>3. /\ t \in Seq(Nat) /\ Len(t) = n + 1 /\ t[n + 1] = o /\ \A k \in 1..n : t[k] = q[k]
  BY <1>1
<1>4. Before(p, t) <=>
        \/ m < n + 1 /\ \A k \in 1..m : p[k] = t[k]
        \/ \E k \in 1..m : /\ k <= n + 1 /\ p[k] < t[k]
                           /\ \A j \in 1..(k - 1) : p[j] = t[j]
  <2> HIDE DEF t
  <2> QED
    BY <1>0, <1>3, BeforeMeans
<1>5. Before(p, q) <=>
        \/ m < n /\ \A k \in 1..m : p[k] = q[k]
        \/ \E k \in 1..m : /\ k <= n /\ p[k] < q[k]
                           /\ \A j \in 1..(k - 1) : p[j] = q[j]
  BY <1>0, BeforeMeans
<1>6. (m = n /\ \A k \in 1..m : p[k] = q[k]) <=> p = q
  BY <1>0, SMTT(30)
<1> HIDE DEF t
<1>7. ASSUME Before(p, t)
      PROVE  Before(p, q) \/ p = q \/ \E i \in Nat : i < o /\ IsPrefix(Append(q, i), p)
  <2>1. CASE m < n + 1 /\ \A k \in 1..m : p[k] = t[k]
    <3>1. (m < n \/ m = n) /\ \A k \in 1..m : k \in 1..n
      BY <1>1, <2>1
    <3> QED
      BY <1>3, <1>5, <1>6, <2>1, <3>1
  <2>2. CASE \E k \in 1..m : /\ k <= n + 1 /\ p[k] < t[k]
                             /\ \A j \in 1..(k - 1) : p[j] = t[j]
    <3>1. PICK k \in 1..m : /\ k <= n + 1 /\ p[k] < t[k]
                            /\ \A j \in 1..(k - 1) : p[j] = t[j]
      BY <2>2
    <3>2. CASE k = n + 1
      <4>1. /\ n + 1 <= m /\ p[n + 1] \in Nat /\ p[n + 1] < o /\ (n + 1) - 1 = n
        BY <1>1, <1>3, <3>1, <3>2
      <4>2. \A j \in 1..n : q[j] = p[j]
        BY <1>3, <3>1, <3>2, <4>1
      <4> QED
        BY <1>2, <4>1, <4>2
    <3>3. CASE k # n + 1
      <4>1. k <= n /\ k \in 1..n /\ \A j \in 1..(k - 1) : j \in 1..n
        BY <1>1, <3>1, <3>3
      <4>2. p[k] < q[k] /\ \A j \in 1..(k - 1) : p[j] = q[j]
        BY <1>3, <3>1, <4>1
      <4> QED
        BY <1>5, <4>1, <4>2
    <3> QED
      BY <3>2, <3>3
  <2> QED
    BY <1>4, <1>7, <2>1, <2>2
<1>8. ASSUME Before(p, q) PROVE Before(p, t)
  <2>1. CASE m < n /\ \A k \in 1..m : p[k] = q[k]
    <3>1. m < n + 1 /\ \A k \in 1..m : k \in 1..n
      BY <1>1, <2>1
    <3> QED
      BY <1>3, <1>4, <2>1, <3>1
  <2>2. CASE \E k \in 1..m : /\ k <= n /\ p[k] < q[k]
                             /\ \A j \in 1..(k - 1) : p[j] = q[j]
    <3>1. PICK k \in 1..m : /\ k <= n /\ p[k] < q[k]
                            /\ \A j \in 1..(k - 1) : p[j] = q[j]
      BY <2>2
    <3>2. k \in 1..n /\ k <= n + 1 /\ \A j \in 1..(k - 1) : j \in 1..n
      BY <1>1, <3>1
    <3> QED
      BY <1>3, <1>4, <3>1, <3>2
  <2> QED
    BY <1>5, <1>8, <2>1, <2>2
<1>9. ASSUME p = q PROVE Before(p, t)
  <2>1. m = n /\ m < n + 1
    BY <1>0, <1>1, <1>9
  <2> QED
    BY <1>3, <1>4, <1>9, <2>1
<1>10. ASSUME NEW i \in Nat, i < o, IsPrefix(Append(q, i), p) PROVE Before(p, t)
  <2>1. n + 1 <= m /\ p[n + 1] = i /\ \A k \in 1..n : q[k] = p[k]
    BY <1>2, <1>10
  <2>2. n + 1 \in 1..m /\ (n + 1) - 1 = n /\ n + 1 <= n + 1
    BY <1>1, <2>1
  <2>3. p[n + 1] < t[n + 1] /\ \A j \in 1..n : p[j] = t[j]
    BY <1>3, <1>10, <2>1
  <2>4. /\ n + 1 <= n + 1 /\ p[n + 1] < t[n + 1]
        /\ \A j \in 1..((n + 1) - 1) : p[j] = t[j]
    BY <2>2, <2>3
  <2>5. \E k \in 1..m : k <= n + 1 /\ p[k] < t[k] /\ \A j \in 1..(k - 1) : p[j] = t[j]
    BY <2>2, <2>4
  <2> QED
    BY <1>4, <2>5
<1> QED
  BY <1>7, <1>8, <1>9, <1>10 DEF t

LEMMA SiblingOrder ==
  ASSUME NEW p \in Seq(Nat), NEW q \in Seq(Nat), NEW o \in Nat
  PROVE  Before(p, Append(q, o + 1)) <=> Before(p, Append(q, o)) \/ IsPrefix(Append(q, o), p)
<1>1. o + 1 \in Nat /\ \A i \in Nat : i < o + 1 <=> i < o \/ i = o
  OBVIOUS
<1>2. Before(p, Append(q, o + 1)) <=>
        Before(p, q) \/ p = q \/ \E i \in Nat : i < o + 1 /\ IsPrefix(Append(q, i), p)
  BY <1>1, AppendOrder
<1>3. Before(p, Append(q, o)) <=>
        Before(p, q) \/ p = q \/ \E i \in Nat : i < o /\ IsPrefix(Append(q, i), p)
  BY AppendOrder
<1> QED
  BY <1>1, <1>2, <1>3

LEMMA NothingBeforeRoot == \A p \in Seq(Nat) : ~Before(p, <<>>) /\ IsPrefix(<<>>, p)
<1> TAKE p \in Seq(Nat)
<1>0. PICK e : e = <<>>
  OBVIOUS
<1>1. e \in Seq(Nat) /\ Len(e) = 0 /\ Len(p) \in Nat /\ 1..0 = {}
  BY <1>0
<1>2. Before(p, e) <=>
           \/ Len(p) < Len(e) /\ \A k \in 1..Len(p) : p[k] = e[k]
           \/ \E k \in 1..Len(p) : /\ k <= Len(e) /\ p[k] < e[k]
                                   /\ \A j \in 1..(k - 1) : p[j] = e[j]
  BY <1>1, BeforeMeans
<1>3. ~Before(p, e)
  BY <1>1, <1>2
<1>4. IsPrefix(e, p)
  <2>1. IsPrefix(e, p) <=> Len(e) <= Len(p) /\ \A k \in 1..Len(e) : e[k] = p[k]
    BY <1>1, PrefixMeans
  <2>2. Len(e) <= Len(p) /\ \A k \in 1..Len(e) : e[k] = p[k]
    BY <1>1
  <2> QED
    BY <2>1, <2>2
<1> QED
  BY <1>0, <1>3, <1>4

LEMMA AppendFacts ==
  ASSUME NEW p \in Seq(Nat), NEW i \in Nat
  PROVE  /\ Len(p) \in Nat /\ Len(Append(p, i)) = Len(p) + 1
         /\ Append(p, i)[Len(p) + 1] = i
         /\ \A k \in 1..Len(p) : Append(p, i)[k] = p[k]
OBVIOUS

LEMMA AppendSame ==
  ASSUME NEW p \in Seq(Nat), NEW q \in Seq(Nat), NEW i \in Nat, NEW j \in Nat,
         Append(p, i) = Append(q, j)
  PROVE  p = q /\ i = j
<1>0. PICK n, m : n = Len(q) /\ m = Len(p)
  OBVIOUS
<1>1. /\ n \in Nat /\ m \in Nat
      /\ Len(Append(p, i)) = m + 1 /\ Len(Append(q, j)) = n + 1
      /\ Append(p, i)[m + 1] = i /\ Append(q, j)[n + 1] = j
      /\ \A k \in 1..m : Append(p, i)[k] = p[k]
      /\ \A k \in 1..n : Append(q, j)[k] = q[k]
  <2>1. /\ m \in Nat /\ Len(Append(p, i)) = m + 1 /\ Append(p, i)[m + 1] = i
        /\ \A k \in 1..m : Append(p, i)[k] = p[k]
    BY <1>0, AppendFacts
  <2>2. /\ n \in Nat /\ Len(Append(q, j)) = n + 1 /\ Append(q, j)[n + 1] = j
        /\ \A k \in 1..n : Append(q, j)[k] = q[k]
    BY <1>0, AppendFacts
  <2> QED
    BY <2>1, <2>2
<1>2. m = n
  <2>1. m + 1 = n + 1
    BY <1>1
  <2> QED
    BY <1>1, <2>1
<1>3. i = j /\ \A k \in 1..n : p[k] = q[k]
  <2> DEFINE t == Append(p, i)
  <2>1. t[m + 1] = i /\ t[m + 1] = j /\ \A k \in 1..n : t[k] = p[k] /\ t[k] = q[k]
    BY <1>1, <1>2
  <2> HIDE DEF t
  <2> QED
    BY <2>1
<1>4. p = q
  BY <1>0, <1>2, <1>3
<1> QED
  BY <1>3, <1>4

\* On the way of a path, there are only nodes and edges of theirs.
LEMMA PathsHaveNodes ==
  ASSUME IterTypes, NEW p \in Seq(Nat), NodeAt(p) \in Nodes
  PROVE  \A k \in 0..(Len(p) - 1) :
           /\ NodeAt(SubSeq(p, 1, k)) \in Nodes
           /\ p[k + 1] \in 1..Len(Children(NodeAt(SubSeq(p, 1, k))))
<1> DEFINE Good(q) == \A k \in 0..(Len(q) - 1) :
             /\ NodeAt(SubSeq(q, 1, k)) \in Nodes
             /\ q[k + 1] \in 1..Len(Children(NodeAt(SubSeq(q, 1, k))))
           S == {m \in Nat : \A q \in Seq(Nat) : Len(q) = m /\ NodeAt(q) \in Nodes => Good(q)}
<1>1. 0 \in S
  OBVIOUS
<1>2. ASSUME NEW m \in Nat, m \in S PROVE m + 1 \in S
  <2> SUFFICES ASSUME NEW q \in Seq(Nat), Len(q) = m + 1, NodeAt(q) \in Nodes
               PROVE  Good(q)
    OBVIOUS
  <2> DEFINE f == SubSeq(q, 1, m)
             e == q[m + 1]
  <2>1. /\ f \in Seq(Nat) /\ Len(f) = m /\ e \in Nat /\ q = Append(f, e)
        /\ \A k \in 1..m : f[k] = q[k]
        /\ \A k \in 0..m : SubSeq(f, 1, k) = SubSeq(q, 1, k)
    OBVIOUS
  <2> HIDE DEF f, e
  <2>2. NodeAt(q) = Follow(NodeAt(f), e)
    BY <2>1, NodeAtAppend
  <2>3. NodeAt(f) \in Nodes /\ e \in DOMAIN Children(NodeAt(f))
    BY <2>2, TrieAssumption DEF Follow, TrieAssumption
  <2>4. e \in 1..Len(Children(NodeAt(f)))
    BY <2>3, ChildrenType
  <2>5. Good(f)
    BY <1>2, <2>1, <2>3
  <2>6. ASSUME NEW k \in 0..m
        PROVE  /\ NodeAt(SubSeq(q, 1, k)) \in Nodes
               /\ q[k + 1] \in 1..Len(Children(NodeAt(SubSeq(q, 1, k))))
    <3>1. CASE k = m
      <4>1. SubSeq(q, 1, k) = f /\ q[k + 1] = e
        BY <3>1 DEF f, e
      <4> QED
        BY <2>3, <2>4, <4>1
    <3>2. CASE k # m
      <4>1. k \in 0..(Len(f) - 1) /\ k + 1 \in 1..m
        BY <2>1, <3>2
      <4> QED
        BY <2>1, <2>5, <4>1
    <3> QED
      BY <3>1, <3>2
  <2>7. Len(q) - 1 = m
    OBVIOUS
  <2> QED
    BY <2>6, <2>7
<1> HIDE DEF S
<1>3. Nat \subseteq S
  BY <1>1, <1>2, Ind!SetInduction
<1>4. Len(p) \in S
  BY <1>3
<1> QED
  BY <1>4 DEF S

\* The paths that start with q, q itself among them.
Subtree(q) == {p \in Paths : IsPrefix(q, p)}
UpTo(q) == {p \in Paths : Before(p, q)}

\* A path that goes on from q goes on to a child of its node.
LEMMA GoesOnToAChild ==
  ASSUME IterTypes, NEW q \in Seq(Nat), NEW p \in Subtree(q), p # q
  PROVE  \E i \in 1..Len(Children(NodeAt(q))) : i \in Nat /\ IsPrefix(Append(q, i), p)
<1>1. p \in Seq(Nat) /\ NodeAt(p) \in Nodes /\ IsPrefix(q, p)
  BY PathsFacts, PathsAreNumbers DEF Subtree
<1>0. PICK n, m : n = Len(q) /\ m = Len(p)
  OBVIOUS
<1>2. n \in Nat /\ m \in Nat /\ n <= m /\ \A k \in 1..n : q[k] = p[k]
  BY <1>0, <1>1, PrefixMeans
<1>3. n # m
  BY <1>0, <1>1, <1>2
<1>4. n \in 0..(m - 1) /\ n + 1 \in 1..m
  BY <1>2, <1>3
<1>5. SubSeq(p, 1, n) = q
  BY <1>0, <1>1, <1>2
<1>6. p[n + 1] \in 1..Len(Children(NodeAt(q))) /\ p[n + 1] \in Nat
  <2>1. p[n + 1] \in 1..Len(Children(NodeAt(SubSeq(p, 1, n))))
    BY <1>0, <1>1, <1>4, PathsHaveNodes
  <2>2. p[n + 1] \in Nat
    BY <1>0, <1>1, <1>4
  <2> QED
    BY <1>5, <2>1, <2>2
<1>7. IsPrefix(Append(q, p[n + 1]), p)
  <2> DEFINE t == Append(q, p[n + 1])
  <2>1. t \in Seq(Nat) /\ Len(t) = n + 1 /\ \A k \in 1..(n + 1) : t[k] = p[k]
    BY <1>0, <1>2, <1>6
  <2> HIDE DEF t
  <2>2. IsPrefix(t, p)
    BY <1>0, <1>1, <1>4, <2>1, PrefixMeans
  <2> QED
    BY <2>2 DEF t
<1> QED
  BY <1>6, <1>7

LEMMA LongerPrefix ==
  ASSUME NEW p \in Seq(Nat), NEW q \in Seq(Nat), NEW i \in Nat, IsPrefix(Append(q, i), p)
  PROVE  IsPrefix(q, p)
<1>1. Append(q, i) \in Seq(Nat) /\ Len(Append(q, i)) = Len(q) + 1
      /\ \A k \in 1..Len(q) : Append(q, i)[k] = q[k] /\ k \in 1..(Len(q) + 1)
  OBVIOUS
<1>2. Len(q) + 1 <= Len(p) /\ \A k \in 1..(Len(q) + 1) : Append(q, i)[k] = p[k]
  BY <1>1, PrefixMeans
<1> QED
  BY <1>1, <1>2, PrefixMeans

LEMMA OrderAtPaths ==
  ASSUME IterTypes, NEW q \in Paths
  PROVE  /\ UpTo(Append(q, 1)) = UpTo(q) \cup {q}
         /\ Children(NodeAt(q)) = <<>> => Subtree(q) = {q}
         /\ UpTo(Append(q, Len(Children(NodeAt(q))) + 1)) = UpTo(q) \cup Subtree(q)
<1>1. /\ q \in Seq(Nat) /\ NodeAt(q) \in Nodes /\ \A p \in Paths : p \in Seq(Nat)
  BY PathsFacts, PathsAreNumbers
<1>2. PICK m \in Nat : m = Len(Children(NodeAt(q))) /\ m + 1 \in Nat
  BY <1>1, ChildrenType
<1>3. IsPrefix(q, q)
  BY <1>1, PrefixMeans
<1>4. UpTo(Append(q, 1)) = UpTo(q) \cup {q}
  <2>1. \A p \in Paths : Before(p, Append(q, 1)) <=> Before(p, q) \/ p = q
    <3> SUFFICES ASSUME NEW p \in Paths, NEW i \in Nat, i < 1, IsPrefix(Append(q, i), p)
                 PROVE  FALSE
      BY <1>1, AppendOrder
    <3>1. p \in Seq(Nat \ {0}) /\ p \in Seq(Nat)
      BY PathsAreNumbers
    <3>2. i = 0
      OBVIOUS
    <3>3. /\ Len(q) + 1 \in 1..(Len(q) + 1) /\ Append(q, i)[Len(q) + 1] = i
          /\ Append(q, i) \in Seq(Nat) /\ Len(Append(q, i)) = Len(q) + 1
      BY <1>1
    <3>4. Len(q) + 1 <= Len(p) /\ p[Len(q) + 1] = 0
      BY <3>1, <3>2, <3>3, PrefixMeans
    <3>5. Len(q) + 1 \in 1..Len(p)
      BY <1>1, <3>1, <3>4
    <3> QED
      BY <3>1, <3>4, <3>5
  <2> QED
    BY <2>1 DEF UpTo
<1>5. ASSUME Children(NodeAt(q)) = <<>> PROVE Subtree(q) = {q}
  <2>1. \A p \in Subtree(q) : p = q
    <3> SUFFICES ASSUME NEW p \in Subtree(q), p # q PROVE FALSE
      OBVIOUS
    <3>1. \E i \in 1..Len(Children(NodeAt(q))) : i \in Nat
      BY <1>1, GoesOnToAChild
    <3>2. Len(Children(NodeAt(q))) = 0 /\ 1..0 = {}
      BY <1>5
    <3> QED
      BY <3>1, <3>2
  <2> QED
    BY <1>3, <2>1 DEF Subtree
<1>6. UpTo(Append(q, m + 1)) = UpTo(q) \cup Subtree(q)
  <2> SUFFICES ASSUME NEW p \in Paths
               PROVE  Before(p, Append(q, m + 1)) <=> Before(p, q) \/ IsPrefix(q, p)
    BY DEF UpTo, Subtree
  <2>1. Before(p, Append(q, m + 1)) <=>
          Before(p, q) \/ p = q \/ \E i \in Nat : i < m + 1 /\ IsPrefix(Append(q, i), p)
    BY <1>1, <1>2, AppendOrder
  <2>2. p = q => IsPrefix(q, p)
    BY <1>3
  <2>3. ASSUME NEW i \in Nat, IsPrefix(Append(q, i), p) PROVE IsPrefix(q, p)
    BY <1>1, <2>3, LongerPrefix
  <2>4. ASSUME IsPrefix(q, p), p # q
        PROVE  \E i \in Nat : i < m + 1 /\ IsPrefix(Append(q, i), p)
    <3>1. p \in Subtree(q)
      BY <2>4 DEF Subtree
    <3>2. PICK i \in 1..m : i \in Nat /\ IsPrefix(Append(q, i), p)
      BY <1>1, <1>2, <2>4, <3>1, GoesOnToAChild
    <3>3. i < m + 1
      BY <1>2
    <3> QED
      BY <3>2, <3>3
  <2> QED
    BY <2>1, <2>2, <2>3, <2>4
<1> QED
  BY <1>2, <1>4, <1>5, <1>6

LEMMA OrderAtSiblings ==
  ASSUME NEW q \in Seq(Nat), NEW o \in Nat
  PROVE  UpTo(Append(q, o + 1)) = UpTo(Append(q, o)) \cup Subtree(Append(q, o))
<1>1. \A p \in Paths : Before(p, Append(q, o + 1)) <=>
                         Before(p, Append(q, o)) \/ IsPrefix(Append(q, o), p)
  BY PathsAreNumbers, SiblingOrder
<1> QED
  BY <1>1 DEF UpTo, Subtree

-----------------------------------------------------------------------------
(* What the walk has passed *)

\* The path to the node that the loop goes on with: the innermost, or the next
\* child it has.
Here == PathTo(IF Top.ordinal = 0 THEN Len(stack) ELSE Len(stack) + 1)

\* The paths that the walk is done with, or has given to the caller.
Passed ==
  CASE pc = "end" -> Paths
    [] pc = "loop" -> UpTo(Here)
    [] pc = "advance" /\ stack # <<>> -> UpTo(PathTo(Len(stack))) \cup {PathTo(Len(stack))}
    [] OTHER -> {}

LEMMA PassedCases ==
  /\ pc = "end" => Passed = Paths
  /\ pc = "loop" /\ Top.ordinal = 0 => Passed = UpTo(PathTo(Len(stack)))
  /\ pc = "loop" /\ Top.ordinal # 0 => Passed = UpTo(PathTo(Len(stack) + 1))
  /\ pc = "advance" /\ stack # <<>> =>
       Passed = UpTo(PathTo(Len(stack))) \cup {PathTo(Len(stack))}
  /\ pc = "advance" /\ stack = <<>> => Passed = {}
  /\ pc = "open" => Passed = {}
BY DEF Passed, Here

LEMMA PassedNext ==
  /\ pc' = "end" => Passed' = Paths'
  /\ pc' = "loop" /\ Top'.ordinal = 0 => Passed' = UpTo(PathTo(Len(stack)))'
  /\ pc' = "loop" /\ Top'.ordinal # 0 => Passed' = UpTo(PathTo(Len(stack) + 1))'
  /\ pc' = "advance" /\ stack' # <<>> =>
       Passed' = (UpTo(PathTo(Len(stack))) \cup {PathTo(Len(stack))})'
BY DEF Passed, Here

LEMMA OrdinalsAppend ==
  ASSUME NEW s \in Seq(FrameType), NEW k \in 1..Len(s)
  PROVE  [j \in 1..k |-> s[j].ordinal]
           = Append([j \in 1..(k - 1) |-> s[j].ordinal], s[k].ordinal)
<1> DEFINE f == [j \in 1..(k - 1) |-> s[j].ordinal]
<1>1. k \in Nat /\ k - 1 \in Nat /\ (k - 1) + 1 = k
  OBVIOUS
<1>2. \A j \in 1..(k - 1) : s[j].ordinal \in Nat
  <2> TAKE j \in 1..(k - 1)
  <2>1. s[j] \in FrameType
    OBVIOUS
  <2> QED
    BY <2>1 DEF FrameType
<1>3. f \in Seq(Nat) /\ Len(f) = k - 1
  <2>1. f \in [1..(k - 1) -> Nat]
    BY <1>2
  <2> HIDE DEF f
  <2> QED
    BY <1>1, <2>1, FunctionIsSeq
<1>4. Append(f, s[k].ordinal) = [j \in 1..k |-> IF j = k THEN s[k].ordinal ELSE f[j]]
  BY <1>1, <1>3
<1>5. \A j \in 1..k : s[j].ordinal = IF j = k THEN s[k].ordinal ELSE f[j]
  BY <1>1
<1> QED
  BY <1>4, <1>5

LEMMA PathToNext ==
  ASSUME IterTypes', NEW k \in 1..Len(stack')
  PROVE  PathTo(k + 1)' = Append(PathTo(k)', stack'[k].ordinal)
<1>1. stack' \in Seq(FrameType) /\ (k + 1) - 1 = k
  BY DEF IterTypes
<1> QED
  BY <1>1, OrdinalsAppend DEF PathTo

LEMMA PathToStays ==
  ASSUME NEW k, \A j \in 1..(k - 1) : stack'[j].ordinal = stack[j].ordinal
  PROVE  PathTo(k)' = PathTo(k)
BY DEF PathTo

LEMMA UpToStays ==
  ASSUME UNCHANGED <<trie, fault>>
  PROVE  \A q : UpTo(q)' = UpTo(q) /\ Subtree(q)' = Subtree(q)
BY PathsStay DEF UpTo, Subtree

\* What holds of the state before each step.
LEMMA HereFacts ==
  ASSUME PathInv, Walking
  PROVE  \E n \in Nat \ {0}, q \in Paths :
           /\ n = Len(stack) /\ n \in 1..n /\ q = PathTo(n) /\ Top = stack[n]
           /\ q \in Seq(Nat) /\ Len(q) = n - 1 /\ Len(q) < MaxDepth
           /\ NodeAt(q) = Top.node /\ StringAt(q) = string /\ Top.node \in Nodes
           /\ Top.ordinal \in Nat /\ Top.read \in Nat
           /\ PathTo(n + 1) = Append(q, Top.ordinal)
           /\ (pc = "advance" => Passed = UpTo(q) \cup {q})
           /\ (pc = "loop" /\ Top.ordinal = 0 => Passed = UpTo(q))
           /\ (pc = "loop" /\ Top.ordinal # 0 => Passed = UpTo(Append(q, Top.ordinal)))
<1>1. /\ IterTypes /\ InStep /\ StackInv /\ BoundedTrie /\ stack # <<>>
  BY DEF PathInv, IterInv, RefusalsInv, Walking
<1>2. PICK n : n = Len(stack)
  OBVIOUS
<1>3. n \in Nat \ {0} /\ n \in 1..n /\ Top = stack[n]
  BY <1>1, <1>2, TopFacts
<1>4. PICK q : q = PathTo(n)
  OBVIOUS
<1>5. q \in Paths /\ Len(q) = n - 1 /\ n - 1 < MaxDepth /\ NodeAt(q) = Top.node
  BY <1>1, <1>2, <1>3, <1>4, PathToIsAPath
<1>6. StringAt(q) = string
  BY <1>1, <1>2, <1>4, StackFollowsTrie
<1>7. /\ PathTo(n + 1) = Append(q, Top.ordinal) /\ Top.ordinal \in Nat /\ Top.node \in Nodes
      /\ Top.read \in Nat
  BY <1>1, <1>2, <1>3, <1>4, PathFacts
<1>8. q \in Seq(Nat)
  BY <1>5, PathsAreNumbers
<1>9. /\ (pc = "advance" => Passed = UpTo(q) \cup {q})
      /\ (pc = "loop" /\ Top.ordinal = 0 => Passed = UpTo(q))
      /\ (pc = "loop" /\ Top.ordinal # 0 => Passed = UpTo(Append(q, Top.ordinal)))
  BY <1>1, <1>2, <1>4, <1>7, PassedCases
<1>10. Len(q) < MaxDepth
  BY <1>5
<1> QED
  BY <1>2, <1>3, <1>4, <1>5, <1>6, <1>7, <1>8, <1>9, <1>10

LEMMA EntersPassed == PathInv /\ PathInv' /\ Enters => Passed' = Passed
<1> SUFFICES ASSUME PathInv, PathInv', Enters PROVE Passed' = Passed
  OBVIOUS
<1>0. PICK n : n = Len(stack)
  OBVIOUS
<1>1. /\ UNCHANGED <<trie, fault>> /\ pc' = "loop" /\ Top'.ordinal = 0 /\ Len(stack') = n + 1
      /\ SameParents
  BY <1>0 DEF Enters
<1>2. Passed' = UpTo(PathTo(n + 1)')
  <2>1. Passed' = UpTo(PathTo(Len(stack)))'
    BY <1>1, PassedNext
  <2> QED
    BY <1>1, <2>1, UpToStays
<1>3. CASE stack = <<>>
  <2>1. n = 0 /\ Len(stack') = 1 /\ pc = "advance"
    BY <1>0, <1>1, <1>3 DEF Enters, Walking
  <2>2. PathTo(1)' = <<>> /\ n + 1 = 1
    BY <2>1, PathToRoot, PathToStays DEF PathTo
  <2>3. UpTo(<<>>) = {}
    BY NothingBeforeRoot, PathsAreNumbers DEF UpTo
  <2>4. Passed = {}
    BY <1>3, <2>1, PassedCases
  <2> QED
    BY <1>2, <2>2, <2>3, <2>4
<1>4. CASE Walking
  <2>1. PICK q \in Paths :
           /\ n \in Nat \ {0} /\ n \in 1..n /\ q = PathTo(n)
           /\ (pc = "advance" => Passed = UpTo(q) \cup {q})
           /\ (pc = "loop" /\ Top.ordinal # 0 => Passed = UpTo(Append(q, Top.ordinal)))
    BY <1>0, <1>4, HereFacts
  <2>2. PathTo(n + 1)' = Append(q, stack'[n].ordinal)
    <3>1. PathTo(n)' = q
      BY <1>0, <1>1, <2>1, PathToStays DEF SameParents
    <3>2. n \in 1..Len(stack')
      BY <1>1, <2>1
    <3>3. PathTo(n + 1)' = Append(PathTo(n)', stack'[n].ordinal)
      BY <3>2, PathToNext DEF PathInv, IterInv
    <3> QED
      BY <3>1, <3>3
  <2>3. CASE pc = "advance"
    <3>1. stack'[n].ordinal = 1
      BY <1>0, <1>4, <2>3 DEF Enters, Walking
    <3>2. UpTo(Append(q, 1)) = UpTo(q) \cup {q}
      BY <2>1, OrderAtPaths DEF PathInv, IterInv
    <3> QED
      BY <1>2, <2>1, <2>2, <2>3, <3>1, <3>2
  <2>4. CASE pc = "loop"
    <3>1. stack'[n].ordinal = Top.ordinal /\ Top.ordinal # 0
      BY <1>0, <1>4, <2>4 DEF Enters, Walking
    <3> QED
      BY <1>2, <2>1, <2>2, <2>4, <3>1
  <2> QED
    BY <1>4, <2>3, <2>4 DEF Walking
<1> QED
  BY <1>3, <1>4 DEF Enters

LEMMA BeginsPassed == PathInv /\ PathInv' /\ Begins => Passed' = Passed
<1> SUFFICES ASSUME PathInv, PathInv', Begins PROVE Passed' = Passed
  OBVIOUS
<1>0. PICK n : n = Len(stack)
  OBVIOUS
<1>1. /\ UNCHANGED <<trie, fault>> /\ pc = "advance" /\ pc' = "loop" /\ Top'.ordinal = 1
      /\ Len(stack') = n /\ SameParents /\ Walking /\ stack' # <<>>
  BY <1>0 DEF Begins
<1>2. PICK q \in Paths :
         /\ n \in Nat \ {0} /\ n \in 1..n /\ q = PathTo(n)
         /\ (pc = "advance" => Passed = UpTo(q) \cup {q})
  BY <1>0, <1>1, HereFacts
<1>3. PathTo(n)' = q
  BY <1>0, <1>1, <1>2, PathToStays DEF SameParents
<1>4. PathTo(n + 1)' = Append(q, 1)
  <2>1. n \in 1..Len(stack') /\ Top' = stack'[n]
    BY <1>1, <1>2 DEF Top, Last
  <2>2. PathTo(n + 1)' = Append(PathTo(n)', stack'[n].ordinal)
    BY <2>1, PathToNext DEF PathInv, IterInv
  <2> QED
    BY <1>1, <1>3, <2>1, <2>2
<1>5. Passed' = UpTo(Append(q, 1))
  <2>1. Passed' = UpTo(PathTo(Len(stack) + 1))'
    BY <1>1, PassedNext
  <2> QED
    BY <1>1, <1>4, <2>1, UpToStays
<1>6. UpTo(Append(q, 1)) = UpTo(q) \cup {q}
  BY <1>2, OrderAtPaths DEF PathInv, IterInv
<1> QED
  BY <1>1, <1>2, <1>5, <1>6

\* The steps that list a node.
LEMMA ListsPassed ==
  PathInv /\ (Lists \/ Reads) =>
    /\ Passed = UpTo(PathTo(Len(stack)))
    /\ Passed' = Passed \cup {PathTo(Len(stack))}
<1> SUFFICES ASSUME PathInv, Lists \/ Reads
             PROVE  /\ Passed = UpTo(PathTo(Len(stack)))
                    /\ Passed' = Passed \cup {PathTo(Len(stack))}
  OBVIOUS
<1>0. PICK n : n = Len(stack)
  OBVIOUS
<1>1. /\ UNCHANGED <<trie, fault>> /\ pc = "loop" /\ pc' = "advance" /\ Top.ordinal = 0
      /\ Len(stack') = n /\ stack' # <<>>
      /\ \A k \in 1..(n - 1) : stack'[k] = stack[k]
  BY <1>0 DEF Lists, Reads, SameParents, Walking
<1>2. PathTo(n)' = PathTo(n)
  BY <1>1, PathToStays
<1>3. Passed = UpTo(PathTo(n))
  BY <1>0, <1>1, PassedCases
<1>4. Passed' = UpTo(PathTo(n)) \cup {PathTo(n)}
  <2>1. Passed' = (UpTo(PathTo(Len(stack))) \cup {PathTo(Len(stack))})'
    BY <1>1, PassedNext
  <2> QED
    BY <1>1, <1>2, <2>1, UpToStays
<1> QED
  BY <1>0, <1>3, <1>4

Barren == pc = "loop" /\ Top.ordinal = 0

\* Leaving a node adds no path, or the one to a node that is never listed.
LEMMA LeavesPassed ==
  PathInv /\ PathInv' /\ Leaves =>
    /\ Passed' = Passed \cup {PathTo(Len(stack))}
    /\ Barren \/ PathTo(Len(stack)) \in Passed
<1> SUFFICES ASSUME PathInv, PathInv', Leaves
             PROVE  /\ Passed' = Passed \cup {PathTo(Len(stack))}
                    /\ Barren \/ PathTo(Len(stack)) \in Passed
  OBVIOUS
<1>0. PICK n : n = Len(stack)
  OBVIOUS
<1>1. /\ UNCHANGED <<trie, fault>> /\ Walking /\ Exhausted
  BY DEF Leaves, Exhausted
<1>2. PICK q \in Paths :
           /\ n \in Nat \ {0} /\ n \in 1..n /\ q = PathTo(n) /\ NodeAt(q) = Top.node
           /\ q \in Seq(Nat) /\ Top.node \in Nodes
           /\ (pc = "advance" => Passed = UpTo(q) \cup {q})
           /\ (pc = "loop" /\ Top.ordinal = 0 => Passed = UpTo(q))
           /\ (pc = "loop" /\ Top.ordinal # 0 => Passed = UpTo(Append(q, Top.ordinal)))
  BY <1>0, <1>1, HereFacts
<1>3. /\ Children(Top.node) = <<>> => Subtree(q) = {q}
      /\ UpTo(Append(q, Len(Children(Top.node)) + 1)) = UpTo(q) \cup Subtree(q)
  BY <1>2, OrderAtPaths DEF PathInv, IterInv
<1>4. q \in Subtree(q)
  BY <1>2, PrefixMeans DEF Subtree
<1>5. /\ Passed \cup {q} = UpTo(q) \cup Subtree(q)
      /\ Barren \/ q \in Passed
  <2>1. CASE Children(Top.node) = <<>> /\ pc = "advance"
    BY <1>2, <1>3, <2>1
  <2>2. CASE Children(Top.node) = <<>> /\ pc = "loop" /\ Top.ordinal = 0
    BY <1>2, <1>3, <2>2 DEF Barren
  <2>3. CASE pc = "loop" /\ Top.ordinal = Len(Children(Top.node)) + 1
    <3>1. Len(Children(Top.node)) \in Nat
      BY <1>2, ChildrenType DEF PathInv, IterInv
    <3>2. Top.ordinal # 0
      BY <2>3, <3>1
    <3> QED
      BY <1>2, <1>3, <1>4, <2>3, <3>2
  <2> QED
    BY <1>1, <2>1, <2>2, <2>3 DEF Exhausted
<1>6. Passed' = UpTo(q) \cup Subtree(q)
  <2>1. CASE n = 1
    <3>1. pc' = "end"
      BY <1>0, <2>1 DEF Leaves
    <3>2. Passed' = Paths
      BY <1>1, <3>1, PassedNext, PathsStay
    <3>3. q = <<>>
      BY <1>2, <2>1, PathToRoot
    <3>4. Subtree(<<>>) = Paths
      BY NothingBeforeRoot, PathsAreNumbers DEF Subtree
    <3>5. UpTo(q) \subseteq Paths
      BY DEF UpTo
    <3> QED
      BY <3>2, <3>3, <3>4, <3>5
  <2>2. CASE n # 1
    <3>1. PICK m \in Nat \ {0} : m + 1 = n /\ m = n - 1 /\ m \in 1..n /\ n - 2 = m - 1
                                 /\ m \in 1..(n - 1)
      <4>1. n \in Nat /\ n # 0 /\ n # 1
        BY <1>2, <2>2
      <4> QED
        BY <4>1
    <3>2. /\ pc' = "loop" /\ Len(stack') = m
          /\ \A k \in 1..(m - 1) : stack'[k] = stack[k]
          /\ stack'[m].ordinal = stack[m].ordinal + 1
      BY <1>0, <2>2, <3>1 DEF Leaves
    <3>3. Top' = stack'[m] /\ stack' # <<>>
      BY <3>1, <3>2 DEF Top, Last
    <3>4. PathTo(m)' = PathTo(m)
      BY <3>2, PathToStays
    <3>5. /\ stack[m].ordinal \in Nat /\ PathTo(m) \in Seq(Nat)
          /\ q = Append(PathTo(m), stack[m].ordinal)
      BY <1>0, <1>2, <3>1, PathFacts DEF PathInv, IterInv
    <3>6. PathTo(m + 1)' = Append(PathTo(m), stack[m].ordinal + 1)
      <4>1. m \in 1..Len(stack')
        BY <3>1, <3>2
      <4>2. PathTo(m + 1)' = Append(PathTo(m)', stack'[m].ordinal)
        BY <4>1, PathToNext DEF PathInv, IterInv
      <4> QED
        BY <3>2, <3>4, <4>2
    <3>7. Top'.ordinal # 0
      BY <3>2, <3>3, <3>5
    <3>8. Passed' = UpTo(Append(PathTo(m), stack[m].ordinal + 1))
      <4>1. Passed' = UpTo(PathTo(Len(stack) + 1))'
        BY <3>2, <3>7, PassedNext
      <4> QED
        BY <1>1, <3>2, <3>6, <4>1, UpToStays
    <3>9. \A o \in Nat, p \in Seq(Nat) :
             UpTo(Append(p, o + 1)) = UpTo(Append(p, o)) \cup Subtree(Append(p, o))
      BY OrderAtSiblings
    <3> QED
      BY <3>5, <3>8, <3>9
  <2> QED
    BY <2>1, <2>2
<1> QED
  BY <1>0, <1>2, <1>5, <1>6

-----------------------------------------------------------------------------
(* The entries *)

Listed(p) == IsExport(NodeAt(p)) \/ Children(NodeAt(p)) # <<>>

PassedAreListed ==
  {entries[k].path : k \in DOMAIN entries} = {p \in Passed : Listed(p)}

\* What has been checked of the nodes that the walk has passed.
PassedAreSound ==
  /\ \A p \in Passed :
       /\ Len(p) < MaxDepth /\ ~At("parse", NodeAt(p))
       /\ IsExport(NodeAt(p)) => StringAt(p) # <<>> /\ ~At("info", NodeAt(p))
  /\ \A p \in Seq(Nat), i \in Nat : Append(p, i) \in Passed => ~At("edge", NodeAt(p))

\* And of those that it has only begun.
OpenAreSound ==
  /\ \A k \in 1..Len(stack) : ~At("parse", stack[k].node)
  /\ \A k \in 1..(Len(stack) - 1) : ~At("edge", stack[k].node)
  /\ pc = "advance" /\ stack = <<>> => ~At("parse", Root)
  /\ pc = "advance" /\ stack # <<>> /\ ~IsExport(Top.node) =>
       ~At("edge", Top.node) /\ ~At("parse", next.node)

AreEntries == \E S : entries \in Seq(S)

DoneInv ==
  /\ AreEntries
  /\ pc # "error" /\ error = "None" => PassedAreListed /\ PassedAreSound /\ OpenAreSound

LEMMA DoneInvInit == Init => DoneInv
<1> SUFFICES ASSUME Init PROVE DoneInv
  OBVIOUS
<1>1. entries = <<>> /\ stack = <<>> /\ pc = "open" /\ DOMAIN entries = {} /\ Len(stack) = 0
  BY DEF Init
<1>2. Passed = {}
  BY <1>1, PassedCases
<1>3. entries \in Seq(Nat)
  BY <1>1
<1>4. AreEntries
  BY <1>3 DEF AreEntries
<1> QED
  BY <1>1, <1>2, <1>4 DEF DoneInv, PassedAreListed, PassedAreSound, OpenAreSound

\* A step that passes no path.
LEMMA PassesNothing ==
  ASSUME PassedAreListed, PassedAreSound, Passed' = Passed,
         UNCHANGED <<trie, fault, entries>>
  PROVE  PassedAreListed' /\ PassedAreSound'
<1>1. /\ \A p : NodeAt(p)' = NodeAt(p) /\ StringAt(p)' = StringAt(p)
      /\ \A f, x : At(f, x)' = At(f, x)
      /\ \A x : Children(x)' = Children(x) /\ IsExport(x)' = IsExport(x)
  BY FileStays
<1>2. \A p : /\ Listed(p)' <=> Listed(p)
             /\ \A f : At(f, NodeAt(p))' = At(f, NodeAt(p))
             /\ IsExport(NodeAt(p))' = IsExport(NodeAt(p))
  BY <1>1 DEF Listed, At, IsExport, Children
<1>3. PassedAreListed'
  <2>1. {p \in Passed : Listed(p)}' = {p \in Passed : Listed(p)}
    BY <1>2
  <2> QED
    BY <2>1 DEF PassedAreListed
<1>4. PassedAreSound'
  BY <1>1, <1>2 DEF PassedAreSound
<1> QED
  BY <1>3, <1>4

\* A step that passes the innermost node.
LEMMA PassesTheTop ==
  ASSUME PathInv, Walking, PassedAreSound, OpenAreSound,
         Passed' = Passed \cup {PathTo(Len(stack))},
         UNCHANGED <<trie, fault>>,
         PathTo(Len(stack)) \in Passed \/ ~IsExport(Top.node)
           \/ (string # <<>> /\ ~At("info", Top.node))
  PROVE  PassedAreSound'
<1>1. PICK n \in Nat \ {0}, q \in Paths :
         /\ n = Len(stack) /\ n \in 1..n /\ q = PathTo(n) /\ Top = stack[n]
         /\ q \in Seq(Nat) /\ Len(q) = n - 1 /\ Len(q) < MaxDepth
         /\ NodeAt(q) = Top.node /\ StringAt(q) = string
  BY HereFacts
<1>2. /\ \A p : NodeAt(p)' = NodeAt(p) /\ StringAt(p)' = StringAt(p)
      /\ \A f, x : At(f, x)' = At(f, x)
  BY FileStays
<1>3. \A p : /\ \A f : At(f, NodeAt(p))' = At(f, NodeAt(p))
             /\ IsExport(NodeAt(p))' = IsExport(NodeAt(p))
  BY <1>2 DEF At, IsExport
<1>4. \A p \in Passed \cup {q} :
        /\ Len(p) < MaxDepth /\ ~At("parse", NodeAt(p))
        /\ IsExport(NodeAt(p)) => StringAt(p) # <<>> /\ ~At("info", NodeAt(p))
  <2>1. ~At("parse", NodeAt(q))
    BY <1>1 DEF OpenAreSound
  <2>2. q \in Passed \/ (IsExport(NodeAt(q)) => StringAt(q) # <<>> /\ ~At("info", NodeAt(q)))
    BY <1>1
  <2> QED
    BY <1>1, <2>1, <2>2 DEF PassedAreSound
<1>5. \A p \in Seq(Nat), i \in Nat : Append(p, i) \in Passed \cup {q} => ~At("edge", NodeAt(p))
  <2> SUFFICES ASSUME NEW p \in Seq(Nat), NEW i \in Nat, Append(p, i) = q
               PROVE  ~At("edge", NodeAt(p))
    BY DEF PassedAreSound
  <2>1. Len(q) = Len(p) + 1
    BY AppendFacts
  <2>2. PICK m \in Nat \ {0} : m + 1 = n /\ m \in 1..n /\ m \in 1..(n - 1)
    <3>1. n \in Nat /\ Len(p) \in Nat /\ n - 1 = Len(p) + 1
      BY <1>1, <2>1
    <3>2. n - 1 \in Nat \ {0} /\ (n - 1) + 1 = n /\ n - 1 \in 1..n /\ n - 1 \in 1..(n - 1)
      BY <3>1
    <3> QED
      BY <3>2
  <2>3. /\ q = Append(PathTo(m), stack[m].ordinal) /\ PathTo(m) \in Seq(Nat)
        /\ stack[m].ordinal \in Nat
    BY <1>1, <2>2, PathFacts DEF PathInv, IterInv
  <2>4. p = PathTo(m)
    BY <2>3, AppendSame
  <2>5. NodeAt(p) = stack[m].node
    BY <1>1, <2>2, <2>4, StackFollowsTrie DEF PathInv, IterInv
  <2> QED
    BY <1>1, <2>2, <2>5 DEF OpenAreSound
<1> QED
  BY <1>1, <1>2, <1>3, <1>4, <1>5 DEF PassedAreSound

\* A step that gives the innermost node to the caller.
LEMMA ListsTheTop ==
  ASSUME PathInv, Walking, AreEntries, PassedAreListed,
         Passed' = Passed \cup {PathTo(Len(stack))},
         UNCHANGED <<trie, fault>>, Listed(PathTo(Len(stack))),
         NEW x, entries' = Append(entries, Entry(x))
  PROVE  AreEntries' /\ PassedAreListed'
<1>1. PICK S : entries \in Seq(S)
  BY DEF AreEntries
<1> DEFINE e == Entry(x)
           q == PathTo(Len(stack))
<1>2. e.path = q
  BY DEF Entry, PathTo
<1> HIDE DEF e
<1>3. entries \in Seq(S \cup {e}) /\ e \in S \cup {e}
  BY <1>1, WiderSeq
<1>4. entries' \in Seq(S \cup {e}) /\ entries' = Append(entries, e)
  BY <1>3 DEF e
<1>5. /\ Len(entries) \in Nat /\ DOMAIN entries = 1..Len(entries)
      /\ DOMAIN entries' = 1..(Len(entries) + 1) /\ entries'[Len(entries) + 1] = e
      /\ \A k \in 1..Len(entries) : entries'[k] = entries[k]
  BY <1>3, <1>4
<1>6. {entries'[k].path : k \in DOMAIN entries'} = {entries[k].path : k \in DOMAIN entries} \cup {q}
  <2>1. \A k \in 1..(Len(entries) + 1) : k \in 1..Len(entries) \/ k = Len(entries) + 1
    BY <1>5
  <2>2. Len(entries) + 1 \in 1..(Len(entries) + 1) /\ \A k \in 1..Len(entries) : k \in 1..(Len(entries) + 1)
    BY <1>5
  <2> HIDE DEF q
  <2> QED
    BY <1>2, <1>5, <2>1, <2>2
<1>7. \A p : Listed(p)' <=> Listed(p)
  <2>1. \A p : NodeAt(p)' = NodeAt(p)
    BY FileStays
  <2> QED
    BY <2>1 DEF Listed, IsExport, Children
<1>8. {p \in Passed : Listed(p)}' = {p \in Passed : Listed(p)} \cup {q}
  <2> HIDE DEF q
  <2>1. Passed' = Passed \cup {q} /\ Listed(q)
    BY DEF q
  <2> QED
    BY <1>7, <2>1
<1>9. PassedAreListed'
  BY <1>6, <1>8 DEF PassedAreListed
<1> QED
  BY <1>4, <1>9 DEF AreEntries

\* A step that enters or leaves no node.
LEMMA OpenKept ==
  ASSUME OpenAreSound, stack # <<>>, stack' # <<>>, Len(stack') = Len(stack), SameNodes,
         Len(stack) \in Nat,
         UNCHANGED <<trie, fault>>,
         \/ pc' = "loop"
         \/ IsExport(Top.node)
         \/ ~At("edge", Top.node) /\ ~At("parse", next'.node)
  PROVE  OpenAreSound'
<1>0. PICK n : n = Len(stack)
  OBVIOUS
<1>1. \A f, x : At(f, x)' = At(f, x)
  BY FileStays
<1>2. \A k \in 1..n : stack'[k].node = stack[k].node
  BY <1>0 DEF SameNodes, SameNode
<1>3. \A k \in 1..n : ~At("parse", stack'[k].node)
  BY <1>0, <1>2 DEF OpenAreSound
<1>4. \A k \in 1..(n - 1) : ~At("edge", stack'[k].node)
  <2>1. \A k \in 1..(n - 1) : k \in 1..n
    BY <1>0
  <2> QED
    BY <1>0, <1>2, <2>1 DEF OpenAreSound
<1>5. Top'.node = Top.node \/ n \notin 1..n
  BY <1>0, <1>2 DEF Top, Last
<1>6. n \in 1..n \/ n = 0
  BY <1>0
<1>7. pc' = "advance" /\ ~IsExport(Top.node)' =>
        ~At("edge", Top'.node) /\ ~At("parse", next'.node)
  <2>1. CASE n \in 1..n
    <3>1. Top'.node = Top.node
      BY <1>5, <2>1
    <3>2. IsExport(Top.node)' = IsExport(Top.node)
      BY <3>1 DEF IsExport
    <3> QED
      BY <3>1, <3>2
  <2>2. CASE n = 0
    <3>1. n # 0
      BY <1>0 DEF OpenAreSound
    <3> QED
      BY <2>2, <3>1
  <2> QED
    BY <1>6, <2>1, <2>2
<1> QED
  BY <1>0, <1>1, <1>3, <1>4, <1>7 DEF OpenAreSound

LEMMA BeginsDone == PathInv /\ PathInv' /\ DoneInv /\ Begins => DoneInv'
<1> SUFFICES ASSUME PathInv, PathInv', DoneInv, Begins PROVE DoneInv'
  OBVIOUS
<1>1. /\ UNCHANGED <<trie, fault, error, entries>> /\ pc = "advance" /\ pc' = "loop" /\ stack # <<>>
      /\ stack' # <<>> /\ Len(stack') = Len(stack) /\ SameNodes /\ Len(stack) \in Nat
  BY DEF Begins, Walking, PathInv, IterInv, IterTypes
<1>2. error = "None" /\ PassedAreListed /\ PassedAreSound /\ OpenAreSound
  BY <1>1 DEF PathInv, RefusalsInv, DoneInv
<1>3. PassedAreListed' /\ PassedAreSound'
  BY <1>1, <1>2, BeginsPassed, PassesNothing
<1>4. OpenAreSound'
  BY <1>1, <1>2, OpenKept
<1> QED
  BY <1>1, <1>3, <1>4 DEF DoneInv, AreEntries

LEMMA ListsDone == PathInv /\ PathInv' /\ DoneInv /\ Lists => DoneInv'
<1> SUFFICES ASSUME PathInv, PathInv', DoneInv, Lists PROVE DoneInv'
  OBVIOUS
<1>1. /\ UNCHANGED <<trie, fault, error, stack>> /\ pc = "loop" /\ Walking /\ stack # <<>>
      /\ IsExport(Top.node) /\ string # <<>> /\ ~At("info", Top.node)
      /\ entries' = Append(entries, Entry(kind')) /\ Len(stack) \in Nat
  BY DEF Lists, Walking, PathInv, IterInv, IterTypes
<1>2. AreEntries /\ PassedAreListed /\ PassedAreSound /\ OpenAreSound
  BY <1>1 DEF PathInv, RefusalsInv, DoneInv
<1>3. Passed' = Passed \cup {PathTo(Len(stack))}
  BY ListsPassed
<1>4. NodeAt(PathTo(Len(stack))) = Top.node
  BY <1>1, HereFacts
<1>5. Listed(PathTo(Len(stack)))
  BY <1>1, <1>4 DEF Listed
<1>6. AreEntries' /\ PassedAreListed'
  BY <1>1, <1>2, <1>3, <1>5, ListsTheTop
<1>7. PassedAreSound'
  BY <1>1, <1>2, <1>3, PassesTheTop
<1>8. SameNodes
  BY <1>1 DEF SameNodes, SameNode
<1>9. OpenAreSound'
  BY <1>1, <1>2, <1>8, OpenKept
<1> QED
  BY <1>6, <1>7, <1>9 DEF DoneInv

LEMMA NoError ==
  NextError = "None" => ~At("edge", Top.node) /\ ~At("parse", Child)
BY DEF NextError, ParseError

LEMMA ReadsDone == PathInv /\ PathInv' /\ DoneInv /\ Reads => DoneInv'
<1> SUFFICES ASSUME PathInv, PathInv', DoneInv, Reads PROVE DoneInv'
  OBVIOUS
<1>1. /\ UNCHANGED <<trie, fault, error>> /\ pc = "loop" /\ Walking /\ stack # <<>>
      /\ stack' # <<>> /\ Len(stack') = Len(stack) /\ SameNodes
      /\ ~IsExport(Top.node) /\ Children(Top.node) # <<>> /\ NextError = "None"
      /\ next'.node = Child
      /\ entries' = Append(entries, Entry(kind)) /\ Len(stack) \in Nat
  BY DEF Reads, Walking, PathInv, IterInv, IterTypes
<1>2. AreEntries /\ PassedAreListed /\ PassedAreSound /\ OpenAreSound
  BY <1>1 DEF PathInv, RefusalsInv, DoneInv
<1>3. Passed' = Passed \cup {PathTo(Len(stack))}
  BY ListsPassed
<1>4. NodeAt(PathTo(Len(stack))) = Top.node
  BY <1>1, HereFacts
<1>5. Listed(PathTo(Len(stack)))
  BY <1>1, <1>4 DEF Listed
<1>6. AreEntries' /\ PassedAreListed'
  BY <1>1, <1>2, <1>3, <1>5, ListsTheTop
<1>7. PassedAreSound'
  BY <1>1, <1>2, <1>3, PassesTheTop
<1>8. OpenAreSound'
  BY <1>1, <1>2, NoError, OpenKept
<1> QED
  BY <1>6, <1>7, <1>8 DEF DoneInv

LEMMA EntersDone == PathInv /\ PathInv' /\ DoneInv /\ Enters => DoneInv'
<1> SUFFICES ASSUME PathInv, PathInv', DoneInv, Enters PROVE DoneInv'
  OBVIOUS
<1>0. PICK n : n = Len(stack)
  OBVIOUS
<1>1. /\ UNCHANGED <<trie, fault, error, entries>> /\ pc \in {"advance", "loop"} /\ pc' = "loop"
      /\ Len(stack') = n + 1 /\ SameNodes /\ stack' # <<>> /\ n \in Nat
      /\ Top' = stack'[n + 1]
  BY <1>0 DEF Enters, Walking, PathInv, IterInv, IterTypes, Top, Last
<1>2. PassedAreListed /\ PassedAreSound /\ OpenAreSound
  BY <1>1 DEF PathInv, RefusalsInv, DoneInv
<1>3. PassedAreListed' /\ PassedAreSound'
  BY <1>1, <1>2, EntersPassed, PassesNothing
<1>4. ~At("parse", Top'.node) /\ (stack # <<>> => ~At("edge", Top.node))
  <2>1. CASE stack = <<>>
    <3>1. pc = "advance" /\ Top'.node = Root
      BY <2>1 DEF Enters, Walking
    <3> QED
      BY <1>2, <2>1, <3>1 DEF OpenAreSound
  <2>2. CASE stack # <<>> /\ pc = "advance"
    <3>1. /\ ~IsExport(Top.node) /\ Top'.node = Children(Top.node)[1]
      BY <1>0, <2>2 DEF Enters, Walking
    <3>2. next.node = Children(Top.node)[1]
      BY <2>2, <3>1 DEF PathInv, StackInv
    <3> QED
      BY <1>2, <2>2, <3>1, <3>2 DEF OpenAreSound
  <2>3. CASE stack # <<>> /\ pc = "loop"
    <3>1. /\ NextError = "None" /\ Top'.node = Children(Top.node)[Edge]
      BY <1>0, <2>3 DEF Enters, Walking
    <3> QED
      BY <3>1, NoError DEF Child
  <2> QED
    BY <1>1, <2>1, <2>2, <2>3
<1>5. \A k \in 1..n : stack'[k].node = stack[k].node
  BY <1>0, <1>1 DEF SameNodes, SameNode
<1>6. \A k \in 1..(n + 1) : ~At("parse", stack'[k].node)
  <2>1. \A k \in 1..(n + 1) : k = n + 1 \/ k \in 1..n
    BY <1>1
  <2> QED
    BY <1>0, <1>1, <1>2, <1>4, <1>5, <2>1 DEF OpenAreSound
<1>7. \A k \in 1..n : ~At("edge", stack'[k].node)
  <2>1. \A k \in 1..n : k = n \/ k \in 1..(n - 1)
    BY <1>1
  <2>2. 1..n # {} => stack # <<>> /\ Top = stack[n]
    BY <1>0, <1>1 DEF Top, Last
  <2> QED
    BY <1>0, <1>2, <1>4, <1>5, <2>1, <2>2 DEF OpenAreSound
<1>8. OpenAreSound'
  <2>1. \A f, x : At(f, x)' = At(f, x)
    BY <1>1, FileStays
  <2>2. Len(stack') - 1 = n
    BY <1>1
  <2> QED
    BY <1>1, <1>6, <1>7, <2>1, <2>2 DEF OpenAreSound
<1> QED
  BY <1>1, <1>3, <1>8 DEF DoneInv, AreEntries

LEMMA LeavesDone == PathInv /\ PathInv' /\ DoneInv /\ Leaves => DoneInv'
<1> SUFFICES ASSUME PathInv, PathInv', DoneInv, Leaves PROVE DoneInv'
  OBVIOUS
<1>0. PICK n : n = Len(stack)
  OBVIOUS
<1>1. /\ UNCHANGED <<trie, fault, error, entries>> /\ Walking /\ pc \in {"advance", "loop"}
      /\ n \in Nat \ {0} /\ pc' # "advance" /\ Exhausted
  BY <1>0 DEF Leaves, Exhausted, Walking, PathInv, IterInv, IterTypes
<1>2. PassedAreListed /\ PassedAreSound /\ OpenAreSound
  BY <1>1 DEF PathInv, RefusalsInv, DoneInv
<1>3. /\ Passed' = Passed \cup {PathTo(n)}
      /\ Barren \/ PathTo(n) \in Passed
  BY <1>0, LeavesPassed
<1>4. Barren => ~IsExport(Top.node) /\ Children(Top.node) = <<>>
  <2> SUFFICES ASSUME Barren PROVE Top.ordinal # Len(Children(Top.node)) + 1
    BY <1>1 DEF Exhausted, Barren
  <2>1. Top.node \in Nodes
    BY <1>1, HereFacts
  <2>2. Len(Children(Top.node)) \in Nat
    BY <2>1, ChildrenType DEF PathInv, IterInv
  <2> QED
    BY <2>2 DEF Barren
<1>5. PassedAreSound'
  BY <1>0, <1>1, <1>2, <1>3, <1>4, PassesTheTop
<1>6. PassedAreListed'
  <2>1. NodeAt(PathTo(n)) = Top.node
    BY <1>0, <1>1, HereFacts
  <2>2. PathTo(n) \in Passed \/ ~Listed(PathTo(n))
    BY <1>3, <1>4, <2>1 DEF Listed
  <2>3. \A p : Listed(p)' <=> Listed(p)
    <3>1. \A p : NodeAt(p)' = NodeAt(p)
      BY <1>1, FileStays
    <3> QED
      BY <1>1, <3>1 DEF Listed, IsExport, Children
  <2>4. {p \in Passed : Listed(p)}' = {p \in Passed : Listed(p)}
    BY <1>3, <2>2, <2>3
  <2> QED
    BY <1>1, <1>2, <2>4 DEF PassedAreListed
<1>7. OpenAreSound'
  <2>1. \A f, x : At(f, x)' = At(f, x)
    BY <1>1, FileStays
  <2>2. CASE n = 1
    <3>1. stack' = <<>> /\ Len(stack') = 0 /\ 1..0 = {} /\ 1..(0 - 1) = {}
      BY <1>0, <2>2 DEF Leaves
    <3> QED
      BY <1>1, <3>1 DEF OpenAreSound
  <2>3. CASE n # 1
    <3>1. Len(stack') = n - 1 /\ \A k \in 1..(n - 1) : stack'[k].node = stack[k].node
      BY <1>0, <2>3 DEF Leaves, SameNode
    <3>2. /\ \A k \in 1..(n - 1) : k \in 1..n
          /\ \A k \in 1..((n - 1) - 1) : k \in 1..(n - 1)
      BY <1>1
    <3>3. /\ \A k \in 1..(n - 1) : ~At("parse", stack'[k].node)
          /\ \A k \in 1..((n - 1) - 1) : ~At("edge", stack'[k].node)
      BY <1>0, <1>2, <3>1, <3>2 DEF OpenAreSound
    <3> QED
      BY <1>1, <2>1, <3>1, <3>3 DEF OpenAreSound
  <2> QED
    BY <2>2, <2>3
<1> QED
  BY <1>1, <1>5, <1>6, <1>7 DEF DoneInv, AreEntries

LEMMA OpensDone == PathInv /\ PathInv' /\ DoneInv /\ Opens => DoneInv'
<1> SUFFICES ASSUME PathInv, PathInv', DoneInv, Opens PROVE DoneInv'
  OBVIOUS
<1>1. /\ UNCHANGED <<trie, fault, stack, entries>> /\ pc = "open" /\ stack = <<>>
  BY DEF Opens
<1>2. PassedAreListed /\ PassedAreSound /\ OpenAreSound
  BY <1>1 DEF PathInv, RefusalsInv, DoneInv
<1>3. CASE error' = "Invalid"
  BY <1>1, <1>3 DEF DoneInv, AreEntries
<1>4. CASE error' # "Invalid"
  <2>1. pc' = "advance" /\ ~At("parse", Root) /\ stack' = <<>> /\ Len(stack') = 0
    BY <1>1, <1>4 DEF Opens
  <2>2. Passed = {} /\ Passed' = {}
    BY <1>1, <2>1 DEF Passed
  <2>3. PassedAreListed' /\ PassedAreSound'
    BY <1>1, <1>2, <2>2, PassesNothing
  <2>4. OpenAreSound'
    <3>1. \A f, x : At(f, x)' = At(f, x)
      BY <1>1, FileStays
    <3>2. 1..0 = {} /\ 1..(0 - 1) = {}
      OBVIOUS
    <3> QED
      BY <2>1, <3>1, <3>2 DEF OpenAreSound
  <2> QED
    BY <1>1, <2>3, <2>4 DEF DoneInv, AreEntries
<1> QED
  BY <1>3, <1>4

LEMMA DoneInvStep == PathInv /\ PathInv' /\ DoneInv /\ [Next]_vars => DoneInv'
<1> SUFFICES ASSUME PathInv, PathInv', DoneInv, [Next]_vars PROVE DoneInv'
  OBVIOUS
<1>1. Shape \/ UNCHANGED vars
  BY StepShape DEF PathInv
<1>2. CASE Fails
  BY <1>2 DEF Fails, DoneInv, AreEntries
<1>3. CASE UNCHANGED vars
  <2>1. UNCHANGED <<trie, fault, pc, error, stack, next, string, ranges, kind, entries>>
    BY <1>3 DEF vars
  <2>2. UNCHANGED Passed
    <3>1. \A k : PathTo(k)' = PathTo(k)
      BY <2>1 DEF PathTo
    <3>2. Paths' = Paths /\ \A q : UpTo(q)' = UpTo(q)
      BY <2>1, PathsStay, UpToStays
    <3>3. Top' = Top
      BY <2>1 DEF Top
    <3> QED
      BY <2>1, <3>1, <3>2, <3>3 DEF Passed, Here
  <2>3. PassedAreListed /\ PassedAreSound => PassedAreListed' /\ PassedAreSound'
    BY <2>1, <2>2, PassesNothing
  <2>4. OpenAreSound => OpenAreSound'
    BY <2>1 DEF OpenAreSound, At, IsExport, Top
  <2> QED
    BY <2>1, <2>3, <2>4 DEF DoneInv, AreEntries
<1> QED
  BY <1>1, <1>2, <1>3, OpensDone, LeavesDone, EntersDone, BeginsDone, ReadsDone, ListsDone
  DEF Shape

-----------------------------------------------------------------------------
(* The order of the entries *)

GoodEntry(e) ==
  /\ e.node = NodeAt(e.path) /\ e.string = StringAt(e.path)
  /\ e.export = (IsExport(e.node) /\ ~At("unknownKind", e.node))

LEMMA EntryFacts ==
  ASSUME NEW x
  PROVE  /\ Entry(x).node = Top.node /\ Entry(x).path = PathTo(Len(stack))
         /\ Entry(x).string = string /\ Entry(x).export = x
BY Zenon DEF Entry, PathTo

\* An entry that a step adds is the innermost node, after all the others.
LEMMA AddsInPreorder ==
  ASSUME PathInv, Walking, AreEntries, PassedAreListed, EntriesInPreorder,
         Passed = UpTo(PathTo(Len(stack))), UNCHANGED <<trie, fault>>,
         NEW x, entries' = Append(entries, Entry(x)),
         x = (IsExport(Top.node) /\ ~At("unknownKind", Top.node))
  PROVE  EntriesInPreorder'
<1>1. PICK n \in Nat \ {0}, q \in Paths :
         /\ n = Len(stack) /\ q = PathTo(n)
         /\ NodeAt(q) = Top.node /\ StringAt(q) = string
  BY HereFacts
<1>2. PICK S : entries \in Seq(S)
  BY DEF AreEntries
<1>3. PICK e : e = Entry(x)
  OBVIOUS
<1>4. e.node = Top.node /\ e.path = q /\ e.string = string /\ e.export = x
  BY <1>1, <1>3, EntryFacts
<1>5. GoodEntry(e)
  <2>1. e.node = NodeAt(e.path) /\ e.string = StringAt(e.path)
    BY <1>1, <1>4
  <2>2. e.export = (IsExport(e.node) /\ ~At("unknownKind", e.node))
    BY <1>4, Zenon
  <2> QED
    BY <2>1, <2>2 DEF GoodEntry
<1>6. entries \in Seq(S \cup {e}) /\ e \in S \cup {e}
  BY <1>2, WiderSeq
<1>7. /\ Len(entries) \in Nat /\ DOMAIN entries = 1..Len(entries)
      /\ DOMAIN entries' = 1..(Len(entries) + 1) /\ entries'[Len(entries) + 1] = e
      /\ \A k \in 1..Len(entries) : entries'[k] = entries[k]
  BY <1>3, <1>6
<1>8. \A k \in 1..Len(entries) : Before(entries[k].path, q)
  <2> SUFFICES ASSUME NEW k \in 1..Len(entries)
               PROVE  Before(entries[k].path, q)
    OBVIOUS
  <2>1. entries[k].path \in Passed
    BY <1>7 DEF PassedAreListed
  <2> QED
    BY <1>1, <2>1 DEF UpTo
<1>9. \A k \in 1..Len(entries) :
        GoodEntry(entries[k]) /\ (k > 1 => Before(entries[k - 1].path, entries[k].path))
  BY <1>7 DEF EntriesInPreorder, GoodEntry
<1>10. /\ \A p : NodeAt(p)' = NodeAt(p) /\ StringAt(p)' = StringAt(p)
       /\ \A f, z : At(f, z)' = At(f, z)
       /\ \A z : IsExport(z)' = IsExport(z)
  BY FileStays
<1>11. ASSUME NEW k \in 1..(Len(entries) + 1)
       PROVE  /\ GoodEntry(entries'[k])
              /\ k > 1 => Before(entries'[k - 1].path, entries'[k].path)
  <2>1. CASE k \in 1..Len(entries)
    <3>1. entries'[k] = entries[k] /\ (k > 1 => entries'[k - 1] = entries[k - 1])
      <4>1. k > 1 => k - 1 \in 1..Len(entries)
        BY <1>7, <2>1
      <4> QED
        BY <1>7, <2>1, <4>1
    <3> QED
      BY <1>9, <2>1, <3>1
  <2>2. CASE k = Len(entries) + 1
    <3>1. entries'[k] = e
      BY <1>7, <2>2
    <3>2. k > 1 => k - 1 \in 1..Len(entries) /\ entries'[k - 1] = entries[k - 1]
      <4>1. k > 1 => k - 1 \in 1..Len(entries)
        BY <1>7, <2>2
      <4> QED
        BY <1>7, <4>1
    <3> QED
      BY <1>4, <1>5, <1>8, <3>1, <3>2
  <2> QED
    BY <1>7, <2>1, <2>2
<1>12. \A k \in 1..(Len(entries) + 1) :
         GoodEntry(entries'[k]) /\ (k > 1 => Before(entries'[k - 1].path, entries'[k].path))
  BY <1>11
<1> QED
  BY <1>7, <1>10, <1>12 DEF EntriesInPreorder, GoodEntry

\* The entries stay.
LEMMA KeepsPreorder ==
  EntriesInPreorder /\ UNCHANGED <<trie, fault, entries>> => EntriesInPreorder'
<1> SUFFICES ASSUME EntriesInPreorder, UNCHANGED <<trie, fault, entries>>
             PROVE  EntriesInPreorder'
  OBVIOUS
<1>1. \A p : NodeAt(p)' = NodeAt(p) /\ StringAt(p)' = StringAt(p)
  BY FileStays
<1>2. \A f, z : At(f, z)' = At(f, z)
  BY FileStays
<1>3. \A z : IsExport(z)' = IsExport(z)
  BY FileStays
<1> QED
  BY <1>1, <1>2, <1>3 DEF EntriesInPreorder

LEMMA PreorderStep == PathInv /\ DoneInv /\ EntriesInPreorder /\ [Next]_vars => EntriesInPreorder'
<1> SUFFICES ASSUME PathInv, DoneInv, EntriesInPreorder, [Next]_vars PROVE EntriesInPreorder'
  OBVIOUS
<1>1. Shape \/ UNCHANGED vars
  BY StepShape DEF PathInv
<1>2. CASE Lists
  <2>1. /\ UNCHANGED <<trie, fault>> /\ Walking /\ pc = "loop"
        /\ entries' = Append(entries, Entry(kind'))
    BY <1>2 DEF Lists
  <2>2. kind' = (IsExport(Top.node) /\ ~At("unknownKind", Top.node))
    <3>1. ~kind
      BY <2>1 DEF PathInv, KindInv
    <3>2. IsExport(Top.node) /\ kind' = (kind \/ ~At("unknownKind", Top.node))
      BY <1>2 DEF Lists
    <3> QED
      BY <3>1, <3>2, Zenon
  <2>3. error = "None" /\ AreEntries /\ PassedAreListed
    BY <2>1 DEF PathInv, RefusalsInv, DoneInv
  <2>4. Passed = UpTo(PathTo(Len(stack)))
    BY <1>2, ListsPassed
  <2> QED
    BY <2>1, <2>2, <2>3, <2>4, AddsInPreorder
<1>3. CASE Reads
  <2>1. /\ UNCHANGED <<trie, fault>> /\ Walking /\ pc = "loop"
        /\ entries' = Append(entries, Entry(kind))
    BY <1>3 DEF Reads
  <2>2. kind = (IsExport(Top.node) /\ ~At("unknownKind", Top.node))
    <3>1. ~kind /\ kind \in BOOLEAN
      BY <2>1 DEF PathInv, KindInv, IterInv, IterTypes
    <3>2. ~IsExport(Top.node)
      BY <1>3 DEF Reads
    <3> QED
      BY <3>1, <3>2, Zenon
  <2>3. error = "None" /\ AreEntries /\ PassedAreListed
    BY <2>1 DEF PathInv, RefusalsInv, DoneInv
  <2>4. Passed = UpTo(PathTo(Len(stack)))
    BY <1>3, ListsPassed
  <2> QED
    BY <2>1, <2>2, <2>3, <2>4, AddsInPreorder
<1>4. CASE UNCHANGED vars \/ Opens \/ Leaves \/ Enters \/ Begins \/ Fails
  <2>1. UNCHANGED <<trie, fault, entries>>
    BY <1>4 DEF vars, Opens, Leaves, Enters, Begins, Fails
  <2> QED
    BY <2>1, KeepsPreorder
<1> QED
  BY <1>1, <1>2, <1>3, <1>4 DEF Shape

-----------------------------------------------------------------------------
(* The theorems *)

WalkInv == PathInv /\ DoneInv /\ EntriesInPreorder

LEMMA WalkInvAlways == Spec => []WalkInv
<1>1. Init => WalkInv
  <2>1. Init => EntriesInPreorder
    <3>1. Init => DOMAIN entries = {}
      BY DEF Init
    <3> QED
      BY <3>1 DEF EntriesInPreorder
  <2> QED
    BY <2>1, PathInvInit, DoneInvInit DEF WalkInv
<1>2. WalkInv /\ [Next]_vars => WalkInv'
  BY PathInvStep, DoneInvStep, PreorderStep DEF WalkInv
<1> QED
  BY <1>1, <1>2, PTL DEF Spec

\* The stack never has more than MaxDepth nodes, and neither the ordinal nor the
\* edges read of a node pass the children the node has.
THEOREM TypeCorrect == Spec => []TypeOK
<1>1. ASSUME IterInv
      PROVE  TypeOK
  <2>1. IterTypes /\ InStep /\ stack \in Seq(FrameType)
    BY <1>1 DEF IterInv, IterTypes
  <2>2. \A k \in 1..Len(stack) : stack[k] \in FrameType
    BY <2>1
  <2>3. \A k \in DOMAIN stack : /\ stack[k].node \in Nodes
                                /\ stack[k].read <= Len(Children(stack[k].node))
                                /\ stack[k].ordinal <= Len(Children(stack[k].node)) + 1
    <3>1. DOMAIN stack = 1..Len(stack)
      BY <2>1
    <3>2. \A k \in 1..Len(stack) : stack[k].node \in Nodes
      BY <2>2 DEF FrameType
    <3> QED
      BY <2>1, <3>1, <3>2 DEF InStep
  <2> QED
    BY <2>1, <2>3 DEF IterTypes, TypeOK, Pcs, Errors
<1> QED
  BY <1>1, IterInvAlways, PTL

\* Whatever graph the file holds, the walk is never inside an export that it is
\* already inside of.
THEOREM ExportsAreNotReentered == Spec => []NoExportTwice
<1>1. ASSUME IterInv
      PROVE  NoExportTwice
  <2> SUFFICES ASSUME NEW j \in DOMAIN stack, NEW k \in DOMAIN stack,
                      j # k, stack[j].node = stack[k].node
               PROVE  ~IsExport(stack[j].node)
    BY DEF NoExportTwice
  <2>1. IterTypes /\ RangesInv /\ stack \in Seq(FrameType) /\ ranges \in Seq(Nodes)
    BY <1>1 DEF IterInv, IterTypes
  <2>2. j \in 1..Len(stack) /\ k \in 1..Len(stack) /\ stack # <<>>
    BY <2>1
  <2>3. PathOnRecord
    BY <2>1, <2>2 DEF RangesInv, IterTypes, Pcs
  <2>4. /\ Pos(j) \in 1..Len(ranges) /\ ranges[Pos(j)] = stack[j].node
        /\ Pos(k) \in 1..Len(ranges) /\ ranges[Pos(k)] = stack[k].node
    BY <2>2, <2>3 DEF PathOnRecord
  <2>5. Pos(j) # Pos(k)
    <3>1. j < k \/ k < j
      BY <2>2
    <3>2. (j < k => Pos(j) < Pos(k)) /\ (k < j => Pos(k) < Pos(j))
      BY <2>2, <2>3 DEF PathOnRecord
    <3>3. Pos(j) \in Int /\ Pos(k) \in Int
      BY <2>4
    <3> QED
      BY <3>1, <3>2, <3>3
  <2> QED
    BY <2>1, <2>4, <2>5 DEF RangesInv, NoExportRecordedTwice
<1> QED
  BY <1>1, IterInvAlways, PTL

\* A file is refused as overlapping, too deep or with an export that has no name
\* only if the paths of its trie say so.
THEOREM RefusalsJustified == Spec => []RefusalsAreJustified
<1>1. WalkInv => RefusalsAreJustified
  BY DEF WalkInv, PathInv, RefusalsInv
<1> QED
  BY <1>1, WalkInvAlways, PTL

\* String, the ordinals, the offsets and the ranges agree on the path that the
\* walk is at, and the entries follow it, whatever the file holds.
THEOREM WalkIsFollowed == Spec => []WalkFollowsTrie
<1>1. WalkInv => WalkFollowsTrie
  BY OpenRangesAreAll DEF WalkInv, PathInv, StackInv, WalkFollowsTrie
<1> QED
  BY <1>1, WalkInvAlways, PTL

\* A walk that ends without an error was over a finite trie without faults, and
\* gave the caller each path of it to a node that is not barren.
THEOREM EndIsComplete == Spec => []EndMeansComplete
<1>1. ASSUME WalkInv
      PROVE  EndMeansComplete
  <2> SUFFICES ASSUME pc = "end", error = "None"
               PROVE  /\ {entries[k].path : k \in DOMAIN entries} =
                           {p \in Paths : IsExport(NodeAt(p)) \/ Children(NodeAt(p)) # <<>>}
                      /\ \A p \in Paths :
                          /\ Len(p) < MaxDepth
                          /\ ~At("parse", NodeAt(p))
                          /\ At("edge", NodeAt(p)) => Children(NodeAt(p)) = <<>>
                          /\ IsExport(NodeAt(p)) => StringAt(p) # <<>> /\ ~At("info", NodeAt(p))
    BY DEF EndMeansComplete
  <2>1. /\ PassedAreListed /\ PassedAreSound /\ Passed = Paths
        /\ IterTypes /\ BoundedTrie
    BY <1>1, PassedCases DEF WalkInv, DoneInv, PathInv, IterInv, RefusalsInv
  <2>2. {entries[k].path : k \in DOMAIN entries} =
          {p \in Paths : IsExport(NodeAt(p)) \/ Children(NodeAt(p)) # <<>>}
    BY <2>1 DEF PassedAreListed, Listed
  <2>3. \A p \in Paths : /\ Len(p) < MaxDepth /\ ~At("parse", NodeAt(p))
                         /\ IsExport(NodeAt(p)) => StringAt(p) # <<>> /\ ~At("info", NodeAt(p))
    BY <2>1 DEF PassedAreSound
  <2>4. ASSUME NEW p \in Paths, Children(NodeAt(p)) # <<>>
        PROVE  ~At("edge", NodeAt(p))
    <3>1. p \in Seq(Nat) /\ NodeAt(p) \in Nodes /\ Len(p) < MaxDepth
      BY <2>3, <2>4, PathsFacts, PathsAreNumbers
    <3>2. Children(NodeAt(p)) \in Seq(Nodes)
      BY <2>1, <3>1, ChildrenType
    <3>3. 1 \in 1..Len(Children(NodeAt(p)))
      BY <2>4, <3>2
    <3>4. Append(p, 1) \in Passed
      BY <2>1, <3>1, <3>3, PathExtends
    <3> QED
      BY <2>1, <3>1, <3>4 DEF PassedAreSound
  <2> QED
    BY <2>2, <2>3, <2>4
<1> QED
  BY <1>1, WalkInvAlways, PTL
=============================================================================
