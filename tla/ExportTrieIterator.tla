------------------------ MODULE ExportTrieIterator ------------------------
(***************************************************************************)
(* ExportTrieIterator (src/ADT/Mach-O/ExportTrie.cpp): the walk over the   *)
(* export trie of a file, which every export operation reads its entries   *)
(* from.  A trie is any graph of nodes, as a file may hold it: an edge may *)
(* lead back to an ancestor or to a node that another edge leads to.       *)
(* Distinct nodes do not overlap.  Reading one of the nodes may fail.      *)
(***************************************************************************)
EXTENDS Naturals, Sequences, SequencesExt

CONSTANTS
    Nodes,          \* the nodes of the file; a node is its offset
    Root,           \* the node at the begin of the trie
    MaxChildren,    \* bound on the children of a node; 255 in a file
    MaxDepth,       \* ParseOptions.MaxDepth
    Null            \* no node

ASSUME TrieAssumption ==
    /\ Root \in Nodes /\ Null \notin Nodes
    /\ MaxChildren \in Nat /\ MaxDepth \in Nat \ {0, 1}

VARIABLES
    trie,       \* for each node, whether it is an export and its children
    fault,      \* what is wrong with the file, and with which node
    pc,         \* "open", "advance", "loop", "end" or "error"
    error,      \* the error in EndOrError
    stack,      \* StackList: node, last edge, ChildOrdinal, edges read, ranges
    next,       \* NextStack, as ParseNextNode left it
    string,     \* String, as the edges whose prefixes it holds
    ranges,     \* RangeList, as the nodes whose ranges it holds
    kind,       \* whether Kind is other than None
    entries     \* the entries the caller has been given

vars == <<trie, fault, pc, error, stack, next, string, ranges, kind, entries>>
file == <<trie, fault>>

Faults == {"parse", "edge", "info", "unknownKind", "noPrefix"}
At(f, n) == fault = <<f, n>>

IsExport(n) == trie[n].export
Children(n) == trie[n].children
Top == Last(stack)

\* The edge to the i-th child of n; its prefix may be empty.
Prefix(n, i) == IF At("noPrefix", n) THEN <<>> ELSE <<<<n, i>>>>
Frame(n, prefix) == [node |-> n, prefix |-> prefix, ordinal |-> 0, read |-> 0, ranges |-> 0]

Init ==
    /\ trie \in [Nodes -> [export : BOOLEAN, children : SeqOf(Nodes, MaxChildren)]]
    /\ fault \in {Null} \cup (Faults \X Nodes)
    /\ pc = "open" /\ error = "None"
    /\ stack = <<>> /\ next = Frame(Root, <<>>)
    /\ string = <<>> /\ ranges = <<>>
    /\ kind = FALSE /\ entries = <<>>

-----------------------------------------------------------------------------
(* The parts of Advance() *)

\* Mutant: only the innermost range is looked at.
Overlaps_LastOnly(n) == IsExport(n) /\ ranges # <<>> /\ Last(ranges) = n

\* A node without export info has an empty range, which overlaps nothing.
Overlaps(n) == IsExport(n) /\ \E k \in DOMAIN ranges : ranges[k] = n

ParseError(n) ==
    CASE At("parse", n) -> "Invalid"
      [] ~At("parse", n) /\ Overlaps(n) -> "OverlappingRanges"
      [] OTHER -> "None"

Fail(e) == error' = e /\ pc' = "error"

\* Mutants: the limit is one less, or one more.
AtMaxDepth_Early == Len(stack) = MaxDepth - 1
AtMaxDepth_Late == Len(stack) > MaxDepth

\* NextChild never gets there with this many: Advance() does not resume then.
AtMaxDepth == Len(stack) = MaxDepth

\* Mutant: the ranges of the children stay.
MoveUptoParentNode_KeepRanges ==
    IF Len(stack) = 1
    THEN stack' = <<>> /\ pc' = "end" /\ UNCHANGED <<string, ranges>>
    ELSE /\ stack' = [Front(stack) EXCEPT ![Len(stack) - 1].ordinal = @ + 1]
         /\ string' = SubSeq(string, 1, Len(string) - Len(Top.prefix))
         /\ UNCHANGED ranges
         /\ pc' = "loop"

\* Mutant: the prefix stays if the node has no children.
MoveUptoParentNode_KeepPrefix ==
    IF Len(stack) = 1
    THEN stack' = <<>> /\ pc' = "end" /\ UNCHANGED <<string, ranges>>
    ELSE /\ stack' = [Front(stack) EXCEPT ![Len(stack) - 1].ordinal = @ + 1]
         /\ string' = IF Children(Top.node) = <<>> /\ ~IsExport(Top.node) THEN string
                      ELSE SubSeq(string, 1, Len(string) - Len(Top.prefix))
         /\ ranges' = SubSeq(ranges, 1, Top.ranges)
         /\ pc' = "loop"

\* Only the root has no ranges of its own on record.
MoveUptoParentNode ==
    IF Len(stack) = 1
    THEN stack' = <<>> /\ pc' = "end" /\ UNCHANGED <<string, ranges>>
    ELSE /\ stack' = [Front(stack) EXCEPT ![Len(stack) - 1].ordinal = @ + 1]
         /\ string' = SubSeq(string, 1, Len(string) - Len(Top.prefix))
         /\ ranges' = IF Top.ranges # 0 THEN SubSeq(ranges, 1, Top.ranges) ELSE ranges
         /\ pc' = "loop"

SetupInfoForNewStack(s, frame) ==
    /\ stack' = Append(s, frame)
    /\ string' = string \o frame.prefix

\* ParseNextNode on the edge the node of the top is at: its error, and the
\* stack entry for the child.
Edge == Top.read + 1
Child == Children(Top.node)[Edge]
NextError == IF At("edge", Top.node) THEN "Invalid" ELSE ParseError(Child)
NextFrame == [Frame(Child, Prefix(Top.node, Edge)) EXCEPT !.ranges = Len(ranges) + 1]
EdgeRead == [stack EXCEPT ![Len(stack)].read = Edge]

Entry(isExport) ==
    [node |-> Top.node, path |-> [k \in 1..(Len(stack) - 1) |-> stack[k].ordinal],
     string |-> string, export |-> isExport]

-----------------------------------------------------------------------------
(* The constructor *)

Open ==
    /\ pc = "open"
    /\ IF ParseError(Root) # "None"
       THEN error' = ParseError(Root) /\ pc' = "end" /\ UNCHANGED ranges
       ELSE ranges' = <<Root>> /\ pc' = "advance" /\ UNCHANGED error
    /\ UNCHANGED <<file, stack, next, string, kind, entries>>

(* Advance(), up to its loop *)

ResumeEmpty ==
    /\ pc = "advance" /\ stack = <<>>
    /\ SetupInfoForNewStack(stack, next)
    /\ pc' = "loop"
    /\ UNCHANGED <<file, error, next, ranges, kind, entries>>

ResumeTooDeep ==
    /\ pc = "advance" /\ AtMaxDepth
    /\ Fail("TooDeep")
    /\ UNCHANGED <<file, stack, next, string, ranges, kind, entries>>

Resumable == pc = "advance" /\ stack # <<>> /\ ~AtMaxDepth

ResumeExportLeaf ==
    /\ Resumable /\ IsExport(Top.node) /\ Children(Top.node) = <<>>
    /\ kind' = FALSE
    /\ MoveUptoParentNode
    /\ UNCHANGED <<file, error, next, entries>>

\* Mutant: the kind of the export stays.
ResumeExport_KeepKind ==
    /\ Resumable /\ IsExport(Top.node) /\ Children(Top.node) # <<>>
    /\ stack' = [stack EXCEPT ![Len(stack)].ordinal = 1]
    /\ pc' = "loop"
    /\ UNCHANGED <<file, error, next, string, ranges, kind, entries>>

ResumeExport ==
    /\ Resumable /\ IsExport(Top.node) /\ Children(Top.node) # <<>>
    /\ kind' = FALSE
    /\ stack' = [stack EXCEPT ![Len(stack)].ordinal = 1]
    /\ pc' = "loop"
    /\ UNCHANGED <<file, error, next, string, ranges, entries>>

ResumeInterior ==
    /\ Resumable /\ ~IsExport(Top.node)
    /\ SetupInfoForNewStack([stack EXCEPT ![Len(stack)].ordinal = @ + 1], next)
    /\ pc' = "loop"
    /\ UNCHANGED <<file, error, next, ranges, kind, entries>>

-----------------------------------------------------------------------------
(* The loop of Advance() *)

Looping == pc = "loop"
FirstVisit == Looping /\ Top.ordinal = 0

VisitFaultyExport ==
    /\ FirstVisit /\ IsExport(Top.node)
    /\ \/ string = <<>> /\ Fail("EmptyExport")
       \/ string # <<>> /\ At("info", Top.node) /\ Fail("Invalid")
    /\ UNCHANGED <<file, stack, next, string, ranges, kind, entries>>

VisitExport ==
    /\ FirstVisit /\ IsExport(Top.node)
    /\ string # <<>> /\ ~At("info", Top.node)
    /\ kind' = (kind \/ ~At("unknownKind", Top.node))
    /\ entries' = Append(entries, Entry(kind'))
    /\ pc' = "advance"
    /\ UNCHANGED <<file, error, stack, next, string, ranges>>

SkipBarren ==
    /\ FirstVisit /\ ~IsExport(Top.node) /\ Children(Top.node) = <<>>
    /\ MoveUptoParentNode
    /\ UNCHANGED <<file, error, next, kind, entries>>

VisitInterior ==
    /\ FirstVisit /\ ~IsExport(Top.node) /\ Children(Top.node) # <<>>
    /\ stack' = EdgeRead
    /\ IF NextError # "None"
       THEN Fail(NextError) /\ UNCHANGED <<next, ranges, entries>>
       ELSE /\ next' = NextFrame
            /\ ranges' = Append(ranges, Child)
            /\ entries' = Append(entries, Entry(kind))
            /\ pc' = "advance"
            /\ UNCHANGED error
    /\ UNCHANGED <<file, string, kind>>

FinishNode ==
    /\ Looping /\ Top.ordinal # 0 /\ Top.ordinal = Len(Children(Top.node)) + 1
    /\ MoveUptoParentNode
    /\ UNCHANGED <<file, error, next, kind, entries>>

\* Mutant: an error of the child is taken for its end.
NextChild_SkipErrors ==
    /\ Looping /\ Top.ordinal # 0 /\ Top.ordinal # Len(Children(Top.node)) + 1
    /\ IF NextError # "None"
       THEN /\ stack' = [EdgeRead EXCEPT ![Len(stack)].ordinal = @ + 1]
            /\ UNCHANGED <<pc, error, next, string, ranges>>
       ELSE /\ next' = NextFrame
            /\ ranges' = Append(ranges, Child)
            /\ IF AtMaxDepth
               THEN Fail("TooDeep") /\ stack' = EdgeRead /\ UNCHANGED string
               ELSE /\ SetupInfoForNewStack(EdgeRead, NextFrame)
                    /\ UNCHANGED <<pc, error>>
    /\ UNCHANGED <<file, kind, entries>>

\* Mutant: a child that cannot be read is tried again.
NextChild_Retry ==
    /\ Looping /\ Top.ordinal # 0 /\ Top.ordinal # Len(Children(Top.node)) + 1
    /\ IF NextError # "None"
       THEN UNCHANGED <<pc, error, stack, next, string, ranges>>
       ELSE /\ next' = NextFrame
            /\ ranges' = Append(ranges, Child)
            /\ IF AtMaxDepth
               THEN Fail("TooDeep") /\ stack' = EdgeRead /\ UNCHANGED string
               ELSE /\ SetupInfoForNewStack(EdgeRead, NextFrame)
                    /\ UNCHANGED <<pc, error>>
    /\ UNCHANGED <<file, kind, entries>>

NextChild ==
    /\ Looping /\ Top.ordinal # 0 /\ Top.ordinal # Len(Children(Top.node)) + 1
    /\ IF NextError # "None"
       THEN Fail(NextError) /\ stack' = EdgeRead /\ UNCHANGED <<next, string, ranges>>
       ELSE /\ next' = NextFrame
            /\ ranges' = Append(ranges, Child)
            /\ IF AtMaxDepth
               THEN Fail("TooDeep") /\ stack' = EdgeRead /\ UNCHANGED string
               ELSE /\ SetupInfoForNewStack(EdgeRead, NextFrame)
                    /\ UNCHANGED <<pc, error>>
    /\ UNCHANGED <<file, kind, entries>>

Stopped == pc \in {"end", "error"} /\ UNCHANGED vars

Advance ==
    \/ ResumeEmpty \/ ResumeTooDeep \/ ResumeExportLeaf \/ ResumeExport
    \/ ResumeInterior \/ VisitFaultyExport \/ VisitExport \/ SkipBarren
    \/ VisitInterior \/ FinishNode \/ NextChild

Next == Open \/ Advance \/ Stopped
Spec == Init /\ [][Next]_vars
FairSpec == Spec /\ WF_vars(Open \/ Advance)

-----------------------------------------------------------------------------
(* Properties *)

\* Type invariant.
TypeOK ==
    /\ pc \in {"open", "advance", "loop", "end", "error"}
    /\ error \in {"None", "Invalid", "OverlappingRanges", "EmptyExport", "TooDeep"}
    /\ Len(stack) <= MaxDepth /\ ranges \in Seq(Nodes) /\ kind \in BOOLEAN
    /\ \A k \in DOMAIN stack :
            /\ stack[k].node \in Nodes
            /\ stack[k].read <= Len(Children(stack[k].node))
            /\ stack[k].ordinal <= Len(Children(stack[k].node)) + 1

\* The stack is a path of the trie: the ordinals that Advance() counts and the
\* offsets that ParseNextNode moves stay in step, and String holds exactly the
\* prefixes of the edges on the path.
StackIsPath ==
    /\ \A k \in 2..Len(stack) :
        /\ stack[k - 1].read = stack[k - 1].ordinal
        /\ stack[k].node = Children(stack[k - 1].node)[stack[k - 1].ordinal]
        /\ stack[k].prefix = Prefix(stack[k - 1].node, stack[k - 1].ordinal)
    /\ stack # <<>> => string = FlattenSeq([k \in DOMAIN stack |-> stack[k].prefix])

\* RangeList holds the nodes of the path and what their edges led to so far:
\* leaving a node forgets its children, and nothing else.
RangesAreOpen ==
    stack # <<>> /\ pc # "error" =>
        ToSet(ranges) = {Root} \cup
            UNION {{Children(stack[k].node)[i] : i \in 1..stack[k].read} :
                   k \in DOMAIN stack}

\* A cycle through an export is never entered twice.
NoExportTwice ==
    \A j, k \in DOMAIN stack :
        j # k /\ stack[j].node = stack[k].node => ~IsExport(stack[j].node)

\* Reference: the paths of the trie, each a sequence of child ordinals, the
\* node a path leads to and its string.  Node is Null past a missing child.
Follow(n, i) ==
    IF n \in Nodes /\ i \in DOMAIN Children(n) THEN Children(n)[i] ELSE Null
NodeAt(p) ==
    LET along[k \in 0..Len(p)] == IF k = 0 THEN Root ELSE Follow(along[k - 1], p[k])
    IN along[Len(p)]
StringAt(p) ==
    FlattenSeq([k \in DOMAIN p |-> Prefix(NodeAt(SubSeq(p, 1, k - 1)), p[k])])
Paths == {p \in SeqOf(1..MaxChildren, MaxDepth) : NodeAt(p) \in Nodes}
Before(p, q) ==
    \/ IsStrictPrefix(p, q)
    \/ \E k \in DOMAIN p \cap DOMAIN q :
        SubSeq(p, 1, k - 1) = SubSeq(q, 1, k - 1) /\ p[k] < q[k]

\* The entries are paths of the trie in preorder, each with the node and the
\* string of its path, and marked as an export only if the node is one.
EntriesInPreorder ==
    \A k \in DOMAIN entries :
        LET e == entries[k]
        IN /\ e.node = NodeAt(e.path) /\ e.string = StringAt(e.path)
           /\ e.export = (IsExport(e.node) /\ ~At("unknownKind", e.node))
           /\ k > 1 => Before(entries[k - 1].path, e.path)

\* String, the ordinals, the offsets and the ranges that the calls of Advance()
\* keep in different places agree on the path, and the entries follow it.
WalkFollowsTrie == StackIsPath /\ RangesAreOpen /\ EntriesInPreorder

\* If the walk ends without an error the trie was finite and without faults,
\* and every node but the barren ones was an entry once for each path to it.
EndMeansComplete ==
    pc = "end" /\ error = "None" =>
        /\ {entries[k].path : k \in DOMAIN entries} =
             {p \in Paths : IsExport(NodeAt(p)) \/ Children(NodeAt(p)) # <<>>}
        /\ \A p \in Paths :
            /\ Len(p) < MaxDepth
            /\ ~At("parse", NodeAt(p))
            /\ At("edge", NodeAt(p)) => Children(NodeAt(p)) = <<>>
            /\ IsExport(NodeAt(p)) => StringAt(p) # <<>> /\ ~At("info", NodeAt(p))

\* A trie is refused as overlapping only if two paths share an export, and as
\* too deep only if a path has as many nodes as the limit.
RefusalsAreJustified ==
    /\ error = "OverlappingRanges" =>
        \E p, q \in Paths : p # q /\ NodeAt(p) = NodeAt(q) /\ IsExport(NodeAt(p))
    /\ error = "TooDeep" => \E p \in Paths : Len(p) = MaxDepth - 1
    /\ error = "EmptyExport" =>
        \E p \in Paths : IsExport(NodeAt(p)) /\ StringAt(p) = <<>>

\* The walk ends for every file, whatever its edges lead back to.
Terminates == <>(pc \in {"end", "error"})
=============================================================================
