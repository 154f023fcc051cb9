# A verification project for ktool

ktool reads Mach-O files, fat files and dyld shared caches and lists what is in
them: the export trie, the rebase and bind opcodes and the actions they stand
for, Objective-C classes, symbols, segments, load commands, images. The program
is sequential. It parses its command line, maps a file, decides what kind of
object the file is, picks an arch or an image of it, runs one operation, and
exits. What is hard to get right in it is not scheduling but data structures
that are changed while they are walked, iterators that keep half of their state
from the call before, and input that no linker would write.

This directory holds TLA+ models of the parts where that matters most, the TLC
configurations that check them, and proofs checked by TLAPS.

    tlc -config ExportTrieTree.cfg ExportTrieTree
    tlc -config Main.cfg MCMain
    tlapm ExportTrieTree_proofs.tla

Each run is listed in `PROJECT.json` with the module, the configuration and
the properties it checks.

Source locations below are relative to the repository: `src/...` and
`include/...`.

## 1. Inventory

| Component | Source | State it keeps | Operations | Used by |
|---|---|---|---|---|
| Tree | `include/ADT/Tree.h`, `src/ADT/Tree.cpp` | first-child/next-sibling nodes with five pointers each, `Root` | AddSiblings, AddChildren, RemoveNode, Sort, iterate, print | export-trie tree, Objective-C tree |
| Export-trie iterator | `ExportTrie.h/.cpp` | `StackList`, `NextStack`, `String`, `RangeList`, `Kind`, an error | construct, Advance | everything that lists exports |
| Export-trie tree | `ExportTrieUtil.*`, `PrintExportTrie.cpp` | a Tree of entries | ParseFromTrie, filter, count, sort | `--list-export-trie --tree` |
| Rebase opcodes | `RebaseInfo.h` | position, operands read last | Advance | rebase actions, rebase listing |
| Rebase actions | `RebaseInfo.h` | address, `LastByte`, `SegAddAddress`, `AddAmt`, `Count` | Advance, GetAsList | `--list-rebase-actions` |
| Rebase opcode listing | `PrintRebaseOpcodeList.cpp` | its own address | CollectRebaseOpcodeList | `--list-rebase-opcodes` |
| Bind opcodes and actions | `BindInfo.h` | as rebase, plus symbol, ordinal, addend, threaded table | Advance, GetAsList | bind collection, bind listings |
| Bind collection | `BindUtil.*` | map from address to action, shared symbols | Parse, lookups | Objective-C classes |
| Objective-C class tree | `ObjcParse.h`, `ObjcUtil.*` | map from address to class, list of roots, a Tree | Parse, link super classes, categories | `--list-objc-classes` |
| Ranges, overflow checks | `Range.h`, `DoesOverflow.h` | none | contains, overlaps, add, multiply | all parsers |
| LEB128 | `Leb128.h` | none | read | tries and opcodes |
| Byte buffers | `ByteVector.*`, `SwapRanges.*` | a growing buffer | add, insert, remove | nothing at present |
| Load-command storage | `LoadCommandStorage.*` | the commands' bytes | verify, iterate | all Mach-O parsers |
| Load commands | `LoadCommands.h` | field layouts | accessors | the same |
| Segments | `SegmentUtil.*`, `DeVirtualizer.*` | segments, sections, ranges | parse, find by address or name | export, bind, Objective-C |
| Symbol tables | `SymbolTableUtil.*` | index and string maps | parse, indirect lookups | symbol listings |
| Shared libraries | `SharedLibraryUtil.*` | list of dylibs | parse, by ordinal | export and bind listings |
| Memory objects | `src/Objects/*` | a map of the file, one object | Open, pick arch, pick image | `main.cpp` |
| Shared cache views | `DscImage.*`, `DyldSharedCache.*` | another base address | as Mach-O | `main.cpp` |
| Files | `MappedFile`, `FileDescriptor` | descriptor, mapping | open, map | `main.cpp` |
| Command line | `main.cpp`, `ArgvArray.*` | position in argv | choose an operation, path options | everything |
| Operations | `src/Operations/*` | options, a list to print | ParseOptions, Run | `main.cpp` |
| Printers and names | `src/Utils/*` | none | format | operations |

How they interact: an operation gets a memory object, takes the load commands
from its storage, builds the segment and library collections, and feeds the
bytes of a trie or an opcode list to an iterator. The iterators report errors
in the value they yield, and their callers decide whether to stop. Nothing is
shared between threads, nothing is persisted, and a failed step ends the
operation.

### What is hard, component by component, and what makes it correct

*Tree.* Five pointers per node are updated by hand. RemoveNode hands a node's
children to its siblings, then may delete a chain of parents, while the caller
goes on with a node computed before. `LastChild` goes stale. Sort swaps nodes
that may be neighbours, under two loop variables. Correct means: the links
agree, no node is lost or left behind, a walk passes each node once and ends.

*Export-trie tree.* The shape of the trie is rebuilt from depths alone, by
moving one `Parent` pointer. Correct means: each node has the parent it has in
the trie; no export that fails the requirements is left and none that meets
them is lost; the sort sorts.

*Export-trie iterator.* Ordinals, offsets, the string and the list of ranges
are moved in different calls and must stay in step; the file may hold cycles.
Correct means: the entries are the paths of the trie in preorder, the walk
ends on every file, an end without an error means nothing was left out, and a
refusal has a reason.

*Rebase.* A run of rebases is resumed by the next call from four variables;
amounts are pending between calls; sums may overflow; errors may be ignored or
must stop the list. Correct means: the addresses listed are those the opcodes
lead to, and a fatal error stops.

*Bind.* As rebase, with a symbol that only its first action carries, a dylib,
a threaded table of fixed capacity whose entries are used through pointers in
the image, and three kinds of list that allow different opcodes. Correct
means: the actions are at the addresses the opcodes lead to, each with the
symbol, dylib, addend, segment and kind that were set last; each pointer that is
followed lies in a section of the image; and the opcode listing agrees.

*Bind collection.* Three iterators run one after the other into one map, which
shares a symbol between actions and must not mix up the segments of the lists.
Correct means: the map holds the binds in the range and nothing else, at the
addresses their segments give them.

*Objective-C.* The class map grows while it is walked; super-class links may
form cycles; classes that are bound are made up while the links are set.
Correct means: each class is below its super class, every class with a root is
in the tree once, each category is in the list of its class, and the walk of
the printer ends.

*LEB128.* Numbers of any length from a list that may end in the middle. Correct
means: the number is the one the bytes stand for, what is refused does not fit
or does not end, and nothing is read past the list.

*Load commands and segments.* Sizes and ranges from the file are checked in one
pass and used in another, with two lookups that must agree. Correct means: what
is walked is what was verified, an accepted collection is disjoint, a refusal
has a reason, and data that is found lies in its segment.

*Memory objects, caches and the command line.* One kind of object is tried after
another, and each step may end the program. Counts, offsets and sizes are
multiplied and added in 32 bits. Arguments are counted twice, by the parser of
the options and by main. Correct means: what is opened is sound, what is run on
is what the last choice names, and every end has its reason.

*Symbol tables, libraries and lists.* A section of pointers leads to a part of a table
of indices, from there to entries and strings, each with a size of its own that
the file gives; the loops for 32 and 64 bits must agree. Names are shown from
commands that are counted. Correct means: a list has what the section or image
has, once and in order, and each refusal has its cause.

The places where this code is exposed are the `hazards` of `PROJECT.json`,
each with its line and with the properties that watch it, or the reason why
none does yet.

## 2. Modules

```
OrderedTree  <- implemented by -  ExportTrieTree  <- ExportTrieTree_proofs
                                       | INSTANCE
                                  TreeNodes  <- ObjcClasses  <- MCObjcClasses, ObjcClasses_proofs

ExportTrieIterator  <- MCExportTrieIterator, ExportTrieIterator_proofs

MachineIntegers  <- RebaseOpcodes  <- RebaseActions  <- MCRebaseActions, Rebase_proofs
                 <- BindOpcodes    <- BindIterator   <- BindActions     <- MCBindActions, Bind_proofs
                                                     <- BindCollection  <- MCBindCollection, Bind_proofs
                 <- Leb128  <- Rebase_proofs

Induction  <- INSTANCE by Segments_proofs, Rebase_proofs, Bind_proofs, Main_proofs,
              ExportTrieIterator_proofs, ExportTrieTree_proofs, ObjcClasses_proofs

Ranges  <- Segments  <- MCSegments, Segments_proofs
        <- MemoryObjects  <- Main  <- MCMain, Main_proofs
        <- SharedLibraries  <- LoadCommandLines  <- DyldLists
SortKinds  <- SharedLibraries

ListingState  <- PointerListing (SharedLibraries)    \
              <- StringListing (SortKinds)            |
              <- LibraryListing (SharedLibraries)     |
              <- CommandListing (LoadCommandLines)     > <- Listings  <- MCListings
              <- ActionListing (DyldLists)            |
              <- HeaderListing (LoadCommandLines)     |
              <- ExportListing (DyldLists)           /
```

An arrow points from a module to the one it extends. RebaseOpcodes and BindOpcodes
have the listings of opcodes as well, so that one run compares the two
translations of the same opcodes that the program makes.

### TreeNodes and ExportTrieTree

A *heap* is a record of one function per pointer of `TreeNode` (`parent`,
`first`, `last`, `prev`, `next`) and the set of allocated nodes, `live`.
`TreeNodes` has one operator per function of `Tree.cpp`, from the heap before
to the heap after. A loop over siblings is the set of nodes reached through
`NextSibling`, in as many turns as there are nodes; where a list might be circular, `RangeEnds` is a guard of
the step, so that a loop that never returns appears as a step that cannot be
taken. The parameter `End` of the sibling functions is left out: every caller
passes `nullptr`.

`ExportTrieTree` is the operation `--list-export-trie --tree`:

| Action | Code |
|---|---|
| ParseRoot, ReadEntry, MoveUp, Attach, ParseError, ParseEnd | `ParseFromTrie` (`ExportTrieUtil.cpp`), one turn of `MoveUpParentHierarchy` per MoveUp |
| FilterKeep, FilterRemove, FilterEnd | the filter loop of `HandleTreeOption` with `Tree::RemoveNode(Node, true)` |
| RemoveLeafParent | one turn of `DoRemoveLeafParents` |
| CountNodes | `GetSymbolLengthForLongestPrintedLineAndCount` |
| SortCompare, SortNextChild, SortNextNode | `Tree::Sort` and the `forEachNode` it is called from |

The entries are the environment here: any sequence of depths a preorder walk
can give. Assumed of the trie: the root is no export, and a node that is no
export has children, as in every trie a linker writes. Whether an export meets
the section requirements is a free choice for each export, as are the options.

### OrderedTree

What the pointers stand for: nodes with children (`kids`) and an order of
siblings (`before`). A node is added as a leaf anywhere among the children of a
node; a node that is not wanted leaves its children to its parent, among its
siblings in any order that keeps theirs (`OrderKept`); a parent that lost its last
child this way is removed next; and siblings change places. `ExportTrieTree` maps
its heap to these: `ChildLists` and `SiblingOrder` are what a walk over the sibling
pointers finds, in the heap without the node that `RemoveNode` has isolated and
not yet deleted (`Linked`). `ImplementsOrderedTree` says that each of its steps,
pointer surgery included, is one of those or none. So no node changes its
parent otherwise, and no child is lost or doubled.

That a leaf is added *anywhere* is what the code does and not what it means:
`AddSiblingsRaw` compares the wrong node (`Tree.cpp:93`) where it should keep
`LastChild`, against `assert(Prev == this->getLastChild())` (`Tree.cpp:71`). `LastChild` stays
at the first child, the next one is put right after it, and children come out
in another order than the trie's.

### ExportTrieIterator

A file is a graph: each node has an export or not, and a sequence of edges to
any nodes. One node may have a fault: it does not parse, its edges do not, its
export info does not, its kind is unknown, or its edges have no prefix. `Open`
is the constructor; the `Resume*` actions are `Advance()` up to its loop and
the others are the turns of the loop. `ParseNextNode`, `MoveUptoParentNode`
and `SetupInfoForNewStack` are operators. Two nodes of a file do not overlap
unless they are the same; `Overlaps` is false for a node without export info,
because its range is empty (`Range.h`).

The reference is independent of the walk: `Paths` are the sequences of child
ordinals that lead somewhere, `NodeAt` and `StringAt` follow one.

The constructor's error leaves an empty stack, which `isAtEnd()` takes for the
end. The model keeps this: `pc` becomes `"end"` and `error` is set, and
`EndMeansComplete` is about ends without an error. The test for the depth in
`NextChild` (`ExportTrie.cpp:366`) cannot be reached with a full stack, since
`Advance()` refuses to resume from one (164-167).

### RebaseOpcodes, RebaseActions

The stream is not fixed in advance: an advance of the opcode iterator reads any
opcode, or finds the end, and `stream` records what was read. An operand is
what the LEB128 reader returns, or invalid. `TopBit` is the value of an
integer's top bit, 2^63 in the program; signed and unsigned sums are checked where the code checks them,
in the type it checks them in. The unions of the code (`AddAddr`/`Count`,
`Skip`/`Scale`) are one field each, so an operand left over from an earlier
opcode is read where the code reads it.

`RebaseActions` is `RebaseActionIterator::Advance()` and `GetAsList()`: one
action per way through the switch over `LastByte` and per group of cases of the
loop over opcodes. `ListIgnoredError` is the body of `GetAsList` for an error
that may be ignored together with the `operator++` after it, which reads an
opcode and has its error cleared. The listing of opcodes in
`RebaseOpcodes` is `CollectRebaseOpcodeList`, which does the same arithmetic once more, as a
function of the stream that was read.

The reference is what the opcodes mean, with unbounded integers: an opcode moves
a cursor (`CursorAt`) and rebases every pointer it passes (`Rebased`). The code does
not do all of this, and where it does not, the property names the departure
and leaves it open, so that it holds of the code and would hold of a corrected one:

- a run of one does not move the address (`RebaseInfo.h:659`). The iterator is then
  `Astray` until a segment is set, and nothing is said of streams that reach an
  opcode that needs the place before that (`KeepsPlace`);
- the last rebase of a run of two or more may be missing from the list
  (`RebaseInfo.h:667`): `ListedInOrder` allows a list without the last ones of some
  `LongRuns`, and nothing else to be missing, added or moved;
- a run of none is refused by nobody and wraps round; the listing of opcodes does not
  scale a scaled add. Streams with these are left out.

Streams whose cursor leaves what a signed integer holds are left out too
(`WithinSegment`).

`MachineIntegers` has what the integers do: `ToUnsigned`, and whether a sum fits
its type.

### BindOpcodes, BindIterator, BindActions, BindCollection

`BindIterator` is `BindActionIteratorBase` for the three kinds of list. Like the
rebase iterator it reads a stream that is not fixed in advance. The beginnings
a stream may have are a constant, `Prologues`, since an action worth listing
needs a segment, a symbol and a kind before it. `Advance` runs while
`pc = "advance"`, yields with `pc = "yielded"`, and a caller goes on with
`Resume`; the two modules above it are its two callers.

| Action | Code |
|---|---|
| Open | the constructor and `begin()` |
| Advance | one turn of `Advance()`: the switch over `LastByte`, or one case of the loop over opcodes |
| ListAction, StopAtError (BindActions) | `GetAsList`, with `GetListOfSymbols` |
| NextList, StopParse and the steps on a yielded action (BindCollection) | `CollectActionListFromTrie` for each of the lists of `Parse` |

The threaded table has a size and a capacity. An apply would go from pointer to
pointer, by the distance each one holds; but the code reads one
byte of the pointer, in which that distance is always 0. So the opcode stays the
current one and is applied to every next pointer as long as there is data
(`ScanThreadedApply`). Whether there is (`HasData`) is decided by address and not by
segment, as in `SegmentInfoCollection` (`SegmentUtil.cpp:518`): the address in memory
(`SegVmAddr`) is looked up in the whole image, and one section must hold all of the
pointer. So an apply goes on into a segment that lies behind its own, stops at a
gap between two sections, and an address that wraps round may find data again.
A section without bytes in the file is like any other: the data found is then the
header of the file, of which the model says nothing. `Image` is the
`SegmentInfoCollection`: segments with their memory and their sections. The listing of
opcodes in `BindOpcodes` is `CollectBindOpcodeList`, a function of the stream.

The assertion of `SegmentInfoCollection::at` is inverted (`SegmentUtil.h:197`): with
assertions, every apply in a segment that exists would end the program. The model is of
a build without them, and leaves out streams that apply threaded binds in a
segment that does not exist (`HasSegment`).

The reference is what the opcodes mean, as for rebases (`CursorAt`, `Bound`), and the
departures are named in the same way: a run of one (`BindInfo.h:1021`) and `DO_BIND` of a lazy
or weak list, which is always refused (1082), leave the iterator `Astray` until a segment is
set, and the last bind of a run of two or more may be missing (1018). Where an action
departs otherwise (an address, a bind that is missing elsewhere, one too many) the
properties fail. What each action has besides its address is compared with what the
opcodes before it set last (`SymbolSet`, `DylibSet`, `AddendSet`, `SegmentSet`, `KindSet`), whatever
kind of bind it is and whatever errors came between; only of a kind that is not
known, which the code stores before it refuses it (`BindInfo.h:558`), nothing is said.

In `BindCollection` the segments of `Image` have the addresses their memory begins at
(`SegmentBase`), and the range asked for is free. Only the first bind of a symbol has
its name; the others share it through the map. `HasItsBinds` compares the map with the
binds of the reference: there is nothing in it that the list does not bind, and
nothing of the list is missing but what `LastOfRuns` has, or what an earlier list bound.

### ObjcClasses

An image gives, for every address of a class, whether it can be read and the
address of its super class; the entries of the section are pointers or binds. `List` is
a function from addresses to classes, and the walk over it takes any class that
is left, since the order of a hash map is not known. An insertion under the walk
may put the class before or after the place the walk is at, or rehash the map,
and then the walk goes on with any subset of the classes: the ghost `rehashed`
notes it.

| Action | Code |
|---|---|
| OpenSection, ReadEntry | `ObjcClassInfoCollection::Parse`, with one entry of `ParseObjcClassListSection` or `ParseObjcClassRefsSection` at a time |
| BeginFix, PickClass, EndFix | the range-for of `FixSuperClassForClassList` over `List` |
| FixBoundSuper, FixNamelessSuper | `SetSuperWithBindAction` |
| FixRoot, FixKnownSuper, FixNewSuper | `FixSuperForClassInfo`: no super class, one in the map, one that is read and inserted now |
| Adjust, Adopt | `AdjustExternalAndRootClassList` |
| ReadCategory, ReadBoundCategory, ReadBareCategory | `ObjcClassCategoryCollection::CollectFrom`, one entry each |

A loop over siblings that does not return is a state of its own, `"hung"`. `Terminates`
says that the parsing ends and does not get there, with the one exception that
two super classes are bound to different classes (`ShareAnAddress`): both are put at the
address 0, and the class there may be adopted by itself.

### Ranges, Segments

`Segments` goes from the load commands to the bytes at an address:
`VerifyLoadCommands`, the iterator over them, `ParseFromLoadCommands` with the
checks for overlaps that follow it, and the two lookups. Each turn of a loop is
a step. The bytes of the file are the environment: the size of a command is
whatever is read, at the verification, and the fields of a segment are whatever
is read at the parse. The sizes are in units of four bytes, which keeps the
alignments of 32- and 64-bit images apart.

| Action | Code |
|---|---|
| OpenStorage, VerifyCommand | `ConstLoadCommandStorage::Open`, `VerifyLoadCommands` |
| ParseCommand, ParseEnd | the loop of `ParseFromLoadCommands`, with the parse of one segment and its sections |
| CheckSegment, CheckSection, NextSegment, CheckEnd | the loops over pairs of segments and of sections |

### Leb128

`ReadLeb128Base`, a step per byte, for signed and unsigned numbers. `left` is
how many bytes the list has; the bytes after it are as free as those in it.

### MemoryObjects, Main

`MemoryObjects` has `MemoryObject::Open` and what it calls as operators on a
file: a file has a size and, at some offsets, a header. An operator gives the
object or the error. `Main` is `main`, from the first argument to its exit: each
way the program can end is an outcome, a failed assertion or a null pointer
dereferenced included.

| Action | Code |
|---|---|
| NoOperation, ChooseOperation | the chain of comparisons of the first argument |
| ReadFlag, ReadSectionOperand, RefuseOption, ReadRequirement, EndOptions | `ParseOptions` of the operations, and the check of what was given together |
| OpenFile | opening and mapping the path, any of whose errors may happen |
| OpenObjectOfFile | `MemoryObject::Open`, and what its errors end in |
| ChooseArch, ChooseImageByNumber, ChooseImageByPath, RefusePathOption | one turn of the loop over the options after the path |
| Run | `Ops->Run` and the exit status |

The operations are told apart as far as their options and the kinds of object
they take. There are six classes of them, and the runs take one of each.

### Listings and its parts

`Listings` puts together the modules of ten operations, each of which has its
actions and its part of the three properties and extends `ListingState` and the
module with its operators (in parentheses above). An operation goes from what
it reads of an image to the list it prints: the symbols of a section of
pointers, the strings of a section, the libraries of an image, the images of a
cache, the load commands, the binds, the symbols that are bound, the rebases,
the exports, and the header of a cache. An image has what the load commands say
of it apart from what the file holds there, so that a table may be shorter than
it is said to be.

| Action | Code |
|---|---|
| FindSection, ReadCommand, CommandsEnd | `PrintSymbolPtrList`: the section by name, one turn of the loop that looks for the two tables, what stops the operation after it |
| ReadPointer | one turn of `ParseIndirectSymbolIndexTable` with `ParseSymbol` |
| ListSymbols | the sort and `PrintSymbolList`, with the library and section shown of each symbol |
| OpenSection, ReadString, ListStrings | `OpenSectionInfoWithName`, one turn of `GetCStringList`, the end of `PrintCStringList` |
| ListLibraries | `PrintSharedLibrariesOperation::Run` |
| ListImages | `PrintImageListOperation::Run` |
| ListCommand, CommandsListed | a turn of `IterateLoadCommands`, and its end |
| ReadDyldInfo, DyldInfoRead | one turn of the loop that looks for the DyldInfo command (`GetDyldInfoCommand` for `--list-bind-actions`), and what stops the operation after it |
| ListActions, ActionsListed | for one list: the check of its place, GetAsList or GetListOfSymbols, the sort and the printing of it; the end |
| FindTrie, ReadExport, ListExports | `FindExportTrieList` and what stops before it; a turn of the loop of `PrintExportTrie`; its count, or sort and list |
| PrintHeaderInfo, PrintAccelerator | one of `PrintDscHeaderV0Info` to `PrintDscHeaderV8Info`; what `PrintHeaderOperation::Run` does after them |

`Sorted` gives every order that `std::sort` may make with a comparator of several
kinds, so equal elements may come in any order. An index of a table has two
digits of base `Digit` for its four bytes, which is enough to see that they are
not put in order. The string of a load command has its size and offset in bytes,
since the last byte is what the code gets wrong.

`LoadCommandLines` has what the printers of load commands (`MachOLoadCommandPrinter.h`) show of a
command. Kinds with the same printer share a name. A line has the begin and the
end it shows of each range, whether "(Past EOF!)" follows, the string, what else
is said of the command, and whether the line is ended. It also says which
commands end the program in the middle of the list. `Word` and `Long` stand for
2^32 and 2^64, `WidestSize` for the first size of nine digits.

`DyldLists` has where a DyldInfo command places its lists, which of them the
options ask for, and what is shown of an action: the segment and the section its
address is in, and its library. The actions are given: that they are those of the
opcodes is the matter of BindActions and RebaseActions. The default of
`--list-bind-actions` is taken back only if a byte of which three bits were written is 7
(`PrintBindActionList.cpp:500`); what the others hold is a choice of the model, as a
build with optimization has them 0 and one without does not.

`ExportListing` is `--list-export-trie` without `--tree`: what the iterator of
ExportTrieIterator comes to is given, and the flags of each export. It has the kind
of an export, the segment and section its address is in, the requirements, and
what a line shows; a re-export without an import name keeps the last one read.

`HeaderListing` has the ranges of the header of a cache: what version has which,
in what order they are collected, which meet which, and what a line says of one.
Most are given directly, and the mappings, image texts and slides by lists. The
sizes of the headers and of the entries are constants. Packed numbers, identifiers
and the names of platforms are left out, and so is the header of a Mach-O file.

Each part says what the right list, end and line are, from the image alone. Where
the code departs from that (all cases are in section 3), the part names the case
and where it comes from, and allows both answers: the code's is never asked
for, and a corrected code would satisfy the property too. So these cases are not
watched, and a departure in any other case violates it.

## 3. What TLC checks

One thread runs each operation until it returns. So `WF` on the program's steps
is justified, and no stronger fairness is used: the code has no scheduler,
no retries and no waiting. `BindCollection`, `Segments`, `Leb128`, `Main` and `Listings` have
no liveness property: their loops are bounded by a count they read, and their
invariants are about each step. `Done`, `Stopped`, `Finished` and the like are
the stuttering steps of a finished operation; deadlock is checked in every run
but `main` and `listings`, where the program exits, so a step whose loop would not return is
reported too.

| Run | Instance | What holds |
|---|---|---|
| `export_trie_tree` | tries of up to 6 nodes filtered and counted, of up to 4 sorted, every option | The tree has the shape of the trie; links agree; no node is lost and none deleted is used; no export that fails the requirements is left, unless a kind alone is required, and no export that meets them is lost, unless all that the trie has below it is lost too; no branch is left empty; sort orders by its comparator; every step is one of the ordered tree; the operation returns |
| `export_trie_iterator` | files of 3 nodes, up to 2 edges each, any graph, any one fault, depth limit 4 | Entries are paths in preorder; the stack, the string and the ranges agree; no export is entered twice; an end without error is complete; refusals have a reason; the walk ends |
| `rebase_actions` | streams of up to 4 opcodes, 8-bit addresses | The list has the addresses the opcodes rebase, in order; only the last one of a run of two or more may be missing, and nothing is said past a run of one without a new segment; the opcode listing shows the same addresses; a rebase needs a segment and a kind; fatal errors stop but for the two places that lose them; the list ends |
| `bind_actions` | the three kinds of list, several beginnings as a linker writes, one without a dylib, or none, 2 more opcodes, 8-bit addresses, three segments side by side with gaps between their sections | The list has the addresses the opcodes bind, with the exceptions of the rebases and where `DO_BIND` of a lazy or weak list was refused; every action has the symbol, dylib, addend, segment and kind set last, whatever opcode it comes from; it is marked as the first of its name, and listed with the symbols, if it is; `DO_BIND` is refused for what was not set only; threaded binds list pointers in a section of the image, one next to the other; the opcode listing agrees; fatal errors stop but for the two places that lose them; the list ends |
| `bind_collection` | any of the three lists, two segments, one of which ends past the last address, the whole memory or 240..252 | The map has nothing but binds of the lists in the range, at their address, and lacks at most the last ones of runs; a bind without a name follows one with it; no false clash |
| `objc_classes` | 3 classes, any super classes, any of them unreadable; references and bound super classes; sections and category lists of up to 3 entries; images that fail | Each class is under the class the image names; the tree is sound, and complete if nothing was rehashed; categories are with their class; the parsing and the walk end, unless different bound super classes share the address 0 |
| `leb128` | digits of 3 bits, integers of 7, lists of up to 4 bytes | The number is right, refusals have a reason, the list is not left if it has more than one byte |
| `segments` | storages of up to 17 units, 2 commands, segments at five places and sections at seven | The walk follows what was verified; the verdict on overlaps is right; data lies in its section and, unless the section is at offset 0, in its segment; the two lookups agree on sections aligned with their segment |
| `main` | each list of up to 3 arguments of 12, each list of up to 4 options of the export trie, each operation class with up to two choices; about 400 files | What was opened is sound; what is run on is what was asked for last; each end has its reason, and an assertion fails for one of six causes only |
| `listings` | every table of 2 or 3 indirect indices below 7 in base 3, up to 2 segments of up to 2 sections, up to 3 load commands before the pointers are read; every file of 4 to 6 bytes of 4 values with a section of strings anywhere in it or past it; up to 3 libraries or images, up to 2 sort options; each kind of load command with every one of 35 ranges, segments of up to 4 sections, strings of every size of command, and up to 4 commands in a row; up to two DyldInfo commands, each with lists at three to five places, up to 3 actions, 2 segments of up to 2 sections, every list of up to two `--only` options, up to 2 sort options; caches of each version, with up to 3 mappings, each of five ranges with each other one at ten places, and the accelerator info behind each mapping; exports of every kind and flag in two segments, with up to two requirements | Each list is that of the section, the image or the cache, in the order asked for; each end has its cause; libraries and sections are shown under their own names, load commands with their own ranges and strings, and marked where these leave the file; binds and rebases at their own address, section and library; each range of a cache's header is told of with those it meets; exports with their own segment and section, or library; but for the cases named below |

Why the bounds are enough. Six tree nodes give each shape RemoveNode tells
apart: removed first, middle, last and only child, with and without children,
and chains of two emptied parents below one that stays. Four nodes give a root
with three children, or one level below it with two, so Sort swaps neighbours,
ends and non-neighbours. Three nodes with two edges each give loops to itself,
to the root, to a sibling, and nodes with two parents; the depth limit 4 is
above the longest path without a repetition, so a walk that reaches it has
gone round a cycle. The program's limit is 128. `MCExportTrieIterator` explores one file of each set of files that
differ only by the names of the nodes.

Four rebase opcodes are two to set up a
kind and a segment and two more that interact. A bind needs four opcodes to set
up, which the beginnings give, and again two that interact. The offsets are near both ends of
the range of the addresses, so that sums fit, fail as unsigned and fail as
signed. Of the three segments, a threaded apply can go from the first into the
second, stops at the end of a section in the second, whose other section is smaller than
a pointer, and reaches the third when the address wraps round.

Three classes are a chain, a fork and cycles of one, two and three. Three entries
of a section are one class twice with another between. A LEB128 number of 7 bits
has three digits of which the last has one bit too many, as the tenth byte of a
number of 64 bits has. Two load commands with five and seven places are every way
two ranges can meet: apart, adjacent, overlapping, nested, empty, in the file or
in memory only. An indirect table of three indices
has one before and one after the section's own, and three commands hold a table
twice or twice differently. A file of six bytes has three strings, an empty one
among them, and one that ends with the section or past it. In the list of load
commands `Word` is 256, `Long` 8192, `WidestSize` 100 and the file has 200 bytes, so that
ranges are empty, end before, at and after the end of the file, at and after what
32 and 64 bits hold; up to four sections need more than 256 bytes, which is where the
check of their number wraps. The headers of a cache have the sizes 4 to 12, entries 2, 3
and 4, and a list of mappings is printed up to 2.
The numbers of `MCMain` are the sizes of headers and tables in
units, each with a file one below, at, and one above what fits.

The constants of `Init` are reached as they are: of `main`, each of the
outcomes and each cause of a failed assertion is met.

What the runs do not reach: wrap-around of 64-bit addresses by a real file
(`TopBit` is a parameter, but TLC sees 8 bits), tries and lists larger than
these. The lists of rebases and of binds are only said to end while the address
is one a signed integer holds: above that, a run of
`DO_*_ADD_ADDR_ULEB` refuses the same address again (`RebaseInfo.h:763`, `BindInfo.h:1166`).

### Disagreements between the code and what the repository says of it

| Run | What the repository says | What the code does |
|---|---|---|
| `leb128_signed` | "Set Addend (Sleb128)" (`BindInfo.h:95`) | The sign-extended value is discarded (`Leb128.h:116`): -1 is read as 127 |
| `segments_overlap` | "Provided File has Overlapping Segments" (`Operations/Common.cpp:105`) | An empty file range counts as overlapping the one its begin is in (`Range.h:206`) |

Met while modelling and kept in the models, but not stated as runs. Where such a
case concerns a property, the property names it as an exception: it asks for what
the repository says and also allows what the code does there.

- Export trie: an ancestor that is itself an export asked for is deleted with its
  last child (`Tree.cpp:306`; `README.md:50` says that such exports are printed); with `--tree`, `--require-kind`
  alone filters nothing (`PrintExportTrie.cpp:185`, `README.md:49`); the
  comparator orders descending and two levels only are sorted
  (`PrintExportTrie.cpp:243`, `README.md:52`); the depth limit refuses also a trie
  that has a leaf at exactly that depth.
- Rebases and binds: a run of n >= 2 gives n - 1 actions (`RebaseInfo.h:667`,
  `BindInfo.h:1018`), and a run of one does not move the address
  (`RebaseInfo.h:659`, `BindInfo.h:1021`), though they are named
  "Do Rebase Uleb128 Times (Immediate) " (`RebaseInfo.h:82`); an ignorable error makes
  the iterator swallow the next opcode's error; a count of zero wraps round; a
  refused address leaves `SegAddAddress` grown; the constructors drop the error of
  the first opcode or node; the listing of a scaled add adds an older operand
  (`PrintRebaseOpcodeList.cpp:90`).
- Binds: a weak list has always the error NoDylibOrdinal, and a lazy one
  NoWriteKind, so their `DO_BIND` does not move the address either; a kind that is not
  known is stored before it is refused (`BindInfo.h:558`); a scaled bind is listed twice as an
  opcode; threaded binds list each pointer one too late (`BindInfo.h:995`), and go on
  into whatever segment lies behind their own; the assertion of
  `SegmentInfoCollection::at` is inverted (`SegmentUtil.h:197`); setting the table's size ends in
  UnrecognizedBindSubOpcode; special ordinals are stored as positive numbers.
- Objective-C: the address of each collected bind is 0 (`BindUtil.h:139`), so all bound
  super classes go under one key, and a null root that takes it adopts itself;
  the collection filtered by a range has no bound super classes; the second bind
  of a name has a null symbol, which is dereferenced; a class on a cycle is in no
  tree; bound categories never get their class.
- Segments: the memory range of a section is read from its file range
  (`SegmentUtil.cpp:185`); sections at file offset 0 are compared against but not checked;
  the data of a zero-fill section is the header of the file; the size of a command is
  read before its header is known to fit (`LoadCommandStorage.cpp:32`).
- Listings: the indices of the indirect table of a big-endian file are not put in
  the host's order, and only the loop for 64 bits knows the indices that stand
  for no symbol (`SymbolTableUtil.cpp:280`, 321); `OrdinalToIndex` returns a bool
  (`MiscTemplates.h:23`), so a symbol of the third section is shown in the
  second; a section ordinal that counts past them all is dereferenced
  (`PrintSymbolPtrSection.cpp:82`); the string of a load command without its zero
  loses its last byte (`LoadCommands.cpp:789`); the names of `--list-c-string-section` are
  compared as prefixes (`LoadCommands.h:313`), those of `--list-symbol-ptr-section` as
  wholes; a string is printed to its zero, which may be past the section.
- Load commands: a symbol table is always marked "(Past EOF!)", since the end that is
  compared stays 0, and its end is counted from the strings (`MachOLoadCommandPrinter.h:440`, 481); an empty
  range at 0, as that of `__PAGEZERO`, and every empty list of function starts are
  marked too (`Range.h:106`); `DoesAddOverflow` ignores the type it is given
  (`DoesOverflow.h:22`), so ends of 32 bits lose their top bit and never overflow;
  the hints of a 32-bit file do not either (`MachOLoadCommandPrinter.h:1128`); a section of 10^8 bytes with
  `-v`, or one of 32 bits that overflows, fails the assertion of the padding
  (`PrintUtils.h:131`), and so does every prebound library that of its range
  (`LoadCommands.cpp:936`); what follows an unrecognized command has its number; symbol
  segments, sub-umbrellas, linker options and too many tools do not end their line.
- Lists of binds and rebases: whether `--only-lazy` lists the others too depends on
  bits that were never written (`PrintBindActionList.cpp:500`; `README.md:69` says it prints
  them only), and with `--list-bind-symbols` only the last of such options counts;
  special ordinals of opcodes are shown as out of bounds, and other negative ones
  fail an assertion (`Operations/Common.cpp:160`); symbols and rebases end with status 0 on an
  empty command before a later one that differs is seen; `--sort` of rebases does
  not look at the segment; an empty list at the end of the file is said to go past
  it; addresses of 32-bit images lose what exceeds 32 bits.
- Header of a cache: overlaps are told of only if `--verbose` is not given
  (`PrintHeader.cpp:558`); each cache older than version 8 fails an assertion after
  its mappings (`DscMemory.h:246`); the end of the image texts is size times
  offset plus count (`Headers.h:551`); `DylibsImageArray` tells of the overlaps of
  `DylibsImageGroup` (`PrintHeader.cpp:1295`) and `RosettaReadWrite` of those of
  `RosettaReadOnly` (537); that dylibs are expected on disk is told by the size of
  a group of images (1250); a list with slides and the accelerator info are read
  without a test whether they lie in the file (`Headers.h:412`, 739).
- LEB128: the test for the end compares the begin (`Leb128.h:99`).
- Main: the path is used without a test whether there is one; a file of no known
  format fails an assertion (`main.cpp:327`); `--require-kind` takes what follows its
  value as the path (`PrintExportTrie.cpp:736`); the archs of a fat file are
  compared with its size by their size only (`FatMachOMemory.cpp:56`); the end of the image list
  of a cache is computed as (32 + count) * offset (`DscMemory.cpp:98`); an image path
  that is not there ends with exit status 0.

## 4. What is proved

Proofs hold for every value of the constants that satisfies the assumptions of
the module. `ExportTrieTree` assumes at least one node, a null pointer that is
no node, and known options (`MaxNodesAssumption`, `OptionsAssumption`).
`RebaseOpcodes` assumes that a pointer is smaller than the top bit of an
address and that operands fit their type (`WidthAssumption`,
`OperandsAssumption`); neither the length of the stream nor the width of the
integers is bounded.
`Segments` assumes that a header is not larger than a segment command, that
alignments are positive, that ranges and what is asked of the lookups are of
naturals, and that a section has one size for its bytes in the file and in
memory, as the field of its header has (`SizesAssumption`, `PlacesAssumption`);
nothing is assumed of how many segments and sections there are. `Leb128` assumes
that its largest number has a last digit that holds fewer values than a digit
and more than one, and that the weight of the last digit is a power of the base
(`Leb128Assumption`), as the tenth byte of 64 bits and 2^63 do. `BindOpcodes`,
`BindIterator` and `BindActions` assume that integers are whole bytes and hold a
pointer's size, that operands fit the type they are read as, that segments are
numbered by naturals and begins and sizes of them and of their sections fit, and that the lists
are known ones (`BindWidthAssumption`, `BindOperandsAssumption`, `ImageAssumption`,
`ListsAssumption`); nothing is assumed of how segments and sections lie, whether they
overlap or whether a section is in its segment. `BindCollection` assumes that the null
pointer is no name (`NoSymbolAssumption`). `MemoryObjects` and `Main` assume that 32 bits count something,
that a command line is a sequence of strings, that the path of a file, a pair, the
path of an image and a number are none of the options, and that a file is not
empty and has naturals in the fields of its headers (`UInt32Assumption`,
`ArgumentsAssumption`, `FilesAssumption`); nothing is assumed of how long a command
line is, what it holds otherwise, or how many archs, mappings and images there are.
`ObjcClasses` assumes that the addresses are those of finitely many classes, of the
entries of the section, each its own, and 0, that these three differ, and that the null pointer is none
of them (`AddressesAssumption`); and that an image has entries, super classes and
categories of the kinds the model names, and not more entries than the section has
places (`FilesAssumption`). How many classes there are, which of them are super
classes of which, in circles too, and which can be read is free.

The provers cannot instantiate the induction theorems of the library, which take
an operator. `Induction` states what is needed of them as facts about sets: a
set of naturals that is not empty has a least number and, if it is bounded, a
greatest; a set with 0 and with the successor of each of its numbers has all; and
a function can be defined by recursion up to a number; so a step can be taken n
times. They rest on the theorem
that inclusion of finite sets is well-founded. So a property of a recursive
function is proved by taking the set of the numbers that have it.

**`ParsedTreeMatchesTrie`** (`ExportTrieTree_proofs`): `Spec => []TreeMatchesTrie`,
`ParseFromTrie` gives each node the parent it has in the trie. The property is
not inductive: it says nothing of `Parent`, `PrevDepthLevel` and the climb that
is under way, nor of `LastChild`, through which a child is added. `BuildInv` adds
them:

- `BuildTypes`: types, `Parent` is a node that was made.
- `Fresh`: a node not yet made has no pointers, and `LastChild` of a node with
  children is *some* child of it. It need not be the last one, and in the code
  it is not (see OrderedTree above); that it is a child is enough for the
  parent to come out right.
- `Climb`: every node made after `Parent` is deeper than it, and the depth of
  `Parent` differs from that of the entry read last by the steps still to climb.

`LoneRange` and `AddNewChild` say what `AddChildrenRaw` does to the pointers when it
adds a node without siblings. There is one lemma per action of the build;
`LeavesBuild` says that no later action returns to it.

**`HeapStaysSound`**, **`ResultStaysComplete`**, **`SortIsByComparator`**
(`ExportTrieTree_proofs`): the safety invariants of the whole operation, from the
parse to the end of the sort, for tries of any size. None is inductive: what
`RemoveNode` leaves of the pointers depends on all that was added before, and where
the iterator goes on depends on how the whole tree is ordered, not on one link.
The inductive invariant `IInv` therefore describes the heap as a function of
the nodes that are left and of an order `pos` of them:

- `IsTree(h, a, pos)`: the parent of a node is the last one before it, of those
  left, that the trie has above it (`Below`); the sibling lists hold the nodes
  with the same parent in the order of `pos`; a node that is gone has no pointers.
- `Preorder`: in `pos` a node is followed by all that is below it, so the iterator
  goes through the tree in that order.
- `Lasts`: `LastChild` is `FirstChild`. It is so for every node when the parse ends
  (see OrderedTree above), and stays so for those the filter has not passed.
  This decides where `IsolateNode` puts the siblings of a first child that
  it removes: behind its children.
- `Parsing`, `Filtering`, `RemovingParents`, `Counting`, `Printing`: what is known in
  each part of the operation. While the filter runs, the nodes before the iterator
  meet the requirements and those from it on have their `LastChild` (`Passed`). While
  parents are removed, the tree is the one without the node that still waits to be
  deleted, and the one leaf that is no export is the next to go (`Branch`). While a
  node's children are sorted, those before IChild are in order and those before
  JChild go before IChild (`SortingKids`).

That no export that was asked for is lost speaks of the nodes that are gone, of which the
heap says nothing any more. `LossInv` keeps it: of an export that meets the
requirements and is out of the tree, all that the trie has below it is out of the tree too
(`LostBelow`, in terms of the depths alone), since only a parent without children is
removed with a branch and its children were all it had.

`RangeOfSiblings`, `ChildListIsKids` and `SubtreeIsAll` say what the loops over such a
tree visit; `NextNodeIsNext`, that the iterator's next node is the next in `pos`,
by an induction over the climb. `SplicedTree` and `WrappedTree` are the two ways a
removal can change the order: the children take the place of the node, or its
siblings move behind them, for which `WrappedOrder` gives the new order and
`Resumes` says that the iterator still finds all that it has not seen. `AddedTree` and
`SwappedTree` are the same for a node that is added and for two that are
exchanged. `WalkCounts` counts the turns of an iterator that visits every node
once. `IInv` was first checked with TLC as an invariant of small instances. Then there
is one lemma per action.

**`PointersImplementTree`** (`ExportTrieTree_proofs`): `Spec => ImplementsOrderedTree`, the
refinement of OrderedTree for tries of any size. `IInv` says that the heap is a tree
whose siblings are in the order of some `pos`; the proof turns that into what
OrderedTree sees. `ListsAreKids` and `WalkOrder`: a walk over the pointers finds the
nodes with that parent, in the order of their places. `PlacesAreOrder` and `PairsKept`:
that is an order of the siblings, and it is kept by a step that keeps the places of
two nodes that are siblings before and after it (`SiblingsKept`). `StepAdds`,
`StepTakesOut` and `StepSwaps` say when a step from one tree to another is one of
OrderedTree; the lemmas on the trees that `IInv` rests on (`AddedTree`, `RemovedTree`,
`LeafCleared`, `SwappedTree`) give what they need, the order of siblings included. The
step that isolates a node without deleting it is the removal, and the deletion
itself changes nothing: for that `NoVictim` is proved, that no node waits to be
deleted when no call is under way. All other steps are stutters (`OtherSteps`).

**`TypeCorrect`**, **`ListedRebasesAreReady`**, **`FatalErrorsEndTheList`**
(`Rebase_proofs`): the type invariant and two of the safety invariants of the
rebase list. Each has its own inductive invariant, and the later ones use the
earlier:

- `TypeInv` adds to `TypeOK` the types of every field and that there is a
  current opcode until the end. `UnsignedFits`, `SignedFits` and
  `AddChangeType` are the facts about the arithmetic.
- `ReadyInv` ties what the iterator knows (`hasSegment`, `kind`) to the opcodes
  it has read, and says that an action about to be listed, and a run that may
  still yield one, has its segment and kind. The clause that outside the loop
  over opcodes there is no error is what keeps `ListIgnoredError` from reading
  an opcode in the middle of a run.
- `StopInv` says at every moment why the iterator may go past the current
  opcode: it could be read, or its error was lost in one of two places, or the
  error is still in `info` to be reported, or the opcode is unrecognized, which
  the loop over the opcodes notices itself.

`ReadOpcodeFields`, `NextOpcodeKnows`, `NextOpcodeStops`, `YieldReady` and
`YieldStops` are the lemmas for the two ways an action ends: going to the next
opcode, or returning an action or an error. Then there is one lemma per action.

**`AddressesAreFollowed`** (`Rebase_proofs`): the address of the iterator,
the list of actions and the listing of opcodes against what the opcodes mean, for
streams of any length, runs of one included. The property speaks of the address between
two opcodes only, and leaves open which runs have lost their last rebase; the
proof gives all long runs as the witness (`LocationsOf`). `AddressInv` says where the iterator
is within an opcode:

- `Between`: between two opcodes the address is the cursor, unless it is astray, and the
  list has what the opcodes before rebase. An iterator that went astray comes back
  where a segment is set, and lists what is due in between (`AstrayGoesOn`).

- `InRun(r)`: after r steps of a run the address is r steps past the cursor,
  `AddAmt` is the step, and `Count` is what is left of it; so the last call,
  which adds the amount twice, ends at the cursor after the run.
- `InAdd`: the address is still the cursor, and `SegAddAddress` is exactly what
  the opcode adds to it.
- `HasListed(m, r)`: the list has the locations of the first m opcodes and r of
  those of the next.
- `Operands`: `info` has the operands of the current opcode. It need not, where an
  operand was rejected; of that the only case without an error is the first
  opcode of a stream, which then finds the operands that an iterator starts with.

`RunBounds` is the arithmetic of a run: as its end is within the segment, so is
every address it passes, so neither sums nor products wrap. A stream that is
regular after a step has been so before (`RegularBefore`), and steps that
report an error need no more than that it makes the stream irregular. The
listing is a function of the stream; `ListOpcodeFollows` compares one opcode of
it with one of the reference, and `ListingFollows` is an induction along the
stream. Both cases of the listing's overflow check for a run with a skip are there: one
that is not taken adds nothing.

**`TypeCorrect`**, **`ExportsAreNotReentered`** (`ExportTrieIterator_proofs`):
for every set of nodes, every graph on them, every fault and every depth
limit of at least 2, the stack stays within the limit, no ordinal passes the
children of its node, and the walk is never inside an export it is already
inside of. `TypeOK` and `NoExportTwice` are not inductive; `IterInv` is:

- `InStep` says how far each node of the stack is. The edges read of a parent
  equal its ordinal; the innermost node is one ahead, has not begun, or is the
  entry just given to the caller. It is what makes every edge read exist.
- `PathOnRecord` says where the range of each node of the stack is in
  `RangeList`: the root at the first place, every other node at the size noted
  in its frame, in increasing order. So cutting the list back in
  `MoveUptoParentNode` keeps the ranges of all the ancestors.
- `NoExportRecordedTwice` says that `RangeList` holds no export twice, which is
  what the check for overlaps keeps. Two frames with one node have two places in
  the list, so that node is no export.
- Between two calls, `NextStack` is the child at the end of `RangeList`.

`MoveUp`, `Enter` and `Failing` are the lemmas for leaving a node, entering one
and stopping with an error; there is one lemma per action.

**`WalkIsFollowed`**, **`EndIsComplete`**, **`RefusalsJustified`** (`ExportTrieIterator_proofs`):
the walk against the paths of the trie, for every file. `NodeAt` is a recursive
function and `StringAt` a fold; what they give for a path with one more ordinal
is proved first. Every step is then of one of seven shapes (`Leaves`,
`Enters`, `Begins`, `Reads`, `Lists`, `Fails`, `Opens`), which say what it does to the path and
forget the rest; `StepShape` is the lemma, and the invariants are proved by shape:

- `StackInv` adds to `StackIsPath` that the path begins at the root, and that
  `NextStack` is the first child of an entry that is no export. By
  `StackFollowsTrie` the ordinals of the stack are then a path of the trie, to
  the node and with the string the walk has.
- `RangesOpen` says of which node of the path each place of `RangeList` is a
  child, and how far back it must be cut when a child is left; `RangesAreOpen`
  alone says only which nodes the list has, and a list in another order would be
  cut at the wrong place. `OpenRangesAreAll` draws the conclusion.
- `KindInv`: an export's kind is gone before the next entry, so an entry that
  is no export is not taken for one.
- `RefusalsInv`: what each error says, shown where it is raised. Two places of
  `RangeList` with one export are two paths, found by `RangesOpen`.
- `DoneInv` compares the entries with `Passed`, the paths before the place the
  loop is at (`UpTo`): those of them that are not barren are the entries, none
  of them has a fault, and neither has what the stack has begun. Which paths
  lie between two places is a fact about the order `Before` alone
  (`OrderAtPaths`, `OrderAtSiblings`): after a node come the paths through its first child,
  after a child's whole subtree those of the next, and after the last child no
  path through the node is left. So at the end all paths have been passed.

That the entries are in preorder is inductive with these: whatever was listed is
among the paths passed, and those are before the one that is listed next.

The nodes of a trie are taken not to overlap unless they are the same node, as
in the model. `TrieAssumption` says besides that the limit is at least 2, that the
root is a node and that `Null`, which `NodeAt` gives past a missing child, is none.

**`ChecksAreRight`** (`Segments_proofs`): for every storage and all ranges, a
collection that `ParseFromLoadCommands` accepts is disjoint in file and memory
as far as the code compares it, and one that its checks refuse has two
segments or sections with something in common (or an empty one that begins
inside another), or a section that leaves its segment. The loops
compare each segment with those before it, so the invariant `CheckInv` says how
far they have come:

- `TypeInv`: the segments parsed, and the place of the loops, are what the loops
  need to be defined.
- `UpToHere`: all segments before the current one, and all sections before the
  current one in it, have been compared with everything before them.
- `ErrorsInv`: an error that was set has its reason in the segments at the place
  where it was set.

`OverlapsIsClash` and `NotContainedLeaves` say what the code's tests of ranges mean,
empty ranges included; `CheckedIsDisjoint` and `CheckedHasReasons` draw the two
conclusions once the loops have ended.

**`FoundDataIsInItsSegment`**, **`LookupsFindTheSame`** follow from `CheckInv` as
well: an accepted collection has passed every comparison, so no two segments hold
an address (`OneSegmentHolds`), both lookups stop at the same one, and the
section found is in it. They are stated for every address and size, since the
queries are a constant. The first says that the data is in its section's part of the
file, for all sections, and in the segment's for those that are not at offset 0,
which the checks pass over. The second is about sections that lie as far into their
segment's part of the file as into its memory, as the code takes for granted: of
others the two lookups give different data, and nothing is said.

**`WalkFollowsVerification`**: the verification adds up the sizes it reads, the
walk adds them up again, and the two agree. `PlaceInv` says so by a function from
the number of commands passed to the offset there, which exists at every
moment; `StorageInv` has what else the type invariant needs.

**`ReadsInsideTheList`** (`Rebase_proofs`): no byte after the list is read, if the
list has more than one. `ReadingInv` adds that a call that still reads has not
read the whole list, which the test after each byte keeps from the second one
on.

**`ReadsItsNumber`**: an accepted number is the number its bytes stand for, and a
refused one does not fit or is cut off. While a call reads, `value` and `weight`
are exactly those of the bytes so far, `value < weight`, and `weight` is one of the
powers of the base up to that of the last digit (`ValueInv`). `NumberOf` is a
recursive function; that one more byte adds its digit at the weight reached is
an induction along the list.

**`BindsStayInBounds`**, **`ActionsKeepTheirParts`**, **`FatalErrorsAreKept`**
(`Bind_proofs`): what the list of binds consists of and when it ends.
All rest on `TypeInv` and `CurrentInv`: there is a current opcode while the
iterator goes on, it is the one `LastByte` resumes, its error is in `info` or was
lost, and what THREADED needs of it was read. On top of them

- `ThreadedInv` says where the address is when the list ends in an action of the
  opcode that is still current: at that action, or one pointer further. So
  the pointers that a threaded apply lists are one after the other. `DataIsInASection`
  turns the lookup that found a pointer into the claim that a section of the image has all
  of it. `TypeOK` bounds the integers whose width the code checks or relies on; of
  ordinals and addends it says nothing.
- `CompleteInv` says that the symbol, dylib, addend and segment in `info` are those
  the opcodes read so far have set last, and the kind unless one was not known
  (`KnownFrom`), and that the symbol is in the list
  of symbols or is still new (`NameIsListed`). The property alone knows only
  what has been listed, not what the next action will be made of.
- `FatalInv` says that a fatal error of the current opcode is in `info`, or is
  about to be found, or was lost in one of the two places where `BeginAdvance`
  and `Resume` forget it.

The steps of the iterator are of six kinds, of which the invariants are proved:
an opcode is done and the next is read (`Moves`), something is yielded (`Yields`),
the end is found (`Ends`), a list is opened, an action is listed and its opcode
goes on, or an error is listed and left behind. There is one lemma per action of
`Advance` that says which kind it is.

**`BindAddressesAreFollowed`** (`Bind_proofs`): the addresses of the list of binds and of
the listing of opcodes against what the opcodes mean, with the departures named
in section 2 left open. `AddressInv` says where the iterator is in the opcode of
`LastByte`, for a stream that is regular so far (`Follows`):

- `Between`: between two opcodes the address is `CursorAt`, unless the iterator is astray,
  and the list has the binds of all opcodes before, but for the last ones of long runs
  (`LocationsOf`, the witness for what may be lost).
- `InBind`: a single bind was yielded; the address is still the cursor and
  `SegAddAddress` is exactly what the opcode adds.
- `InRun(r)`: of a run r addresses were passed; the address is r steps on and
  `Count` is what is left, so the last call, which adds the amount twice, ends
  where the run does.
- `Operands`: `info` has the operands of the current opcode.

`DoneInv` says that a list that is not lazy ends at its first `DONE`, which the listing
relies on. The argument is that of the rebases, on top of `TypeInv` and `CurrentInv`;
what differs is that an opcode lists a bind when it is yielded but moves the
address when it is left. `ListOpcodeFollows` compares one opcode of the listing with
one of the reference, with `ListBindTimesFacts` and its like for each kind, and
`ListingFollows` is an induction along the stream.

**`NamelessBindsHaveAName`**, **`CollectedActionsFit`** (`Bind_proofs`): the map that `Parse`
makes of all lists. The two callers of the iterator share its invariants: that each
of `Open`, `Advance` and `Resume` keeps `TypeInv` and `CurrentInv` is proved once
(`OpenKeepsIterator` and its like). `NamelessFollowNamed` knows only of actions that are in
the map. `NameIsCollected` says what becomes of the next one: its name is new, or is
about to be, since the opcode that sets it is the current one and could be
read, or the action put in last is of the same list and has that name. A
skipped action keeps `NewSymbol` for the next, and an error that a weak list goes
past loses the error of the opcode after it, but not its name; those are the steps
where it could fail. `CollectedInv` has the types, that the name of an action is
the one it stands for or none, and that no two actions have one address.

**`AcceptedStaysSound`**, **`RunsOnTheChosen`**, **`EndsAreJustified`** (`Main_proofs`): `main`
for all command lines and all files, from two sides. The first is about the file
alone: `ValidMachO`, `ValidFat` and `ValidCache` say what is true of a file that a
format accepts, `MachOIsValid`, `FatIsValid` and `CacheIsValid` that a proper one is
accepted, `ArchIsThere` and `ImageIsThere` what can be taken out of it.
`OpenedIsSound` draws the conclusion; it needs nothing of the command line but
that the object is the one opened.

The second side is the command line. The properties speak of the end, where the
whole line is known; the loops know what they have read. The inductive
invariant `IInv` says how the two agree:

- `OptionsInv`: where `ParseOptions` is. The argument looked at is the value of
  an option exactly if a kind was required, since the loop goes back to that value and
  counts it; a kind that was required is therefore the last thing the loop reads.
  The operands before it (`Read`) are the section to list, if any.
- `PathInv`: the index that `ParseOptions` returns is an operand that is no
  value, and all operands before it were taken by the operation.
- `ChosenInv`: the loop over the options after the path takes two arguments a
  turn, and what was chosen is what the pair just read names. No option to choose
  lies between that pair and the place of the loop, so at the end it is the last.
- `ProperInv`: the path of a proper line has not been passed, and is the one found.
- `DoneInv`: the two properties about the end, kept by every step (`EndKeeps` and its
  like) since a program that has ended takes none.

`IsValue` is a recursive function along the line; `ValueAfter` gives its equation,
by induction. There is one lemma per action.

The proof changed three things that TLC's files had not shown. An image list
that begins in the first words of a file makes `ImageListEnd` smaller than the
list, so `SoundCache` can promise no more than it says; `MCMain` has a file for
it. A count of load commands whose product wraps in 32 bits may leave a
remainder that is larger than the commands, so that a file with a sound header
is refused: `ProperFile` asks that the count fits. And with no operand at all
there is no path operand to speak of, so `CrashReason` says that there is none.

**`TreeStaysTheImages`**, **`TreeStaysSound`**, **`CategoriesStayWithTheirClass`**
(`ObjcClasses_proofs`): the class map and its tree, for images of any size. The first two
say nothing of an image that binds a super class to another image, but for the types
(`NothingBound` is the premise of the properties themselves); the third has no such
premise. `TypeInv` has the types of every part, `CatInv` that the categories read so
far are each in one list. None of the properties of the tree is inductive: they
speak of the end, and while `FixSuperClassForClassList` runs, most classes are not in
the tree yet and new ones appear in the map. `TreeInv` says for each moment:

- `Forest`: the sibling pointers. The children of a node are the nodes whose
  parent it is, in one list that starts at the first and reaches all of them; no
  two nodes have the same next one and following them never comes back.
- `LooseInv`, `RootsInv`: what has no parent yet. A class whose super class is still
  to be looked for, the one being fixed and every root are without one, so
  `AddChild` never takes a node that is in a list already. That is what keeps
  `AddSiblingsRaw` from making a circle, its assertions from failing, and a class
  from being in two lists.
- `ParentsInv`, `PlacedInv`: a parent is the super class the image names or the root over the
  roots, and a class whose super class was looked for is there, or is a root.
- `NullInv`, `FixingInv`, `EntriesInv`: where a class may come from that cannot be read,
  which class is being fixed, and which entries of the section are in the map.
- `WaitingInv`: the map grows while it is walked. Unless it was rehashed, every class
  that still waits for its super class is left to the walk, or is the one being fixed.
- `StartInv`: what is empty at the start of each part and at its end.

There is one lemma per action. From the invariant at the end three things follow
that it does not say itself:

- A class has a chain of super classes up to one without. `AncestorsAre` takes the
  set that the property computes, which exists with circular super classes too, as
  the least one closed under them; `TreeFromInv` goes up from a class whose set is the
  smallest of those not in the tree, and finds a smaller one.
- The climb from a node to the next sibling of an ancestor is a function of the node, also
  if parents went in a circle (`ClimbExists`), and at a node that has a path down from
  the root it ends (`IsPath`, `WalkGoesOn`).
- The printer's walk visits each node once (`WalkVisits`), so it is at its end after as
  many steps as there are addresses (`WalkEnds`).

Only model-checked:

- liveness (`Terminates`), which is out of the reach of the prover;
- of BindCollection, that the map has what the lists bind and nothing else, and is refused for
  no other reason than a clash (`HasItsBinds`, `NoFalseClash`); and Listings, which has
  no invariant strong enough yet (see the plan).

## 5. Plan

Done, in the order of their importance: the export-trie tree and its iterator,
the rebase opcodes, the bind opcodes and the collection of binds, the class
tree, the number format, load commands and segments, the objects of a file and
the command line, ten listings, and the tree as a refinement.

Left:

1. Proofs about the modules that have none: that ListIsTheSection holds for tables
   of any size; and that the map has a list's binds and nothing else.
2. The operation that lists classes, from the tree above to the order in which
   they are printed; `OpenSegmentInfoWithName`.

## 6. What is not modelled, and why

Most of the repository's lines are layouts of load commands, accessors that
switch the byte order, tables of names and printers: they keep no state and
their order cannot go wrong. So the models cover a small share of the lines,
and most of those that decide something.

- Formatting and names of kinds: no state, nothing to order; of column widths only
  where one too narrow fails an assertion, in LoadCommandLines.
- Load-command field layouts and byte order: accessors. The size checks of
  segment commands are in Segments and LoadCommandLines, the strings of commands
  in SharedLibraries. The check of a command's size against its kind
  (`ValidateCmdsize`) has no caller.
- Versions, dates, identifiers and tool lists of load commands: read and printed.
- Opening and mapping files: calls of the operating system with one error
  path each; nothing writes a file (`OutputFile` has no caller).
- Byte buffers (`SwapRanges`, `ByteVector`): no operation calls them.
- Symbol tables: the parsing of a whole table, and the key by value, have no
  caller in the operations.
- Versions and timestamps of libraries: read and printed.
- The images of a cache as Mach-O files: the same parsers above another base
  address (`DscImage`); opening and choosing one is in Main.
- Vendored headers: not this project's code.
- Tree::RemoveNode of the root: the filter never removes it, since the root is
  no export.
- Products that wrap in 32 bits in the segment parser (`LoadCommands.cpp:742`): naturals in
  Segments; they wrap in LoadCommandLines.
