-------------------------------- MODULE Main --------------------------------
(***************************************************************************)
(* main.cpp: the operation and its options, the path, the file opened as   *)
(* an object, the options of the path that choose an arch or an image of   *)
(* it, and the operation run on what was chosen.  Every way the program    *)
(* can end is an outcome, the asserts and dereferences that fail included  *)
(* (how = "crashed"): what is printed on the way is not modelled.          *)
(*                                                                         *)
(* argv holds the arguments after the command name.  "--bad" is any option *)
(* nothing knows, "-v" any flag that only says what is printed, "--sort",  *)
(* "--only-count", "--tree" and "--include-categories" the flags that some *)
(* operations refuse together, under the names of the export-trie and the  *)
(* class list.                                                             *)
(***************************************************************************)
EXTENDS MemoryObjects

CONSTANTS
  CommandLines,     \* what argv can be
  File,             \* the argument that is the path of a file
  Files,            \* what the file can hold
  Pair,             \* an argument that is a segment and a section, with a comma
  Numerals,         \* the arguments that are numbers from 1 on, in order
  ImagePaths        \* the arguments that are absolute paths

VARIABLES
  pc,
  argv,
  next,         \* the argument the loop looks at
  index,        \* what ParseOptions counts: the argument taken as the path
  operation,
  flags,        \* the flags that were given
  kinds,        \* KindRequirements
  pairs,        \* SectionRequirements, or the section to list
  file,
  object,       \* what the file was opened as
  subObject,    \* what the operation is run on
  outcome

vars == <<pc, argv, next, index, operation, flags, kinds, pairs, file, object, subObject, outcome>>

OperationNames ==
  {<<"--header", "PrintHeader">>, <<"--lc", "PrintLoadCommands">>,
   <<"--libraries", "PrintSharedLibraries">>, <<"--Identity", "PrintId">>,
   <<"--list-archs", "PrintArchList">>, <<"--list-export-trie", "PrintExportTrie">>,
   <<"--list-objc-classes", "PrintObjcClassList">>,
   <<"--list-bind-actions", "PrintBindActionList">>,
   <<"--list-bind-opcodes", "PrintBindOpcodeList">>,
   <<"--list-bind-symbols", "PrintBindSymbolList">>,
   <<"--list-rebase-actions", "PrintRebaseActionList">>,
   <<"--list-rebase-opcodes", "PrintRebaseOpcodeList">>,
   <<"--list-c-string-section", "PrintCStringSection">>,
   <<"--list-symbol-ptr-section", "PrintSymbolPtrSection">>,
   <<"--list-dsc-images", "PrintImageList">>}

OperationOf ==
  [option \in {name[1] : name \in OperationNames} |->
     (CHOOSE name \in OperationNames : name[1] = option)[2]]

SectionOperations == {"PrintCStringSection", "PrintSymbolPtrSection"}

Requirements == {"--require-kind", "--require-segment", "--require-section"}

FlagsOf(op) ==
  CASE op = "PrintExportTrie" -> {"-v", "--only-count", "--sort", "--tree"}
    [] op = "PrintImageList" -> {"-v", "--only-count", "--sort"}
    [] op = "PrintObjcClassList" -> {"-v", "--tree", "--include-categories"}
    [] op = "PrintCStringSection" -> {"-v", "--sort"}
    [] OTHER -> {"-v"}

Conflict(op, given) ==
  \/ op \in {"PrintExportTrie", "PrintImageList"} /\ {"--only-count", "--sort"} \subseteq given
  \/ op = "PrintObjcClassList" /\ {"--tree", "--include-categories"} \subseteq given

IsOption(argument) ==
  \/ argument \in DOMAIN OperationOf \cup Requirements
  \/ argument \in {"-v", "--sort", "--only-count", "--tree", "--include-categories",
                   "--help", "--bad", "-arch", "-image"}

\* Options begin with a dash; the path of a file, a pair, the path of an image and
\* a number do not.
ASSUME ArgumentsAssumption ==
  /\ \A line \in CommandLines : line \in Seq(STRING)
  /\ \A argument \in {File, Pair} \cup ImagePaths \cup {Numerals[i] : i \in DOMAIN Numerals} :
       ~IsOption(argument)

ASSUME FilesAssumption == \A f \in Files : IsFile(f)

IsNumber(argument) == argument = "0" \/ \E i \in DOMAIN Numerals : argument = Numerals[i]
ParseNumber(argument) == IF argument = "0" THEN 0 ELSE CHOOSE i \in DOMAIN Numerals : argument = Numerals[i]

HasNext == next < Len(argv)
Following == argv[next + 1]

Supports(op, kind) ==
  CASE op = "PrintHeader" -> TRUE
    [] op = "PrintArchList" -> kind = "FatMachO"
    [] op = "PrintImageList" -> kind = "DyldSharedCache"
    [] op = "PrintObjcClassList" -> kind = "MachO"
    [] OTHER -> kind \in {"MachO", "DscImage"}

\* Run also takes the classes of an image, which SupportsObjectKind denies.
RunsOn(op, kind) == Supports(op, kind) \/ (op = "PrintObjcClassList" /\ kind = "DscImage")

Null == NoObject("None", "None")

End(how, why) ==
  /\ outcome' = [how |-> how, why |-> why]
  /\ pc' = "done"

Init ==
  /\ pc = "operation"
  /\ argv \in CommandLines
  /\ next = 1 /\ index = 1
  /\ operation = "None"
  /\ flags = {} /\ kinds = {} /\ pairs = <<>>
  /\ file = [size |-> 0, at |-> <<>>]
  /\ object = Null /\ subObject = Null
  /\ outcome = [how |-> "running", why |-> "None"]

(***************************************************************************)
(* The operation.                                                          *)
(***************************************************************************)

NoOperation ==
  /\ pc = "operation"
  /\ \/ argv = <<>> /\ End("helped", "NoArguments")
     \/ argv # <<>> /\ ~IsOption(argv[1]) /\ End("refused", "NotAnOption")
     \/ argv # <<>> /\ argv[1] = "--help" /\ End("helped", "Help")
     \/ /\ argv # <<>> /\ IsOption(argv[1]) /\ argv[1] # "--help"
        /\ argv[1] \notin DOMAIN OperationOf
        /\ End("refused", "UnrecognizedOperation")
  /\ UNCHANGED <<argv, next, index, operation, flags, kinds, pairs, file, object, subObject>>

ChooseOperation ==
  /\ pc = "operation"
  /\ argv # <<>> /\ argv[1] \in DOMAIN OperationOf
  /\ operation' = OperationOf[argv[1]]
  /\ next' = 2 /\ index' = 2
  /\ \/ Len(argv) = 1 /\ End("refused", "NoFile")
     \/ Len(argv) = 2 /\ argv[2] = "--help" /\ End("helped", "OperationHelp")
     \/ Len(argv) > 2 /\ argv[2] = "--help" /\ End("refused", "HelpAlone")
     \/ /\ Len(argv) > 1 /\ argv[2] # "--help"
        /\ pc' = "options"
        /\ UNCHANGED outcome
  /\ UNCHANGED <<argv, flags, kinds, pairs, file, object, subObject>>

(***************************************************************************)
(* ParseOptions of the operation: the loop ends at the first argument that *)
(* is no option, and of a section operation at the second.                 *)
(***************************************************************************)

InOptions == pc = "options" /\ next <= Len(argv)

ReadFlag ==
  /\ InOptions
  /\ argv[next] \in FlagsOf(operation)
  /\ flags' = flags \cup {argv[next]}
  /\ next' = next + 1 /\ index' = index + 1
  /\ UNCHANGED <<pc, argv, operation, kinds, pairs, file, object, subObject, outcome>>

ReadSectionOperand ==
  /\ InOptions
  /\ operation \in SectionOperations /\ ~IsOption(argv[next]) /\ pairs = <<>>
  /\ IF argv[next] = Pair
     THEN /\ pairs' = <<Pair>>
          /\ next' = next + 1 /\ index' = index + 1
          /\ UNCHANGED <<pc, outcome>>
     ELSE /\ End("refused", "NotAPair")
          /\ UNCHANGED <<next, index, pairs>>
  /\ UNCHANGED <<argv, operation, flags, kinds, file, object, subObject>>

RefuseOption ==
  /\ InOptions
  /\ IsOption(argv[next]) /\ argv[next] \notin FlagsOf(operation)
  /\ operation = "PrintExportTrie" => argv[next] \notin Requirements
  /\ End("refused", "UnrecognizedOption")
  /\ UNCHANGED <<argv, next, index, operation, flags, kinds, pairs, file, object, subObject>>

\* The value is inserted and the loop moved back to it, while it is counted.
AddKindRequirement(value) ==
  IF value \in kinds
  THEN next' = next + 2 /\ UNCHANGED kinds
  ELSE next' = next + 1 /\ kinds' = kinds \cup {value}

\* A variant of AddPairRequirement that moves back too.
AddPairRequirement_Back(value) ==
  /\ pairs' = IF \E i \in DOMAIN pairs : pairs[i] = value THEN pairs ELSE Append(pairs, value)
  /\ next' = next + 1

AddPairRequirement(value) ==
  /\ pairs' = IF \E i \in DOMAIN pairs : pairs[i] = value THEN pairs ELSE Append(pairs, value)
  /\ next' = next + 2

\* Whether an option in the place of a value is refused depends on the values
\* that were read before.
RequirementRefused(option, value) ==
  \/ IsOption(value) /\ (IF option = "--require-kind" THEN kinds = {} ELSE pairs = <<>>)
  \/ option = "--require-section" /\ value # Pair

ReadRequirement ==
  /\ InOptions
  /\ operation = "PrintExportTrie" /\ argv[next] \in Requirements
  /\ \/ ~HasNext /\ End("crashed", "NoValue") /\ UNCHANGED <<next, index, kinds, pairs>>
     \/ /\ HasNext /\ RequirementRefused(argv[next], Following)
        /\ End("refused", "BadRequirement")
        /\ UNCHANGED <<next, index, kinds, pairs>>
     \/ /\ HasNext /\ ~RequirementRefused(argv[next], Following)
        /\ index' = index + 2
        /\ IF argv[next] = "--require-kind"
           THEN AddKindRequirement(Following) /\ UNCHANGED pairs
           ELSE AddPairRequirement(Following) /\ UNCHANGED kinds
        /\ UNCHANGED <<pc, outcome>>
  /\ UNCHANGED <<argv, operation, flags, file, object, subObject>>

\* The path is read from argv without asking whether it is there.
EndOptions ==
  /\ pc = "options"
  /\ next <= Len(argv) =>
       ~IsOption(argv[next]) /\ (operation \in SectionOperations => pairs # <<>>)
  /\ \/ Conflict(operation, flags) /\ End("refused", "Conflict")
     \/ ~Conflict(operation, flags) /\ index > Len(argv) /\ End("crashed", "NoPath")
     \/ ~Conflict(operation, flags) /\ index <= Len(argv) /\ pc' = "file" /\ UNCHANGED outcome
  /\ UNCHANGED <<argv, next, index, operation, flags, kinds, pairs, file, object, subObject>>

(***************************************************************************)
(* The file and the object.                                                *)
(***************************************************************************)

MapErrors == {"FailedToGetInfo", "NotAFile", "EmptyFile", "MmapCallFailed"}

OpenFile ==
  /\ pc = "file"
  /\ \/ argv[index] # File /\ End("refused", "CannotOpen") /\ UNCHANGED file
     \/ /\ argv[index] = File
        /\ \E error \in MapErrors : End("refused", error)
        /\ UNCHANGED file
     \/ /\ argv[index] = File
        /\ \E f \in Files : file' = f
        /\ pc' = "object"
        /\ UNCHANGED outcome
  /\ UNCHANGED <<argv, next, index, operation, flags, kinds, pairs, object, subObject>>

OpenObjectOfFile ==
  /\ pc = "object"
  /\ object' = OpenObject(file)
  /\ subObject' = object'
  /\ next' = index + 1
  /\ CASE object'.error = "None" -> pc' = "path" /\ UNCHANGED outcome
       [] object'.error = "Crash" -> End("crashed", "ObjectError")
       [] OTHER -> End("refused", object'.error)
  /\ UNCHANGED <<argv, index, operation, flags, kinds, pairs, file>>

(***************************************************************************)
(* The options of the path: the last choice replaces those before.         *)
(***************************************************************************)

InPathOptions == pc = "path" /\ next <= Len(argv)

\* Choosing an object that is not there ends the program.
Choose(chosen, why) ==
  /\ next' = next + 2
  /\ CASE chosen.error = "None" -> subObject' = chosen /\ UNCHANGED <<pc, outcome>>
       [] chosen.error = "Crash" -> End("crashed", why) /\ UNCHANGED subObject
       [] OTHER -> End("refused", chosen.error) /\ UNCHANGED subObject

RefusePathOption ==
  /\ InPathOptions
  /\ \/ ~IsOption(argv[next]) /\ End("refused", "NotAPathOption")
     \/ IsOption(argv[next]) /\ argv[next] \notin {"-arch", "-image"} /\ End("refused", "UnrecognizedPathOption")
     \/ argv[next] = "-arch" /\ object.kind # "FatMachO" /\ End("refused", "ArchNotAllowed")
     \/ argv[next] = "-image" /\ object.kind # "DyldSharedCache" /\ End("refused", "ImageNotAllowed")
     \/ /\ \/ argv[next] = "-arch" /\ object.kind = "FatMachO"
           \/ argv[next] = "-image" /\ object.kind = "DyldSharedCache"
        /\ ~HasNext
        /\ End("refused", "NoNumber")
  /\ UNCHANGED <<argv, next, index, operation, flags, kinds, pairs, file, object, subObject>>

ChooseArch ==
  /\ InPathOptions
  /\ argv[next] = "-arch" /\ object.kind = "FatMachO" /\ HasNext
  /\ LET archs == HeaderAt(file, 0).archs
         number == ParseNumber(Following)
     IN  \/ ~IsNumber(Following) /\ End("refused", "NotANumber") /\ UNCHANGED <<next, subObject>>
         \/ /\ IsNumber(Following) /\ number \notin DOMAIN archs
            /\ End("refused", "NoSuchArch")
            /\ UNCHANGED <<next, subObject>>
         \/ /\ IsNumber(Following) /\ number \in DOMAIN archs
            /\ Choose(GetArchObject(file, archs[number]), "ArchWithoutObject")
  /\ UNCHANGED <<argv, index, operation, flags, kinds, pairs, file, object>>

\* The number of images of a cache older than version 8 is asked of a header
\* that asserts it is not.
ChooseImageByNumber ==
  /\ InPathOptions
  /\ argv[next] = "-image" /\ object.kind = "DyldSharedCache" /\ HasNext
  /\ Following \notin ImagePaths
  /\ LET header == HeaderAt(file, 0)
         number == ParseNumber(Following)
     IN  \/ ~IsNumber(Following) /\ End("refused", "NotANumber") /\ UNCHANGED <<next, subObject>>
         \/ /\ IsNumber(Following) /\ ~IsV8(header)
            /\ End("crashed", "OldCacheCounted")
            /\ UNCHANGED <<next, subObject>>
         \/ /\ IsNumber(Following) /\ IsV8(header) /\ number \notin DOMAIN header.images
            /\ End("refused", "NoSuchImage")
            /\ UNCHANGED <<next, subObject>>
         \/ /\ IsNumber(Following) /\ IsV8(header) /\ number \in DOMAIN header.images
            /\ Choose(GetImage(file, header.images[number]), "ImageOutsideFile")
  /\ UNCHANGED <<argv, index, operation, flags, kinds, pairs, file, object>>

ImagesOfPath(path) ==
  LET images == HeaderAt(file, 0).images IN {i \in DOMAIN images : images[i].path = path}

\* A path that no image has ends the program with success.
ChooseImageByPath ==
  /\ InPathOptions
  /\ argv[next] = "-image" /\ object.kind = "DyldSharedCache" /\ HasNext
  /\ Following \in ImagePaths
  /\ \/ /\ ImagesOfPath(Following) = {}
        /\ End("refused", "NoImageOfPath")
        /\ UNCHANGED <<next, subObject>>
     \/ /\ ImagesOfPath(Following) # {}
        /\ Choose(GetImage(file, HeaderAt(file, 0).images[First(ImagesOfPath(Following))]),
                  "ImageOutsideFile")
  /\ UNCHANGED <<argv, index, operation, flags, kinds, pairs, file, object>>

(***************************************************************************)
(* Run, and what is advised when the kind of the object does not fit.      *)
(***************************************************************************)

Advice(op, kind) ==
  CASE kind = "MachO" -> IF Supports(op, "FatMachO") THEN "OnlyFat" ELSE "NotSupported"
    [] kind = "FatMachO" -> IF Supports(op, "MachO") THEN "SelectArch" ELSE "NotSupported"
    [] kind = "DyldSharedCache" -> IF Supports(op, "DscImage") THEN "SelectImage" ELSE "NotSupported"
    [] kind = "DscImage" -> IF Supports(op, "DyldSharedCache") THEN "OnlyCaches" ELSE "NotSupported"

Run ==
  /\ pc = "path" /\ next > Len(argv)
  /\ LET advice == Advice(operation, subObject.kind)
     IN  \/ RunsOn(operation, subObject.kind) /\ End("ran", "None")
         \/ /\ ~RunsOn(operation, subObject.kind)
            /\ IF advice = "SelectImage" /\ ~IsV8(HeaderAt(file, 0))
               THEN End("crashed", "OldCacheCounted")
               ELSE End("advised", advice)
  /\ UNCHANGED <<argv, next, index, operation, flags, kinds, pairs, file, object, subObject>>

Next ==
  \/ NoOperation \/ ChooseOperation
  \/ ReadFlag \/ ReadSectionOperand \/ RefuseOption \/ ReadRequirement \/ EndOptions
  \/ OpenFile \/ OpenObjectOfFile
  \/ RefusePathOption \/ ChooseArch \/ ChooseImageByNumber \/ ChooseImageByPath
  \/ Run

Spec == Init /\ [][Next]_vars

(***************************************************************************)
(* Properties.                                                             *)
(***************************************************************************)

Kinds == {"None", "MachO", "FatMachO", "DyldSharedCache", "DscImage"}

\* The program is somewhere on its way, or at an end with an outcome.
TypeOK ==
  /\ pc \in {"operation", "options", "file", "object", "path", "done"}
  /\ next \in 1..(Len(argv) + 2) /\ index \in 1..(Len(argv) + 1)
  /\ operation \in {"None"} \cup {OperationOf[o] : o \in DOMAIN OperationOf}
  /\ flags \subseteq FlagsOf(operation)
  /\ object.kind \in Kinds /\ subObject.kind \in Kinds
  /\ outcome.how \in {"running", "helped", "refused", "crashed", "advised", "ran"}
  /\ outcome.how = "running" <=> pc # "done"

Opened(kind) == object.kind = kind /\ object.error = "None"

InFile(range) == range.begin + range.size <= file.size

\* The command count of a Mach-O is not more than fits, up to where 32 bits end.
SoundMachO(header, map) ==
  /\ header.magic = "macho"
  /\ InFile(map)
  /\ HeaderSize(header) + header.lcSize <= map.size
  /\ \/ SizeOfLoadCommand * header.count <= header.lcSize
     \/ SizeOfLoadCommand * header.count >= UInt32

\* The table of the archs lies in the file and no two archs share a byte.
SoundFat(header) ==
  /\ InFile(Range(0, SizeOfFatHeader + ArchSize(header) * Len(header.archs)))
  /\ \A i, j \in DOMAIN header.archs :
       i < j => ~Meet(ArchRange(header.archs[i]), ArchRange(header.archs[j]))

\* The header a version 8 cache is read by, the mappings and the images lie in
\* the file and the two lists share nothing.  Of a list of images that begins in
\* the first words of the header ImageListEnd is no bound.
SoundCache(header) ==
  LET images == Range(header.imagesOffset, SizeOfInfo * Len(header.images))
  IN  /\ InFile(MappingListRange(header))
      /\ InFile(images) \/ header.imagesOffset < SizeOfInfo
      /\ ~Meet(MappingListRange(header), images)
      /\ IsV8(header) => file.size >= SizeOfHeaderV8

\* What was accepted is sound: the tables that are walked without another test
\* lie in the file and do not share what they must not.
AcceptedIsSound ==
  /\ TypeOK
  /\ Opened("MachO") => SoundMachO(HeaderAt(file, 0), WholeFile(file))
  /\ Opened("FatMachO") => SoundFat(HeaderAt(file, 0))
  /\ Opened("DyldSharedCache") => SoundCache(HeaderAt(file, 0))

\* Which arguments are the value of the option before them.
IsValue[i \in 1..Len(argv)] ==
  i > 2 /\ argv[i - 1] \in Requirements /\ ~IsValue[i - 1]

Operands == {i \in 2..Len(argv) : ~IsOption(argv[i]) /\ ~IsValue[i]}

\* "[Operation] [Operation-Options] [Path] [Path-Options]", where the section an
\* operation lists is one of its options.
PathOperands ==
  {i \in Operands : OperationOf[argv[1]] \in SectionOperations => \E j \in Operands : j < i}

PathOperand == First(PathOperands)

Choices == {i \in (PathOperand + 1)..Len(argv) : argv[i] \in {"-arch", "-image"}}

LastChoice == CHOOSE i \in Choices : \A j \in Choices : j <= i

\* Whether the argument names the image: by its path, or by its number.
NamesImage(argument, i) ==
  IF argument \in ImagePaths THEN HeaderAt(file, 0).images[i].path = argument
  ELSE ParseNumber(argument) = i

IsTheArch(argument) ==
  LET arch == HeaderAt(file, 0).archs[ParseNumber(argument)]
  IN  /\ subObject.kind = "MachO"
      /\ subObject.map = ArchRange(arch)
      /\ SoundMachO(HeaderAt(file, arch.offset), subObject.map)

\* An image begins where a mapping has its address.
IsTheImage(argument) ==
  LET cache == HeaderAt(file, 0)
      map == subObject.map
  IN  /\ subObject.kind = "DscImage"
      /\ InFile(map) /\ map.size > 0
      /\ HeaderAt(file, map.begin).dylib /\ HeaderAt(file, map.begin).inCache
      /\ \E i \in DOMAIN cache.images, m \in DOMAIN cache.mappings :
           /\ NamesImage(argument, i)
           /\ cache.images[i].address - cache.mappings[m].address
                = map.begin - cache.mappings[m].offset

\* The operation is run, or declined, on what the last choice of the command
\* line names, in the file its path names, and that lies in the file.
RunsOnWhatWasAsked ==
  outcome.how \in {"ran", "advised"} =>
    /\ argv[PathOperand] = File
    /\ IF Choices = {} THEN subObject = object /\ object.map = WholeFile(file)
       ELSE IF argv[LastChoice] = "-arch" THEN IsTheArch(argv[LastChoice + 1])
       ELSE IsTheImage(argv[LastChoice + 1])

\* Options that follow the usage of the operation.  A kind may only be required
\* last: whatever follows it is taken as the path.
ProperRequirement(i, p) ==
  /\ ~IsOption(argv[i])
  /\ argv[i - 1] = "--require-section" => argv[i] = Pair
  /\ argv[i - 1] = "--require-kind" => i = p - 1

ProperOptions(p) ==
  LET op == OperationOf[argv[1]]
      given == {argv[i] : i \in 2..(p - 1)}
  IN  /\ ~Conflict(op, given) /\ ~IsValue[p]
      /\ CASE op \in SectionOperations ->
                /\ given \subseteq FlagsOf(op) \cup {Pair}
                /\ \E i \in 2..(p - 1) : \A j \in 2..(p - 1) : argv[j] = Pair <=> i = j
           [] op = "PrintExportTrie" ->
                \A i \in 2..(p - 1) : IF IsValue[i] THEN ProperRequirement(i, p)
                                      ELSE argv[i] \in FlagsOf(op) \cup Requirements
           [] OTHER -> given \subseteq FlagsOf(op)

ProperChoice(option, argument) ==
  LET header == HeaderAt(file, 0)
  IN  CASE header.magic = "fat" -> /\ option = "-arch" /\ IsNumber(argument)
                                   /\ ParseNumber(argument) \in DOMAIN header.archs
        [] header.magic = "cache" -> /\ option = "-image"
                                     /\ argument \in ImagePaths \/ IsNumber(argument)
                                     /\ \E i \in DOMAIN header.images : NamesImage(argument, i)
        [] OTHER -> FALSE

ProperPath(p) ==
  /\ argv[1] \in DOMAIN OperationOf
  /\ argv[p] = File /\ ProperOptions(p)

ProperLine ==
  \E p \in 2..Len(argv) :
    /\ ProperPath(p)
    /\ (Len(argv) - p) % 2 = 0
    /\ \A i \in (p + 1)..Len(argv) : (i - p) % 2 = 1 => ProperChoice(argv[i], argv[i + 1])

\* A file as linkers and dyld write it.  That the images of a cache end where
\* ImageListEnd says must be asked for as well.
ProperFile ==
  LET header == HeaderAt(file, 0)
      Proper(h, map) ==
        /\ h.magic = "macho" /\ map.size > SizeOfHeader /\ SoundMachO(h, map)
        /\ SizeOfLoadCommand * h.count <= h.lcSize
  IN  CASE header.magic = "macho" -> Proper(header, WholeFile(file))
        [] header.magic = "fat" ->
             /\ header.archs # <<>> /\ SoundFat(header)
             /\ \A i \in DOMAIN header.archs :
                  LET arch == header.archs[i] IN Proper(HeaderAt(file, arch.offset), ArchRange(arch))
        [] header.magic = "cache" ->
             /\ header.cpuKnown /\ SoundCache(header)
             /\ file.size > SizeOfHeaderV0 /\ header.mappingOffset < header.imagesOffset
             /\ ~Overlaps(MappingListRange(header), Range(header.imagesOffset, 0))
             /\ ImageListEnd(header) <= file.size
             /\ \A i \in DOMAIN header.images : GetImage(file, header.images[i]).error = "None"
        [] OTHER -> FALSE

\* Why the program may fail at what it takes for granted.
CrashReason(why) ==
  CASE why = "NoPath" -> PathOperands = {}
    [] why = "NoValue" -> argv[Len(argv)] \in Requirements
    [] why = "ObjectError" -> ~ProperFile
    [] why = "ArchWithoutObject" -> ~ProperFile /\ HeaderAt(file, 0).magic = "fat"
    [] why = "OldCacheCounted" -> ~IsV8(HeaderAt(file, 0))
    [] why = "ImageOutsideFile" -> ~ProperFile /\ HeaderAt(file, 0).magic = "cache"

\* What can be chosen from an object.
ChoosableFrom(kind) ==
  CASE kind = "FatMachO" -> {"MachO"} [] kind = "DyldSharedCache" -> {"DscImage"} [] OTHER -> {}

\* "Select one" is said exactly when the operation supports what can be chosen.
AdviceIsRight ==
  outcome.how = "advised" =>
    (outcome.why \in {"SelectArch", "SelectImage"}
      <=> \E kind \in ChoosableFrom(subObject.kind) : Supports(operation, kind))

\* After proper options the path is found, a proper command line on a proper file
\* is answered, a failure needs a reason that lies in the command line or the
\* file, and the advice leads on.
EndsHaveAReason ==
  pc = "done" =>
    /\ (\E p \in 2..Len(argv) : ProperPath(p)) => file.size > 0 \/ outcome.why \in MapErrors
    /\ file.size > 0 /\ ProperLine /\ ProperFile =>
         \/ outcome.how \in {"ran", "advised"}
         \/ outcome.why = "OldCacheCounted"
    /\ outcome.how = "crashed" => CrashReason(outcome.why)
    /\ AdviceIsRight

=============================================================================
