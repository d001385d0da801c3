---------------------------- MODULE MCAlgorithms ----------------------------
(***************************************************************************)
(* The pure algorithms, each over bounded inputs: the kind of question and *)
(* its input are chosen in the initial state.                              *)
(***************************************************************************)
EXTENDS StepBreakpoints, TLC
VARIABLES kind, input
MM == INSTANCE MemoryModel WITH Top <- 3
ZR == INSTANCE Z80Registers

Configurations ==
  LET Banks == {MM!Bank(0, 0, <<>>, TRUE), MM!Bank(1, 1, <<>>, FALSE), MM!Bank(0, 1, <<"index">>, FALSE),
                MM!Bank(1, 1, <<"A">>, FALSE), MM!Bank(2, 2, <<"A">>, FALSE), MM!Bank(2, 2, <<"B">>, TRUE)}
      Slots == {MM!Slot(r[1], r[2], b) : r \in {<<0, 0>>, <<0, 1>>, <<1, 2>>, <<2, 3>>},
                                         b \in {<<x>> : x \in Banks} \cup (Banks \X Banks)}
  IN {<<s>> : s \in Slots} \cup (Slots \X Slots)

MD == INSTANCE MemoryDump WITH Boundary <- 4, Top <- 31, ByteMax <- 1

LB == INSTANCE Labels WITH Size <- 64, SlotSize <- 32

\* sources: the main file begins with a label, includes and macros anywhere
Sources ==
  LET Items == {LB!Code(0), LB!Code(2), LB!Include(1), LB!Include(0), LB!MacroCall(<<1, 1>>)}
      Mains == {<<LB!Label(1, "m")>> \o s \o <<LB!Code(1)>> : s \in UNION {[1..n -> Items] : n \in 0..2}}
      Ones  == {<<LB!Code(1)>>, <<LB!Include(0), LB!Code(1)>>, <<LB!Code(1), LB!Include(0)>>, <<LB!Code(0), LB!Code(1), LB!Code(0)>>}
      Zeros == {<<LB!Code(1), LB!Code(1)>>, <<LB!Label(1, "z"), LB!Code(1)>>}
      \* a label is defined once
      Once(files) == \A i, j \in DOMAIN LB!ListingOf(files) :
                       LET l == LB!ListingOf(files)[i].item.label
                       IN i # j /\ l # LB!NoLabel => LB!ListingOf(files)[j].item.label # l
  IN {files \in {[f \in 0..2 |-> CASE f = 0 -> z [] f = 1 -> o [] f = 2 -> m] : z \in Zeros, o \in Ones, m \in Mains} :
        Once(files)}
NoMacro(files) == \A f \in 0..2 : \A i \in DOMAIN files[f] : files[f][i].macro = <<>>

\* sources with labels, constants and notes, to be read one after the other
Labelled ==
  LET Items == {LB!Code(2), LB!Label(1, "x"), LB!Label(3, "y"), LB!Equ("e", 5), LB!Equ("y", 40), LB!Note(1, "WPMEM")}
  IN {[f \in 0..2 |-> IF f = 2 THEN <<LB!Label(1, "m")>> \o s ELSE <<>>] : s \in {t \in Items \X Items : t[1].label # t[2].label}}

VR == INSTANCE Variables

\* structs: members of one to three bytes, one without bytes, an inner struct of two members
Structs ==
  LET Members == {1, 3, 0, 5}
      SizeOf(s, n) == FoldLeft(LAMBDA acc, m : acc + m, 0, SubSeq(s, 1, n))
      Labels(s) == FlattenSeq([i \in DOMAIN s |->
                     LET at == SizeOf(s, i - 1)
                     IN <<<<<<"s", i>>, at>>>> \o (IF s[i] # 5 THEN <<>>
                                                ELSE <<<<<<"s", i, 1>>, at>>, <<<<"s", i, 2>>, at + 2>>>>)])
  IN {[labels |-> Labels(s), size |-> SizeOf(s, Len(s))] : s \in {t \in UNION {[1..n -> Members] : n \in 1..3} : t # <<0>>}}

Inputs(k) ==
  CASE k = "opcode" -> {[prefix |-> p, code |-> c] : p \in OpcodePrefixes, c \in Byte}
    [] k = "step" -> {State(pc, p, c, lo, hi, \h1234, \hFFFF, \h2345, skip) :
                        pc \in {\h100, \hFFFE}, p \in {"none", "ED", "DD"}, c \in Byte,
                        lo \in {0, \h7F, \hFE}, hi \in {0, \h80}, skip \in {0, 2}}
    [] k = "stack" -> UNION {[1..n -> {10, 20, 30}] : n \in 0..4}
    [] k = "model" -> Configurations
    [] k = "register" -> {[reg |-> r, slots |-> s] : r \in ZR!WordRegs \cup ZR!ByteRegs, s \in {<<>>, <<3>>, <<3, 4>>}}
    [] k = "listing" -> {LB!Config(f, s, b, e, FALSE) : f \in {"sjasmplus", "z80asm", "z88dk", "z88dkv2"}, s \in Sources,
                                                        b \in {9}, e \in {{}, {0}}}
    [] k = "blocks" -> {[asked |-> a, lines |-> l] :
                          a \in UNION {[1..n -> {0, 3, 5, 9, 14} \X {1, 3, 9}] : n \in 1..3}, l \in BOOLEAN}
    [] k = "value" -> {-70000, -300, -1, 0, 5, 255, 256, 300, 70000} \X (1..6) \X BOOLEAN
    [] k = "struct" -> Structs \X (1..2)
    [] k = "dump" -> {[inStruct |-> i, offset |-> IF i THEN o ELSE 0, size |-> e, little |-> l, start |-> s] :
                        i \in BOOLEAN, o \in 0..2, e \in 1..3, l \in BOOLEAN, s \in 0..2}
    [] k = "labels" -> {<<<<LB!Config("z80asm", s, 0, {}, FALSE)>>, <<LB!Config(g, t, 7, {}, x)>>>> :
                          s \in Labelled, t \in Labelled, g \in {"z88dkv2"}, x \in BOOLEAN}

Kinds == {"opcode", "step", "stack", "model", "register", "listing", "labels", "blocks", "value", "struct", "dump"}

Init == kind \in Kinds /\ input \in Inputs(kind)
Next == UNCHANGED <<kind, input>>
Spec == Init /\ [][Next]_<<kind, input>>

\* Every opcode of every table has the length, the kind and the branch target that the Z80 gives it.
OpcodesAreZ80 == kind = "opcode" => DecodesAsZ80(input.prefix, input.code)

\* A step sets its breakpoints where the instruction can continue: one of them is reached.
StepsStop == kind = "step" => StepStops(input)

\* The frames of a call stack and their words are the stack, each word once.
StackIsTiled == kind = "stack" => FramesTileStack(input, {10, 20}, 100, 7)

\* A long address that is printed with the name of its bank is read back as itself, unless
\* the configuration gives one bank two names.
PrintedIsParsed == kind = "model" /\ MM!NamesAgree(input) => MM!PrintsAndParses(MM!Model(input))

\* The same for every configuration that is accepted.
NamesIdentify == kind = "model" => MM!PrintsAndParses(MM!Model(input))

\* Setting a register of MAME changes its own byte or word only.
MameSetsOnly ==
  kind = "register" =>
    LET cpu   == [c \in ZR!Cells |-> ZR!CellNumber(c)]
        value == IF input.reg \in ZR!WordRegs THEN <<201, 202>> ELSE <<201>>
    IN ZR!SetsOnly(cpu, ZR!MameSet(cpu, input.reg, value), input.reg, value)

\* The same for the simulator.
SimulatorSetsOnly ==
  kind = "register" =>
    LET cpu   == [c \in ZR!Cells |-> ZR!CellNumber(c)]
        value == IF input.reg \in ZR!WordRegs THEN <<201, 202>> ELSE <<201>>
    IN ZR!SetsOnly(cpu, ZR!setRegValue(cpu, input.reg, value), input.reg, value)

\* Every decoder reads the value of every register from what its remote delivers.
DecodersRead == kind = "register" => ZR!DecodersAgree([c \in ZR!Cells |-> ZR!CellNumber(c)], input.slots)

\* What the listings of the assemblers can be read back from: z88dk knows no macros, and where its
\* numbers do not tell the end of a file nothing can.
Readable(cfg) ==
  /\ cfg.format \in {"z88dk", "z88dkv2"} => NoMacro(cfg.files)
  /\ cfg.format = "z88dk" => LB!NumbersTellTheEnd(cfg.files)
  /\ cfg.excluded = {} \/ cfg.format = "z80asm"

\* The address of code tells the line of the source that the assembler has listed there, and the
\* line the address (of a z88dk listing this half fails: the line of an include counts as one of the
\* included file).
IsUnderstood(db, cfg) ==
  LB!AddressTellsLine(db, cfg) /\ (cfg.format # "z88dk" => LB!LineTellsAddress(db, cfg))
ListingIsUnderstood ==
  kind = "listing" /\ Readable(input) => IsUnderstood(LB!readListFiles(LB!Nothing, <<input>>), input)

\* An excluded file is left out, and no other.
OnlyExcludedIsLeftOut ==
  kind = "listing" /\ input.format # "sjasmplus" /\ Readable([input EXCEPT !.excluded = {}])
  => LB!AddressTellsLine(LB!readListFiles(LB!Nothing, <<input>>), input)

\* A number is shown with the nearest label below it, and the distance of a label leads to a label.
LeadsToLabels(db) == db.error \/ (LB!OffsetsPointBack(db, 3) /\ LB!DistancesLead(db))
LabelsLead == kind = "labels" => LeadsToLabels(LB!readListFiles(LB!Nothing, input[1] \o input[2]))

Blocks ==
  FoldLeft(LAMBDA acc, r : IF input.lines THEN MD!addBlock(acc, r[1], r[2])
                           ELSE MD!addBlockWithoutBoundary(acc, r[1], r[2]), <<>>, input.asked)

\* A memory view shows every cell that was asked for, and each once unless one block lies within
\* another.
CellsAreShown ==
  kind = "blocks" =>
    LET merged == MD!mergeBlocks(Blocks)
    IN MD!BlocksShowAll(Range(input.asked), merged) /\ (MD!NoneWithin(Blocks) => MD!BlocksAreApart(merged))

\* a dump at address 2 of a memory whose bytes differ
DumpIsRight(told, set) ==
  LET memory == [i \in 1..24 |-> (7 * i) % 256]
      dump   == VR!Dump(2, input.inStruct, input.offset, input.size, input.little)
  IN /\ told => VR!DumpTells(dump, memory, SubSeq(memory, 3, 24), input.start, 2)
     /\ set => \A value \in {-1, 5, 300} : VR!DumpSets(dump, memory, input.start, value)

\* A value of up to three bytes, positive or a negative number that has a place in them, is read as
\* it was written.
ValuesAreKept ==
  kind = "value" /\ input[2] <= 3 /\ input[1] >= -(256 ^ input[2]) => VR!WrittenIsRead(input[1], input[2], input[3])

\* The same for the sizes that a watch may have.  From four bytes on a negative number is not.
LongValuesAreKept == kind = "value" /\ input[1] \in -1..255 => VR!SameBytes(input[1], input[2], input[3])

\* The panes show every byte of a struct once, at its label; a dump tells the addresses of what it
\* shows (of its first elements), and sets what it shows (low byte first).
VariablesAreShown ==
  /\ kind = "struct" => VR!RowsTile(input[1].labels, input[2], input[1].size, <<"s">>)
  /\ kind = "dump" => DumpIsRight(input.start = 0 \/ ~input.inStruct, input.little \/ input.size = 1)
  /\ kind = "value" => VR!SystemVariablesAreApart

\* Of all elements, and in both orders.
DumpsAreShown == kind = "dump" => DumpIsRight(TRUE, TRUE)

\* Each once, whatever was asked for.
CellsAreShownOnce == kind = "blocks" => MD!BlocksAreApart(MD!mergeBlocks(Blocks))

\* After the files were read again a distance leads to a label of what was read.
DistancesAreOfThisReading ==
  kind = "labels" =>
    LET Lead(db) == db.error \/ LB!DistancesLead(db)
    IN Lead(LB!readListFiles(LB!readListFiles(LB!Nothing, input[1]), input[2]))
==============================================================================
