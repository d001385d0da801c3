------------------------------ MODULE ListFiles ------------------------------
(***************************************************************************)
(* The parsers of list files: from the listing an assembler writes of a    *)
(* tree of source files to the labels, and to the source file and line of  *)
(* each address.  A listing is a sequence of lines; the letters of a line  *)
(* are abstracted to what the regular expressions extract from it.         *)
(***************************************************************************)
EXTENDS Integers, Sequences, FiniteSets, SequencesExt

CONSTANTS Size,      \* number of 64k addresses (0x10000)
          SlotSize   \* the slots of the memory model have one bank each

NoAddr == -1
NoFile == -1
NoLabel == "none"

SlotOf(a)  == a \div SlotSize
createLongAddress(a) == (a % Size) + (SlotOf(a % Size) + 1) * Size

------------------------------------------------------------------------------
(* The sources, and what an assembler lists of them.  File 0 includes       *)
(* nothing, file 1 may include file 0, the main file 2 both.                *)

Item(size, label, equ, incl, macro, note) ==
  [size |-> size, label |-> label, equ |-> equ, incl |-> incl, macro |-> macro, note |-> note]
Code(size)       == Item(size, NoLabel, NoAddr, NoFile, <<>>, "none")
Label(size, l)   == Item(size, l, NoAddr, NoFile, <<>>, "none")
Equ(l, value)    == Item(0, l, value, NoFile, <<>>, "none")
Include(f)       == Item(0, NoLabel, NoAddr, f, <<>>, "none")
MacroCall(sizes) == Item(0, NoLabel, NoAddr, NoFile, sizes, "none")
Note(size, kind) == Item(size, NoLabel, NoAddr, NoFile, <<>>, kind)

\* kind: a line of a source, of a macro's body, or the mark of an end
Listed(kind, file, nr, item) == [kind |-> kind, file |-> file, nr |-> nr, item |-> item, addr |-> 0]

ListingOf(files) ==
  LET Of[f \in 0..2] ==
        FlattenSeq([i \in DOMAIN files[f] |->
          LET item == files[f][i]
          IN <<Listed("source", f, i - 1, item)>>
               \o (IF item.incl = NoFile \/ item.incl >= f THEN <<>>
                   ELSE Of[item.incl] \o <<Listed("fileEnd", item.incl, 0, Code(0))>>)
               \o (IF item.macro = <<>> THEN <<>>
                   ELSE [k \in DOMAIN item.macro |-> Listed("macro", f, i - 1, Code(item.macro[k]))]
                          \o <<Listed("macroEnd", f, i - 1, Code(0))>>)])
      all == Of[2] \o <<Listed("fileEnd", 2, 0, Code(0))>>
      Start[i \in 1..Len(all)] == IF i = 1 THEN 0 ELSE Start[i - 1] + all[i - 1].item.size
  IN [i \in DOMAIN all |-> [all[i] EXCEPT !.addr = Start[i]]]

------------------------------------------------------------------------------
(* What all parsers fill                                                    *)

NoLabels == [order |-> <<>>, number |-> <<>>, byNumber |-> <<>>, byLong |-> <<>>, location |-> <<>>,
             fileLineNrs |-> <<>>, lineArrays |-> <<>>, notes |-> <<>>, skips |-> <<>>, codes |-> <<>>]

Put(f, k, v) == [x \in DOMAIN f \cup {k} |-> IF x = k THEN v ELSE f[x]]
PutNew(f, k, v) == IF k \in DOMAIN f THEN f ELSE Put(f, k, v)
Listing(f, k, v) == Put(f, k, IF k \notin DOMAIN f THEN <<v>>
                              ELSE IF v \in Range(f[k]) THEN f[k] ELSE Append(f[k], v))

addLabelForNumberRaw(db, value, label) ==
  [db EXCEPT !.order    = IF label \in DOMAIN db.number THEN @ ELSE Append(@, label),
             !.number   = Put(@, label, value),
             !.byNumber = Listing(@, value % Size, label),
             !.byLong   = Listing(@, value, label)]

\* assertions and log points need an address, a watchpoint may do without
findWpmemAssertionLogpoint(db, addr, note) ==
  IF note = "none" \/ (note # "WPMEM" /\ addr = NoAddr) THEN db
  ELSE [db EXCEPT !.notes = Append(@, <<note, addr>>)]

Entry(file, nr, addr, size, lastLabel) ==
  [file |-> file, nr |-> nr, addr |-> addr, size |-> size, lastLabel |-> lastLabel]
setFileLineNrForAddress(db, addrs, e) ==
  [db EXCEPT !.fileLineNrs = [a \in DOMAIN @ \cup addrs |->
     IF a \in addrs THEN [file |-> e.file, nr |-> e.nr, lastLabel |-> e.lastLabel] ELSE @[a]]]

labelLocation(db, e) ==
  IF e.lastLabel = NoLabel THEN db
  ELSE [db EXCEPT !.location = PutNew(@, e.lastLabel, [file |-> e.file, nr |-> e.nr, addr |-> e.addr])]

\* only the first address of a line is kept (a macro has many)
lineAddress(db, e) == [db EXCEPT !.lineArrays = PutNew(@, <<e.file, e.nr>>, e.addr)]

\* The debugger steps through the list file itself; what a line covers ends with its slot.
listFileModeFinish(db, entries) ==
  FoldLeft(LAMBDA acc, e :
    LET located == labelLocation(acc, e)
        covered == {i \in 0..(e.size - 1) :
                      \A j \in 0..i : SlotOf((e.addr + j) % Size) = SlotOf(e.addr % Size)}
    IN IF e.addr = NoAddr THEN located
       ELSE lineAddress(setFileLineNrForAddress(located, {e.addr + i : i \in IF e.size = 0 THEN {0} ELSE covered}, e), e),
    db, entries)

\* The debugger steps through the sources.  Behind the first byte the address loses its bank.
sourcesModeFinish(db, entries) ==
  FoldLeft(LAMBDA acc, e :
    LET located == labelLocation(acc, e)
    IN IF e.file = <<>> THEN acc
       ELSE IF e.addr = NoAddr THEN located
       ELSE lineAddress(setFileLineNrForAddress(located,
              {IF i = 0 THEN e.addr ELSE (e.addr + i) % Size : i \in 0..(e.size - 1)}, e), e),
    db, entries)

------------------------------------------------------------------------------
(* The stack of included files.  A file is named by its path; excluded      *)
(* files give no line.                                                      *)

Stack(files, excluded) == [files |-> files, excluded |-> excluded]
NoStack == Stack(<<>>, -1)

\* moved: the file is found in a source directory, its path is not the name in the listing
Path(name, moved) == <<IF moved THEN "dir" ELSE "", name>>

includeStart(stack, path, excludeFiles) ==
  Stack(Append(stack.files, [path |-> path, nr |-> 0]),
        IF stack.excluded = -1 /\ path[2] \in excludeFiles THEN Len(stack.files) ELSE stack.excluded)
includeEnd(stack) ==
  Stack(Front(stack.files), IF stack.excluded = Len(stack.files) - 1 THEN -1 ELSE stack.excluded)

Top(stack) == stack.files[Len(stack.files)]
associateSourceFileName(stack) ==
  IF stack.excluded # -1 \/ stack.files = <<>> THEN <<>> ELSE Top(stack).path

------------------------------------------------------------------------------
(* z80asm: the listing has marks at the end of a file and of a macro, so    *)
(* it is read backwards; lines count down from 0.                           *)

Z80asmListing(files) == <<Listed("fileStart", 2, 0, Code(0))>> \o ListingOf(files)

\* the first pass of every parser: labels, addresses and the notes of the comments
Z80asmEntries(db, listing) ==
  FoldLeft(LAMBDA acc, k :
    LET line  == listing[k]
        addr  == IF line.kind \in {"source", "macro"} THEN createLongAddress(line.addr) ELSE NoAddr
        item  == line.item
        named == IF item.label = NoLabel THEN acc.db
                 ELSE addLabelForNumberRaw(acc.db, IF item.equ = NoAddr THEN addr ELSE item.equ % Size, item.label)
        last  == IF item.label = NoLabel THEN acc.last ELSE item.label
    IN [db      |-> findWpmemAssertionLogpoint(named, addr, item.note),
        last    |-> last,
        entries |-> Append(acc.entries, Entry(<<"list">>, k - 1, addr, item.size, last))],
    [db |-> db, last |-> NoLabel, entries |-> <<>>], [k \in DOMAIN listing |-> k])

searchStartOfMacro(listing, k) ==
  CHOOSE s \in 1..k : listing[s].item.macro # <<>> /\ \A j \in (s + 1)..k : listing[j].item.macro = <<>>

\* mutant: the line that includes a file belongs to that file
Z80asmLineLate(st, listing, k, moved, excludeFiles) ==
  LET line == listing[k]
      done == [st EXCEPT !.stack.files[Len(st.stack.files)].nr = @ - 1,
                         !.entries[k].file = associateSourceFileName(st.stack),
                         !.entries[k].nr = Top(st.stack).nr]
  IN CASE k >= st.skip -> st
       [] line.kind = "fileEnd" -> [st EXCEPT !.stack = includeStart(@, Path(line.file, moved), excludeFiles)]
       [] OTHER -> IF line.item.incl # NoFile THEN [done EXCEPT !.stack = includeEnd(@)] ELSE done

\* parseFileAndLineNumber, and the file of the line
Z80asmLine(st, listing, k, moved, excludeFiles) ==
  LET line    == listing[k]
      pushed  == includeStart(st.stack, Path(line.file, moved), excludeFiles)
      popped  == IF line.item.incl # NoFile /\ Path(line.item.incl, FALSE) = Top(st.stack).path
                 THEN includeEnd(st.stack) ELSE st.stack
      first   == searchStartOfMacro(listing, k)
      at      == Len(popped.files)
      counted == [popped EXCEPT !.files[at].nr = @ - 1]
  IN CASE k >= st.skip           -> st
       [] line.kind = "fileEnd"  -> [st EXCEPT !.stack = pushed,
                                               !.entries[k].file = associateSourceFileName(pushed)]
       [] line.kind = "macroEnd" ->
            [st EXCEPT !.stack = counted, !.skip = first,
                       !.entries = [i \in DOMAIN @ |-> IF i \in first..(k - 1)
                                                       THEN [@[i] EXCEPT !.file = Top(popped).path, !.nr = Top(popped).nr]
                                                       ELSE @[i]]]
       [] OTHER                  -> [st EXCEPT !.stack = counted,
                                               !.entries[k].file = associateSourceFileName(popped),
                                               !.entries[k].nr = Top(popped).nr]

\* the numbers of a file are moved up by that of its first line
correctLineNumbers(entries) ==
  FoldLeft(LAMBDA acc, e :
    LET changed == e.file # acc.file
        length  == IF changed /\ (e.file \notin DOMAIN acc.lengths \/ acc.lengths[e.file] = 0)
                   THEN Put(acc.lengths, e.file, -e.nr) ELSE acc.lengths
        offset  == IF changed THEN length[e.file] ELSE acc.offset
    IN [file |-> e.file, lengths |-> length, offset |-> offset,
        entries |-> Append(acc.entries, [e EXCEPT !.nr = @ + offset])],
    [file |-> <<>>, lengths |-> <<>>, offset |-> 0, entries |-> <<>>], entries).entries

parseZ80asm(db, files, moved, excludeFiles) ==
  LET listing == Z80asmListing(files)
      first   == Z80asmEntries(db, listing)
      read    == FoldLeft(LAMBDA st, n : Z80asmLine(st, listing, Len(listing) + 1 - n, moved, excludeFiles),
                          [stack |-> NoStack, skip |-> Len(listing) + 1, entries |-> first.entries],
                          [n \in 1..(Len(listing) - 1) |-> n])
  IN sourcesModeFinish(first.db, correctLineNumbers(read.entries))

------------------------------------------------------------------------------
(* z88dk: addresses are relative, a map file has those of the labels.  The  *)
(* lines are numbered: where the number jumps an included file has ended.   *)

Z88dkListing(files) == SelectSeq(ListingOf(files), LAMBDA line : line.kind = "source")

readmapFile(listing, base) ==
  [l \in {listing[k].item.label : k \in {j \in DOMAIN listing : listing[j].item.equ = NoAddr}} \ {NoLabel} |->
     base + listing[CHOOSE k \in DOMAIN listing : listing[k].item.label = l].addr]

\* parseLabelAndAddress: a label of the map moves what follows
Z88dkEntries(db, listing, map) ==
  FoldLeft(LAMBDA acc, k :
    LET line  == listing[k]
        item  == line.item
        equ   == item.equ # NoAddr
        here  == item.label \in DOMAIN map /\ ~equ
        addr  == createLongAddress(IF here THEN map[item.label] ELSE line.addr + acc.offset)
        named == IF item.label = NoLabel THEN acc.db
                 ELSE addLabelForNumberRaw(acc.db, IF equ THEN item.equ % Size ELSE addr, item.label)
        last  == IF item.label = NoLabel THEN acc.last ELSE item.label
    IN [db      |-> findWpmemAssertionLogpoint(named, addr, item.note),
        last    |-> last,
        offset  |-> IF here THEN map[item.label] - line.addr ELSE acc.offset,
        entries |-> Append(acc.entries, Entry(<<"list">>, k - 1, addr, item.size, last))],
    [db |-> db, last |-> NoLabel, offset |-> 0, entries |-> <<>>], [k \in DOMAIN listing |-> k])

\* parseFileAndLineNumber
Z88dkLine(st, line, k, excludeFiles) ==
  LET nr    == line.nr + 1
      ended == nr \notin {st.expected, st.expected + 1} /\ Len(st.stack.files) > 1
      stack == IF ended THEN Stack(Front(st.stack.files), st.stack.excluded) ELSE st.stack
  IN IF line.item.incl # NoFile
     THEN LET pushed == includeStart(stack, Path(line.item.incl, FALSE), excludeFiles)
          IN [st EXCEPT !.stack = pushed, !.expected = 1, !.entries[k].file = associateSourceFileName(pushed)]
     ELSE [st EXCEPT !.stack = stack, !.expected = nr, !.entries[k].nr = nr - 1,
                     !.entries[k].file = associateSourceFileName(stack)]

\* The numbers tell where an included file ends, unless it ends with the number (or the one before)
\* with which the other goes on, or two files end at once.
NumbersTellTheEnd(files) ==
  LET all == ListingOf(files)
  IN \A k \in 2..(Len(all) - 2) :
       all[k].kind = "fileEnd" => /\ all[k + 1].kind # "fileEnd"
                                  /\ all[k + 1].nr \notin {all[k - 1].nr, all[k - 1].nr + 1}

parseZ88dk(db, files, base, excludeFiles) ==
  LET listing == Z88dkListing(files)
      first   == Z88dkEntries(db, listing, readmapFile(listing, base))
      read    == FoldLeft(LAMBDA st, k : Z88dkLine(st, listing[k], k, excludeFiles),
                          [stack |-> includeStart(NoStack, Path(2, FALSE), excludeFiles), expected |-> 1,
                           entries |-> first.entries], [k \in DOMAIN listing |-> k])
  IN sourcesModeFinish(first.db, read.entries)

------------------------------------------------------------------------------
(* z88dk 2.2: a line with the name of the file precedes its lines, and only *)
(* lines with bytes show an address                                         *)

Z88dkV2Listing(files) ==
  LET lines == Z88dkListing(files)
  IN FlattenSeq([k \in DOMAIN lines |->
       (IF k = 1 \/ lines[k - 1].file # lines[k].file THEN <<Listed("name", lines[k].file, 0, Code(0))>> ELSE <<>>)
         \o <<lines[k]>>])

NoOffset == -(2 * Size)

\* mutant: the offset of the label before is kept
Z88dkV2AddressKept(st, line, map) ==
  LET here   == line.item.equ = NoAddr /\ line.item.label \in DOMAIN map
      label  == IF here THEN map[line.item.label] ELSE st.label
      offset == IF line.item.size > 0 /\ st.offset = NoOffset THEN label - line.addr ELSE st.offset
  IN [label |-> label, offset |-> offset,
      next  |-> IF line.item.size > 0 THEN line.addr + offset ELSE IF here THEN label ELSE st.next]

\* a label of the map gives the address, the first bytes behind it the offset of the listing
Z88dkV2Address(st, line, map) ==
  LET here   == line.item.equ = NoAddr /\ line.item.label \in DOMAIN map
      label  == IF here THEN map[line.item.label] ELSE st.label
      before == IF here THEN NoOffset ELSE st.offset
      offset == IF line.item.size > 0 /\ before = NoOffset THEN label - line.addr ELSE before
  IN [label |-> label, offset |-> offset,
      next  |-> IF line.item.size > 0 THEN line.addr + offset ELSE IF here THEN label ELSE st.next]

Z88dkV2Entries(db, listing, map) ==
  FoldLeft(LAMBDA acc, k :
    LET line  == listing[k]
        item  == line.item
        at    == Z88dkV2Address(acc.at, line, map)
        addr  == createLongAddress(at.next)
        named == CASE item.equ # NoAddr          -> addLabelForNumberRaw(acc.db, item.equ % Size, item.label)
                   [] item.label \in DOMAIN map  -> addLabelForNumberRaw(acc.db, createLongAddress(at.label), item.label)
                   [] OTHER                      -> acc.db
        last  == IF item.label = NoLabel THEN acc.last ELSE item.label
    IN IF line.kind = "name"
       THEN [acc EXCEPT !.entries = Append(@, Entry(<<"list">>, k - 1, NoAddr, 0, acc.last))]
       ELSE [db      |-> findWpmemAssertionLogpoint(named, addr, item.note),
             last    |-> last,
             at      |-> [at EXCEPT !.next = @ + item.size],
             entries |-> Append(acc.entries, Entry(<<"list">>, k - 1, addr, item.size, last))],
    [db |-> db, last |-> NoLabel, at |-> [label |-> 0, offset |-> 0, next |-> 0], entries |-> <<>>],
    [k \in DOMAIN listing |-> k])

\* The stack has one file; that an excluded one has ended is not noticed.
Z88dkV2Line(st, line, k, excludeFiles) ==
  IF line.kind = "name"
  THEN LET stack == includeStart(Stack(<<>>, st.stack.excluded), Path(line.file, FALSE), excludeFiles)
       IN [st EXCEPT !.stack = stack, !.entries[k].file = associateSourceFileName(stack)]
  ELSE [st EXCEPT !.entries[k].file = associateSourceFileName(st.stack), !.entries[k].nr = line.nr]

parseZ88dkV2(db, files, base, excludeFiles) ==
  LET listing == Z88dkV2Listing(files)
      first   == Z88dkV2Entries(db, listing, readmapFile(Z88dkListing(files), base))
      read    == FoldLeft(LAMBDA st, k : Z88dkV2Line(st, listing[k], k, excludeFiles),
                          [stack |-> NoStack, entries |-> first.entries], [k \in DOMAIN listing |-> k])
  IN sourcesModeFinish(first.db, read.entries)

------------------------------------------------------------------------------
(* sjasmplus writes an SLD file: each line of it names its source line      *)

estimated(db, entries) ==
  FoldLeft(LAMBDA acc, e :
    FoldLeft(LAMBDA a, i : Put(a, e.addr + i, e), acc,
             SelectSeq(<<1, 2, 3>>, LAMBDA i : \A j \in 1..i : SlotOf((e.addr + j) % Size) = SlotOf(e.addr % Size))),
    <<>>, entries)

\* L: a label, T: an instruction, K: a comment
parseSld(db, files) ==
  LET listing == SelectSeq(ListingOf(files), LAMBDA line : line.kind \in {"source", "macro"})
      read == FoldLeft(LAMBDA acc, line :
                LET item  == line.item
                    addr  == createLongAddress(line.addr)
                    value == IF item.equ = NoAddr THEN addr ELSE item.equ
                    last  == IF item.label = NoLabel THEN acc.last ELSE item.label
                    e     == Entry(Path(line.file, FALSE), line.nr, addr, 1, last)
                    named == IF item.label = NoLabel THEN acc.db
                             ELSE [addLabelForNumberRaw(acc.db, value, item.label) EXCEPT
                                     !.location = Put(@, item.label, [file |-> e.file, nr |-> e.nr, addr |-> value])]
                    noted == findWpmemAssertionLogpoint(named, addr, item.note)
                IN IF item.size = 0 THEN [acc EXCEPT !.db = noted, !.last = last]
                   ELSE [db |-> lineAddress(setFileLineNrForAddress(noted, {addr}, e), e),
                         last |-> last, traced |-> Append(acc.traced, e)],
                [db |-> db, last |-> NoLabel, traced |-> <<>>], listing)
      guess == estimated(read.db, read.traced)
  IN [read.db EXCEPT !.fileLineNrs = [a \in DOMAIN @ \cup DOMAIN guess |->
        IF a \in DOMAIN @ THEN @[a]
        ELSE [file |-> guess[a].file, nr |-> guess[a].nr, lastLabel |-> guess[a].lastLabel]]]

------------------------------------------------------------------------------
(* Reverse engineering: a list file written by hand.  A line has an address *)
(* with a bank, bytes, a label (a local one begins with a dot and is kept   *)
(* behind the last label), and perhaps a command.                           *)

Written(addr, size, label, local, command) ==
  [addr |-> addr, size |-> size, label |-> label, local |-> local, command |-> command]

parseRevEng(db, lines) ==
  LET read == FoldLeft(LAMBDA acc, k :
        LET line  == lines[k]
            addr  == createLongAddress(line.addr)
            full  == IF line.local THEN <<acc.last, line.label>> ELSE line.label
            last  == IF line.label = NoLabel \/ line.local THEN acc.last ELSE line.label
            named == IF line.label = NoLabel \/ full \in DOMAIN acc.db.number THEN acc.db
                     ELSE addLabelForNumberRaw(acc.db, addr, full)
            size  == IF line.size = 0 /\ line.command = "other" THEN 1 ELSE line.size
            done  == CASE line.command = "skip"     -> [named EXCEPT !.skips = Put(@, addr, 1)]
                       [] line.command = "skipword" -> [named EXCEPT !.skips = Put(@, addr, 2)]
                       [] line.command = "code"     -> [named EXCEPT !.codes = Append(@, addr)]
                       [] OTHER                     -> named
        IN [db |-> done, last |-> last, entries |-> Append(acc.entries, Entry(<<"list">>, k - 1, addr, size, last))],
        [db |-> db, last |-> NoLabel, entries |-> <<>>], [k \in DOMAIN lines |-> k])
  IN listFileModeFinish(read.db, read.entries)
==============================================================================
