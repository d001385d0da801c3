-------------------------------- MODULE Labels --------------------------------
(***************************************************************************)
(* The labels of a project: several list files are read into one set of    *)
(* tables, from which offsets, distances and the hierarchy are computed.   *)
(* The tables are read again when a watched list file has changed.         *)
(***************************************************************************)
EXTENDS ListFiles

\* finish keeps three tables of its own: offsets per 64k address, distances, the hierarchy
Nothing == [tables |-> NoLabels, offsets |-> <<>>, distances |-> <<>>, names |-> {}, error |-> FALSE]

\* mutant: the offset goes on at a label
calculateLabelOffsetsOn(tables) ==
  LET first == {a \in DOMAIN tables.byNumber : \A b \in DOMAIN tables.byNumber : a <= b}
  IN [a \in {x \in 0..(Size - 1) : x \notin DOMAIN tables.byNumber /\ \E b \in first : b < x} |->
        a - (CHOOSE b \in first : TRUE)]

\* an address without a label gets the distance to the label before it
calculateLabelOffsets(tables) ==
  LET labelled == DOMAIN tables.byNumber
  IN [a \in {x \in 0..(Size - 1) : x \notin labelled /\ \E b \in labelled : b < x} |->
        a - (CHOOSE b \in labelled : b < a /\ \A c \in labelled : c < a => c <= b)]

\* In the order in which the labels were found.  What an earlier reading has stored stays.
calculateLabelDistances(tables, distances) ==
  FoldLeft(LAMBDA acc, i :
    LET prev == tables.number[tables.order[i - 1]]
        dist == (tables.number[tables.order[i]] % Size) - (prev % Size)
    IN IF dist > 0 THEN Put(acc, prev, [distance |-> dist, nextLabel |-> tables.order[i]]) ELSE acc,
    distances, [i \in 1..(IF tables.order = <<>> THEN 0 ELSE Len(tables.order) - 1) |-> i + 1])

finish(db) ==
  [db EXCEPT !.offsets   = calculateLabelOffsets(db.tables),
             !.distances = calculateLabelDistances(db.tables, @),
             !.names     = Range(db.tables.order)]

\* A configuration: the format, the sources, where they are loaded, what is excluded, and
\* whether reading it fails (half read).
Config(format, files, base, excluded, fails) ==
  [format |-> format, files |-> files, base |-> base, excluded |-> excluded, fails |-> fails]

loadAsmListFile(tables, cfg) ==
  CASE cfg.format = "sjasmplus" -> parseSld(tables, cfg.files)
    [] cfg.format = "z80asm"    -> parseZ80asm(tables, cfg.files, FALSE, cfg.excluded)
    [] cfg.format = "z88dk"     -> parseZ88dk(tables, cfg.files, cfg.base, cfg.excluded)
    [] cfg.format = "z88dkv2"   -> parseZ88dkV2(tables, cfg.files, cfg.base, cfg.excluded)
    [] cfg.format = "revEng"    -> parseRevEng(tables, cfg.files)

\* All files are read even if one fails; then nothing is computed and the old distances stay.
computed(db, fails) == IF fails THEN [db EXCEPT !.error = TRUE] ELSE finish(db)
readListFiles(db, configs) ==
  computed([Nothing EXCEPT !.tables = FoldLeft(LAMBDA acc, cfg : IF cfg.fails THEN acc ELSE loadAsmListFile(acc, cfg),
                                               NoLabels, configs),
                           !.distances = db.distances],
           \E i \in DOMAIN configs : configs[i].fails)

------------------------------------------------------------------------------
(* Questions                                                                *)

getLabelsForNumber64k(db, number, smallValuesMaximum) ==
  IF number <= smallValuesMaximum \/ number \notin DOMAIN db.tables.byNumber THEN <<>>
  ELSE db.tables.byNumber[number]

getLabelsForLongAddress(db, long) ==
  IF long \in DOMAIN db.tables.byLong THEN db.tables.byLong[long] ELSE <<>>

getLabelsForLongOr64kAddress(db, addr, smallValuesMaximum) ==
  IF addr >= Size THEN getLabelsForLongAddress(db, addr) ELSE getLabelsForNumber64k(db, addr, smallValuesMaximum)

\* labels, each with an offset
getLabelsPlusIndexForNumber64k(db, number, smallValuesMaximum) ==
  IF number <= smallValuesMaximum THEN <<>>
  ELSE IF number \in DOMAIN db.tables.byNumber
  THEN [i \in DOMAIN db.tables.byNumber[number] |-> <<db.tables.byNumber[number][i], 0>>]
  ELSE IF number \notin DOMAIN db.offsets THEN <<>>
  ELSE LET offset == db.offsets[number]
           labels == db.tables.byNumber[number - offset]
       IN [i \in DOMAIN labels |-> <<labels[i], offset>>]

getDistanceToNextLabel(db, addr) ==
  IF addr \in DOMAIN db.distances THEN db.distances[addr].distance ELSE 0

getFileAndLineForAddress(db, long) ==
  IF long \in DOMAIN db.tables.fileLineNrs THEN db.tables.fileLineNrs[long]
  ELSE [file |-> <<>>, nr |-> 0, lastLabel |-> NoLabel]

getAddrForFileAndLine(db, file, nr) ==
  IF <<file, nr>> \in DOMAIN db.tables.lineArrays THEN db.tables.lineArrays[<<file, nr>>] ELSE NoAddr

\* the nearest line above that has an address
getModuleAndLastLabelForFileAndLine(db, file, nr) ==
  LET known == {n \in 0..nr : getAddrForFileAndLine(db, file, n) # NoAddr}
  IN IF known = {} THEN NoLabel
     ELSE getFileAndLineForAddress(db, getAddrForFileAndLine(db, file, CHOOSE n \in known : \A k \in known : k <= n)).lastLabel

\* the first of the labels of an address
getLabelsMap(db) == [a \in DOMAIN db.tables.byLong |-> db.tables.byLong[a][1]]

------------------------------------------------------------------------------
(* What is promised                                                         *)

\* Where a line of the sources has bytes, its address tells the line; that of an excluded file tells none.
AddressTellsLine(db, cfg) ==
  LET listing == ListingOf(cfg.files)
      shift   == IF cfg.format \in {"z88dk", "z88dkv2"} THEN cfg.base ELSE 0
  IN \A k \in DOMAIN listing :
       LET told == getFileAndLineForAddress(db, createLongAddress(listing[k].addr + shift))
       IN listing[k].item.size > 0 =>
            IF listing[k].file \in cfg.excluded THEN told.file = <<>>
            ELSE told.file = Path(listing[k].file, FALSE) /\ told.nr = listing[k].nr

\* A breakpoint in such a line is set where the line begins, in one of the places where it is included.
LineTellsAddress(db, cfg) ==
  LET listing == ListingOf(cfg.files)
      shift   == IF cfg.format \in {"z88dk", "z88dkv2"} THEN cfg.base ELSE 0
  IN \A k \in DOMAIN listing :
       listing[k].item.size > 0 /\ listing[k].file \notin cfg.excluded =>
         \E j \in DOMAIN listing :
           /\ <<listing[j].file, listing[j].nr>> = <<listing[k].file, listing[k].nr>>
           /\ getAddrForFileAndLine(db, Path(listing[k].file, FALSE), listing[k].nr)
                = createLongAddress(listing[j].addr + shift)

\* A number is shown as a label and the offset to it, the nearest one below; and a label as itself.
OffsetsPointBack(db, small) ==
  \A n \in (small + 1)..(Size - 1) :
    LET shown == getLabelsPlusIndexForNumber64k(db, n, small)
        below == DOMAIN db.tables.byNumber \cap 0..n
    IN /\ shown = <<>> <=> below = {}
       /\ \A i \in DOMAIN shown : /\ n - shown[i][2] \in below
                                  /\ \A b \in below : b <= n - shown[i][2]
                                  /\ shown[i][1] \in Range(db.tables.byNumber[n - shown[i][2]])

\* A distance leads to the label that it names.
DistancesLead(db) ==
  \A a \in DOMAIN db.distances :
    /\ db.distances[a].nextLabel \in DOMAIN db.tables.number
    /\ (a + db.distances[a].distance) % Size = db.tables.number[db.distances[a].nextLabel] % Size
==============================================================================
