---------------------------- MODULE Z80Registers ----------------------------
(***************************************************************************)
(* The registers of the Z80: how the remotes set one (the simulator, MAME) *)
(* and how a register is read from the data a remote delivers.  A word is  *)
(* a pair <<high, low>> of bytes.                                          *)
(***************************************************************************)
EXTENDS Integers, Sequences, FiniteSets, SequencesExt

Z80_REG == <<"PC", "SP", "AF", "BC", "DE", "HL", "IX", "IY", "AF2", "BC2", "DE2", "HL2", "IR", "IM",
             "F", "A", "C", "B", "E", "D", "L", "H", "IXL", "IXH", "IYL", "IYH",
             "F2", "A2", "C2", "B2", "E2", "D2", "L2", "H2", "R", "I">>

Number(reg) == CHOOSE i \in DOMAIN Z80_REG : Z80_REG[i] = reg

WordRegs == {Z80_REG[i] : i \in 1..12}
ByteRegs == {Z80_REG[i] : i \in 15..34}

\* getEnumFromName: F is the first of the registers that have one byte only
isSingleRegister(reg) == Number(reg) >= Number("F")

\* The halves of a word register, high half first, named as byte registers where they have a name.
Halves == [PC |-> <<"pch", "pcl">>, SP |-> <<"sph", "spl">>,
           AF |-> <<"A", "F">>, BC |-> <<"B", "C">>, DE |-> <<"D", "E">>, HL |-> <<"H", "L">>,
           IX |-> <<"IXH", "IXL">>, IY |-> <<"IYH", "IYL">>,
           AF2 |-> <<"A2", "F2">>, BC2 |-> <<"B2", "C2">>, DE2 |-> <<"D2", "E2">>, HL2 |-> <<"H2", "L2">>,
           IR |-> <<"I", "R">>]
CellSeq == FlattenSeq([i \in 1..13 |-> Halves[Z80_REG[i]]]) \o <<"IM">>
Cells   == Range(CellSeq)

------------------------------------------------------------------------------
(* Reading                                                                  *)

\* the data of the simulator: one word for each of PC..IM, then the slots
getRegisterData(cpu, slots) ==
  [i \in 1..13 |-> <<cpu[Halves[Z80_REG[i]][1]], cpu[Halves[Z80_REG[i]][2]]>>]
    \o <<<<0, cpu["IM"]>>, <<0, Len(slots)>>>> \o [i \in DOMAIN slots |-> <<0, slots[i]>>]

\* the register of which reg is a half, and which half
WordOf(reg) == CHOOSE w \in DOMAIN Halves : reg \in Range(Halves[w])
HalfOf(reg) == CHOOSE h \in 1..2 : Halves[WordOf(reg)][h] = reg

\* DecodeRegisterData: bytes are halves of the words that a decoder parses
getRegValueByName(reg, Word) ==
  IF reg \in DOMAIN Halves \cup {"IM"} THEN Word[reg] ELSE Word[WordOf(reg)][HalfOf(reg)]

\* Z80RegistersStandardDecoder
StandardWords(data) == [w \in DOMAIN Halves \cup {"IM"} |-> data[Number(w)]]
parseSlots(data) ==
  LET i == Number("IM") + 1
  IN [k \in 1..data[i][2] |-> data[i + k][2]]

\* Z80RegistersMameDecoder: twelve words of eight digits; only the first four digits count
MAME_REG == <<"AF", "BC", "DE", "HL", "AF2", "BC2", "DE2", "HL2", "IX", "IY", "SP", "PC">>
MameData(cpu) == FlattenSeq([i \in 1..12 |-> <<cpu[Halves[MAME_REG[i]][2]], cpu[Halves[MAME_REG[i]][1]], 0, 0>>])
\* mutant: the bytes are taken in the order in which they come
MameWordsBigEndian(data) ==
  [w \in WordRegs |-> LET at == 4 * ((CHOOSE i \in 1..12 : MAME_REG[i] = w) - 1) IN <<data[at + 1], data[at + 2]>>]

MameWords(data) ==
  [w \in WordRegs |-> LET at == 4 * ((CHOOSE i \in 1..12 : MAME_REG[i] = w) - 1) IN <<data[at + 2], data[at + 1]>>]

\* DecodeZesaruxRegisters: the place of a register in the text is looked up once
PlaceOf(cache, text, reg) ==
  IF cache[reg] # 0 THEN cache[reg] ELSE CHOOSE i \in DOMAIN text : text[i][1] = reg
ZesaruxWords(cache, text) == [w \in DOMAIN cache |-> text[PlaceOf(cache, text, w)][2]]

------------------------------------------------------------------------------
(* Setting                                                                  *)

\* The cells that the simulator's setter of a register assigns.  The setters of F and F'
\* assign a field of the state that does not exist, the one of D' assigns D.
SetterCells(reg) ==
  CASE reg \in DOMAIN Halves -> Halves[reg]
    [] reg = "D2"            -> <<"D">>
    [] reg \in {"F", "F2"}   -> <<>>
    [] OTHER                 -> <<reg>>

\* the value of a byte register is a sequence of one byte
setRegValue(cpu, reg, value) ==
  LET cells == SetterCells(reg)
  IN [c \in DOMAIN cpu |-> IF c \in Range(cells)
                           THEN value[CHOOSE i \in DOMAIN cells : cells[i] = c] ELSE cpu[c]]

\* mutant: the halves are swapped
MameSetSwapped(cpu, reg, value) ==
  IF reg \in WordRegs THEN setRegValue(cpu, reg, value)
  ELSE LET word == Z80_REG[((Number(reg) - Number("F")) \div 2) + Number("AF")]
           half == (Number(reg) - Number("F")) % 2
       IN setRegValue(cpu, word, IF half = 1 THEN <<cpu[Halves[word][1]], value[1]>>
                                 ELSE <<value[1], cpu[Halves[word][2]]>>)

\* MAME sets words only: the other half is the one last read
MameSet(cpu, reg, value) ==
  IF reg \in WordRegs THEN setRegValue(cpu, reg, value)
  ELSE LET word == Z80_REG[((Number(reg) - Number("F")) \div 2) + Number("AF")]
           half == (Number(reg) - Number("F")) % 2
       IN setRegValue(cpu, word, IF half = 1 THEN <<value[1], cpu[Halves[word][2]]>>
                                 ELSE <<cpu[Halves[word][1]], value[1]>>)

------------------------------------------------------------------------------
(* Conditions: cc = 0..7 is NZ, Z, NC, C, PO, PE, P, M                      *)

isCcMetByFlag(cc, flags) ==
  LET flag == <<"Z", "C", "PV", "S">>[((cc \div 2) % 4) + 1]
  IN (flag \in flags) <=> (cc % 2 # 0)

------------------------------------------------------------------------------
(* What is promised                                                         *)

\* a different number for each cell
CellNumber(c) == CHOOSE n \in DOMAIN CellSeq : CellSeq[n] = c

\* A register that was set has the value, and no register that shares no byte with it changes.
SetsOnly(cpu, after, reg, value) ==
  LET own == IF reg \in DOMAIN Halves THEN Halves[reg] ELSE <<reg>>
  IN /\ \A i \in DOMAIN own : after[own[i]] = value[i]
     /\ \A c \in DOMAIN cpu \ Range(own) : after[c] = cpu[c]

\* All decoders read the same value.
DecodersAgree(cpu, slots) ==
  LET data == getRegisterData(cpu, slots)
  IN /\ parseSlots(data) = slots
     /\ \A reg \in WordRegs \cup ByteRegs :
          getRegValueByName(reg, StandardWords(data)) = getRegValueByName(reg, MameWords(MameData(cpu)))
==============================================================================
