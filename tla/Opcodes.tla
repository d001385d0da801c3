------------------------------- MODULE Opcodes -------------------------------
(***************************************************************************)
(* The opcode tables of the disassembler: of every opcode its length, and  *)
(* where the program may go after it.  The tables are the mnemonics of the *)
(* source, grouped by what the constructor of Opcode reads in the name: an *)
(* operand #n or #nn, CALL, JP, JR, DJNZ, RET, RST.  The reference is the  *)
(* structure of the Z80's codes, the bit fields of the byte.               *)
(***************************************************************************)
EXTENDS Integers, FiniteSets

Byte == 0..255
OpcodePrefixes == {"none", "CB", "ED", "DD", "FD", "DDCB", "FDCB"}

\* OpcodeFlag
BRANCH == "BRANCH_ADDRESS"
CALL == "CALL"
STOP == "STOP"
RET == "RET"
COND == "CONDITIONAL"

Op(length, flags) == [length |-> length, flags |-> flags]

Step(from, by, to) == {c \in from..to : (c - from) % by = 0}

------------------------------------------------------------------------------
(* The main table                                                           *)

\* mnemonics with #nn
WordOperand ==
  {\h01, \h11, \h21, \h31, \h22, \h2A, \h32, \h3A, \hC3, \hCD}
    \cup Step(\hC2, 8, \hFA) \cup Step(\hC4, 8, \hFC)

\* mnemonics with #n
ByteOperand ==
  Step(\h06, 8, \h3E) \cup {\h10, \h18, \h20, \h28, \h30, \h38, \hD3, \hDB} \cup Step(\hC6, 8, \hFE)

\* mutant: an RST is not taken for a call
MainFlagsRstPlain(c) ==
  CASE c = \hCD                           -> {CALL, BRANCH}
    [] c \in Step(\hC4, 8, \hFC)          -> {CALL, BRANCH, COND}
    [] c \in {\hC3, \h18}                 -> {BRANCH, STOP}
    [] c \in Step(\hC2, 8, \hFA) \cup {\h10, \h20, \h28, \h30, \h38} -> {BRANCH, COND}
    [] c = \hC9                           -> {RET, STOP}
    [] c \in Step(\hC0, 8, \hF8)          -> {RET, COND}
    [] c = \hE9                           -> {STOP}
    [] OTHER                              -> {}

\* the flags the constructor derives from the name
MainFlags(c) ==
  CASE c = \hCD                           -> {CALL, BRANCH}
    [] c \in Step(\hC4, 8, \hFC)          -> {CALL, BRANCH, COND}
    [] c \in {\hC3, \h18}                 -> {BRANCH, STOP}
    [] c \in Step(\hC2, 8, \hFA) \cup {\h10, \h20, \h28, \h30, \h38} -> {BRANCH, COND}
    [] c = \hC9                           -> {RET, STOP}
    [] c \in Step(\hC0, 8, \hF8)          -> {RET, COND}
    [] c \in Step(\hC7, 8, \hFF)          -> {CALL, BRANCH}
    [] c = \hE9                           -> {STOP}
    [] OTHER                              -> {}

Opcodes(c) ==
  Op(CASE c \in WordOperand -> 3 [] c \in ByteOperand -> 2 [] OTHER -> 1, MainFlags(c))

------------------------------------------------------------------------------
(* The tables behind a prefix; their lengths include it                     *)

OpcodesCB(c) == Op(1 + 1, {})

\* a NEXTREG with a value has one byte more than its name tells
OpcodesED(c) ==
  LET named == CASE c \in {\h34, \h35, \h36, \h8A} \cup Step(\h43, 8, \h7B) -> 3
                 [] c \in {\h27, \h92} -> 2
                 [] c = \h91 -> 3
                 [] OTHER -> 1
  IN Op(named + 1, CASE c \in {\h45, \h4D} -> {RET, STOP} [] c = \h98 -> {STOP} [] OTHER -> {})

\* OpcodeIndex: one byte for the offset
Indexed ==
  {\h34, \h35} \cup Step(\h46, 8, \h7E) \cup (\h70..\h75 \cup {\h77}) \cup Step(\h86, 8, \hBE)

\* OpcodeNOP: the next prefix starts an instruction of its own
PrefixAgain == {\hDD, \hED, \hFD}

OpcodesDD(c) ==
  Op(CASE c \in {\h21, \h22, \h2A} -> 3 + 1
       [] c \in {\h26, \h2E}       -> 2 + 1
       [] c \in Indexed            -> 2 + 1
       [] c = \h36                 -> 3 + 1
       [] c \in PrefixAgain        -> 0 + 1
       [] OTHER                    -> 1 + 1,
     IF c = \hE9 THEN {STOP} ELSE {})

\* the bits of (IX+d), and the rotations
OpcodesDDCB(c) == Op(1 + 1 + 1 + 1, {})

\* the tables for IY are copies with another name
OpcodesFD(c) == OpcodesDD(c)
OpcodesFDCB(c) == OpcodesDDCB(c)

\* getOpcodeAt of the prefixes: the byte after the prefixes selects the opcode
Decode(prefix, c) ==
  CASE prefix = "none" -> Opcodes(c)     [] prefix = "CB"   -> OpcodesCB(c)
    [] prefix = "ED"   -> OpcodesED(c)   [] prefix = "DD"   -> OpcodesDD(c)
    [] prefix = "FD"   -> OpcodesFD(c)   [] prefix = "DDCB" -> OpcodesDDCB(c)
    [] prefix = "FDCB" -> OpcodesFDCB(c)

------------------------------------------------------------------------------
(* The value of an operand                                                  *)

Signed(b) == IF b >= \h80 THEN b - \h100 ELSE b

\* a relative jump; the sum is not taken modulo 2^16
RelativeTarget(address, b) == address + 2 + Signed(b)

RstTarget(c) == ((c \div 8) % 8) * 8

\* words are little endian except for PUSH #nn of the Next
WordAt(lo, hi) == lo + 256 * hi
BigEndianWordAt(hi, lo) == 256 * hi + lo

------------------------------------------------------------------------------
(* Reference: the fields x y z of the code, and q                           *)

X(c) == c \div 64
Y(c) == (c \div 8) % 8
Z(c) == c % 8
Q(c) == Y(c) % 2

\* the Z80's unprefixed instructions
Z80Main(c) ==
  CASE X(c) = 0 /\ Z(c) = 0 /\ Y(c) = 3      -> Op(2, {BRANCH, STOP})
    [] X(c) = 0 /\ Z(c) = 0 /\ Y(c) \in {2, 4, 5, 6, 7} -> Op(2, {BRANCH, COND})
    [] X(c) = 0 /\ Z(c) = 1 /\ Q(c) = 0      -> Op(3, {})
    [] X(c) = 0 /\ Z(c) = 2 /\ Y(c) >= 4     -> Op(3, {})
    [] X(c) = 0 /\ Z(c) = 6                  -> Op(2, {})
    [] X(c) = 3 /\ Z(c) = 0                  -> Op(1, {RET, COND})
    [] X(c) = 3 /\ Z(c) = 1 /\ Y(c) = 1      -> Op(1, {RET, STOP})
    [] X(c) = 3 /\ Z(c) = 1 /\ Y(c) = 5      -> Op(1, {STOP})
    [] X(c) = 3 /\ Z(c) = 2                  -> Op(3, {BRANCH, COND})
    [] X(c) = 3 /\ Z(c) = 3 /\ Y(c) = 0      -> Op(3, {BRANCH, STOP})
    [] X(c) = 3 /\ Z(c) = 3 /\ Y(c) \in {2, 3} -> Op(2, {})
    [] X(c) = 3 /\ Z(c) = 4                  -> Op(3, {CALL, BRANCH, COND})
    [] X(c) = 3 /\ Z(c) = 5 /\ Y(c) = 1      -> Op(3, {CALL, BRANCH})
    [] X(c) = 3 /\ Z(c) = 6                  -> Op(2, {})
    [] X(c) = 3 /\ Z(c) = 7                  -> Op(1, {CALL, BRANCH})
    [] OTHER                                 -> Op(1, {})

\* an instruction that has (HL), its own operand and its index offset
UsesHL(c) == \/ X(c) = 0 /\ Y(c) = 6 /\ Z(c) \in {4, 5, 6}
             \/ X(c) \in {1, 2} /\ Z(c) = 6 /\ c # \h76
             \/ X(c) = 1 /\ Y(c) = 6 /\ c # \h76

\* DD or FD before an instruction that does not use HL is a NOP of its own and
\* shown as an invalid instruction of two bytes
UsesIndex(c) == \/ UsesHL(c)
                \/ c \in {\h09, \h19, \h29, \h39, \h21, \h22, \h23, \h2A, \h2B, \hE1, \hE3, \hE5, \hE9, \hF9}
                \/ X(c) = 0 /\ Y(c) \in {4, 5} /\ Z(c) \in {4, 5, 6}
                \/ X(c) \in {1, 2} /\ (Z(c) \in {4, 5} \/ (X(c) = 1 /\ Y(c) \in {4, 5}))

Z80Indexed(c) ==
  LET plain == Z80Main(c)
  IN Op(plain.length + 1 + (IF UsesHL(c) THEN 1 ELSE 0), plain.flags)

Z80Extended(c) ==
  CASE X(c) = 1 /\ Z(c) = 3 -> Op(4, {})
    [] X(c) = 1 /\ Z(c) = 5 /\ Y(c) \in {0, 1} -> Op(2, {RET, STOP})
    [] OTHER -> Op(2, {})

\* the codes that are not the Next's own, and not undocumented copies of RETN
IsZ80Extended(c) == \/ X(c) = 1 /\ ~(Z(c) = 5 /\ Y(c) > 1)
                    \/ X(c) = 2 /\ Z(c) < 4 /\ Y(c) >= 4
IsIndexed(c) == UsesIndex(c) /\ c \notin PrefixAgain

\* The disassembler steps over exactly the bytes of an instruction, and knows of every
\* instruction after which the program may go on elsewhere.
DecodesAsZ80(prefix, c) ==
  /\ prefix = "none" /\ c \notin {\hCB, \hDD, \hED, \hFD} => Decode(prefix, c) = Z80Main(c)
  /\ prefix = "ED" /\ IsZ80Extended(c) => Decode(prefix, c) = Z80Extended(c)
  /\ prefix \in {"DD", "FD"} /\ IsIndexed(c) => Decode(prefix, c) = Z80Indexed(c)
  /\ prefix = "CB" => Decode(prefix, c).length = 2
  /\ prefix \in {"DDCB", "FDCB"} => Decode(prefix, c).length = 4
==============================================================================
