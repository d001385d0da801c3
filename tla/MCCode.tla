-------------------------------- MODULE MCCode --------------------------------
(***************************************************************************)
(* How the program is read, for TLC: the disassembly, and the algorithms   *)
(* of MCAlgorithms.  Each is explored by itself: "kind" says which.  The   *)
(* disassembler has six addresses, a slot with a single bank below and one *)
(* with two banks above, many programs that stop once and a few that stop  *)
(* several times.                                                          *)
(***************************************************************************)
EXTENDS Disassembly

VARIABLES kind, question

AL == INSTANCE MCAlgorithms WITH input <- question

NoDisassembly ==
  /\ program = {} /\ memory = {} /\ paged = {} /\ stack = <<>> /\ traced = {} /\ userLabels = {}
  /\ slots = {} /\ mem = {} /\ longPcAddressesHistory = {} /\ longCallStackAddresses = {}
  /\ graph = {} /\ at = "" /\ asked = <<>> /\ required = FALSE /\ failed = FALSE
  /\ shown = FALSE /\ stops = 0

MCInit ==
  \/ AL!Init /\ NoDisassembly
  \/ kind = "disassembly" /\ question = {} /\ Init

MCNext ==
  \/ kind = "disassembly" /\ Next /\ UNCHANGED <<kind, question>>
  \/ kind # "disassembly" /\ AL!Next /\ UNCHANGED vars

MCSpec == MCInit /\ [][MCNext]_<<kind, question, vars>>

------------------------------------------------------------------------------
(* The nodes of the graph tile the code, no two places have the same       *)
(* label, and a PC that was shown stays in the disassembly.                *)
CodeIsShown == NodesTileTheCode /\ LabelsIdentify /\ SeenPcStays

(* Opcodes are decoded as the Z80 does, a step stops where the instruction *)
(* can continue, and the call stack's frames are the words on the stack.   *)
CodeIsUnderstood == AL!OpcodesAreZ80 /\ AL!StepsStop /\ AL!StackIsTiled

(* What the remotes deliver, what the listings say and what the user types *)
(* is read as it was written; a memory view has every cell asked for, and  *)
(* the panes every byte of a struct.                                       *)
FormatsAreRead ==
  /\ AL!PrintedIsParsed /\ AL!MameSetsOnly /\ AL!DecodersRead
  /\ AL!ListingIsUnderstood /\ AL!LabelsLead /\ AL!CellsAreShown
  /\ AL!ValuesAreKept /\ AL!VariablesAreShown

------------------------------------------------------------------------------
MCAddr == 0..5
SlotOf == [a \in MCAddr |-> IF a < 4 THEN 0 ELSE 1]

Nop == Instr(1, {}, 0)
Word == Instr(2, {}, 0)
Ret == Instr(1, {"RET", "STOP"}, 0)
RetCc == Instr(1, {"RET", "CONDITIONAL"}, 0)
Jr(a) == Instr(2, {"BRANCH_ADDRESS", "STOP"}, a)
JrCc(a) == Instr(2, {"BRANCH_ADDRESS", "CONDITIONAL"}, a)
Call(a) == Instr(2, {"BRANCH_ADDRESS", "CALL"}, a)
Load(a) == Instr(2, {"DATA"}, a)

Kinds == {Nop, RetCc, Ret, Load(2)} \cup {f : f \in {Jr(a) : a \in {0, 3, 4}}}
           \cup {JrCc(a) : a \in {0, 1, 2}} \cup {Call(a) : a \in {1, 2, 3}}

Upper(bank) == IF bank = 0 THEN <<Nop, Ret>> ELSE <<Jr(0), Ret>>
Memory(lower) == [bank \in {0, 1} |-> [a \in MCAddr |-> IF a < 4 THEN lower[a + 1] ELSE Upper(bank)[a - 3]]]

Wide == {Memory(<<i, j, k, l>>) : i, k \in Kinds, j \in {Nop, Ret, Jr(0), JrCc(3)}, l \in {Ret, Nop, Call(1)}}
Deep == Memory(<<Nop, Jr(4), Ret, Nop>>)
Deeper == Memory(<<Call(3), Ret, Nop, Ret>>)

MCPrograms == Wide \cup {Deep, Deeper}
MCPatches == {<<0, Ret>>, <<1, Jr(3)>>}
MCStops(p) == CASE p = Deeper -> 3 [] p = Deep -> 2 [] OTHER -> 1
==============================================================================
