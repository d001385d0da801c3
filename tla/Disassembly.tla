----------------------------- MODULE Disassembly -----------------------------
(***************************************************************************)
(* The disassembly that a stack trace request brings up to date.  It keeps *)
(* a copy of the 64k memory, the slots it was read with, the PCs seen so   *)
(* far and addresses of call stacks; a new flow graph is made only when    *)
(* something says that the last one does not do.  The remote is asked up   *)
(* to three times on the way: meanwhile the user may refresh, reload or    *)
(* run on, and a stack trace asked for then is answered with this one.     *)
(***************************************************************************)
EXTENDS SmartDisassembler

CONSTANTS
  Pages,      \* the banks of a slot that has several
  Programs,   \* the memories: Programs is a set of functions Pages -> Addr -> instruction
  Patches,    \* what a program may write into itself: addresses and instructions
  Callers,    \* addresses found on the stack, and executed before the last stop
  StopsOf(_), \* bound: how often a program stops, or the user refreshes
  Skips       \* the SKIPs of the user

VARIABLES
  program,                 \* the memory it started with
  memory,                  \* the memory of the emulator, for every bank
  paged,                   \* the bank that is paged in
  stack,                   \* long addresses: the PC and then the call stack
  traced,                  \* long addresses the emulator knows to be executed
  userLabels,              \* labels of the user, 64k addresses
  slots,                   \* the slots of the last disassembly, None if there is none
  mem,                     \* the 64k memory it was made of
  longPcAddressesHistory,
  longCallStackAddresses,
  graph,                   \* the flow graph
  at,                      \* the await setNewAddresses is at, "idle" if it does not run
  asked,                   \* the long addresses it was called with
  required,                \* its disasmRequired
  failed,                  \* history: it failed, and no graph has been made since
  shown,                   \* the stack traces asked for are answered: the user sees it
  stops

emulator == <<program, memory, paged, stack, traced, userLabels, stops>>
disassembly == <<slots, mem, longPcAddressesHistory, longCallStackAddresses, graph>>
call == <<at, asked, required, failed>>
vars == <<emulator, disassembly, call, shown>>

\* a refresh leaves an empty list of slots: it differs from every list, and no long
\* address is made with it; without slots those of the registers are taken
NoSlots == -2

\* Z80Registers.createLongAddress
Long(a, bank) == <<a, IF SlotAt[a] \in Single THEN 0 ELSE bank>>
PagedIn(A, bank) ==
  IF bank = NoSlots THEN {}
  ELSE {l[1] : l \in {k \in A : k = Long(k[1], IF bank = None THEN paged ELSE bank)}}

NoGraph == [code |-> {}, first |-> {}, comments |-> {}, nodes |-> <<>>, marked |-> {},
            blocks |-> <<>>, labels |-> <<>>, otherLabels |-> {}]

Init ==
  /\ program \in Programs
  /\ memory = program
  /\ paged \in Pages
  /\ stack \in {<<Long(a, paged)>> : a \in Addr}
  /\ traced = {}
  /\ userLabels \in {{}, {1}}
  /\ slots = None
  /\ mem = [a \in Addr |-> Instr(1, {}, 0)]
  /\ longPcAddressesHistory = {}
  /\ longCallStackAddresses = {}
  /\ graph = NoGraph
  /\ at = "idle"
  /\ asked = <<>>
  /\ required = FALSE
  /\ failed = FALSE
  /\ shown = FALSE
  /\ stops = 1

\* the program runs on, may change itself and page, and stops elsewhere
RunAndStop ==
  /\ stops < StopsOf(program)
  /\ stops' = stops + 1
  /\ \E bank \in Pages : paged' = bank
  /\ \E a \in Addr, caller \in {<<>>} \cup {<<Long(b, paged')>> : b \in Callers} :
       stack' = <<Long(a, paged')>> \o caller
  /\ \/ memory' = memory
     \/ \E p \in Patches : memory' = [b \in Pages |-> [memory[b] EXCEPT ![p[1]] = p[2]]]
  /\ \/ traced' = {}
     \/ \E a \in Callers : traced' = {Long(a, paged')}
  /\ shown' = FALSE
  /\ UNCHANGED <<disassembly, call, program, userLabels>>

\* a stack trace: other slots need another memory, else the byte at the PC is looked at
setNewAddresses ==
  /\ at = "idle"
  /\ ~shown
  /\ asked' = stack
  /\ slots' = paged
  /\ required' = (slots # paged)
  /\ at' = IF slots # paged THEN "memory" ELSE "byte"
  /\ UNCHANGED <<emulator, mem, longPcAddressesHistory, longCallStackAddresses, graph, failed,
                 shown>>

\* a new graph, if one is required, and the answer to the stack trace
Disassemble(newMem, attributes, addresses, needed) ==
  /\ at' = "idle"
  /\ shown' = TRUE
  /\ graph' = IF needed
              THEN getFlowGraph(newMem, PagedIn(addresses, slots), userLabels, Skips)
              ELSE attributes
  /\ failed' = (failed /\ ~needed)
  /\ required' = FALSE
  /\ asked' = <<>>

\* the PC and the callers that are not known are added; before an unknown instruction the
\* emulator is asked where the program came from
AddAddresses(newMem, attributes, needed) ==
  LET pc == asked[1]
      callers64k == {l \in ToSet(Tail(asked)) :
                       SlotAt[l[1]] \in Single /\ l[1] \notin attributes.first}
      unknown == needed \/ pc[1] \notin attributes.first \/ callers64k # {}
  IN /\ longPcAddressesHistory' = IF pc[1] \in attributes.first THEN longPcAddressesHistory
                                  ELSE longPcAddressesHistory \cup {pc}
     /\ longCallStackAddresses' = longCallStackAddresses \cup callers64k
     /\ mem' = newMem
     /\ IF (pc[1] - 1) % (LastAddr + 1) \in attributes.code
        THEN Disassemble(newMem, attributes,
                         longPcAddressesHistory' \cup longCallStackAddresses', unknown)
        ELSE /\ at' = "trace"
             /\ graph' = attributes
             /\ required' = unknown
             /\ UNCHANGED <<asked, failed, shown>>
     /\ UNCHANGED <<emulator, slots>>

\* the first byte of an instruction: its operand does not show
FirstByte(op) == <<op.length, op.flags>>

\* the byte at the PC has come
ByteRead ==
  LET a == asked[1][1]
      same == FirstByte(memory[paged][a]) = FirstByte(mem[a])
  IN /\ at = "byte"
     /\ \/ same /\ AddAddresses(mem, graph, FALSE)
        \/ /\ ~same
           /\ at' = "memory"
           /\ required' = TRUE
           /\ UNCHANGED <<emulator, disassembly, asked, failed, shown>>

\* the 64k memory has come; nothing is known of it
fetch64kMemory ==
  /\ at = "memory"
  /\ AddAddresses(memory[paged], [graph EXCEPT !.first = {}, !.code = {}], TRUE)

\* the addresses the program came along have come
TraceRead ==
  /\ at = "trace"
  /\ Disassemble(mem, graph, traced \cup longPcAddressesHistory \cup longCallStackAddresses,
                 required)
  /\ UNCHANGED <<emulator, slots, mem, longPcAddressesHistory, longCallStackAddresses>>

\* the remote does not answer: the user is told, and the stack trace goes without
Fail ==
  /\ at # "idle"
  /\ at' = "idle"
  /\ shown' = TRUE
  /\ failed' = TRUE
  /\ required' = FALSE
  /\ asked' = <<>>
  /\ UNCHANGED <<emulator, disassembly>>

\* the user reloads the labels: the next stack trace makes a new disassembly
invalidateDisassembly ==
  /\ stops < StopsOf(program)
  /\ stops' = stops + 1
  /\ \E labels \in {{}, {1}, {2}} : userLabels' = labels
  /\ slots' = None
  /\ shown' = FALSE
  /\ UNCHANGED <<program, memory, paged, stack, traced, mem, longPcAddressesHistory,
                 longCallStackAddresses, graph, call>>

\* the user refreshes the disassembly by hand
prepareRefresh ==
  /\ stops < StopsOf(program)
  /\ stops' = stops + 1
  /\ longCallStackAddresses' = {}
  /\ slots' = NoSlots
  /\ shown' = FALSE
  /\ UNCHANGED <<program, memory, paged, stack, traced, userLabels, mem, longPcAddressesHistory,
                 graph, call>>

Next ==
  \/ RunAndStop \/ invalidateDisassembly \/ prepareRefresh
  \/ setNewAddresses \/ ByteRead \/ fetch64kMemory \/ TraceRead \/ Fail

Spec == Init /\ [][Next]_vars

------------------------------------------------------------------------------
(* Properties                                                               *)

Range64k(a, length) == a..(a + length - 1)
Unambiguous == \A c \in graph.comments : c.kind # "ambiguous"

\* Every byte of code belongs to a block, so that partitionBlocks leaves nothing for the
\* assertions in assignLocalLabels and assignOpcodeReferenceLabels to trip over; and when
\* the disassembly does not say that it is ambiguous, to one node only.
NodesTileTheCode ==
  shown =>
    /\ \A a \in graph.code : graph.blocks[a] # None
    /\ \A a \in DOMAIN graph.nodes : graph.blocks[a] # None
    /\ Unambiguous =>
         \A a, b \in DOMAIN graph.nodes :
           a < b => Range64k(a, graph.nodes[a].length) \cap Range64k(b, graph.nodes[b].length) = {}

\* Whatever instruction branches to an address of the graph finds a label there, and no two
\* addresses have the same.
LabelsIdentify ==
  shown =>
    /\ \A a, b \in DOMAIN graph.labels :
         a # b /\ graph.labels[a] # NoLabel => graph.labels[a] # graph.labels[b]
    /\ \A a \in DOMAIN graph.nodes :
         \/ graph.labels[a] # NoLabel
         \/ /\ callers(graph.nodes, a) = {}
            /\ \A p \in PredecessorStarts(graph.nodes, a) : p + graph.nodes[p].length = a

\* A PC the disassembly was made for stays in it: whatever the call stack or the trace adds
\* and whatever is refreshed, the user who comes back finds the line.  A refresh, or a run
\* into another bank, that falls into the making of a disassembly leaves it with slots that
\* are not the machine's until the next stack trace; one that failed is behind until the next
\* graph is made.
SeenPcStays ==
  shown /\ Unambiguous /\ slots = paged /\ ~failed =>
    PagedIn(longPcAddressesHistory, paged) \subseteq graph.code
==============================================================================
