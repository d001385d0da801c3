-------------------------- MODULE SmartDisassembler --------------------------
(***************************************************************************)
(* The flow graph of the smart disassembler.  From some start addresses it *)
(* follows the flow of the program and makes a node of every address that  *)
(* is branched to, fills the nodes with instructions and edges, marks the  *)
(* subroutines, joins adjacent nodes to blocks and names them.  A memory   *)
(* maps every address to the instruction that is decoded there; that the   *)
(* bytes of an instruction decode to others is part of it.                 *)
(***************************************************************************)
EXTENDS Integers, Sequences, FiniteSets, SequencesExt

CONSTANTS
  Addr,    \* the 64k addresses, an interval that starts at 0
  SlotAt,  \* SlotAt[a]: the slot of an address
  Single   \* the slots that have only one bank

LastAddr == CHOOSE a \in Addr : \A b \in Addr : b <= a
None == -1

\* an instruction: its length, its flags, the address it branches or refers to
Instr(length, flags, value) == [length |-> length, flags |-> flags, value |-> value]
Is(op, flag) == flag \in op.flags

bankBorderPassed(startSlot, address) ==
  address \in Addr => SlotAt[address] # startSlot /\ SlotAt[address] \notin Single

Comment(at, kind, about) == [at |-> at, kind |-> kind, about |-> about]

\* data that follows an instruction, given by the user (SKIP): one byte each
RECURSIVE AfterSkips(_, _)
AfterSkips(skips, a) == IF a \in skips THEN AfterSkips(skips, a + 1) ELSE a

------------------------------------------------------------------------------
(* Nodes: g is the graph in the making                                      *)

createNodeInMap(g, a) == [g EXCEPT !.order = Append(@, a)]
HasNode(g, a) == \E i \in DOMAIN g.order : g.order[i] = a

\* the instructions of a new node: up to a branch, the end, or code already seen
RECURSIVE Sweep(_, _, _, _)
Sweep(mem, g, slot, a) ==
  LET op   == mem[a]
      next == a + op.length
      seen == {b \in (a + 1)..(next - 1) : b \in g.code}
      h    == [g EXCEPT !.code = @ \cup ((a..(next - 1)) \cap Addr), !.first = @ \cup {a}]
      Push(s) == [h EXCEPT !.todo = @ \o SelectSeq(s, LAMBDA b : ~bankBorderPassed(slot, b))]
  IN CASE seen # {} -> [h EXCEPT !.comments = @ \cup {Comment(a, "ambiguous", Min(seen))}]
       [] seen = {} /\ Is(op, "BRANCH_ADDRESS") ->
            Push((IF Is(op, "STOP") THEN <<>> ELSE <<AfterSkips(g.skips, next)>>) \o <<op.value>>)
       [] OTHER ->
            CASE next > LastAddr -> h
              [] next <= LastAddr /\ Is(op, "RET") /\ Is(op, "CONDITIONAL") -> Push(<<next>>)
              [] OTHER -> IF next \in g.code \/ Is(op, "STOP") \/ bankBorderPassed(slot, next)
                          THEN h ELSE Sweep(mem, h, slot, next)

\* the addresses found on the way are looked at in turn
RECURSIVE createNodeForAddress(_, _, _)
createNodeForAddress(mem, g, i) ==
  IF i > Len(g.todo) THEN g
  ELSE LET a == g.todo[i]
       IN createNodeForAddress(mem,
            CASE HasNode(g, a) -> g
              [] ~HasNode(g, a) /\ a \in g.first -> createNodeInMap(g, a)
              [] ~HasNode(g, a) /\ a \in g.code \ g.first ->
                   [g EXCEPT !.comments = @ \cup {Comment(a, "ambiguous", a)}]
              [] OTHER -> Sweep(mem, createNodeInMap(g, a), SlotAt[a], a),
            i + 1)

\* mutant: only the first address is followed
createNodesFirst(mem, g, addresses) ==
  IF addresses = {} THEN g ELSE createNodeForAddress(mem, [g EXCEPT !.todo = <<Min(addresses)>>], 1)

createNodes(mem, g, addresses) ==
  FoldLeft(LAMBDA h, a :
             CASE a \in h.first -> h
               [] a \in h.code \ h.first ->
                    [h EXCEPT !.comments = @ \cup {Comment(a, "ambiguous", a)}]
               [] OTHER -> createNodeForAddress(mem, [h EXCEPT !.todo = <<a>>], 1),
           g, SetToSortSeq(addresses, <))

\* a label at an instruction makes a node of it, any other label is kept aside
createNodesForLabels(g, labels) ==
  FoldLeft(LAMBDA h, a :
             IF a \notin h.first THEN [h EXCEPT !.otherLabels = @ \cup {a}]
             ELSE [(IF HasNode(h, a) THEN h ELSE createNodeInMap(h, a)) EXCEPT !.userLabels = @ \cup {a}],
           g, SetToSortSeq(labels, <))

------------------------------------------------------------------------------
(* Filling: a node's instructions, callee and the nodes it goes on to       *)

\* a node of the graph, or a stand-in that is in no map
getNodeForFill(g, slot, target) ==
  [start |-> target, real |-> ~bankBorderPassed(slot, target) /\ HasNode(g, target)]

RECURSIVE Fill(_, _, _, _)
Fill(mem, g, n, a) ==
  LET op   == mem[a]
      next == a + op.length
      slot == SlotAt[n.start]
      To(b) == getNodeForFill(g, slot, b)
      data == IF Is(op, "DATA") THEN n.data \cup {op.value} ELSE n.data
      m    == [n EXCEPT !.instructions = Append(@, a), !.length = next - n.start, !.data = data,
                        !.stop = Is(op, "STOP"), !.isSubroutine = @ \/ Is(op, "RET")]
      onTo == IF Is(op, "STOP") THEN next ELSE AfterSkips(g.skips, next)
  IN CASE Is(op, "BRANCH_ADDRESS") ->
            [m EXCEPT !.length = onTo - n.start,
                      !.callee = IF Is(op, "CALL") THEN To(op.value) ELSE @,
                      !.branchNodes =
                         (IF Is(op, "STOP") \/ onTo > LastAddr THEN <<>> ELSE <<To(onTo)>>)
                         \o (IF Is(op, "CALL") THEN <<>> ELSE <<To(op.value)>>)]
       [] ~Is(op, "BRANCH_ADDRESS") /\ (Is(op, "STOP") \/ next > LastAddr) -> m
       [] OTHER ->
            CASE HasNode(g, next) -> [m EXCEPT !.branchNodes = <<[start |-> next, real |-> TRUE]>>]
              [] ~HasNode(g, next) /\ \E b \in (a + 1)..(next - 1) : b \in g.first -> m
              [] OTHER -> IF bankBorderPassed(slot, next)
                          THEN [m EXCEPT !.branchNodes = <<To(next)>>]
                          ELSE Fill(mem, g, m, next)

NoNode == [start |-> None, real |-> FALSE]

EmptyNode(a) ==
  [start |-> a, length |-> 0, instructions |-> <<>>, branchNodes |-> <<>>, callee |-> NoNode,
   data |-> {}, stop |-> FALSE, isSubroutine |-> FALSE]

fillNodes(mem, g) == [a \in ToSet(g.order) |-> Fill(mem, g, EmptyNode(a), a)]

\* edges seen from the target, once for every edge
predecessors(nodes, a) ==
  {<<b, i>> \in (DOMAIN nodes) \X (1..2) :
     i \in DOMAIN nodes[b].branchNodes /\ nodes[b].branchNodes[i] = [start |-> a, real |-> TRUE]}
callers(nodes, a) == {b \in DOMAIN nodes : nodes[b].callee = [start |-> a, real |-> TRUE]}

PredecessorStarts(nodes, a) == {p[1] : p \in predecessors(nodes, a)}
Successors(nodes, a) ==
  {nodes[a].branchNodes[i].start : i \in {j \in DOMAIN nodes[a].branchNodes : nodes[a].branchNodes[j].real}}

\* the nodes before A that are not yet marked
RECURSIVE Backwards(_, _, _)
Backwards(nodes, marked, A) ==
  LET more == UNION {PredecessorStarts(nodes, a) : a \in A} \ (A \cup marked)
  IN IF more = {} THEN A ELSE Backwards(nodes, marked, A \cup more)

markPredecessorsAsSubroutine(nodes, marked, a) ==
  IF a \in marked THEN marked ELSE marked \cup Backwards(nodes, marked, {a})

markSubroutines(nodes, order) ==
  FoldLeft(LAMBDA marked, a :
             CASE a \in marked ->
                    FoldSet(LAMBDA p, m : markPredecessorsAsSubroutine(nodes, m, p),
                            marked, PredecessorStarts(nodes, a))
               [] a \notin marked /\ callers(nodes, a) # {} -> marked \cup {a}
               [] OTHER -> marked,
           {a \in DOMAIN nodes : nodes[a].isSubroutine}, order)

------------------------------------------------------------------------------
(* Blocks and labels                                                        *)

RECURSIVE getBranchesRecursive(_, _)
getBranchesRecursive(nodes, A) ==
  LET more == UNION {Successors(nodes, a) : a \in A} \ A
  IN IF more = {} THEN A ELSE getBranchesRecursive(nodes, A \cup more)

\* the block of a code address is the first of its adjacent nodes
partitionBlocks(nodes) ==
  FoldLeft(LAMBDA s, a :
             LET new  == \/ a # s.addr
                         \/ callers(nodes, a) # {}
                         \/ a \notin s.branches
                 head == IF new THEN a ELSE s.blockNode
                 end  == a + nodes[a].length
             IN [blockNode |-> head, addr |-> end,
                 branches  |-> IF new THEN getBranchesRecursive(nodes, Successors(nodes, a)) ELSE s.branches,
                 blocks    |-> [b \in Addr |-> IF b \in a..(end - 1) THEN head ELSE s.blocks[b]]],
           [blockNode |-> None, addr |-> None, branches |-> {}, blocks |-> [b \in Addr |-> None]],
           SetToSortSeq(DOMAIN nodes, <)).blocks

\* mutant: one predecessor is always the node before
otherReferenceMany(nodes, a) == callers(nodes, a) # {} \/ Cardinality(predecessors(nodes, a)) > 1

\* referred to other than by the flow from the node before it
otherReference(nodes, a) ==
  LET preds == predecessors(nodes, a)
  IN \/ callers(nodes, a) # {}
     \/ Cardinality(preds) = 1 /\ \E p \in preds :
          p[1] + nodes[p[1]].length = a => nodes[p[1]].stop
     \/ Cardinality(preds) > 1

\* the start of a loop through nodes that are not before it
RECURSIVE LoopTo(_, _, _)
LoopTo(nodes, target, A) ==
  LET more == {p \in UNION {PredecessorStarts(nodes, a) : a \in A} : p >= target} \ A
  IN IF more = {} THEN A ELSE LoopTo(nodes, target, A \cup more)
isLoopRoot(nodes, a) ==
  \E b \in LoopTo(nodes, a, {p \in PredecessorStarts(nodes, a) : p >= a}) : b = a

RECURSIVE NodesOfBlock(_, _, _, _)
NodesOfBlock(nodes, blocks, head, a) ==
  LET next == a + nodes[a].length
  IN IF next \in Addr /\ blocks[next] = head
     THEN <<a>> \o NodesOfBlock(nodes, blocks, head, next)
     ELSE <<a>>

Label(kind, name, index) == [kind |-> kind, name |-> name, index |-> index]
NoLabel == Label("", None, 0)

\* the global label of a block
BlockLabel(nodes, marked, userLabels, a) ==
  CASE a \in userLabels -> Label("user", a, 0)
    [] a \notin userLabels /\ callers(nodes, a) = {} /\ predecessors(nodes, a) = {} -> NoLabel
    [] OTHER -> Label(IF a \in marked THEN "SUB" ELSE "LBL", a, 0)

\* The nodes of a block with other references get numbers, loops and others apart, and
\* names of their own when the block has none.
assignLocalLabels(nodes, blocks, userLabels, head, headLabel) ==
  LET named  == SelectSeq(NodesOfBlock(nodes, blocks, head, head),
                          LAMBDA a : /\ otherReference(nodes, a)
                                     /\ IF a = head THEN headLabel = NoLabel ELSE a \notin userLabels)
      loops  == SelectSeq(named, LAMBDA a : isLoopRoot(nodes, a))
      locals == SelectSeq(named, LAMBDA a : ~isLoopRoot(nodes, a))
      Place(s, a) == CHOOSE i \in DOMAIN s : s[i] = a
  IN [a \in ToSet(named) |->
        CASE headLabel = NoLabel -> Label("LBL", a, 0)
          [] headLabel # NoLabel /\ a \in ToSet(loops) ->
               Label("LOOP", head, IF Len(loops) = 1 THEN 0 ELSE Place(loops, a))
          [] OTHER -> Label("L", head, Place(locals, a))]

assignNodeLabels(nodes, blocks, marked, userLabels) ==
  [a \in DOMAIN nodes |->
     LET head  == blocks[a]
         hl    == BlockLabel(nodes, marked, userLabels, head)
         local == assignLocalLabels(nodes, blocks, userLabels, head, hl)
     IN CASE a = head /\ hl # NoLabel -> hl
          [] a # head /\ a \in userLabels -> Label("user", a, 0)
          [] OTHER -> IF a \in DOMAIN local THEN local[a] ELSE NoLabel]

\* the addresses that instructions refer to as data; code that is referred to in the
\* middle of an instruction counts as the instruction
DataReferences(g, nodes, a) ==
  {IF d \in g.code THEN Max({b \in g.first : b <= d}) ELSE d : d \in nodes[a].data}

assignOpcodeReferenceLabels(g, nodes, labels) ==
  {d \in UNION {{r \in DataReferences(g, nodes, a) : ~bankBorderPassed(SlotAt[a], r)} : a \in DOMAIN nodes} :
     ~(d \in DOMAIN labels /\ labels[d] # NoLabel)}

------------------------------------------------------------------------------
getFlowGraph(mem, addresses, labels, skips) ==
  LET empty  == [order |-> <<>>, todo |-> <<>>, code |-> {}, first |-> {}, comments |-> {},
                 userLabels |-> {}, otherLabels |-> {}, skips |-> skips]
      g      == createNodesForLabels(createNodes(mem, empty, addresses), labels)
      nodes  == fillNodes(mem, g)
      marked == markSubroutines(nodes, g.order)
      blocks == partitionBlocks(nodes)
      names  == assignNodeLabels(nodes, blocks, marked, g.userLabels)
  IN [code |-> g.code, first |-> g.first, comments |-> g.comments, nodes |-> nodes,
      marked |-> marked, blocks |-> blocks, labels |-> names,
      otherLabels |-> g.otherLabels \cup assignOpcodeReferenceLabels(g, nodes, names)]

\* a subroutine: a node and the nodes it goes on to, not those it calls
Subroutine(nodes, a) == getBranchesRecursive(nodes, {a})
Callees(nodes, a) ==
  {nodes[b].callee.start : b \in {c \in Subroutine(nodes, a) : nodes[c].callee.real}}

==============================================================================
