---------------------------- MODULE ZesaruxRemote ----------------------------
(***************************************************************************)
(* ZesaruxRemote above its socket: requests of the debugger become text    *)
(* commands that ZEsarUX executes one after the other; a request awaits    *)
(* each answer, so that others come in between.  ZEsarUX has a table of    *)
(* numbered breakpoints with conditions; the last number is kept for the   *)
(* steps.  That a command interrupts a run is hidden in the socket.        *)
(***************************************************************************)
EXTENDS Integers, Sequences, FiniteSets, SequencesExt, FiniteSetsExt

CONSTANTS
  Files,          \* source files, with the lines 1 and 2
  Assertions,     \* the assertions of the sources
  MaxId,          \* MAX_USED_BREAKPOINTS (99)
  MaxLevel,       \* bound: the depth of calls
  MaxRequests     \* bound: how many requests there are

VARIABLES
  freeBreakpointIds, \* a stack of numbers
  breakpoints,       \* the list of the user's breakpoints: where, and the number
  bpId,              \* the number of each assertion, 0 for none
  tasks,             \* tasks[t]: what the request t has still to do
  queue,             \* the commands on their way to ZEsarUX
  condition, on,     \* ZEsarUX: the table of breakpoints, and those that are enabled
  running, level, pc, returned, \* the machine: calls it is in, where it is, whether by a return
  fired,             \* the numbers of the breakpoints that ended the run
  result,            \* how the last run or step ended
  used,              \* bound: how many requests there were
  restored, overlapped  \* history: a state was restored, two switches ran at the same time

brk   == <<freeBreakpointIds, breakpoints, bpId>>
mach  == <<running, level, pc, returned, fired>>
hist  == <<used, restored, overlapped>>
vars  == <<brk, tasks, queue, condition, on, mach, result, hist>>

StepId == MaxId + 1             \* STEP_BREAKPOINT_ID
Places == Files \X {1, 2}
Nowhere == <<"", 0>>
Requests == {"edit", "edit2", "switch", "switch2", "run", "restore"}
Idle == [ops |-> <<>>, waits |-> FALSE, id |-> 0]

\* what a request does, one after the other
Op(name, id, what) == [op |-> name, id |-> id, what |-> what]
Command(op) == op.op \in {"set-breakpoint", "enable-breakpoint", "disable-breakpoint", "clear", "run", "cpu-step", "get"}
AtPlace(p) == [kind |-> "pc", place |-> p, level |-> 0]
AtLevel(l) == [kind |-> "sp", place |-> Nowhere, level |-> l]       \* SP>=...
ReturnTo(l) == [kind |-> "ret", place |-> Nowhere, level |-> l]     \* PC=PEEKW(SP-2) AND SP>=...
None == AtPlace(Nowhere)
Get == Op("get", 0, None)

Init ==
  /\ freeBreakpointIds = [i \in 1..MaxId |-> MaxId + 1 - i]
  /\ breakpoints = {} /\ bpId = [a \in Assertions |-> 0]
  /\ tasks = [t \in Requests |-> Idle] /\ queue = <<>>
  /\ condition = [i \in 1..StepId |-> None] /\ on = {}
  /\ running = FALSE /\ level = 1 /\ pc = Nowhere /\ returned = FALSE /\ fired = {}
  /\ result = [kind |-> "none", from |-> 0, reason |-> {}, paused |-> FALSE]
  /\ used = 0
  /\ restored = FALSE /\ overlapped = FALSE

Busy(t) == tasks[t].ops # <<>>
Next1(t) == Head(tasks[t].ops)
Stopped == ~Busy("run")

Start(t, ops) ==
  /\ ~Busy(t) /\ used < MaxRequests
  /\ tasks' = [tasks EXCEPT ![t] = [Idle EXCEPT !.ops = ops]]
  /\ used' = used + 1

------------------------------------------------------------------------------
(* Requests                                                                 *)

\* setBreakpoints of a file: removals first, then what is new
setBreakpoints(t) ==
  \E f \in Files, given \in SUBSET {1, 2} :
    LET old     == {b \in breakpoints : b.place[1] = f}
        removed == SetToSeq({b \in old : b.place[2] \notin given})
        added   == SetToSeq({<<f, l>> : l \in given} \ {b.place : b \in old})
    IN /\ ~\E u \in {"edit", "edit2"} : Busy(u) /\ \E i \in DOMAIN tasks[u].ops : tasks[u].ops[i].what.place[1] = f
       /\ removed # <<>> \/ added # <<>>
       /\ Start(t,
                [i \in DOMAIN removed |-> Op("remove", removed[i].id, AtPlace(removed[i].place))]
                \o [i \in DOMAIN added |-> Op("take", 0, AtPlace(added[i]))])
       /\ UNCHANGED <<brk, queue, condition, on, mach, result, restored, overlapped>>

\* enableAssertionBreakpoints
enableAssertionBreakpoints(t, enable) ==
  /\ Start(t,
           LET as == SetToSeq(Assertions)
           IN [i \in DOMAIN as |-> Op(IF enable THEN "enable" ELSE "disable", 0, AtPlace(<<as[i], 0>>))])
  /\ overlapped' = (overlapped \/ Busy("switch") \/ Busy("switch2"))
  /\ UNCHANGED <<brk, queue, condition, on, mach, result, restored>>

Stepping(kind, ops) ==
  /\ Start("run", ops)
  /\ fired' = {}
  /\ result' = [kind |-> kind, from |-> level, reason |-> {}, paused |-> FALSE]
  /\ UNCHANGED <<brk, queue, condition, on, running, level, pc, returned, restored, overlapped>>

\* mutant: the breakpoint of the step stays
WithStepBreakpointKept(cond) ==
  <<Op("set-breakpoint", StepId, cond), Op("enable-breakpoint", StepId, None), Op("run", 0, None),
    Get, Op("resolve", 0, None)>>

\* how a run to a breakpoint of its own begins and ends
WithStepBreakpoint(cond) ==
  <<Op("set-breakpoint", StepId, cond), Op("enable-breakpoint", StepId, None), Op("run", 0, None),
    Get, Op("disable-breakpoint", StepId, None), Op("resolve", 0, None)>>

continue == Stepping("continue", <<Op("run", 0, None), Get, Op("resolve", 0, None)>>)

\* a step over a call runs until the stack is at the same height again
stepOver ==
  \/ Stepping("over", <<Get>> \o WithStepBreakpoint(AtLevel(level)))
  \/ Stepping("one", <<Get, Op("cpu-step", 0, None), Get, Op("resolve", 0, None)>>)

stepInto == Stepping("one", <<Op("cpu-step", 0, None), Get, Op("resolve", 0, None)>>)

\* the first call on the stack gives the height that its return leads to
stepOut ==
  Stepping("out", <<Get>> \o (IF level = 0 THEN <<Op("resolve", 0, None)>> ELSE WithStepBreakpoint(ReturnTo(level - 1))))

pause ==
  /\ running
  /\ running' = FALSE
  /\ result' = [result EXCEPT !.paused = TRUE]
  /\ UNCHANGED <<brk, tasks, queue, condition, on, level, pc, returned, fired, hist>>

\* stateRestore: all breakpoints of ZEsarUX are disabled, and all numbers are free
stateRestore ==
  /\ Stopped
  /\ Start("restore", <<Op("clear", 0, None), Op("renumber", 0, None), Get>>)
  /\ restored' = TRUE
  /\ UNCHANGED <<brk, queue, condition, on, mach, result, overlapped>>

------------------------------------------------------------------------------
(* What a request does between two answers                                  *)

Do(t, ops) == tasks' = [tasks EXCEPT ![t].ops = ops \o Tail(@)]
Holds(t, name) == Busy(t) /\ ~tasks[t].waits /\ Next1(t).op = name

Set(id, what) == <<Op("set-breakpoint", id, what), Op("enable-breakpoint", id, None)>>

\* mutant: the number is taken when the breakpoint has been set
setBreakpointZesaruxLate(t, then) ==
  LET what == Next1(t).what
  IN IF freeBreakpointIds = <<>> THEN Do(t, <<>>) /\ UNCHANGED freeBreakpointIds
     ELSE /\ Do(t, Set(Last(freeBreakpointIds), what) \o <<Op(then, Last(freeBreakpointIds), what)>>)
          /\ IF then = "listed" THEN freeBreakpointIds' = Front(freeBreakpointIds) ELSE UNCHANGED freeBreakpointIds

\* setBreakpointZesarux: takes a number, if there is one
setBreakpointZesarux(t, then) ==
  LET what == Next1(t).what
      id   == Last(freeBreakpointIds)
  IN IF freeBreakpointIds = <<>> THEN Do(t, <<>>) /\ UNCHANGED freeBreakpointIds
     ELSE /\ Do(t, Set(id, what) \o <<Op(then, id, what)>>)
          /\ freeBreakpointIds' = Front(freeBreakpointIds)

\* mutant: the number is free before the breakpoint is disabled
removeBreakpointZesaruxEarly(t, id, then) ==
  Do(t, <<Op("free", id, None), Op("disable-breakpoint", id, None), Op(then, id, Next1(t).what)>>)

\* removeBreakpointZesarux
removeBreakpointZesarux(t, id, then) ==
  Do(t, <<Op("disable-breakpoint", id, None), Op("free", id, None), Op(then, id, Next1(t).what)>>)

Local(t) ==
  /\ \/ Holds(t, "take") /\ setBreakpointZesarux(t, "listed") /\ UNCHANGED <<breakpoints, bpId>>
     \/ /\ Holds(t, "listed") /\ Do(t, <<>>)
        /\ breakpoints' = breakpoints \cup {[place |-> Next1(t).what.place, id |-> Next1(t).id]}
        /\ UNCHANGED <<freeBreakpointIds, bpId>>
     \/ Holds(t, "remove") /\ removeBreakpointZesarux(t, Next1(t).id, "unlisted") /\ UNCHANGED brk
     \/ /\ Holds(t, "unlisted") /\ Do(t, <<>>)
        /\ breakpoints' = breakpoints \ {[place |-> Next1(t).what.place, id |-> Next1(t).id]}
        /\ UNCHANGED <<freeBreakpointIds, bpId>>
     \/ /\ Holds(t, "free") /\ Do(t, <<>>)
        /\ freeBreakpointIds' = Append(freeBreakpointIds, Next1(t).id)
        /\ UNCHANGED <<breakpoints, bpId>>
     \/ /\ Holds(t, "enable")
        /\ IF bpId[Next1(t).what.place[1]] = 0 THEN setBreakpointZesarux(t, "numbered")
           ELSE Do(t, <<>>) /\ UNCHANGED freeBreakpointIds
        /\ UNCHANGED <<breakpoints, bpId>>
     \/ /\ Holds(t, "disable")
        /\ LET id == bpId[Next1(t).what.place[1]]
           IN IF id # 0 THEN removeBreakpointZesarux(t, id, "unnumbered") ELSE Do(t, <<>>)
        /\ UNCHANGED brk
     \/ /\ Holds(t, "numbered") /\ Do(t, <<>>)
        /\ bpId' = [bpId EXCEPT ![Next1(t).what.place[1]] = Next1(t).id]
        /\ UNCHANGED <<freeBreakpointIds, breakpoints>>
     \/ /\ Holds(t, "unnumbered") /\ Do(t, <<>>)
        /\ bpId' = [bpId EXCEPT ![Next1(t).what.place[1]] = 0]
        /\ UNCHANGED <<freeBreakpointIds, breakpoints>>
     \/ /\ Holds(t, "renumber") /\ Do(t, <<>>)
        /\ freeBreakpointIds' = [i \in 1..MaxId |-> MaxId + 1 - i]
        /\ UNCHANGED <<breakpoints, bpId>>
  /\ UNCHANGED <<queue, condition, on, mach, result, hist>>

\* the promise of a run or step: a stop at the height that was waited for has no reason
resolve ==
  /\ Holds("run", "resolve") /\ Do("run", <<>>)
  /\ result' = [result EXCEPT !.reason =
       CASE result.kind = "over" -> IF level > result.from THEN fired ELSE {}
         [] result.kind = "out"  -> IF result.from > 0 /\ (level > result.from - 1 \/ ~returned) THEN fired ELSE {}
         [] OTHER                -> fired]
  /\ UNCHANGED <<brk, queue, condition, on, mach, hist>>

Send(t) ==
  /\ Busy(t) /\ ~tasks[t].waits /\ Command(Next1(t))
  /\ queue' = Append(queue, t)
  /\ tasks' = [tasks EXCEPT ![t].waits = TRUE]
  /\ UNCHANGED <<brk, condition, on, mach, result, hist>>

------------------------------------------------------------------------------
(* ZEsarUX                                                                  *)

Answered(t) == tasks' = [tasks EXCEPT ![t].waits = FALSE, ![t].ops = Tail(@)]

Execute ==
  /\ queue # <<>>
  /\ LET t  == Head(queue)
         op == Next1(t)
     IN /\ queue' = Tail(queue)
        /\ condition' = IF op.op = "set-breakpoint" THEN [condition EXCEPT ![op.id] = op.what] ELSE condition
        /\ on' = CASE op.op = "enable-breakpoint"  -> on \cup {op.id}
                   [] op.op = "disable-breakpoint" -> on \ {op.id}
                   [] op.op = "clear"              -> {}
                   [] OTHER                        -> on
        /\ IF op.op = "run" THEN running' = TRUE /\ UNCHANGED tasks ELSE Answered(t) /\ UNCHANGED running
        /\ level' \in IF op.op = "cpu-step" THEN {level - 1, level, level + 1} \cap (0..MaxLevel) ELSE {level}
  /\ UNCHANGED <<brk, pc, returned, fired, result, hist>>

\* where the machine is after an instruction, and what that fires
Matches(c) ==
  CASE c.kind = "pc"  -> c.place = pc'
    [] c.kind = "sp"  -> level' <= c.level
    [] c.kind = "ret" -> returned' /\ level' <= c.level

Instruction ==
  /\ running
  /\ level' \in {level - 1, level, level + 1} \cap (0..MaxLevel)
  /\ pc' \in {Nowhere} \cup Places
  /\ returned' = (level' < level)
  /\ fired' = {i \in on : condition[i] # None /\ Matches(condition[i])}
  /\ running' = (fired' = {})
  /\ UNCHANGED <<brk, tasks, queue, condition, on, result, hist>>

RunEnds ==
  /\ Busy("run") /\ tasks["run"].waits /\ Next1("run").op = "run" /\ ~running /\ "run" \notin Range(queue)
  /\ Answered("run")
  /\ pc' = Nowhere
  /\ UNCHANGED <<brk, queue, condition, on, running, level, returned, fired, result, hist>>

Next ==
  \/ \E t \in {"edit", "edit2"} : setBreakpoints(t)
  \/ \E t \in {"switch", "switch2"}, enable \in BOOLEAN : enableAssertionBreakpoints(t, enable)
  \/ continue \/ stepOver \/ stepInto \/ stepOut \/ pause
  \/ stateRestore
  \/ \E t \in Requests : Local(t) \/ Send(t)
  \/ resolve \/ Execute \/ Instruction \/ RunEnds

Spec == Init /\ [][Next]_vars

------------------------------------------------------------------------------
(* Properties                                                               *)

InUse == {b.id : b \in breakpoints} \cup ({bpId[a] : a \in Assertions} \ {0})
Editing(b) == \E t \in {"edit", "edit2"} : Busy(t) /\ \E i \in DOMAIN tasks[t].ops : tasks[t].ops[i].id = b.id

\* Whatever edits, steps and one switch run at the same time, a listed breakpoint that none of them
\* works on is enabled in ZEsarUX under its number with its own condition (no state restored).  Two
\* switches at once may both remove an assertion: its number is then free twice, and given twice.
ListedIsSet ==
  ~restored /\ ~overlapped => \A b \in breakpoints : Editing(b) \/ (b.id \in on /\ condition[b.id] = AtPlace(b.place))

\* Between requests each number is free, or belongs to one breakpoint or assertion: none is
\* lost, none is given twice (switches one after the other, no state restored).
NumbersAreKept ==
  (~restored /\ ~overlapped /\ \A t \in Requests \ {"run"} : ~Busy(t)) =>
    /\ InUse \cup Range(freeBreakpointIds) = 1..MaxId
    /\ InUse \cap Range(freeBreakpointIds) = {}
    /\ Cardinality(Range(freeBreakpointIds)) = Len(freeBreakpointIds)
    /\ \A b, c \in breakpoints : b.id = c.id => b = c
    /\ \A b \in breakpoints, a \in Assertions : b.id # bpId[a]

\* A step over a call that ends without a reason is back at its height, a step out is out of the
\* call, unless the user paused; and no step leaves its breakpoint behind.
StepsComeBack ==
  Stopped =>
    /\ StepId \notin on
    /\ result.reason = {} /\ ~result.paused =>
         /\ result.kind = "over" => level <= result.from
         /\ result.kind = "out" /\ result.from > 0 => returned /\ level < result.from
==============================================================================
