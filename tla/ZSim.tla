-------------------------------- MODULE ZSim --------------------------------
(***************************************************************************)
(* The simulator: the loop that executes instructions (z80CpuContinue),    *)
(* the simulated memory with its watchpoints, the ports that switch banks, *)
(* and saving and restoring the state.  The loop gives way to the rest of  *)
(* the extension only between two bursts of instructions.  An address is   *)
(* a slot here: every slot and every bank has one cell.                    *)
(***************************************************************************)
EXTENDS Integers, Sequences, FiniteSets, SequencesExt

CONSTANTS
  Top,            \* the last address
  Banks, Rom,     \* the banks, and those that are ROM
  SlotBanks,      \* slot -> the banks that may be in it
  InitialSlots,   \* slot -> bank
  Ops,            \* the instructions: [acc, out, irq]
  Wps,            \* watchpoints that may be set: [addr, size, r, w]
  Bps,            \* breakpoints that may be set: [addr, bank, kind]
  TimeStep,       \* customCode.timeStep
  MaxTstates,     \* bound: T-states (one per instruction)
  MaxCalls        \* bound: calls from outside

Addr  == 0..Top
None  == -1

\* An access of an instruction to the memory, and a watchpoint.  The size of a watchpoint has 16
\* bits, so that it does not come to the same address twice.
Access     == [kind : {"r", "w"}, addr : Addr, value : 0..255]
Watchpoint == [addr : Addr, size : 1..(Top + 1), r : {0, 1}, w : {0, 1}]

ASSUME ConstantsAssumption ==
  /\ Top \in Nat
  /\ Wps \subseteq Watchpoint
  /\ \A op \in Ops : op.acc \in Seq(Access)

NoHit == [addr |-> None, access |-> ""]

VARIABLES
  memoryBanks, slots, watchPointMemory, hit, pc,
  passedTstates, nextStepTstates,
  interruptOccurred, breakOnInterrupt,
  stopCpu, loop,            \* loop: "ended", "burst" (executing) or "timeout" (giving way)
  timeoutRequest,           \* the view asks the loop to wait
  funcContinueResolve,      \* set from continue on until disconnect
  bp1, bp2, tmpBreakpoints,
  reported,                 \* the reason of the last break
  saved,                    \* the state that was saved last
  wps, passed, sinceTick,   \* history: watchpoints set; a watched access went unnoticed; T-states since the last tick
  calls

memVars  == <<memoryBanks, slots, watchPointMemory, hit>>
loopVars == <<stopCpu, loop, funcContinueResolve, bp1, bp2, reported>>
timeVars == <<passedTstates, nextStepTstates, sinceTick>>
flagVars == <<interruptOccurred, breakOnInterrupt, timeoutRequest, tmpBreakpoints>>
vars     == <<memVars, loopVars, timeVars, flagVars, pc, saved, wps, passed, calls>>

Count(seq, Test(_)) == Cardinality({i \in DOMAIN seq : Test(seq[i])})

Init ==
  /\ memoryBanks = [b \in Banks |-> 0]
  /\ slots = InitialSlots
  /\ watchPointMemory = [a \in Addr |-> [r |-> 0, w |-> 0]]
  /\ hit = NoHit
  /\ pc = 0
  /\ passedTstates = 0 /\ nextStepTstates = 0 /\ sinceTick = 0
  /\ interruptOccurred = FALSE /\ breakOnInterrupt = FALSE
  /\ stopCpu = TRUE /\ loop = "ended" /\ timeoutRequest = FALSE
  /\ funcContinueResolve = FALSE
  /\ bp1 = None /\ bp2 = None
  /\ tmpBreakpoints \in {{b} : b \in Bps} \cup {{}}
  /\ reported = "none"
  /\ saved = <<>>
  /\ wps = <<>>
  /\ passed = FALSE
  /\ calls = 0

------------------------------------------------------------------------------
(* SimulatedMemory                                                          *)

\* the addresses of a watchpoint, wrapped at 64k
Watched(wp) == [i \in 1..wp.size |-> (wp.addr + i - 1) % (Top + 1)]

\* mutant: the address is not wrapped
setWatchpointNoWrap(wpm, wp) ==
  [a \in Addr |-> IF a \in wp.addr..(wp.addr + wp.size - 1)
                  THEN [r |-> wpm[a].r + wp.r, w |-> wpm[a].w + wp.w] ELSE wpm[a]]

setWatchpoint(wpm, wp) ==
  [a \in Addr |-> LET n == Count(Watched(wp), LAMBDA x : x = a)
                  IN [r |-> wpm[a].r + n * wp.r, w |-> wpm[a].w + n * wp.w]]

\* mutant: the counters are cleared
removeWatchpointAll(wpm, wp) ==
  [a \in Addr |-> IF a \in Range(Watched(wp)) THEN [r |-> 0, w |-> 0] ELSE wpm[a]]

\* a counter is not decremented below zero
removeWatchpoint(wpm, wp) ==
  [a \in Addr |-> IF a \notin Range(Watched(wp)) THEN wpm[a]
                  ELSE [r |-> IF wpm[a].r > 0 THEN wpm[a].r - wp.r ELSE 0,
                        w |-> IF wpm[a].w > 0 THEN wpm[a].w - wp.w ELSE 0]]

Hits(wpm, acc) == IF acc.kind = "r" THEN wpm[acc.addr].r > 0 ELSE wpm[acc.addr].w > 0

\* read8, write8: the first hit counts
HitAfter(accesses) ==
  LET hits  == {i \in DOMAIN accesses : Hits(watchPointMemory, accesses[i])}
      first == CHOOSE i \in hits : \A j \in hits : i <= j
  IN IF hit # NoHit \/ hits = {} THEN hit
     ELSE [addr |-> accesses[first].addr, access |-> accesses[first].kind]

\* write8: ROM is not written
WriteAll(banks, accesses) ==
  FoldLeft(LAMBDA bs, acc : IF acc.kind = "w" /\ slots[acc.addr] \notin Rom
                            THEN [bs EXCEPT ![slots[acc.addr]] = acc.value] ELSE bs,
           banks, accesses)

\* checkSlots: after an OUT every slot has a bank that may be there
SlotsOk(ss) == \A s \in DOMAIN ss : ss[s] \in SlotBanks[s]

------------------------------------------------------------------------------
(* The loop                                                                 *)

\* the reason to break behind an instruction, in the order of the checks
BreakReason(error, next, newSlots, newHit, irq) ==
  LET bps == {b \in tmpBreakpoints : b.addr = next /\ b.bank = newSlots[next]}
  IN CASE error                                          -> "CPU_ERROR"
       [] \E b \in bps : b.kind \in {"break", "throws"}  -> "BREAKPOINT_HIT"
       [] newHit # NoHit                                 -> "WATCHPOINT"
       [] next \in {bp1, bp2}                            -> "NO_REASON"
       [] irq /\ breakOnInterrupt                        -> "BREAK_INTERRUPT"
       [] stopCpu                                        -> "MANUAL_BREAK"
       [] OTHER                                          -> ""

\* One iteration.  An OUT that leads to a bank that does not fit the slot is taken back and
\* is an error of the CPU.  The mark of an interrupt is cleared only where it is looked at.
execute ==
  /\ loop = "burst"
  /\ passedTstates < MaxTstates
  /\ \E op \in Ops, next \in Addr :
       LET accesses == <<[kind |-> "r", addr |-> pc, value |-> 0]>> \o op.acc
           switched == [slots EXCEPT ![op.out[1]] = op.out[2]]
           newSlots == IF op.out # <<>> /\ SlotsOk(switched) THEN switched ELSE slots
           error    == op.out # <<>> /\ ~SlotsOk(switched)
           newHit   == HitAfter(accesses)
           irq      == interruptOccurred \/ op.irq
           reason   == BreakReason(error, next, newSlots, newHit, irq)
           tick     == passedTstates >= nextStepTstates
       IN /\ memoryBanks' = WriteAll(memoryBanks, accesses)
          /\ slots' = newSlots
          /\ hit' = newHit
          /\ pc' = next
          /\ nextStepTstates' = IF tick THEN nextStepTstates + TimeStep ELSE nextStepTstates
          /\ sinceTick' = IF tick THEN 1 ELSE sinceTick + 1
          /\ passedTstates' = passedTstates + 1
          /\ interruptOccurred' = IF reason \in {"", "BREAK_INTERRUPT", "MANUAL_BREAK"} THEN FALSE ELSE irq
          /\ stopCpu' = (stopCpu \/ reason # "")
          /\ loop' = IF reason = "" THEN "burst" ELSE "ended"
          /\ reported' = IF reason = "" THEN reported ELSE reason
          /\ passed' = (passed \/ (reason = "" /\ \E i \in DOMAIN wps, j \in DOMAIN accesses :
                                     LET acc == accesses[j]
                                     IN acc.addr \in Range(Watched(wps[i]))
                                        /\ (IF acc.kind = "r" THEN wps[i].r ELSE wps[i].w) = 1))
  /\ UNCHANGED <<watchPointMemory, funcContinueResolve, bp1, bp2, breakOnInterrupt, timeoutRequest,
                 tmpBreakpoints, saved, wps, calls>>

\* the burst is over: the loop gives way
leaveAtTstates ==
  /\ loop = "burst"
  /\ loop' = "timeout"
  /\ UNCHANGED <<memVars, stopCpu, funcContinueResolve, bp1, bp2, reported, timeVars, flagVars, pc,
                 saved, wps, passed, calls>>

\* mutant: only a loop that somebody waits for is stopped
wakeAwaitedOnly ==
  /\ loop = "timeout" /\ ~timeoutRequest
  /\ loop' = IF stopCpu /\ funcContinueResolve THEN "ended" ELSE "burst"
  /\ UNCHANGED <<memVars, stopCpu, funcContinueResolve, bp1, bp2, reported, timeVars, flagVars, pc,
                 saved, wps, passed, calls>>

\* and goes on, unless it was told to stop meanwhile
wake ==
  /\ loop = "timeout" /\ ~timeoutRequest
  /\ loop' = IF stopCpu THEN "ended" ELSE "burst"
  /\ reported' = IF stopCpu /\ funcContinueResolve THEN "MANUAL_BREAK" ELSE reported
  /\ UNCHANGED <<memVars, stopCpu, funcContinueResolve, bp1, bp2, timeVars, flagVars, pc, saved, wps,
                 passed, calls>>

------------------------------------------------------------------------------
(* Calls from outside                                                       *)

Call == loop # "burst" /\ calls < MaxCalls /\ calls' = calls + 1

sendDzrpCmdContinue ==
  /\ Call
  /\ loop = "ended"
  /\ funcContinueResolve' = TRUE
  /\ stopCpu' = FALSE
  /\ hit' = NoHit
  /\ bp1' \in {None, 0} /\ bp2' \in {None, 1}
  /\ loop' = "burst"
  /\ UNCHANGED <<memoryBanks, slots, watchPointMemory, reported, timeVars, flagVars, pc, saved, wps, passed>>

sendDzrpCmdPause ==
  /\ Call
  /\ stopCpu' = TRUE
  /\ UNCHANGED <<memVars, loop, funcContinueResolve, bp1, bp2, reported, timeVars, flagVars, pc, saved,
                 wps, passed>>

disconnect ==
  /\ Call
  /\ stopCpu' = TRUE
  /\ funcContinueResolve' = FALSE
  /\ UNCHANGED <<memVars, loop, bp1, bp2, reported, timeVars, flagVars, pc, saved, wps, passed>>

sendDzrpCmdAddWatchpoint ==
  /\ Call
  /\ \E wp \in Wps :
       /\ Len(wps) < 2
       /\ watchPointMemory' = setWatchpoint(watchPointMemory, wp)
       /\ wps' = Append(wps, wp)
  /\ UNCHANGED <<memoryBanks, slots, hit, loopVars, timeVars, flagVars, pc, saved, passed>>

sendDzrpCmdRemoveWatchpoint ==
  /\ Call
  /\ \E i \in DOMAIN wps :
       /\ watchPointMemory' = removeWatchpoint(watchPointMemory, wps[i])
       /\ wps' = RemoveAt(wps, i)
  /\ UNCHANGED <<memoryBanks, slots, hit, loopVars, timeVars, flagVars, pc, saved, passed>>

\* the debugger's own switch of a bank is not checked
sendDzrpCmdSetSlot ==
  /\ Call
  /\ \E s \in Addr : \E b \in SlotBanks[s] : slots' = [slots EXCEPT ![s] = b]
  /\ UNCHANGED <<memoryBanks, watchPointMemory, hit, loopVars, timeVars, flagVars, pc, saved, wps, passed>>

\* writeBlock goes through the slots and does not spare ROM
sendDzrpCmdWriteMem ==
  /\ Call
  /\ \E a \in Addr : memoryBanks' = [memoryBanks EXCEPT ![slots[a]] = 1]
  /\ UNCHANGED <<slots, watchPointMemory, hit, loopVars, timeVars, flagVars, pc, saved, wps, passed>>

enableBreakOnInterrupt ==
  /\ Call
  /\ breakOnInterrupt' = ~breakOnInterrupt
  /\ UNCHANGED <<memVars, loopVars, timeVars, interruptOccurred, timeoutRequest, tmpBreakpoints, pc,
                 saved, wps, passed>>

\* the view is busy, and then no longer
setTimeoutRequest ==
  /\ IF timeoutRequest THEN UNCHANGED calls ELSE Call
  /\ timeoutRequest' = ~timeoutRequest
  /\ UNCHANGED <<memVars, loopVars, timeVars, interruptOccurred, breakOnInterrupt, tmpBreakpoints, pc,
                 saved, wps, passed>>

serialize == <<passedTstates, slots, memoryBanks, pc>>

sendDzrpCmdReadState ==
  /\ Call
  /\ saved' = serialize
  /\ UNCHANGED <<memVars, loopVars, timeVars, flagVars, pc, wps, passed>>

\* T-states, slots, banks and registers, in this order; data of another memory model fail at
\* the banks
deserialize(state, data, bad) == IF bad THEN <<data[1], data[2], state[3], state[4]>> ELSE data

\* mutant: what was read before the data turned out to be bad stays
restoreHalf(data, bad) == deserialize(serialize, data, bad)

\* when it fails, the current state, serialized before, is read again
restore(data, bad) ==
  IF bad THEN deserialize(deserialize(serialize, data, TRUE), serialize, FALSE)
  ELSE deserialize(serialize, data, FALSE)

sendDzrpCmdWriteState ==
  /\ Call
  /\ loop = "ended"
  /\ saved # <<>>
  /\ \E bad \in BOOLEAN :
       LET state == restore(saved, bad)
       IN passedTstates' = state[1] /\ slots' = state[2] /\ memoryBanks' = state[3] /\ pc' = state[4]
  /\ UNCHANGED <<watchPointMemory, hit, loopVars, nextStepTstates, sinceTick, flagVars, saved, wps, passed>>

------------------------------------------------------------------------------
Loop == execute \/ leaveAtTstates \/ wake

Calls ==
  \/ sendDzrpCmdContinue \/ sendDzrpCmdPause \/ disconnect
  \/ sendDzrpCmdAddWatchpoint \/ sendDzrpCmdRemoveWatchpoint \/ sendDzrpCmdSetSlot
  \/ sendDzrpCmdWriteMem \/ enableBreakOnInterrupt \/ setTimeoutRequest
  \/ sendDzrpCmdReadState \/ sendDzrpCmdWriteState

Next == Loop \/ Calls

\* A burst ends after a number of T-states, the timer of the loop fires, and the view takes
\* its request back.
Spec ==
  /\ Init /\ [][Next]_vars
  /\ WF_vars(leaveAtTstates) /\ WF_vars(wake) /\ WF_vars(timeoutRequest /\ setTimeoutRequest)

------------------------------------------------------------------------------
(* Properties                                                               *)

\* The counters of an address are the watchpoints set there, whatever overlaps, wraps around
\* at 64k or was removed.
WatchCounts ==
  \A a \in Addr :
    /\ watchPointMemory[a].r = Count(wps, LAMBDA wp : a \in Range(Watched(wp)) /\ wp.r = 1)
    /\ watchPointMemory[a].w = Count(wps, LAMBDA wp : a \in Range(Watched(wp)) /\ wp.w = 1)

\* An instruction that accesses a watched address (its own bytes included) ends the loop.
NoAccessUnnoticed == ~passed

\* No access to a watched address goes unnoticed, and the counters are those of the watchpoints.
WatchesWork == NoAccessUnnoticed /\ WatchCounts

\* Restoring gives what was saved, or, when it fails, nothing changes at all.
StateIsRestored ==
  [][sendDzrpCmdWriteState =>
       serialize' \in {saved, serialize}]_vars

\* A program that is told to stop stops, also when nobody waits for the break any more.
StopEnds == (stopCpu /\ loop = "timeout") ~> (loop = "ended" \/ ~stopCpu)

\* The custom code is ticked each time TimeStep T-states have passed.
TicksInTime == sinceTick <= TimeStep
==============================================================================
