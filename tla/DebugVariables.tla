---------------------------- MODULE DebugVariables ----------------------------
(***************************************************************************)
(* Changing values by hand: the requests of the VARIABLES and WATCH panes  *)
(* and the command that moves the PC.  Each writes to the emulator, reads  *)
(* back and tells vscode and the views what they show no longer.  Four     *)
(* flags, which all requests share, say what is to be told.  A request may *)
(* come while others are under way, and the emulator may not answer.       *)
(***************************************************************************)
EXTENDS Naturals, FiniteSets

CONSTANT MaxReqs    \* bound: requests

Requests == 1..MaxReqs
Registers == {"PC", "SP", "other"}
Told == {"vscode", "registerViews", "memoryViews"}

VARIABLES
  flags,      \* pcChanged, spChanged, otherRegisterChanged, memoryChanged: what has been changed
  reqs,       \* the requests: what they change, and where they are
  untold,     \* what has been changed, and who shows it as it was
  cache,      \* registers that are as the emulator has them, in the adapter
  callStack,  \* whether the call stack is that of the PC and the SP
  timeTravel, \* StepHistory.isInStepBackMode
  overlapped, \* history: a request has come while another was under way
  rejected    \* history: a call has failed after a value was changed, before all was told

vars == <<flags, reqs, untold, cache, callStack, timeTravel, overlapped, rejected>>

Init ==
  /\ flags = {} /\ reqs = [r \in Requests |-> [what |-> "none", at |-> "none"]]
  /\ untold = {} /\ cache = Registers /\ callStack = TRUE /\ timeTravel \in BOOLEAN
  /\ overlapped = FALSE /\ rejected = FALSE

UnderWay(r) == reqs[r].at \notin {"none", "done"}
Idle == \A r \in Requests : ~UnderWay(r)
Arrives(r) ==
  /\ reqs[r].at = "none" /\ \A q \in Requests : q < r => reqs[q].at # "none"
  /\ overlapped' = (overlapped \/ ~Idle)

Goes(r, at) == reqs' = [reqs EXCEPT ![r].at = at]

\* The flags are looked at one after the other, each when what the one before it asked for is done.
Stages == <<"PC", "SP", "other", "memory">>
After(set, k) == LET next == {j \in k..4 : Stages[j] \in set}
                 IN IF next = {} THEN "done" ELSE Stages[CHOOSE j \in next : \A i \in next : j <= i]

\* setVariableRequest: a value that may not be changed, or that cannot be evaluated, only clears the flags.
setVariableRequest(r, what) ==
  /\ Arrives(r)
  /\ flags' = {}
  /\ \/ ~timeTravel /\ reqs' = [reqs EXCEPT ![r] = [what |-> what, at |-> "write"]]
     \/ reqs' = [reqs EXCEPT ![r] = [what |-> what, at |-> "done"]]
  /\ UNCHANGED <<untold, cache, callStack, timeTravel, rejected>>

\* setExpressionRequest: only a value of the memory; it does not look whether that is allowed.
setExpressionRequest(r) ==
  /\ Arrives(r)
  /\ reqs' = [reqs EXCEPT ![r] = [what |-> "expression", at |-> "write"]]
  /\ UNCHANGED <<flags, untold, cache, callStack, timeTravel, rejected>>

setPcToLine(r) ==
  /\ Arrives(r)
  /\ reqs' = [reqs EXCEPT ![r] = [what |-> "toLine", at |-> "write"]]
  /\ UNCHANGED <<flags, untold, cache, callStack, timeTravel, rejected>>

Register(r) == IF reqs[r].what = "toLine" THEN "PC" ELSE reqs[r].what

\* What the emulator has changed, and who shows it as it was.
RegisterChanges(r) ==
  /\ cache' = cache \ {Register(r)}
  /\ callStack' = (callStack /\ Register(r) = "other")
  /\ untold' = untold \cup {<<Register(r), who>> : who \in {"vscode", "registerViews"}}
MemoryChanges ==
  /\ untold' = untold \cup {<<"memory", who>> : who \in {"vscode", "memoryViews"}}
  /\ UNCHANGED <<cache, callStack>>

\* The emulator has written.
RegisterWritten(r) ==
  /\ reqs[r].at = "write" /\ Register(r) \in Registers
  /\ RegisterChanges(r)
  /\ Goes(r, "read") /\ UNCHANGED <<flags, timeTravel, overlapped, rejected>>

\* mutant: that the memory has changed is not marked
MemoryWrittenUnmarked(r) ==
  /\ reqs[r].at = "write" /\ reqs[r].what \in {"memory", "expression"}
  /\ MemoryChanges
  /\ Goes(r, "read") /\ UNCHANGED <<flags, timeTravel, overlapped, rejected>>

MemoryWritten(r) ==
  /\ reqs[r].at = "write" /\ reqs[r].what \in {"memory", "expression"}
  /\ flags' = flags \cup {"memory"}
  /\ MemoryChanges
  /\ Goes(r, "read") /\ UNCHANGED <<timeTravel, overlapped, rejected>>

\* RegistersMainVar.setValue: the PC counts as an other register, too.  Then the response is sent.
RegistersRead(r) ==
  LET set == flags \cup (CASE reqs[r].what = "PC" -> {"PC", "other"} [] reqs[r].what = "SP" -> {"SP"} [] OTHER -> {"other"})
  IN /\ reqs[r].at = "read" /\ Register(r) \in Registers
     /\ cache' = Registers
     /\ IF reqs[r].what = "toLine" THEN UNCHANGED flags /\ Goes(r, "PC") ELSE flags' = set /\ Goes(r, After(set, 1))
     /\ UNCHANGED <<untold, callStack, timeTravel, overlapped, rejected>>

\* what was written is read again, and answered
MemoryRead(r) ==
  /\ reqs[r].at = "read" /\ reqs[r].what \in {"memory", "expression"}
  /\ Goes(r, After(IF reqs[r].what = "expression" THEN flags \cap {"memory"} ELSE flags, 1))
  /\ flags' = IF reqs'[r].at = "done" THEN {} ELSE flags
  /\ UNCHANGED <<untold, cache, callStack, timeTravel, overlapped, rejected>>

\* pcHasBeenChanged, spHasBeenChanged: the call stack is read first
CallStackRead(r) ==
  /\ reqs[r].at \in {"PC", "SP"} /\ ~callStack
  /\ callStack' = TRUE
  /\ UNCHANGED <<flags, reqs, untold, cache, timeTravel, overlapped, rejected>>

\* pcHasBeenChanged, spHasBeenChanged, otherRegisterHasBeenChanged, memoryHasBeenChanged and the event
\* that follows: vscode asks for everything again, the views of registers or of memory are updated.
HasBeenChanged(r) ==
  LET k    == CHOOSE j \in 1..4 : Stages[j] = reqs[r].at
      views == IF reqs[r].at = "memory" THEN "memoryViews" ELSE "registerViews"
      next == IF reqs[r].what \in {"toLine", "expression"} THEN "done" ELSE After(flags, k + 1)
  IN /\ reqs[r].at \in {Stages[j] : j \in 1..4} /\ (callStack \/ reqs[r].at \in {"other", "memory"})
     /\ untold' = {u \in untold : u[2] \notin {"vscode", views}}
     /\ Goes(r, next)
     /\ flags' = IF next = "done" /\ reqs[r].what # "toLine" THEN {} ELSE flags
     /\ UNCHANGED <<cache, callStack, timeTravel, overlapped, rejected>>

\* The emulator does not answer.  setVariableRequest shows the error, answers, and looks at the flags;
\* the other two are left where they are.
GivesUp(r) ==
  LET next == IF reqs[r].what \in {"toLine", "expression"} THEN "done" ELSE After(flags, 1)
  IN /\ Goes(r, next)
     /\ flags' = IF next = "done" /\ reqs[r].what \notin {"toLine", "expression"} THEN {} ELSE flags
     /\ UNCHANGED <<timeTravel, overlapped>>

\* It may have written all the same.
WriteRejected(r) ==
  /\ reqs[r].at = "write" /\ GivesUp(r)
  /\ \/ UNCHANGED <<untold, cache, callStack, rejected>>
     \/ Register(r) \in Registers /\ RegisterChanges(r) /\ rejected' = TRUE
     \/ reqs[r].what \in {"memory", "expression"} /\ MemoryChanges /\ rejected' = TRUE

\* The flag of the memory is set before it is read again, those of the registers after: to a
\* setVariableRequest of the memory it makes no difference.
ReadRejected(r) ==
  /\ reqs[r].at = "read" /\ reqs[r].what # "memory" /\ GivesUp(r)
  /\ rejected' = TRUE
  /\ UNCHANGED <<untold, cache, callStack>>

\* The call stack, or what a view shows, could not be read: nobody catches it.
TellingRejected(r) ==
  /\ reqs[r].at \in {Stages[j] : j \in 1..4}
  /\ Goes(r, "done")
  /\ untold' \in {untold, {u \in untold : u[2] # "vscode"}}
  /\ rejected' = TRUE
  /\ UNCHANGED <<flags, cache, callStack, timeTravel, overlapped>>

Next ==
  \E r \in Requests :
    \/ \E what \in Registers \cup {"memory"} : setVariableRequest(r, what)
    \/ setExpressionRequest(r) \/ setPcToLine(r)
    \/ RegisterWritten(r) \/ MemoryWritten(r) \/ RegistersRead(r) \/ MemoryRead(r)
    \/ CallStackRead(r) \/ HasBeenChanged(r)
    \/ WriteRejected(r) \/ ReadRejected(r) \/ TellingRejected(r)

Spec == Init /\ [][Next]_vars

------------------------------------------------------------------------------
\* When no request is under way the registers of the adapter are those of the emulator, also if
\* requests have overlapped; if they have not, all that was changed has been told to vscode and to the
\* views that show it, and the call stack is that of the emulator.  Requests that overlap clear each
\* other's flags, and one that fails after it has written sets none: then it is not so.
ChangesAreTold ==
  Idle /\ ~rejected =>
    /\ cache = Registers
    /\ ~overlapped => untold = {} /\ callStack

\* "Altering values not allowed in time-travel mode."  But setExpressionRequest and setPcToLine do.
TimeTravelKeeps == [][timeTravel => untold' \subseteq untold]_untold
==============================================================================
