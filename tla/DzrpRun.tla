------------------------------- MODULE DzrpRun -------------------------------
(***************************************************************************)
(* Running the debugged program on a DZRP remote (DzrpRemote): continue,   *)
(* step-over/into and step-out, pause, the evaluation of a break, and      *)
(* breakpoints that are edited while all this goes on.                     *)
(*                                                                         *)
(* The client sends commands and awaits their responses; a break is a      *)
(* notification that funcContinueResolve takes.  Every "await" is a point  *)
(* where the other requests of the user run.  Commands and answers are     *)
(* delivered in order (module DzrpQueue is about the queue below).         *)
(***************************************************************************)
EXTENDS Integers, Sequences, FiniteSets

CONSTANTS
  Addrs,        \* the addresses breakpoints are set at
  NoAddr,       \* the address of a message that has none
  MaxPauses     \* bound: unanswered pause commands

VARIABLES
  processing,         \* where the continue or step request is
  kind,               \* "continue", "stepOver" (and step-into) or "stepOut"
  reason,             \* the break reason string: "none" if it is empty
  continueResolve,    \* the promise of continue() is open
  funcContinueResolve,\* a handler waits for the break notification
  handler,            \* the command the break handler awaits, "none", or "failed" (it has thrown)
  breakInfo,          \* the notification the handler evaluates
  pauseStep,          \* pause() was called since the last startProcessing()
  breakpoints,        \* addresses in the list of breakpoints
  tmpBreakpoints,     \* addresses in the map that a break is looked up in
  bpOp,               \* bpOp[a]: the edit of a's breakpoint under way
  orphans,            \* breakpoints whose removal failed its assertion (history)
  toRemote,           \* commands on their way to the remote
  toClient,           \* responses and notifications on their way back
  running,            \* the remote executes the program
  stepping,           \* the remote has bp1/bp2 of a step
  remoteBps           \* breakpoints the remote knows

runVars   == <<processing, kind, reason, continueResolve, funcContinueResolve,
               handler, breakInfo, pauseStep>>
bpVars    == <<breakpoints, tmpBreakpoints, bpOp, orphans>>
remoteCpu == <<running, stepping, remoteBps>>
vars      == <<runVars, bpVars, toRemote, toClient, remoteCpu>>

Kinds    == {"continue", "stepOver", "stepOut"}
Commands == [type : {"continue", "step", "pause", "read", "add", "remove"},
             addr : Addrs \cup {NoAddr}]
Breaks   == [type : {"breakpoint", "noReason", "manual"}, addr : Addrs \cup {NoAddr}]
Replies  == [type : {"read", "add", "remove"}, addr : Addrs \cup {NoAddr}]

Message(t, a) == [type |-> t, addr |-> a]
Command(t)    == Message(t, NoAddr)
NoBreak       == Message("manual", NoAddr)

-----------------------------------------------------------------------------
Init ==
  /\ processing = "idle"
  /\ kind = "continue"
  /\ reason = "none"
  /\ continueResolve = FALSE
  /\ funcContinueResolve = FALSE
  /\ handler = "none"
  /\ breakInfo = NoBreak
  /\ pauseStep = FALSE
  /\ breakpoints = {}
  /\ tmpBreakpoints = {}
  /\ bpOp = [a \in Addrs |-> "none"]
  /\ orphans = {}
  /\ toRemote = <<>>
  /\ toClient = <<>>
  /\ running = FALSE
  /\ stepping = FALSE
  /\ remoteBps = {}

-----------------------------------------------------------------------------
(* A stepping request starts: startProcessing, then some awaits (step info, *)
(* the addresses bp1/bp2 of a step) before the remote is told to run.       *)
StartProcessingUnguarded(k) ==   \* mutant: a second stepping request is not ignored
  /\ processing # "starting"
  /\ processing' = "starting"
  /\ kind' = k
  /\ tmpBreakpoints' = breakpoints
  /\ pauseStep' = FALSE
  /\ UNCHANGED <<reason, continueResolve, funcContinueResolve, handler, breakInfo,
                 breakpoints, bpOp, orphans, toRemote, toClient, remoteCpu>>

StartProcessing(k) ==
  /\ processing = "idle"
  /\ processing' = "starting"
  /\ kind' = k
  /\ tmpBreakpoints' = breakpoints
  /\ pauseStep' = FALSE
  /\ UNCHANGED <<reason, continueResolve, funcContinueResolve, handler, breakInfo,
                 breakpoints, bpOp, orphans, toRemote, toClient, remoteCpu>>

SendContinueLate ==   \* mutant: the handler is set when the command was answered
  /\ funcContinueResolve' = FALSE
  /\ toRemote' = Append(toRemote, Command(IF kind = "continue" THEN "continue" ELSE "step"))

SendContinue ==
  /\ funcContinueResolve' = TRUE
  /\ toRemote' = Append(toRemote, Command(IF kind = "continue" THEN "continue" ELSE "step"))

(* Remote.continue, stepOver or stepOut: its promise is kept for dispose.  *)
Run ==
  /\ processing = "starting"
  /\ processing' = "running"
  /\ continueResolve' = TRUE
  /\ SendContinue
  /\ UNCHANGED <<kind, reason, handler, breakInfo, pauseStep, bpVars, toClient, remoteCpu>>

(* The promise has resolved.  nextRequest steps again while the line stays  *)
(* the same, unless there is a break reason or a pause was requested.       *)
StepAgain ==
  /\ processing = "returned"
  /\ kind = "stepOver"
  /\ reason = "none"
  /\ ~pauseStep
  /\ processing' = "starting"
  /\ UNCHANGED <<kind, reason, continueResolve, funcContinueResolve, handler, breakInfo,
                 pauseStep, bpVars, toRemote, toClient, remoteCpu>>

StopProcessing ==
  /\ processing = "returned"
  /\ processing' = "idle"
  /\ UNCHANGED <<kind, reason, continueResolve, funcContinueResolve, handler, breakInfo,
                 pauseStep, bpVars, toRemote, toClient, remoteCpu>>

Pauses == {i \in 1..Len(toRemote) : toRemote[i].type = "pause"}

Pause ==
  /\ processing # "idle"
  /\ Cardinality(Pauses) < MaxPauses
  /\ pauseStep' = TRUE
  /\ toRemote' = Append(toRemote, Command("pause"))
  /\ UNCHANGED <<processing, kind, reason, continueResolve, funcContinueResolve, handler,
                 breakInfo, bpVars, toClient, remoteCpu>>

-----------------------------------------------------------------------------
(* The list and the map are updated when the remote has answered.          *)
SetBreakpoint(a) ==
  /\ bpOp[a] = "none"
  /\ a \notin breakpoints
  /\ a \notin orphans
  /\ bpOp' = [bpOp EXCEPT ![a] = "adding"]
  /\ toRemote' = Append(toRemote, Message("add", a))
  /\ UNCHANGED <<runVars, breakpoints, tmpBreakpoints, orphans, toClient, remoteCpu>>

(* The list and the map are updated first; the map must know the address.  *)
RemoveBreakpointLocally(a) ==   \* mutant: the remote is not told
  /\ bpOp[a] = "none"
  /\ a \in breakpoints
  /\ breakpoints' = breakpoints \ {a}
  /\ tmpBreakpoints' = IF funcContinueResolve THEN tmpBreakpoints \ {a} ELSE tmpBreakpoints
  /\ UNCHANGED <<bpOp, orphans, toRemote, runVars, toClient, remoteCpu>>

RemoveBreakpoint(a) ==
  /\ bpOp[a] = "none"
  /\ a \in breakpoints
  /\ breakpoints' = breakpoints \ {a}
  /\ IF funcContinueResolve /\ a \notin tmpBreakpoints
     THEN \* removeTmpBreakpoint throws
          /\ orphans' = orphans \cup {a}
          /\ UNCHANGED <<tmpBreakpoints, bpOp, toRemote>>
     ELSE /\ tmpBreakpoints' = IF funcContinueResolve THEN tmpBreakpoints \ {a}
                                                      ELSE tmpBreakpoints
          /\ bpOp' = [bpOp EXCEPT ![a] = "removing"]
          /\ toRemote' = Append(toRemote, Message("remove", a))
          /\ UNCHANGED orphans
  /\ UNCHANGED <<runVars, toClient, remoteCpu>>

BreakpointAdded ==
  /\ toClient # <<>>
  /\ Head(toClient).type = "add"
  /\ LET a == Head(toClient).addr
     IN  /\ breakpoints' = breakpoints \cup {a}
         /\ tmpBreakpoints' = IF funcContinueResolve THEN tmpBreakpoints \cup {a}
                                                     ELSE tmpBreakpoints
         /\ bpOp' = [bpOp EXCEPT ![a] = "none"]
  /\ toClient' = Tail(toClient)
  /\ UNCHANGED <<runVars, orphans, toRemote, remoteCpu>>

BreakpointRemoved ==
  /\ toClient # <<>>
  /\ Head(toClient).type = "remove"
  /\ bpOp' = [bpOp EXCEPT ![Head(toClient).addr] = "none"]
  /\ toClient' = Tail(toClient)
  /\ UNCHANGED <<runVars, breakpoints, tmpBreakpoints, orphans, toRemote, remoteCpu>>

-----------------------------------------------------------------------------
(* receivedMsg with a notification: the handler is taken and starts with   *)
(* getRegistersFromEmulator; with no handler the notification is dropped.  *)
BreakNotification ==
  /\ toClient # <<>>
  /\ Head(toClient) \in Breaks
  /\ toClient' = Tail(toClient)
  /\ IF funcContinueResolve
     THEN /\ funcContinueResolve' = FALSE
          /\ handler' = "registers"
          /\ breakInfo' = Head(toClient)
          /\ toRemote' = Append(toRemote, Command("read"))
     ELSE UNCHANGED <<funcContinueResolve, handler, breakInfo, toRemote>>
  /\ UNCHANGED <<processing, kind, reason, continueResolve, pauseStep, bpVars, remoteCpu>>

(* The stop is reported after the registers and the call stack were read.  *)
ReportBreakRaw(r) ==   \* mutant: the reason is not a reason string
  /\ reason' = breakInfo.type
  /\ handler' = "callStack"
  /\ toRemote' = Append(toRemote, Command("read"))
  /\ UNCHANGED <<kind, funcContinueResolve>>

ReportBreak(r) ==
  /\ reason' = r
  /\ handler' = "callStack"
  /\ toRemote' = Append(toRemote, Command("read"))
  /\ UNCHANGED <<kind, funcContinueResolve>>

(* The program is told to go on at once, or (step-out) after calcStepBp    *)
(* has read the instruction.                                               *)
GoOn ==
  IF kind = "stepOut"
  THEN /\ handler' = "stepBp"
       /\ toRemote' = Append(toRemote, Command("read"))
       /\ UNCHANGED <<kind, reason, funcContinueResolve>>
  ELSE /\ handler' = "none"
       /\ SendContinue
       /\ UNCHANGED <<kind, reason>>

(* evalBpConditionAndLog and what the handler makes of it.  Whether the    *)
(* condition of a breakpoint is met and whether a step-out has just left   *)
(* its subroutine depends on the program.  A step may end at a breakpoint. *)
AtBreakpoint ==
  \/ breakInfo.type = "breakpoint" /\ breakInfo.addr \in tmpBreakpoints
  \/ breakInfo.type = "noReason" /\ tmpBreakpoints # {}
ConditionMet == breakInfo.type = "manual" \/ AtBreakpoint
ConditionNotMet ==
  \/ breakInfo.type = "breakpoint"
  \/ breakInfo.type = "noReason" /\ kind = "stepOut"

(* The condition or the log of a breakpoint cannot be evaluated.  The      *)
(* handlers of continue and step-out report that; the one of step-over and *)
(* step-into does not catch it, and nobody goes on with the run.           *)
ConditionFails ==
  /\ AtBreakpoint
  /\ IF kind = "stepOver"
     THEN handler' = "failed" /\ UNCHANGED <<kind, reason, funcContinueResolve, toRemote>>
     ELSE ReportBreak("break")

EvalBreakUnpaused ==   \* mutant: pauseStep is not looked at
  \/ ConditionFails
  \/ ConditionMet /\ ReportBreak("break")
  \/ breakInfo.type = "noReason" /\ ReportBreak("none")
  \/ ConditionNotMet /\ GoOn

EvalBreak ==
  \/ ConditionFails
  \/ ConditionMet /\ ReportBreak("break")
  \/ breakInfo.type # "manual" /\ pauseStep /\ ReportBreak("break")
  \/ breakInfo.type = "noReason" /\ ~pauseStep /\ ReportBreak("none")
  \/ ConditionNotMet /\ ~pauseStep /\ GoOn

HandleRegisters ==
  /\ toClient # <<>>
  /\ Head(toClient).type = "read"
  /\ handler = "registers"
  /\ EvalBreak
  /\ toClient' = Tail(toClient)
  /\ UNCHANGED <<processing, continueResolve, breakInfo, pauseStep, bpVars, remoteCpu>>

HandleStepBp ==
  /\ toClient # <<>>
  /\ Head(toClient).type = "read"
  /\ handler = "stepBp"
  /\ handler' = "none"
  /\ SendContinue
  /\ toClient' = Tail(toClient)
  /\ UNCHANGED <<processing, kind, reason, continueResolve, breakInfo, pauseStep, bpVars,
                 remoteCpu>>

HandleCallStack ==
  /\ toClient # <<>>
  /\ Head(toClient).type = "read"
  /\ handler = "callStack"
  /\ handler' = "none"
  /\ continueResolve' = FALSE
  /\ processing' = "returned"
  /\ toClient' = Tail(toClient)
  /\ UNCHANGED <<kind, reason, funcContinueResolve, breakInfo, pauseStep, bpVars, toRemote,
                 remoteCpu>>

-----------------------------------------------------------------------------
(* The remote (external): commands are handled in order; a pause stops a   *)
(* running program and is nothing to a stopped one.                        *)
RemoteCommand ==
  /\ toRemote # <<>>
  /\ LET c == Head(toRemote)
     IN  /\ running' = CASE c.type \in {"continue", "step"} -> TRUE
                         [] c.type = "pause" -> FALSE
                         [] OTHER -> running
         /\ stepping' = IF c.type \in {"continue", "step"} THEN c.type = "step" ELSE stepping
         /\ remoteBps' = CASE c.type = "add" -> remoteBps \cup {c.addr}
                           [] c.type = "remove" -> remoteBps \ {c.addr}
                           [] OTHER -> remoteBps
         /\ toClient' = CASE c.type \in {"read", "add", "remove"} -> Append(toClient, c)
                          [] c.type = "pause" /\ running -> Append(toClient, Command("manual"))
                          [] OTHER -> toClient
  /\ toRemote' = Tail(toRemote)
  /\ UNCHANGED <<runVars, bpVars>>

RemoteBreak ==
  /\ running
  /\ running' = FALSE
  /\ \/ \E a \in remoteBps : toClient' = Append(toClient, Message("breakpoint", a))
     \/ stepping /\ toClient' = Append(toClient, Command("noReason"))
  /\ UNCHANGED <<runVars, bpVars, toRemote, stepping, remoteBps>>

-----------------------------------------------------------------------------
ClientReceive ==
  \/ BreakpointAdded
  \/ BreakpointRemoved
  \/ BreakNotification
  \/ HandleRegisters
  \/ HandleStepBp
  \/ HandleCallStack

Next ==
  \/ \E k \in Kinds : StartProcessing(k)
  \/ Run
  \/ StepAgain
  \/ StopProcessing
  \/ Pause
  \/ \E a \in Addrs : SetBreakpoint(a)
  \/ \E a \in Addrs : RemoveBreakpoint(a)
  \/ ClientReceive
  \/ RemoteCommand
  \/ RemoteBreak

(* What the client has begun it goes on with and the remote reads its      *)
(* commands.  That the program ever hits a breakpoint is not assumed.      *)
Fairness ==
  /\ WF_vars(Run)
  /\ WF_vars(StopProcessing)
  /\ WF_vars(ClientReceive)
  /\ WF_vars(RemoteCommand)

Spec     == Init /\ [][Next]_vars
FairSpec == Spec /\ Fairness

-----------------------------------------------------------------------------
TypeOK ==
  /\ processing \in {"idle", "starting", "running", "returned"}
  /\ kind \in Kinds
  /\ reason \in {"none", "break"}
  /\ continueResolve \in BOOLEAN
  /\ funcContinueResolve \in BOOLEAN
  /\ handler \in {"none", "registers", "stepBp", "callStack", "failed"}
  /\ breakInfo \in Breaks
  /\ pauseStep \in BOOLEAN
  /\ breakpoints \subseteq Addrs
  /\ tmpBreakpoints \subseteq Addrs
  /\ bpOp \in [Addrs -> {"none", "adding", "removing"}]
  /\ orphans \subseteq Addrs
  /\ toRemote \in Seq(Commands)
  /\ toClient \in Seq(Replies \cup Breaks)
  /\ running \in BOOLEAN
  /\ stepping \in BOOLEAN
  /\ remoteBps \subseteq Addrs

(* What the client takes for stopped is: while no request is processed, or *)
(* its handler reads registers, memory or the call stack, the remote does  *)
(* not execute the program, nor is it about to.                            *)
ReportedStopIsReal ==
  processing \in {"idle", "starting", "returned"} \/ handler # "none" =>
    /\ ~running
    /\ \A i \in 1..Len(toRemote) : toRemote[i].type \notin {"continue", "step"}

(* No break is dropped: whenever the program runs or its notification is   *)
(* on the way, a handler waits for it, and the handler finds its promise.  *)
BreakIsAwaited ==
  /\ running \/ (\E i \in 1..Len(toClient) : toClient[i] \in Breaks)
       => funcContinueResolve
  /\ funcContinueResolve \/ handler # "none" => continueResolve

(* A breakpoint no edit is under way for is in the list exactly if the     *)
(* remote knows it, except where its removal failed its assertion.         *)
RemoteInSync ==
  \A a \in Addrs \ orphans : bpOp[a] = "none" => (a \in breakpoints <=> a \in remoteBps)

(* A pause that finds the program running, or its break being evaluated,   *)
(* is honoured: the request comes to its end, whatever breakpoints the     *)
(* program hits before the command arrives, unless the condition of one    *)
(* that a step hits cannot be evaluated.  (A pause that comes while a step *)
(* is being prepared is not: it reaches a remote that is stopped.)         *)
PauseStopsRun ==
  (/\ pauseStep
   /\ \/ running /\ Command("pause") \in {toRemote[i] : i \in 1..Len(toRemote)}
      \/ handler \in {"registers", "callStack"})
  ~> (processing = "idle" \/ (handler = "failed" /\ kind = "stepOver"))

-----------------------------------------------------------------------------
(* Violated.  What the assertion of removeTmpBreakpoint says: the map      *)
(* knows the breakpoint, "if a breakpoint is set during the debugged       *)
(* program being run the tmpBreakpoints are updated".                      *)
RemovedIsInMap == orphans = {}
=============================================================================
