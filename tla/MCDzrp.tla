-------------------------------- MODULE MCDzrp --------------------------------
(***************************************************************************)
(* The DZRP remotes for TLC: the command queue, and the run control above  *)
(* it.  Each is explored by itself: "part" says which.  The queue may come *)
(* to its end, when all calls are made; a run may not be stuck.            *)
(***************************************************************************)
EXTENDS DzrpQueue

CONSTANTS Addrs, NoAddr, MaxPauses

VARIABLES
  part,
  processing, kind, reason, continueResolve, funcContinueResolve, handler, breakInfo, pauseStep,
  breakpoints, tmpBreakpoints, bpOp, orphans, toRemote, toClient, running, stepping, remoteBps

runVars ==
  <<processing, kind, reason, continueResolve, funcContinueResolve, handler, breakInfo, pauseStep,
    breakpoints, tmpBreakpoints, bpOp, orphans, toRemote, toClient, running, stepping, remoteBps>>

Run == INSTANCE DzrpRun

MCInit == part \in {"queue", "run"} /\ Init /\ Run!Init

MCNext ==
  \/ part = "queue" /\ (Next \/ UNCHANGED vars) /\ UNCHANGED <<part, runVars>>
  \/ part = "run" /\ Run!Next /\ UNCHANGED <<part, vars>>

MCSpec ==
  /\ MCInit /\ [][MCNext]_<<part, vars, runVars>>
  /\ WF_vars(part = "queue" /\ (WriteDone \/ WriteFailed))
  /\ WF_vars(part = "queue" /\ CmdRespTimeout)
  /\ WF_vars(part = "queue" /\ DataReceived)
  /\ WF_vars(part = "queue" /\ ReceivedMsg)
  /\ WF_vars(part = "queue" /\ (RemoteExecute \/ RemoteIgnore))
  /\ WF_runVars(part = "run" /\ Run!Run)
  /\ WF_runVars(part = "run" /\ Run!StopProcessing)
  /\ WF_runVars(part = "run" /\ Run!ClientReceive)
  /\ WF_runVars(part = "run" /\ Run!RemoteCommand)

------------------------------------------------------------------------------
(* While a stop is shown, or its handler reads, the program does not run,  *)
(* nor is it about to.                                                     *)
ReportedStopIsReal == Run!TypeOK /\ Run!ReportedStopIsReal

(* No break is dropped: a handler waits for it and finds its promise.      *)
BreakIsAwaited == Run!BreakIsAwaited

(* A breakpoint that nobody edits is in the list exactly if the remote     *)
(* knows it, except where its removal failed its assertion.                *)
RemoteInSync == Run!RemoteInSync

(* A pause that finds the program running, or its break being evaluated,   *)
(* ends the request, unless the condition of a breakpoint that a step hits *)
(* cannot be evaluated.                                                    *)
PauseStopsRun == Run!PauseStopsRun
==============================================================================
