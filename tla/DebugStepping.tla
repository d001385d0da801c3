---------------------------- MODULE DebugStepping ----------------------------
(***************************************************************************)
(* The stepping requests of a debug session (debugadapter.ts): vscode asks *)
(* for continue, stepOver, stepInto, ...; handleRequest lets one of them   *)
(* run at a time, answers each exactly once and reports the end with a     *)
(* StoppedEvent.  In between vscode may ask for a pause, for the call      *)
(* stack, or end the session.  The remote is abstracted to calls that      *)
(* return, or fail, in their own time.                                     *)
(***************************************************************************)
EXTENDS Integers, Sequences, FiniteSets, SequencesExt

CONSTANTS
  MaxReqs,     \* bound: stepping requests of vscode
  MaxStacks    \* bound: stackTrace requests of vscode

ASSUME SteppingAssumption == MaxReqs \in Nat \ {0} /\ MaxStacks \in Nat

VARIABLES
  running,                    \* the session's flag, FALSE from disconnectAll on
  remote,                     \* the global Remote is defined
  processingSteppingRequest,
  pauseRequested,
  command,                    \* the stepping requests received: kind and how far each is
  respTimer,                  \* the requests whose response timer is armed
  responses,                  \* how many responses each request got
  uiStopped,                  \* vscode shows the program as stopped
  at,                         \* where the program is: the last request that moved it
  stackTraceResponses,        \* the stackTrace requests that wait for an answer
  frames,                     \* the call stack that is being prepared for them
  callStackLost,              \* the call stack could not be read: nobody prepares one any more
  stacks                      \* the stackTrace requests: asked where, answered with what

vars == <<running, remote, processingSteppingRequest, pauseRequested, command, respTimer,
          responses, uiStopped, at, stackTraceResponses, frames, callStackLost, stacks>>
commandVars == <<processingSteppingRequest, pauseRequested, command, respTimer, responses,
                 uiStopped, at>>
stackVars   == <<stackTraceResponses, frames, callStackLost, stacks>>

Reqs       == 1..Len(command)
Kinds      == {"next", "other"}   \* stepOver repeats the step until the source line ends
Executing  == {"start", "fetch", "remote", "end", "finish"}
Phases     == Executing \cup {"ignored", "done", "dropped", "failed"}
Unanswered == -1

Init ==
  /\ running = TRUE
  /\ remote = TRUE
  /\ processingSteppingRequest = FALSE
  /\ pauseRequested = FALSE
  /\ command = <<>>
  /\ respTimer = {}
  /\ responses = [r \in 1..MaxReqs |-> 0]
  /\ uiStopped = TRUE
  /\ at = 0
  /\ stackTraceResponses = <<>>
  /\ frames = 0
  /\ callStackLost = FALSE
  /\ stacks = <<>>

MoveTo(r, phase) == command' = [command EXCEPT ![r].phase = phase]

-----------------------------------------------------------------------------
(* handleRequest: a request that arrives while another one is processed is *)
(* answered and ignored.                                                   *)
IgnoreResetsPause(kind) ==   \* mutant: startProcessing is called for ignored requests too
  /\ processingSteppingRequest
  /\ command' = Append(command, [kind |-> kind, phase |-> "ignored"])
  /\ responses' = [responses EXCEPT ![Len(command')] = @ + 1]
  /\ pauseRequested' = FALSE
  /\ UNCHANGED <<processingSteppingRequest, respTimer>>

Ignore(kind) ==
  /\ processingSteppingRequest
  /\ command' = Append(command, [kind |-> kind, phase |-> "ignored"])
  /\ responses' = [responses EXCEPT ![Len(command')] = @ + 1]
  /\ UNCHANGED <<processingSteppingRequest, pauseRequested, respTimer>>

StartUnflagged(kind) ==   \* mutant: startProcessing does not set the flag
  /\ ~processingSteppingRequest
  /\ command' = Append(command, [kind |-> kind, phase |-> "start"])
  /\ respTimer' = respTimer \cup {Len(command')}
  /\ pauseRequested' = FALSE
  /\ UNCHANGED <<responses, processingSteppingRequest>>

Start(kind) ==
  /\ ~processingSteppingRequest
  /\ command' = Append(command, [kind |-> kind, phase |-> "start"])
  /\ respTimer' = respTimer \cup {Len(command')}
  /\ processingSteppingRequest' = TRUE
  /\ pauseRequested' = FALSE
  /\ UNCHANGED responses

handleRequest(kind) ==
  /\ running
  /\ Len(command) < MaxReqs
  /\ Ignore(kind) \/ Start(kind)
  /\ uiStopped' = FALSE
  /\ UNCHANGED <<running, remote, at>>
  /\ UNCHANGED stackVars

RespTimeout(r) ==
  /\ r \in respTimer
  /\ respTimer' = respTimer \ {r}
  /\ responses' = [responses EXCEPT ![r] = @ + 1]
  /\ UNCHANGED <<running, remote, processingSteppingRequest, pauseRequested, command,
                 uiStopped, at>>
  /\ UNCHANGED stackVars

(* startStepInfo, and what a request shows before it calls the remote.     *)
CallRemote(r) ==
  /\ command[r].phase \in {"start", "fetch"}
  /\ remote
  /\ MoveTo(r, "remote")
  /\ UNCHANGED <<running, remote, processingSteppingRequest, pauseRequested, respTimer,
                 responses, uiStopped, at>>
  /\ UNCHANGED stackVars

(* The remote has executed something.  stepOver goes on while the program  *)
(* is on the same source line and nothing asks it to stop.                 *)
StepReturns(r, reason, sameLine) ==
  /\ command[r].phase = "remote"
  /\ at' = r
  /\ MoveTo(r, IF command[r].kind = "other" THEN "end"
               ELSE IF ~running THEN "finish"
               ELSE IF pauseRequested \/ reason \/ ~sameLine THEN "end" ELSE "fetch")
  /\ UNCHANGED <<running, remote, processingSteppingRequest, pauseRequested, respTimer,
                 responses, uiStopped>>
  /\ UNCHANGED stackVars

RemoteReturns(r) == \E reason, sameLine \in BOOLEAN : StepReturns(r, reason, sameLine)
LineEnds(r)      == StepReturns(r, FALSE, FALSE)

(* endStepInfo has shown the T-states.                                     *)
InfoShown(r) ==
  /\ command[r].phase = "end"
  /\ remote
  /\ MoveTo(r, "finish")
  /\ UNCHANGED <<running, remote, processingSteppingRequest, pauseRequested, respTimer,
                 responses, uiStopped, at>>
  /\ UNCHANGED stackVars

(* The end of handleRequest.                                               *)
FinishTimerRunning(r) ==   \* mutant: the response timer is not cleared
  /\ command[r].phase = "finish"
  /\ remote
  /\ MoveTo(r, "done")
  /\ processingSteppingRequest' = FALSE
  /\ responses' = [responses EXCEPT ![r] = @ + (IF r \in respTimer THEN 1 ELSE 0)]
  /\ uiStopped' = TRUE
  /\ UNCHANGED <<running, remote, pauseRequested, respTimer, at>>
  /\ UNCHANGED stackVars

FinishOnlyAnswered(r) ==   \* mutant: the StoppedEvent belongs to the branch of the timer
  /\ command[r].phase = "finish"
  /\ remote
  /\ MoveTo(r, "done")
  /\ processingSteppingRequest' = FALSE
  /\ respTimer' = respTimer \ {r}
  /\ responses' = [responses EXCEPT ![r] = @ + (IF r \in respTimer THEN 1 ELSE 0)]
  /\ uiStopped' = (uiStopped \/ r \in respTimer)
  /\ UNCHANGED <<running, remote, pauseRequested, at>>
  /\ UNCHANGED stackVars

Finish(r) ==
  /\ command[r].phase = "finish"
  /\ remote
  /\ MoveTo(r, "done")
  /\ processingSteppingRequest' = FALSE
  /\ respTimer' = respTimer \ {r}
  /\ responses' = [responses EXCEPT ![r] = @ + (IF r \in respTimer THEN 1 ELSE 0)]
  /\ uiStopped' = TRUE
  /\ UNCHANGED <<running, remote, pauseRequested, at>>
  /\ UNCHANGED stackVars

(* Without a Remote handleRequest returns early.                           *)
FinishDropped(r) ==
  /\ command[r].phase = "finish"
  /\ ~remote
  /\ MoveTo(r, "dropped")
  /\ UNCHANGED <<running, remote, processingSteppingRequest, pauseRequested, respTimer,
                 responses, uiStopped, at>>
  /\ UNCHANGED stackVars

(* A call of the remote fails (e.g. no response in time), or there is no   *)
(* Remote to call any more: the rest of the request is never executed.     *)
Fail(r) ==
  /\ command[r].phase \in Executing \ {"finish"}
  /\ MoveTo(r, "failed")
  /\ UNCHANGED <<running, remote, processingSteppingRequest, pauseRequested, respTimer,
                 responses, uiStopped, at>>
  /\ UNCHANGED stackVars

(* vscode's pause button; the call of Remote.pause is a return of the      *)
(* remote here.                                                            *)
pauseRequest ==
  /\ running
  /\ ~uiStopped
  /\ pauseRequested' = TRUE
  /\ UNCHANGED <<running, remote, processingSteppingRequest, command, respTimer, responses,
                 uiStopped, at>>
  /\ UNCHANGED stackVars

-----------------------------------------------------------------------------
(* The first request computes the call stack; the others that come in      *)
(* meanwhile wait for the same answer.                                     *)
stackTraceRequest ==
  /\ running
  /\ uiStopped
  /\ remote
  /\ Len(stacks) < MaxStacks
  /\ stacks' = Append(stacks, [asked |-> at, answer |-> Unanswered])
  /\ stackTraceResponses' = Append(stackTraceResponses, Len(stacks'))
  /\ frames' = IF stackTraceResponses = <<>> THEN at ELSE frames
  /\ UNCHANGED <<running, remote, callStackLost>>
  /\ UNCHANGED commandVars

(* Remote.getCallStackCache rejects, outside the try: the requests stay in *)
(* the list, and those that come later only join them.                     *)
StackTraceFails ==
  /\ stackTraceResponses # <<>> /\ ~callStackLost
  /\ callStackLost' = TRUE
  /\ UNCHANGED <<running, remote, stackTraceResponses, frames, stacks>>
  /\ UNCHANGED commandVars

(* The disassembly and its document are updated: all of them are answered. *)
StackTraceFirst ==   \* mutant: only the request that computed the stack is answered
  /\ stackTraceResponses # <<>> /\ ~callStackLost
  /\ stacks' = [stacks EXCEPT ![Head(stackTraceResponses)].answer = frames]
  /\ stackTraceResponses' = <<>>
  /\ UNCHANGED <<running, remote, frames, callStackLost>>
  /\ UNCHANGED commandVars

StackTraceNotShifted ==   \* mutant: the answered requests stay in the list
  /\ stackTraceResponses # <<>> /\ ~callStackLost
  /\ stacks' = [s \in DOMAIN stacks |->
                  IF s \in ToSet(stackTraceResponses)
                  THEN [stacks[s] EXCEPT !.answer = frames] ELSE stacks[s]]
  /\ UNCHANGED <<running, remote, stackTraceResponses, frames, callStackLost>>
  /\ UNCHANGED commandVars

StackTraceDone ==
  /\ stackTraceResponses # <<>> /\ ~callStackLost
  /\ stacks' = [s \in DOMAIN stacks |->
                  IF s \in ToSet(stackTraceResponses)
                  THEN [stacks[s] EXCEPT !.answer = frames] ELSE stacks[s]]
  /\ stackTraceResponses' = <<>>
  /\ UNCHANGED <<running, remote, frames, callStackLost>>
  /\ UNCHANGED commandVars

-----------------------------------------------------------------------------
(* disconnectAll: the flag first; the Remote is removed when it has been   *)
(* disconnected.                                                           *)
Disconnect ==
  /\ running
  /\ running' = FALSE
  /\ UNCHANGED remote
  /\ UNCHANGED commandVars
  /\ UNCHANGED stackVars

RemoveRemote ==
  /\ ~running
  /\ remote
  /\ remote' = FALSE
  /\ UNCHANGED running
  /\ UNCHANGED commandVars
  /\ UNCHANGED stackVars

Advance(r) ==
  \/ CallRemote(r)
  \/ RemoteReturns(r)
  \/ InfoShown(r)
  \/ Finish(r)
  \/ FinishDropped(r)

Next ==
  \/ \E kind \in Kinds : handleRequest(kind)
  \/ \E r \in Reqs : RespTimeout(r) \/ Advance(r) \/ Fail(r)
  \/ pauseRequest
  \/ stackTraceRequest
  \/ StackTraceDone
  \/ StackTraceFails
  \/ Disconnect
  \/ RemoveRemote

Spec == Init /\ [][Next]_vars

(* The timers of the event loop elapse, a call of the remote returns, the  *)
(* disassembly gets ready, and a remote that is disconnected is removed.   *)
FairSpec ==
  /\ Spec
  /\ \A r \in 1..MaxReqs :
       /\ WF_vars(r \in Reqs /\ RespTimeout(r))
       /\ WF_vars(r \in Reqs /\ Advance(r))
  /\ WF_vars(StackTraceDone)
  /\ WF_vars(RemoveRemote)

(* The instructions of a source line come to an end.                       *)
LinesEnd == \A r \in 1..MaxReqs : SF_vars(r \in Reqs /\ LineEnds(r))

-----------------------------------------------------------------------------
TypeOK ==
  /\ running => remote
  /\ command \in Seq([kind : Kinds, phase : Phases])
  /\ respTimer \in SUBSET Reqs
  /\ responses \in [1..MaxReqs -> Nat]
  /\ at \in {0} \cup Reqs
  /\ stackTraceResponses \in Seq(DOMAIN stacks)
  /\ \A i, j \in DOMAIN stackTraceResponses :
       i # j => stackTraceResponses[i] # stackTraceResponses[j]
  /\ \A i \in DOMAIN stackTraceResponses : stacks[stackTraceResponses[i]].answer = Unanswered

(* "The function takes care that the response is sent only once", whether  *)
(* the timer or the end of the command is first, and never for a request   *)
(* that is still owed one by its timer.                                    *)
ResponseOnce ==
  \A r \in Reqs : responses[r] + (IF r \in respTimer THEN 1 ELSE 0) = 1

(* The remote is never driven by two stepping requests at once, however    *)
(* fast the keys are pressed, and by none while vscode shows the program   *)
(* as stopped.                                                             *)
OneAtATime ==
  Cardinality({r \in Reqs : command[r].phase \in Executing}) <= IF uiStopped THEN 0 ELSE 1

(* After a stepping request, also one that was ignored, vscode is told     *)
(* that the program stopped, unless the session ends or a call of the      *)
(* remote has failed (then nobody is told, and all later stepping requests *)
(* are ignored: the flag is not reset).                                    *)
HasFailed == \E r \in Reqs : command[r].phase = "failed"

UIWakesUp == LinesEnd => (~uiStopped ~> (uiStopped \/ ~running \/ HasFailed))

(* A pause ends a stepOver of a source line that never ends by itself,     *)
(* unless the session ends.                                                *)
PauseEndsNext ==
  \A r \in 1..MaxReqs :
    (r \in Reqs /\ command[r].phase \in Executing /\ pauseRequested)
      ~> (~running \/ (r \in Reqs /\ command[r].phase \notin Executing))

(* Every stackTrace request is answered, unless the call stack could not   *)
(* be read once: then no request is ever answered again.                   *)
StacksAnswered ==
  \A s \in 1..MaxStacks :
    (s \in DOMAIN stacks) ~> ((s \in DOMAIN stacks /\ stacks[s].answer # Unanswered) \/ callStackLost)
=============================================================================
