---------------------------- MODULE DebugLifecycle ----------------------------
(***************************************************************************)
(* Start and end of debug sessions (debugadapter.ts).  There is one        *)
(* DebugSessionClass and one global Remote per window; a session is ended  *)
(* by vscode's terminate and disconnect requests, by an error of the       *)
(* remote, and by the unit test runner, which then starts a session of its *)
(* own.  Disconnecting a remote takes time, and all of them overlap.       *)
(*                                                                         *)
(* vscode is external: it starts a session when it has none, answers a     *)
(* TerminatedEvent with a disconnect request, and a second press of the    *)
(* stop button sends the disconnect request at once.                       *)
(***************************************************************************)
EXTENDS Naturals

CONSTANT MaxLaunches   \* bound: sessions that are started


VARIABLES
  calm,        \* the environment: nothing ends a session that is being ended already,
               \* and nobody stops or restarts one while unit tests are started
  running,     \* DebugSessionClass.running
  state,       \* DbgAdapterState
  remote,      \* the global Remote: the session that created it, or NoRemote
  sessions,    \* sessions launched so far
  vscode,      \* vscode's view of its session
  teardowns,   \* the calls of disconnectAll that wait for Remote.disconnect
  failing,     \* the remote whose 'error' is handled, or NoRemote
  tests,       \* the unit test runner
  cancelled    \* cancelUnitTests was called for tests that were not running yet

vars == <<calm, running, state, remote, sessions, vscode, teardowns, failing, tests, cancelled>>

NoRemote == 0

Init ==
  /\ calm \in BOOLEAN
  /\ running = FALSE
  /\ state = "NORMAL"
  /\ remote = NoRemote
  /\ sessions = 0
  /\ vscode = "none"
  /\ teardowns = {}
  /\ failing = NoRemote
  /\ tests = "idle"
  /\ cancelled = FALSE

UserMayAct ==
  /\ calm => tests \in {"idle", "running"} /\ failing = NoRemote

(* launchRequest, up to the start of the emulator.                         *)
Launch ==
  /\ vscode = "none"
  /\ ~running
  /\ sessions < MaxLaunches
  /\ sessions' = sessions + 1
  /\ running' = TRUE
  /\ remote' = sessions'
  /\ vscode' = "active"
  /\ UNCHANGED <<teardowns, failing>>

launchRequest ==
  /\ UserMayAct
  /\ tests # "starting"
  /\ Launch
  /\ UNCHANGED <<calm, state, tests, cancelled>>

(* vscode's view after an event, and after the answer to a request.        *)
AfterTerminatedEvent(view) == IF view \in {"active", "stopping"} THEN "ended" ELSE view
AfterAnswerNoEvent(by, view) ==   \* mutant: terminateRequest sends no TerminatedEvent
  IF by = "disconnect" /\ view = "closing" THEN "none" ELSE view

AfterAnswer(by, view) ==
  IF by = "terminate" THEN AfterTerminatedEvent(view)
  ELSE IF view = "closing" THEN "none" ELSE view

(* The second half of disconnectAll, after the remote was disconnected.    *)
(* Unit tests that are running are cancelled.                              *)
CleanUp ==
  /\ remote' = NoRemote
  /\ cancelled' = (cancelled \/ (state = "UNITTEST" /\ tests # "running"))
  /\ tests' = IF state = "UNITTEST" /\ tests = "running" THEN "idle" ELSE tests
  /\ state' = "NORMAL"
  /\ running' = FALSE

(* disconnectAll is called by a request; the request is answered when it   *)
(* has ended.                                                              *)
disconnectAllAnswersEarly(by, view) ==   \* mutant: the remote's disconnect is not awaited
  IF ~running
  THEN /\ vscode' = AfterAnswer(by, view)
       /\ UNCHANGED <<running, state, remote, teardowns, tests, cancelled>>
  ELSE /\ running' = FALSE
       /\ teardowns' = teardowns \cup {[session |-> remote, by |-> by]}
       /\ vscode' = AfterAnswer(by, view)
       /\ UNCHANGED <<state, remote, tests, cancelled>>

disconnectAll(by, view) ==
  IF ~running
  THEN /\ vscode' = AfterAnswer(by, view)
       /\ UNCHANGED <<running, state, remote, teardowns, tests, cancelled>>
  ELSE IF remote = NoRemote
  THEN /\ CleanUp
       /\ vscode' = AfterAnswer(by, view)
       /\ UNCHANGED teardowns
  ELSE /\ running' = FALSE
       /\ teardowns' = teardowns \cup {[session |-> remote, by |-> by]}
       /\ vscode' = view
       /\ UNCHANGED <<state, remote, tests, cancelled>>

(* The stop button.                                                        *)
terminateRequest ==
  /\ UserMayAct
  /\ vscode = "active"
  /\ disconnectAll("terminate", "stopping")
  /\ UNCHANGED <<calm, sessions, failing>>

(* The restart button, a TerminatedEvent, or the stop button once more.    *)
disconnectRequest ==
  /\ \/ vscode = "ended"
     \/ UserMayAct /\ vscode = "active"
     \/ ~calm /\ vscode = "stopping"
  /\ disconnectAll("disconnect", "closing")
  /\ UNCHANGED <<calm, sessions, failing>>

(* Remote.disconnect has returned.                                         *)
Disconnected(t) ==
  /\ t \in teardowns
  /\ teardowns' = teardowns \ {t}
  /\ CleanUp
  /\ vscode' = AfterAnswer(t.by, vscode)
  /\ UNCHANGED <<calm, sessions, failing>>

(* The remote reports an error: it is disconnected, then vscode is told.   *)
RemoteError ==
  /\ remote # NoRemote
  /\ calm => (vscode = "active" /\ tests \in {"idle", "running"})
  /\ failing = NoRemote
  /\ failing' = remote
  /\ UNCHANGED <<calm, running, state, remote, sessions, vscode, teardowns, tests, cancelled>>

terminate ==
  /\ failing # NoRemote
  /\ failing' = NoRemote
  /\ vscode' = AfterTerminatedEvent(vscode)
  /\ UNCHANGED <<calm, running, state, remote, sessions, teardowns, tests, cancelled>>

-----------------------------------------------------------------------------
(* setupDebugTestCase: terminateRemote ends whatever runs, then polls the  *)
(* session's flag.                                                         *)
terminateRemote ==
  /\ tests = "idle"
  /\ calm => (vscode \in {"none", "active"} /\ failing = NoRemote)
  /\ tests' = IF remote # NoRemote THEN "terminating" ELSE "polling"
  /\ cancelled' = FALSE
  /\ UNCHANGED <<calm, running, state, remote, sessions, vscode, teardowns, failing>>

(* Remote.terminate has returned.                                          *)
RemoteTerminated ==
  /\ tests = "terminating"
  /\ tests' = "polling"
  /\ remote' = NoRemote
  /\ vscode' = AfterTerminatedEvent(vscode)
  /\ UNCHANGED <<calm, running, state, sessions, teardowns, failing, cancelled>>

(* After 5 seconds terminateRemote gives up; unitTestsStart then refuses.  *)
GiveUp ==
  /\ tests = "polling"
  /\ running
  /\ tests' = "idle"
  /\ UNCHANGED <<calm, running, state, remote, sessions, vscode, teardowns, failing, cancelled>>

unitTestsStartUnchecked ==   \* mutant: terminateRemote does not wait for the end of the session
  /\ tests = "polling"
  /\ tests' = "starting"
  /\ state' = "UNITTEST"
  /\ UNCHANGED <<calm, running, remote, sessions, vscode, teardowns, failing, cancelled>>

unitTestsStart ==
  /\ tests = "polling"
  /\ ~running
  /\ IF state = "NORMAL" THEN state' = "UNITTEST" /\ tests' = "starting"
     ELSE UNCHANGED state /\ tests' = "idle"
  /\ UNCHANGED <<calm, running, remote, sessions, vscode, teardowns, failing, cancelled>>

TestsLaunched ==
  /\ tests = "starting"
  /\ Launch
  /\ tests' = "running"
  /\ UNCHANGED <<calm, state, cancelled>>

(* stopUnitTests, at the end of the tests: the remote is terminated and    *)
(* disposed.                                                               *)
stopUnitTests ==
  /\ tests = "running"
  /\ calm => (teardowns = {} /\ failing = NoRemote)
  /\ tests' = "ending"
  /\ UNCHANGED <<calm, running, state, remote, sessions, vscode, teardowns, failing, cancelled>>

TestsEnd ==
  /\ tests = "ending"
  /\ tests' = "idle"
  /\ remote' = NoRemote
  /\ vscode' = AfterTerminatedEvent(vscode)
  /\ UNCHANGED <<calm, running, state, sessions, teardowns, failing, cancelled>>

Next ==
  \/ launchRequest
  \/ terminateRequest
  \/ disconnectRequest
  \/ \E t \in teardowns : Disconnected(t)
  \/ RemoteError
  \/ terminate
  \/ terminateRemote
  \/ RemoteTerminated
  \/ GiveUp
  \/ unitTestsStart
  \/ TestsLaunched
  \/ stopUnitTests
  \/ TestsEnd

Spec == Init /\ [][Next]_vars

(* Remote.disconnect returns, vscode answers a TerminatedEvent, and the    *)
(* runner's polling and terminating go on.                                 *)
FairSpec ==
  /\ Spec
  /\ WF_vars(\E t \in teardowns : Disconnected(t))
  /\ WF_vars(vscode = "ended" /\ disconnectRequest)
  /\ WF_vars(terminate)
  /\ WF_vars(RemoteTerminated)
  /\ WF_vars((GiveUp \/ unitTestsStart))
  /\ WF_vars(TestsLaunched)
  /\ WF_vars(TestsEnd)

-----------------------------------------------------------------------------
TypeOK ==
  /\ calm \in BOOLEAN
  /\ running \in BOOLEAN
  /\ state \in {"NORMAL", "UNITTEST"}
  /\ remote \in {NoRemote, sessions}
  /\ sessions \in 0..MaxLaunches
  /\ vscode \in {"none", "active", "stopping", "ended", "closing"}
  /\ calm => \A s, t \in teardowns : s = t
  /\ failing \in 0..sessions
  /\ tests \in {"idle", "terminating", "polling", "starting", "running", "ending"}
  /\ cancelled \in BOOLEAN

(* Ending a session removes the Remote of that session, never one of a     *)
(* session that was started meanwhile; and a session that vscode shows,    *)
(* and that nobody is ending, has a Remote to send its requests to.        *)
OwnRemoteRemoved ==
  calm => /\ \A t \in teardowns : remote \in {NoRemote, t.session}
          /\ vscode = "active" => running /\ remote = sessions

(* Unit tests that were started are executed by a session of their own,    *)
(* and it is not cancelled by the end of the session before it.            *)
TestsOwnTheSession ==
  calm => /\ tests = "starting" => state = "UNITTEST" /\ ~cancelled
          /\ tests = "running" /\ vscode = "active" =>
               state = "UNITTEST" /\ ~cancelled /\ remote = sessions

(* A session that is being ended does end, in vscode and in the adapter,   *)
(* however the stop button, errors and unit tests overlap.                 *)
SessionEnds ==
  vscode \in {"stopping", "ended", "closing"} ~> (vscode = "none" /\ teardowns = {})
=============================================================================
