------------------------------ MODULE MCSession ------------------------------
(***************************************************************************)
(* The parts of the debug adapter for TLC: the stepping requests of a      *)
(* session, the life cycle of sessions, the runner of the unit tests, the  *)
(* tree of the tests and the values that are changed by hand.  Each is     *)
(* explored by itself: "part" says which.                                  *)
(***************************************************************************)
EXTENDS DebugStepping

CONSTANTS MaxLaunches, Clicks, Tests, MayLoop, Calm, MaxVerdicts, Folders, Names, Listings, MaxFileEdits, MaxChanges

ASSUME LaunchesAssumption == MaxLaunches \in Nat
ASSUME RunnerAssumption == {Clicks, Tests} \subseteq Nat
\* a list file has finitely many labels
ASSUME ListingsAssumption == \A s \in Listings : IsFiniteSet(s) /\ s \subseteq Seq(STRING)

VARIABLES
  part,
  calm, lifeRunning, state, lifeRemote, sessions, vscode, teardowns, failing, tests, cancelled,
  handlers, debug, debugAdapter, testRunActive, stoppingTests, timedOut, testCaseSetup,
  currentTestFailed, currentTestItem, testConfig, waitOnDebugger, testRemote, machine,
  verdicts, reached, late,
  launch, listing, open, watchers, launches, items, wsTsMap, wsFwMap, configs, testsOf, timers,
  untold, reads, edits,
  flags, changes, unshown, cache, callStack, timeTravel, overlapped, rejected

lifeVars == <<calm, lifeRunning, state, lifeRemote, sessions, vscode, teardowns, failing, tests, cancelled>>
runnerVars == <<handlers, debug, debugAdapter, testRunActive, stoppingTests, timedOut, testCaseSetup,
                currentTestFailed, currentTestItem, testConfig, waitOnDebugger, testRemote, machine,
                verdicts, reached, late>>
treeVars == <<launch, listing, open, watchers, launches, items, wsTsMap, wsFwMap, configs, testsOf,
              timers, untold, reads, edits>>
valueVars == <<flags, changes, unshown, cache, callStack, timeTravel, overlapped, rejected>>

\* what the list files may name: a test, and a module of tests one of which has tests below it
MCListings == {{<<"UT_1">>}, {<<"m", "UT_1">>, <<"m", "UT_2">>, <<"m", "UT_2", "UT_3">>}}

Life == INSTANCE DebugLifecycle WITH running <- lifeRunning, remote <- lifeRemote
Runner == INSTANCE UnitTests WITH remote <- testRemote
Tree == INSTANCE TestTree WITH tests <- testsOf
Values == INSTANCE DebugVariables WITH reqs <- changes, untold <- unshown, MaxReqs <- MaxChanges

MCInit ==
  /\ part \in {"stepping", "life", "tests", "tree", "values"}
  /\ Init /\ Life!Init /\ Runner!Init /\ Tree!Init /\ Values!Init
  /\ part # "life" => calm
  /\ part # "tree" => \A f \in Folders : launch[f] = Tree!Nothing
  /\ part # "values" => ~timeTravel

MCNext ==
  \/ part = "stepping" /\ Next /\ UNCHANGED <<part, lifeVars, runnerVars, treeVars, valueVars>>
  \/ part = "life" /\ Life!Next /\ UNCHANGED <<part, vars, runnerVars, treeVars, valueVars>>
  \/ part = "tests" /\ Runner!Next /\ UNCHANGED <<part, vars, lifeVars, treeVars, valueVars>>
  \/ part = "tree" /\ Tree!Next /\ UNCHANGED <<part, vars, lifeVars, runnerVars, valueVars>>
  \/ part = "values" /\ Values!Next /\ UNCHANGED <<part, vars, lifeVars, runnerVars, treeVars>>

SteppingFairness ==
  /\ \A r \in 1..MaxReqs :
       /\ WF_vars(part = "stepping" /\ r \in Reqs /\ RespTimeout(r))
       /\ WF_vars(part = "stepping" /\ r \in Reqs /\ Advance(r))
  /\ WF_vars(part = "stepping" /\ StackTraceDone)
  /\ WF_vars(part = "stepping" /\ RemoveRemote)
LifeFairness ==
  /\ WF_lifeVars(part = "life" /\ \E t \in teardowns : Life!Disconnected(t))
  /\ WF_lifeVars(part = "life" /\ vscode = "ended" /\ Life!disconnectRequest)
  /\ WF_lifeVars(part = "life" /\ Life!terminate)
  /\ WF_lifeVars(part = "life" /\ Life!RemoteTerminated)
  /\ WF_lifeVars(part = "life" /\ (Life!GiveUp \/ Life!unitTestsStart))
  /\ WF_lifeVars(part = "life" /\ Life!TestsLaunched)
  /\ WF_lifeVars(part = "life" /\ Life!TestsEnd)

RunnerFairness ==
  LET Stops == \E success \in BOOLEAN : Runner!MachineStops(success)
  IN /\ \A c \in 1..Clicks : /\ WF_runnerVars(part = "tests" /\ Runner!Handle(c))
                             /\ WF_runnerVars(part = "tests" /\ Runner!TimerFires(c))
     /\ WF_runnerVars(part = "tests" /\ Stops)
     /\ SF_runnerVars(part = "tests" /\ Runner!MachineStops(TRUE))
     /\ WF_runnerVars(part = "tests" /\ Runner!UserContinues)

MCSpec ==
  /\ MCInit /\ [][MCNext]_<<part, vars, lifeVars, runnerVars, treeVars, valueVars>>
  /\ SteppingFairness /\ LifeFairness /\ RunnerFairness

------------------------------------------------------------------------------
(* One response for each request, whether the timer or the command is      *)
(* first, and one request at a time drives the remote.                     *)
ResponsesAreOnce == TypeOK /\ ResponseOnce /\ OneAtATime

(* vscode learns what it waits for: that the program stopped, the call     *)
(* stack, and that a pause has ended a line that does not end by itself.   *)
VscodeIsTold == UIWakesUp /\ PauseEndsNext /\ StacksAnswered

(* Ending a session removes its own Remote, a session that vscode shows    *)
(* has one, and tests that were started have a session of their own.       *)
SessionsAreSeparate == Life!TypeOK /\ Life!OwnRemoteRemoved /\ Life!TestsOwnTheSession

(* As long as clicks do not overlap, each test that the loop has left has  *)
(* one verdict, and the right one: passed only if its code ran to the end, *)
(* a timeout only if its own timer has fired.                              *)
VerdictsAreRight == Runner!VerdictsAreRight

(* When all changes of files have been told, the tree of the tests is what *)
(* the files say, unless a watcher was left behind; when a value has been  *)
(* changed by hand, everybody who shows it has been told, unless changes   *)
(* have overlapped or the emulator did not answer.                         *)
ShownIsCurrent == Tree!TreeIsCurrent /\ Values!ChangesAreTold

(* A session that is being ended does end, in vscode and in the adapter,   *)
(* and so does a run of the unit tests.                                    *)
SessionsEnd == Life!SessionEnds /\ Runner!RunsEnd

(* Violated: "If a test lasts longer it is assumed as failed."             *)
TestsTimeOut == Runner!TestsTimeOut
==============================================================================
