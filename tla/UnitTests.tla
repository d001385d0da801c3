------------------------------ MODULE UnitTests ------------------------------
(***************************************************************************)
(* Z80UnitTestRunner.  A click on run or debug starts a handler that takes *)
(* the tests one by one; a click while tests run stops them.  A test has   *)
(* two parts, the setup code and the test code; a timer per test pauses    *)
(* the machine.  All handlers share the runner's static fields and the     *)
(* global Remote, and await in between.                                    *)
(***************************************************************************)
EXTENDS Naturals, Sequences

CONSTANTS
  Clicks,    \* bound: clicks on run, debug or stop
  Tests,     \* how many tests there are
  MayLoop,   \* whether the code of a test may run forever
  Calm,      \* whether no click comes while tests are being stopped
  MaxVerdicts   \* bound: assertions that fail while debugging

VARIABLES
  handlers,          \* handlers[c]: the handler of click c: where it is, its test, its timer
  debug, debugAdapter, testRunActive, stoppingTests, timedOut, testCaseSetup, currentTestFailed,
  currentTestItem,   \* of which handler, which test
  testConfig,        \* whether the configuration has been started
  waitOnDebugger,    \* a test that is debugged and has not finished
  remote,            \* which handler created the Remote, or NoRemote
  machine,           \* "stopped", "running"
  verdicts,          \* history: what was reported of which test
  reached, late      \* history: the tests whose code ran to its end, those whose timer has fired

static == <<debug, debugAdapter, testRunActive, stoppingTests, timedOut, testCaseSetup, currentTestFailed,
            currentTestItem, testConfig, waitOnDebugger>>
vars == <<handlers, static, remote, machine, verdicts, reached, late>>

NoRemote == 0
NoItem == <<0, 0>>
Idle == [pc |-> "idle", test |-> 0, timer |-> FALSE, debug |-> FALSE]
AtWork(c) == handlers[c].pc \notin {"idle", "done"}
Item(c) == <<c, handlers[c].test>>
NoneOnTop == UNCHANGED <<debug, debugAdapter, timedOut, testConfig, remote, machine, reached, late>>

Init ==
  /\ handlers = [c \in 1..Clicks |-> Idle]
  /\ debug = FALSE /\ debugAdapter = FALSE /\ testRunActive = FALSE /\ stoppingTests = FALSE /\ timedOut = FALSE
  /\ testCaseSetup = FALSE /\ currentTestFailed = FALSE /\ currentTestItem = NoItem
  /\ testConfig = FALSE /\ waitOnDebugger = FALSE
  /\ remote = NoRemote /\ machine = "stopped"
  /\ verdicts = <<>> /\ reached = {} /\ late = {}

\* the two parts of a test: the setup code and the test code
Prepare(part) == IF part = "1" THEN "prepare1" ELSE "prepare2"
Runs(part)    == IF part = "1" THEN "run1" ELSE "run2"

GoTo(c, pc) == handlers' = [handlers EXCEPT ![c].pc = pc]

\* the promise of a test that is debugged is rejected: its handler leaves the loop
Rejected == [b \in 1..Clicks |-> IF waitOnDebugger /\ handlers[b].pc \in {"run1", "run2"}
                                 THEN [handlers[b] EXCEPT !.pc = "ending", !.timer = FALSE] ELSE handlers[b]]

\* testFailed, testPassed: of whatever item is the current one
Report(what) == verdicts' = Append(verdicts, <<currentTestItem, what>>)

------------------------------------------------------------------------------
(* The loop over the tests                                                  *)

\* mutant: timedOut is not reset
NextTestStale(c, stopping, configured, dbg) ==
  LET next == handlers[c].test + 1
  IN /\ UNCHANGED timedOut
     /\ IF stopping \/ next > Tests
        THEN handlers' = [handlers EXCEPT ![c] = [@ EXCEPT !.pc = "ending", !.timer = FALSE]]
        ELSE handlers' = [handlers EXCEPT ![c] = [pc |-> IF configured THEN "start" ELSE "terminating", test |-> next,
                                                  timer |-> FALSE, debug |-> dbg]]

\* the next test of the loop; the first one, or the first after another click, is set up
NextTest(c, stopping, configured, dbg) ==
  LET next == handlers[c].test + 1
  IN IF stopping \/ next > Tests
     THEN handlers' = [handlers EXCEPT ![c] = [@ EXCEPT !.pc = "ending", !.timer = FALSE]] /\ UNCHANGED timedOut
     ELSE /\ handlers' = [handlers EXCEPT ![c] = [pc |-> IF configured THEN "start" ELSE "terminating", test |-> next, timer |-> FALSE,
                                               debug |-> dbg]]
          /\ timedOut' = FALSE

\* runHandler, runDebugHandler, runOrDebugHandler: one run at a time, a second click stops it
runOrDebugHandler(c) ==
  /\ handlers[c].pc = "idle" /\ \A b \in 1..(c - 1) : handlers[b].pc # "idle"
  /\ Calm => \A a, b \in 1..(c - 1) : AtWork(a) /\ AtWork(b) => testRunActive /\ a = b
  /\ debug' \in BOOLEAN
  /\ IF testRunActive
     THEN /\ handlers' = [Rejected EXCEPT ![c].pc = "stopping"]
          /\ stoppingTests' = TRUE /\ waitOnDebugger' = FALSE
          /\ UNCHANGED <<testRunActive, testConfig, timedOut>>
     ELSE /\ stoppingTests' = FALSE /\ testRunActive' = TRUE /\ testConfig' = FALSE
          /\ NextTest(c, FALSE, FALSE, debug')
          /\ UNCHANGED waitOnDebugger
  /\ UNCHANGED <<debugAdapter, testCaseSetup, currentTestFailed, currentTestItem, remote, machine, verdicts, reached, late>>

\* setupRunTestCase, setupDebugTestCase: the old remote is terminated, then a session is launched
Terminated(c) ==
  /\ handlers[c].pc = "terminating"
  /\ GoTo(c, "launching")
  /\ testConfig' = TRUE /\ remote' = c /\ machine' = "stopped" /\ debugAdapter' = handlers[c].debug
  /\ UNCHANGED <<debug, testRunActive, stoppingTests, timedOut, testCaseSetup, currentTestFailed,
                 currentTestItem, waitOnDebugger, verdicts, reached, late>>

\* without a remote the setup fails, and the loop is left when the user has seen the message
Launched(c) ==
  /\ handlers[c].pc = "launching"
  /\ GoTo(c, IF remote = NoRemote THEN "ending" ELSE "start")
  /\ UNCHANGED <<static, remote, machine, verdicts, reached, late>>

\* the timer of the test; not when debugging
StartTest(c) ==
  /\ handlers[c].pc = "start"
  /\ handlers' = [handlers EXCEPT ![c].pc = "prepare1", ![c].timer = ~debug]
  /\ currentTestItem' = Item(c) /\ testCaseSetup' = TRUE /\ currentTestFailed' = FALSE
  /\ UNCHANGED <<testRunActive, stoppingTests, waitOnDebugger, verdicts>> /\ NoneOnTop

TimerFires(c) ==
  /\ handlers[c].timer
  /\ handlers' = [handlers EXCEPT ![c].timer = FALSE]
  /\ timedOut' = TRUE
  /\ late' = late \cup {Item(c)}
  /\ machine' = "stopped"       \* a pause does nothing to a machine that is stopped
  /\ UNCHANGED <<debug, debugAdapter, testRunActive, stoppingTests, testCaseSetup, currentTestFailed, currentTestItem,
                 testConfig, waitOnDebugger, remote, verdicts, reached>>

\* execAddr: registers and memory are written; then RemoteContinue
execAddr(c, part) ==
  /\ handlers[c].pc = Prepare(part)
  /\ IF remote = NoRemote \/ machine = "running"
     THEN \* it throws
          /\ IF stoppingTests THEN UNCHANGED verdicts ELSE Report("failed")
          /\ NextTest(c, stoppingTests, testConfig, debug)
          /\ currentTestItem' = NoItem
          /\ currentTestFailed' = (currentTestFailed \/ ~stoppingTests)
          /\ UNCHANGED <<machine, waitOnDebugger>>
     ELSE /\ GoTo(c, Runs(part))
          /\ machine' = "running" /\ waitOnDebugger' = debugAdapter
          /\ UNCHANGED <<verdicts, timedOut, currentTestItem, currentTestFailed>>
  /\ UNCHANGED <<debug, debugAdapter, testRunActive, stoppingTests, testCaseSetup, testConfig, remote, reached, late>>

\* the part ends: what comes next is decided by the flags
PartEnds(c, part, success) ==
  LET why    == IF timedOut THEN "timeout" ELSE "failed"
      failed == ~success \/ (part = "1" /\ (currentTestFailed \/ timedOut))
      \* a test that was debugged has told its failure before
      told   == currentTestFailed /\ debugAdapter
  IN /\ verdicts' = IF failed /\ ~told THEN Append(verdicts, <<currentTestItem, why>>)
                    ELSE IF ~failed /\ ~testCaseSetup /\ ~told THEN Append(verdicts, <<currentTestItem, "passed">>)
                    ELSE verdicts
     /\ currentTestFailed' = (currentTestFailed \/ failed)
     /\ reached' = IF success /\ part = "2" THEN reached \cup {Item(c)} ELSE reached
     /\ IF part = "1" /\ ~failed
        THEN GoTo(c, "prepare2") /\ testCaseSetup' = FALSE /\ UNCHANGED <<timedOut, currentTestItem>>
        ELSE NextTest(c, stoppingTests, testConfig, debug) /\ currentTestItem' = NoItem /\ UNCHANGED testCaseSetup

\* the machine stops: at the end of the part, or at a breakpoint, an assertion, the stack's limits
MachineStops(success) ==
  /\ machine = "running" /\ ~MayLoop
  /\ machine' = "stopped"
  /\ \/ /\ waitOnDebugger /\ ~success
        \* dbgCheckUnitTest: an assertion is a failure; the user goes on
        /\ \E assertion \in BOOLEAN :
             /\ assertion => Len(verdicts) < MaxVerdicts
             /\ IF assertion THEN Report("failed") ELSE UNCHANGED verdicts
             /\ currentTestFailed' = (currentTestFailed \/ assertion)
        /\ UNCHANGED <<handlers, timedOut, testCaseSetup, currentTestItem, waitOnDebugger, reached>>
     \/ \E c \in 1..Clicks, part \in {"1", "2"} :
          /\ handlers[c].pc = Runs(part)
          /\ ~waitOnDebugger \/ success
          /\ PartEnds(c, part, success)
          /\ waitOnDebugger' = FALSE
  /\ UNCHANGED <<debug, debugAdapter, testRunActive, stoppingTests, testConfig, remote, late>>

\* the pause of the timer has stopped it
Paused(c) ==
  /\ machine = "stopped" /\ timedOut /\ ~waitOnDebugger /\ remote # NoRemote
  /\ \E part \in {"1", "2"} : handlers[c].pc = Runs(part) /\ PartEnds(c, part, FALSE)
  /\ UNCHANGED <<debug, debugAdapter, testRunActive, stoppingTests, testConfig, waitOnDebugger, remote, machine, late>>

\* the user goes on after a break
UserContinues ==
  /\ waitOnDebugger /\ machine = "stopped" /\ machine' = "running"
  /\ UNCHANGED <<handlers, static, remote, verdicts, reached, late>>

------------------------------------------------------------------------------
(* The end                                                                  *)

\* the remote is disposed: a handler that waits for it gets an exception
Disposed(c) ==
  /\ remote' = NoRemote /\ machine' = "stopped" /\ testRunActive' = FALSE
  /\ handlers' = [b \in 1..Clicks |->
       CASE b = c -> [handlers[b] EXCEPT !.pc = "done", !.timer = FALSE]
         [] b # c /\ handlers[b].pc \in {"run1", "run2"} -> [handlers[b] EXCEPT !.pc = "ending", !.timer = FALSE]
         [] OTHER -> handlers[b]]

\* mutant: the flag stays
stopUnitTestsActive(c) ==
  /\ handlers[c].pc = "stopping"
  /\ Disposed(c)
  /\ testRunActive'
  /\ UNCHANGED <<debug, debugAdapter, stoppingTests, timedOut, testCaseSetup, currentTestFailed, currentTestItem,
                 testConfig, waitOnDebugger, verdicts, reached, late>>

\* stopUnitTests, after Remote.terminate; at the end of a run the flags are set once more
stopUnitTests(c) ==
  /\ handlers[c].pc = "stopping"
  /\ Disposed(c)
  /\ UNCHANGED <<debug, debugAdapter, stoppingTests, timedOut, testCaseSetup, currentTestFailed, currentTestItem,
                 testConfig, waitOnDebugger, verdicts, reached, late>>

\* behind the loop: the remote, if there is one, is stopped
RunEnds(c) ==
  /\ handlers[c].pc = "ending"
  /\ handlers' = [Rejected EXCEPT ![c].pc = IF remote = NoRemote THEN "done" ELSE "stopping"]
  /\ stoppingTests' = TRUE /\ waitOnDebugger' = FALSE
  /\ testRunActive' = (testRunActive /\ remote # NoRemote)
  /\ UNCHANGED <<testCaseSetup, currentTestFailed, currentTestItem, verdicts>> /\ NoneOnTop

\* cancelUnitTests: the user ends the debug session
cancelUnitTests ==
  /\ waitOnDebugger
  /\ stoppingTests' = TRUE /\ waitOnDebugger' = FALSE
  /\ remote' = NoRemote /\ machine' = "stopped"
  /\ handlers' = Rejected
  /\ UNCHANGED <<debug, debugAdapter, testRunActive, timedOut, testCaseSetup, currentTestFailed, currentTestItem,
                 testConfig, verdicts, reached, late>>

Handle(c) ==
  \/ Terminated(c) \/ Launched(c) \/ StartTest(c) \/ execAddr(c, "1") \/ execAddr(c, "2")
  \/ Paused(c) \/ stopUnitTests(c) \/ RunEnds(c)

Next ==
  \/ \E c \in 1..Clicks : runOrDebugHandler(c) \/ Handle(c) \/ TimerFires(c)
  \/ \E success \in BOOLEAN : MachineStops(success)
  \/ UserContinues \/ cancelUnitTests

\* Awaited calls return, timers elapse, a program that does not loop stops, and the user goes on.
Fairness ==
  /\ \A c \in 1..Clicks : WF_vars(Handle(c)) /\ WF_vars(TimerFires(c))
  /\ WF_vars(MachineStops(TRUE) \/ MachineStops(FALSE)) /\ SF_vars(MachineStops(TRUE))
  /\ WF_vars(UserContinues)

Spec == Init /\ [][Next]_vars /\ Fairness

------------------------------------------------------------------------------
(* Properties                                                               *)

VerdictsOn(item) == {i \in DOMAIN verdicts : verdicts[i][1] = item}

\* As long as clicks do not overlap, a test that the loop has left for the next one has exactly
\* one verdict (an assertion that fails several times while debugging counts as often), it is passed
\* only if its code ran to the end, and a timeout only if its own timer has fired.
VerdictsAreRight ==
  Calm =>
    \A c \in 1..Clicks : \A t \in 1..Tests :
      LET vs == VerdictsOn(<<c, t>>)
      IN /\ handlers[c].test > t \/ <<c, t>> \in reached => vs # {}
         /\ \A i \in vs : /\ verdicts[i][2] = "passed" => <<c, t>> \in reached
                          /\ verdicts[i][2] = "timeout" => <<c, t>> \in late
         /\ \A i, j \in vs : i # j => verdicts[i][2] = "failed"

\* A run of the tests ends: the next click starts another.
RunsEnd == testRunActive ~> ~testRunActive

\* "Only allow one test run at a time": two handlers are never in their loops at once.
OneRunAtATime ==
  \A b, c \in 1..Clicks :
    LET InLoop(h) == handlers[h].pc \in {"start", "prepare1", "run1", "prepare2", "run2"}
    IN b # c /\ InLoop(b) => ~InLoop(c)

\* "If a test lasts longer it is assumed as failed": a test that is not debugged is not run forever.
TestsTimeOut ==
  \A c \in 1..Clicks : \A t \in 1..Tests :
    handlers[c].timer /\ handlers[c].test = t
      ~> handlers[c].test # t \/ handlers[c].pc \in {"ending", "stopping", "done"}
==============================================================================
