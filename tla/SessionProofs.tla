---------------------------- MODULE SessionProofs ----------------------------
(***************************************************************************)
(* Proofs about debug sessions, for any number of requests, timers and     *)
(* sessions.  Stepping requests: one answer each, one at a time.  The life *)
(* cycle: what is ended is one's own session.  The runner of the unit      *)
(* tests: each test gets the verdict it deserves.  What vscode shows: the  *)
(* values of the panes and the tree of the tests are up to date.           *)
(***************************************************************************)
EXTENDS MCSession, FiniteSetTheorems, TLAPS

ExecutingReqs == {r \in Reqs : command[r].phase \in Executing}

\* A request that executes holds the flag, vscode shows a running program, and it is alone.
Exclusive ==
  /\ ExecutingReqs # {} => processingSteppingRequest /\ ~uiStopped
  /\ \A r, s \in ExecutingReqs : r = s

\* Requests that have not come yet have neither timer nor response.
NotYet == \A r \in 1..MaxReqs : r \notin Reqs => responses[r] = 0

CommandsOk ==
  /\ command \in Seq([kind : Kinds, phase : Phases])
  /\ Len(command) <= MaxReqs
  /\ respTimer \in SUBSET Reqs
  /\ responses \in [1..MaxReqs -> Nat]
  /\ at \in {0} \cup Reqs

\* The requests that wait are those without an answer, each once.
StacksOk ==
  /\ running => remote
  /\ stacks \in Seq([asked : Nat, answer : Nat \cup {Unanswered}])
  /\ stackTraceResponses \in Seq(DOMAIN stacks)
  /\ frames \in Nat
  /\ \A i, j \in DOMAIN stackTraceResponses :
       i # j => stackTraceResponses[i] # stackTraceResponses[j]
  /\ \A i \in DOMAIN stackTraceResponses : stacks[stackTraceResponses[i]].answer = Unanswered

StepInv == CommandsOk /\ StacksOk /\ NotYet /\ ResponseOnce /\ Exclusive

LEMMA InitStep == Init => StepInv
<1>. SUFFICES ASSUME Init PROVE StepInv
  OBVIOUS
<1>1. command = <<>> /\ Reqs = {} /\ Len(command) = 0
  BY DEF Init, Reqs
<1>2. CommandsOk
  BY <1>1, SteppingAssumption DEF Init, CommandsOk
<1>3. StacksOk
  BY DEF Init, StacksOk
<1>. QED
  BY <1>1, <1>2, <1>3 DEF Init, StepInv, NotYet, ResponseOnce, Exclusive, ExecutingReqs

(* A request that is received is appended to the others.                   *)
LEMMA RequestAppended ==
  ASSUME CommandsOk, NEW c \in [kind : Kinds, phase : Phases], command' = Append(command, c),
         Len(command) < MaxReqs
  PROVE  /\ command' \in Seq([kind : Kinds, phase : Phases])
         /\ Len(command') = Len(command) + 1 /\ Len(command') \in 1..MaxReqs
         /\ Reqs' = Reqs \cup {Len(command')} /\ Len(command') \notin Reqs
         /\ command'[Len(command')] = c
         /\ \A r \in Reqs : command'[r] = command[r]
<1>1. Len(command) \in Nat /\ MaxReqs \in Nat
  BY SteppingAssumption DEF CommandsOk
<1>2. /\ command' \in Seq([kind : Kinds, phase : Phases])
      /\ Len(command') = Len(command) + 1
      /\ command'[Len(command) + 1] = c
      /\ \A r \in 1..Len(command) : command'[r] = command[r]
  BY DEF CommandsOk
<1>. QED
  BY <1>1, <1>2 DEF Reqs

LEMMA HandleStep ==
  ASSUME StepInv, NEW kind \in Kinds, handleRequest(kind)
  PROVE  StepInv'
<1>. DEFINE n == Len(command')
<1>1. CommandsOk /\ StacksOk /\ NotYet /\ ResponseOnce /\ Exclusive
      /\ Len(command) < MaxReqs /\ uiStopped' = FALSE /\ UNCHANGED <<running, remote, at, stackVars>>
  BY DEF StepInv, handleRequest
<1>2. StacksOk'
  BY <1>1 DEF StacksOk, stackVars
<1>3. CASE Ignore(kind)
  <2>. DEFINE c == [kind |-> kind, phase |-> "ignored"]
  <2>1. /\ c \in [kind : Kinds, phase : Phases] /\ c.phase \notin Executing
        /\ command' = Append(command, c) /\ responses' = [responses EXCEPT ![n] = @ + 1]
        /\ processingSteppingRequest
        /\ UNCHANGED <<processingSteppingRequest, respTimer>>
    BY <1>3 DEF Ignore, Phases, Executing
  <2>. HIDE DEF c
  <2>2. /\ command' \in Seq([kind : Kinds, phase : Phases])
        /\ n = Len(command) + 1 /\ n \in 1..MaxReqs
        /\ Reqs' = Reqs \cup {n} /\ n \notin Reqs
        /\ command'[n] = c
        /\ \A r \in Reqs : command'[r] = command[r]
    BY <1>1, <2>1, RequestAppended
  <2>. HIDE DEF n
  <2>3. ExecutingReqs' = ExecutingReqs
    BY <2>1, <2>2 DEF ExecutingReqs
  <2>4. Exclusive'
    BY <1>1, <2>1, <2>3 DEF Exclusive
  <2>5. responses[n] = 0 /\ n \notin respTimer
    BY <1>1, <2>2 DEF NotYet, CommandsOk
  <2>6. /\ responses' \in [1..MaxReqs -> Nat] /\ responses'[n] = 1
        /\ \A r \in 1..MaxReqs : r # n => responses'[r] = responses[r]
    BY <1>1, <2>1, <2>2, <2>5 DEF CommandsOk
  <2>7. n <= MaxReqs
    BY <2>2, SteppingAssumption
  <2>8. CommandsOk'
    BY <1>1, <2>1, <2>2, <2>6, <2>7 DEF CommandsOk, n
  <2>9. NotYet'
    BY <1>1, <2>2, <2>6 DEF NotYet
  <2>10. Reqs \subseteq 1..MaxReqs
    BY <1>1, SteppingAssumption DEF CommandsOk, Reqs
  <2>11. ResponseOnce'
    BY <1>1, <2>1, <2>2, <2>5, <2>6, <2>10 DEF ResponseOnce
  <2>. QED
    BY <1>2, <2>4, <2>8, <2>9, <2>11 DEF StepInv
<1>4. CASE Start(kind)
  <2>. DEFINE c == [kind |-> kind, phase |-> "start"]
  <2>1. /\ c \in [kind : Kinds, phase : Phases]
        /\ command' = Append(command, c) /\ respTimer' = respTimer \cup {n}
        /\ ~processingSteppingRequest /\ processingSteppingRequest'
        /\ UNCHANGED responses
    BY <1>4 DEF Start, Phases, Executing
  <2>. HIDE DEF c
  <2>2. /\ command' \in Seq([kind : Kinds, phase : Phases])
        /\ n = Len(command) + 1 /\ n \in 1..MaxReqs
        /\ Reqs' = Reqs \cup {n} /\ n \notin Reqs
        /\ \A r \in Reqs : command'[r] = command[r]
    BY <1>1, <2>1, RequestAppended
  <2>. HIDE DEF n
  <2>3. ExecutingReqs = {}
    BY <1>1, <2>1 DEF Exclusive
  <2>4. ExecutingReqs' \subseteq {n}
    BY <2>2, <2>3 DEF ExecutingReqs
  <2>5. Exclusive'
    BY <1>1, <2>1, <2>4 DEF Exclusive
  <2>6. responses[n] = 0 /\ n \notin respTimer
    BY <1>1, <2>2 DEF NotYet, CommandsOk
  <2>7. n <= MaxReqs
    BY <2>2, SteppingAssumption
  <2>8. CommandsOk'
    BY <1>1, <2>1, <2>2, <2>7 DEF CommandsOk, n
  <2>9. NotYet'
    BY <1>1, <2>1, <2>2 DEF NotYet
  <2>10. ResponseOnce'
    BY <1>1, <2>1, <2>2, <2>6 DEF ResponseOnce
  <2>. QED
    BY <1>2, <2>5, <2>8, <2>9, <2>10 DEF StepInv
<1>. QED
  BY <1>3, <1>4 DEF handleRequest

(* A request moves on: it executes before or behind it, as its phases say. *)
LEMMA Moved ==
  ASSUME CommandsOk, NEW r \in Reqs, NEW p \in Phases, MoveTo(r, p)
  PROVE  /\ command' \in Seq([kind : Kinds, phase : Phases])
         /\ Len(command') = Len(command) /\ Reqs' = Reqs
         /\ ExecutingReqs' = IF p \in Executing THEN ExecutingReqs \cup {r} ELSE ExecutingReqs \ {r}
<1>1. command' = [command EXCEPT ![r].phase = p] /\ command \in Seq([kind : Kinds, phase : Phases])
  BY DEF MoveTo, CommandsOk
<1>2. r \in 1..Len(command) /\ command[r] \in [kind : Kinds, phase : Phases]
  <2>. DEFINE T == [kind : Kinds, phase : Phases]
  <2>1. r \in 1..Len(command) /\ command \in Seq(T)
    BY <1>1 DEF Reqs
  <2>2. command[r] \in T
    <3>. HIDE DEF T
    <3>. QED
      BY <2>1
  <2>. QED
    BY <2>1, <2>2
<1>3. /\ command' \in Seq([kind : Kinds, phase : Phases]) /\ Len(command') = Len(command)
      /\ command'[r].phase = p
      /\ \A s \in 1..Len(command) : s # r => command'[s] = command[s]
  <2>. DEFINE T == [kind : Kinds, phase : Phases]
              c == [command[r] EXCEPT !.phase = p]
  <2>1. c \in T /\ c.phase = p
    BY <1>2
  <2>2. command' = [command EXCEPT ![r] = c]
    BY <1>1
  <2>. HIDE DEF c, T
  <2>3. command \in Seq(T)
    BY <1>1 DEF T
  <2>4. command' \in Seq(T) /\ Len(command') = Len(command) /\ command'[r] = c
        /\ \A s \in 1..Len(command) : s # r => command'[s] = command[s]
    BY <1>2, <2>1, <2>2, <2>3
  <2>. QED
    BY <2>1, <2>4 DEF T
<1>4. Reqs' = Reqs
  BY <1>3 DEF Reqs
<1>. QED
  BY <1>3, <1>4 DEF ExecutingReqs, Reqs

LEMMA AdvanceStep ==
  ASSUME StepInv, NEW r \in Reqs, Advance(r) \/ Fail(r)
  PROVE  StepInv'
<1>1. CommandsOk /\ StacksOk /\ NotYet /\ ResponseOnce /\ Exclusive
  BY DEF StepInv
<1>2. UNCHANGED <<running, remote, stacks, stackTraceResponses, frames>>
  BY DEF Advance, CallRemote, RemoteReturns, StepReturns, InfoShown, Finish, FinishDropped, Fail, stackVars
<1>3. StacksOk'
  BY <1>1, <1>2 DEF StacksOk
<1>4. PICK p \in Phases : MoveTo(r, p) /\ (Finish(r) => p = "done")
  BY DEF Advance, CallRemote, RemoteReturns, StepReturns, InfoShown, Finish, FinishDropped, Fail,
         Phases, Executing, MoveTo
<1>5. r \in ExecutingReqs
  BY DEF Advance, CallRemote, RemoteReturns, StepReturns, InfoShown, Finish, FinishDropped, Fail,
         Executing, ExecutingReqs
<1>6. /\ command' \in Seq([kind : Kinds, phase : Phases])
      /\ Len(command') = Len(command) /\ Reqs' = Reqs
      /\ ExecutingReqs' = IF p \in Executing THEN ExecutingReqs \cup {r} ELSE ExecutingReqs \ {r}
  BY <1>1, <1>4, Moved
<1>7. at' \in {0} \cup Reqs
  BY <1>1 DEF Advance, CallRemote, RemoteReturns, StepReturns, InfoShown, Finish, FinishDropped, Fail,
              CommandsOk
<1>8. ExecutingReqs = {r} /\ processingSteppingRequest /\ ~uiStopped
  BY <1>1, <1>5 DEF Exclusive
<1>9. CASE Finish(r)
  <2>1. /\ respTimer' = respTimer \ {r}
        /\ responses' = [responses EXCEPT ![r] = @ + (IF r \in respTimer THEN 1 ELSE 0)]
    BY <1>9 DEF Finish
  <2>2. r \in 1..MaxReqs /\ Reqs \subseteq 1..MaxReqs
    BY <1>1, SteppingAssumption DEF CommandsOk, Reqs
  <2>3. /\ responses' \in [1..MaxReqs -> Nat]
        /\ responses'[r] = responses[r] + (IF r \in respTimer THEN 1 ELSE 0)
        /\ \A s \in 1..MaxReqs : s # r => responses'[s] = responses[s]
    BY <1>1, <2>1, <2>2 DEF CommandsOk
  <2>4. ExecutingReqs' = {}
    BY <1>4, <1>6, <1>8, <1>9 DEF Executing
  <2>5. CommandsOk'
    BY <1>1, <1>6, <1>7, <2>1, <2>3 DEF CommandsOk
  <2>6. NotYet'
    BY <1>1, <1>6, <2>3 DEF NotYet
  <2>7. ResponseOnce'
    <3>1. ASSUME NEW s \in Reqs
          PROVE  responses'[s] + (IF s \in respTimer' THEN 1 ELSE 0) = 1
      BY <1>1, <2>1, <2>2, <2>3 DEF ResponseOnce, CommandsOk
    <3>. QED
      BY <1>6, <3>1 DEF ResponseOnce
  <2>8. Exclusive'
    BY <2>4 DEF Exclusive
  <2>. QED
    BY <1>3, <2>5, <2>6, <2>7, <2>8 DEF StepInv
<1>10. CASE ~Finish(r)
  <2>1. UNCHANGED <<processingSteppingRequest, respTimer, responses, uiStopped>>
    BY <1>10 DEF Advance, CallRemote, RemoteReturns, StepReturns, InfoShown, FinishDropped, Fail
  <2>2. ExecutingReqs' \subseteq {r}
    BY <1>6, <1>8
  <2>3. Exclusive'
    BY <1>8, <2>1, <2>2 DEF Exclusive
  <2>4. CommandsOk'
    BY <1>1, <1>6, <1>7, <2>1 DEF CommandsOk
  <2>5. NotYet' /\ ResponseOnce'
    BY <1>1, <1>6, <2>1 DEF NotYet, ResponseOnce
  <2>. QED
    BY <1>3, <2>3, <2>4, <2>5 DEF StepInv
<1>. QED
  BY <1>9, <1>10

LEMMA TimeoutStep ==
  ASSUME StepInv, NEW r \in Reqs, RespTimeout(r)
  PROVE  StepInv'
<1>1. CommandsOk /\ StacksOk /\ NotYet /\ ResponseOnce /\ Exclusive
  BY DEF StepInv
<1>2. /\ r \in respTimer /\ respTimer' = respTimer \ {r}
      /\ responses' = [responses EXCEPT ![r] = @ + 1]
      /\ UNCHANGED <<running, remote, processingSteppingRequest, command, uiStopped, at, stackVars>>
  BY DEF RespTimeout
<1>3. Reqs' = Reqs /\ ExecutingReqs' = ExecutingReqs
  BY <1>2 DEF Reqs, ExecutingReqs
<1>4. StacksOk' /\ Exclusive'
  BY <1>1, <1>2, <1>3 DEF StacksOk, Exclusive, stackVars
<1>5. r \in 1..MaxReqs /\ Reqs \subseteq 1..MaxReqs
  BY <1>1, SteppingAssumption DEF CommandsOk, Reqs
<1>6. /\ responses' \in [1..MaxReqs -> Nat] /\ responses'[r] = responses[r] + 1
      /\ \A s \in 1..MaxReqs : s # r => responses'[s] = responses[s]
  BY <1>1, <1>2, <1>5 DEF CommandsOk
<1>7. CommandsOk'
  BY <1>1, <1>2, <1>3, <1>6 DEF CommandsOk
<1>8. NotYet'
  BY <1>1, <1>3, <1>6 DEF NotYet
<1>9. ASSUME NEW s \in Reqs
      PROVE  responses'[s] + (IF s \in respTimer' THEN 1 ELSE 0) = 1
  BY <1>1, <1>2, <1>5, <1>6 DEF ResponseOnce, CommandsOk
<1>10. ResponseOnce'
  BY <1>3, <1>9 DEF ResponseOnce
<1>. QED
  BY <1>4, <1>7, <1>8, <1>10 DEF StepInv

LEMMA StackStep ==
  ASSUME StepInv, stackTraceRequest \/ StackTraceDone \/ StackTraceFails
  PROVE  StepInv'
<1>. DEFINE T == [asked : Nat, answer : Nat \cup {Unanswered}]
<1>1. CommandsOk /\ StacksOk /\ NotYet /\ ResponseOnce /\ Exclusive
  BY DEF StepInv
<1>2. UNCHANGED commandVars
  BY DEF stackTraceRequest, StackTraceDone, StackTraceFails
<1>3. Reqs' = Reqs /\ ExecutingReqs' = ExecutingReqs
  BY <1>2 DEF commandVars, Reqs, ExecutingReqs
<1>4. CommandsOk' /\ NotYet' /\ ResponseOnce' /\ Exclusive'
  BY <1>1, <1>2, <1>3 DEF commandVars, CommandsOk, NotYet, ResponseOnce, Exclusive
<1>5. at \in Nat
  BY <1>1 DEF CommandsOk, Reqs
<1>6. CASE stackTraceRequest
  <2>. DEFINE n == Len(stacks')
              waiting == stackTraceResponses
  <2>1. /\ stacks' = Append(stacks, [asked |-> at, answer |-> Unanswered])
        /\ waiting' = Append(waiting, n) /\ frames' \in Nat
        /\ UNCHANGED <<running, remote>>
    BY <1>1, <1>5, <1>6 DEF stackTraceRequest, StacksOk
  <2>2. [asked |-> at, answer |-> Unanswered] \in T
    BY <1>5
  <2>3. stacks \in Seq(T) /\ waiting \in Seq(DOMAIN stacks)
    BY <1>1 DEF StacksOk
  <2>4. /\ stacks' \in Seq(T) /\ n = Len(stacks) + 1
        /\ DOMAIN stacks = 1..Len(stacks) /\ DOMAIN stacks' = 1..n
        /\ stacks'[n].answer = Unanswered
        /\ \A i \in DOMAIN stacks : stacks'[i] = stacks[i]
    <3>. HIDE DEF T
    <3>. QED
      BY <2>1, <2>2, <2>3
  <2>5. n \notin DOMAIN stacks /\ DOMAIN stacks' = DOMAIN stacks \cup {n}
    BY <2>3, <2>4
  <2>. HIDE DEF n, T
  <2>6. /\ waiting \in Seq(DOMAIN stacks')
        /\ \A i \in DOMAIN waiting : waiting[i] \in DOMAIN stacks
    BY <2>3, <2>5
  <2>7. /\ waiting' \in Seq(DOMAIN stacks') /\ Len(waiting') = Len(waiting) + 1
        /\ DOMAIN waiting' = DOMAIN waiting \cup {Len(waiting')}
        /\ waiting'[Len(waiting')] = n
        /\ \A i \in DOMAIN waiting : waiting'[i] = waiting[i]
    BY <2>1, <2>5, <2>6
  <2>8. \A i, j \in DOMAIN waiting' : i # j => waiting'[i] # waiting'[j]
    BY <1>1, <2>5, <2>6, <2>7 DEF StacksOk
  <2>9. \A i \in DOMAIN waiting' : stacks'[waiting'[i]].answer = Unanswered
    BY <1>1, <2>4, <2>6, <2>7 DEF StacksOk
  <2>. QED
    BY <1>1, <1>4, <2>1, <2>4, <2>7, <2>8, <2>9 DEF StepInv, StacksOk, T
<1>7. CASE StackTraceDone
  <2>1. /\ stacks' = [s \in DOMAIN stacks |->
                        IF s \in ToSet(stackTraceResponses)
                        THEN [stacks[s] EXCEPT !.answer = frames] ELSE stacks[s]]
        /\ stackTraceResponses' = <<>> /\ UNCHANGED <<running, remote, frames>>
    BY <1>7 DEF StackTraceDone
  <2>2. stacks \in Seq(T) /\ frames \in Nat
    BY <1>1 DEF StacksOk
  <2>3. \A s \in DOMAIN stacks : stacks[s] \in T /\ [stacks[s] EXCEPT !.answer = frames] \in T
    <3>1. TAKE s \in DOMAIN stacks
    <3>2. stacks[s] \in T
      <4>. HIDE DEF T
      <4>. QED
        BY <2>2
    <3>. QED
      BY <2>2, <3>2
  <2>4. stacks' \in Seq(T)
    <3>. HIDE DEF T
    <3>. QED
      BY <2>1, <2>2, <2>3
  <2>. QED
    BY <1>1, <1>4, <2>1, <2>4 DEF StepInv, StacksOk
<1>8. CASE StackTraceFails
  BY <1>1, <1>4, <1>8 DEF StackTraceFails, StepInv, StacksOk
<1>. QED
  BY <1>6, <1>7, <1>8

LEMMA OtherStep ==
  ASSUME StepInv, pauseRequest \/ Disconnect \/ RemoveRemote \/ UNCHANGED vars
  PROVE  StepInv'
<1>1. /\ UNCHANGED <<processingSteppingRequest, command, respTimer, responses, uiStopped, at,
                     stackTraceResponses, frames, stacks>>
      /\ (running => remote)' \/ UNCHANGED <<running, remote>>
  BY DEF pauseRequest, Disconnect, RemoveRemote, vars, commandVars, stackVars
<1>2. Reqs' = Reqs /\ ExecutingReqs' = ExecutingReqs
  BY <1>1 DEF Reqs, ExecutingReqs
<1>3. StacksOk'
  BY <1>1 DEF StepInv, StacksOk
<1>. QED
  BY <1>1, <1>2, <1>3 DEF StepInv, CommandsOk, NotYet, ResponseOnce, Exclusive

LEMMA StepInductive == MCSpec => []StepInv
<1>1. StepInv /\ [Next]_vars => StepInv'
  BY HandleStep, AdvanceStep, TimeoutStep, StackStep, OtherStep DEF Next
<1>2. MCInit => StepInv
  BY InitStep DEF MCInit
<1>3. [MCNext]_<<part, vars, lifeVars, runnerVars, treeVars, valueVars>> => [Next]_vars
  BY DEF MCNext
<1>. QED
  BY <1>1, <1>2, <1>3, PTL DEF MCSpec

(* handleRequest: each stepping request gets one response, whoever is      *)
(* first, the timer or the end of the command, and at most one request     *)
(* drives the remote, none while the program is shown as stopped.          *)
THEOREM OneResponse == MCSpec => []ResponsesAreOnce
<1>1. StepInv => ResponsesAreOnce
  <2>. SUFFICES ASSUME StepInv PROVE ResponsesAreOnce
    OBVIOUS
  <2>1. TypeOK
    BY DEF StepInv, CommandsOk, StacksOk, TypeOK
  <2>2. Cardinality(ExecutingReqs) <= IF uiStopped THEN 0 ELSE 1
    <3>1. CASE ExecutingReqs = {}
      <4>1. Cardinality(ExecutingReqs) = 0
        BY <3>1, FS_EmptySet
      <4>. QED
        BY <4>1
    <3>2. CASE ExecutingReqs # {}
      <4>1. PICK r : ExecutingReqs = {r}
        BY <3>2 DEF StepInv, Exclusive
      <4>2. Cardinality(ExecutingReqs) = 1 /\ ~uiStopped
        BY <4>1, FS_Singleton DEF StepInv, Exclusive
      <4>. QED
        BY <4>2
    <3>. QED
      BY <3>1, <3>2
  <2>3. OneAtATime
    BY <2>2 DEF OneAtATime, ExecutingReqs
  <2>. QED
    BY <2>1, <2>3 DEF StepInv, ResponsesAreOnce
<1>. QED
  BY <1>1, StepInductive, PTL

------------------------------------------------------------------------------
(* The life cycle of sessions                                               *)

LifeFlags == calm \in BOOLEAN /\ lifeRunning \in BOOLEAN /\ cancelled \in BOOLEAN

LifeTypes ==
  /\ state \in {"NORMAL", "UNITTEST"}
  /\ lifeRemote \in {Life!NoRemote, sessions}
  /\ sessions \in 0..MaxLaunches
  /\ vscode \in {"none", "active", "stopping", "ended", "closing"}
  /\ failing \in 0..sessions
  /\ tests \in {"idle", "terminating", "polling", "starting", "running", "ending"}

\* What vscode shows says where the adapter, the remote and the test runner may be, as long as
\* nothing ends a session that is being ended already.
WhenNone ==
  vscode = "none" =>
    /\ teardowns = {} /\ ~lifeRunning /\ lifeRemote = Life!NoRemote /\ failing = Life!NoRemote
    /\ tests \in {"idle", "polling", "starting", "ending"}
    /\ state = "UNITTEST" <=> tests = "starting"

WhenActive ==
  vscode = "active" =>
    /\ teardowns = {} /\ lifeRunning /\ lifeRemote = sessions /\ lifeRemote # Life!NoRemote
    /\ tests \in {"idle", "terminating", "running", "ending"}
    /\ state = "UNITTEST" <=> tests \in {"running", "ending"}
    /\ failing # Life!NoRemote => tests \in {"idle", "running"}

WhenStopping ==
  vscode = "stopping" =>
    /\ teardowns = {[session |-> sessions, by |-> "terminate"]}
    /\ ~lifeRunning /\ lifeRemote = sessions /\ failing = Life!NoRemote
    /\ tests \in {"idle", "running"}
    /\ state = "UNITTEST" <=> tests = "running"

WhenEnded ==
  vscode = "ended" =>
    /\ teardowns = {} /\ failing = Life!NoRemote
    /\ tests \in {"idle", "polling", "running", "ending"}
    /\ tests = "running" => state = "UNITTEST"
    /\ tests = "polling" => state = "NORMAL" /\ lifeRunning /\ lifeRemote = Life!NoRemote
    /\ ~lifeRunning => lifeRemote = Life!NoRemote /\ state = "NORMAL" /\ tests = "idle"

WhenClosing ==
  vscode = "closing" =>
    /\ teardowns = {[session |-> sessions, by |-> "disconnect"]}
    /\ ~lifeRunning /\ failing = Life!NoRemote
    /\ tests \in {"idle", "running", "ending"}
    /\ tests = "running" => state = "UNITTEST"

NotCancelled == tests \in {"terminating", "polling", "starting", "running"} => ~cancelled

Views == WhenNone /\ WhenActive /\ WhenStopping /\ WhenEnded /\ WhenClosing /\ NotCancelled

LifeInv == LifeFlags /\ LifeTypes /\ (calm => Views)

LEMMA InitLife == Life!Init => LifeInv
<1>1. Life!Init => LifeTypes
  BY LaunchesAssumption DEF Life!Init, Life!NoRemote, LifeTypes
<1>2. Life!Init => Views
  BY DEF Life!Init, Life!NoRemote, Views, WhenNone, WhenActive, WhenStopping, WhenEnded, WhenClosing,
         NotCancelled
<1>3. Life!Init => LifeFlags
  BY DEF Life!Init, LifeFlags
<1>. QED
  BY <1>1, <1>2, <1>3 DEF LifeInv

(* A session is launched, by the user or by the test runner.               *)
LEMMA LaunchStep ==
  ASSUME LifeInv, Life!launchRequest \/ Life!TestsLaunched
  PROVE  LifeInv'
<1>. USE DEF Life!launchRequest, Life!TestsLaunched, Life!Launch, Life!UserMayAct, Life!NoRemote, LifeInv
<1>1. LifeTypes'
  <2>1. sessions' = sessions + 1 /\ sessions' \in 0..MaxLaunches /\ failing' \in 0..sessions'
    BY LaunchesAssumption DEF LifeTypes
  <2>. QED
    BY <2>1 DEF LifeTypes
<1>2. calm' => Views'
  <2>1. sessions' # 0
    BY LaunchesAssumption DEF LifeTypes
  <2>2. vscode' = "active" /\ lifeRunning' = TRUE /\ lifeRemote' = sessions' /\ UNCHANGED <<teardowns, failing>>
    OBVIOUS
  <2>3. SUFFICES ASSUME calm' PROVE Views'
    OBVIOUS
  <2>4. /\ calm /\ vscode = "none"
        /\ teardowns = {} /\ failing = 0 /\ tests \in {"idle", "polling", "starting", "ending"}
        /\ state = "UNITTEST" <=> tests = "starting"
        /\ NotCancelled
    BY <2>3 DEF Views, WhenNone
  <2>5. /\ tests' \in {"idle", "running"}
        /\ state' = "UNITTEST" <=> tests' = "running"
        /\ tests' = "running" => ~cancelled'
    <3>1. CASE Life!launchRequest
      <4>1. tests = "idle" /\ UNCHANGED <<state, tests>>
        BY <2>4, <3>1
      <4>. QED
        BY <2>4, <4>1
    <3>2. CASE Life!TestsLaunched
      <4>1. tests = "starting" /\ tests' = "running" /\ UNCHANGED <<state, cancelled>>
        BY <3>2
      <4>. QED
        BY <2>4, <4>1 DEF NotCancelled
    <3>. QED
      BY <3>1, <3>2
  <2>. QED
    BY ONLY <2>1, <2>2, <2>4, <2>5
       DEF Views, WhenNone, WhenActive, WhenStopping, WhenEnded, WhenClosing, NotCancelled, Life!NoRemote
<1>3. LifeFlags'
  BY Zenon DEF LifeFlags
<1>. QED
  BY <1>1, <1>2, <1>3

(* disconnectAll begins, or has nothing to disconnect.                     *)
LEMMA DisconnectStep ==
  ASSUME LifeInv, Life!terminateRequest \/ Life!disconnectRequest
  PROVE  LifeInv'
<1>. USE DEF Life!terminateRequest, Life!disconnectRequest, Life!disconnectAll, Life!CleanUp,
             Life!AfterAnswer, Life!AfterTerminatedEvent, Life!UserMayAct, Life!NoRemote, LifeInv
<1>1. LifeTypes'
  BY DEF LifeTypes
<1>2. calm' => Views'
  BY DEF LifeTypes, Views, WhenNone, WhenActive, WhenStopping, WhenEnded, WhenClosing, NotCancelled
<1>3. LifeFlags'
  BY Zenon DEF LifeFlags
<1>. QED
  BY <1>1, <1>2, <1>3

(* Remote.disconnect returns.                                              *)
LEMMA DisconnectedStep ==
  ASSUME LifeInv, NEW t \in teardowns, Life!Disconnected(t)
  PROVE  LifeInv'
<1>. USE DEF Life!Disconnected, Life!CleanUp, Life!AfterAnswer, Life!AfterTerminatedEvent,
             Life!NoRemote, LifeInv
<1>1. LifeTypes'
  BY DEF LifeTypes
<1>2. calm' => Views'
  BY DEF LifeTypes, Views, WhenNone, WhenActive, WhenStopping, WhenEnded, WhenClosing, NotCancelled
<1>3. LifeFlags'
  BY Zenon DEF LifeFlags
<1>. QED
  BY <1>1, <1>2, <1>3

(* An error of the remote, and what the test runner does.                  *)
LEMMA RunnerStep ==
  ASSUME LifeInv, \/ Life!RemoteError \/ Life!terminate \/ Life!terminateRemote \/ Life!RemoteTerminated
                  \/ Life!GiveUp \/ Life!unitTestsStart \/ Life!stopUnitTests \/ Life!TestsEnd
  PROVE  LifeInv'
<1>. USE DEF Life!RemoteError, Life!terminate, Life!terminateRemote, Life!RemoteTerminated,
             Life!GiveUp, Life!unitTestsStart, Life!stopUnitTests, Life!TestsEnd,
             Life!AfterTerminatedEvent, Life!NoRemote, LifeInv
<1>1. LifeTypes'
  BY DEF LifeTypes
<1>2. calm' => Views'
  BY DEF LifeTypes, Views, WhenNone, WhenActive, WhenStopping, WhenEnded, WhenClosing, NotCancelled
<1>3. LifeFlags'
  BY Zenon DEF LifeFlags
<1>. QED
  BY <1>1, <1>2, <1>3

LEMMA LifeInductive == MCSpec => []LifeInv
<1>1. LifeInv /\ [Life!Next]_lifeVars => LifeInv'
  <2>1. LifeInv /\ Life!Next => LifeInv'
    BY LaunchStep, DisconnectStep, DisconnectedStep, RunnerStep DEF Life!Next
  <2>2. LifeInv /\ UNCHANGED lifeVars => LifeInv'
    BY DEF lifeVars, LifeInv, LifeFlags, LifeTypes, Views, WhenNone, WhenActive, WhenStopping, WhenEnded,
           WhenClosing, NotCancelled
  <2>. QED
    BY <2>1, <2>2
<1>2. MCInit => LifeInv
  BY InitLife DEF MCInit
<1>3. [MCNext]_<<part, vars, lifeVars, runnerVars, treeVars, valueVars>> => [Life!Next]_lifeVars
  BY DEF MCNext
<1>. QED
  BY <1>1, <1>2, <1>3, PTL DEF MCSpec

(* disconnectAll and the test runner: what is ended is one's own session,  *)
(* a session that vscode shows has a Remote, and started tests have a      *)
(* session of their own that nobody cancels.                               *)
THEOREM OwnSession == MCSpec => []SessionsAreSeparate
<1>1. LifeInv => SessionsAreSeparate
  <2>. SUFFICES ASSUME LifeInv PROVE SessionsAreSeparate
    OBVIOUS
  <2>1. Life!TypeOK
    <3>1. calm => \A t, u \in teardowns : t = u
      BY DEF LifeInv, LifeTypes, Views, WhenNone, WhenActive, WhenStopping, WhenEnded, WhenClosing
    <3>2. calm \in BOOLEAN /\ lifeRunning \in BOOLEAN /\ cancelled \in BOOLEAN
      BY DEF LifeInv, LifeFlags
    <3>3. /\ state \in {"NORMAL", "UNITTEST"} /\ lifeRemote \in {Life!NoRemote, sessions}
          /\ sessions \in 0..MaxLaunches
          /\ vscode \in {"none", "active", "stopping", "ended", "closing"}
          /\ failing \in 0..sessions
          /\ tests \in {"idle", "terminating", "polling", "starting", "running", "ending"}
      BY DEF LifeInv, LifeTypes
    <3>. QED
      BY ONLY <3>1, <3>2, <3>3, Zenon DEF Life!TypeOK
  <2>2. Life!OwnRemoteRemoved
    BY DEF LifeInv, LifeTypes, Views, WhenNone, WhenActive, WhenStopping, WhenEnded, WhenClosing,
           Life!OwnRemoteRemoved
  <2>3. Life!TestsOwnTheSession
    BY DEF LifeInv, LifeTypes, Views, WhenNone, WhenActive, WhenStopping, WhenEnded, WhenClosing,
           NotCancelled, Life!TestsOwnTheSession
  <2>. QED
    BY <2>1, <2>2, <2>3 DEF SessionsAreSeparate
<1>. QED
  BY <1>1, LifeInductive, PTL
------------------------------------------------------------------------------
(* The runner of the unit tests: as long as clicks do not overlap, one     *)
(* handler is in its run.  It owns the test that is current, and that test *)
(* has failed or is undecided: so the next verdict is the right one.       *)

Testing == {"prepare1", "run1", "prepare2", "run2"}
Waiting == {"run1", "run2", "ending"}
SetUp   == {"terminating", "launching", "start"}
Places  == {"idle", "done", "stopping", "ending"} \cup SetUp \cup Testing
Ends    == {"passed", "failed", "timeout"}
InRun(c) == handlers[c].pc \in SetUp \cup Testing \cup {"ending"}

Handler == [pc : Places, test : Nat, timer : BOOLEAN, debug : BOOLEAN]
Handlers == [1..Clicks -> Handler]

RunnerTypes ==
  /\ handlers \in Handlers
  /\ verdicts \in Seq((Nat \X Nat) \X Ends)
  /\ currentTestItem \in Nat \X Nat
  /\ debug \in BOOLEAN

OneRun ==
  /\ \A b, c \in 1..Clicks : b < c /\ handlers[b].pc = "idle" => handlers[c].pc = "idle"
  /\ \A b, c \in 1..Clicks : InRun(b) /\ InRun(c) => b = c
  /\ \A c \in 1..Clicks : /\ handlers[c].pc = "idle" => handlers[c].test = 0
                          /\ handlers[c].timer => handlers[c].pc \in Testing

\* Nothing is known of a test that has not begun.
Unstarted ==
  \A c \in 1..Clicks : \A t \in 1..Tests :
    t > handlers[c].test \/ (t = handlers[c].test /\ handlers[c].pc \in SetUp)
      => Runner!VerdictsOn(<<c, t>>) = {} /\ <<c, t>> \notin reached

OnlyFailed(item) ==
  item \notin reached /\ \A i \in Runner!VerdictsOn(item) : verdicts[i][2] = "failed"

CurrentUndecided ==
  currentTestItem # Runner!NoItem =>
    /\ \E c \in 1..Clicks : currentTestItem = Runner!Item(c) /\ handlers[c].pc \notin {"idle"} \cup SetUp
    /\ OnlyFailed(currentTestItem)

DebuggedIsCurrent ==
  waitOnDebugger =>
    /\ debugAdapter
    /\ \E c \in 1..Clicks : handlers[c].pc \in Waiting /\ currentTestItem = Runner!Item(c)

\* The flags are those of the test of handler c.
TestOk(c) ==
  /\ currentTestItem = Runner!Item(c)
  /\ handlers[c].test \in 1..Tests
  /\ timedOut => Runner!Item(c) \in late
  /\ testCaseSetup <=> handlers[c].pc \in {"prepare1", "run1"}
  /\ currentTestFailed <=> Runner!VerdictsOn(Runner!Item(c)) # {}
  /\ currentTestFailed => debugAdapter

Tested ==
  \A c \in 1..Clicks : /\ handlers[c].pc \in Testing => TestOk(c)
                       /\ handlers[c].pc \in SetUp => ~timedOut /\ handlers[c].test \in 1..Tests

\* The verdicts of one test.
ItemDecided(item) ==
  /\ item \in reached => Runner!VerdictsOn(item) # {}
  /\ \A i \in Runner!VerdictsOn(item) : /\ verdicts[i][2] = "passed" => item \in reached
                                        /\ verdicts[i][2] = "timeout" => item \in late
  /\ \A i, j \in Runner!VerdictsOn(item) : i # j => verdicts[i][2] = "failed"
ItemRight(c, t) ==
  /\ handlers[c].test > t => Runner!VerdictsOn(<<c, t>>) # {}
  /\ ItemDecided(<<c, t>>)
ItemsRight == \A c \in 1..Clicks : \A t \in 1..Tests : ItemRight(c, t)

CalmInv == OneRun /\ Unstarted /\ CurrentUndecided /\ DebuggedIsCurrent /\ Tested /\ ItemsRight
RunnerInv == RunnerTypes /\ (Calm => CalmInv)

LEMMA InitRunner == Runner!Init => RunnerInv
<1>. SUFFICES ASSUME Runner!Init PROVE RunnerInv
  OBVIOUS
<1>1. RunnerTypes
  <2>1. debug \in BOOLEAN
    BY Zenon DEF Runner!Init
  <2>. QED
    BY <2>1, RunnerAssumption
       DEF Runner!Init, RunnerTypes, Handlers, Handler, Runner!Idle, Runner!NoItem, Places
<1>2. /\ \A c \in 1..Clicks : handlers[c] = Runner!Idle
      /\ verdicts = <<>> /\ reached = {} /\ ~waitOnDebugger /\ currentTestItem = Runner!NoItem
  BY DEF Runner!Init
<1>3. \A x : Runner!VerdictsOn(x) = {}
  BY <1>2 DEF Runner!VerdictsOn
<1>4. OneRun /\ Tested
  BY <1>2 DEF OneRun, Tested, InRun, Runner!Idle, SetUp, Testing
<1>5. Unstarted /\ CurrentUndecided /\ DebuggedIsCurrent
  BY <1>2, <1>3 DEF Unstarted, CurrentUndecided, DebuggedIsCurrent
<1>6. ItemsRight
  BY <1>2, <1>3 DEF ItemsRight, ItemRight, ItemDecided, Runner!Idle
<1>. QED
  BY <1>1, <1>4, <1>5, <1>6 DEF RunnerInv, CalmInv

(* What testFailed and testPassed add to the verdicts.                     *)
LEMMA Reported ==
  ASSUME RunnerTypes, NEW what \in Ends, NEW item, item = currentTestItem, Runner!Report(what)
  PROVE  /\ verdicts' \in Seq((Nat \X Nat) \X Ends)
         /\ \A x : x # item => Runner!VerdictsOn(x)' = Runner!VerdictsOn(x)
         /\ Runner!VerdictsOn(item)' = Runner!VerdictsOn(item) \cup {Len(verdicts) + 1}
         /\ \A x : Len(verdicts) + 1 \notin Runner!VerdictsOn(x)
         /\ \A x : \A i \in Runner!VerdictsOn(x) : verdicts'[i] = verdicts[i]
         /\ verdicts'[Len(verdicts) + 1][2] = what
<1>1. <<item, what>> \in (Nat \X Nat) \X Ends
  BY DEF RunnerTypes
<1>2. verdicts' = Append(verdicts, <<item, what>>)
  BY DEF Runner!Report
<1>3. /\ verdicts' \in Seq((Nat \X Nat) \X Ends)
      /\ DOMAIN verdicts' = 1..(Len(verdicts) + 1) /\ DOMAIN verdicts = 1..Len(verdicts)
      /\ Len(verdicts) \in Nat
      /\ verdicts'[Len(verdicts) + 1] = <<item, what>>
      /\ \A i \in 1..Len(verdicts) : verdicts'[i] = verdicts[i]
  BY <1>1, <1>2 DEF RunnerTypes
<1>. QED
  BY <1>3 DEF Runner!VerdictsOn

\* A step that moves handlers, and neither begins nor leaves a test.
HandlerMoves(b) ==
  /\ handlers'[b].test = handlers[b].test
  /\ handlers'[b].pc \in Testing => handlers'[b].pc = handlers[b].pc
  /\ handlers'[b].pc \in SetUp => handlers[b].pc \in SetUp
  /\ InRun(b)' => InRun(b)
  /\ handlers'[b].pc = "idle" => handlers[b].pc = "idle"
  /\ handlers'[b].timer => handlers[b].timer /\ handlers'[b].pc = handlers[b].pc
Moves ==
  /\ UNCHANGED <<verdicts, reached, currentTestItem, testCaseSetup, currentTestFailed>>
  /\ late \subseteq late'
  /\ \A b, c \in 1..Clicks : b < c /\ handlers'[b].pc = "idle" => handlers'[c].pc = "idle"
  /\ \A b \in 1..Clicks : HandlerMoves(b)
FlagsStay ==
  /\ waitOnDebugger' => /\ waitOnDebugger /\ UNCHANGED debugAdapter
                        /\ \A b \in 1..Clicks : handlers[b].pc \in Waiting => handlers'[b].pc \in Waiting
  /\ \A b \in 1..Clicks :
       /\ handlers[b].pc \in Testing => UNCHANGED debugAdapter
       /\ handlers'[b].pc \in Testing /\ timedOut' => timedOut \/ Runner!Item(b) \in late'
       /\ handlers'[b].pc \in SetUp => (timedOut' => timedOut)

LEMMA RunnerMoved ==
  ASSUME CalmInv, Moves, FlagsStay
  PROVE  CalmInv'
<1>. USE DEF Moves, FlagsStay, HandlerMoves, CalmInv, Runner!Item
<1>1. \A x : Runner!VerdictsOn(x)' = Runner!VerdictsOn(x)
  BY DEF Runner!VerdictsOn
<1>2. OneRun'
  <2>1. \A b, c \in 1..Clicks : InRun(b)' /\ InRun(c)' => b = c
    BY DEF OneRun
  <2>2. \A c \in 1..Clicks : handlers'[c].timer => handlers'[c].pc \in Testing
    BY DEF OneRun
  <2>3. \A c \in 1..Clicks : handlers'[c].pc = "idle" => handlers'[c].test = 0
    BY DEF OneRun
  <2>. QED
    BY <2>1, <2>2, <2>3 DEF OneRun
<1>3. Unstarted'
  BY <1>1 DEF Unstarted
<1>4. CurrentUndecided'
  <2>1. OnlyFailed(currentTestItem) => OnlyFailed(currentTestItem)'
    BY <1>1 DEF OnlyFailed
  <2>. QED
    BY <2>1 DEF CurrentUndecided, Runner!NoItem
<1>5. DebuggedIsCurrent'
  BY DEF DebuggedIsCurrent
<1>6. Tested'
  BY <1>1 DEF Tested, TestOk
<1>7. ItemsRight'
  BY <1>1 DEF ItemsRight, ItemRight, ItemDecided
<1>. QED
  BY <1>2, <1>3, <1>4, <1>5, <1>6, <1>7

(* A handler goes to another place; its timer may be switched too.         *)
LEMMA HandlerGoes ==
  ASSUME NEW h \in Handler, NEW pc \in Places
  PROVE  /\ [h EXCEPT !.pc = pc] \in Handler
         /\ [h EXCEPT !.pc = pc].pc = pc
         /\ [h EXCEPT !.pc = pc].test = h.test
         /\ [h EXCEPT !.pc = pc].timer = h.timer
BY DEF Handler

LEMMA HandlerStops ==
  ASSUME NEW h \in Handler, NEW pc \in Places
  PROVE  /\ [h EXCEPT !.pc = pc, !.timer = FALSE] \in Handler
         /\ [h EXCEPT !.pc = pc, !.timer = FALSE].pc = pc
         /\ [h EXCEPT !.pc = pc, !.timer = FALSE].test = h.test
         /\ ~[h EXCEPT !.pc = pc, !.timer = FALSE].timer
BY DEF Handler

(* A step that gives handler c another record.                             *)
LEMMA OneHandler ==
  ASSUME NEW H \in Handlers, NEW c \in 1..Clicks, NEW h \in Handler
  PROVE  /\ [H EXCEPT ![c] = h] \in Handlers
         /\ [H EXCEPT ![c] = h][c] = h
         /\ \A b \in 1..Clicks : b # c => [H EXCEPT ![c] = h][b] = H[b]
BY DEF Handlers

(* A handler that waits is sent out of its loop.                           *)
LEMMA RejectedOnes ==
  ASSUME RunnerTypes
  PROVE  /\ Runner!Rejected \in Handlers
         /\ \A b \in 1..Clicks :
              /\ Runner!Rejected[b] \in Handler
              /\ \/ Runner!Rejected[b] = handlers[b]
                 \/ /\ handlers[b].pc \in {"run1", "run2"}
                    /\ Runner!Rejected[b].pc = "ending" /\ ~Runner!Rejected[b].timer
                    /\ Runner!Rejected[b].test = handlers[b].test
<1>. DEFINE H == Runner!Rejected
<1>1. \A b \in 1..Clicks :
        /\ H[b] \in Handler
        /\ \/ H[b] = handlers[b]
           \/ /\ handlers[b].pc \in {"run1", "run2"}
              /\ H[b].pc = "ending" /\ ~H[b].timer /\ H[b].test = handlers[b].test
  <2>. SUFFICES ASSUME NEW b \in 1..Clicks
                PROVE  /\ H[b] \in Handler
                       /\ \/ H[b] = handlers[b]
                          \/ /\ handlers[b].pc \in {"run1", "run2"}
                             /\ H[b].pc = "ending" /\ ~H[b].timer /\ H[b].test = handlers[b].test
    OBVIOUS
  <2>1. handlers[b] \in Handler /\ "ending" \in Places
    BY DEF RunnerTypes, Handlers, Places
  <2>. DEFINE h == [handlers[b] EXCEPT !.pc = "ending", !.timer = FALSE]
  <2>2. H[b] = IF waitOnDebugger /\ handlers[b].pc \in {"run1", "run2"} THEN h ELSE handlers[b]
    BY DEF Runner!Rejected
  <2>3. h \in Handler /\ h.pc = "ending" /\ h.test = handlers[b].test /\ ~h.timer
    BY <2>1, HandlerStops
  <2>. HIDE DEF h, H
  <2>. QED
    BY <2>1, <2>2, <2>3
<1>2. H \in Handlers
  BY <1>1 DEF Handlers, Runner!Rejected
<1>. QED
  BY <1>1, <1>2

(* The same, and handler c goes to pc.                                     *)
LEMMA RejectedHandlers ==
  ASSUME RunnerTypes, NEW c \in 1..Clicks, NEW pc \in Places, handlers' = [Runner!Rejected EXCEPT ![c].pc = pc]
  PROVE  /\ handlers' \in Handlers
         /\ handlers'[c].pc = pc
         /\ \A b \in 1..Clicks : /\ handlers'[b].test = handlers[b].test
                                 /\ handlers'[b].timer => handlers[b].timer
         /\ \A b \in 1..Clicks : b # c =>
              \/ handlers'[b].pc = handlers[b].pc
              \/ handlers[b].pc \in {"run1", "run2"} /\ handlers'[b].pc = "ending" /\ ~handlers'[b].timer
<1>. DEFINE H == Runner!Rejected
            h == [H[c] EXCEPT !.pc = pc]
<1>1. /\ H \in Handlers
      /\ \A b \in 1..Clicks :
           /\ H[b] \in Handler
           /\ \/ H[b] = handlers[b]
              \/ /\ handlers[b].pc \in {"run1", "run2"}
                 /\ H[b].pc = "ending" /\ ~H[b].timer /\ H[b].test = handlers[b].test
  BY RejectedOnes
<1>2. handlers' = [H EXCEPT ![c] = h]
  OBVIOUS
<1>. HIDE DEF H
<1>3. h \in Handler /\ h.pc = pc /\ h.test = H[c].test /\ h.timer = H[c].timer
  BY <1>1, HandlerGoes
<1>. HIDE DEF h
<1>4. /\ handlers' \in Handlers /\ handlers'[c] = h
      /\ \A b \in 1..Clicks : b # c => handlers'[b] = H[b]
  BY <1>1, <1>2, <1>3 DEF Handlers
<1>. QED
  BY <1>1, <1>3, <1>4

LEMMA HandlerGoesOn ==
  ASSUME RunnerTypes, NEW c \in 1..Clicks, NEW pc \in Places, Runner!GoTo(c, pc)
  PROVE  /\ handlers' \in Handlers
         /\ handlers'[c].pc = pc /\ handlers'[c].test = handlers[c].test
         /\ handlers'[c].timer = handlers[c].timer
         /\ \A b \in 1..Clicks : b # c => handlers'[b] = handlers[b]
<1>. DEFINE h == [handlers[c] EXCEPT !.pc = pc]
<1>1. handlers \in Handlers /\ handlers[c] \in Handler
  BY DEF RunnerTypes, Handlers
<1>2. h \in Handler /\ h.pc = pc /\ h.test = handlers[c].test /\ h.timer = handlers[c].timer
  BY <1>1, HandlerGoes
<1>3. handlers' = [handlers EXCEPT ![c] = h]
  BY DEF Runner!GoTo
<1>. HIDE DEF h
<1>. QED
  BY <1>1, <1>2, <1>3 DEF Handlers

(* The loop goes on: handler c has the next test, or it leaves.            *)
LEMMA LoopGoesOn ==
  ASSUME RunnerTypes, NEW c \in 1..Clicks, NEW stopping, NEW configured, NEW dbg \in BOOLEAN,
         Runner!NextTest(c, stopping, configured, dbg)
  PROVE  /\ handlers' \in Handlers
         /\ \A b \in 1..Clicks : b # c => handlers'[b] = handlers[b]
         /\ ~handlers'[c].timer
         /\ \/ /\ handlers'[c].pc = "ending" /\ handlers'[c].test = handlers[c].test /\ UNCHANGED timedOut
               /\ stopping \/ handlers[c].test + 1 > Tests
            \/ /\ handlers'[c].pc \in {"start", "terminating"} /\ handlers'[c].test = handlers[c].test + 1
               /\ ~stopping /\ handlers'[c].test \in 1..Tests /\ ~timedOut'
<1>. DEFINE next == [pc |-> IF configured THEN "start" ELSE "terminating", test |-> handlers[c].test + 1,
                     timer |-> FALSE, debug |-> dbg]
            stop == [handlers[c] EXCEPT !.pc = "ending", !.timer = FALSE]
<1>1. handlers \in Handlers /\ handlers[c] \in Handler /\ "ending" \in Places
  BY DEF RunnerTypes, Handlers, Places
<1>2. stop \in Handler /\ stop.pc = "ending" /\ stop.test = handlers[c].test /\ ~stop.timer
  BY <1>1, HandlerStops
<1>3. handlers[c].test + 1 \in Nat \ {0}
  BY <1>1 DEF Handler
<1>4. next \in Handler
  BY <1>3 DEF Handler, Places, SetUp
<1>5. next.pc \in {"start", "terminating"} /\ next.test = handlers[c].test + 1 /\ ~next.timer
  OBVIOUS
<1>6. \/ /\ stopping \/ handlers[c].test + 1 > Tests
         /\ handlers' = [handlers EXCEPT ![c] = stop] /\ UNCHANGED timedOut
      \/ /\ ~(stopping \/ handlers[c].test + 1 > Tests)
         /\ handlers' = [handlers EXCEPT ![c] = next] /\ ~timedOut'
  BY DEF Runner!NextTest
<1>7. ~(handlers[c].test + 1 > Tests) => handlers[c].test + 1 \in 1..Tests
  BY <1>3, RunnerAssumption
<1>. HIDE DEF next, stop
<1>. QED
  BY <1>1, <1>2, <1>4, <1>5, <1>6, <1>7, OneHandler

(* A click: the first of a run finds nobody else in a run.                 *)
LEMMA ClickRunner ==
  ASSUME RunnerInv, NEW c \in 1..Clicks, Runner!runOrDebugHandler(c)
  PROVE  RunnerInv'
<1>1. RunnerTypes /\ (Calm => CalmInv) /\ handlers[c].pc = "idle"
      /\ (\A b \in 1..(c - 1) : handlers[b].pc # "idle")
      /\ UNCHANGED <<debugAdapter, testCaseSetup, currentTestFailed, currentTestItem, verdicts, reached, late>>
      /\ debug' \in BOOLEAN
  BY DEF RunnerInv, Runner!runOrDebugHandler
<1>2. CASE testRunActive
  <2>1. handlers' = [Runner!Rejected EXCEPT ![c].pc = "stopping"] /\ ~waitOnDebugger' /\ UNCHANGED timedOut
    BY <1>2 DEF Runner!runOrDebugHandler
  <2>2. "stopping" \in Places
    BY DEF Places
  <2>3. /\ handlers' \in Handlers
        /\ handlers'[c].pc = "stopping"
        /\ \A b \in 1..Clicks : handlers'[b].test = handlers[b].test /\ (handlers'[b].timer => handlers[b].timer)
        /\ \A b \in 1..Clicks : b # c =>
             \/ handlers'[b].pc = handlers[b].pc
             \/ handlers[b].pc \in {"run1", "run2"} /\ handlers'[b].pc = "ending" /\ ~handlers'[b].timer
    BY <1>1, <2>1, <2>2, RejectedHandlers
  <2>4. RunnerTypes'
    BY <1>1, <2>3 DEF RunnerTypes
  <2>5. ASSUME CalmInv PROVE CalmInv'
    <3>1. \A a, b \in 1..Clicks : a < b /\ handlers'[a].pc = "idle" => handlers'[b].pc = "idle"
      <4>1. \A a, b \in 1..Clicks : a < b /\ handlers[a].pc = "idle" => handlers[b].pc = "idle"
        BY <2>5 DEF CalmInv, OneRun
      <4>. QED
        BY <1>1, <2>3, <4>1, RunnerAssumption
    <3>2. \A b \in 1..Clicks : handlers[b].timer => handlers[b].pc \in Testing
      BY <2>5 DEF CalmInv, OneRun
    <3>3. \A b \in 1..Clicks : HandlerMoves(b)
      BY <1>1, <2>3, <3>2 DEF Testing, SetUp, InRun, HandlerMoves
    <3>4. Moves
      BY <1>1, <3>1, <3>3 DEF Moves
    <3>5. FlagsStay
      BY <1>1, <2>1, <2>3 DEF FlagsStay, SetUp
    <3>. QED
      BY <2>5, <3>4, <3>5, RunnerMoved
  <2>. QED
    BY <1>1, <2>4, <2>5 DEF RunnerInv
<1>3. CASE ~testRunActive
  <2>1. Runner!NextTest(c, FALSE, FALSE, debug') /\ UNCHANGED waitOnDebugger
    BY <1>3 DEF Runner!runOrDebugHandler
  <2>2. Calm => \A b \in 1..(c - 1) : ~Runner!AtWork(b)
    BY <1>3 DEF Runner!runOrDebugHandler
  <2>3. /\ handlers' \in Handlers
        /\ \A b \in 1..Clicks : b # c => handlers'[b] = handlers[b]
        /\ ~handlers'[c].timer
        /\ \/ handlers'[c].pc = "ending" /\ handlers'[c].test = handlers[c].test
           \/ /\ handlers'[c].pc \in {"start", "terminating"} /\ handlers'[c].test = handlers[c].test + 1
              /\ handlers'[c].test \in 1..Tests /\ ~timedOut'
    BY <1>1, <2>1, LoopGoesOn
  <2>4. RunnerTypes'
    BY <1>1, <2>3 DEF RunnerTypes
  <2>5. ASSUME CalmInv, Calm PROVE CalmInv'
    <3>1. handlers[c].test = 0 /\ (\A a, b \in 1..Clicks : a < b /\ handlers[a].pc = "idle" => handlers[b].pc = "idle")
      BY <1>1, <2>5 DEF CalmInv, OneRun
    <3>2. \A b \in 1..Clicks : b # c => ~InRun(b) /\ ~InRun(b)' /\ ~handlers[b].timer /\ handlers'[b] = handlers[b]
      <4>1. \A b \in 1..Clicks : b < c => ~InRun(b)
        BY <2>2, <2>5, RunnerAssumption DEF Runner!AtWork, InRun, SetUp, Testing
      <4>2. \A b \in 1..Clicks : c < b => ~InRun(b)
        BY <1>1, <3>1 DEF InRun, SetUp, Testing
      <4>3. \A b \in 1..Clicks : b # c => b < c \/ c < b
        BY RunnerAssumption
      <4>. QED
        BY <2>3, <2>5, <4>1, <4>2, <4>3 DEF CalmInv, OneRun, InRun
    <3>3. ~InRun(c)
      BY <1>1 DEF InRun, SetUp, Testing
    <3>4. ~waitOnDebugger'
      BY <2>1, <2>5, <3>2, <3>3 DEF CalmInv, DebuggedIsCurrent, Waiting, InRun, Testing
    <3>5. OneRun'
      <4>1. \A a, b \in 1..Clicks : a < b /\ handlers'[a].pc = "idle" => handlers'[b].pc = "idle"
        BY <1>1, <2>3, <3>1, RunnerAssumption
      <4>2. \A b \in 1..Clicks : /\ handlers'[b].pc = "idle" => handlers'[b].test = 0
                                 /\ ~handlers'[b].timer
        BY <2>3, <2>5, <3>2 DEF CalmInv, OneRun
      <4>. QED
        BY <3>2, <4>1, <4>2 DEF OneRun
    <3>6. \A x : Runner!VerdictsOn(x)' = Runner!VerdictsOn(x)
      BY <1>1 DEF Runner!VerdictsOn
    <3>7. \A t \in 1..Tests : t > handlers[c].test /\ t >= handlers'[c].test
      BY <2>3, <3>1
    <3>8. Unstarted'
      BY <1>1, <2>3, <2>5, <3>6, <3>7 DEF CalmInv, Unstarted
    <3>9. CurrentUndecided'
      BY <1>1, <2>3, <2>5, <3>6 DEF CalmInv, CurrentUndecided, OnlyFailed, Runner!Item, Runner!NoItem
    <3>10. Tested'
      BY <2>3, <3>2 DEF Tested, InRun, SetUp, Testing
    <3>11. ItemsRight'
      <4>1. \A t \in 1..Tests : ~(handlers'[c].test > t)
        BY <2>3, <3>1
      <4>2. \A item : ItemDecided(item) => ItemDecided(item)'
        BY <1>1, <3>6 DEF ItemDecided
      <4>3. ASSUME NEW b \in 1..Clicks, NEW t \in 1..Tests PROVE ItemRight(b, t)'
        BY <2>3, <2>5, <3>6, <4>1, <4>2 DEF CalmInv, ItemsRight, ItemRight
      <4>. QED
        BY <4>3 DEF ItemsRight
    <3>. QED
      BY <3>4, <3>5, <3>8, <3>9, <3>10, <3>11 DEF CalmInv, DebuggedIsCurrent
  <2>. QED
    BY <1>1, <2>4, <2>5 DEF RunnerInv
<1>. QED
  BY <1>2, <1>3

(* The setup of a run, and a timer that fires.                             *)
LEMMA SetUpRunner ==
  ASSUME RunnerInv, NEW c \in 1..Clicks,
         Runner!Terminated(c) \/ Runner!Launched(c) \/ Runner!TimerFires(c)
  PROVE  RunnerInv'
<1>1. RunnerTypes /\ (Calm => CalmInv)
      /\ UNCHANGED <<verdicts, reached, currentTestItem, testCaseSetup, currentTestFailed, waitOnDebugger, debug>>
  BY DEF RunnerInv, Runner!Terminated, Runner!Launched, Runner!TimerFires, Runner!static
<1>2. /\ handlers' \in Handlers
      /\ handlers'[c].test = handlers[c].test
      /\ handlers'[c].timer => handlers[c].timer
      /\ \A b \in 1..Clicks : b # c => handlers'[b] = handlers[b]
      /\ \/ /\ handlers[c].pc = "terminating" /\ handlers'[c].pc = "launching" /\ UNCHANGED <<timedOut, late>>
         \/ /\ handlers[c].pc = "launching" /\ handlers'[c].pc \in {"start", "ending"}
            /\ UNCHANGED <<timedOut, late, debugAdapter>>
         \/ /\ handlers[c].timer /\ handlers'[c].pc = handlers[c].pc /\ late' = late \cup {Runner!Item(c)}
            /\ UNCHANGED debugAdapter
  <2>1. {"launching", "start", "ending"} \subseteq Places
    BY DEF Places, SetUp
  <2>2. CASE Runner!Terminated(c)
    <3>1. Runner!GoTo(c, "launching")
      BY <2>2 DEF Runner!Terminated
    <3>2. handlers[c].pc = "terminating" /\ UNCHANGED <<timedOut, late>>
      BY <2>2 DEF Runner!Terminated
    <3>. QED
      BY <1>1, <2>1, <3>1, <3>2, HandlerGoesOn
  <2>3. CASE Runner!Launched(c)
    <3>1. PICK pc \in {"start", "ending"} : Runner!GoTo(c, pc)
      BY <2>3 DEF Runner!Launched
    <3>2. handlers[c].pc = "launching" /\ UNCHANGED <<timedOut, late, debugAdapter>>
      BY <2>3 DEF Runner!Launched, Runner!static
    <3>3. pc \in Places
      BY <2>1
    <3>. HIDE <3>1
    <3>. QED
      BY <1>1, <3>1, <3>2, <3>3, HandlerGoesOn
  <2>4. CASE Runner!TimerFires(c)
    <3>. DEFINE h == [handlers[c] EXCEPT !.timer = FALSE]
    <3>1. handlers \in Handlers /\ handlers[c] \in Handler
      BY <1>1 DEF RunnerTypes, Handlers
    <3>2. h \in Handler /\ h.pc = handlers[c].pc /\ h.test = handlers[c].test /\ ~h.timer
      BY <3>1 DEF Handler
    <3>3. /\ handlers' = [handlers EXCEPT ![c] = h] /\ late' = late \cup {Runner!Item(c)}
          /\ handlers[c].timer /\ UNCHANGED debugAdapter
      BY <2>4 DEF Runner!TimerFires
    <3>. HIDE DEF h
    <3>4. /\ handlers' \in Handlers /\ handlers'[c] = h
          /\ \A b \in 1..Clicks : b # c => handlers'[b] = handlers[b]
      BY <3>1, <3>2, <3>3 DEF Handlers
    <3>. QED
      BY <3>2, <3>3, <3>4
  <2>. QED
    BY <2>2, <2>3, <2>4
<1>3. RunnerTypes'
  BY <1>1, <1>2 DEF RunnerTypes
<1>4. ASSUME CalmInv PROVE CalmInv'
  <2>1. \A a, b \in 1..Clicks : a < b /\ handlers[a].pc = "idle" => handlers[b].pc = "idle"
    BY <1>4 DEF CalmInv, OneRun
  <2>2. \A b \in 1..Clicks : /\ handlers[b].timer => handlers[b].pc \in Testing
                             /\ b # c /\ InRun(c) => ~InRun(b)
    BY <1>4 DEF CalmInv, OneRun
  <2>3. \A b \in 1..Clicks : handlers'[b].pc = "idle" <=> handlers[b].pc = "idle"
    BY <1>2, <2>2 DEF Testing
  <2>4. \A b \in 1..Clicks : HandlerMoves(b)
    BY <1>2, <2>2 DEF HandlerMoves, InRun, Testing, SetUp
  <2>5. Moves
    BY <1>1, <1>2, <2>1, <2>3, <2>4 DEF Moves
  <2>6. InRun(c)
    BY <1>2, <2>2 DEF InRun, SetUp
  <2>7. \A b \in 1..Clicks : b # c => handlers'[b].pc \notin Testing \cup SetUp /\ handlers[b].pc \notin Testing
    BY <1>2, <2>2, <2>6 DEF InRun
  <2>8. waitOnDebugger => handlers[c].pc \in Waiting
    BY <1>4, <2>2, <2>6 DEF CalmInv, DebuggedIsCurrent, Waiting, InRun, Testing
  <2>9. waitOnDebugger' => /\ waitOnDebugger /\ UNCHANGED debugAdapter
                           /\ \A b \in 1..Clicks : handlers[b].pc \in Waiting => handlers'[b].pc \in Waiting
    BY <1>1, <1>2, <2>8 DEF Waiting
  <2>10. \A b \in 1..Clicks :
           /\ handlers[b].pc \in Testing => UNCHANGED debugAdapter
           /\ handlers'[b].pc \in Testing /\ timedOut' => timedOut \/ Runner!Item(b) \in late'
           /\ handlers'[b].pc \in SetUp => (timedOut' => timedOut)
    BY <1>2, <2>2, <2>7 DEF Testing, SetUp
  <2>11. FlagsStay
    BY <2>9, <2>10 DEF FlagsStay
  <2>. QED
    BY <1>4, <2>5, <2>11, RunnerMoved
<1>. QED
  BY <1>1, <1>3, <1>4 DEF RunnerInv

(* The end: of a run, by a click, by the user of the debugger.             *)
LEMMA EndRunner ==
  ASSUME RunnerInv,
         (\E c \in 1..Clicks : Runner!stopUnitTests(c) \/ Runner!RunEnds(c)) \/ Runner!cancelUnitTests
  PROVE  RunnerInv'
<1>1. /\ RunnerTypes /\ (Calm => CalmInv)
      /\ UNCHANGED <<verdicts, reached, late, currentTestItem, testCaseSetup, currentTestFailed, timedOut,
                     debugAdapter, debug>>
  BY DEF RunnerInv, Runner!stopUnitTests, Runner!RunEnds, Runner!cancelUnitTests, Runner!NoneOnTop
<1>2. /\ handlers' \in Handlers
      /\ \A b \in 1..Clicks :
           /\ handlers'[b].test = handlers[b].test
           /\ handlers'[b].timer => handlers[b].timer
           /\ \/ handlers'[b].pc = handlers[b].pc
              \/ handlers[b].pc \in {"run1", "run2"} /\ handlers'[b].pc = "ending" /\ ~handlers'[b].timer
              \/ handlers[b].pc \in {"stopping", "ending"} /\ handlers'[b].pc \in {"stopping", "done"}
      /\ ~waitOnDebugger' \/ \A b \in 1..Clicks : handlers[b].pc = "ending" => handlers'[b].pc = "ending"
      /\ waitOnDebugger' => waitOnDebugger
  <2>1. {"stopping", "done", "ending"} \subseteq Places
    BY DEF Places
  <2>2. ASSUME NEW c \in 1..Clicks, Runner!stopUnitTests(c) PROVE <1>2
    <3>. DEFINE H == [b \in 1..Clicks |->
                        CASE b = c -> [handlers[b] EXCEPT !.pc = "done", !.timer = FALSE]
                          [] b # c /\ handlers[b].pc \in {"run1", "run2"} ->
                               [handlers[b] EXCEPT !.pc = "ending", !.timer = FALSE]
                          [] OTHER -> handlers[b]]
    <3>1. handlers' = H /\ handlers[c].pc = "stopping" /\ UNCHANGED waitOnDebugger
      BY <2>2 DEF Runner!stopUnitTests, Runner!Disposed
    <3>2. \A b \in 1..Clicks :
            /\ H[b] \in Handler /\ H[b].test = handlers[b].test
            /\ H[b].timer => handlers[b].timer
            /\ \/ H[b].pc = handlers[b].pc /\ b # c
               \/ handlers[b].pc \in {"run1", "run2"} /\ H[b].pc = "ending" /\ ~H[b].timer
               \/ b = c /\ H[b].pc = "done"
      <4>. SUFFICES ASSUME NEW b \in 1..Clicks
                    PROVE  /\ H[b] \in Handler /\ H[b].test = handlers[b].test
                           /\ H[b].timer => handlers[b].timer
                           /\ \/ H[b].pc = handlers[b].pc /\ b # c
                              \/ handlers[b].pc \in {"run1", "run2"} /\ H[b].pc = "ending" /\ ~H[b].timer
                              \/ b = c /\ H[b].pc = "done"
        OBVIOUS
      <4>. DEFINE done == [handlers[b] EXCEPT !.pc = "done", !.timer = FALSE]
                  ending == [handlers[b] EXCEPT !.pc = "ending", !.timer = FALSE]
      <4>1. handlers[b] \in Handler
        BY <1>1 DEF RunnerTypes, Handlers
      <4>2. done \in Handler /\ done.pc = "done" /\ done.test = handlers[b].test /\ ~done.timer
        BY <2>1, <4>1, HandlerStops
      <4>3. ending \in Handler /\ ending.pc = "ending" /\ ending.test = handlers[b].test /\ ~ending.timer
        BY <2>1, <4>1, HandlerStops
      <4>4. H[b] = CASE b = c -> done
                     [] b # c /\ handlers[b].pc \in {"run1", "run2"} -> ending
                     [] OTHER -> handlers[b]
        OBVIOUS
      <4>. HIDE DEF done, ending, H
      <4>. QED
        BY <4>1, <4>2, <4>3, <4>4
    <3>3. H \in Handlers
      BY <3>2 DEF Handlers
    <3>. HIDE DEF H
    <3>. QED
      BY <3>1, <3>2, <3>3
  <2>3. ASSUME NEW c \in 1..Clicks, Runner!RunEnds(c) PROVE <1>2
    <3>1. PICK pc \in {"stopping", "done"} : handlers' = [Runner!Rejected EXCEPT ![c].pc = pc]
      BY <2>3 DEF Runner!RunEnds
    <3>2. pc \in Places
      BY <2>1
    <3>3. handlers[c].pc = "ending" /\ ~waitOnDebugger'
      BY <2>3 DEF Runner!RunEnds
    <3>4. /\ handlers' \in Handlers
          /\ handlers'[c].pc = pc
          /\ \A b \in 1..Clicks : handlers'[b].test = handlers[b].test /\ (handlers'[b].timer => handlers[b].timer)
          /\ \A b \in 1..Clicks : b # c =>
               \/ handlers'[b].pc = handlers[b].pc
               \/ handlers[b].pc \in {"run1", "run2"} /\ handlers'[b].pc = "ending" /\ ~handlers'[b].timer
      BY <1>1, <3>1, <3>2, RejectedHandlers
    <3>. QED
      BY <3>3, <3>4
  <2>4. CASE Runner!cancelUnitTests
    <3>1. handlers' = Runner!Rejected /\ ~waitOnDebugger'
      BY <2>4 DEF Runner!cancelUnitTests
    <3>. QED
      BY <1>1, <3>1, RejectedOnes
  <2>. QED
    BY <2>2, <2>3, <2>4
<1>3. RunnerTypes'
  BY <1>1, <1>2 DEF RunnerTypes
<1>4. ASSUME CalmInv PROVE CalmInv'
  <2>1. \A a, b \in 1..Clicks : a < b /\ handlers[a].pc = "idle" => handlers[b].pc = "idle"
    BY <1>4 DEF CalmInv, OneRun
  <2>2. \A b \in 1..Clicks : handlers[b].timer => handlers[b].pc \in Testing
    BY <1>4 DEF CalmInv, OneRun
  <2>3. \A b \in 1..Clicks : handlers'[b].pc = "idle" <=> handlers[b].pc = "idle"
    BY <1>2
  <2>4. \A b \in 1..Clicks : HandlerMoves(b)
    BY <1>2, <2>2 DEF HandlerMoves, InRun, Testing, SetUp
  <2>5. Moves
    BY <1>1, <1>2, <2>1, <2>3, <2>4 DEF Moves
  <2>6. FlagsStay
    BY <1>1, <1>2 DEF FlagsStay, Waiting
  <2>. QED
    BY <1>4, <2>5, <2>6, RunnerMoved
<1>. QED
  BY <1>1, <1>3, <1>4 DEF RunnerInv

(* A test begins: nothing is known of it, so the flags are right.          *)
LEMMA StartRunner ==
  ASSUME RunnerInv, NEW c \in 1..Clicks, Runner!StartTest(c)
  PROVE  RunnerInv'
<1>. DEFINE h == [handlers[c] EXCEPT !.pc = "prepare1", !.timer = ~debug]
<1>1. /\ RunnerTypes /\ (Calm => CalmInv) /\ handlers[c].pc = "start"
      /\ currentTestItem' = Runner!Item(c) /\ testCaseSetup' /\ ~currentTestFailed'
      /\ UNCHANGED <<verdicts, reached, late, timedOut, waitOnDebugger, debugAdapter, debug>>
      /\ handlers' = [handlers EXCEPT ![c] = h]
  BY DEF RunnerInv, Runner!StartTest, Runner!NoneOnTop
<1>2. /\ h \in Handler /\ h.pc = "prepare1" /\ h.test = handlers[c].test
      /\ handlers \in Handlers
  <2>1. handlers[c] \in Handler /\ debug \in BOOLEAN /\ "prepare1" \in Places /\ handlers \in Handlers
    BY <1>1 DEF RunnerTypes, Handlers, Places, Testing
  <2>. QED
    BY <2>1 DEF Handler
<1>. HIDE DEF h
<1>3. /\ handlers' \in Handlers /\ handlers'[c] = h
      /\ \A b \in 1..Clicks : b # c => handlers'[b] = handlers[b]
  BY <1>1, <1>2 DEF Handlers
<1>4. c \in Nat \ {0} /\ handlers[c].test \in Nat
  BY <1>2, RunnerAssumption DEF Handlers, Handler
<1>5. RunnerTypes'
  BY <1>1, <1>3, <1>4 DEF RunnerTypes, Runner!Item
<1>6. ASSUME CalmInv PROVE CalmInv'
  <2>1. \A x : Runner!VerdictsOn(x)' = Runner!VerdictsOn(x)
    BY <1>1 DEF Runner!VerdictsOn
  <2>2. /\ ~timedOut /\ handlers[c].test \in 1..Tests
        /\ InRun(c) /\ \A b \in 1..Clicks : b # c => ~InRun(b)
    BY <1>1, <1>6 DEF CalmInv, Tested, OneRun, InRun, SetUp
  <2>3. Runner!VerdictsOn(Runner!Item(c)) = {} /\ Runner!Item(c) \notin reached
    BY <1>1, <1>6, <2>2 DEF CalmInv, Unstarted, SetUp, Runner!Item
  <2>4. Runner!Item(c)' = Runner!Item(c)
    BY <1>2, <1>3 DEF Runner!Item
  <2>5. ~waitOnDebugger'
    BY <1>1, <1>6, <2>2 DEF CalmInv, DebuggedIsCurrent, Waiting, InRun, Testing
  <2>6. OneRun'
    <3>1. \A a, b \in 1..Clicks : a < b /\ handlers'[a].pc = "idle" => handlers'[b].pc = "idle"
      BY <1>1, <1>2, <1>3, <1>6 DEF CalmInv, OneRun
    <3>2. \A b \in 1..Clicks : InRun(b)' => b = c
      BY <1>3, <2>2 DEF InRun
    <3>3. \A b \in 1..Clicks : /\ handlers'[b].pc = "idle" => handlers'[b].test = 0
                               /\ handlers'[b].timer => handlers'[b].pc \in Testing
      BY <1>2, <1>3, <1>6 DEF CalmInv, OneRun, Testing
    <3>. QED
      BY <3>1, <3>2, <3>3 DEF OneRun
  <2>7. Unstarted'
    BY <1>1, <1>2, <1>3, <1>6, <2>1 DEF CalmInv, Unstarted, SetUp
  <2>8. CurrentUndecided'
    <3>1. OnlyFailed(Runner!Item(c))'
      BY <1>1, <2>1, <2>3, <2>4 DEF OnlyFailed
    <3>2. handlers'[c].pc \notin {"idle"} \cup SetUp
      BY <1>2, <1>3 DEF SetUp
    <3>3. currentTestItem' = Runner!Item(c)'
      BY <1>1, <2>4
    <3>. QED
      BY <1>1, <2>1, <2>3, <2>4, <3>2, <3>3 DEF CurrentUndecided, OnlyFailed
  <2>9. Tested'
    <3>1. \A b \in 1..Clicks : b # c => handlers'[b].pc \notin Testing \cup SetUp
      BY <1>3, <2>2 DEF InRun
    <3>2. TestOk(c)'
      BY <1>1, <1>2, <1>3, <2>1, <2>2, <2>3, <2>4 DEF TestOk
    <3>3. handlers'[c].pc \notin SetUp
      BY <1>2, <1>3 DEF SetUp
    <3>. QED
      BY <3>1, <3>2, <3>3 DEF Tested
  <2>10. ItemsRight'
    <3>1. \A b \in 1..Clicks : handlers'[b].test = handlers[b].test
      BY <1>2, <1>3
    <3>. QED
      BY <1>1, <1>6, <2>1, <3>1 DEF CalmInv, ItemsRight, ItemRight, ItemDecided
  <2>. QED
    BY <2>5, <2>6, <2>7, <2>8, <2>9, <2>10 DEF CalmInv, DebuggedIsCurrent
<1>. QED
  BY <1>1, <1>5, <1>6 DEF RunnerInv

\* Handler c leaves its test, for the next one or for the end.
LeavesTest(c, stopping) ==
  /\ \A b \in 1..Clicks : b # c => handlers'[b] = handlers[b]
  /\ ~handlers'[c].timer
  /\ \/ /\ handlers'[c].pc = "ending" /\ handlers'[c].test = handlers[c].test
     \/ /\ handlers'[c].pc \in {"start", "terminating"} /\ handlers'[c].test = handlers[c].test + 1
        /\ ~stopping /\ handlers'[c].test \in 1..Tests /\ ~timedOut'
  /\ currentTestItem' = Runner!NoItem /\ ~waitOnDebugger'

\* The verdicts of the other tests are left alone.
OthersStay(item) ==
  /\ \A b \in 1..Clicks : \A t \in Nat : <<b, t>> # item =>
       /\ Runner!VerdictsOn(<<b, t>>)' = Runner!VerdictsOn(<<b, t>>)
       /\ <<b, t>> \in reached' <=> <<b, t>> \in reached
       /\ \A i \in Runner!VerdictsOn(<<b, t>>) : verdicts'[i] = verdicts[i]
  /\ UNCHANGED late

(* A test is left with its verdict, for the next one or for the end.       *)
LEMMA TestLeft ==
  ASSUME RunnerTypes, CalmInv, NEW c \in 1..Clicks, NEW stopping, NEW item, item = Runner!Item(c),
         handlers[c].pc \in Testing, LeavesTest(c, stopping), OthersStay(item), ItemDecided(item)', stopping \/ Runner!VerdictsOn(item)' # {}
  PROVE  CalmInv'
<1>. USE DEF LeavesTest
<1>. DEFINE T == handlers[c].test
<1>1. T \in Nat /\ item = <<c, T>> /\ handlers'[c].test \in Nat
  BY DEF RunnerTypes, Handlers, Handler, Runner!Item
<1>2. /\ OneRun /\ Unstarted /\ ItemsRight
      /\ InRun(c) /\ \A b \in 1..Clicks : b # c => ~InRun(b)
  BY DEF CalmInv, OneRun, InRun
<1>3. OneRun'
  <2>1. \A a, b \in 1..Clicks : a < b /\ handlers'[a].pc = "idle" => handlers'[b].pc = "idle"
    BY <1>2 DEF OneRun, Testing
  <2>2. \A b \in 1..Clicks : InRun(b)' => b = c
    BY <1>2 DEF InRun
  <2>3. \A b \in 1..Clicks : /\ handlers'[b].pc = "idle" => handlers'[b].test = 0
                             /\ handlers'[b].timer => handlers'[b].pc \in Testing
    BY <1>2 DEF OneRun
  <2>. QED
    BY <2>1, <2>2, <2>3 DEF OneRun
<1>4. Unstarted'
  <2>. SUFFICES ASSUME NEW b \in 1..Clicks, NEW t \in 1..Tests,
                       t > handlers'[b].test \/ (t = handlers'[b].test /\ handlers'[b].pc \in SetUp)
                PROVE  Runner!VerdictsOn(<<b, t>>)' = {} /\ <<b, t>> \notin reached'
    BY DEF Unstarted
  <2>1. t \in Nat
    BY RunnerAssumption
  <2>2. CASE b = c
    <3>1. t > T
      BY <1>1, <2>1, <2>2 DEF SetUp
    <3>2. <<b, t>> # item
      BY <1>1, <2>1, <3>1
    <3>. QED
      BY <1>2, <2>1, <2>2, <3>1, <3>2 DEF Unstarted, OthersStay
  <2>3. CASE b # c
    <3>1. <<b, t>> # item
      BY <1>1, <2>3
    <3>. QED
      BY <1>2, <2>1, <2>3, <3>1 DEF Unstarted, OthersStay
  <2>. QED
    BY <2>2, <2>3
<1>5. Tested'
  <2>1. \A b \in 1..Clicks : b # c => handlers'[b].pc \notin Testing \cup SetUp
    BY <1>2 DEF InRun
  <2>2. handlers'[c].pc \notin Testing /\ (handlers'[c].pc \in SetUp => ~timedOut' /\ handlers'[c].test \in 1..Tests)
    BY DEF Testing, SetUp
  <2>. QED
    BY <2>1, <2>2 DEF Tested
<1>6. ItemsRight'
  <2>. SUFFICES ASSUME NEW b \in 1..Clicks, NEW t \in 1..Tests PROVE ItemRight(b, t)'
    BY DEF ItemsRight
  <2>1. t \in Nat /\ ItemRight(b, t)
    BY <1>2, RunnerAssumption DEF ItemsRight
  <2>2. CASE <<b, t>> = item
    <3>1. b = c /\ t = T
      BY <1>1, <2>2
    <3>2. handlers'[b].test > t => ~stopping
      BY <1>1, <3>1
    <3>. QED
      BY <2>2, <3>2 DEF ItemRight
  <2>3. CASE <<b, t>> # item
    <3>1. handlers'[b].test > t => handlers[b].test > t
      BY <1>1, <2>1, <2>3
    <3>2. /\ Runner!VerdictsOn(<<b, t>>)' = Runner!VerdictsOn(<<b, t>>)
          /\ <<b, t>> \in reached' <=> <<b, t>> \in reached
          /\ \A i \in Runner!VerdictsOn(<<b, t>>) : verdicts'[i] = verdicts[i]
          /\ UNCHANGED late
      BY <2>1, <2>3 DEF OthersStay
    <3>3. ItemDecided(<<b, t>>)'
      BY <2>1, <3>2 DEF ItemRight, ItemDecided
    <3>. QED
      BY <2>1, <3>1, <3>2, <3>3 DEF ItemRight
  <2>. QED
    BY <2>2, <2>3
<1>7. CurrentUndecided' /\ DebuggedIsCurrent'
  BY DEF CurrentUndecided, DebuggedIsCurrent, Runner!NoItem
<1>. QED
  BY <1>3, <1>4, <1>5, <1>6, <1>7 DEF CalmInv

(* A test goes on, without a verdict.                                      *)
LEMMA TestGoesOn ==
  ASSUME RunnerTypes, CalmInv, NEW c \in 1..Clicks,
         handlers[c].pc \in Testing, handlers'[c].pc \in Testing, handlers'[c].test = handlers[c].test,
         \A b \in 1..Clicks : b # c => handlers'[b] = handlers[b],
         UNCHANGED <<verdicts, reached, late, timedOut, currentTestItem, debugAdapter>>,
         currentTestFailed' <=> currentTestFailed,
         testCaseSetup' <=> handlers'[c].pc \in {"prepare1", "run1"},
         waitOnDebugger' => debugAdapter /\ handlers'[c].pc \in Waiting
  PROVE  CalmInv'
<1>1. /\ InRun(c) /\ (\A b \in 1..Clicks : b # c => ~InRun(b))
      /\ TestOk(c) /\ handlers[c].test \in 1..Tests
  BY DEF CalmInv, OneRun, InRun, Tested, TestOk
<1>2. \A x : Runner!VerdictsOn(x)' = Runner!VerdictsOn(x)
  BY DEF Runner!VerdictsOn
<1>3. \A b \in 1..Clicks : handlers'[b].test = handlers[b].test
  OBVIOUS
<1>4. Runner!Item(c)' = Runner!Item(c) /\ currentTestItem' = Runner!Item(c)
  BY <1>1, <1>3 DEF Runner!Item, TestOk
<1>5. OneRun'
  <2>1. \A a, b \in 1..Clicks : a < b /\ handlers'[a].pc = "idle" => handlers'[b].pc = "idle"
    BY DEF CalmInv, OneRun, Testing
  <2>2. \A b \in 1..Clicks : InRun(b)' => b = c
    BY <1>1 DEF InRun
  <2>3. \A b \in 1..Clicks : /\ handlers'[b].pc = "idle" => handlers'[b].test = 0
                             /\ handlers'[b].timer => handlers'[b].pc \in Testing
    BY DEF CalmInv, OneRun, Testing
  <2>. QED
    BY <2>1, <2>2, <2>3 DEF OneRun
<1>6. Unstarted'
  BY <1>2 DEF CalmInv, Unstarted, Testing, SetUp
<1>7. CurrentUndecided'
  <2>1. OnlyFailed(currentTestItem) => OnlyFailed(currentTestItem)'
    BY <1>2 DEF OnlyFailed
  <2>2. handlers'[c].pc \notin {"idle"} \cup SetUp
    BY DEF SetUp, Testing
  <2>. QED
    BY <1>4, <2>1, <2>2 DEF CalmInv, CurrentUndecided
<1>8. DebuggedIsCurrent'
  BY <1>4 DEF DebuggedIsCurrent
<1>9. Tested'
  <2>1. \A b \in 1..Clicks : b # c => handlers'[b].pc \notin Testing \cup SetUp
    BY <1>1 DEF InRun
  <2>2. TestOk(c)'
    BY <1>1, <1>2, <1>3, <1>4 DEF TestOk
  <2>3. handlers'[c].pc \notin SetUp
    BY DEF SetUp, Testing
  <2>. QED
    BY <2>1, <2>2, <2>3 DEF Tested
<1>10. ItemsRight'
  BY <1>2, <1>3 DEF CalmInv, ItemsRight, ItemRight, ItemDecided
<1>. QED
  BY <1>5, <1>6, <1>7, <1>8, <1>9, <1>10 DEF CalmInv

(* A verdict on the current test, which has failed or is undecided.        *)
LEMMA ReportDecides ==
  ASSUME RunnerTypes, NEW item, item = currentTestItem, item \notin reached', OnlyFailed(item),
         NEW what \in {"failed", "timeout"}, Runner!Report(what),
         what = "timeout" => item \in late /\ Runner!VerdictsOn(item) = {}, UNCHANGED <<reached, late>>
  PROVE  /\ OthersStay(item) /\ ItemDecided(item)' /\ Runner!VerdictsOn(item)' # {}
         /\ verdicts' \in Seq((Nat \X Nat) \X Ends)
<1>. DEFINE n == Len(verdicts) + 1
<1>1. what \in Ends
  BY DEF Ends
<1>2. /\ verdicts' \in Seq((Nat \X Nat) \X Ends)
      /\ \A x : x # item => Runner!VerdictsOn(x)' = Runner!VerdictsOn(x)
      /\ Runner!VerdictsOn(item)' = Runner!VerdictsOn(item) \cup {n}
      /\ \A x : n \notin Runner!VerdictsOn(x)
      /\ \A x : \A i \in Runner!VerdictsOn(x) : verdicts'[i] = verdicts[i]
      /\ verdicts'[n][2] = what
  BY <1>1, Reported
<1>3. OthersStay(item)
  BY <1>2 DEF OthersStay
<1>. HIDE DEF n
<1>4. ItemDecided(item)'
  <2>1. \A i \in Runner!VerdictsOn(item) : verdicts'[i][2] = "failed"
    BY <1>2 DEF OnlyFailed
  <2>. QED
    BY <1>2, <2>1 DEF ItemDecided
<1>. QED
  BY <1>2, <1>3, <1>4

(* execAddr: the code of the test is started, or it throws.                *)
LEMMA ExecRunner ==
  ASSUME RunnerInv, NEW c \in 1..Clicks, NEW p \in {"1", "2"}, Runner!execAddr(c, p)
  PROVE  RunnerInv'
<1>1. /\ RunnerTypes /\ (Calm => CalmInv) /\ handlers[c].pc = Runner!Prepare(p)
      /\ UNCHANGED <<debug, debugAdapter, testCaseSetup, reached, late>>
  BY DEF RunnerInv, Runner!execAddr
<1>2. /\ handlers[c].pc \in {"prepare1", "prepare2"} /\ Runner!Runs(p) \in {"run1", "run2"}
      /\ Runner!Runs(p) = "run1" <=> handlers[c].pc = "prepare1"
  BY <1>1 DEF Runner!Prepare, Runner!Runs
<1>3. CASE testRemote = Runner!NoRemote \/ machine = "running"
  <2>1. /\ IF stoppingTests THEN UNCHANGED verdicts ELSE Runner!Report("failed")
        /\ Runner!NextTest(c, stoppingTests, testConfig, debug)
        /\ currentTestItem' = Runner!NoItem /\ UNCHANGED waitOnDebugger
    BY <1>3 DEF Runner!execAddr
  <2>2. debug \in BOOLEAN
    BY <1>1 DEF RunnerTypes
  <2>3. /\ handlers' \in Handlers
        /\ \A b \in 1..Clicks : b # c => handlers'[b] = handlers[b]
        /\ ~handlers'[c].timer
        /\ \/ handlers'[c].pc = "ending" /\ handlers'[c].test = handlers[c].test
           \/ /\ handlers'[c].pc \in {"start", "terminating"} /\ handlers'[c].test = handlers[c].test + 1
              /\ ~stoppingTests /\ handlers'[c].test \in 1..Tests /\ ~timedOut'
    BY <1>1, <2>1, <2>2, LoopGoesOn
  <2>4. "failed" \in Ends
    BY DEF Ends
  <2>5. verdicts' \in Seq((Nat \X Nat) \X Ends)
    BY <1>1, <2>1, <2>4, Reported DEF RunnerTypes
  <2>6. RunnerTypes'
    BY <1>1, <2>1, <2>3, <2>5 DEF RunnerTypes, Runner!NoItem
  <2>7. ASSUME CalmInv PROVE CalmInv'
    <3>0. PICK item : item = Runner!Item(c)
      OBVIOUS
    <3>1. TestOk(c) /\ handlers[c].pc \in Testing
      BY <1>2, <2>7 DEF CalmInv, Tested, Testing
    <3>2. currentTestItem = item /\ item # Runner!NoItem
      BY <3>1, <3>0, RunnerAssumption DEF TestOk, Runner!Item, Runner!NoItem
    <3>3. OnlyFailed(item)
      BY <2>7, <3>2 DEF CalmInv, CurrentUndecided
    <3>4. ~waitOnDebugger'
      BY <1>2, <2>1, <2>7 DEF CalmInv, DebuggedIsCurrent, OneRun, InRun, Waiting, Testing
    <3>5. LeavesTest(c, stoppingTests)
      BY <2>1, <2>3, <3>4 DEF LeavesTest
    <3>6. ItemDecided(item)
      BY <2>7, <3>1, <3>0 DEF CalmInv, ItemsRight, ItemRight, TestOk, Runner!Item
    <3>7. /\ OthersStay(item) /\ ItemDecided(item)'
          /\ stoppingTests \/ Runner!VerdictsOn(item)' # {}
      <4>1. CASE stoppingTests
        <5>1. UNCHANGED <<verdicts, reached, late>> /\ \A x : Runner!VerdictsOn(x)' = Runner!VerdictsOn(x)
          BY <1>1, <2>1, <4>1 DEF Runner!VerdictsOn
        <5>. QED
          BY <3>6, <4>1, <5>1 DEF OthersStay, ItemDecided
      <4>2. CASE ~stoppingTests
        <5>1. Runner!Report("failed")
          BY <2>1, <4>2
        <5>2. item \notin reached'
          BY <1>1, <3>3 DEF OnlyFailed
        <5>. QED
          BY <1>1, <3>2, <3>3, <5>1, <5>2, ReportDecides
      <4>. QED
        BY <4>1, <4>2
    <3>. QED
      BY <1>1, <2>7, <3>1, <3>5, <3>7, <3>0, TestLeft
  <2>. QED
    BY <1>1, <2>6, <2>7 DEF RunnerInv
<1>4. CASE ~(testRemote = Runner!NoRemote \/ machine = "running")
  <2>1. /\ Runner!GoTo(c, Runner!Runs(p)) /\ waitOnDebugger' = debugAdapter
        /\ UNCHANGED <<verdicts, timedOut, currentTestItem, currentTestFailed>>
    BY <1>4 DEF Runner!execAddr
  <2>2. Runner!Runs(p) \in Places
    BY <1>2 DEF Places, Testing
  <2>3. /\ handlers' \in Handlers
        /\ handlers'[c].pc = Runner!Runs(p) /\ handlers'[c].test = handlers[c].test
        /\ \A b \in 1..Clicks : b # c => handlers'[b] = handlers[b]
    BY <1>1, <2>1, <2>2, HandlerGoesOn
  <2>4. RunnerTypes'
    BY <1>1, <2>1, <2>3 DEF RunnerTypes
  <2>5. ASSUME CalmInv PROVE CalmInv'
    <3>1. TestOk(c) /\ handlers[c].pc \in Testing /\ handlers'[c].pc \in Testing
      BY <1>2, <2>3, <2>5 DEF CalmInv, Tested, Testing
    <3>2. testCaseSetup' <=> handlers'[c].pc \in {"prepare1", "run1"}
      BY <1>1, <1>2, <2>3, <3>1 DEF TestOk
    <3>3. waitOnDebugger' => debugAdapter /\ handlers'[c].pc \in Waiting
      BY <1>2, <2>1, <2>3 DEF Waiting
    <3>. QED
      BY <1>1, <2>1, <2>3, <2>5, <3>1, <3>2, <3>3, TestGoesOn
  <2>. QED
    BY <1>1, <2>4, <2>5 DEF RunnerInv
<1>. QED
  BY <1>3, <1>4

(* A part of a test ends: its verdict, if it has none, is the right one.   *)
LEMMA PartRunner ==
  ASSUME RunnerInv, NEW c \in 1..Clicks, NEW p \in {"1", "2"}, NEW success \in BOOLEAN,
         handlers[c].pc = Runner!Runs(p), Runner!PartEnds(c, p, success), ~waitOnDebugger',
         UNCHANGED <<debug, debugAdapter, late>>
  PROVE  RunnerInv'
<1>. DEFINE why == IF timedOut THEN "timeout" ELSE "failed"
            failed == ~success \/ (p = "1" /\ (currentTestFailed \/ timedOut))
            told == currentTestFailed /\ debugAdapter
<1>1. RunnerTypes /\ (Calm => CalmInv) /\ handlers[c].pc \in {"run1", "run2"}
      /\ (handlers[c].pc = "run1" <=> p = "1")
  BY DEF RunnerInv, Runner!Runs
<1>2. /\ failed /\ ~told => Runner!Report(why)
      /\ ~failed /\ ~testCaseSetup /\ ~told => Runner!Report("passed")
      /\ told \/ (~failed /\ testCaseSetup) => UNCHANGED verdicts
      /\ success /\ p = "2" => reached' = reached \cup {Runner!Item(c)}
      /\ ~(success /\ p = "2") => UNCHANGED reached
      /\ currentTestFailed' <=> (currentTestFailed \/ failed)
  BY DEF Runner!PartEnds, Runner!Report
<1>3. why \in {"timeout", "failed"} /\ {"timeout", "failed", "passed"} \subseteq Ends /\ (why = "timeout" => timedOut)
  BY DEF Ends
<1>4. verdicts' \in Seq((Nat \X Nat) \X Ends)
  <2>1. verdicts \in Seq((Nat \X Nat) \X Ends)
    BY <1>1 DEF RunnerTypes
  <2>. HIDE DEF why, failed, told
  <2>2. (\E what \in Ends : Runner!Report(what)) \/ UNCHANGED verdicts
    BY <1>2, <1>3
  <2>. QED
    BY <1>1, <2>1, <2>2, Reported
<1>5. CASE p = "1" /\ ~failed
  <2>1. /\ Runner!GoTo(c, "prepare2") /\ testCaseSetup' = FALSE /\ UNCHANGED <<timedOut, currentTestItem>>
    BY <1>5 DEF Runner!PartEnds
  <2>2. "prepare2" \in Places
    BY DEF Places, Testing
  <2>3. /\ handlers' \in Handlers
        /\ handlers'[c].pc = "prepare2" /\ handlers'[c].test = handlers[c].test
        /\ \A b \in 1..Clicks : b # c => handlers'[b] = handlers[b]
    BY <1>1, <2>1, <2>2, HandlerGoesOn
  <2>4. RunnerTypes'
    BY <1>1, <1>4, <2>1, <2>3 DEF RunnerTypes
  <2>5. ASSUME CalmInv PROVE CalmInv'
    <3>1. TestOk(c) /\ handlers[c].pc \in Testing /\ handlers'[c].pc \in Testing
      BY <1>1, <2>3, <2>5 DEF CalmInv, Tested, Testing
    <3>2. testCaseSetup
      BY <1>1, <1>5, <3>1 DEF TestOk
    <3>3. UNCHANGED <<verdicts, reached>> /\ (currentTestFailed' <=> currentTestFailed)
      BY <1>2, <1>5, <3>2
    <3>4. (testCaseSetup' <=> handlers'[c].pc \in {"prepare1", "run1"})
      BY <2>1, <2>3
    <3>. QED
      BY <1>1, <2>1, <2>3, <2>5, <3>1, <3>3, <3>4, TestGoesOn
  <2>. QED
    BY <1>1, <2>4, <2>5 DEF RunnerInv
<1>6. CASE ~(p = "1" /\ ~failed)
  <2>1. Runner!NextTest(c, stoppingTests, testConfig, debug) /\ currentTestItem' = Runner!NoItem
    BY <1>6 DEF Runner!PartEnds
  <2>2. debug \in BOOLEAN
    BY <1>1 DEF RunnerTypes
  <2>3. /\ handlers' \in Handlers
        /\ \A b \in 1..Clicks : b # c => handlers'[b] = handlers[b]
        /\ ~handlers'[c].timer
        /\ \/ handlers'[c].pc = "ending" /\ handlers'[c].test = handlers[c].test
           \/ /\ handlers'[c].pc \in {"start", "terminating"} /\ handlers'[c].test = handlers[c].test + 1
              /\ ~stoppingTests /\ handlers'[c].test \in 1..Tests /\ ~timedOut'
    BY <1>1, <2>1, <2>2, LoopGoesOn
  <2>4. RunnerTypes'
    BY <1>1, <1>4, <2>1, <2>2, <2>3 DEF RunnerTypes, Runner!NoItem
  <2>5. ASSUME CalmInv PROVE CalmInv'
    <3>1. TestOk(c) /\ handlers[c].pc \in Testing
      BY <1>1, <2>5 DEF CalmInv, Tested, Testing
    <3>2. PICK item : item = Runner!Item(c)
      OBVIOUS
    <3>3. currentTestItem = item /\ item # Runner!NoItem
      BY <3>1, <3>2, RunnerAssumption DEF TestOk, Runner!Item, Runner!NoItem
    <3>4. OnlyFailed(item) /\ ItemDecided(item)
      BY <2>5, <3>1, <3>2, <3>3
         DEF CalmInv, CurrentUndecided, ItemsRight, ItemRight, TestOk, Runner!Item
    <3>5. LeavesTest(c, stoppingTests)
      BY <2>1, <2>3 DEF LeavesTest
    <3>6. /\ timedOut => item \in late
          /\ testCaseSetup <=> p = "1"
          /\ told <=> Runner!VerdictsOn(item) # {}
      BY <1>1, <3>1, <3>2 DEF TestOk
    <3>7. OthersStay(item) /\ ItemDecided(item)' /\ Runner!VerdictsOn(item)' # {}
      <4>1. CASE told
        <5>1. UNCHANGED <<verdicts, late>> /\ \A x : Runner!VerdictsOn(x)' = Runner!VerdictsOn(x)
          BY <1>2, <4>1 DEF Runner!VerdictsOn
        <5>2. Runner!VerdictsOn(item) # {}
          BY <3>6, <4>1
        <5>3. \A x : x # item => (x \in reached' <=> x \in reached)
          BY <1>2, <3>2
        <5>. QED
          BY <3>4, <5>1, <5>2, <5>3 DEF OthersStay, ItemDecided, OnlyFailed
      <4>2. CASE ~told /\ failed
        <5>1. Runner!Report(why) /\ UNCHANGED <<reached, late>> /\ (why = "timeout" => timedOut)
          BY <1>2, <1>3, <4>2
        <5>2. Runner!VerdictsOn(item) = {}
          BY <3>6, <4>2
        <5>3. item \notin reached'
          BY <3>4, <5>1 DEF OnlyFailed
        <5>. HIDE DEF why, failed, told
        <5>. QED
          BY <1>1, <1>3, <3>3, <3>4, <3>6, <5>1, <5>2, <5>3, ReportDecides
      <4>3. CASE ~told /\ ~failed
        <5>1. success /\ p = "2"
          BY <1>6, <4>3
        <5>2. Runner!Report("passed") /\ reached' = reached \cup {item}
          BY <1>2, <3>2, <3>6, <4>3, <5>1
        <5>3. Runner!VerdictsOn(item) = {}
          BY <3>6, <4>3
        <5>4. "passed" \in Ends
          BY <1>3
        <5>. DEFINE n == Len(verdicts) + 1
        <5>5. /\ \A x : x # item => Runner!VerdictsOn(x)' = Runner!VerdictsOn(x)
              /\ Runner!VerdictsOn(item)' = Runner!VerdictsOn(item) \cup {n}
              /\ \A x : \A i \in Runner!VerdictsOn(x) : verdicts'[i] = verdicts[i]
              /\ verdicts'[n][2] = "passed"
          BY <1>1, <3>3, <5>2, <5>4, Reported
        <5>. HIDE DEF n
        <5>. QED
          BY <5>2, <5>3, <5>5 DEF OthersStay, ItemDecided
      <4>. QED
        BY <4>1, <4>2, <4>3
    <3>. QED
      BY <1>1, <2>5, <3>1, <3>2, <3>5, <3>7, TestLeft
  <2>. QED
    BY <1>1, <2>4, <2>5 DEF RunnerInv
<1>. QED
  BY <1>5, <1>6

(* An assertion that fails while debugging: the test that is debugged is   *)
(* the current one, and it goes on.                                        *)
LEMMA AssertionRunner ==
  ASSUME RunnerInv, waitOnDebugger, Runner!Report("failed"), currentTestFailed',
         UNCHANGED <<handlers, timedOut, testCaseSetup, currentTestItem, waitOnDebugger, reached,
                     debug, debugAdapter, late>>
  PROVE  RunnerInv'
<1>1. RunnerTypes /\ (Calm => CalmInv) /\ "failed" \in Ends
  BY DEF RunnerInv, Ends
<1>2. verdicts' \in Seq((Nat \X Nat) \X Ends)
  BY <1>1, Reported
<1>3. RunnerTypes'
  BY <1>1, <1>2 DEF RunnerTypes
<1>4. ASSUME CalmInv PROVE CalmInv'
  <2>1. PICK c \in 1..Clicks : handlers[c].pc \in Waiting /\ currentTestItem = Runner!Item(c) /\ debugAdapter
    BY <1>4 DEF CalmInv, DebuggedIsCurrent
  <2>2. PICK item : item = Runner!Item(c)
    OBVIOUS
  <2>3. item # Runner!NoItem /\ item' = item /\ \A b \in 1..Clicks : Runner!Item(b)' = Runner!Item(b)
    BY <2>2, RunnerAssumption DEF Runner!Item, Runner!NoItem
  <2>4. OnlyFailed(item)
    BY <1>4, <2>1, <2>2, <2>3 DEF CalmInv, CurrentUndecided
  <2>5. item \notin reached'
    BY <2>4 DEF OnlyFailed
  <2>6. OthersStay(item) /\ ItemDecided(item)' /\ Runner!VerdictsOn(item)' # {}
    BY <1>1, <2>1, <2>2, <2>4, <2>5, ReportDecides
  <2>7. OnlyFailed(item)'
    <3>1. /\ Runner!VerdictsOn(item)' = Runner!VerdictsOn(item) \cup {Len(verdicts) + 1}
          /\ \A x : \A i \in Runner!VerdictsOn(x) : verdicts'[i] = verdicts[i]
          /\ verdicts'[Len(verdicts) + 1][2] = "failed"
      BY <1>1, <2>1, <2>2, Reported
    <3>. QED
      BY <2>4, <3>1 DEF OnlyFailed
  <2>8. InRun(c) /\ \A b \in 1..Clicks : b # c => ~InRun(b)
    BY <1>4, <2>1 DEF CalmInv, OneRun, InRun, Waiting, Testing
  <2>9. OneRun'
    BY <1>4 DEF CalmInv, OneRun, InRun
  <2>10. /\ item = <<c, handlers[c].test>> /\ handlers[c].test \in Nat
         /\ handlers[c].pc \notin SetUp
    BY <1>1, <2>1, <2>2 DEF Runner!Item, RunnerTypes, Handlers, Handler, Waiting, SetUp
  <2>11. Unstarted'
    <3>. SUFFICES ASSUME NEW b \in 1..Clicks, NEW t \in 1..Tests,
                         t > handlers[b].test \/ (t = handlers[b].test /\ handlers[b].pc \in SetUp)
                  PROVE  Runner!VerdictsOn(<<b, t>>)' = {} /\ <<b, t>> \notin reached
      BY DEF Unstarted
    <3>1. t \in Nat /\ <<b, t>> # item
      BY <2>10, RunnerAssumption
    <3>. QED
      BY <1>4, <3>1, <2>6 DEF CalmInv, Unstarted, OthersStay
  <2>12. CurrentUndecided'
    <3>1. currentTestItem' = item
      BY <2>1, <2>2
    <3>. QED
      BY <2>2, <2>3, <2>7, <2>10, <2>1, <3>1 DEF CurrentUndecided, OnlyFailed, Waiting, SetUp
  <2>13. DebuggedIsCurrent'
    BY <2>1, <2>3 DEF DebuggedIsCurrent
  <2>14. Tested'
    <3>1. \A b \in 1..Clicks : b # c => handlers[b].pc \notin Testing \cup SetUp
      BY <2>8 DEF InRun
    <3>2. ASSUME handlers[c].pc \in Testing PROVE TestOk(c)'
      BY <1>4, <2>1, <2>2, <2>3, <2>6, <3>2 DEF CalmInv, Tested, TestOk
    <3>. QED
      BY <2>10, <3>1, <3>2 DEF Tested
  <2>15. ItemsRight'
    <3>. SUFFICES ASSUME NEW b \in 1..Clicks, NEW t \in 1..Tests PROVE ItemRight(b, t)'
      BY DEF ItemsRight
    <3>1. t \in Nat /\ ItemRight(b, t)
      BY <1>4, RunnerAssumption DEF CalmInv, ItemsRight
    <3>2. CASE <<b, t>> = item
      BY <2>6, <3>2 DEF ItemRight
    <3>3. CASE <<b, t>> # item
      BY <2>6, <3>1, <3>3 DEF ItemRight, ItemDecided, OthersStay
    <3>. QED
      BY <3>2, <3>3
  <2>. QED
    BY <2>9, <2>11, <2>12, <2>13, <2>14, <2>15 DEF CalmInv
<1>. QED
  BY <1>1, <1>3, <1>4 DEF RunnerInv

LEMMA RunnerSame ==
  ASSUME RunnerInv, currentTestFailed' <=> currentTestFailed,
         UNCHANGED <<handlers, verdicts, reached, late, timedOut, currentTestItem, debugAdapter, debug,
                     testCaseSetup, waitOnDebugger>>
  PROVE  RunnerInv'
<1>1. /\ \A x : Runner!VerdictsOn(x)' = Runner!VerdictsOn(x)
      /\ \A c : Runner!Item(c)' = Runner!Item(c)
  BY DEF Runner!VerdictsOn, Runner!Item
<1>2. RunnerTypes'
  BY DEF RunnerInv, RunnerTypes
<1>3. ASSUME CalmInv PROVE CalmInv'
  <2>1. OneRun' /\ Unstarted'
    BY <1>1, <1>3 DEF CalmInv, OneRun, InRun, Unstarted
  <2>2. CurrentUndecided' /\ DebuggedIsCurrent'
    BY <1>1, <1>3 DEF CalmInv, CurrentUndecided, OnlyFailed, DebuggedIsCurrent
  <2>3. Tested'
    BY <1>1, <1>3 DEF CalmInv, Tested, TestOk
  <2>4. ItemsRight'
    BY <1>1, <1>3 DEF CalmInv, ItemsRight, ItemRight, ItemDecided
  <2>. QED
    BY <2>1, <2>2, <2>3, <2>4 DEF CalmInv
<1>. QED
  BY <1>2, <1>3 DEF RunnerInv

LEMMA StopsRunner ==
  ASSUME RunnerInv, NEW success \in BOOLEAN, Runner!MachineStops(success)
  PROVE  RunnerInv'
<1>1. UNCHANGED <<debug, debugAdapter, testRunActive, stoppingTests, testConfig, testRemote, late>>
  BY DEF Runner!MachineStops
<1>2. ASSUME waitOnDebugger, NEW assertion \in BOOLEAN,
             IF assertion THEN Runner!Report("failed") ELSE UNCHANGED verdicts,
             currentTestFailed' = (currentTestFailed \/ assertion),
             UNCHANGED <<handlers, timedOut, testCaseSetup, currentTestItem, waitOnDebugger, reached>>
      PROVE  RunnerInv'
  <2>1. CASE assertion
    <3>1. currentTestFailed' /\ Runner!Report("failed")
      BY <1>2, <2>1
    <3>. QED
      BY <1>1, <1>2, <3>1, AssertionRunner
  <2>2. CASE ~assertion
    <3>1. UNCHANGED <<handlers, verdicts, reached, late, timedOut, currentTestItem, debugAdapter, debug,
                      testCaseSetup, waitOnDebugger>>
          /\ (currentTestFailed' <=> currentTestFailed)
      BY <1>1, <1>2, <2>2
    <3>. QED
      BY <3>1, RunnerSame
  <2>. QED
    BY <2>1, <2>2
<1>3. ASSUME NEW c \in 1..Clicks, NEW p \in {"1", "2"}, handlers[c].pc = Runner!Runs(p),
             Runner!PartEnds(c, p, success), waitOnDebugger' = FALSE
      PROVE  RunnerInv'
  <2>1. ~waitOnDebugger'
    BY <1>3
  <2>. QED
    BY <1>1, <1>3, <2>1, PartRunner
<1>. QED
  BY <1>2, <1>3 DEF Runner!MachineStops

LEMMA RunnerInductive == MCSpec => []RunnerInv
<1>1. RunnerInv /\ [Runner!Next]_runnerVars => RunnerInv'
  <2>1. ASSUME RunnerInv, NEW c \in 1..Clicks, Runner!Handle(c) PROVE RunnerInv'
    <3>1. CASE Runner!Paused(c)
      <4>1. PICK p \in {"1", "2"} : handlers[c].pc = Runner!Runs(p) /\ Runner!PartEnds(c, p, FALSE)
        BY <3>1 DEF Runner!Paused
      <4>2. ~waitOnDebugger' /\ UNCHANGED <<debug, debugAdapter, late>>
        BY <3>1 DEF Runner!Paused
      <4>3. FALSE \in BOOLEAN
        OBVIOUS
      <4>. QED
        BY <2>1, <4>1, <4>2, <4>3, PartRunner
    <3>. QED
      BY <2>1, <3>1, SetUpRunner, StartRunner, ExecRunner, EndRunner DEF Runner!Handle
  <2>2. RunnerInv /\ Runner!UserContinues => RunnerInv'
    BY RunnerSame DEF Runner!UserContinues, Runner!static
  <2>3. RunnerInv /\ Runner!Next => RunnerInv'
    BY <2>1, <2>2, ClickRunner, SetUpRunner, StopsRunner, EndRunner DEF Runner!Next
  <2>4. RunnerInv /\ UNCHANGED runnerVars => RunnerInv'
    BY RunnerSame DEF runnerVars
  <2>. QED
    BY <2>3, <2>4
<1>2. MCInit => RunnerInv
  BY InitRunner DEF MCInit
<1>3. [MCNext]_<<part, vars, lifeVars, runnerVars, treeVars, valueVars>> => [Runner!Next]_runnerVars
  BY DEF MCNext
<1>. QED
  BY <1>1, <1>2, <1>3, PTL DEF MCSpec

(* Z80UnitTestRunner: as long as clicks do not overlap, a test that the    *)
(* loop has left has one verdict, passed only if its code ran to the end,  *)
(* a timeout only if its own timer has fired.                              *)
THEOREM TestsAreJudged == MCSpec => []VerdictsAreRight
<1>1. RunnerInv => VerdictsAreRight
  BY DEF RunnerInv, CalmInv, ItemsRight, ItemRight, ItemDecided, VerdictsAreRight, Runner!VerdictsAreRight
<1>. QED
  BY <1>1, RunnerInductive, PTL

(* Z80UnitTestRunner, "Only allow one test run at a time": as long as      *)
(* clicks do not overlap, two handlers are never in their loops at once.   *)
THEOREM OneRunner == MCSpec => [](Calm => Runner!OneRunAtATime)
<1>1. RunnerInv => (Calm => Runner!OneRunAtATime)
  BY DEF RunnerInv, CalmInv, OneRun, InRun, SetUp, Testing, Runner!OneRunAtATime
<1>. QED
  BY <1>1, RunnerInductive, PTL

------------------------------------------------------------------------------
(* Values changed by hand.  As long as requests neither overlap nor fail,  *)
(* a request leaves nothing behind, and until it is done it knows what is  *)
(* to be told.  The registers are read after each change, in any case.     *)

Steps == {"none", "write", "read", "PC", "SP", "other", "memory", "done"}
Whats == {"none", "PC", "SP", "other", "memory", "expression", "toLine"}

Changes == [1..MaxChanges -> [what : Whats, at : Steps]]

ShownBy(views) == \A u \in unshown : u[2] \in {"vscode", views}
AllTold == flags = {} /\ unshown = {} /\ cache = Values!Registers /\ callStack

OneChange == \A q, r \in 1..MaxChanges : Values!UnderWay(q) /\ Values!UnderWay(r) => q = r

\* What request r has changed and not yet told.
RegisterChange(r) ==
  /\ changes[r].at = "read" => flags = {} /\ (Values!Register(r) = "other" => callStack)
  /\ changes[r].at \in {"PC", "SP", "other"} => cache = Values!Registers
  /\ changes[r].at = "PC" => \/ changes[r].what = "PC" /\ flags = {"PC", "other"}
                             \/ changes[r].what = "toLine" /\ flags = {}
  /\ changes[r].at = "SP" => changes[r].what = "SP" /\ flags = {"SP"}
  /\ changes[r].at = "other" => /\ changes[r].what \in {"PC", "other"} /\ callStack
                                /\ flags \in {{"PC", "other"}, {"other"}}
  /\ changes[r].at # "memory" /\ ShownBy("registerViews")
MemoryChange(r) ==
  /\ changes[r].at \in {"read", "memory"}
  /\ flags = {"memory"} /\ cache = Values!Registers /\ callStack /\ ShownBy("memoryViews")

ChangeKnown(r) ==
  /\ changes[r].what # "none"
  /\ changes[r].at = "write" => AllTold
  /\ changes[r].at # "write" /\ changes[r].what \in {"memory", "expression"} => MemoryChange(r)
  /\ changes[r].at # "write" /\ changes[r].what \notin {"memory", "expression"} => RegisterChange(r)

ValueInv ==
  /\ changes \in Changes
  /\ OneChange
  /\ Values!Idle => AllTold
  /\ \A r \in 1..MaxChanges : Values!UnderWay(r) => ChangeKnown(r)

\* The registers of the adapter are those of the emulator, or will be read.
RegistersKnown ==
  cache = Values!Registers \/ \E r \in 1..MaxChanges : changes[r].at = "read" /\ Values!Register(r) \in Values!Registers

ChangesInv ==
  /\ changes \in Changes
  /\ rejected \/ RegistersKnown
  /\ rejected \/ overlapped \/ ValueInv

LEMMA NextFlag ==
  /\ Values!After({"memory"}, 1) = "memory"
  /\ Values!After({"SP"}, 1) = "SP" /\ Values!After({"SP"}, 3) = "done"
  /\ Values!After({"other"}, 1) = "other"
  /\ Values!After({"PC", "other"}, 1) = "PC" /\ Values!After({"PC", "other"}, 2) = "other"
  /\ Values!After({"PC", "other"}, 4) = "done" /\ Values!After({"other"}, 4) = "done"
  /\ Values!After({"memory"}, 5) = "done" /\ Values!After({}, 2) = "done" /\ Values!After({}, 1) = "done"
<1>. DEFINE Ahead(set, k) == {j \in k..4 : Values!Stages[j] \in set}
            First(S) == CHOOSE j \in S : \A i \in S : j <= i
<1>1. \A k \in 1..4 : Values!Stages[k] = IF k = 1 THEN "PC" ELSE IF k = 2 THEN "SP" ELSE IF k = 3 THEN "other" ELSE "memory"
  BY DEF Values!Stages
<1>2. \A set : \A k \in Nat : Values!After(set, k) = IF Ahead(set, k) = {} THEN "done" ELSE Values!Stages[First(Ahead(set, k))]
  BY DEF Values!After
<1>3. First({4}) = 4 /\ First({3}) = 3 /\ First({2}) = 2 /\ First({1, 3}) = 1
  OBVIOUS
<1>4. /\ Ahead({"memory"}, 1) = {4} /\ Ahead({"SP"}, 1) = {2} /\ Ahead({"SP"}, 3) = {}
      /\ Ahead({"other"}, 1) = {3} /\ Ahead({"PC", "other"}, 1) = {1, 3} /\ Ahead({"PC", "other"}, 2) = {3}
      /\ Ahead({"PC", "other"}, 4) = {} /\ Ahead({"other"}, 4) = {}
      /\ Ahead({"memory"}, 5) = {} /\ Ahead({}, 2) = {} /\ Ahead({}, 1) = {}
  BY <1>1
<1>. HIDE DEF Ahead, First
<1>5. /\ Values!After({"memory"}, 1) = "memory" /\ Values!After({"SP"}, 1) = "SP"
      /\ Values!After({"other"}, 1) = "other" /\ Values!After({"PC", "other"}, 1) = "PC"
      /\ Values!After({"PC", "other"}, 2) = "other"
  BY <1>1, <1>2, <1>3, <1>4
<1>6. /\ Values!After({"SP"}, 3) = "done" /\ Values!After({"PC", "other"}, 4) = "done"
      /\ Values!After({"other"}, 4) = "done" /\ Values!After({"memory"}, 5) = "done"
      /\ Values!After({}, 2) = "done" /\ Values!After({}, 1) = "done"
  BY <1>2, <1>4
<1>. QED
  BY <1>5, <1>6

(* Only one request is under way, and it keeps what it has to.             *)
LEMMA ChangeStep ==
  ASSUME ValueInv, NEW r \in 1..MaxChanges, Values!UnderWay(r) \/ Values!Idle,
         changes' \in Changes,
         \A q \in 1..MaxChanges : q # r => changes'[q] = changes[q],
         Values!UnderWay(r)' => ChangeKnown(r)', ~Values!UnderWay(r)' => AllTold'
  PROVE  ValueInv'
<1>1. \A q \in 1..MaxChanges : q # r => ~Values!UnderWay(q) /\ ~Values!UnderWay(q)'
  BY DEF ValueInv, OneChange, Values!Idle, Values!Requests, Values!UnderWay
<1>2. OneChange'
  BY <1>1 DEF OneChange
<1>3. Values!Idle' => AllTold'
  BY DEF Values!Idle, Values!Requests
<1>. QED
  BY <1>1, <1>2, <1>3 DEF ValueInv

LEMMA ChangeGoes ==
  ASSUME changes \in Changes, NEW r \in 1..MaxChanges, NEW stage \in Steps, Values!Goes(r, stage)
  PROVE  /\ changes' \in Changes
         /\ changes'[r].at = stage /\ changes'[r].what = changes[r].what
         /\ \A q \in 1..MaxChanges : q # r => changes'[q] = changes[q]
<1>. DEFINE Change == [what : Whats, at : Steps]
            h == [changes[r] EXCEPT !.at = stage]
<1>1. changes \in [1..MaxChanges -> Change] /\ changes[r] \in Change
  BY DEF Changes
<1>2. h \in Change /\ h.at = stage /\ h.what = changes[r].what
  BY <1>1
<1>3. changes' = [changes EXCEPT ![r] = h]
  BY DEF Values!Goes
<1>. HIDE DEF h, Change
<1>4. changes' \in [1..MaxChanges -> Change] /\ changes'[r] = h /\ \A q \in 1..MaxChanges : q # r => changes'[q] = changes[q]
  BY <1>1, <1>2, <1>3
<1>. QED
  BY <1>2, <1>4 DEF Change, Changes

LEMMA ChangeArrives ==
  ASSUME ValueInv, ~overlapped', NEW r \in 1..MaxChanges, NEW what \in Values!Registers \cup {"memory", "expression", "toLine"},
         NEW stage \in {"write", "done"},
         Values!Arrives(r), changes' = [changes EXCEPT ![r] = [what |-> what, at |-> stage]],
         flags' = {} \/ UNCHANGED flags, UNCHANGED <<unshown, cache, callStack>>
  PROVE  ValueInv'
<1>. DEFINE h == [what |-> what, at |-> stage]
            Change == [what : Whats, at : Steps]
<1>1. Values!Idle /\ AllTold
  BY DEF ValueInv, Values!Arrives
<1>2. changes \in [1..MaxChanges -> Change] /\ h \in Change /\ h.what = what /\ h.at = stage
  BY DEF ValueInv, Changes, Whats, Steps, Values!Registers
<1>3. changes' = [changes EXCEPT ![r] = h]
  OBVIOUS
<1>. HIDE DEF h, Change
<1>4. changes' \in [1..MaxChanges -> Change] /\ changes'[r] = h /\ \A q \in 1..MaxChanges : q # r => changes'[q] = changes[q]
  BY <1>2, <1>3
<1>5. AllTold'
  BY <1>1 DEF AllTold
<1>6. Values!UnderWay(r)' => ChangeKnown(r)'
  BY <1>2, <1>4, <1>5 DEF ChangeKnown, Values!UnderWay, Values!Registers
<1>. QED
  BY <1>1, <1>4, <1>5, <1>6, ChangeStep DEF Change, Changes

(* The emulator writes, and what was written is read again.                *)
LEMMA WriteStep ==
  ASSUME ValueInv, NEW r \in 1..MaxChanges, Values!RegisterWritten(r) \/ Values!MemoryWritten(r)
  PROVE  ValueInv'
<1>1. /\ changes[r].at = "write" /\ Values!Goes(r, "read") /\ "read" \in Steps
  BY DEF Values!RegisterWritten, Values!MemoryWritten, Steps
<1>2. AllTold /\ Values!UnderWay(r)
  BY <1>1 DEF ValueInv, ChangeKnown, Values!UnderWay
<1>3. /\ changes' \in Changes
      /\ changes'[r].at = "read" /\ changes'[r].what = changes[r].what
      /\ \A q \in 1..MaxChanges : q # r => changes'[q] = changes[q]
  BY <1>1, ChangeGoes DEF ValueInv
<1>4. ChangeKnown(r)'
  <2>1. CASE Values!RegisterWritten(r)
    <3>1. Values!Register(r) \in Values!Registers /\ changes[r].what \notin {"none", "memory", "expression"}
          /\ Values!Register(r)' = Values!Register(r)
      BY <1>3, <2>1 DEF Values!RegisterWritten, Values!Register, Values!Registers
    <3>2. flags' = {} /\ \A u \in unshown' : u[2] \in {"vscode", "registerViews"}
      BY <1>2, <2>1 DEF Values!RegisterWritten, Values!RegisterChanges, AllTold
    <3>3. callStack /\ callStack' = (callStack /\ Values!Register(r) = "other")
      BY <1>2, <2>1, Zenon DEF Values!RegisterWritten, Values!RegisterChanges, AllTold
    <3>4. Values!Register(r) = "other" => callStack'
      BY <3>3, Zenon
    <3>. QED
      BY <1>3, <3>1, <3>2, <3>4 DEF ChangeKnown, RegisterChange, ShownBy
  <2>2. CASE Values!MemoryWritten(r)
    <3>1. /\ changes[r].what \in {"memory", "expression"}
          /\ flags' = {"memory"} /\ cache' = Values!Registers /\ callStack'
          /\ \A u \in unshown' : u[2] \in {"vscode", "memoryViews"}
      BY <1>2, <2>2 DEF Values!MemoryWritten, Values!MemoryChanges, AllTold
    <3>. QED
      BY <1>3, <3>1 DEF ChangeKnown, MemoryChange, ShownBy, Values!Registers
  <2>. QED
    BY <2>1, <2>2 DEF Values!RegisterWritten, Values!MemoryWritten
<1>5. Values!UnderWay(r)'
  BY <1>3 DEF Values!UnderWay
<1>. QED
  BY <1>2, <1>3, <1>4, <1>5, ChangeStep

LEMMA ReadStep ==
  ASSUME ValueInv, NEW r \in 1..MaxChanges, Values!RegistersRead(r) \/ Values!MemoryRead(r)
  PROVE  ValueInv'
<1>1. changes[r].at = "read" /\ Values!UnderWay(r) /\ ChangeKnown(r) /\ changes[r].what \in Whats
  BY DEF Values!RegistersRead, Values!MemoryRead, Values!UnderWay, ValueInv, Changes
<1>2. CASE Values!RegistersRead(r)
  <2>1. /\ changes[r].what \in {"PC", "SP", "other", "toLine"}
        /\ flags = {} /\ (Values!Register(r) = "other" => callStack)
        /\ \A u \in unshown' : u[2] \in {"vscode", "registerViews"}
        /\ cache' = Values!Registers /\ UNCHANGED <<unshown, callStack>>
    BY <1>1, <1>2 DEF Values!RegistersRead, Values!Register, Values!Registers, ChangeKnown, RegisterChange,
                      ShownBy, Whats
  <2>. DEFINE set == CASE changes[r].what = "PC" -> {"PC", "other"} [] changes[r].what = "SP" -> {"SP"}
                       [] OTHER -> {"other"}
              stage == IF changes[r].what = "toLine" THEN "PC" ELSE changes[r].what
  <2>2. IF changes[r].what = "toLine" THEN UNCHANGED flags /\ Values!Goes(r, "PC")
        ELSE flags' = set /\ Values!Goes(r, Values!After(set, 1))
    <3>1. flags \cup set = set
      BY <2>1
    <3>. QED
      BY <1>2, <3>1 DEF Values!RegistersRead
  <2>3. changes[r].what # "toLine" => Values!After(set, 1) = changes[r].what
    BY <2>1, NextFlag
  <2>. HIDE DEF set
  <2>4. Values!Goes(r, stage) /\ stage \in Steps
    BY <2>1, <2>2, <2>3 DEF Steps
  <2>. HIDE DEF stage
  <2>5. /\ changes' \in Changes
        /\ changes'[r].at = stage /\ changes'[r].what = changes[r].what
        /\ \A q \in 1..MaxChanges : q # r => changes'[q] = changes[q]
    BY <2>4, ChangeGoes DEF ValueInv
  <2>6. /\ changes[r].what = "PC" => flags' = {"PC", "other"} /\ stage = "PC"
        /\ changes[r].what = "SP" => flags' = {"SP"} /\ stage = "SP"
        /\ changes[r].what = "other" => flags' = {"other"} /\ stage = "other" /\ callStack'
        /\ changes[r].what = "toLine" => flags' = {} /\ stage = "PC"
    BY <2>1, <2>2 DEF set, stage, Values!Register
  <2>7. ChangeKnown(r)' /\ Values!UnderWay(r)'
    BY <2>1, <2>5, <2>6 DEF ChangeKnown, RegisterChange, ShownBy, Values!UnderWay, Values!Registers
  <2>. QED
    BY <1>1, <2>5, <2>7, ChangeStep
<1>3. CASE Values!MemoryRead(r)
  <2>1. /\ changes[r].what \in {"memory", "expression"}
        /\ flags = {"memory"} /\ cache = Values!Registers /\ callStack
        /\ \A u \in unshown : u[2] \in {"vscode", "memoryViews"}
        /\ UNCHANGED <<unshown, cache, callStack>>
    BY <1>1, <1>3 DEF Values!MemoryRead, ChangeKnown, MemoryChange, ShownBy
  <2>2. Values!Goes(r, "memory") /\ "memory" \in Steps
    <3>1. (IF changes[r].what = "expression" THEN flags \cap {"memory"} ELSE flags) = {"memory"}
      BY <2>1
    <3>. QED
      BY <1>3, <3>1, NextFlag DEF Values!MemoryRead, Steps
  <2>3. /\ changes' \in Changes
        /\ changes'[r].at = "memory" /\ changes'[r].what = changes[r].what
        /\ \A q \in 1..MaxChanges : q # r => changes'[q] = changes[q]
    BY <2>2, ChangeGoes DEF ValueInv
  <2>4. flags' = {"memory"}
    BY <1>3, <2>1, <2>3 DEF Values!MemoryRead
  <2>5. ChangeKnown(r)' /\ Values!UnderWay(r)'
    BY <2>1, <2>3, <2>4 DEF ChangeKnown, MemoryChange, ShownBy, Values!UnderWay, Values!Registers
  <2>. QED
    BY <1>1, <2>3, <2>5, ChangeStep
<1>. QED
  BY <1>2, <1>3

(* The call stack is read, or the next flag is told.                       *)
LEMMA CallStackStep ==
  ASSUME ValueInv, NEW r \in 1..MaxChanges, Values!CallStackRead(r)
  PROVE  ValueInv'
<1>1. changes[r].at \in {"PC", "SP"} /\ Values!UnderWay(r) /\ ChangeKnown(r)
  BY DEF Values!CallStackRead, Values!UnderWay, ValueInv
<1>2. UNCHANGED <<flags, changes, unshown, cache>>
  BY DEF Values!CallStackRead
<1>3. callStack'
  <2>1. callStack' = TRUE
    BY DEF Values!CallStackRead
  <2>. QED
    BY <2>1
<1>4. ChangeKnown(r)' /\ Values!UnderWay(r)'
  BY <1>1, <1>2, <1>3 DEF ChangeKnown, RegisterChange, MemoryChange, ShownBy, Values!UnderWay
<1>5. changes' \in Changes
  BY <1>2 DEF ValueInv
<1>. QED
  BY <1>1, <1>2, <1>4, <1>5, ChangeStep

LEMMA ToldStep ==
  ASSUME ValueInv, NEW r \in 1..MaxChanges, Values!HasBeenChanged(r)
  PROVE  ValueInv'
<1>. DEFINE stage == changes[r].at
            what == changes[r].what
            views == IF stage = "memory" THEN "memoryViews" ELSE "registerViews"
            next == IF what \in {"toLine", "expression", "SP", "other", "memory"} THEN "done" ELSE
                    IF stage = "PC" THEN "other" ELSE "done"
<1>1. stage \in {"PC", "SP", "other", "memory"} /\ Values!UnderWay(r) /\ ChangeKnown(r) /\ what \in Whats
      /\ (callStack \/ stage \in {"other", "memory"})
  <2>1. stage \in {"PC", "SP", "other", "memory"}
    BY DEF Values!HasBeenChanged, Values!Stages
  <2>. QED
    BY <2>1 DEF Values!HasBeenChanged, Values!UnderWay, ValueInv, Changes
<1>2. /\ stage = "memory" => /\ what \in {"memory", "expression"} /\ flags = {"memory"}
                             /\ cache = Values!Registers /\ callStack /\ ShownBy("memoryViews")
      /\ stage # "memory" => cache = Values!Registers /\ callStack /\ ShownBy("registerViews")
      /\ stage = "PC" => \/ what = "PC" /\ flags = {"PC", "other"}
                         \/ what = "toLine" /\ flags = {}
      /\ stage = "SP" => what = "SP" /\ flags = {"SP"}
      /\ stage = "other" => what \in {"PC", "other"} /\ flags \in {{"PC", "other"}, {"other"}}
  <2>1. CASE what \in {"memory", "expression"}
    <3>1. MemoryChange(r)
      BY <1>1, <2>1 DEF ChangeKnown
    <3>2. stage = "memory"
      BY <1>1, <3>1 DEF MemoryChange
    <3>. QED
      BY <2>1, <3>1, <3>2 DEF MemoryChange
  <2>2. CASE what \notin {"memory", "expression"}
    <3>1. RegisterChange(r)
      BY <1>1, <2>2 DEF ChangeKnown
    <3>2. stage # "memory" /\ (stage = "other" => callStack)
      BY <3>1 DEF RegisterChange
    <3>3. callStack
      BY <1>1, <3>2
    <3>. QED
      <4>1. /\ stage # "memory" => cache = Values!Registers /\ ShownBy("registerViews")
            /\ stage = "PC" => \/ what = "PC" /\ flags = {"PC", "other"}
                               \/ what = "toLine" /\ flags = {}
            /\ stage = "SP" => what = "SP" /\ flags = {"SP"}
            /\ stage = "other" => what \in {"PC", "other"} /\ flags \in {{"PC", "other"}, {"other"}}
        BY <1>1, <3>1 DEF RegisterChange
      <4>. QED
        BY <3>2, <3>3, <4>1, Zenon
  <2>. QED
    BY <2>1, <2>2
<1>3. unshown' = {u \in unshown : u[2] \notin {"vscode", views}} /\ UNCHANGED <<cache, callStack>>
  BY DEF Values!HasBeenChanged
<1>4. unshown' = {}
  BY <1>1, <1>2, <1>3 DEF ShownBy
<1>5. Values!Goes(r, next) /\ flags' = IF next = "done" /\ what # "toLine" THEN {} ELSE flags
  <2>. DEFINE k == CHOOSE j \in 1..4 : Values!Stages[j] = stage
              then == IF what \in {"toLine", "expression"} THEN "done" ELSE Values!After(flags, k + 1)
  <2>1. k = IF stage = "PC" THEN 1 ELSE IF stage = "SP" THEN 2 ELSE IF stage = "other" THEN 3 ELSE 4
    BY <1>1 DEF Values!Stages
  <2>2. Values!Goes(r, then) /\ flags' = IF then = "done" /\ what # "toLine" THEN {} ELSE flags
    BY DEF Values!HasBeenChanged
  <2>. HIDE DEF k
  <2>3. then = next
    BY <1>1, <1>2, <2>1, NextFlag
  <2>. HIDE DEF then
  <2>. QED
    BY <2>2, <2>3
<1>6. next \in {"other", "done"} /\ next \in Steps
  BY DEF Steps
<1>7. next = "other" => what = "PC" /\ flags = {"PC", "other"} /\ stage = "PC"
  BY <1>1, <1>2
<1>8. next = "done" => flags' = {}
  BY <1>1, <1>2, <1>5
<1>. HIDE DEF next
<1>9. /\ changes' \in Changes
      /\ changes'[r].at = next /\ changes'[r].what = changes[r].what
      /\ \A q \in 1..MaxChanges : q # r => changes'[q] = changes[q]
  BY <1>5, <1>6, ChangeGoes DEF ValueInv
<1>10. next = "done" => AllTold' /\ ~Values!UnderWay(r)'
  BY <1>1, <1>2, <1>3, <1>4, <1>8, <1>9 DEF AllTold, Values!UnderWay, Values!Registers
<1>11. next = "other" => ChangeKnown(r)' /\ Values!UnderWay(r)'
  BY <1>1, <1>2, <1>3, <1>4, <1>5, <1>7, <1>9
  DEF ChangeKnown, RegisterChange, ShownBy, Values!UnderWay, Values!Registers
<1>. QED
  BY <1>1, <1>6, <1>9, <1>10, <1>11, ChangeStep

(* The emulator refuses to write, and has not written.                     *)
LEMMA RefusedStep ==
  ASSUME ValueInv, ~rejected', NEW r \in 1..MaxChanges,
         Values!WriteRejected(r) \/ Values!ReadRejected(r) \/ Values!TellingRejected(r)
  PROVE  ValueInv'
<1>1. /\ changes[r].at = "write" /\ Values!GivesUp(r) /\ UNCHANGED <<unshown, cache, callStack>>
  BY DEF Values!WriteRejected, Values!ReadRejected, Values!TellingRejected
<1>2. AllTold /\ Values!UnderWay(r) /\ changes \in Changes
  BY <1>1 DEF ValueInv, ChangeKnown, Values!UnderWay
<1>3. flags = {} /\ Values!After(flags, 1) = "done"
  BY <1>2, NextFlag DEF AllTold
<1>4. Values!Goes(r, "done") /\ flags' = {} /\ "done" \in Steps
  BY <1>1, <1>3 DEF Values!GivesUp, Steps
<1>5. /\ changes' \in Changes /\ changes'[r].at = "done"
      /\ \A q \in 1..MaxChanges : q # r => changes'[q] = changes[q]
  BY <1>2, <1>4, ChangeGoes
<1>6. AllTold' /\ ~Values!UnderWay(r)'
  BY <1>1, <1>2, <1>4, <1>5 DEF AllTold, Values!UnderWay, Values!Registers
<1>. QED
  BY <1>2, <1>5, <1>6, ChangeStep

Changing(r) ==
  \/ \E what \in Values!Registers \cup {"memory"} : Values!setVariableRequest(r, what)
  \/ Values!setExpressionRequest(r) \/ Values!setPcToLine(r)
Working(r) ==
  \/ Values!RegisterWritten(r) \/ Values!MemoryWritten(r) \/ Values!RegistersRead(r) \/ Values!MemoryRead(r)
  \/ Values!CallStackRead(r) \/ Values!HasBeenChanged(r)
Refused(r) == Values!WriteRejected(r) \/ Values!ReadRejected(r) \/ Values!TellingRejected(r)

LEMMA ValueStep ==
  ASSUME ValueInv, ~overlapped', ~rejected', NEW r \in 1..MaxChanges, Changing(r) \/ Working(r) \/ Refused(r)
  PROVE  ValueInv'
<1>1. ASSUME NEW what \in Values!Registers \cup {"memory"}, Values!setVariableRequest(r, what)
      PROVE  ValueInv'
  BY <1>1, ChangeArrives DEF Values!setVariableRequest
<1>2. CASE Values!setExpressionRequest(r)
  BY <1>2, ChangeArrives DEF Values!setExpressionRequest
<1>3. CASE Values!setPcToLine(r)
  BY <1>3, ChangeArrives DEF Values!setPcToLine
<1>. QED
  BY <1>1, <1>2, <1>3, WriteStep, ReadStep, CallStackStep, ToldStep, RefusedStep DEF Changing, Working, Refused

(* The next flag is one of the steps.                                      *)
LEMMA NextIsStep == ASSUME NEW set, NEW k \in 1..5 PROVE Values!After(set, k) \in Steps
<1>. DEFINE next == {j \in k..4 : Values!Stages[j] \in set}
<1>1. \A j \in 1..4 : Values!Stages[j] \in Steps
  BY DEF Values!Stages, Steps
<1>2. next \subseteq 1..4
  OBVIOUS
<1>3. Values!After(set, k) = IF next = {} THEN "done" ELSE Values!Stages[CHOOSE j \in next : \A i \in next : j <= i]
  BY DEF Values!After
<1>. HIDE DEF next
<1>4. ASSUME next # {} PROVE \E j \in next : \A i \in next : j <= i
  <2>1. CASE 1 \in next
    BY <1>2, <2>1
  <2>2. CASE 1 \notin next /\ 2 \in next
    BY <1>2, <2>2
  <2>3. CASE 1 \notin next /\ 2 \notin next /\ 3 \in next
    BY <1>2, <2>3
  <2>4. CASE 1 \notin next /\ 2 \notin next /\ 3 \notin next
    <3>1. \A j \in next : j = 4
      BY <1>2, <2>4
    <3>2. PICK j : j \in next
      BY <1>4
    <3>. QED
      BY <3>1, <3>2
  <2>. QED
    BY <2>1, <2>2, <2>3, <2>4
<1>5. ASSUME next # {} PROVE (CHOOSE j \in next : \A i \in next : j <= i) \in 1..4
  BY <1>2, <1>4, <1>5
<1>6. "done" \in Steps
  BY DEF Steps
<1>. QED
  BY <1>1, <1>3, <1>5, <1>6

(* Whatever a request does, it goes to one of its steps, and only the      *)
(* reading of the registers, or an error, lets it leave them unread.       *)
LEMMA RequestMoves ==
  ASSUME changes \in Changes, NEW r \in 1..MaxChanges, Working(r) \/ Refused(r)
  PROVE  \E stage \in Steps :
           /\ Values!Goes(r, stage) \/ UNCHANGED changes
           /\ \/ cache' = Values!Registers
              \/ rejected' = TRUE
              \/ UNCHANGED <<cache, changes>>
              \/ Values!Goes(r, stage) /\ stage = "read" /\ Values!Register(r) \in Values!Registers
              \/ UNCHANGED cache /\ (changes[r].at = "read" => Values!Register(r) \notin Values!Registers)
<1>1. \A k \in 1..5 : \A set : Values!After(set, k) \in Steps
  BY NextIsStep
<1>2. {"read", "done", "PC"} \subseteq Steps
  BY DEF Steps
<1>3. \A q \in 1..MaxChanges : changes[q].what \in {"memory", "expression"} => Values!Register(q) \notin Values!Registers
  BY DEF Values!Register, Values!Registers
<1>4. CASE Values!RegisterWritten(r)
  BY <1>2, <1>4 DEF Values!RegisterWritten
<1>5. CASE Values!MemoryWritten(r)
  BY <1>2, <1>3, <1>5 DEF Values!MemoryWritten, Values!MemoryChanges
<1>6. CASE Values!RegistersRead(r)
  <2>. DEFINE set == flags \cup (CASE changes[r].what = "PC" -> {"PC", "other"} [] changes[r].what = "SP" -> {"SP"}
                                    [] OTHER -> {"other"})
  <2>1. cache' = Values!Registers /\ (Values!Goes(r, "PC") \/ Values!Goes(r, Values!After(set, 1)))
    BY <1>6 DEF Values!RegistersRead
  <2>. HIDE DEF set
  <2>. QED
    BY <1>1, <1>2, <2>1
<1>7. CASE Values!MemoryRead(r)
  <2>. DEFINE set == IF changes[r].what = "expression" THEN flags \cap {"memory"} ELSE flags
  <2>1. Values!Goes(r, Values!After(set, 1)) /\ UNCHANGED cache /\ changes[r].what \in {"memory", "expression"}
    BY <1>7 DEF Values!MemoryRead
  <2>. HIDE DEF set
  <2>. QED
    BY <1>1, <1>3, <2>1
<1>8. CASE Values!CallStackRead(r)
  BY <1>2, <1>8 DEF Values!CallStackRead
<1>9. CASE Values!HasBeenChanged(r)
  <2>. DEFINE k == CHOOSE j \in 1..4 : Values!Stages[j] = changes[r].at
              next == IF changes[r].what \in {"toLine", "expression"} THEN "done" ELSE Values!After(flags, k + 1)
  <2>1. changes[r].at \in {Values!Stages[j] : j \in 1..4} /\ Values!Goes(r, next) /\ UNCHANGED cache
    BY <1>9 DEF Values!HasBeenChanged
  <2>2. k \in 1..4 /\ changes[r].at # "read"
    BY <2>1 DEF Values!Stages
  <2>. HIDE DEF k
  <2>3. next \in Steps
    BY <1>1, <1>2, <2>2
  <2>. HIDE DEF next
  <2>. QED
    BY <2>1, <2>2, <2>3
<1>10. ASSUME Values!GivesUp(r) PROVE \E stage \in Steps : Values!Goes(r, stage)
  BY <1>1, <1>2, <1>10 DEF Values!GivesUp
<1>11. CASE Values!WriteRejected(r)
  BY <1>10, <1>11 DEF Values!WriteRejected
<1>12. CASE Values!ReadRejected(r)
  BY <1>10, <1>12 DEF Values!ReadRejected
<1>13. CASE Values!TellingRejected(r)
  BY <1>2, <1>13 DEF Values!TellingRejected
<1>. QED
  BY <1>4, <1>5, <1>6, <1>7, <1>8, <1>9, <1>11, <1>12, <1>13 DEF Working, Refused

LEMMA HistoryStays ==
  ASSUME NEW r \in 1..MaxChanges, Changing(r) \/ Working(r) \/ Refused(r),
         rejected \in BOOLEAN, overlapped \in BOOLEAN
  PROVE  rejected' \in BOOLEAN /\ overlapped' \in BOOLEAN /\ (rejected => rejected') /\ (overlapped => overlapped')
<1>1. CASE Changing(r)
  <2>1. overlapped' = (overlapped \/ ~Values!Idle) /\ rejected' = rejected
    BY <1>1 DEF Changing, Values!setVariableRequest, Values!setExpressionRequest, Values!setPcToLine, Values!Arrives
  <2>. QED
    BY <2>1, Zenon
<1>2. CASE Working(r)
  <2>1. overlapped' = overlapped /\ rejected' = rejected
    BY <1>2 DEF Working, Values!RegisterWritten, Values!MemoryWritten, Values!RegistersRead, Values!MemoryRead,
                Values!CallStackRead, Values!HasBeenChanged
  <2>. QED
    BY <2>1, Zenon
<1>3. CASE Refused(r)
  <2>1. overlapped' = overlapped /\ (rejected' = rejected \/ rejected' = TRUE)
    BY <1>3 DEF Refused, Values!WriteRejected, Values!ReadRejected, Values!TellingRejected, Values!GivesUp
  <2>. QED
    BY <2>1, Zenon
<1>. QED
  BY <1>1, <1>2, <1>3

LEMMA RegistersStep ==
  ASSUME changes \in Changes, rejected \/ RegistersKnown, NEW r \in 1..MaxChanges,
         Changing(r) \/ Working(r) \/ Refused(r), rejected => rejected'
  PROVE  changes' \in Changes /\ (rejected' \/ RegistersKnown')
<1>1. CASE Changing(r)
  <2>1. PICK what \in Values!Registers \cup {"memory", "expression", "toLine"}, stage \in {"write", "done"} :
          changes' = [changes EXCEPT ![r] = [what |-> what, at |-> stage]]
    BY <1>1 DEF Changing, Values!setVariableRequest, Values!setExpressionRequest, Values!setPcToLine
  <2>2. changes[r].at = "none" /\ UNCHANGED cache
    BY <1>1 DEF Changing, Values!setVariableRequest, Values!setExpressionRequest, Values!setPcToLine, Values!Arrives
  <2>3. changes' \in Changes
    BY <2>1 DEF Changes, Whats, Steps, Values!Registers
  <2>4. \A q \in 1..MaxChanges : q # r => changes'[q] = changes[q]
    BY <2>1 DEF Changes
  <2>5. RegistersKnown => RegistersKnown'
    BY <2>2, <2>4 DEF RegistersKnown, Values!Register, Values!Registers
  <2>. QED
    BY <2>3, <2>5
<1>2. CASE Working(r) \/ Refused(r)
  <2>1. PICK stage \in Steps :
           /\ Values!Goes(r, stage) \/ UNCHANGED changes
           /\ \/ cache' = Values!Registers
              \/ rejected' = TRUE
              \/ UNCHANGED <<cache, changes>>
              \/ Values!Goes(r, stage) /\ stage = "read" /\ Values!Register(r) \in Values!Registers
              \/ UNCHANGED cache /\ (changes[r].at = "read" => Values!Register(r) \notin Values!Registers)
    BY <1>2, RequestMoves
  <2>2. CASE UNCHANGED changes
    <3>1. cache' = Values!Registers \/ rejected' = TRUE \/ UNCHANGED cache \/ Values!Goes(r, stage)
      BY <2>1
    <3>2. RegistersKnown /\ UNCHANGED cache => RegistersKnown'
      BY <2>2 DEF RegistersKnown, Values!Register, Values!Registers
    <3>3. Values!Goes(r, stage) => changes[r].at = stage
      BY <2>2 DEF Values!Goes, Changes
    <3>4. changes[r].at = "read" /\ Values!Register(r) \in Values!Registers => RegistersKnown'
      BY <2>2 DEF RegistersKnown, Values!Register, Values!Registers
    <3>5. cache' = Values!Registers => RegistersKnown'
      BY DEF RegistersKnown, Values!Registers
    <3>. QED
      BY <2>1, <2>2, <3>2, <3>3, <3>4, <3>5
  <2>3. CASE Values!Goes(r, stage)
    <3>1. /\ changes' \in Changes
          /\ changes'[r].at = stage /\ changes'[r].what = changes[r].what
          /\ \A q \in 1..MaxChanges : q # r => changes'[q] = changes[q]
      BY <2>3, ChangeGoes
    <3>2. \A q \in 1..MaxChanges : Values!Register(q)' = Values!Register(q)
      BY <3>1 DEF Values!Register
    <3>3. cache' = Values!Registers => RegistersKnown'
      BY DEF RegistersKnown, Values!Registers
    <3>4. stage = "read" /\ Values!Register(r) \in Values!Registers => RegistersKnown'
      BY <3>1, <3>2 DEF RegistersKnown, Values!Registers
    <3>5. UNCHANGED cache /\ RegistersKnown /\ (changes[r].at = "read" => Values!Register(r) \notin Values!Registers)
            => RegistersKnown'
      BY <3>1, <3>2 DEF RegistersKnown, Values!Registers
    <3>6. UNCHANGED <<cache, changes>> /\ RegistersKnown => RegistersKnown'
      BY DEF RegistersKnown, Values!Register, Values!Registers
    <3>. QED
      BY <2>1, <3>1, <3>3, <3>4, <3>5, <3>6
  <2>. QED
    BY <2>1, <2>2, <2>3
<1>. QED
  BY <1>1, <1>2

LEMMA ValueInductive == MCSpec => []ChangesInv
<1>. DEFINE Inv == ChangesInv /\ rejected \in BOOLEAN /\ overlapped \in BOOLEAN
<1>1. Values!Init => Inv
  <2>. SUFFICES ASSUME Values!Init PROVE Inv
    OBVIOUS
  <2>1. \A r \in 1..MaxChanges : changes[r] = [what |-> "none", at |-> "none"]
    BY DEF Values!Init, Values!Requests
  <2>2. AllTold
    BY DEF Values!Init, AllTold
  <2>3. \A r \in 1..MaxChanges : ~Values!UnderWay(r)
    BY <2>1 DEF Values!UnderWay
  <2>4. changes \in Changes
    BY DEF Values!Init, Values!Requests, Whats, Steps, Changes
  <2>5. ValueInv
    BY <2>2, <2>3, <2>4 DEF ValueInv, OneChange
  <2>6. rejected \in BOOLEAN /\ overlapped \in BOOLEAN
    BY DEF Values!Init
  <2>. QED
    BY <2>2, <2>4, <2>5, <2>6 DEF ChangesInv, RegistersKnown, AllTold
<1>2. Inv /\ UNCHANGED valueVars => Inv'
  <2>1. ValueInv /\ UNCHANGED valueVars => ValueInv'
    BY DEF ValueInv, valueVars, OneChange, Values!Idle, Values!Requests, Values!UnderWay, AllTold, ChangeKnown,
           RegisterChange, MemoryChange, ShownBy, Values!Register, Changes
  <2>2. RegistersKnown /\ UNCHANGED valueVars => RegistersKnown'
    BY DEF RegistersKnown, valueVars, Values!Register, Values!Registers
  <2>. QED
    BY <2>1, <2>2 DEF ChangesInv, valueVars, Changes
<1>3. Inv /\ Values!Next => Inv'
  <2>. SUFFICES ASSUME Inv, NEW r \in 1..MaxChanges, Changing(r) \/ Working(r) \/ Refused(r)
                PROVE  Inv'
    BY DEF Values!Next, Values!Requests, Changing, Working, Refused
  <2>1. rejected' \in BOOLEAN /\ overlapped' \in BOOLEAN /\ (rejected => rejected') /\ (overlapped => overlapped')
    BY HistoryStays
  <2>2. changes' \in Changes /\ (rejected' \/ RegistersKnown')
    BY <2>1, RegistersStep DEF ChangesInv
  <2>3. rejected' \/ overlapped' \/ ValueInv'
    BY <2>1, ValueStep DEF ChangesInv
  <2>. QED
    BY <2>1, <2>2, <2>3 DEF ChangesInv
<1>4. MCInit => Inv
  BY <1>1 DEF MCInit
<1>5. Inv /\ [MCNext]_<<part, vars, lifeVars, runnerVars, treeVars, valueVars>> => Inv'
  <2>1. [MCNext]_<<part, vars, lifeVars, runnerVars, treeVars, valueVars>> => Values!Next \/ UNCHANGED valueVars
    BY DEF MCNext
  <2>. QED
    BY <1>2, <1>3, <2>1
<1>. QED
  BY <1>4, <1>5, PTL DEF MCSpec

LEMMA ValuesShown == ChangesInv => Values!ChangesAreTold
<1>. SUFFICES ASSUME ChangesInv, Values!Idle, ~rejected
              PROVE  cache = Values!Registers /\ (~overlapped => unshown = {} /\ callStack)
  BY DEF Values!ChangesAreTold
<1>1. cache = Values!Registers
  BY DEF ChangesInv, RegistersKnown, Values!Idle, Values!UnderWay, Values!Requests
<1>2. ASSUME ~overlapped PROVE AllTold
  BY <1>2 DEF ChangesInv, ValueInv
<1>. QED
  BY <1>1, <1>2 DEF AllTold

(* setVariableRequest, setExpressionRequest, setPcToLine: when none is     *)
(* under way and no call has failed the adapter knows the registers of the *)
(* emulator, and everybody who shows what was changed has been told,       *)
(* unless requests have overlapped.                                        *)
THEOREM ChangesTold == MCSpec => []Values!ChangesAreTold
<1>. QED
  BY ValuesShown, ValueInductive, PTL

------------------------------------------------------------------------------
(* The tree of the tests.  What is always so: whom the maps name, and the  *)
(* tests of each configuration.  As long as no watcher is left behind the  *)
(* suite that a folder shows is that of its one watcher, and a watcher     *)
(* that is not to be told has shown what the launch.json says.             *)

Watcher == [folder : Folders, disposed : BOOLEAN, fileExists : BOOLEAN, wsSuite : Nat]
Configuration == [folder : Folders, name : Names, read : Nat]
Suite == [folder : Folders, children : SUBSET Configuration]
LaunchFile == {Tree!Nothing, Tree!Bad} \cup {Tree!File(s) : s \in SUBSET Names}
ListFile == {Tree!Nothing} \cup {Tree!File(s) : s \in Listings}

TreeTypes ==
  /\ launch \in [Folders -> LaunchFile] /\ listing \in [Folders \X Names -> ListFile]
  /\ open \subseteq Folders /\ watchers \in Seq(Watcher) /\ launches \in Seq(Suite)
  /\ items \in [Folders -> Nat] /\ wsTsMap \in [Folders -> Nat] /\ wsFwMap \in [Folders -> Nat]
  /\ configs \subseteq Configuration /\ reads \in Nat

\* The children of a suite come from one reading of the launch.json.
OneReading ==
  \A k \in 1..Len(launches) :
    /\ launches[k].children \subseteq configs
    /\ \A c \in launches[k].children : c.folder = launches[k].folder
    /\ \A c, d \in launches[k].children : c.name = d.name => c = d

MapsKnown ==
  \A f \in Folders :
    /\ items[f] # 0 => items[f] \in 1..Len(launches) /\ launches[items[f]].folder = f
    /\ wsTsMap[f] # 0 => wsTsMap[f] \in 1..Len(launches) /\ launches[wsTsMap[f]].folder = f
    /\ wsFwMap[f] # 0 => /\ wsFwMap[f] \in 1..Len(watchers) /\ watchers[wsFwMap[f]].folder = f
                         /\ ~watchers[wsFwMap[f]].disposed
    /\ f \in open => wsFwMap[f] # 0

WatchersKnown ==
  \A w \in 1..Len(watchers) :
    /\ watchers[w].fileExists => /\ watchers[w].wsSuite \in 1..Len(launches)
                                 /\ launches[watchers[w].wsSuite].folder = watchers[w].folder
    /\ <<"launch", w>> \in untold => ~watchers[w].disposed

ConfigsRead ==
  /\ DOMAIN testsOf = configs /\ timers \subseteq configs
  /\ \A c \in configs : c \notin timers /\ <<"listing", c>> \notin untold =>
       testsOf[c] = Tree!TestsOf(listing[<<c.folder, c.name>>].says)

ShownOf(f) == IF items[f] = 0 THEN {} ELSE launches[items[f]].children

FolderShown(f) ==
  /\ f \notin open => wsTsMap[f] = 0 /\ ShownOf(f) = {}
  /\ f \in open /\ watchers[wsFwMap[f]].fileExists =>
       /\ wsTsMap[f] = watchers[wsFwMap[f]].wsSuite
       /\ items[f] = wsTsMap[f] \/ ShownOf(f) = {}
  /\ f \in open /\ ~watchers[wsFwMap[f]].fileExists => wsTsMap[f] = 0 /\ ShownOf(f) = {}
  /\ f \in open /\ <<"launch", wsFwMap[f]>> \notin untold =>
       /\ watchers[wsFwMap[f]].fileExists <=> Tree!Exists(f)
       /\ {c.name : c \in ShownOf(f)} = launch[f].says

FoldersShown == Tree!NoneLeftBehind => \A f \in Folders : FolderShown(f)

TreeInv == TreeTypes /\ OneReading /\ MapsKnown /\ WatchersKnown /\ ConfigsRead /\ FoldersShown

(* A launch.json is read for the suite l.                                  *)
NewOf(f) == IF launch[f] \in {Tree!Nothing, Tree!Bad} THEN {} ELSE Tree!NewConfigs(f)

LEMMA InitTree == Tree!Init => TreeInv
<1>. SUFFICES ASSUME Tree!Init PROVE TreeInv
  OBVIOUS
<1>1. TreeTypes
  <2>1. \A f \in Folders : launch[f] \in LaunchFile
    BY DEF Tree!Init, LaunchFile
  <2>2. launch \in [Folders -> LaunchFile]
    BY <2>1 DEF Tree!Init
  <2>3. listing \in [Folders \X Names -> ListFile]
    BY DEF Tree!Init, Tree!ListFiles, ListFile
  <2>. QED
    BY <2>2, <2>3 DEF Tree!Init, TreeTypes
<1>2. OneReading /\ MapsKnown /\ WatchersKnown /\ ConfigsRead
  BY DEF Tree!Init, OneReading, MapsKnown, WatchersKnown, ConfigsRead
<1>3. FoldersShown
  BY DEF Tree!Init, FoldersShown, FolderShown, ShownOf
<1>. QED
  BY <1>1, <1>2, <1>3 DEF TreeInv

(* What a launch.json says is what is made of it.                          *)
LEMMA NewOnes ==
  ASSUME TreeTypes, NEW f \in Folders
  PROVE  /\ NewOf(f) \subseteq Configuration
         /\ \A c \in NewOf(f) : c.folder = f
         /\ \A c, d \in NewOf(f) : c.name = d.name => c = d
         /\ {c.name : c \in NewOf(f)} = launch[f].says
<1>1. launch[f] \in LaunchFile /\ reads + 1 \in Nat
  BY DEF TreeTypes
<1>2. CASE launch[f] \in {Tree!Nothing, Tree!Bad}
  <2>1. launch[f].says = {}
    BY <1>2 DEF Tree!Nothing, Tree!Bad
  <2>2. NewOf(f) = {}
    BY <1>2 DEF NewOf
  <2>. QED
    BY <2>1, <2>2
<1>3. CASE launch[f] \notin {Tree!Nothing, Tree!Bad}
  <2>1. PICK s \in SUBSET Names : launch[f] = Tree!File(s)
    BY <1>1, <1>3 DEF LaunchFile
  <2>2. launch[f].says = s
    BY <2>1 DEF Tree!File
  <2>3. NewOf(f) = {[folder |-> f, name |-> n, read |-> reads + 1] : n \in s}
    BY <1>3, <2>2 DEF NewOf, Tree!NewConfigs
  <2>4. {c.name : c \in NewOf(f)} = s
    <3>1. \A c \in NewOf(f) : c.name \in s
      BY <2>3
    <3>2. ASSUME NEW n \in s PROVE \E c \in NewOf(f) : c.name = n
      <4>. DEFINE c == [folder |-> f, name |-> n, read |-> reads + 1]
      <4>1. c \in NewOf(f) /\ c.name = n
        BY <2>3
      <4>. QED
        BY <4>1
    <3>. QED
      BY <3>1, <3>2
  <2>. QED
    BY <1>1, <2>1, <2>2, <2>3, <2>4 DEF Configuration
<1>. QED
  BY <1>2, <1>3

LEMMA FileRead ==
  ASSUME TreeInv, NEW ls \in Seq(Suite), NEW l \in 1..Len(ls), NEW f \in Folders, ls[l].folder = f,
         Tree!fileChanged(ls, l)
  PROVE  /\ launches' \in Seq(Suite) /\ Len(launches') = Len(ls)
         /\ \A k \in 1..Len(ls) : k # l => launches'[k] = ls[k]
         /\ launches'[l].folder = f /\ launches'[l].children = NewOf(f)
         /\ items' \in [Folders -> Nat] /\ \A g \in Folders : g # f => items'[g] = items[g]
         /\ items'[f] = l \/ (NewOf(f) = {} /\ items'[f] \in {0, items[f]})
         /\ configs' = configs \cup NewOf(f) /\ reads' \in Nat
<1>1. ls[l] \in Suite /\ l \in Nat /\ items \in [Folders -> Nat] /\ reads \in Nat
  BY DEF TreeInv, TreeTypes
<1>2. NewOf(f) \subseteq Configuration
  BY NewOnes DEF TreeInv
<1>3. launches' = [ls EXCEPT ![l].children = NewOf(f)]
  BY DEF Tree!fileChanged, NewOf
<1>. DEFINE h == [ls[l] EXCEPT !.children = NewOf(f)]
<1>4. h \in Suite /\ h.folder = f /\ h.children = NewOf(f)
  BY <1>1, <1>2 DEF Suite
<1>5. launches' = [ls EXCEPT ![l] = h]
  BY <1>3
<1>. HIDE DEF h
<1>6. /\ launches' \in Seq(Suite) /\ Len(launches') = Len(ls)
      /\ \A k \in 1..Len(ls) : k # l => launches'[k] = ls[k]
      /\ launches'[l] = h
  BY <1>4, <1>5
<1>7. IF launch[f] \in {Tree!Nothing, Tree!Bad} THEN UNCHANGED <<items, configs, reads>>
      ELSE /\ items' = [items EXCEPT ![f] = IF NewOf(f) = {} THEN 0 ELSE l]
           /\ configs' = configs \cup NewOf(f) /\ reads' = reads + 1
  BY DEF Tree!fileChanged, NewOf, Tree!AddConfigs
<1>8. launch[f] \in {Tree!Nothing, Tree!Bad} => NewOf(f) = {}
  BY DEF NewOf
<1>9. configs' = configs \cup NewOf(f) /\ reads' \in Nat
  BY <1>1, <1>7, <1>8
<1>10. /\ items' \in [Folders -> Nat] /\ \A g \in Folders : g # f => items'[g] = items[g]
       /\ items'[f] = l \/ (NewOf(f) = {} /\ items'[f] \in {0, items[f]})
  <2>1. CASE launch[f] \in {Tree!Nothing, Tree!Bad}
    BY <1>1, <1>7, <1>8, <2>1
  <2>2. CASE launch[f] \notin {Tree!Nothing, Tree!Bad}
    <3>. DEFINE shown == IF NewOf(f) = {} THEN 0 ELSE l
    <3>1. items' = [items EXCEPT ![f] = shown]
      BY <1>7, <2>2
    <3>2. shown \in Nat /\ (shown = l \/ (NewOf(f) = {} /\ shown = 0))
      OBVIOUS
    <3>. HIDE DEF shown
    <3>3. /\ items' \in [Folders -> Nat] /\ items'[f] = shown
          /\ \A g \in Folders : g # f => items'[g] = items[g]
      BY <1>1, <3>1, <3>2
    <3>. QED
      BY <3>2, <3>3
  <2>. QED
    BY <2>1, <2>2
<1>. QED
  BY <1>4, <1>6, <1>9, <1>10

(* The tests of the configurations, when a launch.json is read.            *)
LEMMA ConfigsMade ==
  ASSUME TreeInv, NEW ls, NEW l, NEW f \in Folders, ls[l].folder = f, Tree!fileChanged(ls, l),
         UNCHANGED listing, \A c \in configs : <<"listing", c>> \in untold => <<"listing", c>> \in untold'
  PROVE  ConfigsRead'
<1>1. CASE launch[f] \in {Tree!Nothing, Tree!Bad}
  BY <1>1 DEF Tree!fileChanged, TreeInv, ConfigsRead
<1>2. CASE launch[f] \notin {Tree!Nothing, Tree!Bad}
  <2>. DEFINE new == Tree!NewConfigs(f)
  <2>1. /\ configs' = configs \cup new
        /\ testsOf' = [c \in configs \cup new |-> IF c \in new THEN {} ELSE testsOf[c]]
        /\ timers' = timers \cup {c \in new : listing[<<c.folder, c.name>>] # Tree!Nothing}
    BY <1>2 DEF Tree!fileChanged, Tree!AddConfigs
  <2>. HIDE DEF new
  <2>2. Tree!TestsOf(Tree!Nothing.says) = {}
    BY DEF Tree!TestsOf, Tree!Nothing
  <2>3. ASSUME NEW c \in configs \cup new, c \notin timers', <<"listing", c>> \notin untold'
        PROVE  testsOf'[c] = Tree!TestsOf(listing[<<c.folder, c.name>>].says)
    <3>1. CASE c \in new
      BY <2>1, <2>2, <2>3, <3>1
    <3>2. CASE c \notin new
      <4>1. c \in configs /\ c \notin timers /\ <<"listing", c>> \notin untold
        BY <2>1, <2>3, <3>2
      <4>. QED
        BY <2>1, <3>2, <4>1 DEF TreeInv, ConfigsRead
    <3>. QED
      BY <3>1, <3>2
  <2>4. DOMAIN testsOf' = configs' /\ timers' \subseteq configs'
    BY <2>1 DEF TreeInv, ConfigsRead
  <2>. QED
    BY <2>1, <2>3, <2>4 DEF ConfigsRead, Tree!TestsOf
<1>. QED
  BY <1>1, <1>2

\* ls: the suites, perhaps with a new one, l, at the end.
Grown(ls, l) ==
  /\ ls \in Seq(Suite) /\ l \in 1..Len(ls) /\ Len(launches) <= Len(ls)
  /\ \A k \in 1..Len(launches) : ls[k] = launches[k]
  /\ \A k \in 1..Len(ls) : k # l => k <= Len(launches)

\* What it is to have read the launch.json of the folder f for the suite l of n suites.
ReadFor(f, l, n) ==
  /\ launches' \in Seq(Suite) /\ Len(launches') = n /\ Len(launches) <= n /\ l \in 1..n
  /\ \A k \in 1..Len(launches) : launches'[k].folder = launches[k].folder
  /\ launches'[l].folder = f
  /\ OneReading' /\ items' \in [Folders -> Nat] /\ configs' \subseteq Configuration /\ reads' \in Nat
  /\ \A g \in Folders : items'[g] # 0 => items'[g] \in 1..n /\ launches'[items'[g]].folder = g
  /\ \A g \in Folders : g # f => items'[g] = items[g] /\ ShownOf(g)' = ShownOf(g)
  /\ items[f] = l \/ ShownOf(f) = {} =>
       /\ items'[f] = l \/ ShownOf(f)' = {}
       /\ {c.name : c \in ShownOf(f)'} = launch[f].says

LEMMA SuitesRead ==
  ASSUME TreeInv, NEW ls, NEW l, NEW f \in Folders, Grown(ls, l), ls[l].folder = f, Tree!fileChanged(ls, l)
  PROVE  ReadFor(f, l, Len(ls))
<1>0. /\ ls \in Seq(Suite) /\ l \in 1..Len(ls) /\ Len(launches) <= Len(ls)
      /\ \A k \in 1..Len(launches) : ls[k] = launches[k]
      /\ \A k \in 1..Len(ls) : k # l => k <= Len(launches)
      /\ launches \in Seq(Suite)
  BY DEF Grown, TreeInv, TreeTypes
<1>1. /\ launches' \in Seq(Suite) /\ Len(launches') = Len(ls)
      /\ \A k \in 1..Len(ls) : k # l => launches'[k] = ls[k]
      /\ launches'[l].folder = f /\ launches'[l].children = NewOf(f)
      /\ items' \in [Folders -> Nat] /\ \A g \in Folders : g # f => items'[g] = items[g]
      /\ items'[f] = l \/ (NewOf(f) = {} /\ items'[f] \in {0, items[f]})
      /\ configs' = configs \cup NewOf(f) /\ reads' \in Nat
  BY <1>0, FileRead
<1>2. /\ NewOf(f) \subseteq Configuration
      /\ \A c \in NewOf(f) : c.folder = f
      /\ \A c, d \in NewOf(f) : c.name = d.name => c = d
      /\ {c.name : c \in NewOf(f)} = launch[f].says
  BY NewOnes DEF TreeInv
<1>3. \A k \in 1..Len(ls) : k # l => k \in 1..Len(launches) /\ launches'[k] = launches[k]
  BY <1>0, <1>1
<1>4. \A k \in 1..Len(launches) : launches'[k].folder = launches[k].folder
  BY <1>0, <1>1, <1>3
<1>5. OneReading'
  <2>. SUFFICES ASSUME NEW k \in 1..Len(ls)
                PROVE  /\ launches'[k].children \subseteq configs'
                       /\ \A c \in launches'[k].children : c.folder = launches'[k].folder
                       /\ \A c, d \in launches'[k].children : c.name = d.name => c = d
    BY <1>1 DEF OneReading
  <2>1. CASE k = l
    BY <1>1, <1>2, <2>1
  <2>2. CASE k # l
    BY <1>1, <1>3, <2>2 DEF TreeInv, OneReading
  <2>. QED
    BY <2>1, <2>2
<1>6. \A g \in Folders : items[g] # 0 => items[g] \in 1..Len(launches) /\ launches[items[g]].folder = g
  BY DEF TreeInv, MapsKnown
<1>7. \A g \in Folders : items'[g] # 0 => items'[g] \in 1..Len(ls) /\ launches'[items'[g]].folder = g
  BY <1>0, <1>1, <1>4, <1>6
<1>8. \A g \in Folders : g # f => ShownOf(g)' = ShownOf(g)
  <2>. SUFFICES ASSUME NEW g \in Folders, g # f PROVE ShownOf(g)' = ShownOf(g)
    OBVIOUS
  <2>1. items'[g] = items[g]
    BY <1>1
  <2>2. items[g] # 0 => items[g] \in 1..Len(ls) /\ items[g] # l
    BY <1>0, <1>1, <1>6, <1>4
  <2>. QED
    BY <1>0, <1>1, <1>6, <2>1, <2>2 DEF ShownOf
<1>9. ASSUME items[f] = l \/ ShownOf(f) = {} PROVE ShownOf(f)' = NewOf(f) /\ (items'[f] = l \/ ShownOf(f)' = {})
  <2>1. CASE items'[f] = l
    <3>1. l # 0
      BY <1>0
    <3>2. ShownOf(f)' = NewOf(f)
      BY <1>1, <2>1, <3>1 DEF ShownOf
    <3>. QED
      BY <2>1, <3>2
  <2>2. CASE items'[f] # l /\ items'[f] = 0
    <3>1. NewOf(f) = {}
      BY <1>1, <2>2
    <3>2. ShownOf(f)' = {}
      BY <2>2 DEF ShownOf
    <3>. QED
      BY <3>1, <3>2
  <2>3. CASE items'[f] # l /\ items'[f] # 0
    <3>1. NewOf(f) = {} /\ items'[f] = items[f] /\ ShownOf(f) = {}
      BY <1>1, <1>9, <2>3
    <3>2. items[f] \in 1..Len(launches) /\ launches'[items[f]] = launches[items[f]]
      BY <1>0, <1>1, <1>6, <2>3, <3>1
    <3>3. ShownOf(f)' = {}
      BY <3>1, <3>2 DEF ShownOf
    <3>. QED
      BY <3>1, <3>3
  <2>. QED
    BY <2>1, <2>2, <2>3
<1>. QED
  BY <1>0, <1>1, <1>2, <1>4, <1>5, <1>7, <1>8, <1>9 DEF TreeInv, TreeTypes, ReadFor

\* Created: the new suite is the last one.
LEMMA SuiteMade ==
  ASSUME TreeInv, NEW f \in Folders, Tree!Created(f)
  PROVE  /\ ReadFor(f, Len(launches) + 1, Len(launches) + 1)
         /\ wsTsMap' = [wsTsMap EXCEPT ![f] = Len(launches) + 1]
         /\ UNCHANGED listing /\ (\A c \in configs : <<"listing", c>> \in untold => <<"listing", c>> \in untold')
              => ConfigsRead'
<1>. DEFINE ls == Append(launches, [folder |-> f, children |-> {}])
            l  == Len(launches) + 1
<1>1. launches \in Seq(Suite) /\ [folder |-> f, children |-> {}] \in Suite
  BY DEF TreeInv, TreeTypes, Suite
<1>2. Grown(ls, l) /\ Len(ls) = l /\ ls[l].folder = f
  BY <1>1 DEF Grown
<1>3. Tree!fileChanged(ls, l) /\ wsTsMap' = [wsTsMap EXCEPT ![f] = l]
  BY DEF Tree!Created
<1>. HIDE DEF ls
<1>4. UNCHANGED listing /\ (\A c \in configs : <<"listing", c>> \in untold => <<"listing", c>> \in untold')
        => ConfigsRead'
  BY <1>2, <1>3, ConfigsMade
<1>5. ReadFor(f, l, l)
  <2>. HIDE DEF l
  <2>. QED
    BY <1>2, <1>3, SuitesRead
<1>. QED
  BY <1>3, <1>4, <1>5

(* What a step leaves alone.                                               *)
LEMMA OthersShown ==
  ASSUME NEW g \in Folders, FolderShown(g),
         g \in open' <=> g \in open, ShownOf(g)' = ShownOf(g), launch'[g] = launch[g],
         wsTsMap'[g] = wsTsMap[g], items'[g] = items[g], wsFwMap'[g] = wsFwMap[g],
         g \in open => /\ watchers'[wsFwMap[g]] = watchers[wsFwMap[g]]
                       /\ <<"launch", wsFwMap[g]>> \notin untold' => <<"launch", wsFwMap[g]>> \notin untold
  PROVE  FolderShown(g)'
BY DEF FolderShown, Tree!Exists

\* A folder is added: its watcher is the last one, and it has a suite if the launch.json is there.
LEMMA FolderAdded ==
  ASSUME TreeInv, NEW f \in Folders, Tree!addWorkspaces(f)
  PROVE  TreeInv'
<1>. DEFINE w  == Len(watchers) + 1
            nw == [folder |-> f, disposed |-> FALSE, fileExists |-> Tree!Exists(f),
                   wsSuite |-> IF Tree!Exists(f) THEN Len(launches) + 1 ELSE 0]
<1>1. /\ f \notin open /\ open' = open \cup {f} /\ UNCHANGED <<launch, listing, untold>>
      /\ watchers' = Append(watchers, nw) /\ wsFwMap' = [wsFwMap EXCEPT ![f] = w]
  BY DEF Tree!addWorkspaces, Tree!files
<1>2. /\ watchers \in Seq(Watcher) /\ launches \in Seq(Suite) /\ nw \in Watcher /\ Tree!Exists(f) \in BOOLEAN
      /\ wsFwMap \in [Folders -> Nat] /\ wsTsMap \in [Folders -> Nat]
      /\ Len(launches) \in Nat
  BY DEF TreeInv, TreeTypes, Watcher, Tree!Exists
<1>3. /\ watchers' \in Seq(Watcher) /\ Len(watchers') = w /\ watchers'[w] = nw /\ w \in Nat \ {0}
      /\ \A v \in 1..Len(watchers) : watchers'[v] = watchers[v]
      /\ wsFwMap' \in [Folders -> Nat] /\ wsFwMap'[f] = w /\ \A g \in Folders : g # f => wsFwMap'[g] = wsFwMap[g]
  BY <1>1, <1>2
<1>4. /\ nw.folder = f /\ ~nw.disposed /\ (nw.fileExists <=> Tree!Exists(f))
      /\ Tree!Exists(f) => nw.wsSuite = Len(launches) + 1
  OBVIOUS
<1>. HIDE DEF nw, w
<1>5. Tree!NoneLeftBehind' => Tree!NoneLeftBehind
  <2>. SUFFICES ASSUME Tree!NoneLeftBehind', NEW v \in 1..Len(watchers), ~watchers[v].disposed
                PROVE  watchers[v].folder \in open /\ wsFwMap[watchers[v].folder] = v
    BY <1>2 DEF Tree!NoneLeftBehind
  <2>1. v \in DOMAIN watchers' /\ watchers'[v] = watchers[v] /\ v # w
    BY <1>2, <1>3 DEF w
  <2>2. watchers[v].folder \in open' /\ wsFwMap'[watchers[v].folder] = v
    BY <2>1 DEF Tree!NoneLeftBehind
  <2>3. watchers[v].folder # f
    BY <1>3, <2>1, <2>2
  <2>. QED
    BY <1>1, <1>2, <1>3, <2>2, <2>3
\* what the suites are now
<1>6. /\ launches' \in Seq(Suite) /\ Len(launches) <= Len(launches')
      /\ \A k \in 1..Len(launches) : launches'[k].folder = launches[k].folder
      /\ Tree!Exists(f) => Len(launches') = Len(launches) + 1 /\ launches'[Len(launches) + 1].folder = f
      /\ OneReading' /\ items' \in [Folders -> Nat] /\ configs' \subseteq Configuration /\ reads' \in Nat
      /\ \A g \in Folders : items'[g] # 0 => items'[g] \in 1..Len(launches') /\ launches'[items'[g]].folder = g
      /\ \A g \in Folders : g # f => items'[g] = items[g] /\ ShownOf(g)' = ShownOf(g)
      /\ wsTsMap' = IF Tree!Exists(f) THEN [wsTsMap EXCEPT ![f] = Len(launches) + 1] ELSE wsTsMap
      /\ ConfigsRead'
      /\ Tree!Exists(f) /\ ShownOf(f) = {} =>
           /\ items'[f] = Len(launches) + 1 \/ ShownOf(f)' = {}
           /\ {c.name : c \in ShownOf(f)'} = launch[f].says
      /\ ~Tree!Exists(f) => ShownOf(f)' = ShownOf(f)
  <2>1. CASE Tree!Exists(f)
    <3>1. Tree!Created(f)
      BY <2>1 DEF Tree!addWorkspaces
    <3>. QED
      BY <1>1, <2>1, <3>1, SuiteMade DEF ReadFor
  <2>2. CASE ~Tree!Exists(f)
    <3>1. UNCHANGED <<launches, items, wsTsMap, configs, testsOf, timers, reads>>
      BY <2>2 DEF Tree!addWorkspaces, Tree!tree
    <3>. QED
      BY <1>1, <1>2, <2>2, <3>1 DEF TreeInv, TreeTypes, OneReading, MapsKnown, ConfigsRead, ShownOf
  <2>. QED
    BY <2>1, <2>2
<1>7. /\ wsTsMap' \in [Folders -> Nat] /\ \A g \in Folders : g # f => wsTsMap'[g] = wsTsMap[g]
      /\ wsTsMap'[f] = IF Tree!Exists(f) THEN Len(launches) + 1 ELSE wsTsMap[f]
  BY <1>2, <1>6
<1>8. TreeTypes'
  BY <1>1, <1>3, <1>6, <1>7 DEF TreeInv, TreeTypes
<1>9. MapsKnown'
  <2>. SUFFICES ASSUME NEW g \in Folders
                PROVE  /\ wsTsMap'[g] # 0 => wsTsMap'[g] \in 1..Len(launches') /\ launches'[wsTsMap'[g]].folder = g
                       /\ wsFwMap'[g] # 0 => /\ wsFwMap'[g] \in 1..Len(watchers') /\ watchers'[wsFwMap'[g]].folder = g
                                             /\ ~watchers'[wsFwMap'[g]].disposed
                       /\ g \in open' => wsFwMap'[g] # 0
    BY <1>6 DEF MapsKnown
  <2>1. /\ wsTsMap[g] # 0 => wsTsMap[g] \in 1..Len(launches) /\ launches[wsTsMap[g]].folder = g
        /\ wsFwMap[g] # 0 => /\ wsFwMap[g] \in 1..Len(watchers) /\ watchers[wsFwMap[g]].folder = g
                             /\ ~watchers[wsFwMap[g]].disposed
        /\ g \in open => wsFwMap[g] # 0
    BY DEF TreeInv, MapsKnown
  <2>2. wsTsMap'[g] # 0 => wsTsMap'[g] \in 1..Len(launches') /\ launches'[wsTsMap'[g]].folder = g
    BY <1>2, <1>6, <1>7, <2>1
  <2>3. CASE g = f
    BY <1>3, <1>4, <2>2, <2>3
  <2>4. CASE g # f
    BY <1>1, <1>2, <1>3, <2>1, <2>2, <2>4 DEF w
  <2>. QED
    BY <2>3, <2>4
<1>10. WatchersKnown'
  <2>. SUFFICES ASSUME NEW v \in 1..w
                PROVE  /\ watchers'[v].fileExists => /\ watchers'[v].wsSuite \in 1..Len(launches')
                                                     /\ launches'[watchers'[v].wsSuite].folder = watchers'[v].folder
                       /\ <<"launch", v>> \in untold => ~watchers'[v].disposed
    BY <1>1, <1>3 DEF WatchersKnown
  <2>1. CASE v = w
    BY <1>2, <1>3, <1>4, <1>6, <2>1
  <2>2. CASE v # w
    <3>1. v \in 1..Len(watchers) /\ watchers'[v] = watchers[v]
      BY <1>2, <1>3, <2>2 DEF w
    <3>2. /\ watchers[v].fileExists => /\ watchers[v].wsSuite \in 1..Len(launches)
                                       /\ launches[watchers[v].wsSuite].folder = watchers[v].folder
          /\ <<"launch", v>> \in untold => ~watchers[v].disposed
      BY <3>1 DEF TreeInv, WatchersKnown
    <3>. QED
      BY <1>2, <1>6, <3>1, <3>2
  <2>. QED
    BY <2>1, <2>2
<1>11. FoldersShown'
  <2>. SUFFICES ASSUME Tree!NoneLeftBehind, NEW g \in Folders PROVE FolderShown(g)'
    BY <1>5 DEF FoldersShown
  <2>1. FolderShown(g) /\ (g \in open => wsFwMap[g] \in 1..Len(watchers))
    BY DEF TreeInv, FoldersShown, MapsKnown
  <2>2. CASE g = f
    <3>1. wsTsMap[f] = 0 /\ ShownOf(f) = {} /\ f \in open'
      BY <1>1, <2>1, <2>2 DEF FolderShown
    <3>2. ~Tree!Exists(f) => launch[f].says = {}
      BY DEF Tree!Exists, Tree!Nothing
    <3>3. Tree!Exists(f)' <=> Tree!Exists(f)
      BY <1>1 DEF Tree!Exists
    <3>4. /\ watchers'[wsFwMap'[f]].fileExists <=> Tree!Exists(f)
          /\ Tree!Exists(f) => wsTsMap'[f] = watchers'[wsFwMap'[f]].wsSuite /\ (items'[f] = wsTsMap'[f] \/ ShownOf(f)' = {})
          /\ ~Tree!Exists(f) => wsTsMap'[f] = 0 /\ ShownOf(f)' = {}
          /\ {c.name : c \in ShownOf(f)'} = launch'[f].says
      BY <1>1, <1>3, <1>4, <1>6, <1>7, <3>1, <3>2
    <3>. QED
      BY <2>2, <3>1, <3>3, <3>4 DEF FolderShown
  <2>3. CASE g # f
    BY <1>1, <1>3, <1>6, <1>7, <2>1, <2>3, OthersShown
  <2>. QED
    BY <2>2, <2>3
<1>. QED
  BY <1>6, <1>8, <1>9, <1>10, <1>11 DEF TreeInv

\* A folder without a suite leaves its watcher behind.
LEMMA FolderLeftBehind ==
  ASSUME TreeInv, NEW f \in Folders, Tree!RemoveWorkspace(f), wsTsMap[f] = 0
  PROVE  TreeInv'
<1>1. /\ f \in open /\ open' = open \ {f}
      /\ UNCHANGED <<watchers, launches, wsTsMap, wsFwMap, untold, launch, listing, items, configs, testsOf, timers, reads>>
  BY DEF Tree!RemoveWorkspace, Tree!files
<1>2. ~Tree!NoneLeftBehind'
  <2>1. wsFwMap[f] \in DOMAIN watchers /\ watchers[wsFwMap[f]].folder = f /\ ~watchers[wsFwMap[f]].disposed
    BY <1>1 DEF TreeInv, TreeTypes, MapsKnown
  <2>. QED
    BY <1>1, <2>1 DEF Tree!NoneLeftBehind
<1>. QED
  BY <1>1, <1>2 DEF TreeInv, TreeTypes, OneReading, MapsKnown, WatchersKnown, ConfigsRead, FoldersShown

LEMMA FolderRemoved ==
  ASSUME TreeInv, NEW f \in Folders, Tree!RemoveWorkspace(f), wsTsMap[f] # 0
  PROVE  TreeInv'
<1>. DEFINE w == wsFwMap[f]
            l == wsTsMap[f]
            nw == [watchers[w] EXCEPT !.disposed = TRUE]
            nl == [launches[l] EXCEPT !.children = {}]
<1>1. /\ f \in open /\ open' = open \ {f} /\ untold' = untold \ {<<"launch", w>>}
      /\ launches' = [launches EXCEPT ![l] = nl] /\ watchers' = [watchers EXCEPT ![w] = nw]
      /\ wsTsMap' = [wsTsMap EXCEPT ![f] = 0] /\ wsFwMap' = [wsFwMap EXCEPT ![f] = 0]
      /\ UNCHANGED <<launch, listing, items, configs, testsOf, timers, reads>>
  BY DEF Tree!RemoveWorkspace, Tree!files
<1>2. /\ watchers \in Seq(Watcher) /\ launches \in Seq(Suite) /\ items \in [Folders -> Nat]
      /\ wsFwMap \in [Folders -> Nat] /\ wsTsMap \in [Folders -> Nat]
  BY DEF TreeInv, TreeTypes
<1>3. /\ l \in 1..Len(launches) /\ launches[l].folder = f /\ w \in 1..Len(watchers) /\ watchers[w].folder = f
      /\ launches[l] \in Suite /\ watchers[w] \in Watcher
  BY <1>1, <1>2 DEF TreeInv, MapsKnown
<1>4. /\ nw \in Watcher /\ nw.folder = f /\ nw.disposed /\ nw.fileExists = watchers[w].fileExists
      /\ nw.wsSuite = watchers[w].wsSuite
      /\ nl \in Suite /\ nl.folder = f /\ nl.children = {}
  BY <1>3 DEF Watcher, Suite
<1>. HIDE DEF nw, nl
<1>5. /\ launches' \in Seq(Suite) /\ Len(launches') = Len(launches) /\ launches'[l] = nl
      /\ \A k \in 1..Len(launches) : k # l => launches'[k] = launches[k]
      /\ watchers' \in Seq(Watcher) /\ Len(watchers') = Len(watchers) /\ watchers'[w] = nw
      /\ \A v \in 1..Len(watchers) : v # w => watchers'[v] = watchers[v]
      /\ wsTsMap' \in [Folders -> Nat] /\ wsTsMap'[f] = 0 /\ \A g \in Folders : g # f => wsTsMap'[g] = wsTsMap[g]
      /\ wsFwMap' \in [Folders -> Nat] /\ wsFwMap'[f] = 0 /\ \A g \in Folders : g # f => wsFwMap'[g] = wsFwMap[g]
  BY <1>1, <1>2, <1>3, <1>4
<1>6. \A k \in 1..Len(launches) : launches'[k].folder = launches[k].folder
  BY <1>3, <1>4, <1>5
<1>7. \A v \in 1..Len(watchers) : /\ watchers'[v].folder = watchers[v].folder
                                  /\ watchers'[v].fileExists = watchers[v].fileExists
                                  /\ watchers'[v].wsSuite = watchers[v].wsSuite
  BY <1>3, <1>4, <1>5
<1>8. \A g \in Folders :
        /\ items[g] # 0 => items[g] \in 1..Len(launches) /\ launches[items[g]].folder = g
        /\ wsTsMap[g] # 0 => wsTsMap[g] \in 1..Len(launches) /\ launches[wsTsMap[g]].folder = g
        /\ wsFwMap[g] # 0 => /\ wsFwMap[g] \in 1..Len(watchers) /\ watchers[wsFwMap[g]].folder = g
                             /\ ~watchers[wsFwMap[g]].disposed
        /\ g \in open => wsFwMap[g] # 0
  BY DEF TreeInv, MapsKnown
<1>. HIDE DEF w, l
<1>9. Tree!NoneLeftBehind' => Tree!NoneLeftBehind
  <2>. SUFFICES ASSUME Tree!NoneLeftBehind', NEW v \in 1..Len(watchers), ~watchers[v].disposed
                PROVE  watchers[v].folder \in open /\ wsFwMap[watchers[v].folder] = v
    BY <1>2 DEF Tree!NoneLeftBehind
  <2>1. CASE v = w
    BY <1>1, <1>3, <2>1 DEF w
  <2>2. CASE v # w
    <3>1. v \in DOMAIN watchers' /\ watchers'[v] = watchers[v]
      BY <1>5, <2>2
    <3>2. watchers[v].folder \in open' /\ wsFwMap'[watchers[v].folder] = v
      BY <3>1 DEF Tree!NoneLeftBehind
    <3>3. watchers[v].folder \in open /\ watchers[v].folder \in Folders /\ watchers[v].folder # f
      BY <1>1, <3>2 DEF TreeInv, TreeTypes
    <3>. QED
      BY <1>5, <3>2, <3>3
  <2>. QED
    BY <2>1, <2>2
<1>10. TreeTypes'
  BY <1>1, <1>5 DEF TreeInv, TreeTypes
<1>11. OneReading'
  <2>. SUFFICES ASSUME NEW k \in 1..Len(launches)
                PROVE  /\ launches'[k].children \subseteq configs
                       /\ \A c \in launches'[k].children : c.folder = launches'[k].folder
                       /\ \A c, d \in launches'[k].children : c.name = d.name => c = d
    BY <1>1, <1>5 DEF OneReading
  <2>1. CASE k = l
    BY <1>4, <1>5, <2>1
  <2>2. CASE k # l
    BY <1>5, <2>2 DEF TreeInv, OneReading
  <2>. QED
    BY <2>1, <2>2
<1>12. MapsKnown'
  <2>. SUFFICES ASSUME NEW g \in Folders
                PROVE  /\ items[g] # 0 => items[g] \in 1..Len(launches') /\ launches'[items[g]].folder = g
                       /\ wsTsMap'[g] # 0 => wsTsMap'[g] \in 1..Len(launches') /\ launches'[wsTsMap'[g]].folder = g
                       /\ wsFwMap'[g] # 0 => /\ wsFwMap'[g] \in 1..Len(watchers') /\ watchers'[wsFwMap'[g]].folder = g
                                             /\ ~watchers'[wsFwMap'[g]].disposed
                       /\ g \in open' => wsFwMap'[g] # 0
    BY <1>1 DEF MapsKnown
  <2>1. CASE g = f
    BY <1>1, <1>5, <1>6, <1>8, <2>1
  <2>2. CASE g # f
    <3>1. wsFwMap[g] # 0 => wsFwMap[g] # w
      BY <1>3, <1>8, <2>2
    <3>. QED
      BY <1>1, <1>5, <1>6, <1>8, <2>2, <3>1
  <2>. QED
    BY <2>1, <2>2
<1>13. WatchersKnown'
  <2>. SUFFICES ASSUME NEW v \in 1..Len(watchers)
                PROVE  /\ watchers'[v].fileExists => /\ watchers'[v].wsSuite \in 1..Len(launches')
                                                     /\ launches'[watchers'[v].wsSuite].folder = watchers'[v].folder
                       /\ <<"launch", v>> \in untold' => ~watchers'[v].disposed
    BY <1>5 DEF WatchersKnown
  <2>1. /\ watchers[v].fileExists => /\ watchers[v].wsSuite \in 1..Len(launches)
                                     /\ launches[watchers[v].wsSuite].folder = watchers[v].folder
        /\ <<"launch", v>> \in untold => ~watchers[v].disposed
    BY DEF TreeInv, WatchersKnown
  <2>2. <<"launch", v>> \in untold' => v # w /\ <<"launch", v>> \in untold
    BY <1>1
  <2>. QED
    BY <1>5, <1>6, <1>7, <2>1, <2>2
<1>14. ConfigsRead'
  <2>1. \A c : <<"listing", c>> \notin untold' => <<"listing", c>> \notin untold
    BY <1>1
  <2>. QED
    BY <1>1, <2>1 DEF TreeInv, ConfigsRead, Tree!TestsOf
<1>15. FoldersShown'
  <2>. SUFFICES ASSUME Tree!NoneLeftBehind, NEW g \in Folders PROVE FolderShown(g)'
    BY <1>9 DEF FoldersShown
  <2>1. FolderShown(g)
    BY DEF TreeInv, FoldersShown
  <2>2. CASE g = f
    <3>1. items[f] = l \/ ShownOf(f) = {}
      BY <1>1, <1>3, <2>1, <2>2 DEF FolderShown, l
    <3>2. ShownOf(f)' = {}
      <4>1. CASE items[f] = l
        BY <1>1, <1>3, <1>4, <1>5, <4>1 DEF ShownOf
      <4>2. CASE items[f] # l
        BY <1>1, <1>5, <1>8, <3>1, <4>2 DEF ShownOf
      <4>. QED
        BY <4>1, <4>2
    <3>. QED
      BY <1>1, <1>5, <2>2, <3>2 DEF FolderShown
  <2>3. CASE g # f
    <3>1. ShownOf(g)' = ShownOf(g)
      <4>1. items[g] # 0 => items[g] # l
        BY <1>3, <1>8, <2>3
      <4>. QED
        BY <1>1, <1>5, <1>8, <4>1 DEF ShownOf
    <3>2. g \in open => wsFwMap[g] \in 1..Len(watchers) /\ wsFwMap[g] # w
      BY <1>3, <1>8, <2>3
    <3>. QED
      BY <1>1, <1>5, <2>1, <2>3, <3>1, <3>2, OthersShown
  <2>. QED
    BY <2>2, <2>3
<1>. QED
  BY <1>10, <1>11, <1>12, <1>13, <1>14, <1>15 DEF TreeInv

(* The files change.                                                       *)
LEMMA LaunchEdited ==
  ASSUME TreeInv, NEW f \in Folders, NEW content \in LaunchFile, Tree!EditLaunch(f, content)
  PROVE  TreeInv'
<1>1. /\ launch' = [launch EXCEPT ![f] = content]
      /\ untold' = untold \cup {<<"launch", w>> : w \in {v \in DOMAIN watchers : watchers[v].folder = f
                                                                               /\ ~watchers[v].disposed}}
      /\ UNCHANGED <<listing, open, watchers, wsTsMap, wsFwMap, launches, items, configs, testsOf, timers, reads>>
  BY DEF Tree!EditLaunch, Tree!tree
<1>2. launch' \in [Folders -> LaunchFile] /\ \A g \in Folders : g # f => launch'[g] = launch[g]
  BY <1>1 DEF TreeInv, TreeTypes
<1>3. TreeTypes' /\ OneReading' /\ MapsKnown'
  BY <1>1, <1>2 DEF TreeInv, TreeTypes, OneReading, MapsKnown
<1>4. WatchersKnown'
  BY <1>1 DEF TreeInv, WatchersKnown
<1>5. ConfigsRead'
  BY <1>1 DEF TreeInv, ConfigsRead, Tree!TestsOf
<1>6. FoldersShown'
  <2>. SUFFICES ASSUME Tree!NoneLeftBehind, NEW g \in Folders PROVE FolderShown(g)'
    BY <1>1 DEF FoldersShown, Tree!NoneLeftBehind
  <2>1. FolderShown(g)
    BY DEF TreeInv, FoldersShown
  <2>2. CASE g = f
    <3>1. g \in open => <<"launch", wsFwMap[g]>> \in untold'
      <4>1. g \in open => /\ wsFwMap[g] \in DOMAIN watchers /\ watchers[wsFwMap[g]].folder = g
                          /\ ~watchers[wsFwMap[g]].disposed
        BY DEF TreeInv, TreeTypes, MapsKnown
      <4>. QED
        BY <1>1, <2>2, <4>1
    <3>. QED
      BY <1>1, <2>1, <3>1 DEF FolderShown, ShownOf
  <2>3. CASE g # f
    <3>1. <<"launch", wsFwMap[g]>> \notin untold' => <<"launch", wsFwMap[g]>> \notin untold
      BY <1>1
    <3>2. ShownOf(g)' = ShownOf(g)
      BY <1>1 DEF ShownOf
    <3>. QED
      BY <1>1, <1>2, <2>1, <2>3, <3>1, <3>2, OthersShown
  <2>. QED
    BY <2>2, <2>3
<1>. QED
  BY <1>3, <1>4, <1>5, <1>6 DEF TreeInv

\* Only the tests of configurations, and who is to be told of list files.
LEMMA ListingStep ==
  ASSUME TreeInv, listing' \in [Folders \X Names -> ListFile], ConfigsRead',
         UNCHANGED <<launch, open, watchers, wsTsMap, wsFwMap, launches, items, configs, reads>>,
         \A w : <<"launch", w>> \in untold' <=> <<"launch", w>> \in untold
  PROVE  TreeInv'
<1>1. TreeTypes' /\ OneReading' /\ MapsKnown' /\ WatchersKnown'
  BY DEF TreeInv, TreeTypes, OneReading, MapsKnown, WatchersKnown
<1>2. FoldersShown'
  <2>. SUFFICES ASSUME Tree!NoneLeftBehind, NEW g \in Folders PROVE FolderShown(g)'
    BY DEF FoldersShown, Tree!NoneLeftBehind
  <2>1. FolderShown(g) /\ ShownOf(g)' = ShownOf(g)
    BY DEF TreeInv, FoldersShown, ShownOf
  <2>. QED
    BY <2>1, OthersShown
<1>. QED
  BY <1>1, <1>2 DEF TreeInv

LEMMA ListingEdited ==
  ASSUME TreeInv, NEW f \in Folders, NEW n \in Names, NEW content \in ListFile, Tree!EditListing(f, n, content)
  PROVE  TreeInv'
<1>1. /\ listing' = [listing EXCEPT ![<<f, n>>] = content]
      /\ untold' = untold \cup {<<"listing", c>> : c \in {d \in configs : d.folder = f /\ d.name = n}}
      /\ UNCHANGED <<launch, open, watchers, wsTsMap, wsFwMap, launches, items, configs, testsOf, timers, reads>>
  BY DEF Tree!EditListing, Tree!tree
<1>2. listing \in [Folders \X Names -> ListFile] /\ configs \subseteq Configuration
  BY DEF TreeInv, TreeTypes
<1>3. listing' \in [Folders \X Names -> ListFile]
  BY <1>1, <1>2
<1>4. ConfigsRead'
  <2>. SUFFICES ASSUME NEW c \in configs, c \notin timers, <<"listing", c>> \notin untold'
                PROVE  testsOf[c] = Tree!TestsOf(listing'[<<c.folder, c.name>>].says)
    BY <1>1 DEF TreeInv, ConfigsRead, Tree!TestsOf
  <2>1. <<"listing", c>> \notin untold /\ ~(c.folder = f /\ c.name = n)
    BY <1>1
  <2>2. <<c.folder, c.name>> \in Folders \X Names
    BY <1>2 DEF Configuration
  <2>3. listing'[<<c.folder, c.name>>] = listing[<<c.folder, c.name>>]
    BY <1>1, <1>2, <2>1, <2>2
  <2>. QED
    BY <2>1, <2>3 DEF TreeInv, ConfigsRead
<1>5. \A w : <<"launch", w>> \in untold' <=> <<"launch", w>> \in untold
  BY <1>1
<1>. QED
  BY <1>1, <1>3, <1>4, <1>5, ListingStep

LEMMA ListingRead ==
  ASSUME TreeInv, NEW c \in configs, Tree!ListingTold(c) \/ Tree!delayedFileChanged(c)
  PROVE  TreeInv'
<1>1. UNCHANGED <<launch, listing, open, watchers, wsTsMap, wsFwMap, launches, items, configs, reads>>
  BY DEF Tree!ListingTold, Tree!delayedFileChanged, Tree!files
<1>2. listing' \in [Folders \X Names -> ListFile]
  BY <1>1 DEF TreeInv, TreeTypes
<1>3. \A w : <<"launch", w>> \in untold' <=> <<"launch", w>> \in untold
  BY DEF Tree!ListingTold, Tree!delayedFileChanged
<1>4. ConfigsRead'
  <2>1. CASE Tree!ListingTold(c)
    BY <1>1, <2>1 DEF Tree!ListingTold, TreeInv, ConfigsRead, Tree!TestsOf
  <2>2. CASE Tree!delayedFileChanged(c)
    <3>1. /\ timers' = timers \ {c} /\ UNCHANGED untold
          /\ testsOf' = [testsOf EXCEPT ![c] = Tree!TestsOf(listing[<<c.folder, c.name>>].says)]
      BY <2>2 DEF Tree!delayedFileChanged
    <3>. QED
      BY <1>1, <3>1 DEF TreeInv, ConfigsRead, Tree!TestsOf
  <2>. QED
    BY <2>1, <2>2
<1>. QED
  BY <1>1, <1>2, <1>3, <1>4, ListingStep

(* The watcher of a launch.json is told.                                   *)
LEMMA LaunchWatched ==
  ASSUME TreeInv, NEW w \in DOMAIN watchers, Tree!LaunchTold(w)
  PROVE  TreeInv'
<1>0. PICK f \in Folders : f = watchers[w].folder
  <2>1. watchers \in Seq(Watcher) /\ w \in 1..Len(watchers)
    BY DEF TreeInv, TreeTypes
  <2>2. watchers[w] \in Watcher
    BY <2>1
  <2>. QED
    BY <2>2 DEF Watcher
<1>. DEFINE was == watchers[w].fileExists
            suite == IF ~was /\ Tree!Exists(f) THEN Len(launches) + 1 ELSE watchers[w].wsSuite
            nw == [watchers[w] EXCEPT !.fileExists = Tree!Exists(f), !.wsSuite = suite]
<1>1. /\ watchers \in Seq(Watcher) /\ launches \in Seq(Suite) /\ items \in [Folders -> Nat]
      /\ wsTsMap \in [Folders -> Nat] /\ Len(launches) \in Nat
  BY DEF TreeInv, TreeTypes
<1>2. w \in 1..Len(watchers) /\ watchers[w] \in Watcher /\ was \in BOOLEAN
  <2>1. w \in 1..Len(watchers) /\ watchers[w] \in Watcher
    BY <1>1
  <2>. QED
    BY <2>1 DEF Watcher
<1>3. /\ <<"launch", w>> \in untold /\ untold' = untold \ {<<"launch", w>>}
      /\ UNCHANGED <<launch, listing, open, wsFwMap>>
  BY DEF Tree!LaunchTold, Tree!files
<1>4. watchers' = [watchers EXCEPT ![w] = nw]
  BY <1>0 DEF Tree!LaunchTold
<1>5. /\ nw \in Watcher /\ nw.folder = f /\ nw.disposed = watchers[w].disposed
      /\ (nw.fileExists <=> Tree!Exists(f)) /\ nw.wsSuite = suite
  <2>1. Tree!Exists(f) \in BOOLEAN
    BY DEF Tree!Exists
  <2>2. watchers[w].wsSuite \in Nat
    BY <1>2 DEF Watcher
  <2>3. suite \in Nat
    BY <1>1, <2>2
  <2>. HIDE DEF suite, was
  <2>. QED
    BY <1>0, <1>2, <2>1, <2>3 DEF Watcher
<1>. HIDE DEF nw
<1>6. /\ watchers' \in Seq(Watcher) /\ Len(watchers') = Len(watchers) /\ watchers'[w] = nw
      /\ \A v \in 1..Len(watchers) : v # w => watchers'[v] = watchers[v]
  BY <1>1, <1>2, <1>4, <1>5
<1>7. \A v \in 1..Len(watchers) : /\ watchers'[v].folder = watchers[v].folder
                                  /\ watchers'[v].disposed = watchers[v].disposed
  BY <1>0, <1>2, <1>5, <1>6
<1>8. Tree!NoneLeftBehind' <=> Tree!NoneLeftBehind
  <2>1. DOMAIN watchers' = 1..Len(watchers) /\ DOMAIN watchers = 1..Len(watchers)
    BY <1>1, <1>6
  <2>. QED
    BY <1>3, <1>7, <2>1 DEF Tree!NoneLeftBehind
<1>9. \A g \in Folders :
        /\ items[g] # 0 => items[g] \in 1..Len(launches) /\ launches[items[g]].folder = g
        /\ wsTsMap[g] # 0 => wsTsMap[g] \in 1..Len(launches) /\ launches[wsTsMap[g]].folder = g
        /\ wsFwMap[g] # 0 => /\ wsFwMap[g] \in 1..Len(watchers) /\ watchers[wsFwMap[g]].folder = g
                             /\ ~watchers[wsFwMap[g]].disposed
        /\ g \in open => wsFwMap[g] # 0
  BY DEF TreeInv, MapsKnown
<1>10. was => watchers[w].wsSuite \in 1..Len(launches) /\ launches[watchers[w].wsSuite].folder = f
  BY <1>0, <1>2 DEF TreeInv, WatchersKnown
<1>11. \A c : <<"listing", c>> \in untold' <=> <<"listing", c>> \in untold
  BY <1>3
<1>12. Tree!NoneLeftBehind => f \in open /\ wsFwMap[f] = w
  BY <1>0, <1>2, <1>3 DEF TreeInv, WatchersKnown, Tree!NoneLeftBehind
\* what the suites are now
<1>. DEFINE Suites ==
       /\ launches' \in Seq(Suite) /\ Len(launches) <= Len(launches')
       /\ \A k \in 1..Len(launches) : launches'[k].folder = launches[k].folder
       /\ OneReading' /\ items' \in [Folders -> Nat] /\ configs' \subseteq Configuration /\ reads' \in Nat
       /\ \A g \in Folders : items'[g] # 0 => items'[g] \in 1..Len(launches') /\ launches'[items'[g]].folder = g
       /\ \A g \in Folders : g # f => items'[g] = items[g] /\ ShownOf(g)' = ShownOf(g)
       /\ wsTsMap' \in [Folders -> Nat] /\ \A g \in Folders : g # f => wsTsMap'[g] = wsTsMap[g]
       /\ wsTsMap'[f] # 0 => wsTsMap'[f] \in 1..Len(launches') /\ launches'[wsTsMap'[f]].folder = f
       /\ ConfigsRead'
       /\ Tree!Exists(f) => suite \in 1..Len(launches') /\ launches'[suite].folder = f
            Shown ==
       /\ Tree!Exists(f) => wsTsMap'[f] = suite /\ (items'[f] = suite \/ ShownOf(f)' = {})
       /\ ~Tree!Exists(f) => wsTsMap'[f] = 0 /\ ShownOf(f)' = {}
       /\ {c.name : c \in ShownOf(f)'} = launch[f].says
<1>13. FolderShown(f) /\ f \in open /\ wsFwMap[f] = w =>
         /\ was => wsTsMap[f] = watchers[w].wsSuite /\ (items[f] = watchers[w].wsSuite \/ ShownOf(f) = {})
         /\ ~was => wsTsMap[f] = 0 /\ ShownOf(f) = {}
  BY DEF FolderShown
<1>14. ~Tree!Exists(f) => launch[f].says = {}
  BY DEF Tree!Exists, Tree!Nothing
<1>15. Suites /\ (FolderShown(f) /\ f \in open /\ wsFwMap[f] = w => Shown)
  <2>1. CASE was /\ Tree!Exists(f)
    <3>1. Tree!fileChanged(launches, watchers[w].wsSuite) /\ UNCHANGED wsTsMap /\ suite = watchers[w].wsSuite
      BY <1>0, <2>1 DEF Tree!LaunchTold
    <3>2. Grown(launches, watchers[w].wsSuite)
      BY <1>1, <1>10, <2>1 DEF Grown
    <3>3. ReadFor(f, suite, Len(launches))
      BY <1>10, <2>1, <3>1, <3>2, SuitesRead
    <3>4. ConfigsRead'
      BY <1>3, <1>10, <1>11, <2>1, <3>1, ConfigsMade
    <3>. HIDE DEF suite
    <3>5. Suites
      BY <1>1, <1>9, <3>1, <3>3, <3>4 DEF ReadFor
    <3>6. FolderShown(f) /\ f \in open /\ wsFwMap[f] = w => Shown
      BY <1>13, <2>1, <3>1, <3>3 DEF ReadFor
    <3>. QED
      BY <3>5, <3>6
  <2>2. CASE ~was /\ Tree!Exists(f)
    <3>1. Tree!Created(f) /\ suite = Len(launches) + 1
      BY <1>0, <2>2 DEF Tree!LaunchTold
    <3>2. ReadFor(f, suite, suite) /\ wsTsMap' = [wsTsMap EXCEPT ![f] = suite] /\ ConfigsRead'
      BY <1>3, <1>11, <3>1, SuiteMade
    <3>. HIDE DEF suite
    <3>3. /\ suite \in Nat /\ wsTsMap' \in [Folders -> Nat] /\ wsTsMap'[f] = suite
          /\ \A g \in Folders : g # f => wsTsMap'[g] = wsTsMap[g]
      BY <1>1, <3>1, <3>2
    <3>4. Suites
      BY <1>1, <3>1, <3>2, <3>3 DEF ReadFor
    <3>5. FolderShown(f) /\ f \in open /\ wsFwMap[f] = w => Shown
      BY <1>13, <2>2, <3>2, <3>3 DEF ReadFor
    <3>. QED
      BY <3>4, <3>5
  <2>3. CASE was /\ ~Tree!Exists(f)
    <3>1. /\ items' = [items EXCEPT ![f] = 0] /\ wsTsMap' = [wsTsMap EXCEPT ![f] = 0]
          /\ UNCHANGED <<launches, configs, testsOf, timers, reads>>
      BY <1>0, <2>3 DEF Tree!LaunchTold
    <3>2. /\ items' \in [Folders -> Nat] /\ items'[f] = 0 /\ \A g \in Folders : g # f => items'[g] = items[g]
          /\ wsTsMap' \in [Folders -> Nat] /\ wsTsMap'[f] = 0 /\ \A g \in Folders : g # f => wsTsMap'[g] = wsTsMap[g]
      BY <1>1, <3>1
    <3>3. ShownOf(f)' = {} /\ \A g \in Folders : g # f => ShownOf(g)' = ShownOf(g)
      BY <3>1, <3>2 DEF ShownOf
    <3>4. OneReading' /\ ConfigsRead' /\ configs' \subseteq Configuration /\ reads' \in Nat
      BY <1>3, <1>11, <3>1 DEF TreeInv, TreeTypes, OneReading, ConfigsRead, Tree!TestsOf
    <3>. QED
      BY <1>1, <1>9, <1>14, <2>3, <3>1, <3>2, <3>3, <3>4
  <2>4. CASE ~was /\ ~Tree!Exists(f)
    <3>1. UNCHANGED <<launches, items, wsTsMap, configs, testsOf, timers, reads>>
      BY <1>0, <2>4 DEF Tree!LaunchTold, Tree!tree
    <3>2. \A g \in Folders : ShownOf(g)' = ShownOf(g)
      BY <3>1 DEF ShownOf
    <3>3. OneReading' /\ ConfigsRead' /\ configs' \subseteq Configuration /\ reads' \in Nat
      BY <1>3, <1>11, <3>1 DEF TreeInv, TreeTypes, OneReading, ConfigsRead, Tree!TestsOf
    <3>. QED
      BY <1>1, <1>9, <1>13, <1>14, <2>4, <3>1, <3>2, <3>3
  <2>. QED
    BY <1>2, <2>1, <2>2, <2>3, <2>4
<1>. HIDE DEF suite
<1>. DEFINE OldOnes == /\ launches' \in Seq(Suite) /\ Len(launches) <= Len(launches')
                       /\ \A k \in 1..Len(launches) : launches'[k].folder = launches[k].folder
            Known == /\ \A g \in Folders : g # f => wsTsMap'[g] = wsTsMap[g]
                     /\ wsTsMap'[f] # 0 => wsTsMap'[f] \in 1..Len(launches') /\ launches'[wsTsMap'[f]].folder = f
<1>16. OldOnes /\ Known
  BY <1>15
<1>17. TreeTypes'
  BY <1>3, <1>6, <1>15 DEF TreeInv, TreeTypes
<1>18. MapsKnown'
  <2>. SUFFICES ASSUME NEW g \in Folders
                PROVE  /\ wsTsMap'[g] # 0 => wsTsMap'[g] \in 1..Len(launches') /\ launches'[wsTsMap'[g]].folder = g
                       /\ wsFwMap[g] # 0 => /\ wsFwMap[g] \in 1..Len(watchers') /\ watchers'[wsFwMap[g]].folder = g
                                            /\ ~watchers'[wsFwMap[g]].disposed
                       /\ g \in open => wsFwMap[g] # 0
    BY <1>3, <1>15 DEF MapsKnown
  <2>1. wsTsMap'[g] # 0 => wsTsMap'[g] \in 1..Len(launches') /\ launches'[wsTsMap'[g]].folder = g
    <3>1. wsTsMap[g] # 0 => wsTsMap[g] \in 1..Len(launches') /\ launches'[wsTsMap[g]].folder = g
      BY <1>1, <1>9, <1>16
    <3>. QED
      BY <1>16, <3>1
  <2>. QED
    BY <1>6, <1>7, <1>9, <2>1
<1>19. WatchersKnown'
  <2>. SUFFICES ASSUME NEW v \in 1..Len(watchers)
                PROVE  /\ watchers'[v].fileExists => /\ watchers'[v].wsSuite \in 1..Len(launches')
                                                     /\ launches'[watchers'[v].wsSuite].folder = watchers'[v].folder
                       /\ <<"launch", v>> \in untold' => ~watchers'[v].disposed
    BY <1>6 DEF WatchersKnown
  <2>1. /\ watchers[v].fileExists => /\ watchers[v].wsSuite \in 1..Len(launches)
                                     /\ launches[watchers[v].wsSuite].folder = watchers[v].folder
        /\ <<"launch", v>> \in untold => ~watchers[v].disposed
    BY DEF TreeInv, WatchersKnown
  <2>2. <<"launch", v>> \in untold' => ~watchers'[v].disposed
    BY <1>3, <1>7, <2>1
  <2>3. CASE v = w
    BY <1>5, <1>6, <1>15, <2>2, <2>3
  <2>4. CASE v # w
    BY <1>1, <1>6, <1>16, <2>1, <2>2, <2>4
  <2>. QED
    BY <2>3, <2>4
<1>20. FoldersShown'
  <2>. SUFFICES ASSUME Tree!NoneLeftBehind, NEW g \in Folders PROVE FolderShown(g)'
    BY <1>8 DEF FoldersShown
  <2>1. FolderShown(g)
    BY DEF TreeInv, FoldersShown
  <2>2. CASE g = f
    <3>1. Shown /\ f \in open' /\ wsFwMap'[f] = w
      BY <1>3, <1>12, <1>15, <2>1, <2>2
    <3>2. Tree!Exists(f)' <=> Tree!Exists(f)
      BY <1>3 DEF Tree!Exists
    <3>. QED
      BY <1>3, <1>5, <1>6, <2>2, <3>1, <3>2 DEF FolderShown
  <2>3. CASE g # f
    <3>1. g \in open => wsFwMap[g] \in 1..Len(watchers) /\ wsFwMap[g] # w
      BY <1>0, <1>9, <2>3
    <3>. QED
      BY <1>3, <1>6, <1>15, <2>1, <2>3, <3>1, OthersShown
  <2>. QED
    BY <2>2, <2>3
<1>. QED
  BY <1>15, <1>17, <1>18, <1>19, <1>20 DEF TreeInv

LEMMA TreeInductive == MCSpec => []TreeInv
<1>1. MCInit => TreeInv
  BY InitTree DEF MCInit
<1>2. TreeInv /\ UNCHANGED treeVars => TreeInv'
  BY DEF TreeInv, treeVars, TreeTypes, OneReading, MapsKnown, WatchersKnown, ConfigsRead, FoldersShown,
         FolderShown, ShownOf, Tree!Exists, Tree!NoneLeftBehind, Tree!TestsOf
<1>3. TreeInv /\ Tree!Next => TreeInv'
  <2>. SUFFICES ASSUME TreeInv, Tree!Next PROVE TreeInv'
    OBVIOUS
  <2>1. ASSUME NEW f \in Folders, Tree!addWorkspaces(f) \/ Tree!RemoveWorkspace(f) PROVE TreeInv'
    BY <2>1, FolderAdded, FolderRemoved, FolderLeftBehind
  <2>2. ASSUME NEW f \in Folders, NEW content \in {Tree!Nothing, Tree!Bad} \cup {Tree!File(s) : s \in SUBSET Names},
               Tree!EditLaunch(f, content)
        PROVE  TreeInv'
    BY <2>2, LaunchEdited DEF LaunchFile
  <2>3. ASSUME NEW f \in Folders, NEW n \in Names,
               NEW content \in {Tree!Nothing} \cup {Tree!File(s) : s \in Listings}, Tree!EditListing(f, n, content)
        PROVE  TreeInv'
    BY <2>3, ListingEdited DEF ListFile
  <2>. QED
    BY <2>1, <2>2, <2>3, LaunchWatched, ListingRead DEF Tree!Next
<1>4. [MCNext]_<<part, vars, lifeVars, runnerVars, treeVars, valueVars>> => Tree!Next \/ UNCHANGED treeVars
  BY DEF MCNext
<1>5. TreeInv /\ [MCNext]_<<part, vars, lifeVars, runnerVars, treeVars, valueVars>> => TreeInv'
  BY <1>2, <1>3, <1>4
<1>. QED
  BY <1>1, <1>5, PTL DEF MCSpec

(* A list file has finitely many labels: each begins one below which there *)
(* are no others.                                                          *)
LEMMA PrefixIs ==
  ASSUME NEW E, NEW s \in Seq(E), NEW t \in Seq(E)
  PROVE  Tree!IsPrefix(s, t) <=> Len(s) <= Len(t) /\ \A i \in 1..Len(s) : s[i] = t[i]
<1>1. ASSUME Len(s) <= Len(t)
      PROVE  SubSeq(s, 1, Len(s)) = SubSeq(t, 1, Len(s)) <=> \A i \in 1..Len(s) : s[i] = t[i]
  <2>1. /\ SubSeq(s, 1, Len(s)) \in Seq(E) /\ SubSeq(t, 1, Len(s)) \in Seq(E)
        /\ Len(SubSeq(s, 1, Len(s))) = Len(s) /\ Len(SubSeq(t, 1, Len(s))) = Len(s)
        /\ \A i \in 1..Len(s) : SubSeq(s, 1, Len(s))[i] = s[i] /\ SubSeq(t, 1, Len(s))[i] = t[i]
    BY <1>1
  <2>. QED
    BY <2>1
<1>. QED
  BY <1>1 DEF Tree!IsPrefix

LEMMA LongestLabel ==
  ASSUME NEW E, NEW labels, IsFiniteSet(labels), labels \subseteq Seq(E), NEW l \in labels
  PROVE  \E t \in Tree!TestsOf(labels) : Tree!IsPrefix(l, t)
<1>. DEFINE Below(t) == {k \in labels : Tree!IsPrefix(t, k)}
            Sets == {Below(t) : t \in Below(l)}
<1>0. \A s, t \in labels : /\ s \in Seq(E) /\ t \in Seq(E) /\ Len(s) \in Nat /\ Len(t) \in Nat
                           /\ Tree!IsPrefix(s, t) <=> Len(s) <= Len(t) /\ \A i \in 1..Len(s) : s[i] = t[i]
  BY PrefixIs
<1>1. \A s, t, u \in labels : Tree!IsPrefix(s, t) /\ Tree!IsPrefix(t, u) => Tree!IsPrefix(s, u)
  <2>. SUFFICES ASSUME NEW s \in labels, NEW t \in labels, NEW u \in labels, Tree!IsPrefix(s, t), Tree!IsPrefix(t, u)
                PROVE  Tree!IsPrefix(s, u)
    OBVIOUS
  <2>1. Len(s) <= Len(t) /\ Len(t) <= Len(u) /\ (\A i \in 1..Len(s) : s[i] = t[i]) /\ \A i \in 1..Len(t) : t[i] = u[i]
    BY <1>0
  <2>2. Len(s) <= Len(u) /\ \A i \in 1..Len(s) : s[i] = u[i]
    BY <1>0, <2>1
  <2>. QED
    BY <1>0, <2>2
<1>2. \A s \in labels : Tree!IsPrefix(s, s)
  BY <1>0
<1>3. \A s, t \in labels : Tree!IsPrefix(s, t) /\ Tree!IsPrefix(t, s) => s = t
  <2>. SUFFICES ASSUME NEW s \in labels, NEW t \in labels, Tree!IsPrefix(s, t), Tree!IsPrefix(t, s)
                PROVE  s = t
    OBVIOUS
  <2>1. s \in Seq(E) /\ t \in Seq(E) /\ Len(s) = Len(t) /\ \A i \in 1..Len(s) : s[i] = t[i]
    BY <1>0
  <2>. QED
    BY <2>1
<1>4. Sets \subseteq FiniteSubsetsOf(labels) /\ Below(l) \in Sets
  BY <1>2, FS_Subset DEF FiniteSubsetsOf
<1>5. PICK m \in Sets : \A k \in Sets : ~(<<k, m>> \in StrictSubsetOrdering(labels))
  BY <1>4, FS_StrictSubsetOrderingWellFounded, WFMin
<1>6. PICK t \in Below(l) : m = Below(t)
  OBVIOUS
<1>7. ASSUME NEW k \in labels, Tree!IsStrictPrefix(t, k)
      PROVE  FALSE
  <2>1. Tree!IsPrefix(t, k) /\ t # k
    BY <1>7 DEF Tree!IsStrictPrefix, Tree!IsPrefix
  <2>2. k \in Below(l) /\ Below(k) \in Sets
    BY <1>1, <2>1
  <2>3. Below(k) \subseteq Below(t)
    BY <1>1, <2>1
  <2>4. t \in Below(t) /\ t \notin Below(k)
    BY <1>2, <1>3, <2>1
  <2>5. <<Below(k), Below(t)>> \in StrictSubsetOrdering(labels)
    BY <2>3, <2>4 DEF StrictSubsetOrdering
  <2>. QED
    BY <1>5, <1>6, <2>2, <2>5
<1>. QED
  BY <1>6, <1>7 DEF Tree!TestsOf

(* TestTree: when all changes have been told, the tree of the tests is     *)
(* what the files say, unless a watcher was left behind.                   *)
LEMMA TreeShown == TreeInv => Tree!TreeIsCurrent
<1>. SUFFICES ASSUME TreeInv, Tree!NoneLeftBehind, untold = {}, timers = {}, NEW f \in open
              PROVE  /\ {c.name : c \in ShownOf(f)} = launch[f].says
                     /\ \A c, d \in ShownOf(f) : c.name = d.name => c = d
                     /\ \A c \in ShownOf(f) :
                          /\ testsOf[c] \subseteq listing[<<f, c.name>>].says
                          /\ \A l \in listing[<<f, c.name>>].says : \E t \in testsOf[c] : Tree!IsPrefix(l, t)
  BY DEF Tree!TreeIsCurrent, Tree!ChangesAreHandled, ShownOf
<1>1. f \in Folders /\ FolderShown(f)
  BY DEF TreeInv, TreeTypes, FoldersShown
<1>2. {c.name : c \in ShownOf(f)} = launch[f].says
  BY <1>1 DEF FolderShown
<1>3. /\ ShownOf(f) \subseteq configs
      /\ \A c \in ShownOf(f) : c.folder = f
      /\ \A c, d \in ShownOf(f) : c.name = d.name => c = d
  BY <1>1 DEF TreeInv, MapsKnown, OneReading, ShownOf
<1>4. ASSUME NEW c \in ShownOf(f)
      PROVE  /\ testsOf[c] \subseteq listing[<<f, c.name>>].says
             /\ \A l \in listing[<<f, c.name>>].says : \E t \in testsOf[c] : Tree!IsPrefix(l, t)
  <2>. DEFINE labels == listing[<<f, c.name>>].says
  <2>1. testsOf[c] = Tree!TestsOf(labels) /\ c \in Configuration
    BY <1>3 DEF TreeInv, ConfigsRead, TreeTypes
  <2>2. listing[<<f, c.name>>] \in ListFile
    BY <1>1, <2>1 DEF TreeInv, TreeTypes, Configuration
  <2>3. IsFiniteSet(labels) /\ labels \subseteq Seq(STRING)
    <3>1. CASE listing[<<f, c.name>>] = Tree!Nothing
      BY <3>1, FS_EmptySet DEF Tree!Nothing
    <3>2. ASSUME NEW s \in Listings, listing[<<f, c.name>>] = Tree!File(s)
          PROVE  IsFiniteSet(labels) /\ labels \subseteq Seq(STRING)
      BY <3>2, ListingsAssumption DEF Tree!File
    <3>. QED
      BY <2>2, <3>1, <3>2 DEF ListFile
  <2>. HIDE DEF labels
  <2>4. Tree!TestsOf(labels) \subseteq labels
    BY DEF Tree!TestsOf
  <2>5. \A l \in labels : \E t \in Tree!TestsOf(labels) : Tree!IsPrefix(l, t)
    BY <2>3, LongestLabel
  <2>. QED
    BY <2>1, <2>4, <2>5 DEF labels
<1>. QED
  BY <1>2, <1>3, <1>4

(* TestTree and DebugVariables: what vscode shows of the tests is what the *)
(* files say; what it shows of the values is what it was told last, unless *)
(* requests have overlapped or failed.                                     *)
THEOREM ShownCurrent == MCSpec => []ShownIsCurrent
<1>1. TreeInv /\ ChangesInv => ShownIsCurrent
  BY TreeShown, ValuesShown DEF ShownIsCurrent
<1>. QED
  BY <1>1, TreeInductive, ValueInductive, PTL
==============================================================================
