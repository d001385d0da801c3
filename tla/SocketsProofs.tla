----------------------------- MODULE SocketsProofs -----------------------------
(***************************************************************************)
(* Proofs about the connections to the emulators.  To ZEsarUX, its end for *)
(* any set of calls: what is proved of the mutex for any tasks holds for   *)
(* the calls of quit, and no call is settled while the connection is open; *)
(* and its queue, for any number of commands, runs and pauses: each gets   *)
(* its own answer.  The receiver of DZRP messages, for any messages and    *)
(* chunks: each payload is handled whole and in order.  The connection to  *)
(* MAME, for any number of continues and pauses: who is told of a stop     *)
(* finds MAME stopped and the temporary breakpoints removed.               *)
(***************************************************************************)
EXTENDS MCSockets, MutexProofs, FiniteSetTheorems, SequenceTheorems

QuitStates == {"no", "called", "written", "settled", "returned"}

QuitTypes ==
  /\ quit \in [Tasks -> QuitStates]
  /\ socket \in {"open", "ended", "closed"}
  /\ state \in {"CONNECTED", "UNCONNECTED"}
  /\ silent \in BOOLEAN

\* The state is set where the socket closes, and by the listeners of a silent connection: a call
\* that finds it UNCONNECTED returns at once.
StateIsClosed == state = "UNCONNECTED" => socket = "closed" \/ silent

QuitInv == IInv /\ QuitTypes /\ StateIsClosed /\ SettledIsClosed

-------------------------------------------------------------------------------
LEMMA QuitInitInv == QuitInit => QuitInv
BY InitIInv DEF QuitInit, QuitInv, QuitTypes, QuitStates, StateIsClosed, SettledIsClosed

\* Whatever a call of quit does with the mutex is a step of the mutex.
LEMMA QuitNextIsNext == QuitNext => [Next]_vars
<1>1. ASSUME NEW t \in Tasks, Quit(t)
      PROVE  [Next]_vars
  BY <1>1 DEF Quit, Next
<1>2. ASSUME NEW t \in Tasks, Locked(t)
      PROVE  [Next]_vars
  BY <1>2 DEF Locked, Next
<1>3. ASSUME NEW t \in Tasks, Listener(t)
      PROVE  [Next]_vars
  BY <1>3 DEF Listener, Next
<1>4. ASSUME Closed
      PROVE  [Next]_vars
  BY <1>3, <1>4 DEF Closed
<1>5. ASSUME SilentOrError
      PROVE  [Next]_vars
  BY <1>3, <1>5 DEF SilentOrError
<1>6. ASSUME Elapsed
      PROVE  [Next]_vars
  BY <1>6 DEF Elapsed, Next
<1>7. ASSUME Silent
      PROVE  [Next]_vars
  BY <1>7 DEF Silent
<1>. QED
  BY <1>1, <1>2, <1>4, <1>5, <1>6, <1>7 DEF QuitNext

\* The facts that a call which is settled needs, action by action.
LEMMA QuitNextTidy ==
  ASSUME QuitTypes, StateIsClosed, SettledIsClosed, QuitNext
  PROVE  QuitTypes' /\ StateIsClosed' /\ SettledIsClosed'
<1>. USE DEF QuitTypes, QuitStates, StateIsClosed, SettledIsClosed
<1>1. ASSUME NEW t \in Tasks, Quit(t)
      PROVE  QuitTypes' /\ StateIsClosed' /\ SettledIsClosed'
  <2>1. UNCHANGED <<state, socket, silent>>
    BY <1>1 DEF Quit
  <2>2. CASE state = "UNCONNECTED"
    BY <1>1, <2>1, <2>2 DEF Quit
  <2>3. CASE state # "UNCONNECTED"
    BY <1>1, <2>1, <2>3 DEF Quit
  <2>. QED
    BY <2>2, <2>3
<1>2. ASSUME NEW t \in Tasks, Locked(t)
      PROVE  QuitTypes' /\ StateIsClosed' /\ SettledIsClosed'
  BY <1>2 DEF Locked
<1>3. ASSUME NEW t \in Tasks, Listener(t)
      PROVE  /\ quit' \in [Tasks -> QuitStates]
             /\ \A u \in Tasks : quit'[u] = "settled" => quit[u] = "settled" \/ u = t
             /\ \A u \in Tasks : quit'[u] = "returned" => quit[u] = "returned"
  BY <1>3 DEF Listener
<1>4. ASSUME Closed
      PROVE  QuitTypes' /\ StateIsClosed' /\ SettledIsClosed'
  <2>1. socket' = "closed" /\ state' \in {"CONNECTED", "UNCONNECTED"} /\ silent' = silent
    BY <1>4 DEF Closed
  <2>2. quit' \in [Tasks -> QuitStates]
    BY <1>3, <1>4 DEF Closed
  <2>. QED
    BY <2>1, <2>2
<1>5. ASSUME SilentOrError
      PROVE  QuitTypes' /\ StateIsClosed' /\ SettledIsClosed'
  <2>1. socket = "open" /\ socket' = "ended" /\ state' = state /\ silent' = silent
    BY <1>5 DEF SilentOrError
  <2>2. quit' \in [Tasks -> QuitStates]
    BY <1>3, <1>5 DEF SilentOrError
  <2>. QED
    BY <2>1, <2>2
<1>6. ASSUME Elapsed
      PROVE  QuitTypes' /\ StateIsClosed' /\ SettledIsClosed'
  BY <1>6 DEF Elapsed
<1>7. ASSUME UNCHANGED socketVars
      PROVE  QuitTypes' /\ StateIsClosed' /\ SettledIsClosed'
  BY <1>7 DEF socketVars
<1>8. ASSUME Silent
      PROVE  QuitTypes' /\ StateIsClosed' /\ SettledIsClosed'
  BY <1>8 DEF Silent
<1>. QED
  BY <1>1, <1>2, <1>4, <1>5, <1>6, <1>7, <1>8 DEF QuitNext

LEMMA QuitNextInv == QuitInv /\ [QuitNext]_allVars => QuitInv'
<1>1. ASSUME QuitInv, QuitNext
      PROVE  QuitInv'
  BY <1>1, QuitNextIsNext, QuitNextTidy, NextIInv DEF QuitInv
<1>2. ASSUME QuitInv, UNCHANGED allVars
      PROVE  QuitInv'
  BY <1>2, NextIInv
  DEF QuitInv, allVars, socketVars, QuitTypes, StateIsClosed, SettledIsClosed
<1>. QED
  BY <1>1, <1>2

\* The other connections leave the calls of quit alone.
LEMMA OnlyQuit ==
  [MCNext]_<<part, allVars, socketQueueVars, dzrpVars, mameVars>> => [QuitNext]_allVars
BY DEF MCNext

LEMMA AlwaysQuitInv == MCSpec => []QuitInv
<1>1. MCInit => QuitInv
  BY QuitInitInv DEF MCInit
<1>. QED
  BY <1>1, QuitNextInv, OnlyQuit, PTL DEF MCSpec

(* However many calls of quit take turns, time out and are rejected, and   *)
(* whichever of the events of the socket settles one: when a call of       *)
(* ZesaruxSocket.quit is settled the connection is not open any more (a    *)
(* call that returns at once may leave it open, but only after ZEsarUX was *)
(* silent and the connection's own listeners gave it up), and the timer of *)
(* its mutex runs exactly while the list is not empty.                     *)
THEOREM QuitTidy == MCSpec => []QuitIsTidy
<1>1. QuitInv => QuitIsTidy
  BY DEF QuitInv, QuitIsTidy, IInv
<1>. QED
  BY <1>1, AlwaysQuitInv, PTL
-------------------------------------------------------------------------------
(* The queue of commands.                                                  *)

HasRun   == interruptableRunCmd # Socket!NoRun
Critical == interruptableRunCmdCriticalPhase

SockTypes ==
  /\ Socket!TypeOK
  /\ Critical \in BOOLEAN
  /\ sent \in 0..MaxCmds
  /\ runs \in 0..MaxRuns
  /\ Socket!InterruptHasRun

\* What is on the wire, and whether ZEsarUX runs the program.
Wire(to, from, r) == toEmu = to /\ fromEmu = from /\ running = r
RunText(t) == Socket!Text(t, Socket!RunLine)

\* Unless events cross, the two ends are in one of five phases: nothing to do;
Idle == queue = <<>> /\ ~HasRun /\ ~Critical /\ Wire(<<>>, <<>>, FALSE)

\* the oldest command is answered, whether there is a run to go on with or not;
Commanded ==
  /\ queue # <<>> /\ queue[1] \in Socket!Cmds /\ ~Critical
  /\ \/ Wire(<<queue[1]>>, <<>>, FALSE)
     \/ Wire(<<>>, <<Socket!Text("answer", queue[1])>>, FALSE)

\* run has been written and not yet said that it is running;
Starting ==
  /\ HasRun /\ Critical
  /\ \/ Wire(<<Socket!RunLine>>, <<>>, FALSE)
     \/ Wire(<<>>, <<RunText("until")>>, TRUE)
     \/ queue = <<>> /\ Wire(<<>>, <<RunText("until"), RunText("hit")>>, FALSE)

\* the program runs, is paused by the button or has hit a breakpoint;
Started ==
  /\ HasRun /\ ~Critical /\ queue = <<>>
  /\ \/ Wire(<<>>, <<>>, TRUE)
     \/ Wire(<<Socket!Blank>>, <<>>, TRUE)
     \/ Wire(<<>>, <<RunText("hit")>>, FALSE)
     \/ Wire(<<>>, <<RunText("stopped")>>, FALSE)

\* or a blank line interrupts it for the commands that wait behind.
Interrupted ==
  /\ HasRun /\ ~Critical /\ queue # <<>> /\ queue[1] = Socket!Blank
  /\ \/ Wire(<<Socket!Blank>>, <<>>, TRUE)
     \/ Wire(<<>>, <<RunText("stopped")>>, FALSE)

Phase == Idle \/ Commanded \/ Starting \/ Started \/ Interrupted

Waiting ==
  /\ receivedDataChunk = <<>>
  /\ timer <=> queue # <<>> /\ ~Critical
  /\ lastCallQueue => queue # <<>>

PhaseInv == ~crossing => Phase /\ Waiting /\ Socket!OwnAnswer

SockInv == SockTypes /\ PhaseInv

LEMMA SockInitInv == MCInit => SockInv
<1>. SUFFICES ASSUME MCInit PROVE SockInv
  OBVIOUS
<1>1. Socket!Init
  BY DEF MCInit
<1>2. SockTypes
  <2>. USE <1>1 DEF Socket!Init, Critical
  <2>1. Socket!InterruptHasRun
    BY DEF Socket!InterruptHasRun
  <2>2. sent \in 0..MaxCmds /\ runs \in 0..MaxRuns /\ interruptableRunCmd \in 0..runs
    BY BoundsAssumption DEF Socket!NoRun
  <2>3. /\ queue \in Seq(Socket!Cmds \cup {Socket!Blank}) /\ toEmu \in Seq(Socket!Lines)
        /\ receivedDataChunk \in Seq(Socket!Texts) /\ fromEmu \in Seq(Socket!Texts)
    OBVIOUS
  <2>4. /\ answer \in [Socket!Cmds -> Socket!Lines \cup {Socket!Mixed, Socket!NotYet}]
        /\ runAnswer \in [1..MaxRuns -> Socket!Lines \cup {Socket!Mixed, Socket!NotYet}]
    OBVIOUS
  <2>. QED
    BY <2>1, <2>2, <2>3, <2>4 DEF SockTypes, Socket!TypeOK
<1>3. Idle /\ Waiting /\ (~crossing => Socket!OwnAnswer)
  BY <1>1 DEF Socket!Init, Idle, HasRun, Critical, Wire, Waiting, Socket!OwnAnswer, Socket!NotYet, Socket!Cmds,
              Socket!NoRun
<1>. QED
  BY <1>2, <1>3 DEF SockInv, PhaseInv, Phase

-------------------------------------------------------------------------------
\* What is on the wire: nothing, one line or text, or "Running until" and the end of the run.
LEMMA NoText ==
  /\ Socket!ToSet(<<>>) = {} /\ Socket!Answers(<<>>) = {}
  /\ \A x : ~Socket!Holds(<<>>, x)
BY DEF Socket!ToSet, Socket!Answers, Socket!Holds

LEMMA OneText ==
  ASSUME NEW t
  PROVE  /\ Len(<<t>>) = 1 /\ SubSeq(<<t>>, 1, 1) = <<t>> /\ SubSeq(<<t>>, 2, 1) = <<>>
         /\ <<>> \o <<t>> = <<t>> /\ Head(<<t>>) = t /\ Socket!Last(<<t>>) = t
         /\ Append(<<>>, t) = <<t>> /\ Tail(<<t>>) = <<>>
         /\ Socket!ToSet(<<t>>) = {t}
         /\ Socket!Answers(<<t>>) = IF t.text = "until" THEN {} ELSE {1}
         /\ \A x : Socket!Holds(<<t>>, x) <=> t.text = x
<1>1. <<t>> \in Seq({t}) /\ Len(<<t>>) = 1 /\ <<t>>[1] = t
  OBVIOUS
<1>2. SubSeq(<<t>>, 1, 1) = <<t>>
  BY <1>1, SubSeqFull
<1>3. SubSeq(<<t>>, 2, 1) = <<>>
  BY SubSeqEmpty
<1>4. <<>> \o <<t>> = <<t>>
  BY <1>1, ConcatEmptySeq
<1>5. /\ Head(<<t>>) = t /\ Socket!Last(<<t>>) = t
      /\ Append(<<>>, t) = <<t>>
  BY <1>1 DEF Socket!Last
<1>6. Tail(<<t>>) = <<>>
  BY <1>1, <1>3, TailIsSubSeq
<1>7. /\ Socket!ToSet(<<t>>) = {t}
      /\ Socket!Answers(<<t>>) = IF t.text = "until" THEN {} ELSE {1}
      /\ \A x : Socket!Holds(<<t>>, x) <=> t.text = x
  BY DEF Socket!ToSet, Socket!Answers, Socket!Holds
<1>. QED
  BY <1>1, <1>2, <1>3, <1>4, <1>5, <1>6, <1>7

LEMMA TwoTexts ==
  ASSUME NEW t, NEW u
  PROVE  /\ Len(<<t, u>>) = 2
         /\ SubSeq(<<t, u>>, 1, 1) = <<t>> /\ SubSeq(<<t, u>>, 2, 2) = <<u>>
         /\ SubSeq(<<t, u>>, 1, 2) = <<t, u>> /\ SubSeq(<<t, u>>, 3, 2) = <<>>
         /\ <<>> \o <<t, u>> = <<t, u>>
         /\ Head(<<t, u>>) = t /\ Socket!Last(<<t, u>>) = u
         /\ Append(<<t>>, u) = <<t, u>>
         /\ t.text = "until" /\ u.text # "until" => Socket!Answers(<<t, u>>) = {2}
         /\ \A x : Socket!Holds(<<t, u>>, x) <=> t.text = x \/ u.text = x
<1>1. <<t, u>> \in Seq({t, u}) /\ Len(<<t, u>>) = 2 /\ <<t, u>>[1] = t /\ <<t, u>>[2] = u
  OBVIOUS
<1>2. SubSeq(<<t, u>>, 1, 2) = <<t, u>>
  BY <1>1, SubSeqFull
<1>3. SubSeq(<<t, u>>, 3, 2) = <<>>
  BY SubSeqEmpty
<1>4. <<>> \o <<t, u>> = <<t, u>>
  BY <1>1, ConcatEmptySeq
<1>5. Head(<<t, u>>) = t /\ Socket!Last(<<t, u>>) = u
  BY <1>1 DEF Socket!Last
<1>6. Append(<<t>>, u) = <<t, u>>
  <2>1. <<t>> \in Seq({t, u}) /\ Len(<<t>>) = 1 /\ <<t>>[1] = t
    OBVIOUS
  <2>2. /\ Append(<<t>>, u) \in Seq({t, u}) /\ Len(Append(<<t>>, u)) = 2
        /\ Append(<<t>>, u)[1] = t /\ Append(<<t>>, u)[2] = u
    BY <2>1
  <2>3. \A i \in 1..Len(<<t, u>>) : <<t, u>>[i] = Append(<<t>>, u)[i]
    BY ONLY <1>1, <2>2
  <2>. QED
    BY ONLY <1>1, <2>2, <2>3, SeqEqual
<1>7. ASSUME NEW i \in 1..2
      PROVE  SubSeq(<<t, u>>, i, i) = <<<<t, u>>[i]>>
  <2>1. /\ SubSeq(<<t, u>>, i, i) \in Seq({t, u}) /\ Len(SubSeq(<<t, u>>, i, i)) = 1
        /\ SubSeq(<<t, u>>, i, i)[1] = <<t, u>>[i]
    <3>1. \A j \in i..i : <<t, u>>[j] \in {t, u}
      BY <1>1
    <3>. QED
      BY <3>1, SubSeqProperties
  <2>2. <<<<t, u>>[i]>> \in Seq({t, u}) /\ Len(<<<<t, u>>[i]>>) = 1 /\ <<<<t, u>>[i]>>[1] = <<t, u>>[i]
    BY <1>1
  <2>3. \A j \in 1..Len(<<<<t, u>>[i]>>) : <<<<t, u>>[i]>>[j] = SubSeq(<<t, u>>, i, i)[j]
    BY ONLY <2>1, <2>2
  <2>. QED
    BY ONLY <2>1, <2>2, <2>3, SeqEqual
<1>8. SubSeq(<<t, u>>, 1, 1) = <<t>> /\ SubSeq(<<t, u>>, 2, 2) = <<u>>
  BY <1>1, <1>7
<1>9. /\ t.text = "until" /\ u.text # "until" => Socket!Answers(<<t, u>>) = {2}
      /\ \A x : Socket!Holds(<<t, u>>, x) <=> t.text = x \/ u.text = x
  BY DEF Socket!Answers, Socket!Holds
<1>. QED
  BY <1>1, <1>2, <1>3, <1>4, <1>5, <1>6, <1>8, <1>9

\* What OneByOne asks of the wire.
WireIsSafe(to, from, r) ==
  /\ Len(to) <= 1 /\ \A i, j \in Socket!Answers(from) : i = j
  /\ to # <<>> => Socket!Answers(from) = {}
  /\ r => Socket!ToSet(to) \subseteq {Socket!Blank}
  /\ Socket!Blank \in Socket!ToSet(to) => ~Socket!Holds(from, "until") /\ r

LEMMA WiresAreSafe ==
  /\ \A r : WireIsSafe(<<>>, <<>>, r)
  /\ \A t, r : WireIsSafe(<<>>, <<t>>, r)
  /\ \A r : WireIsSafe(<<>>, <<RunText("until"), RunText("hit")>>, r)
  /\ \A line : line # Socket!Blank => WireIsSafe(<<line>>, <<>>, FALSE)
  /\ WireIsSafe(<<Socket!Blank>>, <<>>, TRUE)
<1>1. Len(<<>>) = 0
  OBVIOUS
<1>2. Socket!Answers(<<RunText("until"), RunText("hit")>>) = {2}
  <2>1. RunText("until").text = "until" /\ RunText("hit").text # "until"
    BY DEF RunText, Socket!Text
  <2>. QED
    BY <2>1, TwoTexts
<1>. QED
  BY <1>1, <1>2, NoText, OneText DEF WireIsSafe

\* The phases say what the user is promised.
LEMMA PhaseIsSafe == SockInv => OwnAnswer
<1>. SUFFICES ASSUME SockInv PROVE OwnAnswer
  OBVIOUS
<1>. USE DEF SockInv, PhaseInv
<1>1. Socket!OneByOne
  <2>. SUFFICES ASSUME ~crossing PROVE WireIsSafe(toEmu, fromEmu, running)
    BY DEF Socket!OneByOne, WireIsSafe
  <2>. USE WiresAreSafe DEF Wire
  <2>1. CASE Idle
    BY <2>1 DEF Idle
  <2>2. CASE Commanded
    <3>1. queue[1] # Socket!Blank
      BY <2>2 DEF Commanded, Socket!Cmds, Socket!Blank
    <3>. QED
      BY <2>2, <3>1 DEF Commanded
  <2>3. CASE Starting
    <3>1. Socket!RunLine # Socket!Blank
      BY DEF Socket!RunLine, Socket!Blank
    <3>. QED
      BY <2>3, <3>1 DEF Starting
  <2>4. CASE Started
    BY <2>4 DEF Started
  <2>5. CASE Interrupted
    BY <2>5 DEF Interrupted
  <2>. QED
    BY <2>1, <2>2, <2>3, <2>4, <2>5 DEF Phase
<1>2. Socket!WaitingIsTimed
  BY DEF Socket!WaitingIsTimed, Waiting, SockTypes, Critical
<1>. QED
  BY <1>1, <1>2 DEF OwnAnswer, SockTypes, Socket!OwnAnswer

LEMMA AnsweredOne ==
  ASSUME NEW t, t.text # "until"
  PROVE  Socket!Answered(<<t>>) = t.of
<1>1. Socket!Answers(<<t>>) = {1}
  BY DEF Socket!Answers
<1>. QED
  BY <1>1 DEF Socket!Answered

LEMMA AnsweredTwo ==
  ASSUME NEW t, NEW u, t.text = "until", u.text # "until"
  PROVE  Socket!Answered(<<t, u>>) = u.of
<1>1. Socket!Answers(<<t, u>>) = {2}
  BY DEF Socket!Answers
<1>. QED
  BY <1>1 DEF Socket!Answered

\* Whatever was received, the answer is of a line or mixed.
LEMMA AnsweredType ==
  ASSUME NEW texts \in Seq(Socket!Texts), texts # <<>>, Socket!Last(texts).text # "until"
  PROVE  Socket!Answered(texts) \in Socket!Lines \cup {Socket!Mixed}
<1>1. Len(texts) \in Socket!Answers(texts)
  BY DEF Socket!Answers, Socket!Last
<1>2. \A i \in Socket!Answers(texts) : texts[i].of \in Socket!Lines
  <2>1. \A i \in Socket!Answers(texts) : texts[i] \in Socket!Texts
    BY DEF Socket!Answers
  <2>. QED
    BY <2>1 DEF Socket!Texts
<1>3. (CHOOSE i \in Socket!Answers(texts) : TRUE) \in Socket!Answers(texts)
  BY <1>1
<1>. QED
  BY <1>2, <1>3 DEF Socket!Answered

LEMMA FunctionIsSeq ==
  ASSUME NEW S, NEW n \in Nat, NEW f \in [1..n -> S]
  PROVE  f \in Seq(S)
OBVIOUS

\* Behind the head no blank line waits.
LEMMA RestIsCommands ==
  ASSUME SockTypes
  PROVE  /\ Socket!Rest \in Seq(Socket!Cmds)
         /\ Socket!Rest # <<>> => Head(Socket!Rest) = Socket!Rest[1] /\ Socket!Rest[1] \in Socket!Cmds
<1>. USE DEF SockTypes, Socket!TypeOK
<1>1. CASE queue = <<>>
  BY <1>1 DEF Socket!Rest
<1>2. CASE queue # <<>>
  <2>1. /\ Socket!Rest = Tail(queue) /\ Tail(queue) \in Seq(Socket!Cmds \cup {Socket!Blank})
        /\ Len(Tail(queue)) = Len(queue) - 1
        /\ \A i \in 1..Len(Tail(queue)) : Tail(queue)[i] = queue[i + 1]
    BY <1>2 DEF Socket!Rest
  <2>2. ASSUME NEW i \in 1..Len(Tail(queue))
        PROVE  Tail(queue)[i] \in Socket!Cmds
    <3>1. i + 1 \in DOMAIN queue /\ i + 1 # 1 /\ queue[i + 1] \in Socket!Cmds \cup {Socket!Blank}
      BY <2>1
    <3>2. queue[i + 1] # Socket!Blank
      BY <3>1 DEF Socket!InterruptHasRun
    <3>. QED
      BY <2>1, <3>1, <3>2
  <2>3. Tail(queue) \in Seq(Socket!Cmds)
    <3>1. Len(Tail(queue)) \in Nat /\ Tail(queue) \in [1..Len(Tail(queue)) -> Socket!Cmds \cup {Socket!Blank}]
      BY <2>1, LenProperties
    <3>2. Tail(queue) \in [1..Len(Tail(queue)) -> Socket!Cmds]
      BY ONLY <2>2, <3>1
    <3>. QED
      BY ONLY <3>1, <3>2, FunctionIsSeq
  <2>. QED
    BY <2>1, <2>2, <2>3
<1>. QED
  BY <1>1, <1>2

-------------------------------------------------------------------------------
\* Types, and: an interruption is the head of the queue and has a run to go on with.

LEMMA CommandsAreNotBlank ==
  ASSUME NEW q \in Seq(Socket!Cmds)
  PROVE  q \in Seq(Socket!Cmds \cup {Socket!Blank}) /\ \A i \in DOMAIN q : q[i] # Socket!Blank
<1>1. q \in Seq(Socket!Cmds \cup {Socket!Blank})
  BY SeqMonotonic
<1>2. \A i \in DOMAIN q : q[i] \in Socket!Cmds
  OBVIOUS
<1>3. Socket!Blank \notin Socket!Cmds
  BY DEF Socket!Blank, Socket!Cmds
<1>. QED
  BY <1>1, <1>2, <1>3

LEMMA Written ==
  ASSUME NEW line, Socket!sendSocketCmd(line)
  PROVE  /\ toEmu' = Append(toEmu, line) /\ timer' \in BOOLEAN /\ Critical' \in BOOLEAN
         /\ line = Socket!RunLine => timer' = FALSE /\ Critical' = TRUE
         /\ line # Socket!RunLine => timer' = TRUE /\ Critical' = FALSE
<1>1. toEmu' = Append(toEmu, line) /\ timer' = (line # Socket!RunLine) /\ Critical' = (line = Socket!RunLine)
  BY DEF Socket!sendSocketCmd, Critical
<1>2. CASE line = Socket!RunLine
  BY <1>1, <1>2
<1>3. CASE line # Socket!RunLine
  BY <1>1, <1>3
<1>. QED
  BY <1>2, <1>3

LEMMA SendTypes == SockTypes /\ Socket!send => SockTypes'
<1>. SUFFICES ASSUME SockTypes, Socket!send PROVE SockTypes'
  OBVIOUS
<1>. USE DEF SockTypes, Socket!TypeOK, Critical, Socket!NoRun, Socket!Blank, Socket!RunLine
<1>1. sent' = sent + 1 /\ sent' \in 0..MaxCmds /\ sent' \in Socket!Cmds /\ sent' \in Socket!Lines
  BY BoundsAssumption DEF Socket!send, Socket!Cmds, Socket!Lines
<1>2. UNCHANGED <<interruptableRunCmd, runs, receivedDataChunk, lastCallQueue, answer, runAnswer, thrown,
                  running, fromEmu, crossing>>
  BY DEF Socket!send, Socket!endVars, Socket!emuVars
<1>. DEFINE c == sent'
<1>3. /\ c # Socket!RunLine
      /\ Append(toEmu, c) \in Seq(Socket!Lines) /\ Append(toEmu, Socket!Blank) \in Seq(Socket!Lines)
  BY <1>1 DEF Socket!Lines, Socket!Cmds
<1>4. CASE queue = <<>> /\ ~Critical /\ HasRun
  <2>1. Socket!Interrupt(<<c>>)
    BY <1>1, <1>4 DEF Socket!send, Socket!Enqueue, HasRun
  <2>2. /\ queue' = <<Socket!Blank>> \o <<c>>
        /\ toEmu' = Append(toEmu, Socket!Blank) /\ timer' = TRUE /\ Critical' = FALSE
    <3>1. queue' = <<Socket!Blank>> \o <<c>> /\ Socket!sendSocketCmd(Socket!Blank)
      BY <2>1 DEF Socket!Interrupt
    <3>2. Socket!Blank # Socket!RunLine
      OBVIOUS
    <3>. QED
      BY ONLY <3>1, <3>2, Written
  <2>3. /\ <<Socket!Blank>> \in Seq(Socket!Cmds \cup {Socket!Blank}) /\ Len(<<Socket!Blank>>) = 1
        /\ <<c>> \in Seq(Socket!Cmds \cup {Socket!Blank}) /\ Len(<<c>>) = 1 /\ <<c>>[1] = c
    BY <1>1
  <2>4. /\ queue' \in Seq(Socket!Cmds \cup {Socket!Blank}) /\ Len(queue') = 2
        /\ queue'[2] = c
    BY <2>2, <2>3, ConcatProperties
  <2>5. c # Socket!Blank
    BY <1>1 DEF Socket!Cmds
  <2>6. Socket!InterruptHasRun'
    BY <1>2, <1>4, <2>2, <2>4, <2>5 DEF HasRun, Socket!InterruptHasRun
  <2>. QED
    BY <1>1, <1>2, <1>3, <1>4, <2>2, <2>4, <2>6
<1>6. CASE queue = <<>> /\ ~Critical /\ ~HasRun
  <2>1. queue' = <<c>> /\ Socket!sendSocketCmd(c)
    BY <1>1, <1>6 DEF Socket!send, Socket!Enqueue, HasRun
  <2>2. toEmu' = Append(toEmu, c) /\ timer' = TRUE /\ Critical' = FALSE
    BY ONLY <1>3, <2>1, Written
  <2>3. queue' \in Seq(Socket!Cmds \cup {Socket!Blank})
    BY <1>1, <2>1
  <2>4. Socket!InterruptHasRun'
    BY <1>1, <2>1 DEF Socket!InterruptHasRun, Socket!Cmds
  <2>. QED
    BY <1>1, <1>2, <1>3, <1>6, <2>2, <2>3, <2>4
<1>5. CASE ~(queue = <<>> /\ ~Critical)
  <2>1. queue' = Append(queue, c) /\ UNCHANGED <<toEmu, timer, interruptableRunCmdCriticalPhase>>
    BY <1>5 DEF Socket!send, Socket!Enqueue
  <2>2. queue' \in Seq(Socket!Cmds \cup {Socket!Blank})
    BY <1>1, <2>1
  <2>3. Socket!InterruptHasRun'
    BY <1>1, <1>2, <2>1 DEF Socket!InterruptHasRun, Socket!Cmds
  <2>. QED
    BY <1>1, <1>2, <2>1, <2>2, <2>3
<1>. QED
  BY <1>4, <1>5, <1>6

LEMMA RunTypes == SockTypes /\ Socket!sendInterruptableRunCmd => SockTypes'
<1>. SUFFICES ASSUME SockTypes, Socket!sendInterruptableRunCmd PROVE SockTypes'
  OBVIOUS
<1>. USE DEF SockTypes, Socket!TypeOK, Critical, Socket!NoRun, Socket!Blank, Socket!RunLine
<1>1. runs' = runs + 1 /\ runs' \in 1..MaxRuns /\ interruptableRunCmd' = runs' /\ interruptableRunCmd = 0
  BY BoundsAssumption DEF Socket!sendInterruptableRunCmd
<1>2. UNCHANGED <<queue, sent, receivedDataChunk, lastCallQueue, answer, runAnswer, thrown, running,
                  fromEmu, crossing>>
  BY DEF Socket!sendInterruptableRunCmd, Socket!endVars, Socket!emuVars
<1>3. toEmu' \in Seq(Socket!Lines) /\ timer' \in BOOLEAN /\ Critical' \in BOOLEAN
  <2>1. Append(toEmu, Socket!RunLine) \in Seq(Socket!Lines)
    BY DEF Socket!Lines
  <2>2. CASE queue = <<>>
    <3>1. Socket!sendSocketCmd(Socket!RunLine)
      BY <2>2 DEF Socket!sendInterruptableRunCmd
    <3>. QED
      BY ONLY <2>1, <3>1, Written
  <2>3. CASE queue # <<>>
    BY <2>3 DEF Socket!sendInterruptableRunCmd
  <2>. QED
    BY <2>2, <2>3
<1>4. Socket!InterruptHasRun'
  BY <1>1, <1>2 DEF Socket!InterruptHasRun
<1>. QED
  BY <1>1, <1>2, <1>3, <1>4

LEMMA OtherTypes ==
  SockTypes /\ (Socket!sendBlank \/ Socket!executeWhenQueueIsEmpty \/ Socket!EmuLine \/ Socket!EmuHit) => SockTypes'
<1>. USE DEF SockTypes, Socket!TypeOK, Critical, Socket!queueVars, Socket!callVars, Socket!endVars, Socket!emuVars
<1>1. ASSUME SockTypes, Socket!sendBlank
      PROVE  SockTypes'
  BY <1>1 DEF Socket!sendBlank, Socket!InterruptHasRun, Socket!Lines
<1>2. ASSUME SockTypes, Socket!executeWhenQueueIsEmpty
      PROVE  SockTypes'
  BY <1>2 DEF Socket!executeWhenQueueIsEmpty, Socket!InterruptHasRun
<1>3. ASSUME SockTypes, Socket!EmuLine
      PROVE  SockTypes'
  <2>1. Head(toEmu) \in Socket!Lines /\ toEmu' \in Seq(Socket!Lines)
    BY <1>3 DEF Socket!EmuLine
  <2>2. PICK t \in Socket!Texts : fromEmu' = Append(fromEmu, t)
    BY <1>3, <2>1 DEF Socket!EmuLine, Socket!Text, Socket!Texts, Socket!Lines
  <2>3. fromEmu' \in Seq(Socket!Texts) /\ running' \in BOOLEAN
    BY <1>3, <2>2 DEF Socket!EmuLine
  <2>. QED
    BY <1>3, <2>1, <2>3 DEF Socket!EmuLine, Socket!InterruptHasRun
<1>4. ASSUME SockTypes, Socket!EmuHit
      PROVE  SockTypes'
  <2>1. Socket!Text("hit", Socket!RunLine) \in Socket!Texts
    BY DEF Socket!Text, Socket!Texts, Socket!Lines
  <2>2. fromEmu' \in Seq(Socket!Texts) /\ running' = FALSE
    BY <1>4, <2>1 DEF Socket!EmuHit
  <2>. QED
    BY <1>4, <2>2 DEF Socket!EmuHit, Socket!InterruptHasRun
<1>. QED
  BY <1>1, <1>2, <1>3, <1>4

\* After an answer the next command is written, or the run that is to go on.
LEMMA SendNextTypes ==
  ASSUME SockTypes, NEW run \in Nat, Socket!sendNext(Socket!Rest, run)
  PROVE  /\ queue' \in Seq(Socket!Cmds)
         /\ toEmu' \in Seq(Socket!Lines) /\ timer' \in BOOLEAN /\ Critical' \in BOOLEAN
         /\ Critical' => run # Socket!NoRun
<1>. USE DEF SockTypes, Socket!TypeOK, Critical
<1>1. queue' = Socket!Rest /\ queue' \in Seq(Socket!Cmds)
  BY RestIsCommands DEF Socket!sendNext
<1>2. CASE Socket!Rest # <<>>
  <2>1. Socket!sendSocketCmd(Head(Socket!Rest)) /\ Head(Socket!Rest) \in Socket!Cmds
    BY <1>2, RestIsCommands DEF Socket!sendNext
  <2>2. Head(Socket!Rest) # Socket!RunLine /\ Append(toEmu, Head(Socket!Rest)) \in Seq(Socket!Lines)
    BY <2>1 DEF Socket!Lines, Socket!Cmds, Socket!RunLine
  <2>. QED
    BY ONLY <1>1, <2>1, <2>2, Written
<1>3. CASE Socket!Rest = <<>> /\ run # Socket!NoRun
  <2>1. Socket!sendSocketCmd(Socket!RunLine) /\ Append(toEmu, Socket!RunLine) \in Seq(Socket!Lines)
    BY <1>3 DEF Socket!sendNext, Socket!Lines
  <2>. QED
    BY ONLY <1>1, <1>3, <2>1, Written
<1>4. CASE Socket!Rest = <<>> /\ run = Socket!NoRun
  BY <1>1, <1>4 DEF Socket!sendNext
<1>. QED
  BY <1>2, <1>3, <1>4

LEMMA ReceiveTypes == SockTypes /\ Socket!Receive => SockTypes'
<1>. USE DEF SockTypes, Socket!TypeOK, Critical
<1>. SUFFICES ASSUME SockTypes, NEW k \in 1..Len(fromEmu), Socket!receiveSocket(k)
              PROVE  SockTypes'
  BY DEF Socket!Receive
<1>. DEFINE data  == SubSeq(fromEmu, 1, k)
            texts == receivedDataChunk \o data
<1>1. data \in Seq(Socket!Texts) /\ Len(data) = k /\ SubSeq(fromEmu, k + 1, Len(fromEmu)) \in Seq(Socket!Texts)
  OBVIOUS
<1>2. texts \in Seq(Socket!Texts) /\ texts # <<>>
  <2>1. texts \in Seq(Socket!Texts) /\ Len(texts) = Len(receivedDataChunk) + Len(data)
    BY <1>1, ConcatProperties
  <2>2. Len(texts) # 0
    BY <1>1, <2>1
  <2>. HIDE DEF texts
  <2>. QED
    BY <2>1, <2>2
<1>3. /\ fromEmu' \in Seq(Socket!Texts)
      /\ UNCHANGED <<sent, runs, running, crossing>>
  BY <1>1 DEF Socket!receiveSocket, Socket!callVars
<1>4. \/ Socket!AssertionFails(texts)
      \/ Socket!RunStarted(texts)
      \/ Socket!NoPrompt(texts)
      \/ Socket!RunReturns(texts, data)
      \/ Socket!CommandReturns(texts, data)
  BY DEF Socket!receiveSocket
<1>. HIDE DEF data, texts
<1>5. CASE Socket!AssertionFails(texts)
  BY <1>2, <1>3, <1>5 DEF Socket!AssertionFails, Socket!InterruptHasRun
<1>6. CASE Socket!RunStarted(texts)
  <2>1. /\ UNCHANGED <<interruptableRunCmd, lastCallQueue, answer, runAnswer, thrown>>
        /\ receivedDataChunk' \in Seq(Socket!Texts)
    BY <1>6 DEF Socket!RunStarted
  <2>2. CASE queue = <<>>
    <3>1. UNCHANGED <<queue, toEmu, timer>> /\ Critical' = FALSE
      BY <1>6, <2>2 DEF Socket!RunStarted
    <3>2. Socket!InterruptHasRun'
      BY <2>1, <3>1 DEF Socket!InterruptHasRun
    <3>. QED
      BY <1>3, <2>1, <3>1, <3>2
  <2>3. CASE queue # <<>>
    <3>1. /\ queue' = <<Socket!Blank>> \o queue /\ toEmu' = Append(toEmu, Socket!Blank)
          /\ timer' = TRUE /\ Critical' = FALSE /\ interruptableRunCmd # Socket!NoRun
      <4>1. queue' = <<Socket!Blank>> \o queue /\ Socket!sendSocketCmd(Socket!Blank) /\ Critical
        BY <1>6, <2>3 DEF Socket!RunStarted, Socket!Interrupt
      <4>2. Socket!Blank # Socket!RunLine
        BY DEF Socket!Blank, Socket!RunLine
      <4>. QED
        BY <4>1, <4>2, Written
    <3>2. queue' \in Seq(Socket!Cmds \cup {Socket!Blank}) /\ toEmu' \in Seq(Socket!Lines)
      BY <3>1 DEF Socket!Lines
    <3>3. \A i \in DOMAIN queue : queue[i] # Socket!Blank
      BY <1>6 DEF Socket!InterruptHasRun, Socket!RunStarted
    <3>4. \A i \in DOMAIN queue' : i # 1 => queue'[i] # Socket!Blank
      BY <3>1, <3>3
    <3>5. Socket!InterruptHasRun'
      BY <2>1, <3>1, <3>4 DEF Socket!InterruptHasRun
    <3>. QED
      BY <1>3, <2>1, <3>1, <3>2, <3>5
  <2>. QED
    BY <2>2, <2>3
<1>7. CASE Socket!NoPrompt(texts)
  BY <1>2, <1>3, <1>7 DEF Socket!NoPrompt, Socket!InterruptHasRun, Socket!queueVars
<1>8. CASE Socket!RunReturns(texts, data)
  <2>1. /\ UNCHANGED <<lastCallQueue, answer, thrown>>
        /\ receivedDataChunk' = <<>> /\ interruptableRunCmd' = Socket!NoRun
        /\ interruptableRunCmd \in 1..MaxRuns
        /\ Socket!Answered(texts) \in Socket!Lines \cup {Socket!Mixed}
        /\ runAnswer' = [runAnswer EXCEPT ![interruptableRunCmd] = Socket!Answered(texts)]
    BY <1>2, <1>8, AnsweredType, BoundsAssumption DEF Socket!RunReturns, Socket!Prompt, Socket!NoRun
  <2>2. runAnswer' \in [1..MaxRuns -> Socket!Lines \cup {Socket!Mixed, Socket!NotYet}]
    BY <2>1
  <2>3. /\ queue' \in Seq(Socket!Cmds) /\ toEmu' \in Seq(Socket!Lines) /\ timer' \in BOOLEAN
        /\ Critical' = FALSE
    BY <1>8, SendNextTypes DEF Socket!RunReturns, Socket!NoRun
  <2>4. Socket!InterruptHasRun'
    BY <2>3, CommandsAreNotBlank DEF Socket!InterruptHasRun
  <2>5. queue' \in Seq(Socket!Cmds \cup {Socket!Blank}) /\ receivedDataChunk' \in Seq(Socket!Texts)
    BY <2>1, <2>3, CommandsAreNotBlank
  <2>6. interruptableRunCmd' \in 0..runs' /\ lastCallQueue' \in BOOLEAN /\ thrown' \in BOOLEAN
    BY <1>3, <2>1 DEF Socket!NoRun
  <2>. QED
    BY <1>3, <2>1, <2>2, <2>3, <2>4, <2>5, <2>6
<1>9. CASE Socket!CommandReturns(texts, data)
  <2>1. /\ UNCHANGED <<interruptableRunCmd, runAnswer, thrown>>
        /\ receivedDataChunk' = <<>> /\ lastCallQueue' \in BOOLEAN
        /\ Socket!Answered(texts) \in Socket!Lines \cup {Socket!Mixed}
    BY <1>2, <1>9, AnsweredType DEF Socket!CommandReturns, Socket!Prompt
  <2>2. answer' \in [Socket!Cmds -> Socket!Lines \cup {Socket!Mixed, Socket!NotYet}]
    BY <1>9, <2>1 DEF Socket!CommandReturns
  <2>3. /\ queue' \in Seq(Socket!Cmds) /\ toEmu' \in Seq(Socket!Lines) /\ timer' \in BOOLEAN
        /\ Critical' \in BOOLEAN /\ (Critical' => interruptableRunCmd # Socket!NoRun)
    <3>1. interruptableRunCmd \in Nat
      OBVIOUS
    <3>. QED
      BY <1>9, <3>1, SendNextTypes DEF Socket!CommandReturns
  <2>4. Socket!InterruptHasRun'
    BY <2>3, CommandsAreNotBlank DEF Socket!InterruptHasRun
  <2>5. queue' \in Seq(Socket!Cmds \cup {Socket!Blank}) /\ receivedDataChunk' \in Seq(Socket!Texts)
    BY <2>1, <2>3, CommandsAreNotBlank
  <2>. QED
    BY <1>3, <2>1, <2>2, <2>3, <2>4, <2>5
<1>. QED
  BY <1>4, <1>5, <1>6, <1>7, <1>8, <1>9

-------------------------------------------------------------------------------
\* From phase to phase.

\* Who has received an answer writes the next line: a command, or run if there is a run to go on with.
LEMMA SendNextPhase ==
  ASSUME SockTypes, toEmu = <<>>, Wire(toEmu, <<>>, FALSE)', Socket!sendNext(Socket!Rest, interruptableRunCmd')
  PROVE  (Idle \/ Commanded \/ Starting)' /\ (timer <=> queue # <<>> /\ ~Critical)' /\ queue' = Socket!Rest
<1>1. queue' = Socket!Rest
  BY DEF Socket!sendNext
<1>2. CASE Socket!Rest # <<>>
  <2>1. Socket!sendSocketCmd(queue'[1]) /\ queue' # <<>> /\ queue'[1] \in Socket!Cmds
    BY <1>1, <1>2, RestIsCommands DEF Socket!sendNext
  <2>2. queue'[1] # Socket!RunLine
    BY <2>1 DEF Socket!Cmds, Socket!RunLine
  <2>3. toEmu' = <<queue'[1]>> /\ timer' = TRUE /\ Critical' = FALSE
    BY <2>1, <2>2, Written, OneText
  <2>4. Commanded'
    BY <2>1, <2>3 DEF Commanded, Wire
  <2>. QED
    BY <1>1, <2>1, <2>3, <2>4
<1>3. CASE Socket!Rest = <<>> /\ HasRun'
  <2>1. Socket!sendSocketCmd(Socket!RunLine)
    BY <1>3 DEF Socket!sendNext, HasRun
  <2>2. toEmu' = <<Socket!RunLine>> /\ timer' = FALSE /\ Critical' = TRUE
    BY <2>1, Written, OneText
  <2>3. Starting'
    BY <1>3, <2>2 DEF Starting, Wire
  <2>. QED
    BY <1>1, <1>3, <2>2, <2>3
<1>4. CASE Socket!Rest = <<>> /\ ~HasRun'
  <2>1. toEmu' = <<>> /\ timer' = FALSE /\ Critical' = FALSE
    BY <1>4 DEF Socket!sendNext, HasRun, Critical
  <2>2. Idle'
    BY <1>1, <1>4, <2>1 DEF Idle, Wire
  <2>. QED
    BY <1>1, <1>4, <2>1, <2>2
<1>. QED
  BY <1>2, <1>3, <1>4

\* Without events that cross, the end of a run, on the wire or under way, keeps commands back.
LEMMA AloneOnTheWire ==
  ASSUME ~crossing, Socket!Alone, HasRun
  PROVE  /\ toEmu # <<Socket!Blank>>
         /\ fromEmu # <<RunText("hit")>> /\ fromEmu # <<RunText("stopped")>>
         /\ fromEmu # <<RunText("until"), RunText("hit")>>
<1>1. ~Socket!RunEnds
  BY DEF Socket!Alone, HasRun
<1>2. Socket!Blank \in Socket!ToSet(<<Socket!Blank>>)
  BY OneText
<1>3. RunText("until").text = "until" /\ RunText("hit").text = "hit" /\ RunText("stopped").text = "stopped"
  BY DEF RunText, Socket!Text
<1>4. Socket!Holds(<<RunText("hit")>>, "hit") /\ Socket!Holds(<<RunText("stopped")>>, "stopped")
  BY <1>3, OneText
<1>5. Socket!Holds(<<RunText("until"), RunText("hit")>>, "hit")
  BY <1>3, TwoTexts
<1>. QED
  BY <1>1, <1>2, <1>4, <1>5 DEF Socket!RunEnds

LEMMA SendPhase == SockInv /\ Socket!send => PhaseInv'
<1>. SUFFICES ASSUME SockInv, Socket!send, ~crossing'
              PROVE  Phase' /\ Waiting' /\ Socket!OwnAnswer'
  BY DEF PhaseInv
<1>. DEFINE c == sent'
<1>1. /\ UNCHANGED <<interruptableRunCmd, receivedDataChunk, lastCallQueue, answer, runAnswer, running, fromEmu,
                     crossing>>
      /\ ~crossing /\ Phase /\ Waiting /\ Socket!OwnAnswer
  BY DEF Socket!send, Socket!endVars, Socket!emuVars, SockInv, PhaseInv
<1>2. c \in Socket!Cmds /\ c # Socket!RunLine /\ Socket!Blank # Socket!RunLine
  BY BoundsAssumption DEF Socket!send, SockInv, SockTypes, Socket!Cmds, Socket!RunLine, Socket!Blank
<1>3. queue \in Seq(Socket!Cmds \cup {Socket!Blank}) /\ toEmu \in Seq(Socket!Lines) /\ Critical \in BOOLEAN
  BY DEF SockInv, SockTypes, Socket!TypeOK
<1>4. Socket!OwnAnswer'
  BY <1>1 DEF Socket!OwnAnswer
<1>5. CASE queue = <<>> /\ ~Critical /\ HasRun
  <2>1. queue' = <<Socket!Blank>> \o <<c>> /\ Socket!sendSocketCmd(Socket!Blank) /\ Socket!Alone
    BY <1>5 DEF Socket!send, Socket!Enqueue, Socket!Interrupt, HasRun, Critical
  <2>2. queue' # <<>> /\ queue'[1] = Socket!Blank
    <3>1. /\ <<Socket!Blank>> \in Seq({c, Socket!Blank})
          /\ Len(<<Socket!Blank>>) = 1 /\ <<Socket!Blank>>[1] = Socket!Blank
      OBVIOUS
    <3>2. <<c>> \in Seq({c, Socket!Blank}) /\ Len(<<c>>) = 1
      OBVIOUS
    <3>3. Len(queue') = 2 /\ queue'[1] = Socket!Blank
      BY <2>1, <3>1, <3>2, ConcatProperties
    <3>. QED
      BY <3>3
  <2>3. Wire(<<>>, <<>>, TRUE)
    BY <1>1, <1>5, <2>1, AloneOnTheWire DEF Phase, Idle, Commanded, Starting, Started, Interrupted, Wire
  <2>4. toEmu' = <<Socket!Blank>> /\ timer' = TRUE /\ Critical' = FALSE
    BY <1>2, <2>1, <2>3, Written, OneText DEF Wire
  <2>5. Interrupted'
    BY <1>1, <1>5, <2>2, <2>3, <2>4 DEF Interrupted, Wire, HasRun
  <2>. QED
    BY <1>1, <1>4, <2>2, <2>4, <2>5 DEF Phase, Waiting
<1>6. CASE queue = <<>> /\ ~Critical /\ ~HasRun
  <2>1. queue' = <<c>> /\ Socket!sendSocketCmd(c)
    BY <1>6 DEF Socket!send, Socket!Enqueue, HasRun, Critical
  <2>2. Wire(<<>>, <<>>, FALSE)
    BY <1>1, <1>6 DEF Phase, Idle, Commanded, Starting, Started, Interrupted
  <2>3. toEmu' = <<c>> /\ timer' = TRUE /\ Critical' = FALSE
    BY <1>2, <2>1, <2>2, Written, OneText DEF Wire
  <2>4. queue' # <<>> /\ queue'[1] = c
    BY <2>1
  <2>5. Commanded'
    BY <1>1, <1>2, <2>2, <2>3, <2>4 DEF Commanded, Wire
  <2>. QED
    BY <1>1, <1>4, <2>3, <2>4, <2>5 DEF Phase, Waiting
<1>7. CASE ~(queue = <<>> /\ ~Critical)
  <2>1. queue' = Append(queue, c) /\ UNCHANGED <<toEmu, timer, interruptableRunCmdCriticalPhase>>
        /\ (Socket!Alone \/ queue # <<>>)
    BY <1>7 DEF Socket!send, Socket!Enqueue, Critical
  <2>2. queue' # <<>> /\ (queue # <<>> => queue'[1] = queue[1])
    BY <1>2, <1>3, <2>1
  <2>3. Waiting'
    BY <1>1, <1>7, <2>1, <2>2 DEF Waiting, Critical
  <2>4. CASE Commanded
    <3>1. queue'[1] = queue[1] /\ queue' # <<>>
      BY <2>2, <2>4 DEF Commanded
    <3>2. Commanded'
      BY <1>1, <2>1, <2>4, <3>1 DEF Commanded, Wire, Critical
    <3>. QED
      BY <1>4, <2>3, <3>2 DEF Phase
  <2>5. CASE Interrupted
    <3>1. queue'[1] = queue[1] /\ queue' # <<>>
      BY <2>2, <2>5 DEF Interrupted
    <3>2. Interrupted'
      BY <1>1, <2>1, <2>5, <3>1 DEF Interrupted, Wire, Critical, HasRun
    <3>. QED
      BY <1>4, <2>3, <3>2 DEF Phase
  <2>6. CASE Starting
    <3>1. ~(queue = <<>> /\ Wire(<<>>, <<RunText("until"), RunText("hit")>>, FALSE))
      BY <1>1, <2>1, <2>6, AloneOnTheWire DEF Wire, Starting
    <3>2. Starting'
      BY <1>1, <2>1, <2>6, <3>1 DEF Starting, Wire, Critical, HasRun
    <3>. QED
      BY <1>4, <2>3, <3>2 DEF Phase
  <2>7. ~Idle /\ ~Started
    BY <1>7 DEF Idle, Started
  <2>. QED
    BY <1>1, <1>4, <2>3, <2>4, <2>5, <2>6, <2>7 DEF Phase
<1>. QED
  BY <1>5, <1>6, <1>7

LEMMA RunPhase == SockInv /\ Socket!sendInterruptableRunCmd => PhaseInv'
<1>. SUFFICES ASSUME SockInv, Socket!sendInterruptableRunCmd, ~crossing'
              PROVE  Phase' /\ Waiting' /\ Socket!OwnAnswer'
  BY DEF PhaseInv
<1>1. /\ UNCHANGED <<queue, receivedDataChunk, lastCallQueue, answer, runAnswer, running, fromEmu, crossing>>
      /\ ~crossing /\ Phase /\ Waiting /\ Socket!OwnAnswer /\ ~HasRun
  BY DEF Socket!sendInterruptableRunCmd, Socket!endVars, Socket!emuVars, SockInv, PhaseInv, HasRun
<1>2. HasRun'
  BY BoundsAssumption DEF Socket!sendInterruptableRunCmd, HasRun, SockInv, SockTypes, Socket!NoRun
<1>3. Socket!OwnAnswer'
  BY <1>1 DEF Socket!OwnAnswer
<1>4. CASE Idle
  <2>1. Socket!sendSocketCmd(Socket!RunLine) /\ toEmu = <<>>
    BY <1>4 DEF Socket!sendInterruptableRunCmd, Idle, Wire
  <2>2. toEmu' = <<Socket!RunLine>> /\ timer' = FALSE /\ Critical' = TRUE
    BY <2>1, Written, OneText
  <2>3. Starting'
    BY <1>1, <1>2, <1>4, <2>2 DEF Idle, Starting, Wire
  <2>. QED
    BY <1>1, <1>3, <2>2, <2>3 DEF Phase, Waiting
<1>5. CASE Commanded
  <2>1. UNCHANGED <<toEmu, timer, interruptableRunCmdCriticalPhase>>
    BY <1>5 DEF Socket!sendInterruptableRunCmd, Commanded
  <2>2. Commanded'
    BY <1>1, <1>5, <2>1 DEF Commanded, Wire, Critical
  <2>3. Waiting'
    BY <1>1, <2>1 DEF Waiting, Critical
  <2>. QED
    BY <1>3, <2>2, <2>3 DEF Phase
<1>. QED
  BY <1>1, <1>4, <1>5 DEF Phase, Starting, Started, Interrupted

LEMMA BlankPhase == SockInv /\ Socket!sendBlank => PhaseInv'
<1>. SUFFICES ASSUME SockInv, Socket!sendBlank, ~crossing'
              PROVE  Phase' /\ Waiting' /\ Socket!OwnAnswer'
  BY DEF PhaseInv
<1>1. /\ UNCHANGED <<queue, interruptableRunCmd, interruptableRunCmdCriticalPhase, timer, receivedDataChunk,
                     lastCallQueue, answer, runAnswer, running, fromEmu, crossing>>
      /\ ~crossing /\ Phase /\ Waiting /\ Socket!OwnAnswer
      /\ HasRun /\ running /\ queue = <<>> /\ ~Socket!RunEnds /\ ~Critical
      /\ toEmu' = Append(toEmu, Socket!Blank)
  BY DEF Socket!sendBlank, Socket!queueVars, Socket!endVars, Socket!emuVars, SockInv, PhaseInv, HasRun, Critical
<1>2. Socket!Alone
  BY <1>1 DEF Socket!Alone
<1>3. Started /\ Wire(<<>>, <<>>, TRUE)
  <2>1. Started
    BY <1>1 DEF Phase, Idle, Commanded, Starting, Interrupted
  <2>2. toEmu # <<Socket!Blank>>
    BY <1>1, <1>2, AloneOnTheWire
  <2>. QED
    BY <1>1, <2>1, <2>2 DEF Started, Wire
<1>4. toEmu' = <<Socket!Blank>>
  BY <1>1, <1>3, OneText DEF Wire
<1>5. Started'
  BY <1>1, <1>3, <1>4 DEF Started, Wire, HasRun, Critical
<1>6. Waiting' /\ Socket!OwnAnswer'
  BY <1>1 DEF Waiting, Critical, Socket!OwnAnswer
<1>. QED
  BY <1>5, <1>6 DEF Phase

LEMMA WaitPhase == SockInv /\ Socket!executeWhenQueueIsEmpty => PhaseInv'
BY DEF Socket!executeWhenQueueIsEmpty, Socket!queueVars, Socket!callVars, Socket!emuVars, SockInv, PhaseInv, Phase,
       Idle, Commanded, Starting, Started, Interrupted, Wire, HasRun, Critical, Waiting, Socket!OwnAnswer

\* What ZEsarUX does with a line.
LEMMA EmuLinePhase == SockInv /\ Socket!EmuLine => PhaseInv'
<1>. SUFFICES ASSUME SockInv, Socket!EmuLine, ~crossing'
              PROVE  Phase' /\ Waiting' /\ Socket!OwnAnswer'
  BY DEF PhaseInv
<1>1. /\ UNCHANGED <<queue, interruptableRunCmd, interruptableRunCmdCriticalPhase, timer, receivedDataChunk,
                     lastCallQueue, answer, runAnswer, crossing>>
      /\ ~crossing /\ Phase /\ Waiting /\ Socket!OwnAnswer
  BY DEF Socket!EmuLine, Socket!queueVars, Socket!endVars, SockInv, PhaseInv
<1>2. Waiting' /\ Socket!OwnAnswer'
  BY <1>1 DEF Waiting, Critical, Socket!OwnAnswer
<1>3. PICK line : toEmu = <<line>> /\ fromEmu = <<>>
  BY <1>1 DEF Socket!EmuLine, Phase, Idle, Commanded, Starting, Started, Interrupted, Wire
<1>4. /\ toEmu' = <<>> /\ Head(toEmu) = line
      /\ running' = (~running /\ line = Socket!RunLine)
      /\ fromEmu' = <<IF running THEN Socket!Text("stopped", Socket!RunLine)
                      ELSE IF line = Socket!RunLine THEN Socket!Text("until", Socket!RunLine)
                      ELSE Socket!Text("answer", line)>>
  BY <1>3, OneText DEF Socket!EmuLine
<1>5. Socket!RunLine \notin Socket!Cmds /\ Socket!Blank # Socket!RunLine
  BY DEF Socket!RunLine, Socket!Cmds, Socket!Blank
<1>6. CASE Commanded
  <2>1. line = queue[1] /\ ~running /\ line # Socket!RunLine
    BY <1>3, <1>5, <1>6 DEF Commanded, Wire
  <2>2. Wire(<<>>, <<Socket!Text("answer", queue[1])>>, FALSE)'
    BY <1>1, <1>4, <2>1 DEF Wire
  <2>3. Commanded'
    BY <1>1, <1>6, <2>2 DEF Commanded, Critical
  <2>. QED
    BY <1>2, <2>3 DEF Phase
<1>7. CASE Starting
  <2>1. line = Socket!RunLine /\ ~running
    BY <1>3, <1>7 DEF Starting, Wire
  <2>2. Wire(<<>>, <<RunText("until")>>, TRUE)'
    BY <1>4, <2>1 DEF Wire, RunText
  <2>3. Starting'
    BY <1>1, <1>7, <2>2 DEF Starting, Critical, HasRun
  <2>. QED
    BY <1>2, <2>3 DEF Phase
<1>8. CASE Started \/ Interrupted
  <2>1. running = TRUE
    BY <1>3, <1>8 DEF Started, Interrupted, Wire
  <2>2. Wire(<<>>, <<RunText("stopped")>>, FALSE)'
    BY <1>4, <2>1 DEF Wire, RunText
  <2>3. (Started \/ Interrupted)'
    BY <1>1, <1>8, <2>2 DEF Started, Interrupted, Critical, HasRun
  <2>. QED
    BY <1>2, <2>3 DEF Phase
<1>. QED
  BY <1>1, <1>3, <1>6, <1>7, <1>8 DEF Phase, Idle, Wire

LEMMA EmuHitPhase == SockInv /\ Socket!EmuHit => PhaseInv'
<1>. SUFFICES ASSUME SockInv, Socket!EmuHit, ~crossing'
              PROVE  Phase' /\ Waiting' /\ Socket!OwnAnswer'
  BY DEF PhaseInv
<1>1. /\ UNCHANGED <<queue, interruptableRunCmd, interruptableRunCmdCriticalPhase, timer, receivedDataChunk,
                     lastCallQueue, answer, runAnswer, toEmu, crossing>>
      /\ ~crossing /\ Phase /\ Waiting /\ Socket!OwnAnswer
      /\ running /\ toEmu = <<>> /\ queue = <<>> /\ running' = FALSE /\ fromEmu' = Append(fromEmu, RunText("hit"))
  BY DEF Socket!EmuHit, Socket!queueVars, Socket!endVars, SockInv, PhaseInv, RunText
<1>2. Waiting' /\ Socket!OwnAnswer'
  BY <1>1 DEF Waiting, Critical, Socket!OwnAnswer
<1>3. CASE Starting
  <2>1. fromEmu = <<RunText("until")>>
    BY <1>1, <1>3 DEF Starting, Wire
  <2>2. Wire(<<>>, <<RunText("until"), RunText("hit")>>, FALSE)'
    BY <1>1, <2>1, TwoTexts DEF Wire
  <2>3. Starting'
    BY <1>1, <1>3, <2>2 DEF Starting, Critical, HasRun
  <2>. QED
    BY <1>2, <2>3 DEF Phase
<1>4. CASE Started
  <2>1. fromEmu = <<>>
    BY <1>1, <1>4 DEF Started, Wire
  <2>2. Wire(<<>>, <<RunText("hit")>>, FALSE)'
    BY <1>1, <2>1, OneText DEF Wire
  <2>3. Started'
    BY <1>1, <1>4, <2>2 DEF Started, Critical, HasRun
  <2>. QED
    BY <1>2, <2>3 DEF Phase
<1>. QED
  BY <1>1, <1>3, <1>4 DEF Phase, Idle, Commanded, Interrupted, Wire

\* The run returns: it was alone, and its handler is called with its end.
LEMMA ReturnPhase ==
  ASSUME SockInv, ~crossing, Waiting, Socket!OwnAnswer, NEW texts, NEW data, Socket!RunReturns(texts, data),
         queue = <<>>, toEmu = <<>>, fromEmu' = <<>>, running' = FALSE, Socket!Answered(texts) = Socket!RunLine
  PROVE  Phase' /\ Waiting' /\ Socket!OwnAnswer'
<1>1. /\ receivedDataChunk' = <<>> /\ UNCHANGED <<lastCallQueue, answer>>
      /\ interruptableRunCmd' = Socket!NoRun
      /\ Socket!sendNext(Socket!Rest, Socket!NoRun)
      /\ runAnswer' = [runAnswer EXCEPT ![interruptableRunCmd] = Socket!RunLine]
  BY DEF Socket!RunReturns, Socket!Prompt
<1>2. Socket!Rest = <<>>
  BY DEF Socket!Rest
<1>3. queue' = <<>> /\ toEmu' = <<>> /\ timer' = FALSE /\ Critical' = FALSE
  BY <1>1, <1>2 DEF Socket!sendNext, Critical
<1>4. Idle'
  BY <1>1, <1>3 DEF Idle, HasRun, Wire
<1>5. Waiting'
  BY <1>1, <1>3 DEF Waiting
<1>6. runAnswer \in [1..MaxRuns -> Socket!Lines \cup {Socket!Mixed, Socket!NotYet}]
  BY DEF SockInv, SockTypes, Socket!TypeOK
<1>7. \A r \in 1..MaxRuns : runAnswer'[r] \in {runAnswer[r], Socket!RunLine}
  BY <1>1, <1>6
<1>8. Socket!OwnAnswer'
  BY <1>1, <1>7 DEF Socket!OwnAnswer
<1>. QED
  BY <1>4, <1>5, <1>8 DEF Phase

\* A command, or an interruption, returns: the handler at the head is called with its own answer.
LEMMA CommandPhase ==
  ASSUME SockInv, ~crossing, Waiting, Socket!OwnAnswer, NEW texts, NEW data, Socket!CommandReturns(texts, data),
         queue # <<>>, toEmu = <<>>, fromEmu' = <<>>, running' = FALSE,
         queue[1] = Socket!Blank \/ Socket!Answered(texts) = queue[1]
  PROVE  Phase' /\ Waiting' /\ Socket!OwnAnswer'
<1>1. /\ receivedDataChunk' = <<>> /\ UNCHANGED <<interruptableRunCmd, runAnswer>>
      /\ Socket!sendNext(Socket!Rest, interruptableRunCmd)
      /\ lastCallQueue' = (lastCallQueue /\ Socket!Rest # <<>>)
      /\ answer' = IF queue = <<>> \/ Head(queue) = Socket!Blank THEN answer
                   ELSE [answer EXCEPT ![Head(queue)] = Socket!Answered(texts)]
  BY DEF Socket!CommandReturns, Socket!Prompt
<1>2. SockTypes /\ Socket!sendNext(Socket!Rest, interruptableRunCmd') /\ Wire(toEmu, <<>>, FALSE)'
  BY <1>1 DEF SockInv, Wire
<1>3. (Idle \/ Commanded \/ Starting)' /\ (timer <=> queue # <<>> /\ ~Critical)' /\ queue' = Socket!Rest
  BY <1>2, SendNextPhase
<1>4. Waiting'
  BY <1>1, <1>3 DEF Waiting
<1>5. /\ queue \in Seq(Socket!Cmds \cup {Socket!Blank})
      /\ answer \in [Socket!Cmds -> Socket!Lines \cup {Socket!Mixed, Socket!NotYet}]
  BY DEF SockInv, SockTypes, Socket!TypeOK
<1>6. Head(queue) = queue[1]
  BY <1>5
<1>7. answer' = answer \/ answer' = [answer EXCEPT ![queue[1]] = queue[1]]
  BY <1>1, <1>6
<1>8. \A c \in Socket!Cmds : answer'[c] \in {answer[c], c}
  BY <1>5, <1>7
<1>9. Socket!OwnAnswer'
  BY <1>1, <1>8 DEF Socket!OwnAnswer
<1>. QED
  BY <1>3, <1>4, <1>9 DEF Phase

LEMMA ReceivedOne ==
  ASSUME NEW t, fromEmu = <<t>>, receivedDataChunk = <<>>, Socket!Receive
  PROVE  /\ fromEmu' = <<>> /\ UNCHANGED <<running, crossing>>
         /\ \/ Socket!AssertionFails(<<t>>) \/ Socket!RunStarted(<<t>>) \/ Socket!NoPrompt(<<t>>)
            \/ Socket!RunReturns(<<t>>, <<t>>) \/ Socket!CommandReturns(<<t>>, <<t>>)
<1>1. Socket!receiveSocket(1) /\ Len(fromEmu) = 1
  BY OneText DEF Socket!Receive
<1>2. /\ SubSeq(fromEmu, 1, 1) = <<t>> /\ receivedDataChunk \o <<t>> = <<t>>
      /\ SubSeq(fromEmu, 1 + 1, Len(fromEmu)) = <<>>
  BY <1>1, OneText
<1>. QED
  BY <1>1, <1>2 DEF Socket!receiveSocket

LEMMA ReceivedTwo ==
  ASSUME NEW t, NEW u, fromEmu = <<t, u>>, receivedDataChunk = <<>>, Socket!Receive
  PROVE  /\ UNCHANGED <<running, crossing>>
         /\ \/ /\ fromEmu' = <<u>>
               /\ \/ Socket!AssertionFails(<<t>>) \/ Socket!RunStarted(<<t>>) \/ Socket!NoPrompt(<<t>>)
                  \/ Socket!RunReturns(<<t>>, <<t>>) \/ Socket!CommandReturns(<<t>>, <<t>>)
            \/ /\ fromEmu' = <<>>
               /\ \/ Socket!AssertionFails(<<t, u>>) \/ Socket!RunStarted(<<t, u>>) \/ Socket!NoPrompt(<<t, u>>)
                  \/ Socket!RunReturns(<<t, u>>, <<t, u>>) \/ Socket!CommandReturns(<<t, u>>, <<t, u>>)
<1>1. Len(fromEmu) = 2
  BY TwoTexts
<1>2. PICK k \in {1, 2} : Socket!receiveSocket(k)
  BY <1>1 DEF Socket!Receive
<1>3. CASE k = 1
  <2>1. /\ SubSeq(fromEmu, 1, 1) = <<t>> /\ receivedDataChunk \o <<t>> = <<t>>
        /\ SubSeq(fromEmu, 1 + 1, Len(fromEmu)) = <<u>>
    <3>1. SubSeq(<<t, u>>, 1, 1) = <<t>> /\ SubSeq(<<t, u>>, 2, 2) = <<u>>
      BY ONLY TwoTexts
    <3>2. <<>> \o <<t>> = <<t>>
      BY ONLY OneText
    <3>3. 1 + 1 = 2
      OBVIOUS
    <3>. QED
      BY ONLY <1>1, <3>1, <3>2, <3>3, fromEmu = <<t, u>>, receivedDataChunk = <<>>
  <2>. QED
    BY <1>2, <1>3, <2>1 DEF Socket!receiveSocket
<1>4. CASE k = 2
  <2>1. /\ SubSeq(fromEmu, 1, 2) = <<t, u>> /\ receivedDataChunk \o <<t, u>> = <<t, u>>
        /\ SubSeq(fromEmu, 2 + 1, Len(fromEmu)) = <<>>
    <3>1. SubSeq(<<t, u>>, 1, 2) = <<t, u>> /\ SubSeq(<<t, u>>, 3, 2) = <<>> /\ <<>> \o <<t, u>> = <<t, u>>
      BY ONLY TwoTexts
    <3>2. 2 + 1 = 3
      OBVIOUS
    <3>. QED
      BY ONLY <1>1, <3>1, <3>2, fromEmu = <<t, u>>, receivedDataChunk = <<>>
  <2>. QED
    BY <1>2, <1>4, <2>1 DEF Socket!receiveSocket
<1>. QED
  BY <1>2, <1>3, <1>4

\* "Running until" ends the critical phase: a command that came in meanwhile interrupts the run now.
LEMMA StartedPhase ==
  ASSUME SockInv, ~crossing, Waiting, Socket!OwnAnswer, HasRun, NEW texts, Socket!RunStarted(texts), toEmu = <<>>,
         \/ fromEmu' = <<>> /\ running' = TRUE
         \/ queue = <<>> /\ fromEmu' = <<RunText("hit")>> /\ running' = FALSE
  PROVE  Phase' /\ Waiting' /\ Socket!OwnAnswer'
<1>1. UNCHANGED <<interruptableRunCmd, lastCallQueue, answer, runAnswer>> /\ receivedDataChunk' = <<>> /\ Critical
  BY DEF Socket!RunStarted, Critical
<1>2. Socket!OwnAnswer'
  BY <1>1 DEF Socket!OwnAnswer
<1>3. CASE queue = <<>>
  <2>1. queue' = <<>> /\ toEmu' = <<>> /\ Critical' = FALSE /\ timer' = timer
    BY <1>3 DEF Socket!RunStarted, Critical
  <2>2. Started'
    BY <1>1, <2>1 DEF Started, Wire, HasRun
  <2>3. Waiting'
    BY <1>1, <1>3, <2>1 DEF Waiting
  <2>. QED
    BY <1>2, <2>2, <2>3 DEF Phase
<1>4. CASE queue # <<>>
  <2>1. queue' = <<Socket!Blank>> \o queue /\ Socket!sendSocketCmd(Socket!Blank)
    BY <1>4 DEF Socket!RunStarted, Socket!Interrupt
  <2>2. queue \in Seq(Socket!Cmds \cup {Socket!Blank})
    BY DEF SockInv, SockTypes, Socket!TypeOK
  <2>3. queue' # <<>> /\ queue'[1] = Socket!Blank
    <3>1. /\ <<Socket!Blank>> \in Seq(Socket!Cmds \cup {Socket!Blank})
          /\ Len(<<Socket!Blank>>) = 1 /\ <<Socket!Blank>>[1] = Socket!Blank
      OBVIOUS
    <3>2. Len(queue') = Len(queue) + 1 /\ queue'[1] = Socket!Blank
      BY <2>1, <2>2, <3>1, ConcatProperties
    <3>. QED
      BY <2>2, <3>2
  <2>4. Socket!Blank # Socket!RunLine
    BY DEF Socket!Blank, Socket!RunLine
  <2>5. toEmu' = <<Socket!Blank>> /\ timer' = TRUE /\ Critical' = FALSE
    BY <2>1, <2>4, Written, OneText
  <2>6. Interrupted'
    BY <1>1, <1>4, <2>3, <2>5 DEF Interrupted, Wire, HasRun
  <2>7. Waiting'
    BY <1>1, <2>3, <2>5 DEF Waiting
  <2>. QED
    BY <1>2, <2>6, <2>7 DEF Phase
<1>. QED
  BY <1>3, <1>4

LEMMA ReceivePhase == SockInv /\ Socket!Receive => PhaseInv'
<1>. SUFFICES ASSUME SockInv, Socket!Receive, ~crossing'
              PROVE  Phase' /\ Waiting' /\ Socket!OwnAnswer'
  BY DEF PhaseInv
<1>1. crossing' = crossing /\ running' = running
  BY DEF Socket!Receive, Socket!receiveSocket
<1>2. ~crossing /\ Phase /\ Waiting /\ Socket!OwnAnswer /\ receivedDataChunk = <<>>
  BY <1>1 DEF SockInv, PhaseInv, Waiting
<1>3. fromEmu # <<>>
  BY NoText DEF Socket!Receive
<1>4. RunText("until").text = "until" /\ RunText("hit").text = "hit" /\ RunText("stopped").text = "stopped"
      /\ RunText("hit").of = Socket!RunLine /\ RunText("stopped").of = Socket!RunLine
  BY DEF RunText, Socket!Text
<1>5. CASE Commanded
  <2>. DEFINE t == Socket!Text("answer", queue[1])
  <2>1. fromEmu = <<t>> /\ toEmu = <<>> /\ running = FALSE /\ queue # <<>> /\ ~Critical
    BY <1>3, <1>5 DEF Commanded, Wire
  <2>2. t.text = "answer" /\ t.of = queue[1]
    BY DEF Socket!Text
  <2>. HIDE DEF t
  <2>3. Head(<<t>>) = t /\ Socket!Last(<<t>>) = t /\ ~Socket!Holds(<<t>>, "hit") /\ Socket!Answered(<<t>>) = queue[1]
    BY <2>2, OneText, AnsweredOne
  <2>4. /\ ~Socket!AssertionFails(<<t>>) /\ ~Socket!RunStarted(<<t>>) /\ ~Socket!NoPrompt(<<t>>)
        /\ ~Socket!RunReturns(<<t>>, <<t>>)
    BY <2>1, <2>2, <2>3 DEF Socket!AssertionFails, Socket!RunStarted, Socket!NoPrompt, Socket!RunReturns, Critical
  <2>5. Socket!CommandReturns(<<t>>, <<t>>) /\ fromEmu' = <<>>
    BY <1>2, <2>1, <2>4, ReceivedOne
  <2>. QED
    BY <1>1, <1>2, <2>1, <2>3, <2>5, CommandPhase
<1>6. CASE Starting
  <2>1. HasRun /\ Critical /\ toEmu = <<>>
    BY <1>3, <1>6 DEF Starting, Wire
  <2>2. Head(<<RunText("until")>>) = RunText("until") /\ Socket!Last(<<RunText("until")>>) = RunText("until")
    BY OneText
  <2>3. \A data : /\ ~Socket!AssertionFails(<<RunText("until")>>) /\ ~Socket!NoPrompt(<<RunText("until")>>)
                  /\ ~Socket!RunReturns(<<RunText("until")>>, data)
                  /\ ~Socket!CommandReturns(<<RunText("until")>>, data)
    BY <1>4, <2>1, <2>2
    DEF Socket!AssertionFails, Socket!NoPrompt, Socket!RunReturns, Socket!CommandReturns, Socket!Prompt, Critical
  <2>4. CASE fromEmu = <<RunText("until")>> /\ running = TRUE
    <3>1. Socket!RunStarted(<<RunText("until")>>) /\ fromEmu' = <<>>
      BY <1>2, <2>3, <2>4, ReceivedOne
    <3>. QED
      BY <1>1, <1>2, <2>1, <2>4, <3>1, StartedPhase
  <2>5. CASE queue = <<>> /\ fromEmu = <<RunText("until"), RunText("hit")>> /\ running = FALSE
    <3>. DEFINE both == <<RunText("until"), RunText("hit")>>
    <3>1. Head(both) = RunText("until") /\ Socket!Last(both) = RunText("hit") /\ Len(both) = 2
          /\ Socket!Answered(both) = Socket!RunLine
      <4>1. Head(both) = RunText("until") /\ Socket!Last(both) = RunText("hit") /\ Len(both) = 2
        BY TwoTexts
      <4>2. Socket!Answered(both) = RunText("hit").of
        <5>1. RunText("until").text = "until" /\ RunText("hit").text # "until"
          BY <1>4
        <5>. QED
          BY <5>1, AnsweredTwo
      <4>. QED
        BY <1>4, <4>1, <4>2
    <3>2. /\ ~Socket!AssertionFails(both) /\ ~Socket!RunStarted(both) /\ ~Socket!NoPrompt(both)
          /\ ~Socket!CommandReturns(both, both)
      <4>. HIDE DEF both
      <4>. QED
        BY <1>4, <2>1, <2>5, <3>1
        DEF Socket!AssertionFails, Socket!RunStarted, Socket!NoPrompt, Socket!CommandReturns, Critical, HasRun
    <3>3. \/ fromEmu' = <<RunText("hit")>> /\ Socket!RunStarted(<<RunText("until")>>)
          \/ fromEmu' = <<>> /\ Socket!RunReturns(both, both)
      BY <1>2, <2>3, <2>5, <3>2, ReceivedTwo
    <3>4. CASE fromEmu' = <<RunText("hit")>> /\ Socket!RunStarted(<<RunText("until")>>)
      BY <1>1, <1>2, <2>1, <2>5, <3>4, StartedPhase
    <3>5. CASE fromEmu' = <<>> /\ Socket!RunReturns(both, both)
      <4>. HIDE DEF both
      <4>. QED
        BY <1>1, <1>2, <2>1, <2>5, <3>1, <3>5, ReturnPhase
    <3>. QED
      BY <3>3, <3>4, <3>5
  <2>. QED
    BY <1>3, <1>6, <2>4, <2>5 DEF Starting, Wire
<1>7. CASE Started \/ Interrupted
  <2>1. PICK t \in {RunText("hit"), RunText("stopped")} :
          /\ fromEmu = <<t>> /\ toEmu = <<>> /\ running = FALSE /\ HasRun /\ ~Critical
          /\ Interrupted => t = RunText("stopped")
    BY <1>3, <1>7 DEF Started, Interrupted, Wire
  <2>2. t.text # "until" /\ t.of = Socket!RunLine /\ (Interrupted => t.text # "hit")
    BY <1>4, <2>1
  <2>3. Head(<<t>>) = t /\ Socket!Last(<<t>>) = t /\ Socket!Answered(<<t>>) = Socket!RunLine
        /\ (Interrupted => ~Socket!Holds(<<t>>, "hit"))
    BY <2>2, OneText, AnsweredOne
  <2>4. /\ fromEmu' = <<>>
        /\ Socket!RunReturns(<<t>>, <<t>>) \/ Socket!CommandReturns(<<t>>, <<t>>)
    <3>1. ~Socket!AssertionFails(<<t>>) /\ ~Socket!RunStarted(<<t>>) /\ ~Socket!NoPrompt(<<t>>)
      BY <2>1, <2>2, <2>3 DEF Socket!AssertionFails, Socket!RunStarted, Socket!NoPrompt, Critical
    <3>. QED
      BY <1>2, <2>1, <3>1, ReceivedOne
  <2>5. CASE Started
    <3>1. queue = <<>>
      BY <2>5 DEF Started
    <3>2. Socket!RunReturns(<<t>>, <<t>>)
      BY <2>1, <2>4, <3>1 DEF Socket!CommandReturns, HasRun
    <3>. QED
      BY <1>1, <1>2, <2>1, <2>3, <2>4, <3>1, <3>2, ReturnPhase
  <2>6. CASE Interrupted
    <3>1. queue # <<>> /\ queue[1] = Socket!Blank
      BY <2>6 DEF Interrupted
    <3>2. Socket!CommandReturns(<<t>>, <<t>>)
      BY <2>3, <2>4, <2>6, <3>1 DEF Socket!RunReturns
    <3>. QED
      BY <1>1, <1>2, <2>1, <2>4, <3>1, <3>2, CommandPhase
  <2>. QED
    BY <1>7, <2>5, <2>6
<1>. QED
  BY <1>2, <1>3, <1>5, <1>6, <1>7 DEF Phase, Idle, Wire

-------------------------------------------------------------------------------
LEMMA SockNextInv ==
  SockInv /\ [Socket!Next]_socketQueueVars => SockInv'
<1>1. ASSUME SockInv, Socket!Next
      PROVE  SockInv'
  BY <1>1, SendTypes, RunTypes, OtherTypes, ReceiveTypes, SendPhase, RunPhase, BlankPhase, WaitPhase, ReceivePhase,
     EmuLinePhase, EmuHitPhase
  DEF Socket!Next, SockInv
<1>2. ASSUME SockInv, UNCHANGED socketQueueVars
      PROVE  SockInv'
  BY <1>2 DEF socketQueueVars, SockInv, SockTypes, PhaseInv, Phase, Idle, Commanded, Starting, Started, Interrupted,
       Wire, HasRun, Critical, Waiting, Socket!OwnAnswer, Socket!TypeOK, Socket!InterruptHasRun
<1>. QED
  BY <1>1, <1>2

\* The other connections leave the queue of commands alone.
LEMMA OnlySocket ==
  [MCNext]_<<part, allVars, socketQueueVars, dzrpVars, mameVars>> => [Socket!Next]_socketQueueVars
BY DEF MCNext

(* However many commands are sent, whenever a run is started, interrupted  *)
(* by a command, paused by the button or ended by a breakpoint, and        *)
(* wherever the texts of ZEsarUX are cut: unless events cross on the wire  *)
(* every handler of the queue of ZesaruxSocket is called with the answer   *)
(* to its own command, commands go out one by one and none waits without   *)
(* a timer; and whatever crosses, an interruption has a run to go on with. *)
THEOREM OwnAnswers == MCSpec => []OwnAnswer
BY SockInitInv, SockNextInv, OnlySocket, PhaseIsSafe, PTL DEF MCSpec
-------------------------------------------------------------------------------
(* The receiver of DZRP messages.  What has been received and what is on   *)
(* its way is one sequence of bytes: the messages from cur to last, the    *)
(* message m behind start[m] bytes.                                        *)

Byte == (1..Len(Lengths)) \X Nat
Size(m) == 4 + Lengths[m]

Laid(bytes, cur, last, start) ==
  /\ cur \in 1..(last + 1) /\ last \in 0..Len(Lengths)
  /\ bytes \in Seq(Byte)
  /\ start \in [cur..(last + 1) -> Nat] /\ start[cur] = 0 /\ Len(bytes) = start[last + 1]
  /\ \A m \in cur..last : start[m + 1] = start[m] + Size(m)
  /\ \A m, n \in cur..(last + 1) : m <= n => start[m] <= start[n]
  /\ \A m \in cur..last : \A k \in 1..Size(m) : bytes[start[m] + k] = <<m, k>>

\* The messages that have been handled, the last one perhaps cur itself.
Handled(cur, numbers) ==
  /\ numbers \in [1..Len(delivered) -> 1..dzrpSent]
  /\ \A i \in 1..Len(delivered) :
       /\ delivered[i] = Dzrp!Payload(numbers[i])
       /\ LET before == IF i = 1 THEN 0 ELSE numbers[i - 1]
          IN  numbers[i] = before + 1 \/ (handlerThrown /\ numbers[i] = before)
  /\ LET last == IF Len(delivered) = 0 THEN 0 ELSE numbers[Len(delivered)]
     IN  cur = last + 1 \/ (handlerThrown /\ cur = last)
  /\ ~handlerThrown => cur = Len(delivered) + 1

HeaderOf(cur) ==
  IF receivingHeader THEN expectedLength = 4 ELSE cur <= dzrpSent /\ expectedLength = Size(cur)

DzrpTypes ==
  /\ dzrpSent \in 0..Len(Lengths)
  /\ receivedData \in Seq(Byte) /\ net \in Seq(Byte) /\ delivered \in Seq(Seq(Byte))
  /\ receivingHeader \in BOOLEAN /\ chunkTimer \in BOOLEAN /\ parsing \in BOOLEAN /\ handlerThrown \in BOOLEAN

Attended ==
  /\ parsing => receivedData # <<>>
  /\ ~parsing /\ (chunkTimer \/ ~handlerThrown) => Len(receivedData) < expectedLength
  /\ ~parsing /\ chunkTimer => receivedData # <<>>

DzrpInv ==
  /\ DzrpTypes /\ Attended
  /\ \E cur \in 1..(dzrpSent + 1) :
       /\ HeaderOf(cur)
       /\ \E start : Laid(receivedData \o net, cur, dzrpSent, start)
       /\ \E numbers : Handled(cur, numbers)

\* Sequences: what is behind the first n elements, and where a sequence is cut.
LEMMA Behind ==
  ASSUME NEW S, NEW s \in Seq(S), NEW n \in 0..Len(s)
  PROVE  /\ SubSeq(s, n + 1, Len(s)) \in Seq(S) /\ Len(SubSeq(s, n + 1, Len(s))) = Len(s) - n
         /\ \A i \in 1..(Len(s) - n) : SubSeq(s, n + 1, Len(s))[i] = s[n + i]
<1>1. Len(s) \in Nat /\ n + 1 \in Int /\ \A i \in (n + 1)..Len(s) : s[i] \in S
  OBVIOUS
<1>2. /\ SubSeq(s, n + 1, Len(s)) \in Seq(S)
      /\ Len(SubSeq(s, n + 1, Len(s))) = IF n + 1 <= Len(s) THEN Len(s) - (n + 1) + 1 ELSE 0
      /\ \A i \in 1..(Len(s) - (n + 1) + 1) : SubSeq(s, n + 1, Len(s))[i] = s[(n + 1) + i - 1]
  BY <1>1, SubSeqProperties
<1>. QED
  BY <1>1, <1>2

LEMMA First ==
  ASSUME NEW S, NEW s \in Seq(S), NEW n \in 0..Len(s)
  PROVE  /\ SubSeq(s, 1, n) \in Seq(S) /\ Len(SubSeq(s, 1, n)) = n
         /\ \A i \in 1..n : SubSeq(s, 1, n)[i] = s[i]
<1>1. Len(s) \in Nat /\ n \in Int /\ \A i \in 1..n : s[i] \in S
  OBVIOUS
<1>2. /\ SubSeq(s, 1, n) \in Seq(S)
      /\ Len(SubSeq(s, 1, n)) = IF 1 <= n THEN n - 1 + 1 ELSE 0
      /\ \A i \in 1..(n - 1 + 1) : SubSeq(s, 1, n)[i] = s[1 + i - 1]
  BY <1>1, SubSeqProperties
<1>. QED
  BY <1>1, <1>2

LEMMA SameSeq ==
  ASSUME NEW S, NEW s \in Seq(S), NEW t \in Seq(S), Len(s) = Len(t), \A i \in 1..Len(s) : s[i] = t[i]
  PROVE  s = t
OBVIOUS

LEMMA CutInTwo ==
  ASSUME NEW S, NEW s \in Seq(S), NEW t \in Seq(S), NEW n \in 0..Len(t)
  PROVE  (s \o SubSeq(t, 1, n)) \o SubSeq(t, n + 1, Len(t)) = s \o t
<1>. DEFINE a == SubSeq(t, 1, n)
            b == SubSeq(t, n + 1, Len(t))
<1>1. /\ a \in Seq(S) /\ Len(a) = n /\ (\A i \in 1..n : a[i] = t[i])
      /\ b \in Seq(S) /\ Len(b) = Len(t) - n /\ \A i \in 1..(Len(t) - n) : b[i] = t[n + i]
  BY First, Behind
<1>2. Len(t) \in Nat /\ n \in Nat /\ n <= Len(t)
  OBVIOUS
<1>. HIDE DEF a, b
<1>3. a \o b \in Seq(S) /\ Len(a \o b) = Len(t) /\ \A i \in 1..Len(t) : (a \o b)[i] = t[i]
  BY <1>1, <1>2, ConcatProperties
<1>4. a \o b = t
  BY <1>3, SameSeq
<1>5. (s \o a) \o b = s \o (a \o b)
  BY <1>1, ConcatAssociative
<1>. QED
  BY <1>4, <1>5 DEF a, b

LEMMA BehindOfJoined ==
  ASSUME NEW S, NEW s \in Seq(S), NEW t \in Seq(S), NEW n \in 0..Len(s)
  PROVE  SubSeq(s, n + 1, Len(s)) \o t = SubSeq(s \o t, n + 1, Len(s \o t))
<1>. DEFINE a == SubSeq(s, n + 1, Len(s))
            all == s \o t
            b == SubSeq(all, n + 1, Len(all))
<1>1. a \in Seq(S) /\ Len(a) = Len(s) - n /\ \A i \in 1..(Len(s) - n) : a[i] = s[n + i]
  BY Behind
<1>2. /\ all \in Seq(S) /\ Len(all) = Len(s) + Len(t)
      /\ \A i \in 1..(Len(s) + Len(t)) : all[i] = IF i <= Len(s) THEN s[i] ELSE t[i - Len(s)]
  BY ConcatProperties
<1>3. Len(s) \in Nat /\ Len(t) \in Nat /\ n \in Nat /\ n <= Len(s)
  OBVIOUS
<1>. HIDE DEF a, all
<1>4. b \in Seq(S) /\ Len(b) = Len(all) - n /\ \A i \in 1..(Len(all) - n) : b[i] = all[n + i]
  <2>1. n \in 0..Len(all)
    BY <1>2, <1>3
  <2>. QED
    BY <1>2, <2>1, Behind
<1>. HIDE DEF b
<1>5. /\ a \o t \in Seq(S) /\ Len(a \o t) = Len(a) + Len(t)
      /\ \A i \in 1..(Len(a) + Len(t)) : (a \o t)[i] = IF i <= Len(a) THEN a[i] ELSE t[i - Len(a)]
  BY <1>1, ConcatProperties
<1>6. Len(a \o t) = Len(b)
  BY <1>1, <1>2, <1>3, <1>4, <1>5
<1>7. ASSUME NEW i \in 1..Len(a \o t) PROVE (a \o t)[i] = b[i]
  <2>1. /\ i \in 1..(Len(s) - n + Len(t)) /\ i \in 1..(Len(a) + Len(t)) /\ i \in 1..(Len(all) - n)
        /\ n + i \in 1..(Len(s) + Len(t)) /\ (n + i) - Len(s) = i - Len(a)
    BY <1>1, <1>2, <1>3, <1>5
  <2>2. b[i] = IF n + i <= Len(s) THEN s[n + i] ELSE t[i - Len(a)]
    BY <1>2, <1>4, <2>1
  <2>3. CASE i <= Len(a)
    <3>1. i \in 1..(Len(s) - n) /\ n + i <= Len(s)
      BY <1>1, <1>3, <2>1, <2>3
    <3>. QED
      BY <1>1, <1>5, <2>1, <2>2, <2>3, <3>1
  <2>4. CASE ~(i <= Len(a))
    <3>1. ~(n + i <= Len(s))
      BY <1>1, <1>3, <2>1, <2>4
    <3>. QED
      BY <1>5, <2>1, <2>2, <2>4, <3>1
  <2>. QED
    BY <2>3, <2>4
<1>8. a \o t = b
  BY <1>4, <1>5, <1>6, <1>7, SameSeq
<1>. QED
  BY <1>8 DEF a, b, all

LEMMA Sizes ==
  /\ Len(Lengths) \in Nat
  /\ \A m \in 1..Len(Lengths) : /\ Lengths[m] \in Nat /\ Size(m) \in Nat /\ Size(m) >= 4
                                /\ Dzrp!Bytes(m) \in Seq(Byte) /\ Len(Dzrp!Bytes(m)) = Size(m)
                                /\ \A k \in 1..Size(m) : Dzrp!Bytes(m)[k] = <<m, k>>
                                /\ Dzrp!Payload(m) \in Seq(Byte) /\ Len(Dzrp!Payload(m)) = Lengths[m]
                                /\ \A k \in 1..Lengths[m] : Dzrp!Payload(m)[k] = <<m, k + 4>>
<1>1. Lengths \in Seq(Nat) /\ Len(Lengths) \in Nat
  BY LengthsAreNumbers
<1>2. ASSUME NEW m \in 1..Len(Lengths)
      PROVE  /\ Lengths[m] \in Nat /\ Size(m) \in Nat /\ Size(m) >= 4
             /\ Dzrp!Bytes(m) \in Seq(Byte) /\ Len(Dzrp!Bytes(m)) = Size(m)
             /\ \A k \in 1..Size(m) : Dzrp!Bytes(m)[k] = <<m, k>>
  <2>1. Lengths[m] \in Nat /\ Size(m) \in Nat /\ Size(m) >= 4
    BY <1>1 DEF Size
  <2>2. Dzrp!Bytes(m) = [k \in 1..Size(m) |-> <<m, k>>]
    BY DEF Dzrp!Bytes, Size, Dzrp!HeaderLength
  <2>3. Dzrp!Bytes(m) \in [1..Size(m) -> Byte]
    BY <2>1, <2>2 DEF Byte
  <2>4. Dzrp!Bytes(m) \in Seq(Byte)
    BY <2>1, <2>3, FunctionIsSeq
  <2>. QED
    BY <2>1, <2>2, <2>4
<1>3. ASSUME NEW m \in 1..Len(Lengths)
      PROVE  /\ Dzrp!Payload(m) \in Seq(Byte) /\ Len(Dzrp!Payload(m)) = Lengths[m]
             /\ \A k \in 1..Lengths[m] : Dzrp!Payload(m)[k] = <<m, k + 4>>
  <2>1. Dzrp!Payload(m) = SubSeq(Dzrp!Bytes(m), 5, Size(m))
    BY DEF Dzrp!Payload, Dzrp!HeaderLength, Size
  <2>. QED
    BY <1>2, <2>1 DEF Size
<1>. QED
  BY <1>1, <1>2, <1>3

\* A message is appended.
LEMMA LaidGrows ==
  ASSUME NEW bytes, NEW cur, NEW s \in 1..Len(Lengths), NEW start, Laid(bytes, cur, s - 1, start)
  PROVE  \E then : Laid(bytes \o Dzrp!Bytes(s), cur, s, then)
<1>. DEFINE then == [m \in cur..(s + 1) |-> IF m = s + 1 THEN start[s] + Size(s) ELSE start[m]]
            all == bytes \o Dzrp!Bytes(s)
<1>1. /\ Len(Lengths) \in Nat /\ s \in Nat /\ (s - 1) + 1 = s
      /\ Size(s) \in Nat /\ Size(s) >= 4 /\ Dzrp!Bytes(s) \in Seq(Byte) /\ Len(Dzrp!Bytes(s)) = Size(s)
      /\ \A k \in 1..Size(s) : Dzrp!Bytes(s)[k] = <<s, k>>
  BY Sizes
<1>2. /\ cur \in 1..s /\ bytes \in Seq(Byte) /\ Len(bytes) = start[s]
      /\ start \in [cur..s -> Nat] /\ start[cur] = 0
      /\ \A m \in cur..(s - 1) : start[m + 1] = start[m] + Size(m)
      /\ \A m, n \in cur..s : m <= n => start[m] <= start[n]
      /\ \A m \in cur..(s - 1) : \A k \in 1..Size(m) : bytes[start[m] + k] = <<m, k>>
  BY <1>1 DEF Laid
<1>3. s \in cur..s /\ cur \in Nat /\ start[s] \in Nat
  BY <1>1, <1>2
<1>4. /\ all \in Seq(Byte) /\ Len(all) = start[s] + Size(s)
      /\ \A i \in 1..start[s] : all[i] = bytes[i]
      /\ \A k \in 1..Size(s) : all[start[s] + k] = <<s, k>>
  <2>1. all \in Seq(Byte) /\ Len(all) = Len(bytes) + Len(Dzrp!Bytes(s))
    BY <1>1, <1>2, ConcatProperties
  <2>2. \A i \in 1..start[s] : all[i] = bytes[i]
    BY <1>1, <1>2, <1>3 DEF Byte
  <2>3. ASSUME NEW k \in 1..Size(s) PROVE all[start[s] + k] = <<s, k>>
    <3>1. all[Len(bytes) + k] = Dzrp!Bytes(s)[k]
      <4>. HIDE DEF Byte
      <4>. QED
        BY <1>1, <1>2, <1>3
    <3>. QED
      BY <1>1, <1>2, <3>1
  <2>. QED
    BY <1>1, <1>2, <2>1, <2>2, <2>3
<1>5. /\ then \in [cur..(s + 1) -> Nat] /\ \A m \in cur..s : then[m] = start[m]
      /\ then[s + 1] = start[s] + Size(s)
  BY <1>1, <1>2, <1>3
<1>. HIDE DEF then, all
<1>6. ASSUME NEW m \in cur..s PROVE then[m + 1] = then[m] + Size(m)
  <2>1. CASE m = s
    BY <1>3, <1>5, <2>1
  <2>2. CASE m # s
    <3>1. m \in cur..(s - 1) /\ m + 1 \in cur..s
      BY <1>1, <1>3, <2>2
    <3>. QED
      BY <1>2, <1>5, <3>1
  <2>. QED
    BY <2>1, <2>2
<1>7. ASSUME NEW m \in cur..(s + 1), NEW n \in cur..(s + 1), m <= n PROVE then[m] <= then[n]
  <2>1. CASE n <= s
    <3>1. m \in cur..s /\ n \in cur..s
      BY <1>1, <1>3, <1>7, <2>1
    <3>. QED
      BY <1>2, <1>5, <1>7, <3>1
  <2>2. CASE n = s + 1 /\ m <= s
    <3>1. m \in cur..s /\ start[m] \in Nat
      BY <1>1, <1>2, <1>3, <2>2
    <3>2. start[m] <= start[s] /\ then[m] = start[m]
      BY <1>1, <1>2, <1>3, <1>5, <3>1
    <3>. QED
      BY <1>1, <1>3, <1>5, <2>2, <3>1, <3>2
  <2>3. CASE m = s + 1 /\ n = s + 1
    BY <1>1, <1>3, <1>5, <2>3
  <2>. QED
    BY <1>1, <1>3, <1>7, <2>1, <2>2, <2>3
<1>8. ASSUME NEW m \in cur..s, NEW k \in 1..Size(m) PROVE all[then[m] + k] = <<m, k>>
  <2>1. CASE m = s
    BY <1>4, <1>5, <2>1
  <2>2. CASE m # s
    <3>1. m \in cur..(s - 1) /\ m + 1 \in cur..s /\ m \in 1..Len(Lengths)
      BY <1>1, <1>2, <1>3, <2>2
    <3>2. start[m + 1] = start[m] + Size(m) /\ start[m + 1] <= start[s] /\ start[m] \in Nat /\ Size(m) \in Nat
      BY <1>1, <1>2, <1>3, <3>1, Sizes
    <3>3. start[m] + k \in 1..start[s] /\ then[m] = start[m]
      BY <1>3, <1>5, <3>1, <3>2
    <3>. QED
      BY <1>2, <1>4, <3>1, <3>3
  <2>. QED
    BY <2>1, <2>2
<1>9. cur \in 1..(s + 1) /\ s \in 0..Len(Lengths) /\ then[cur] = 0 /\ Len(all) = then[s + 1]
  BY <1>1, <1>2, <1>3, <1>4, <1>5
<1>10. Laid(all, cur, s, then)
  BY <1>4, <1>5, <1>6, <1>7, <1>8, <1>9 DEF Laid
<1>. QED
  BY <1>10 DEF all

\* The first message is complete and comes first, and nothing is behind the last one.
LEMMA LaidFirst ==
  ASSUME NEW bytes, NEW cur, NEW last, NEW start, Laid(bytes, cur, last, start)
  PROVE  /\ cur <= last => /\ cur \in 1..Len(Lengths) /\ Size(cur) \in Nat /\ Len(bytes) >= Size(cur)
                           /\ \A k \in 1..Size(cur) : bytes[k] = <<cur, k>>
         /\ cur = last + 1 => Len(bytes) = 0
<1>1. /\ cur \in 1..(last + 1) /\ last \in 0..Len(Lengths) /\ Len(Lengths) \in Nat
      /\ start[cur] = 0 /\ Len(bytes) = start[last + 1]
      /\ \A m \in cur..last : start[m + 1] = start[m] + Size(m)
      /\ \A m, n \in cur..(last + 1) : m <= n => start[m] <= start[n]
      /\ \A m \in cur..last : \A k \in 1..Size(m) : bytes[start[m] + k] = <<m, k>>
  BY Sizes DEF Laid
<1>2. ASSUME cur <= last
      PROVE  /\ cur \in 1..Len(Lengths) /\ Size(cur) \in Nat /\ Len(bytes) >= Size(cur)
             /\ \A k \in 1..Size(cur) : bytes[k] = <<cur, k>>
  <2>1. cur \in 1..Len(Lengths) /\ cur \in cur..last /\ cur + 1 \in cur..(last + 1) /\ last + 1 \in cur..(last + 1) /\ cur + 1 <= last + 1
    BY <1>1, <1>2
  <2>2. Size(cur) \in Nat
    BY <2>1, Sizes
  <2>3. start[cur + 1] = Size(cur) /\ start[cur + 1] <= start[last + 1]
    BY <1>1, <2>1, <2>2
  <2>4. ASSUME NEW k \in 1..Size(cur) PROVE bytes[k] = <<cur, k>>
    <3>1. bytes[start[cur] + k] = <<cur, k>> /\ start[cur] + k = k
      BY <1>1, <2>1, <2>2
    <3>. QED
      BY <3>1
  <2>. QED
    BY <1>1, <2>1, <2>2, <2>3, <2>4
<1>. QED
  BY <1>1, <1>2

LEMMA Shifted ==
  ASSUME NEW a \in Nat, NEW b \in Nat, NEW c \in Nat, NEW l \in Nat, NEW t \in Nat, NEW k \in 1..b,
         a + b <= l, t = a - c
  PROVE  t + k \in 1..(l - c) /\ c + (t + k) = a + k
OBVIOUS

\* The first message is dropped.
LEMMA LaidDrops ==
  ASSUME NEW bytes, NEW cur, NEW last, NEW start, Laid(bytes, cur, last, start), cur <= last
  PROVE  \E then : Laid(SubSeq(bytes, Size(cur) + 1, Len(bytes)), cur + 1, last, then)
<1>. DEFINE then == [m \in (cur + 1)..(last + 1) |-> start[m] - Size(cur)]
            rest == SubSeq(bytes, Size(cur) + 1, Len(bytes))
<1>1. /\ cur \in 1..(last + 1) /\ last \in 0..Len(Lengths) /\ Len(Lengths) \in Nat
      /\ bytes \in Seq(Byte) /\ start \in [cur..(last + 1) -> Nat]
      /\ start[cur] = 0 /\ Len(bytes) = start[last + 1]
      /\ \A m \in cur..last : start[m + 1] = start[m] + Size(m)
      /\ \A m, n \in cur..(last + 1) : m <= n => start[m] <= start[n]
      /\ \A m \in cur..last : \A k \in 1..Size(m) : bytes[start[m] + k] = <<m, k>>
  BY Sizes DEF Laid
<1>2. /\ cur \in Nat /\ last \in Nat /\ cur \in 1..Len(Lengths) /\ Size(cur) \in Nat /\ Len(bytes) >= Size(cur)
      /\ cur \in cur..last /\ cur + 1 \in cur..(last + 1) /\ cur + 1 \in 1..(last + 1) /\ last + 1 \in cur..(last + 1)
  BY <1>1, LaidFirst
<1>3. start[cur + 1] = Size(cur)
  BY <1>1, <1>2
<1>4. ASSUME NEW m \in (cur + 1)..(last + 1)
      PROVE  m \in cur..(last + 1) /\ start[m] \in Nat /\ start[m] >= Size(cur) /\ then[m] \in Nat /\ then[m] = start[m] - Size(cur)
  <2>1. m \in cur..(last + 1) /\ cur + 1 <= m
    BY <1>1, <1>2
  <2>2. start[cur + 1] <= start[m] /\ start[m] \in Nat
    BY <1>1, <1>2, <2>1
  <2>. QED
    BY <1>2, <1>3, <2>1, <2>2
<1>5. then \in [(cur + 1)..(last + 1) -> Nat]
  BY <1>4
<1>6. rest \in Seq(Byte) /\ Len(rest) = Len(bytes) - Size(cur) /\ \A i \in 1..(Len(bytes) - Size(cur)) : rest[i] = bytes[Size(cur) + i]
  <2>1. Size(cur) \in 0..Len(bytes)
    BY <1>1, <1>2
  <2>2. bytes \in Seq(Byte)
    BY <1>1
  <2>. QED
    BY <2>1, <2>2, Behind
<1>. HIDE DEF then, rest
<1>7. then[cur + 1] = 0 /\ Len(rest) = then[last + 1]
  BY <1>1, <1>2, <1>3, <1>4, <1>6
<1>8. ASSUME NEW m \in (cur + 1)..last PROVE then[m + 1] = then[m] + Size(m)
  <2>1. m \in (cur + 1)..(last + 1) /\ m + 1 \in (cur + 1)..(last + 1) /\ m \in cur..last /\ m \in 1..Len(Lengths)
    BY <1>1, <1>2
  <2>2. Size(m) \in Nat
    BY <2>1, Sizes
  <2>3. start[m + 1] = start[m] + Size(m)
    BY <1>1, <2>1
  <2>. QED
    BY <1>2, <1>4, <2>1, <2>2, <2>3
<1>9. ASSUME NEW m \in (cur + 1)..(last + 1), NEW n \in (cur + 1)..(last + 1), m <= n PROVE then[m] <= then[n]
  <2>1. start[m] <= start[n]
    BY <1>1, <1>4, <1>9
  <2>. QED
    BY <1>2, <1>4, <2>1
<1>10. ASSUME NEW m \in (cur + 1)..last, NEW k \in 1..Size(m) PROVE rest[then[m] + k] = <<m, k>>
  <2>1. m \in (cur + 1)..(last + 1) /\ m + 1 \in (cur + 1)..(last + 1) /\ m \in cur..last /\ m \in 1..Len(Lengths) /\ m + 1 <= last + 1
    BY <1>1, <1>2
  <2>2. Size(m) \in Nat /\ k \in Nat
    BY <2>1, Sizes
  <2>3. start[m + 1] = start[m] + Size(m) /\ start[m + 1] <= start[last + 1] /\ bytes[start[m] + k] = <<m, k>>
    BY <1>1, <1>2, <1>4, <2>1
  <2>4. then[m] + k \in 1..(Len(bytes) - Size(cur)) /\ Size(cur) + (then[m] + k) = start[m] + k
    <3>1. start[m + 1] \in Nat /\ start[last + 1] \in Nat /\ start[m] \in Nat /\ then[m] \in Nat /\ then[m] = start[m] - Size(cur)
      BY <1>1, <1>2, <1>4, <2>1
    <3>2. start[m] + Size(m) <= Len(bytes)
      BY <1>1, <2>3
    <3>3. Len(bytes) \in Nat /\ Size(cur) \in Nat /\ k \in 1..Size(m)
      BY <1>1, <1>2
    <3>4. PICK a \in Nat, b \in Nat, t \in Nat : a = start[m] /\ b = Size(m) /\ t = then[m]
      BY <2>2, <3>1
    <3>5. k \in 1..b /\ a + b <= Len(bytes) /\ t = a - Size(cur)
      BY <3>1, <3>2, <3>3, <3>4
    <3>6. t + k \in 1..(Len(bytes) - Size(cur)) /\ Size(cur) + (t + k) = a + k
      BY <3>3, <3>5, Shifted
    <3>. QED
      BY <3>4, <3>6
  <2>. QED
    BY <1>6, <2>3, <2>4
<1>11. cur + 1 \in 1..(last + 1)
  BY <1>2
<1>12. Laid(rest, cur + 1, last, then)
  BY <1>1, <1>5, <1>6, <1>7, <1>8, <1>9, <1>10, <1>11 DEF Laid
<1>. QED
  BY <1>12 DEF rest
LEMMA InitDzrp == Dzrp!Init => DzrpInv
<1>. SUFFICES ASSUME Dzrp!Init PROVE DzrpInv
  OBVIOUS
<1>0. /\ dzrpSent = 0 /\ net = <<>> /\ receivedData = <<>> /\ delivered = <<>> /\ Len(delivered) = 0
      /\ receivingHeader = TRUE /\ chunkTimer = FALSE /\ parsing = FALSE /\ handlerThrown = FALSE
      /\ expectedLength = 4 /\ Len(Lengths) \in Nat
  BY Sizes DEF Dzrp!Init, Dzrp!HeaderLength
<1>1. DzrpTypes
  <2>1. <<>> \in Seq(Byte) /\ <<>> \in Seq(Seq(Byte))
    OBVIOUS
  <2>2. receivedData \in Seq(Byte) /\ net \in Seq(Byte) /\ delivered \in Seq(Seq(Byte))
    BY <1>0, <2>1
  <2>3. dzrpSent \in 0..Len(Lengths)
    BY <1>0
  <2>4. receivingHeader \in BOOLEAN /\ chunkTimer \in BOOLEAN /\ parsing \in BOOLEAN /\ handlerThrown \in BOOLEAN
    BY <1>0
  <2>. QED
    BY <2>2, <2>3, <2>4 DEF DzrpTypes
<1>2. Attended /\ HeaderOf(1)
  BY <1>0 DEF Attended, HeaderOf
<1>3. Laid(receivedData \o net, 1, dzrpSent, [m \in 1..1 |-> 0])
  <2>1. receivedData \o net = <<>>
    BY <1>0
  <2>. QED
    BY <1>0, <2>1 DEF Laid
<1>4. Handled(1, [i \in 1..0 |-> 0])
  BY <1>0 DEF Handled
<1>. QED
  BY <1>0, <1>1, <1>2, <1>3, <1>4 DEF DzrpInv

LEMMA SendDzrp == DzrpInv /\ Dzrp!Send => DzrpInv'
<1>. SUFFICES ASSUME DzrpInv, Dzrp!Send PROVE DzrpInv'
  OBVIOUS
<1>1. PICK cur \in 1..(dzrpSent + 1) :
        HeaderOf(cur) /\ (\E start : Laid(receivedData \o net, cur, dzrpSent, start)) /\ \E numbers : Handled(cur, numbers)
  BY DEF DzrpInv
<1>2. PICK start : Laid(receivedData \o net, cur, dzrpSent, start)
  BY <1>1
<1>3. PICK numbers : Handled(cur, numbers)
  BY <1>1
<1>4. PICK s \in 1..Len(Lengths) : s = dzrpSent + 1
  BY Sizes DEF Dzrp!Send, DzrpInv, DzrpTypes
<1>5. /\ dzrpSent \in Nat /\ dzrpSent = s - 1 /\ dzrpSent' = s /\ cur \in 1..s /\ s \in Nat
      /\ net' = net \o Dzrp!Bytes(s)
      /\ UNCHANGED <<receivedData, expectedLength, receivingHeader, chunkTimer, parsing, delivered, handlerThrown>>
      /\ receivedData \in Seq(Byte) /\ net \in Seq(Byte) /\ Dzrp!Bytes(s) \in Seq(Byte)
  BY <1>4, Sizes DEF Dzrp!Send, DzrpInv, DzrpTypes
<1>6. net' \in Seq(Byte)
  BY <1>5, ConcatProperties
<1>7. DzrpTypes' /\ Attended' /\ HeaderOf(cur)'
  BY <1>1, <1>4, <1>5, <1>6, Sizes DEF DzrpInv, DzrpTypes, Attended, HeaderOf
<1>8. \E then : Laid(receivedData \o net, cur, dzrpSent, then)'
  <2>1. receivedData' \o net' = (receivedData \o net) \o Dzrp!Bytes(s)
    BY <1>5, ConcatAssociative
  <2>2. PICK then : Laid((receivedData \o net) \o Dzrp!Bytes(s), cur, s, then)
    BY <1>2, <1>5, LaidGrows
  <2>3. Laid(receivedData' \o net', cur, dzrpSent', then)
    BY <1>5, <2>1, <2>2
  <2>. QED
    BY <2>3 DEF Laid, Byte, Size
<1>9. Handled(cur, numbers)'
  <2>1. numbers \in [1..Len(delivered) -> 1..dzrpSent']
    BY <1>3, <1>5 DEF Handled
  <2>. QED
    BY <1>3, <1>5, <2>1 DEF Handled, Dzrp!Payload, Dzrp!Bytes, Dzrp!HeaderLength
<1>10. cur \in 1..(dzrpSent' + 1)
  BY <1>5
<1>. QED
  BY <1>7, <1>8, <1>9, <1>10 DEF DzrpInv

\* What a step leaves alone.
LEMMA HandledStays ==
  ASSUME NEW cur, NEW numbers, Handled(cur, numbers), UNCHANGED <<delivered, dzrpSent, handlerThrown>>
  PROVE  Handled(cur, numbers)'
BY DEF Handled, Dzrp!Payload, Dzrp!Bytes, Dzrp!HeaderLength

\* One more payload has been handled: the one of the current message.
LEMMA HandledMore ==
  ASSUME DzrpTypes, NEW cur \in 1..dzrpSent, NEW next, NEW numbers, Handled(cur, numbers),
         delivered' = Append(delivered, Dzrp!Payload(cur)), dzrpSent' = dzrpSent,
         \/ next = cur + 1 /\ handlerThrown' = handlerThrown
         \/ next = cur /\ handlerThrown' = TRUE
  PROVE  \E more : Handled(next, more)'
<1>1. PICK n \in Nat : n = Len(delivered)
  BY DEF DzrpTypes
<1>. DEFINE more == [i \in 1..(n + 1) |-> IF i = n + 1 THEN cur ELSE numbers[i]]
<1>2. /\ numbers \in [1..n -> 1..dzrpSent] /\ dzrpSent \in Nat /\ cur \in Nat /\ handlerThrown \in BOOLEAN
      /\ \A i \in 1..n : delivered[i] = Dzrp!Payload(numbers[i])
      /\ \A i \in 1..n : LET before == IF i = 1 THEN 0 ELSE numbers[i - 1]
                         IN  numbers[i] = before + 1 \/ (handlerThrown /\ numbers[i] = before)
      /\ LET last == IF n = 0 THEN 0 ELSE numbers[n] IN cur = last + 1 \/ (handlerThrown /\ cur = last)
      /\ ~handlerThrown => cur = n + 1
  <2>1. dzrpSent \in Nat /\ cur \in Nat /\ handlerThrown \in BOOLEAN
    BY Sizes DEF DzrpTypes
  <2>2. /\ \A i \in 1..n : LET before == IF i = 1 THEN 0 ELSE numbers[i - 1]
                           IN  numbers[i] = before + 1 \/ (handlerThrown /\ numbers[i] = before)
        /\ LET last == IF n = 0 THEN 0 ELSE numbers[n] IN cur = last + 1 \/ (handlerThrown /\ cur = last)
    BY <1>1 DEF Handled
  <2>3. /\ numbers \in [1..n -> 1..dzrpSent] /\ \A i \in 1..n : delivered[i] = Dzrp!Payload(numbers[i])
        /\ ~handlerThrown => cur = n + 1
    BY <1>1 DEF Handled
  <2>. QED
    BY <2>1, <2>2, <2>3
<1>3. /\ Len(delivered)' = n + 1 /\ delivered'[n + 1] = Dzrp!Payload(cur) /\ \A i \in 1..n : delivered'[i] = delivered[i]
  BY <1>1 DEF DzrpTypes
<1>4. /\ more \in [1..(n + 1) -> 1..dzrpSent] /\ more[n + 1] = cur /\ \A i \in 1..n : more[i] = numbers[i]
  BY <1>2
<1>. HIDE DEF more
<1>5. ASSUME NEW i \in 1..(n + 1)
      PROVE  /\ delivered'[i] = Dzrp!Payload(more[i])
             /\ LET before == IF i = 1 THEN 0 ELSE more[i - 1]
                IN  more[i] = before + 1 \/ (handlerThrown' /\ more[i] = before)
  <2>1. CASE i = n + 1
    BY <1>2, <1>3, <1>4, <2>1
  <2>2. CASE i # n + 1
    <3>1. i \in 1..n /\ (i # 1 => i - 1 \in 1..n)
      BY <2>2
    <3>. QED
      BY <1>2, <1>3, <1>4, <3>1
  <2>. QED
    BY <2>1, <2>2
<1>6. n + 1 # 0 /\ (next = cur + 1 \/ (handlerThrown' /\ next = cur)) /\ (~handlerThrown' => next = (n + 1) + 1)
  BY <1>2
<1>7. Handled(next, more)'
  BY <1>3, <1>4, <1>5, <1>6 DEF Handled, Dzrp!Payload, Dzrp!Bytes, Dzrp!HeaderLength
<1>. QED
  BY <1>7
\* What is known of the message that is being received.
LEMMA Current ==
  ASSUME DzrpTypes, NEW cur \in 1..(dzrpSent + 1), NEW start, Laid(receivedData \o net, cur, dzrpSent, start)
  PROVE  /\ receivedData # <<>> => cur \in 1..dzrpSent
         /\ cur \in 1..dzrpSent =>
              /\ cur \in 1..Len(Lengths) /\ Len(receivedData) + Len(net) >= Size(cur)
              /\ \A k \in 1..Size(cur) : k <= Len(receivedData) => receivedData[k] = <<cur, k>>
         /\ cur = dzrpSent + 1 => receivedData = <<>>
<1>1. /\ dzrpSent \in Nat /\ receivedData \in Seq(Byte) /\ net \in Seq(Byte)
      /\ Len(receivedData) \in Nat /\ Len(net) \in Nat
  BY Sizes DEF DzrpTypes
<1>2. /\ Len(receivedData \o net) = Len(receivedData) + Len(net)
      /\ \A k \in 1..Len(receivedData) : (receivedData \o net)[k] = receivedData[k]
  BY <1>1
<1>3. cur = dzrpSent + 1 => Len(receivedData \o net) = 0
  BY LaidFirst
<1>4. cur = dzrpSent + 1 => receivedData = <<>>
  BY <1>1, <1>2, <1>3
<1>5. ASSUME cur \in 1..dzrpSent
      PROVE  /\ cur \in 1..Len(Lengths) /\ Len(receivedData) + Len(net) >= Size(cur)
             /\ \A k \in 1..Size(cur) : k <= Len(receivedData) => receivedData[k] = <<cur, k>>
  <2>1. /\ cur \in 1..Len(Lengths) /\ Size(cur) \in Nat /\ Len(receivedData \o net) >= Size(cur)
        /\ \A k \in 1..Size(cur) : (receivedData \o net)[k] = <<cur, k>>
    <3>1. cur <= dzrpSent
      BY <1>1, <1>5
    <3>. QED
      BY <3>1, LaidFirst
  <2>2. ASSUME NEW k \in 1..Size(cur), k <= Len(receivedData) PROVE receivedData[k] = <<cur, k>>
    <3>1. k \in 1..Len(receivedData)
      BY <1>1, <2>1, <2>2
    <3>. QED
      BY <1>2, <2>1, <3>1
  <2>. QED
    BY <1>2, <2>1, <2>2
<1>. QED
  BY <1>1, <1>4, <1>5

\* The header of the message tells its length.
LEMMA HeaderTells ==
  ASSUME DzrpTypes, NEW cur \in 1..dzrpSent, cur \in 1..Len(Lengths), Len(receivedData) >= 4,
         \A k \in 1..Size(cur) : k <= Len(receivedData) => receivedData[k] = <<cur, k>>
  PROVE  Dzrp!EncodedLength(receivedData) = Lengths[cur]
<1>1. receivedData \in Seq(Byte) /\ Len(receivedData) \in Nat /\ 4 \in 0..Len(receivedData) /\ 4 \in Nat
  BY DEF DzrpTypes
<1>2. Size(cur) \in Nat /\ Size(cur) >= 4 /\ Dzrp!Bytes(cur) \in Seq(Byte) /\ Len(Dzrp!Bytes(cur)) = Size(cur)
  BY Sizes
<1>3. 4 \in 0..Len(Dzrp!Bytes(cur))
  BY <1>2
<1>4. ASSUME NEW k \in 1..4 PROVE receivedData[k] = <<cur, k>> /\ Dzrp!Bytes(cur)[k] = <<cur, k>>
  <2>1. k \in 1..Size(cur) /\ k <= Len(receivedData)
    BY <1>1, <1>2
  <2>. QED
    BY <2>1, Sizes
<1>5. SubSeq(receivedData, 1, 4) = SubSeq(Dzrp!Bytes(cur), 1, 4)
  <2>1. /\ SubSeq(receivedData, 1, 4) \in Seq(Byte) /\ Len(SubSeq(receivedData, 1, 4)) = 4
        /\ \A i \in 1..4 : SubSeq(receivedData, 1, 4)[i] = receivedData[i]
    BY <1>1, First
  <2>2. /\ SubSeq(Dzrp!Bytes(cur), 1, 4) \in Seq(Byte) /\ Len(SubSeq(Dzrp!Bytes(cur), 1, 4)) = 4
        /\ \A i \in 1..4 : SubSeq(Dzrp!Bytes(cur), 1, 4)[i] = Dzrp!Bytes(cur)[i]
    BY <1>2, <1>3, First
  <2>3. \A i \in 1..4 : SubSeq(receivedData, 1, 4)[i] = SubSeq(Dzrp!Bytes(cur), 1, 4)[i]
    BY <1>4, <2>1, <2>2
  <2>. HIDE DEF Byte
  <2>. QED
    BY <2>1, <2>2, <2>3, SameSeq
<1>6. receivedData[1] = <<cur, 1>> /\ receivedData[1][1] = cur
  BY <1>4
<1>. QED
  BY <1>5, <1>6 DEF Dzrp!EncodedLength, Dzrp!HeaderLength

\* And the bytes behind it are the payload.
LEMMA PayloadFollows ==
  ASSUME DzrpTypes, NEW cur \in 1..dzrpSent, cur \in 1..Len(Lengths), Len(receivedData) >= Size(cur),
         \A k \in 1..Size(cur) : k <= Len(receivedData) => receivedData[k] = <<cur, k>>
  PROVE  SubSeq(receivedData, 5, Size(cur)) = Dzrp!Payload(cur)
<1>1. /\ receivedData \in Seq(Byte) /\ Len(receivedData) \in Nat
      /\ Lengths[cur] \in Nat /\ Size(cur) \in Nat /\ Size(cur) = 4 + Lengths[cur]
      /\ Dzrp!Payload(cur) \in Seq(Byte) /\ Len(Dzrp!Payload(cur)) = Lengths[cur]
      /\ \A k \in 1..Lengths[cur] : Dzrp!Payload(cur)[k] = <<cur, k + 4>>
  BY Sizes DEF DzrpTypes, Size
<1>2. /\ SubSeq(receivedData, 5, Size(cur)) \in Seq(Byte)
      /\ Len(SubSeq(receivedData, 5, Size(cur))) = IF 5 <= Size(cur) THEN Size(cur) - 5 + 1 ELSE 0
      /\ \A i \in 1..(Size(cur) - 5 + 1) : SubSeq(receivedData, 5, Size(cur))[i] = receivedData[5 + i - 1]
  <2>1. \A i \in 5..Size(cur) : receivedData[i] \in Byte
    BY <1>1
  <2>. QED
    BY <1>1, <2>1, SubSeqProperties
<1>3. Len(SubSeq(receivedData, 5, Size(cur))) = Lengths[cur]
  BY <1>1, <1>2
<1>4. ASSUME NEW i \in 1..Lengths[cur] PROVE SubSeq(receivedData, 5, Size(cur))[i] = Dzrp!Payload(cur)[i]
  <2>1. i \in 1..(Size(cur) - 5 + 1) /\ 5 + i - 1 = i + 4 /\ i + 4 \in 1..Size(cur) /\ i + 4 <= Len(receivedData)
    BY <1>1
  <2>2. receivedData[i + 4] = <<cur, i + 4>>
    BY <2>1
  <2>. QED
    BY <1>1, <1>2, <2>1, <2>2
<1>. QED
  BY <1>1, <1>2, <1>3, <1>4, SameSeq

LEMMA ChunkDzrp == ASSUME DzrpInv, NEW n, Dzrp!Chunk(n) PROVE DzrpInv'
<1>1. PICK cur \in 1..(dzrpSent + 1) :
        HeaderOf(cur) /\ (\E start : Laid(receivedData \o net, cur, dzrpSent, start)) /\ \E numbers : Handled(cur, numbers)
  BY DEF DzrpInv
<1>2. PICK start : Laid(receivedData \o net, cur, dzrpSent, start)
  BY <1>1
<1>3. PICK numbers : Handled(cur, numbers)
  BY <1>1
<1>4. /\ n \in 1..Len(net) /\ receivedData' = receivedData \o SubSeq(net, 1, n) /\ net' = SubSeq(net, n + 1, Len(net))
      /\ UNCHANGED <<dzrpSent, expectedLength, receivingHeader, chunkTimer, delivered, handlerThrown>> /\ parsing' = TRUE
      /\ receivedData \in Seq(Byte) /\ net \in Seq(Byte)
  BY DEF Dzrp!Chunk, DzrpInv, DzrpTypes
<1>5. n \in 0..Len(net)
  BY <1>4
<1>6. SubSeq(net, 1, n) \in Seq(Byte) /\ Len(SubSeq(net, 1, n)) = n /\ net' \in Seq(Byte)
  BY <1>4, <1>5, First, Behind
<1>7. receivedData' \in Seq(Byte) /\ Len(receivedData') = Len(receivedData) + n
  BY <1>4, <1>6, ConcatProperties
<1>8. receivedData' # <<>>
  <2>1. Len(receivedData) \in Nat /\ n >= 1 /\ n \in Int
    BY <1>4
  <2>2. Len(receivedData') # 0
    BY <1>7, <2>1
  <2>. QED
    BY <2>2
<1>9. receivedData' \o net' = receivedData \o net
  BY <1>4, <1>5, CutInTwo
<1>10. DzrpTypes' /\ Attended' /\ HeaderOf(cur)'
  BY <1>1, <1>4, <1>6, <1>7, <1>8 DEF DzrpInv, DzrpTypes, Attended, HeaderOf, Byte, Size
<1>11. Laid(receivedData \o net, cur, dzrpSent, start)'
  BY <1>2, <1>4, <1>9 DEF Laid, Byte, Size
<1>12. Handled(cur, numbers)'
  BY <1>3, <1>4, HandledStays
<1>13. cur \in 1..(dzrpSent' + 1)
  BY <1>4
<1>. QED
  BY <1>10, <1>11, <1>12, <1>13 DEF DzrpInv
\* WaitForMore, ReadHeader, HandlerThrows and ChunkTimeout leave the bytes alone.
LEMMA WaitDzrp == DzrpInv /\ Dzrp!WaitForMore => DzrpInv'
<1>. SUFFICES ASSUME DzrpInv, Dzrp!WaitForMore PROVE DzrpInv'
  OBVIOUS
<1>1. PICK cur \in 1..(dzrpSent + 1) :
        HeaderOf(cur) /\ (\E start : Laid(receivedData \o net, cur, dzrpSent, start)) /\ \E numbers : Handled(cur, numbers)
  BY DEF DzrpInv
<1>2. /\ parsing /\ Len(receivedData) < expectedLength /\ chunkTimer' = TRUE /\ parsing' = FALSE
      /\ UNCHANGED <<dzrpSent, net, receivedData, expectedLength, receivingHeader, delivered, handlerThrown>>
  BY DEF Dzrp!WaitForMore
<1>3. DzrpTypes' /\ Attended' /\ HeaderOf(cur)'
  BY <1>1, <1>2 DEF DzrpInv, DzrpTypes, Attended, HeaderOf, Byte, Size
<1>4. (\E start : Laid(receivedData \o net, cur, dzrpSent, start)') /\ \E numbers : Handled(cur, numbers)'
  BY <1>1, <1>2, HandledStays DEF Laid, Byte, Size
<1>. QED
  BY <1>2, <1>3, <1>4 DEF DzrpInv

LEMMA TimeoutDzrp == DzrpInv /\ Dzrp!ChunkTimeout => DzrpInv'
<1>. SUFFICES ASSUME DzrpInv, Dzrp!ChunkTimeout PROVE DzrpInv'
  OBVIOUS
<1>1. PICK cur \in 1..(dzrpSent + 1) :
        HeaderOf(cur) /\ (\E start : Laid(receivedData \o net, cur, dzrpSent, start)) /\ \E numbers : Handled(cur, numbers)
  BY DEF DzrpInv
<1>2. /\ ~parsing /\ chunkTimer /\ chunkTimer' = FALSE
      /\ UNCHANGED <<dzrpSent, net, receivedData, expectedLength, receivingHeader, parsing, delivered, handlerThrown>>
  BY DEF Dzrp!ChunkTimeout
<1>3. DzrpTypes' /\ Attended' /\ HeaderOf(cur)'
  BY <1>1, <1>2 DEF DzrpInv, DzrpTypes, Attended, HeaderOf, Byte, Size
<1>4. (\E start : Laid(receivedData \o net, cur, dzrpSent, start)') /\ \E numbers : Handled(cur, numbers)'
  BY <1>1, <1>2, HandledStays DEF Laid, Byte, Size
<1>. QED
  BY <1>2, <1>3, <1>4 DEF DzrpInv

LEMMA HeaderDzrp == DzrpInv /\ Dzrp!ReadHeader => DzrpInv'
<1>. SUFFICES ASSUME DzrpInv, Dzrp!ReadHeader PROVE DzrpInv'
  OBVIOUS
<1>1. PICK cur \in 1..(dzrpSent + 1) :
        HeaderOf(cur) /\ (\E start : Laid(receivedData \o net, cur, dzrpSent, start)) /\ \E numbers : Handled(cur, numbers)
  BY DEF DzrpInv
<1>2. /\ parsing /\ receivingHeader /\ Len(receivedData) >= expectedLength /\ receivingHeader' = FALSE
      /\ expectedLength' = Dzrp!EncodedLength(receivedData) + 4
      /\ UNCHANGED <<dzrpSent, net, receivedData, chunkTimer, parsing, delivered, handlerThrown>>
  BY DEF Dzrp!ReadHeader, Dzrp!HeaderLength
<1>3. Len(receivedData) >= 4 /\ receivedData # <<>> /\ DzrpTypes /\ Attended /\ parsing
  BY <1>1, <1>2 DEF HeaderOf, DzrpInv, Attended
<1>4. /\ cur \in 1..dzrpSent /\ cur \in 1..Len(Lengths)
      /\ \A k \in 1..Size(cur) : k <= Len(receivedData) => receivedData[k] = <<cur, k>>
  BY <1>1, <1>3, Current
<1>5. Dzrp!EncodedLength(receivedData) = Lengths[cur] /\ Lengths[cur] \in Nat
  BY <1>3, <1>4, HeaderTells, Sizes
<1>6. expectedLength' = Size(cur)
  BY <1>2, <1>5 DEF Size
<1>7. HeaderOf(cur)'
  <2>1. cur <= dzrpSent' /\ receivingHeader' = FALSE
    BY <1>2, <1>4
  <2>. QED
    BY <1>6, <2>1 DEF HeaderOf, Size
<1>8. DzrpTypes' /\ Attended'
  BY <1>2, <1>3 DEF DzrpTypes, Attended, Byte
<1>9. (\E start : Laid(receivedData \o net, cur, dzrpSent, start)') /\ \E numbers : Handled(cur, numbers)'
  BY <1>1, <1>2, HandledStays DEF Laid, Byte, Size
<1>. QED
  BY <1>2, <1>7, <1>8, <1>9 DEF DzrpInv

\* A message is complete: it is the current one.
LEMMA CompleteDzrp ==
  ASSUME DzrpInv, Dzrp!MessageComplete
  PROVE  /\ dzrpSent' = dzrpSent /\ net' = net /\ chunkTimer' = FALSE
         /\ \E cur \in 1..dzrpSent :
              /\ cur \in 1..Len(Lengths) /\ ~receivingHeader /\ expectedLength = Size(cur) /\ Len(receivedData) >= Size(cur)
              /\ delivered' = Append(delivered, Dzrp!Payload(cur))
              /\ (\E start : Laid(receivedData \o net, cur, dzrpSent, start)) /\ \E numbers : Handled(cur, numbers)
<1>1. PICK cur \in 1..(dzrpSent + 1) :
        HeaderOf(cur) /\ (\E start : Laid(receivedData \o net, cur, dzrpSent, start)) /\ \E numbers : Handled(cur, numbers)
  BY DEF DzrpInv
<1>2. /\ parsing /\ ~receivingHeader /\ Len(receivedData) >= expectedLength /\ chunkTimer' = FALSE
      /\ delivered' = Append(delivered, SubSeq(receivedData, 5, expectedLength))
      /\ dzrpSent' = dzrpSent /\ net' = net
  BY DEF Dzrp!MessageComplete, Dzrp!HeaderLength
<1>3. receivedData # <<>> /\ DzrpTypes /\ expectedLength = Size(cur)
  BY <1>1, <1>2 DEF DzrpInv, Attended, HeaderOf
<1>4. /\ cur \in 1..dzrpSent /\ cur \in 1..Len(Lengths)
      /\ \A k \in 1..Size(cur) : k <= Len(receivedData) => receivedData[k] = <<cur, k>>
  BY <1>1, <1>3, Current
<1>5. SubSeq(receivedData, 5, Size(cur)) = Dzrp!Payload(cur)
  BY <1>2, <1>3, <1>4, PayloadFollows
<1>. QED
  BY <1>1, <1>2, <1>3, <1>4, <1>5

LEMMA DeliveredType ==
  ASSUME DzrpTypes, NEW cur \in 1..Len(Lengths), delivered' = Append(delivered, Dzrp!Payload(cur))
  PROVE  delivered' \in Seq(Seq(Byte))
<1>1. Dzrp!Payload(cur) \in Seq(Byte) /\ delivered \in Seq(Seq(Byte))
  BY Sizes DEF DzrpTypes
<1>. QED
  BY <1>1, AppendProperties

LEMMA ThrowsDzrp == DzrpInv /\ Dzrp!HandlerThrows => DzrpInv'
<1>. SUFFICES ASSUME DzrpInv, Dzrp!HandlerThrows PROVE DzrpInv'
  OBVIOUS
<1>1. /\ Dzrp!MessageComplete /\ handlerThrown' = TRUE /\ parsing' = FALSE /\ DzrpTypes
      /\ UNCHANGED <<receivedData, expectedLength, receivingHeader>>
  BY DEF Dzrp!HandlerThrows, DzrpInv
<1>2. PICK cur \in 1..dzrpSent :
        /\ cur \in 1..Len(Lengths) /\ ~receivingHeader /\ expectedLength = Size(cur) /\ Len(receivedData) >= Size(cur)
        /\ delivered' = Append(delivered, Dzrp!Payload(cur))
        /\ (\E start : Laid(receivedData \o net, cur, dzrpSent, start)) /\ \E numbers : Handled(cur, numbers)
  BY <1>1, CompleteDzrp
<1>3. dzrpSent' = dzrpSent /\ net' = net /\ chunkTimer' = FALSE /\ dzrpSent \in Nat /\ delivered' \in Seq(Seq(Byte))
  BY <1>1, <1>2, CompleteDzrp, Sizes, DeliveredType DEF DzrpTypes
<1>4. HeaderOf(cur)'
  BY <1>1, <1>2, <1>3 DEF HeaderOf, Size
<1>5. DzrpTypes' /\ Attended'
  BY <1>1, <1>3 DEF DzrpTypes, Attended, Byte
<1>6. \E start : Laid(receivedData \o net, cur, dzrpSent, start)'
  BY <1>1, <1>2, <1>3 DEF Laid, Byte, Size
<1>7. \E numbers : Handled(cur, numbers)'
  BY <1>1, <1>2, <1>3, HandledMore
<1>8. cur \in 1..(dzrpSent' + 1)
  BY <1>3
<1>. QED
  BY <1>4, <1>5, <1>6, <1>7, <1>8 DEF DzrpInv

LEMMA HandleDzrp == DzrpInv /\ Dzrp!HandleMessage => DzrpInv'
<1>. SUFFICES ASSUME DzrpInv, Dzrp!HandleMessage PROVE DzrpInv'
  OBVIOUS
<1>1. /\ Dzrp!MessageComplete /\ handlerThrown' = handlerThrown /\ expectedLength' = 4 /\ receivingHeader' = TRUE
      /\ receivedData' = SubSeq(receivedData, expectedLength + 1, Len(receivedData))
      /\ parsing' = (receivedData' # <<>>) /\ DzrpTypes
  BY DEF Dzrp!HandleMessage, Dzrp!HeaderLength, DzrpInv
<1>2. PICK cur \in 1..dzrpSent :
        /\ cur \in 1..Len(Lengths) /\ ~receivingHeader /\ expectedLength = Size(cur) /\ Len(receivedData) >= Size(cur)
        /\ delivered' = Append(delivered, Dzrp!Payload(cur))
        /\ (\E start : Laid(receivedData \o net, cur, dzrpSent, start)) /\ \E numbers : Handled(cur, numbers)
  BY <1>1, CompleteDzrp
<1>3. /\ dzrpSent' = dzrpSent /\ net' = net /\ chunkTimer' = FALSE /\ delivered' \in Seq(Seq(Byte))
      /\ dzrpSent \in Nat /\ receivedData \in Seq(Byte) /\ net \in Seq(Byte) /\ Size(cur) \in 0..Len(receivedData)
  <2>1. dzrpSent \in Nat /\ receivedData \in Seq(Byte) /\ net \in Seq(Byte)
    BY <1>1, Sizes DEF DzrpTypes
  <2>2. Size(cur) \in Nat
    BY <1>2, Sizes
  <2>. QED
    BY <1>1, <1>2, <2>1, <2>2, CompleteDzrp, DeliveredType
<1>4. /\ receivedData' = SubSeq(receivedData, Size(cur) + 1, Len(receivedData)) /\ receivedData' \in Seq(Byte)
  BY <1>1, <1>2, <1>3, Behind
<1>5. receivedData' \o net' = SubSeq(receivedData \o net, Size(cur) + 1, Len(receivedData \o net))
  BY <1>3, <1>4, BehindOfJoined
<1>6. \E start : Laid(receivedData \o net, cur + 1, dzrpSent, start)'
  <2>1. PICK start : Laid(receivedData \o net, cur, dzrpSent, start)
    BY <1>2
  <2>2. cur <= dzrpSent
    BY <1>3
  <2>3. PICK then : Laid(SubSeq(receivedData \o net, Size(cur) + 1, Len(receivedData \o net)), cur + 1, dzrpSent, then)
    BY <2>1, <2>2, LaidDrops
  <2>4. Laid(receivedData' \o net', cur + 1, dzrpSent', then)
    BY <1>3, <1>5, <2>3
  <2>. QED
    BY <2>4 DEF Laid, Byte, Size
<1>7. \E numbers : Handled(cur + 1, numbers)'
  BY <1>1, <1>2, <1>3, HandledMore
<1>8. HeaderOf(cur + 1)' /\ cur + 1 \in 1..(dzrpSent' + 1)
  BY <1>1, <1>3 DEF HeaderOf
<1>9. DzrpTypes' /\ Attended'
  <2>1. (parsing' => receivedData' # <<>>) /\ parsing' \in BOOLEAN /\ (~parsing' => receivedData' = <<>>)
    BY <1>1
  <2>2. DzrpTypes'
    BY <1>1, <1>3, <1>4, <2>1 DEF DzrpTypes, Byte
  <2>3. ~parsing' => Len(receivedData') < expectedLength'
    <3>1. Len(<<>>) = 0 /\ 0 < 4
      OBVIOUS
    <3>. QED
      BY <1>1, <2>1, <3>1
  <2>. QED
    BY <1>3, <2>1, <2>2, <2>3 DEF Attended
<1>10. PICK next \in 1..(dzrpSent' + 1) : next = cur + 1
  BY <1>8
<1>11. HeaderOf(next)' /\ (\E start : Laid(receivedData \o net, next, dzrpSent, start)') /\ \E numbers : Handled(next, numbers)'
  BY <1>6, <1>7, <1>8, <1>10
<1>. QED
  BY <1>9, <1>11 DEF DzrpInv

LEMMA DzrpStep == DzrpInv /\ [Dzrp!Next]_dzrpVars => DzrpInv'
<1>. SUFFICES ASSUME DzrpInv, [Dzrp!Next]_dzrpVars PROVE DzrpInv'
  OBVIOUS
<1>1. CASE UNCHANGED dzrpVars
  <2>1. PICK cur \in 1..(dzrpSent + 1) :
          HeaderOf(cur) /\ (\E start : Laid(receivedData \o net, cur, dzrpSent, start)) /\ \E numbers : Handled(cur, numbers)
    BY DEF DzrpInv
  <2>2. UNCHANGED <<dzrpSent, net, receivedData, expectedLength, receivingHeader, chunkTimer, parsing, delivered,
                    handlerThrown>>
    BY <1>1 DEF dzrpVars
  <2>3. DzrpTypes' /\ Attended' /\ HeaderOf(cur)'
    BY <2>1, <2>2 DEF DzrpInv, DzrpTypes, Attended, HeaderOf, Byte, Size
  <2>4. (\E start : Laid(receivedData \o net, cur, dzrpSent, start)') /\ \E numbers : Handled(cur, numbers)'
    BY <2>1, <2>2, HandledStays DEF Laid, Byte, Size
  <2>. QED
    BY <2>2, <2>3, <2>4 DEF DzrpInv
<1>2. CASE Dzrp!Next
  BY <1>2, SendDzrp, ChunkDzrp, WaitDzrp, HeaderDzrp, HandleDzrp, ThrowsDzrp, TimeoutDzrp DEF Dzrp!Next
<1>. QED
  BY <1>1, <1>2

LEMMA OnlyDzrp ==
  [MCNext]_<<part, allVars, socketQueueVars, dzrpVars, mameVars>> => [Dzrp!Next]_dzrpVars
BY Zenon DEF MCNext

\* What the invariant says of the messages that have been handled.
LEMMA WholeThen == DzrpInv => ReceivedWhole
<1>. SUFFICES ASSUME DzrpInv PROVE ReceivedWhole
  OBVIOUS
<1>1. PICK cur \in 1..(dzrpSent + 1) :
        HeaderOf(cur) /\ (\E start : Laid(receivedData \o net, cur, dzrpSent, start)) /\ \E numbers : Handled(cur, numbers)
  BY DEF DzrpInv
<1>2. PICK start : Laid(receivedData \o net, cur, dzrpSent, start)
  BY <1>1
<1>3. PICK numbers : Handled(cur, numbers)
  BY <1>1
<1>4. /\ dzrpSent \in 0..Len(Lengths) /\ dzrpSent \in Nat /\ Len(Lengths) \in Nat /\ Lengths \in Seq(Nat)
      /\ receivedData \in Seq(Byte) /\ net \in Seq(Byte) /\ delivered \in Seq(Seq(Byte))
      /\ receivingHeader \in BOOLEAN /\ chunkTimer \in BOOLEAN /\ parsing \in BOOLEAN /\ handlerThrown \in BOOLEAN
      /\ DzrpTypes
  BY Sizes, LengthsAreNumbers DEF DzrpInv, DzrpTypes
<1>5. expectedLength = 4 \/ (cur \in 1..Len(Lengths) /\ expectedLength = 4 + Lengths[cur])
  BY <1>1, <1>4 DEF HeaderOf, Size
<1>6. Dzrp!TypeOK
  BY <1>4, <1>5 DEF Dzrp!TypeOK, Dzrp!HeaderLength, Dzrp!Messages
<1>7. Dzrp!TimerMeansIncomplete
  BY DEF DzrpInv, Attended, Dzrp!TimerMeansIncomplete
<1>8. ASSUME net = <<>>, ~parsing, ~handlerThrown PROVE Len(delivered) = dzrpSent
  <2>1. Len(receivedData) < expectedLength /\ Len(receivedData) \in Nat
    BY <1>4, <1>8 DEF DzrpInv, Attended
  <2>2. ASSUME cur \in 1..dzrpSent PROVE FALSE
    <3>1. cur \in 1..Len(Lengths) /\ Len(receivedData) + Len(net) >= Size(cur) /\ Size(cur) \in Nat /\ Size(cur) >= 4
      BY <1>2, <1>4, <2>2, Current, Sizes
    <3>2. Len(net) = 0
      BY <1>8
    <3>3. expectedLength <= Size(cur)
      BY <1>1, <3>1 DEF HeaderOf
    <3>4. Len(receivedData) >= Size(cur) /\ expectedLength \in Nat
      BY <1>4, <1>5, <2>1, <3>1, <3>2
    <3>. QED
      BY <2>1, <3>1, <3>3, <3>4
  <2>3. cur = dzrpSent + 1
    BY <1>4, <2>2
  <2>4. cur = Len(delivered) + 1
    BY <1>3, <1>8 DEF Handled
  <2>. QED
    BY <1>4, <2>3, <2>4
<1>9. Dzrp!DeliveredInOrder
  BY <1>3, <1>8 DEF Handled, Dzrp!DeliveredInOrder
<1>. QED
  BY <1>6, <1>7, <1>9 DEF ReceivedWhole

(* However the chunks are cut, the payloads of the DZRP messages that the  *)
(* remote sends arrive whole and in their order, and the chunk timer runs  *)
(* only while a message is incomplete: for any number of messages of any   *)
(* lengths.                                                                *)
THEOREM Received == MCSpec => []ReceivedWhole
<1>1. MCInit => DzrpInv
  BY InitDzrp DEF MCInit
<1>2. DzrpInv /\ [MCNext]_<<part, allVars, socketQueueVars, dzrpVars, mameVars>> => DzrpInv'
  BY OnlyDzrp, DzrpStep
<1>. QED
  BY <1>1, <1>2, WholeThen, PTL DEF MCSpec

-------------------------------------------------------------------------------
(* The connection to MAME, when no chunk goes on behind the end of a       *)
(* packet.  One command is on its way at a time, so what has been received *)
(* and what is on its way is one of a few sequences of pieces: the answer  *)
(* to the head of the queue (A is an acknowledge, R a reply) and the       *)
(* notification of one stop (T), before or behind it.                      *)

Commands == ({"Z1", "z1"} \X Nat) \cup {Mame!Go, Mame!Where}
Piece == [kind : {"+", "T", "R"}, of : Commands, half : 0..2]
At(s, i, kind, half) == s[i].kind = kind /\ s[i].half = half
Two(s, i, kind) == At(s, i, kind, 1) /\ At(s, i + 1, kind, 2)

Layouts == {"none", "T", "A", "AT", "AR", "R", "TAR", "ART", "RT"}
Pieces(layout, s) ==
  \/ layout = "none" /\ Len(s) = 0
  \/ layout = "T" /\ Len(s) = 2 /\ Two(s, 1, "T")
  \/ layout = "A" /\ Len(s) = 1 /\ At(s, 1, "+", 0)
  \/ layout = "AT" /\ Len(s) = 3 /\ At(s, 1, "+", 0) /\ Two(s, 2, "T")
  \/ layout = "AR" /\ Len(s) = 3 /\ At(s, 1, "+", 0) /\ Two(s, 2, "R")
  \/ layout = "R" /\ Len(s) = 2 /\ Two(s, 1, "R")
  \/ layout = "TAR" /\ Len(s) = 5 /\ Two(s, 1, "T") /\ At(s, 3, "+", 0) /\ Two(s, 4, "R")
  \/ layout = "ART" /\ Len(s) = 5 /\ At(s, 1, "+", 0) /\ Two(s, 2, "R") /\ Two(s, 4, "T")
  \/ layout = "RT" /\ Len(s) = 4 /\ Two(s, 1, "R") /\ Two(s, 3, "T")
Stopping(layout) == layout \in {"T", "AT", "TAR", "ART", "RT"}

\* The head of the queue has reached MAME when an answer to it is on its way back.
OnItsWay(layout) ==
  \/ layout \in {"none", "T"} /\ messageQueue = <<>> /\ toMame = <<>>
  \/ layout \in {"none", "T"} /\ messageQueue # <<>> /\ toMame = <<messageQueue[1]>>
  \/ layout \in {"A", "AT"} /\ messageQueue # <<>> /\ messageQueue[1] = Mame!Go /\ toMame = <<>>
  \/ layout \in {"AR", "R", "TAR", "ART", "RT"} /\ messageQueue # <<>> /\ messageQueue[1] # Mame!Go /\ toMame = <<>>

\* Of what the continue and the handler of its break send, one command is in the queue; the others
\* in it are of the pause button.
Queued ==
  /\ \A i \in 1..Len(messageQueue) : messageQueue[i] # Mame!Where => script # <<>> /\ messageQueue[i] = script[1]
  /\ \A i, j \in 1..Len(messageQueue) : messageQueue[i] # Mame!Where /\ messageQueue[j] # Mame!Where => i = j
  /\ script # <<>> => \E i \in 1..Len(messageQueue) : messageQueue[i] = script[1]
  /\ \A i \in 1..Len(script) : script[i] # Mame!Where

\* The commands from the j-th of n breakpoints on.
SetsFrom(j, n) == [i \in 1..(n + 2 - j) |-> IF i = n + 2 - j THEN Mame!Go ELSE Mame!Set(j + i - 1)]
ClearsFrom(j, n) == [i \in 1..(n + 1 - j) |-> Mame!Clear(j + i - 1)]

\* Where the user is: at rest, with the breakpoints being set, running, with the breakpoints being
\* removed.
AtRest(layout) ==
  /\ userState = "stopped" /\ script = <<>> /\ funcContinueResolve = "none"
  /\ ~mameRuns /\ ~Stopping(layout) /\ mameBps = {}

SettingUp(layout, n) ==
  /\ userState = "running" /\ funcContinueResolve # "none"
  /\ \E j \in 1..(n + 1) : script = SetsFrom(j, n)
  /\ mameBps \subseteq 1..n
  /\ mameRuns <=> layout = "A"
  /\ Stopping(layout) => layout = "AT"

Going(layout, n) ==
  /\ userState = "running" /\ funcContinueResolve # "none"
  /\ script = <<>>
  /\ mameBps \subseteq 1..n
  /\ mameRuns <=> ~Stopping(layout)

Removing(layout, n) ==
  /\ userState = "running" /\ funcContinueResolve = "none"
  /\ ~mameRuns /\ ~Stopping(layout)
  /\ \E j \in 1..n :
       /\ script = ClearsFrom(j, n)
       /\ mameBps \subseteq j..n
       /\ toMame = <<>> /\ messageQueue[1] = Mame!Clear(j) => j \notin mameBps

Phases(layout, n) == AtRest(layout) \/ SettingUp(layout, n) \/ Going(layout, n) \/ Removing(layout, n)

MameTypes ==
  /\ messageQueue \in Seq(Commands) /\ script \in Seq(Commands)
  /\ mameData \in Seq(Piece) /\ fromMame \in Seq(Piece)
  /\ IsFiniteSet(bps)
  /\ mameRuns \in BOOLEAN

MameInv ==
  /\ MameTypes /\ Queued
  /\ \E layout \in Layouts :
       /\ Pieces(layout, mameData \o fromMame)
       /\ OnItsWay(layout)
       /\ Phases(layout, Cardinality(bps))

LEMMA DifferentCommands ==
  /\ Mame!Go # Mame!Where /\ Mame!Go \in Commands /\ Mame!Where \in Commands
  /\ \A i \in Nat : /\ Mame!Set(i) \in Commands /\ Mame!Set(i) # Mame!Go /\ Mame!Set(i) # Mame!Where
                    /\ Mame!Clear(i) \in Commands /\ Mame!Clear(i) # Mame!Go /\ Mame!Clear(i) # Mame!Where
                    /\ Mame!Set(i)[1] = "Z1" /\ Mame!Set(i)[2] = i
                    /\ Mame!Clear(i)[1] = "z1" /\ Mame!Clear(i)[2] = i
  /\ Mame!Go[1] = "c" /\ Mame!Where[1] = "p0b"
BY DEF Commands, Mame!Go, Mame!Where, Mame!Set, Mame!Clear

LEMMA ScriptTypes ==
  ASSUME NEW n \in Nat
  PROVE  /\ \A j \in 1..(n + 1) :
              /\ SetsFrom(j, n) \in Seq(Commands) /\ Len(SetsFrom(j, n)) = n + 2 - j /\ SetsFrom(j, n) # <<>>
              /\ \A i \in 1..(n + 2 - j) : SetsFrom(j, n)[i] # Mame!Where
              /\ SetsFrom(j, n)[1] = IF j = n + 1 THEN Mame!Go ELSE Mame!Set(j)
         /\ \A j \in 1..(n + 1) :
              /\ ClearsFrom(j, n) \in Seq(Commands) /\ Len(ClearsFrom(j, n)) = n + 1 - j
              /\ \A i \in 1..(n + 1 - j) : ClearsFrom(j, n)[i] # Mame!Where
              /\ j <= n => ClearsFrom(j, n) # <<>> /\ ClearsFrom(j, n)[1] = Mame!Clear(j)
              /\ j = n + 1 => ClearsFrom(j, n) = <<>>
<1>1. ASSUME NEW j \in 1..(n + 1)
      PROVE  /\ SetsFrom(j, n) \in Seq(Commands) /\ Len(SetsFrom(j, n)) = n + 2 - j /\ SetsFrom(j, n) # <<>>
             /\ \A i \in 1..(n + 2 - j) : SetsFrom(j, n)[i] # Mame!Where
             /\ SetsFrom(j, n)[1] = IF j = n + 1 THEN Mame!Go ELSE Mame!Set(j)
  <2>1. n + 2 - j \in Nat /\ n + 2 - j >= 1 /\ 1 \in 1..(n + 2 - j) /\ (1 = n + 2 - j <=> j = n + 1) /\ j + 1 - 1 = j
    OBVIOUS
  <2>2. SetsFrom(j, n) \in [1..(n + 2 - j) -> Commands]
    BY DifferentCommands DEF SetsFrom
  <2>3. SetsFrom(j, n) \in Seq(Commands) /\ Len(SetsFrom(j, n)) = n + 2 - j
    BY <2>1, <2>2, FunctionIsSeq
  <2>4. \A i \in 1..(n + 2 - j) : SetsFrom(j, n)[i] # Mame!Where
    BY DifferentCommands DEF SetsFrom
  <2>5. SetsFrom(j, n)[1] = IF j = n + 1 THEN Mame!Go ELSE Mame!Set(j)
    BY <2>1 DEF SetsFrom
  <2>. QED
    BY <2>1, <2>3, <2>4, <2>5
<1>2. ASSUME NEW j \in 1..(n + 1)
      PROVE  /\ ClearsFrom(j, n) \in Seq(Commands) /\ Len(ClearsFrom(j, n)) = n + 1 - j
             /\ \A i \in 1..(n + 1 - j) : ClearsFrom(j, n)[i] # Mame!Where
             /\ j <= n => ClearsFrom(j, n) # <<>> /\ ClearsFrom(j, n)[1] = Mame!Clear(j)
             /\ j = n + 1 => ClearsFrom(j, n) = <<>>
  <2>1. n + 1 - j \in Nat /\ (j <= n => 1 \in 1..(n + 1 - j) /\ n + 1 - j # 0) /\ j + 1 - 1 = j /\ (j = n + 1 => n + 1 - j = 0)
    OBVIOUS
  <2>2. ClearsFrom(j, n) \in [1..(n + 1 - j) -> Commands]
    BY DifferentCommands DEF ClearsFrom
  <2>3. ClearsFrom(j, n) \in Seq(Commands) /\ Len(ClearsFrom(j, n)) = n + 1 - j
    BY <2>1, <2>2, FunctionIsSeq
  <2>4. \A i \in 1..(n + 1 - j) : ClearsFrom(j, n)[i] # Mame!Where
    BY DifferentCommands DEF ClearsFrom
  <2>5. j <= n => ClearsFrom(j, n)[1] = Mame!Clear(j)
    BY <2>1 DEF ClearsFrom
  <2>. QED
    BY <2>1, <2>3, <2>4, <2>5
<1>. QED
  BY <1>1, <1>2

LEMMA NoElements ==
  ASSUME NEW S, NEW s \in Seq(S)
  PROVE  Len(s) = 0 <=> s = <<>>
OBVIOUS

\* What is left of a script when its first command has been answered.
LEMMA TailOf ==
  ASSUME NEW S, NEW s \in Seq(S), s # <<>>
  PROVE  /\ Tail(s) \in Seq(S) /\ Len(Tail(s)) = Len(s) - 1 /\ Head(s) = s[1] /\ s[1] \in S
         /\ \A i \in 1..(Len(s) - 1) : Tail(s)[i] = s[i + 1]
         /\ Len(s) \in Nat /\ Len(s) >= 1
OBVIOUS

LEMMA ScriptTails ==
  ASSUME NEW n \in Nat
  PROVE  /\ \A j \in 1..n : Tail(SetsFrom(j, n)) = SetsFrom(j + 1, n)
         /\ Tail(SetsFrom(n + 1, n)) = <<>>
         /\ \A j \in 1..n : Tail(ClearsFrom(j, n)) = ClearsFrom(j + 1, n)
<1>1. ASSUME NEW j \in 1..n PROVE Tail(SetsFrom(j, n)) = SetsFrom(j + 1, n)
  <2>1. j \in 1..(n + 1) /\ j + 1 \in 1..(n + 1) /\ (n + 2 - j) - 1 = n + 2 - (j + 1)
    OBVIOUS
  <2>2. /\ SetsFrom(j, n) \in Seq(Commands) /\ SetsFrom(j, n) # <<>> /\ Len(SetsFrom(j, n)) = n + 2 - j
        /\ SetsFrom(j + 1, n) \in Seq(Commands) /\ Len(SetsFrom(j + 1, n)) = n + 2 - (j + 1)
    BY <2>1, ScriptTypes
  <2>3. /\ Tail(SetsFrom(j, n)) \in Seq(Commands) /\ Len(Tail(SetsFrom(j, n))) = n + 2 - (j + 1)
        /\ \A i \in 1..(n + 2 - (j + 1)) : Tail(SetsFrom(j, n))[i] = SetsFrom(j, n)[i + 1]
    BY <2>1, <2>2, TailOf
  <2>4. ASSUME NEW i \in 1..(n + 2 - (j + 1)) PROVE SetsFrom(j, n)[i + 1] = SetsFrom(j + 1, n)[i]
    <3>1. i + 1 \in 1..(n + 2 - j) /\ (i + 1 = n + 2 - j <=> i = n + 2 - (j + 1)) /\ j + (i + 1) - 1 = (j + 1) + i - 1
      OBVIOUS
    <3>2. SetsFrom(j, n)[i + 1] = IF i + 1 = n + 2 - j THEN Mame!Go ELSE Mame!Set(j + (i + 1) - 1)
      BY <3>1 DEF SetsFrom
    <3>3. SetsFrom(j + 1, n)[i] = IF i = n + 2 - (j + 1) THEN Mame!Go ELSE Mame!Set((j + 1) + i - 1)
      BY DEF SetsFrom
    <3>. QED
      BY <3>1, <3>2, <3>3
  <2>. QED
    BY <2>2, <2>3, <2>4, SameSeq
<1>2. Tail(SetsFrom(n + 1, n)) = <<>>
  <2>1. n + 1 \in 1..(n + 1) /\ n + 2 - (n + 1) = 1
    OBVIOUS
  <2>2. SetsFrom(n + 1, n) \in Seq(Commands) /\ SetsFrom(n + 1, n) # <<>> /\ Len(SetsFrom(n + 1, n)) = 1
    BY <2>1, ScriptTypes
  <2>3. Tail(SetsFrom(n + 1, n)) \in Seq(Commands) /\ Len(Tail(SetsFrom(n + 1, n))) = 0
    BY <2>2, TailOf
  <2>. QED
    BY <2>3, NoElements
<1>3. ASSUME NEW j \in 1..n PROVE Tail(ClearsFrom(j, n)) = ClearsFrom(j + 1, n)
  <2>1. j \in 1..(n + 1) /\ j <= n /\ j + 1 \in 1..(n + 1) /\ (n + 1 - j) - 1 = n + 1 - (j + 1)
    OBVIOUS
  <2>2. /\ ClearsFrom(j, n) \in Seq(Commands) /\ ClearsFrom(j, n) # <<>> /\ Len(ClearsFrom(j, n)) = n + 1 - j
        /\ ClearsFrom(j + 1, n) \in Seq(Commands) /\ Len(ClearsFrom(j + 1, n)) = n + 1 - (j + 1)
    BY <2>1, ScriptTypes
  <2>3. /\ Tail(ClearsFrom(j, n)) \in Seq(Commands) /\ Len(Tail(ClearsFrom(j, n))) = n + 1 - (j + 1)
        /\ \A i \in 1..(n + 1 - (j + 1)) : Tail(ClearsFrom(j, n))[i] = ClearsFrom(j, n)[i + 1]
    BY <2>1, <2>2, TailOf
  <2>4. ASSUME NEW i \in 1..(n + 1 - (j + 1)) PROVE ClearsFrom(j, n)[i + 1] = ClearsFrom(j + 1, n)[i]
    <3>1. i + 1 \in 1..(n + 1 - j) /\ j + (i + 1) - 1 = (j + 1) + i - 1
      OBVIOUS
    <3>2. ClearsFrom(j, n)[i + 1] = Mame!Clear(j + (i + 1) - 1)
      BY <3>1 DEF ClearsFrom
    <3>3. ClearsFrom(j + 1, n)[i] = Mame!Clear((j + 1) + i - 1)
      BY DEF ClearsFrom
    <3>. QED
      BY <3>1, <3>2, <3>3
  <2>. QED
    BY <2>2, <2>3, <2>4, SameSeq
<1>. QED
  BY <1>1, <1>2, <1>3

\* What is behind the first d pieces.
LEMMA PiecesBehind ==
  ASSUME NEW s \in Seq(Piece), NEW d \in 0..Len(s), NEW t, t = SubSeq(s, d + 1, Len(s))
  PROVE  /\ t \in Seq(Piece)
         /\ \A layout \in Layouts : d = 0 /\ Pieces(layout, s) => Pieces(layout, t)
         /\ d = 2 => /\ Pieces("T", s) => Pieces("none", t)
                     /\ Pieces("R", s) => Pieces("none", t)
                     /\ Pieces("TAR", s) => Pieces("AR", t)
                     /\ Pieces("RT", s) => Pieces("T", t)
         /\ d = 1 => /\ Pieces("A", s) => Pieces("none", t)
                     /\ Pieces("AT", s) => Pieces("T", t)
                     /\ Pieces("AR", s) => Pieces("R", t)
                     /\ Pieces("ART", s) => Pieces("RT", t)
         /\ d = 3 => /\ Pieces("AR", s) => Pieces("none", t)
                     /\ Pieces("AT", s) => Pieces("none", t)
                     /\ Pieces("ART", s) => Pieces("T", t)
<1>1. t \in Seq(Piece) /\ Len(t) = Len(s) - d /\ \A i \in 1..(Len(s) - d) : t[i] = s[d + i]
  BY Behind
<1>2. Len(s) \in Nat
  OBVIOUS
<1>3. ASSUME d = 0 PROVE t = s
  <2>1. Len(t) = Len(s) /\ \A i \in 1..Len(t) : t[i] = s[i]
    BY <1>1, <1>2, <1>3
  <2>. QED
    BY <1>1, <2>1, SameSeq
<1>4. ASSUME d = 2
      PROVE  /\ Pieces("T", s) => Pieces("none", t)
             /\ Pieces("R", s) => Pieces("none", t)
             /\ Pieces("TAR", s) => Pieces("AR", t)
             /\ Pieces("RT", s) => Pieces("T", t)
  BY <1>1, <1>2, <1>4 DEF Pieces, Two, At
<1>5. ASSUME d = 1
      PROVE  /\ Pieces("A", s) => Pieces("none", t)
             /\ Pieces("AT", s) => Pieces("T", t)
             /\ Pieces("AR", s) => Pieces("R", t)
             /\ Pieces("ART", s) => Pieces("RT", t)
  BY <1>1, <1>2, <1>5 DEF Pieces, Two, At
<1>6. ASSUME d = 3
      PROVE  /\ Pieces("AR", s) => Pieces("none", t)
             /\ Pieces("AT", s) => Pieces("none", t)
             /\ Pieces("ART", s) => Pieces("T", t)
  BY <1>1, <1>2, <1>6 DEF Pieces, Two, At
<1>. QED
  BY <1>1, <1>3, <1>4, <1>5, <1>6

\* Two parts that follow one another.
LEMMA Middle ==
  ASSUME NEW S, NEW s \in Seq(S), NEW a \in 0..Len(s), NEW m \in a..Len(s)
  PROVE  /\ SubSeq(s, a + 1, m) \in Seq(S) /\ Len(SubSeq(s, a + 1, m)) = m - a
         /\ \A i \in 1..(m - a) : SubSeq(s, a + 1, m)[i] = s[a + i]
         /\ SubSeq(s, a + 1, m) \o SubSeq(s, m + 1, Len(s)) = SubSeq(s, a + 1, Len(s))
<1>. DEFINE u == SubSeq(s, a + 1, m)
            v == SubSeq(s, m + 1, Len(s))
            w == SubSeq(s, a + 1, Len(s))
<1>1. Len(s) \in Nat /\ a \in Nat /\ m \in Nat /\ a <= m /\ m <= Len(s) /\ m \in 0..Len(s) /\ a + 1 \in Int
      /\ \A i \in (a + 1)..m : s[i] \in S
  OBVIOUS
<1>2. u \in Seq(S) /\ Len(u) = m - a /\ \A i \in 1..(m - a) : u[i] = s[a + i]
  <2>1. /\ u \in Seq(S) /\ Len(u) = IF a + 1 <= m THEN m - (a + 1) + 1 ELSE 0
        /\ \A i \in 1..(m - (a + 1) + 1) : u[i] = s[(a + 1) + i - 1]
    BY <1>1, SubSeqProperties
  <2>. HIDE DEF u
  <2>. QED
    BY <1>1, <2>1
<1>3. /\ v \in Seq(S) /\ Len(v) = Len(s) - m /\ (\A i \in 1..(Len(s) - m) : v[i] = s[m + i])
      /\ w \in Seq(S) /\ Len(w) = Len(s) - a /\ \A i \in 1..(Len(s) - a) : w[i] = s[a + i]
  BY <1>1, Behind
<1>. HIDE DEF u, v, w
<1>4. /\ u \o v \in Seq(S) /\ Len(u \o v) = Len(u) + Len(v)
      /\ \A i \in 1..(Len(u) + Len(v)) : (u \o v)[i] = IF i <= Len(u) THEN u[i] ELSE v[i - Len(u)]
  BY <1>2, <1>3, ConcatProperties
<1>5. Len(u \o v) = Len(w)
  BY <1>1, <1>2, <1>3, <1>4
<1>6. ASSUME NEW i \in 1..Len(w) PROVE (u \o v)[i] = w[i]
  <2>1. i \in 1..(Len(u) + Len(v)) /\ i \in 1..(Len(s) - a) /\ w[i] = s[a + i]
    BY <1>1, <1>2, <1>3
  <2>2. CASE i <= Len(u)
    <3>1. i \in 1..(m - a)
      BY <1>1, <1>2, <2>1, <2>2
    <3>. QED
      BY <1>2, <1>4, <2>1, <2>2, <3>1
  <2>3. CASE ~(i <= Len(u))
    <3>1. i - Len(u) \in 1..(Len(s) - m) /\ m + (i - Len(u)) = a + i
      BY SMTT(20), <1>1, <1>2, <2>1, <2>3
    <3>. QED
      BY <1>3, <1>4, <2>1, <2>3, <3>1
  <2>. QED
    BY <2>2, <2>3
<1>7. u \o v = w
  BY <1>3, <1>4, <1>5, <1>6, SameSeq
<1>. QED
  BY <1>2, <1>7 DEF u, v, w

\* What comes in is the beginning of what has been received and what is on its way.
Arrives(rd, fm, n, S) ==
  /\ rd \o fm \in Seq(S) /\ Len(rd) + n \in 1..Len(rd \o fm)
  /\ rd \o SubSeq(fm, 1, n) = SubSeq(rd \o fm, 1, Len(rd) + n)
  /\ SubSeq(fm, n + 1, Len(fm)) = SubSeq(rd \o fm, (Len(rd) + n) + 1, Len(rd \o fm))
  /\ \A i \in 1..Len(rd) : (rd \o fm)[i] = rd[i]
  /\ \A k \in 1..n : (rd \o fm)[Len(rd) + k] = fm[k]

LEMMA Incoming ==
  ASSUME NEW S, NEW rd \in Seq(S), NEW fm \in Seq(S), NEW n \in 1..Len(fm)
  PROVE  Arrives(rd, fm, n, S)
<1>. DEFINE m == Len(rd) + n
            s == rd \o fm
<1>1. /\ s \in Seq(S) /\ Len(s) = Len(rd) + Len(fm)
      /\ \A i \in 1..(Len(rd) + Len(fm)) : s[i] = IF i <= Len(rd) THEN rd[i] ELSE fm[i - Len(rd)]
  BY ConcatProperties
<1>2. Len(rd) \in Nat /\ Len(fm) \in Nat /\ n \in Nat /\ n >= 1 /\ n <= Len(fm) /\ n \in 0..Len(fm)
  OBVIOUS
<1>3. m \in 1..Len(s) /\ m \in 0..Len(s) /\ m \in Nat
  BY <1>1, <1>2
<1>4. /\ SubSeq(fm, 1, n) \in Seq(S) /\ Len(SubSeq(fm, 1, n)) = n /\ (\A i \in 1..n : SubSeq(fm, 1, n)[i] = fm[i])
      /\ SubSeq(fm, n + 1, Len(fm)) \in Seq(S) /\ Len(SubSeq(fm, n + 1, Len(fm))) = Len(fm) - n
      /\ \A i \in 1..(Len(fm) - n) : SubSeq(fm, n + 1, Len(fm))[i] = fm[n + i]
  BY <1>2, First, Behind
<1>5. /\ SubSeq(s, 1, m) \in Seq(S) /\ Len(SubSeq(s, 1, m)) = m /\ (\A i \in 1..m : SubSeq(s, 1, m)[i] = s[i])
      /\ SubSeq(s, m + 1, Len(s)) \in Seq(S) /\ Len(SubSeq(s, m + 1, Len(s))) = Len(s) - m
      /\ \A i \in 1..(Len(s) - m) : SubSeq(s, m + 1, Len(s))[i] = s[m + i]
  BY <1>1, <1>3, First, Behind
<1>6. rd \o SubSeq(fm, 1, n) = SubSeq(s, 1, m)
  <2>1. /\ rd \o SubSeq(fm, 1, n) \in Seq(S) /\ Len(rd \o SubSeq(fm, 1, n)) = m
        /\ \A i \in 1..m : (rd \o SubSeq(fm, 1, n))[i] = IF i <= Len(rd) THEN rd[i] ELSE SubSeq(fm, 1, n)[i - Len(rd)]
    BY <1>4, ConcatProperties
  <2>2. ASSUME NEW i \in 1..m PROVE (rd \o SubSeq(fm, 1, n))[i] = SubSeq(s, 1, m)[i]
    <3>1. i \in 1..(Len(rd) + Len(fm)) /\ (~(i <= Len(rd)) => i - Len(rd) \in 1..n)
      BY <1>2
    <3>. QED
      BY <1>1, <1>4, <1>5, <2>1, <3>1
  <2>. QED
    BY <1>5, <2>1, <2>2, SameSeq
<1>7. SubSeq(fm, n + 1, Len(fm)) = SubSeq(s, m + 1, Len(s))
  <2>1. Len(s) - m = Len(fm) - n
    BY <1>1, <1>2
  <2>2. ASSUME NEW i \in 1..(Len(fm) - n) PROVE fm[n + i] = s[m + i]
    <3>1. m + i \in 1..(Len(rd) + Len(fm)) /\ ~(m + i <= Len(rd)) /\ (m + i) - Len(rd) = n + i
      BY <1>2
    <3>. QED
      BY <1>1, <3>1
  <2>. QED
    BY <1>4, <1>5, <2>1, <2>2, SameSeq
<1>8. ASSUME NEW i \in 1..n PROVE s[Len(rd) + i] = fm[i]
  <2>1. Len(rd) + i \in 1..(Len(rd) + Len(fm)) /\ ~(Len(rd) + i <= Len(rd)) /\ (Len(rd) + i) - Len(rd) = i
    BY <1>2
  <2>. QED
    BY <1>1, <2>1
<1>9. \A i \in 1..Len(rd) : s[i] = rd[i]
  BY <1>1, <1>2
<1>. QED
  BY <1>1, <1>3, <1>6, <1>7, <1>8, <1>9 DEF Arrives

\* What receivedMsg and the answers do, once the pieces are known that are looked at.
HeadAnswered == Mame!Answered(Tail(messageQueue), Head(messageQueue))
StopsAtOnce ==
  LET rest == Tail(messageQueue) \o (IF Mame!clears = <<>> THEN <<>> ELSE <<Head(Mame!clears)>>)
  IN  /\ funcContinueResolve' = "none"
      /\ script' = Mame!clears /\ messageQueue' = rest /\ toMame' = toMame \o Mame!Sent(rest)
      /\ userState' = IF Mame!clears = <<>> THEN "stopped" ELSE userState
NothingDone == UNCHANGED <<script, messageQueue, toMame, userState, funcContinueResolve>>
GoWaits == messageQueue # <<>> /\ Head(messageQueue) = Mame!Go

LEMMA WhatIsDone ==
  ASSUME NEW data, Mame!dataReceived(data), NEW acked, NEW full \in BOOLEAN,
         acked = IF Head(mameData \o data).kind = "+" THEN Tail(mameData \o data) ELSE mameData \o data,
         full <=> Len(acked) >= 2, full => acked # <<>>, acked # <<>> => acked[1].half = 1
  PROVE  /\ bps' = bps
         /\ mameData' = IF full THEN SubSeq(acked, 3, Len(acked)) ELSE acked
         /\ GoWaits /\ ~full => HeadAnswered
         /\ GoWaits /\ full => StopsAtOnce
         /\ ~GoWaits /\ ~full => NothingDone
         /\ ~GoWaits /\ full /\ acked[1].kind = "T" => Mame!Notified
         /\ ~GoWaits /\ full /\ acked[1].kind = "R" /\ messageQueue # <<>> => HeadAnswered
<1>. DEFINE go == messageQueue # <<>> /\ Mame!noReply(Head(messageQueue))
            complete == Len(acked) >= 2 /\ acked[1].half = 1
            wrong == acked # <<>> /\ acked[1].half # 1
<1>1. go <=> GoWaits
  BY DEF Mame!noReply, GoWaits
<1>2. complete <=> full
  OBVIOUS
<1>3. ~wrong
  OBVIOUS
<1>4. /\ mameData' = IF wrong THEN <<>> ELSE IF complete THEN SubSeq(acked, 3, Len(acked)) ELSE acked
      /\ bps' = bps
  BY DEF Mame!dataReceived
<1>5. ~wrong /\ go /\ ~complete => HeadAnswered
  BY <1>3 DEF Mame!dataReceived, HeadAnswered
<1>6. ~wrong /\ go /\ complete => StopsAtOnce
  BY <1>3 DEF Mame!dataReceived, StopsAtOnce
<1>7. ~wrong /\ ~go /\ complete /\ acked[1].kind = "T" => Mame!Notified
  BY <1>3 DEF Mame!dataReceived
<1>8. ~wrong /\ ~go /\ complete /\ acked[1].kind = "R" /\ messageQueue # <<>> => HeadAnswered
  BY <1>3 DEF Mame!dataReceived, HeadAnswered
<1>9. ~wrong /\ ~go /\ ~complete => NothingDone
  BY <1>3 DEF Mame!dataReceived, NothingDone
<1>. HIDE DEF go, complete, wrong
<1>. QED
  BY <1>1, <1>2, <1>3, <1>4, <1>5, <1>6, <1>7, <1>8, <1>9

LEMMA TailOfFirst ==
  ASSUME NEW S, NEW s \in Seq(S), NEW m \in 1..Len(s)
  PROVE  /\ Tail(SubSeq(s, 1, m)) = SubSeq(s, 2, m) /\ Head(SubSeq(s, 1, m)) = s[1]
<1>1. /\ m \in 0..Len(s) /\ 1 \in 0..Len(s) /\ m \in 1..Len(s) /\ Len(s) \in Nat /\ m \in Nat /\ m >= 1 /\ m # 0
  OBVIOUS
<1>2. SubSeq(s, 1, m) \in Seq(S) /\ Len(SubSeq(s, 1, m)) = m /\ \A i \in 1..m : SubSeq(s, 1, m)[i] = s[i]
  BY <1>1, First
<1>3. SubSeq(s, 1 + 1, m) \in Seq(S) /\ Len(SubSeq(s, 1 + 1, m)) = m - 1 /\ \A i \in 1..(m - 1) : SubSeq(s, 1 + 1, m)[i] = s[1 + i]
  BY <1>1, Middle
<1>4. SubSeq(s, 1, m) # <<>>
  BY <1>1, <1>2, NoElements
<1>5. /\ Tail(SubSeq(s, 1, m)) \in Seq(S) /\ Len(Tail(SubSeq(s, 1, m))) = m - 1 /\ Head(SubSeq(s, 1, m)) = SubSeq(s, 1, m)[1]
      /\ \A i \in 1..(m - 1) : Tail(SubSeq(s, 1, m))[i] = SubSeq(s, 1, m)[i + 1]
  BY <1>2, <1>4, TailOf
<1>6. \A i \in 1..(m - 1) : i + 1 \in 1..m /\ 1 + i = i + 1
  BY <1>1
<1>7. Tail(SubSeq(s, 1, m)) = SubSeq(s, 1 + 1, m)
  BY <1>2, <1>3, <1>5, <1>6, SameSeq
<1>. QED
  BY <1>1, <1>2, <1>5, <1>7

\* An acknowledge is taken off, and a packet when it is complete.
Taken(s, off, d) ==
  /\ mameData' \in Seq(Piece) /\ fromMame' \in Seq(Piece)
  /\ mameData' \o fromMame' = SubSeq(s, d + 1, Len(s))
  /\ UNCHANGED <<bps, mameRuns, mameBps>>
  /\ GoWaits /\ d = off => HeadAnswered
  /\ GoWaits /\ d # off => StopsAtOnce
  /\ ~GoWaits /\ d = off => NothingDone
  /\ ~GoWaits /\ d # off /\ s[off + 1].kind = "T" => Mame!Notified
  /\ ~GoWaits /\ d # off /\ s[off + 1].kind = "R" /\ messageQueue # <<>> => HeadAnswered

LEMMA DataTakes ==
  ASSUME MameTypes, NEW n, Mame!Data(n), NEW s, s = mameData \o fromMame, NEW off \in 0..1,
         off = 1 <=> s[1].kind = "+",
         Len(s) = off \/ (off + 2 <= Len(s) /\ Two(s, off + 1, s[off + 1].kind))
  PROVE  s \in Seq(Piece) /\ \E d \in {off, off + 2} : d \in 0..Len(s) /\ Taken(s, off, d)
<1>0. n \in 1..Len(fromMame) /\ mameData \in Seq(Piece) /\ fromMame \in Seq(Piece)
  BY DEF Mame!Data, MameTypes
<1>1. /\ fromMame' = SubSeq(fromMame, n + 1, Len(fromMame))
      /\ UNCHANGED <<mameRuns, mameBps>>
  BY DEF Mame!Data
<1>a. PICK data : data = SubSeq(fromMame, 1, n) /\ Mame!dataReceived(data)
  BY DEF Mame!Data
<1>c. PICK m : m = Len(mameData) + n
  OBVIOUS
<1>2. /\ m \in 1..Len(s) /\ m = Len(mameData) + n /\ s \in Seq(Piece)
      /\ mameData \o SubSeq(fromMame, 1, n) = SubSeq(s, 1, m)
      /\ SubSeq(fromMame, n + 1, Len(fromMame)) = SubSeq(s, m + 1, Len(s))
      /\ \A i \in 1..Len(mameData) : s[i] = mameData[i]
      /\ \A k \in 1..n : s[Len(mameData) + k] = fromMame[k]
  <2>1. /\ mameData \o fromMame \in Seq(Piece) /\ Len(mameData) + n \in 1..Len(mameData \o fromMame)
        /\ mameData \o SubSeq(fromMame, 1, n) = SubSeq(mameData \o fromMame, 1, Len(mameData) + n)
        /\ SubSeq(fromMame, n + 1, Len(fromMame))
             = SubSeq(mameData \o fromMame, (Len(mameData) + n) + 1, Len(mameData \o fromMame))
        /\ \A i \in 1..Len(mameData) : (mameData \o fromMame)[i] = mameData[i]
        /\ \A k \in 1..n : (mameData \o fromMame)[Len(mameData) + k] = fromMame[k]
    <3>1. Arrives(mameData, fromMame, n, Piece)
      BY <1>0, Incoming
    <3>. QED
      BY Zenon, <3>1 DEF Arrives
  <2>. QED
    BY <1>c, <2>1
<1>b. s \in Seq(Piece) /\ m = Len(mameData) + n /\ m \in 1..Len(s)
  BY <1>2
<1>3. /\ Len(s) \in Nat /\ m \in Nat /\ m >= 1 /\ m <= Len(s) /\ off \in Nat /\ Len(mameData) \in Nat /\ n \in Nat
      /\ off = 0 \/ off = 1
  BY <1>0, <1>b
<1>5. m > off => off + 2 <= Len(s) /\ s[off + 1].half = 1
  <2>1. CASE Len(s) = off
    BY <1>3, <2>1
  <2>2. CASE off + 2 <= Len(s) /\ Two(s, off + 1, s[off + 1].kind)
    BY <2>2 DEF Two, At
  <2>. QED
    BY <2>1, <2>2
<1>6. off \in 0..Len(s) /\ m \in off..Len(s) /\ m \in 0..Len(s)
  BY <1>3
<1>. DEFINE acked == SubSeq(s, off + 1, m)
            all == mameData \o data
<1>7. /\ acked \in Seq(Piece) /\ Len(acked) = m - off /\ (\A i \in 1..(m - off) : acked[i] = s[off + i])
      /\ acked \o SubSeq(s, m + 1, Len(s)) = SubSeq(s, off + 1, Len(s))
  <2>1. \A k \in off..Len(s) :
          /\ SubSeq(s, off + 1, k) \in Seq(Piece) /\ Len(SubSeq(s, off + 1, k)) = k - off
          /\ \A i \in 1..(k - off) : SubSeq(s, off + 1, k)[i] = s[off + i]
          /\ SubSeq(s, off + 1, k) \o SubSeq(s, k + 1, Len(s)) = SubSeq(s, off + 1, Len(s))
    BY <1>b, <1>6, Middle
  <2>. QED
    BY <1>6, <2>1
<1>8. acked = IF Head(all).kind = "+" THEN Tail(all) ELSE all
  <2>1. Tail(SubSeq(s, 1, m)) = SubSeq(s, 2, m) /\ Head(SubSeq(s, 1, m)) = s[1]
    BY <1>b, TailOfFirst
  <2>2. all = SubSeq(s, 1, m)
    BY <1>2, <1>a
  <2>3. CASE off = 1
    <3>1. off + 1 = 2
      BY <2>3
    <3>. QED
      BY <2>1, <2>2, <2>3, <3>1
  <2>4. CASE off = 0
    <3>1. off + 1 = 1 /\ ~(s[1].kind = "+")
      BY <1>3, <2>4
    <3>. QED
      BY <2>1, <2>2, <2>4, <3>1
  <2>. QED
    BY <1>3, <2>3, <2>4
<1>. HIDE DEF acked, all
<1>9. PICK full \in BOOLEAN : full <=> m >= off + 2
  OBVIOUS
<1>10. (full <=> Len(acked) >= 2) /\ (full => acked # <<>>) /\ (acked # <<>> => acked[1].half = 1 /\ acked[1] = s[off + 1])
  <2>1. full <=> Len(acked) >= 2
    BY <1>3, <1>5, <1>7, <1>9
  <2>2. acked # <<>> <=> Len(acked) # 0
    BY <1>7, NoElements
  <2>3. acked # <<>> => m > off /\ 1 \in 1..(m - off)
    BY <1>3, <1>6, <1>7, <2>2
  <2>. QED
    BY <1>5, <1>7, <2>1, <2>2, <2>3
<1>11. /\ bps' = bps
       /\ mameData' = IF full THEN SubSeq(acked, 3, Len(acked)) ELSE acked
       /\ GoWaits /\ ~full => HeadAnswered
       /\ GoWaits /\ full => StopsAtOnce
       /\ ~GoWaits /\ ~full => NothingDone
       /\ ~GoWaits /\ full /\ acked[1].kind = "T" => Mame!Notified
       /\ ~GoWaits /\ full /\ acked[1].kind = "R" /\ messageQueue # <<>> => HeadAnswered
  BY <1>a, <1>8, <1>10, WhatIsDone DEF all
<1>12. fromMame' = SubSeq(s, m + 1, Len(s)) /\ fromMame' \in Seq(Piece)
  <2>1. fromMame' = SubSeq(s, m + 1, Len(s))
    BY <1>1, <1>2
  <2>. QED
    BY <1>b, <1>6, <2>1, Behind
<1>13. CASE full
  <2>1. off + 2 \in 0..Len(s) /\ m \in (off + 2)..Len(s) /\ off + 2 # off /\ m - off >= 2
    BY <1>3, <1>6, <1>9, <1>13
  <2>a. /\ SubSeq(s, (off + 2) + 1, m) \in Seq(Piece) /\ Len(SubSeq(s, (off + 2) + 1, m)) = m - (off + 2)
        /\ \A i \in 1..(m - (off + 2)) : SubSeq(s, (off + 2) + 1, m)[i] = s[(off + 2) + i]
        /\ SubSeq(s, (off + 2) + 1, m) \o SubSeq(s, m + 1, Len(s)) = SubSeq(s, (off + 2) + 1, Len(s))
    BY <1>b, <2>1, Middle
  <2>2. mameData' = SubSeq(s, (off + 2) + 1, m)
    <3>1. Len(acked) = m - off /\ 2 \in 0..Len(acked) /\ 2 + 1 = 3 /\ acked \in Seq(Piece)
      BY <1>3, <1>7, <2>1
    <3>2. /\ SubSeq(acked, 2 + 1, Len(acked)) \in Seq(Piece) /\ Len(SubSeq(acked, 2 + 1, Len(acked))) = Len(acked) - 2
          /\ \A i \in 1..(Len(acked) - 2) : SubSeq(acked, 2 + 1, Len(acked))[i] = acked[2 + i]
      BY <3>1, Behind
    <3>3. Len(acked) - 2 = m - (off + 2)
      BY <1>3, <3>1
    <3>4. ASSUME NEW i \in 1..(m - (off + 2)) PROVE acked[2 + i] = s[(off + 2) + i]
      <4>1. 2 + i \in 1..(m - off) /\ off + (2 + i) = (off + 2) + i
        BY <1>3
      <4>. QED
        BY <1>7, <4>1
    <3>5. SubSeq(acked, 2 + 1, Len(acked)) = SubSeq(s, (off + 2) + 1, m)
      <4>1. PICK u, w : u = SubSeq(acked, 2 + 1, Len(acked)) /\ w = SubSeq(s, (off + 2) + 1, m)
        OBVIOUS
      <4>2. u \in Seq(Piece) /\ w \in Seq(Piece) /\ Len(u) = Len(w) /\ Len(u) = m - (off + 2)
        BY <2>a, <3>2, <3>3, <4>1
      <4>3. \A i \in 1..(m - (off + 2)) : u[i] = acked[2 + i] /\ w[i] = s[(off + 2) + i]
        BY <2>a, <3>2, <3>3, <4>1
      <4>4. ASSUME NEW i \in 1..Len(u) PROVE u[i] = w[i]
        <5>1. i \in 1..(m - (off + 2))
          BY <4>2
        <5>2. u[i] = acked[2 + i] /\ w[i] = s[(off + 2) + i]
          BY <4>3, <5>1
        <5>3. acked[2 + i] = s[(off + 2) + i]
          BY <3>4, <5>1
        <5>. QED
          BY <5>2, <5>3
      <4>. QED
        BY <4>1, <4>2, <4>4, SameSeq
    <3>. QED
      BY <1>11, <1>13, <3>1, <3>5
  <2>3. mameData' \o fromMame' = SubSeq(s, (off + 2) + 1, Len(s))
    BY <1>12, <2>2, <2>a
  <2>4. mameData' \in Seq(Piece)
    BY <2>2, <2>a
  <2>5. acked[1] = s[off + 1]
    BY <1>10, <1>13
  <2>6. Taken(s, off, off + 2)
    BY <1>1, <1>11, <1>12, <1>13, <2>1, <2>2, <2>3, <2>4, <2>5 DEF Taken
  <2>. QED
    BY <1>2, <2>1, <2>6
<1>14. CASE ~full
  <2>1. mameData' = acked
    BY <1>11, <1>14
  <2>3. mameData' \o fromMame' = SubSeq(s, off + 1, Len(s)) /\ mameData' \in Seq(Piece)
    BY <1>7, <1>12, <2>1
  <2>4. Taken(s, off, off)
    BY <1>1, <1>11, <1>12, <1>14, <2>3 DEF Taken
  <2>. QED
    BY <1>2, <1>6, <2>4
<1>. QED
  BY <1>13, <1>14

\* What a chunk does to the pieces: it is kept, it notifies a stop, it answers the head of the
\* queue, or it is the acknowledge of the continue and the stop.
Keeps(layout, left) ==
  /\ \/ layout \in {"T", "R", "TAR", "RT"} /\ left = layout
     \/ layout = "AR" /\ left = "R"
     \/ layout = "ART" /\ left = "RT"
  /\ NothingDone
Notifies(layout, left) ==
  /\ (layout = "T" /\ left = "none") \/ (layout = "TAR" /\ left = "AR")
  /\ Mame!Notified
Answers(layout, left) ==
  /\ \/ layout \in {"A", "AR", "R"} /\ left = "none"
     \/ layout \in {"AT", "ART", "RT"} /\ left = "T"
  /\ HeadAnswered
Outcome(layout, left) ==
  \/ Keeps(layout, left)
  \/ Notifies(layout, left)
  \/ Answers(layout, left)
  \/ layout = "AT" /\ left = "none" /\ StopsAtOnce

Acknowledged(layout) == IF layout \in {"A", "AT", "AR", "ART"} THEN 1 ELSE 0

\* The first packet of each layout.
LEMMA FirstPacket ==
  ASSUME NEW s \in Seq(Piece), NEW layout \in Layouts, Pieces(layout, s), layout # "none",
         NEW off, off = Acknowledged(layout)
  PROVE  /\ off \in 0..1 /\ (off = 1 <=> s[1].kind = "+")
         /\ Len(s) = off \/ (off + 2 <= Len(s) /\ Two(s, off + 1, s[off + 1].kind))
         /\ layout \in {"T", "AT", "TAR"} => s[off + 1].kind = "T"
         /\ layout \in {"AR", "R", "ART", "RT"} => s[off + 1].kind = "R"
         /\ layout = "A" => Len(s) = off
<1>1. CASE layout = "A"
  <2>1. off = 1 /\ Len(s) = 1 /\ s[1].kind = "+"
    BY <1>1 DEF Acknowledged, Pieces, At
  <2>. QED
    BY <1>1, <2>1
<1>2. CASE layout \in {"AT", "AR", "ART"}
  <2>1. off = 1 /\ off + 1 = 2 /\ off + 2 = 3
    BY <1>2 DEF Acknowledged
  <2>2. /\ s[1].kind = "+" /\ Len(s) >= 3 /\ s[2].kind = (IF layout = "AT" THEN "T" ELSE "R")
        /\ Two(s, 2, s[2].kind)
    BY <1>2 DEF Pieces, Two, At
  <2>. QED
    BY <1>2, <2>1, <2>2
<1>3. CASE layout \in {"T", "R", "TAR", "RT"}
  <2>1. off = 0 /\ off + 1 = 1 /\ off + 2 = 2
    BY <1>3 DEF Acknowledged
  <2>2. /\ Len(s) >= 2 /\ s[1].kind = (IF layout \in {"T", "TAR"} THEN "T" ELSE "R")
        /\ Two(s, 1, s[1].kind)
    BY <1>3 DEF Pieces, Two, At
  <2>. QED
    BY <1>3, <2>1, <2>2
<1>. QED
  BY <1>1, <1>2, <1>3 DEF Layouts

LEMMA DataOutcome ==
  ASSUME MameTypes, NEW n, Mame!Data(n), NEW layout \in Layouts, Pieces(layout, mameData \o fromMame),
         OnItsWay(layout), layout = "T" => ~GoWaits
  PROVE  /\ mameData' \in Seq(Piece) /\ fromMame' \in Seq(Piece)
         /\ UNCHANGED <<bps, mameRuns, mameBps>>
         /\ \E left \in Layouts : Pieces(left, mameData' \o fromMame') /\ Outcome(layout, left)
<1>1. PICK s : s = mameData \o fromMame
  OBVIOUS
<1>2. /\ s \in Seq(Piece) /\ Len(s) >= 1 /\ Pieces(layout, s) /\ Len(s) \in Nat
      /\ n \in 1..Len(fromMame) /\ mameData \in Seq(Piece) /\ fromMame \in Seq(Piece)
  <2>1. n \in 1..Len(fromMame) /\ mameData \in Seq(Piece) /\ fromMame \in Seq(Piece)
    BY DEF Mame!Data, MameTypes
  <2>2. s \in Seq(Piece) /\ Len(s) = Len(mameData) + Len(fromMame) /\ Len(mameData) \in Nat /\ Len(fromMame) \in Nat
    BY <1>1, <2>1, ConcatProperties
  <2>3. Len(s) >= 1 /\ Len(s) \in Nat
    BY <2>1, <2>2
  <2>. QED
    BY <1>1, <2>1, <2>2, <2>3
<1>3. layout # "none"
  BY <1>2 DEF Pieces
<1>4. PICK off \in 0..1 : off = Acknowledged(layout)
  BY DEF Acknowledged
<1>5. off = 1 <=> s[1].kind = "+"
  BY <1>2, <1>3, <1>4, FirstPacket
<1>6. /\ Len(s) = off \/ (off + 2 <= Len(s) /\ Two(s, off + 1, s[off + 1].kind))
      /\ layout \in {"T", "AT", "TAR"} => s[off + 1].kind = "T"
      /\ layout \in {"AR", "R", "ART", "RT"} => s[off + 1].kind = "R"
      /\ layout = "A" => Len(s) = off
  BY <1>2, <1>3, <1>4, FirstPacket
<1>7. PICK d \in {off, off + 2} : d \in 0..Len(s) /\ Taken(s, off, d)
  BY <1>1, <1>5, <1>6, DataTakes
<1>8. /\ mameData' \in Seq(Piece) /\ fromMame' \in Seq(Piece)
      /\ UNCHANGED <<bps, mameRuns, mameBps>>
      /\ mameData' \o fromMame' = SubSeq(s, d + 1, Len(s))
  BY <1>7 DEF Taken
<1>9. PICK t : t = mameData' \o fromMame'
  OBVIOUS
<1>10. t = SubSeq(s, d + 1, Len(s))
  BY <1>8, <1>9
<1>11. messageQueue # <<>> => Head(messageQueue) = messageQueue[1]
  BY TailOf DEF MameTypes
<1>12. SUFFICES \E left \in Layouts : Pieces(left, t) /\ Outcome(layout, left)
  BY <1>8, <1>9
<1>13. CASE layout = "A"
  <2>1. off = 1 /\ d = 1
    <3>1. off = 1 /\ Len(s) = 1
      BY <1>4, <1>6, <1>13 DEF Acknowledged
    <3>. QED
      BY <1>7, <3>1
  <2>2. Pieces("none", t)
    <3>1. Pieces("A", s) /\ s \in Seq(Piece) /\ d \in 0..Len(s)
      BY <1>2, <1>7, <1>13
    <3>. QED
      BY <1>10, <2>1, <3>1, PiecesBehind
  <2>3. GoWaits
    BY <1>11, <1>13 DEF OnItsWay, GoWaits
  <2>4. HeadAnswered
    BY <1>7, <2>1, <2>3 DEF Taken
  <2>. QED
    BY <1>13, <2>2, <2>4 DEF Outcome, Answers, Layouts
<1>14. CASE layout = "AT"
  <2>1. off = 1 /\ (d = 1 \/ d = 3) /\ off + 2 = 3
    BY <1>4, <1>7, <1>14 DEF Acknowledged
  <2>2. (d = 1 => Pieces("T", t)) /\ (d = 3 => Pieces("none", t))
    BY <1>2, <1>7, <1>10, <1>14, PiecesBehind
  <2>3. GoWaits
    BY <1>11, <1>14 DEF OnItsWay, GoWaits
  <2>4. (d = 1 => HeadAnswered) /\ (d = 3 => StopsAtOnce)
    BY <1>7, <2>1, <2>3 DEF Taken
  <2>. QED
    BY <1>14, <2>1, <2>2, <2>4 DEF Outcome, Answers, Layouts
<1>15. CASE layout \in {"AR", "ART"}
  <2>1. off = 1 /\ (d = 1 \/ d = 3) /\ off + 2 = 3 /\ s[off + 1].kind = "R"
    BY <1>4, <1>6, <1>7, <1>15 DEF Acknowledged
  <2>2. /\ layout = "AR" => (d = 1 => Pieces("R", t)) /\ (d = 3 => Pieces("none", t))
        /\ layout = "ART" => (d = 1 => Pieces("RT", t)) /\ (d = 3 => Pieces("T", t))
    BY <1>2, <1>7, <1>10, PiecesBehind
  <2>3. ~GoWaits /\ messageQueue # <<>>
    BY <1>11, <1>15 DEF OnItsWay, GoWaits
  <2>4. (d = 1 => NothingDone) /\ (d = 3 => HeadAnswered)
    BY <1>7, <2>1, <2>3 DEF Taken
  <2>. QED
    BY <1>15, <2>1, <2>2, <2>4 DEF Outcome, Answers, Keeps, Layouts
<1>16. CASE layout \in {"R", "RT"}
  <2>1. off = 0 /\ (d = 0 \/ d = 2) /\ off + 2 = 2 /\ s[off + 1].kind = "R"
    BY <1>4, <1>6, <1>7, <1>16 DEF Acknowledged
  <2>2. /\ d = 0 => Pieces(layout, t)
        /\ layout = "R" => (d = 2 => Pieces("none", t))
        /\ layout = "RT" => (d = 2 => Pieces("T", t))
    BY <1>2, <1>7, <1>10, PiecesBehind
  <2>3. ~GoWaits /\ messageQueue # <<>>
    BY <1>11, <1>16 DEF OnItsWay, GoWaits
  <2>4. (d = 0 => NothingDone) /\ (d = 2 => HeadAnswered)
    BY <1>7, <2>1, <2>3 DEF Taken
  <2>. QED
    BY <1>16, <2>1, <2>2, <2>4 DEF Outcome, Answers, Keeps, Layouts
<1>17. CASE layout \in {"T", "TAR"}
  <2>1. off = 0 /\ (d = 0 \/ d = 2) /\ off + 2 = 2 /\ s[off + 1].kind = "T"
    BY <1>4, <1>6, <1>7, <1>17 DEF Acknowledged
  <2>2. /\ d = 0 => Pieces(layout, t)
        /\ layout = "T" => (d = 2 => Pieces("none", t))
        /\ layout = "TAR" => (d = 2 => Pieces("AR", t))
    BY <1>2, <1>7, <1>10, PiecesBehind
  <2>3. ~GoWaits
    BY <1>11, <1>17 DEF OnItsWay, GoWaits
  <2>4. (d = 0 => NothingDone) /\ (d = 2 => Mame!Notified)
    BY <1>7, <2>1, <2>3 DEF Taken
  <2>. QED
    BY <1>17, <2>1, <2>2, <2>4 DEF Outcome, Notifies, Keeps, Layouts
<1>. QED
  BY <1>3, <1>13, <1>14, <1>15, <1>16, <1>17 DEF Layouts

\* A command of the pause button is answered, or one of the script: then the next one is queued.
LEMMA QueueAnswered ==
  ASSUME MameTypes, Queued, messageQueue # <<>>, toMame = <<>>, HeadAnswered
  PROVE  /\ messageQueue' \in Seq(Commands) /\ script' \in Seq(Commands) /\ Queued'
         /\ toMame' = IF messageQueue' = <<>> THEN <<>> ELSE <<messageQueue'[1]>>
         /\ \/ /\ messageQueue[1] = Mame!Where
               /\ UNCHANGED <<script, userState, funcContinueResolve>>
            \/ /\ messageQueue[1] # Mame!Where /\ script # <<>> /\ messageQueue[1] = script[1] /\ script' = Tail(script)
               /\ userState' = IF Tail(script) = <<>> /\ messageQueue[1] # Mame!Go THEN "stopped" ELSE userState
               /\ funcContinueResolve' = IF Tail(script) = <<Mame!Go>> THEN "intermediate" ELSE funcContinueResolve
<1>1. messageQueue \in Seq(Commands) /\ script \in Seq(Commands)
  BY DEF MameTypes
<1>2. PICK rest : rest = Tail(messageQueue)
  OBVIOUS
<1>3. /\ rest \in Seq(Commands) /\ Len(rest) = Len(messageQueue) - 1 /\ Head(messageQueue) = messageQueue[1]
      /\ (\A i \in 1..(Len(messageQueue) - 1) : rest[i] = messageQueue[i + 1])
      /\ Len(messageQueue) \in Nat /\ Len(messageQueue) >= 1 /\ 1 \in 1..Len(messageQueue)
  BY <1>1, <1>2, TailOf
<1>4. ASSUME NEW i \in 1..Len(rest) PROVE i + 1 \in 1..Len(messageQueue) /\ rest[i] = messageQueue[i + 1] /\ i + 1 # 1
  BY <1>3
<1>5. \A q \in Seq(Commands) : toMame \o Mame!Sent(q) = IF q = <<>> THEN <<>> ELSE <<q[1]>>
  <2>1. ASSUME NEW q \in Seq(Commands) PROVE toMame \o Mame!Sent(q) = IF q = <<>> THEN <<>> ELSE <<q[1]>>
    <3>1. CASE q = <<>>
      BY <3>1 DEF Mame!Sent
    <3>2. CASE q # <<>>
      <4>1. Mame!Sent(q) = <<q[1]>> /\ q[1] \in Commands
        BY <3>2, TailOf DEF Mame!Sent
      <4>2. <<q[1]>> \in Seq(Commands)
        BY <4>1
      <4>. QED
        BY <3>2, <4>1, <4>2, ConcatEmptySeq
    <3>. QED
      BY <3>1, <3>2
  <2>. QED
    BY <2>1
<1>6. CASE messageQueue[1] = Mame!Where
  <2>1. ~(script # <<>> /\ Head(messageQueue) = Head(script))
    <3>1. ASSUME script # <<>> PROVE Head(script) # Mame!Where
      <4>1. Head(script) = script[1] /\ 1 \in 1..Len(script)
        BY <1>1, <3>1, TailOf
      <4>. QED
        BY <4>1 DEF Queued
    <3>. QED
      BY <1>3, <1>6, <3>1
  <2>2. /\ script' = script /\ messageQueue' = rest /\ userState' = userState /\ funcContinueResolve' = funcContinueResolve
        /\ toMame' = toMame \o Mame!Sent(rest)
    BY <1>2, <2>1 DEF HeadAnswered, Mame!Answered
  <2>3. Queued'
    <3>1. \A i \in 1..Len(rest) : rest[i] # Mame!Where => script # <<>> /\ rest[i] = script[1]
      BY <1>4 DEF Queued
    <3>2. \A i, j \in 1..Len(rest) : rest[i] # Mame!Where /\ rest[j] # Mame!Where => i = j
      <4>1. SUFFICES ASSUME NEW i \in 1..Len(rest), NEW j \in 1..Len(rest), rest[i] # Mame!Where, rest[j] # Mame!Where
                     PROVE  i = j
        OBVIOUS
      <4>2. i + 1 = j + 1
        BY <1>4, <4>1 DEF Queued
      <4>. QED
        BY <1>3, <4>2
    <3>3. ASSUME script # <<>> PROVE \E i \in 1..Len(rest) : rest[i] = script[1]
      <4>1. PICK k \in 1..Len(messageQueue) : messageQueue[k] = script[1]
        BY <3>3 DEF Queued
      <4>2. script[1] # Mame!Where
        <5>1. 1 \in 1..Len(script)
          BY <1>1, <3>3, TailOf
        <5>. QED
          BY <5>1 DEF Queued
      <4>3. k # 1 /\ k - 1 \in 1..Len(rest) /\ (k - 1) + 1 = k
        BY <1>3, <1>6, <4>1, <4>2
      <4>4. rest[k - 1] = messageQueue[k]
        BY <1>4, <4>3
      <4>. QED
        BY <4>1, <4>3, <4>4
    <3>4. \A i \in 1..Len(script) : script[i] # Mame!Where
      BY DEF Queued
    <3>. QED
      BY <2>2, <3>1, <3>2, <3>3, <3>4 DEF Queued
  <2>. QED
    BY <1>1, <1>3, <1>5, <1>6, <2>2, <2>3
<1>7. CASE messageQueue[1] # Mame!Where
  <2>1. script # <<>> /\ messageQueue[1] = script[1]
    BY <1>3, <1>7 DEF Queued
  <2>2. PICK more : more = Tail(script)
    OBVIOUS
  <2>3. /\ more \in Seq(Commands) /\ Len(more) = Len(script) - 1 /\ Head(script) = script[1]
        /\ \A i \in 1..(Len(script) - 1) : more[i] = script[i + 1]
        /\ Len(script) \in Nat /\ Len(script) >= 1
    BY <1>1, <2>1, <2>2, TailOf
  <2>4. PICK q : q = IF more # <<>> THEN Append(rest, Head(more)) ELSE rest
    OBVIOUS
  <2>5. /\ script' = more /\ messageQueue' = q /\ toMame' = toMame \o Mame!Sent(q)
        /\ userState' = IF more = <<>> /\ messageQueue[1] # Mame!Go THEN "stopped" ELSE userState
        /\ funcContinueResolve' = IF more = <<Mame!Go>> THEN "intermediate" ELSE funcContinueResolve
    BY <1>2, <1>3, <2>1, <2>2, <2>3, <2>4 DEF HeadAnswered, Mame!Answered
  <2>6. ASSUME NEW i \in 1..Len(rest) PROVE rest[i] = Mame!Where
    <3>1. SUFFICES ASSUME rest[i] # Mame!Where PROVE FALSE
      OBVIOUS
    <3>2. i + 1 = 1
      BY <1>3, <1>4, <1>7, <3>1 DEF Queued
    <3>. QED
      BY <1>4, <3>2
  <2>7. more # <<>> => Head(more) = more[1] /\ more[1] \in Commands /\ 1 \in 1..Len(more) /\ 1 \in 1..(Len(script) - 1)
    BY <2>3, TailOf
  <2>8. \A i \in 1..Len(more) : more[i] # Mame!Where
    <3>1. ASSUME NEW i \in 1..Len(more) PROVE more[i] # Mame!Where
      <4>1. i + 1 \in 1..Len(script) /\ more[i] = script[i + 1]
        BY <2>3
      <4>. QED
        BY <4>1 DEF Queued
    <3>. QED
      BY <3>1
  <2>9. /\ q \in Seq(Commands)
        /\ more = <<>> => q = rest
        /\ more # <<>> => /\ Len(q) = Len(rest) + 1 /\ q[Len(rest) + 1] = more[1]
                          /\ \A i \in 1..Len(rest) : q[i] = rest[i]
    BY <1>3, <2>4, <2>7, AppendProperties
  <2>10. Queued'
    <3>1. CASE more = <<>>
      BY <2>5, <2>6, <2>8, <2>9, <3>1 DEF Queued
    <3>2. CASE more # <<>>
      <4>1. Len(rest) \in Nat /\ Len(rest) + 1 \in 1..Len(q) /\ q[Len(rest) + 1] = more[1]
        BY <1>3, <2>9, <3>2
      <4>2. ASSUME NEW i \in 1..Len(q) PROVE (i = Len(rest) + 1 /\ q[i] = more[1]) \/ q[i] = Mame!Where
        <5>1. CASE i = Len(rest) + 1
          BY <4>1, <5>1
        <5>2. CASE i # Len(rest) + 1
          <6>1. i \in 1..Len(rest)
            BY <2>9, <3>2, <4>1, <5>2
          <6>. QED
            BY <2>6, <2>9, <3>2, <6>1
        <5>. QED
          BY <5>1, <5>2
      <4>. QED
        BY <2>5, <2>8, <3>2, <4>1, <4>2 DEF Queued
    <3>. QED
      BY <3>1, <3>2
  <2>. QED
    BY <1>5, <1>7, <2>1, <2>2, <2>3, <2>5, <2>9, <2>10
<1>. QED
  BY <1>6, <1>7

LEMMA AllClears ==
  ASSUME MameTypes
  PROVE  Cardinality(bps) \in Nat /\ Mame!clears = ClearsFrom(1, Cardinality(bps))
<1>1. Cardinality(bps) \in Nat
  BY FS_CardinalityType DEF MameTypes
<1>2. PICK n \in Nat : n = Cardinality(bps)
  BY <1>1
<1>3. n + 1 - 1 = n /\ \A i \in 1..n : 1 + i - 1 = i
  OBVIOUS
<1>4. ClearsFrom(1, n) = [i \in 1..n |-> Mame!Clear(i)]
  BY <1>3 DEF ClearsFrom
<1>. QED
  <2>1. Mame!clears = [i \in 1..Cardinality(bps) |-> Mame!Clear(i)]
    BY Zenon DEF Mame!clears, Mame!Cardinality, Cardinality, Mame!IsFiniteSet, IsFiniteSet
  <2>2. Mame!clears = ClearsFrom(1, n)
    BY <1>2, <1>4, <2>1
  <2>. QED
    BY <1>1, <1>2, <2>2

\* A command is sent, or waits in the queue.
LEMMA CommandSent ==
  ASSUME MameTypes, NEW layout \in Layouts, OnItsWay(layout), NEW c \in Commands, Mame!sendPacketData(c)
  PROVE  /\ messageQueue' \in Seq(Commands) /\ messageQueue' # <<>> /\ Len(messageQueue) \in Nat
         /\ Len(messageQueue') = Len(messageQueue) + 1 /\ messageQueue'[Len(messageQueue) + 1] = c
         /\ \A i \in 1..Len(messageQueue) : messageQueue'[i] = messageQueue[i]
         /\ messageQueue # <<>> => messageQueue'[1] = messageQueue[1] /\ toMame' = toMame
         /\ messageQueue = <<>> => toMame' = <<c>> /\ toMame' # <<>>
         /\ OnItsWay(layout)'
<1>1. messageQueue \in Seq(Commands) /\ Len(messageQueue) \in Nat /\ messageQueue' = Append(messageQueue, c)
  BY DEF MameTypes, Mame!sendPacketData
<1>2. /\ messageQueue' \in Seq(Commands) /\ messageQueue' # <<>>
      /\ Len(messageQueue') = Len(messageQueue) + 1 /\ messageQueue'[Len(messageQueue) + 1] = c
      /\ \A i \in 1..Len(messageQueue) : messageQueue'[i] = messageQueue[i]
  BY <1>1, AppendProperties
<1>3. ASSUME messageQueue # <<>> PROVE messageQueue'[1] = messageQueue[1] /\ toMame' = toMame
  <2>1. 1 \in 1..Len(messageQueue)
    BY <1>1, <1>3, TailOf
  <2>. QED
    BY <1>2, <1>3, <2>1 DEF Mame!sendPacketData
<1>4. ASSUME messageQueue = <<>> PROVE toMame' = <<c>> /\ toMame' # <<>> /\ messageQueue'[1] = c /\ toMame = <<>>
  <2>1. Len(messageQueue) = 0 /\ toMame = <<>>
    BY <1>4 DEF OnItsWay
  <2>2. messageQueue'[1] = c
    BY <1>2, <2>1
  <2>3. toMame' = Append(<<>>, c)
    BY <1>4, <2>1 DEF Mame!sendPacketData
  <2>. QED
    BY <2>1, <2>2, <2>3
<1>5. OnItsWay(layout)'
  <2>1. CASE messageQueue # <<>>
    BY <1>2, <1>3, <2>1 DEF OnItsWay
  <2>2. CASE messageQueue = <<>>
    <3>1. layout \in {"none", "T"}
      BY <2>2 DEF OnItsWay
    <3>2. toMame' = <<messageQueue'[1]>>
      BY <1>4, <2>2
    <3>. QED
      BY <1>2, <3>1, <3>2 DEF OnItsWay
  <2>. QED
    BY <2>1, <2>2
<1>. QED
  BY <1>1, <1>2, <1>3, <1>4, <1>5

\* At rest, and when it runs, the pause button alone has commands in the queue.
LEMMA OnlyPauses ==
  ASSUME Queued, script = <<>>
  PROVE  \A i \in 1..Len(messageQueue) : messageQueue[i] = Mame!Where
BY DEF Queued

LEMMA PauseQueued ==
  ASSUME MameTypes, Queued, NEW layout \in Layouts, OnItsWay(layout), Mame!sendPacketData(Mame!Where), script' = script
  PROVE  Queued'
<1>1. /\ Len(messageQueue) \in Nat
      /\ Len(messageQueue') = Len(messageQueue) + 1 /\ messageQueue'[Len(messageQueue) + 1] = Mame!Where
      /\ \A i \in 1..Len(messageQueue) : messageQueue'[i] = messageQueue[i]
  BY CommandSent, DifferentCommands
<1>2. ASSUME NEW i \in 1..Len(messageQueue'), messageQueue'[i] # Mame!Where
      PROVE  i \in 1..Len(messageQueue) /\ messageQueue'[i] = messageQueue[i]
  BY <1>1, <1>2
<1>3. ASSUME script # <<>> PROVE \E i \in 1..Len(messageQueue') : messageQueue'[i] = script[1]
  <2>1. PICK k \in 1..Len(messageQueue) : messageQueue[k] = script[1]
    BY <1>3 DEF Queued
  <2>2. k \in 1..Len(messageQueue')
    BY <1>1
  <2>. QED
    BY <1>1, <2>1, <2>2
<1>4. \A i \in 1..Len(messageQueue') : messageQueue'[i] # Mame!Where => script' # <<>> /\ messageQueue'[i] = script'[1]
  BY <1>2 DEF Queued
<1>5. \A i, j \in 1..Len(messageQueue') : messageQueue'[i] # Mame!Where /\ messageQueue'[j] # Mame!Where => i = j
  BY <1>2 DEF Queued
<1>. QED
  BY <1>3, <1>4, <1>5 DEF Queued

\* The first command of a script.
LEMMA ScriptQueued ==
  ASSUME MameTypes, Queued, NEW q \in Seq(Commands), NEW c, c # Mame!Where,
         Len(q) \in Nat, \A i \in 1..Len(q) : q[i] = Mame!Where,
         messageQueue' = Append(q, c), c \in Commands,
         script' # <<>>, script'[1] = c, \A i \in 1..Len(script') : script'[i] # Mame!Where
  PROVE  Queued'
<1>1. /\ Len(messageQueue') = Len(q) + 1 /\ messageQueue'[Len(q) + 1] = c
      /\ \A i \in 1..Len(q) : messageQueue'[i] = q[i]
  BY AppendProperties
<1>2. ASSUME NEW i \in 1..Len(messageQueue'), messageQueue'[i] # Mame!Where PROVE i = Len(q) + 1 /\ messageQueue'[i] = c
  <2>1. i \notin 1..Len(q)
    BY <1>1, <1>2
  <2>2. i = Len(q) + 1
    BY <1>1, <2>1
  <2>. QED
    BY <1>1, <2>2
<1>3. Len(q) + 1 \in 1..Len(messageQueue')
  BY <1>1
<1>. QED
  BY <1>1, <1>2, <1>3 DEF Queued

LEMMA NothingQueued ==
  ASSUME script' = <<>>, \A i \in 1..Len(messageQueue') : messageQueue'[i] = Mame!Where
  PROVE  Queued'
<1>1. Len(script') = 0
  OBVIOUS
<1>. QED
  BY <1>1 DEF Queued

LEMMA AnsweredPhase ==
  ASSUME MameTypes, Queued, NEW layout \in Layouts, OnItsWay(layout), NEW n \in Nat, Phases(layout, n),
         NEW left \in Layouts, Answers(layout, left), UNCHANGED <<mameRuns, mameBps>>
  PROVE  /\ messageQueue' \in Seq(Commands) /\ script' \in Seq(Commands) /\ Queued'
         /\ OnItsWay(left)' /\ Phases(left, n)'
<1>1. /\ messageQueue # <<>> /\ toMame = <<>> /\ left \in {"none", "T"} /\ (Stopping(left) <=> Stopping(layout))
      /\ messageQueue[1] = Mame!Go <=> layout \in {"A", "AT"}
      /\ HeadAnswered
  BY DEF OnItsWay, Answers, Stopping
<1>2. /\ messageQueue' \in Seq(Commands) /\ script' \in Seq(Commands) /\ Queued'
      /\ toMame' = IF messageQueue' = <<>> THEN <<>> ELSE <<messageQueue'[1]>>
  BY <1>1, QueueAnswered
<1>3. \/ /\ messageQueue[1] = Mame!Where
         /\ UNCHANGED <<script, userState, funcContinueResolve>>
      \/ /\ messageQueue[1] # Mame!Where /\ script # <<>> /\ messageQueue[1] = script[1] /\ script' = Tail(script)
         /\ userState' = IF Tail(script) = <<>> /\ messageQueue[1] # Mame!Go THEN "stopped" ELSE userState
         /\ funcContinueResolve' = IF Tail(script) = <<Mame!Go>> THEN "intermediate" ELSE funcContinueResolve
  BY <1>1, QueueAnswered
<1>4. OnItsWay(left)'
  BY <1>1, <1>2 DEF OnItsWay
<1>5. script' # <<>> => toMame' # <<>>
  <2>1. ASSUME script' # <<>> PROVE messageQueue' # <<>>
    <3>1. PICK k \in 1..Len(messageQueue') : messageQueue'[k] = script'[1]
      BY <1>2, <2>1 DEF Queued
    <3>. QED
      BY <3>1
  <2>. QED
    BY <1>2, <2>1
<1>. SUFFICES Phases(left, n)'
  BY <1>2, <1>4
<1>6. CASE /\ messageQueue[1] = Mame!Where
           /\ UNCHANGED <<script, userState, funcContinueResolve>>
  <2>1. layout \notin {"A", "AT"}
    BY <1>1, <1>6, DifferentCommands
  <2>2. CASE AtRest(layout)
    BY <1>1, <1>6, <2>2 DEF AtRest, Phases, Stopping
  <2>3. CASE SettingUp(layout, n)
    <3>1. SettingUp(left, n)'
      BY <1>1, <1>6, <2>1, <2>3 DEF SettingUp, Stopping, SetsFrom, Mame!Set, Mame!Go
    <3>. QED
      BY <3>1 DEF Phases
  <2>4. CASE Going(layout, n)
    <3>1. Going(left, n)'
      BY <1>1, <1>6, <2>4 DEF Going, Stopping
    <3>. QED
      BY <3>1 DEF Phases
  <2>5. CASE Removing(layout, n)
    <3>1. PICK j \in 1..n : script = ClearsFrom(j, n) /\ mameBps \subseteq j..n
      BY <2>5 DEF Removing
    <3>2. script' # <<>>
      BY <1>6, <3>1, ScriptTypes
    <3>3. userState' = "running" /\ funcContinueResolve' = "none" /\ ~mameRuns' /\ ~Stopping(left)
      BY <1>1, <1>6, <2>5 DEF Removing
    <3>4. script' = ClearsFrom(j, n) /\ mameBps' \subseteq j..n /\ toMame' # <<>>
      BY <1>5, <1>6, <3>1, <3>2
    <3>5. Removing(left, n)'
      BY <3>3, <3>4 DEF Removing, ClearsFrom, Mame!Clear, Stopping
    <3>. QED
      BY <3>5 DEF Phases
  <2>. QED
    BY <2>2, <2>3, <2>4, <2>5 DEF Phases
<1>7. CASE /\ messageQueue[1] # Mame!Where /\ script # <<>> /\ messageQueue[1] = script[1] /\ script' = Tail(script)
           /\ userState' = IF Tail(script) = <<>> /\ messageQueue[1] # Mame!Go THEN "stopped" ELSE userState
           /\ funcContinueResolve' = IF Tail(script) = <<Mame!Go>> THEN "intermediate" ELSE funcContinueResolve
  <2>1. CASE SettingUp(layout, n)
    <3>1. PICK j \in 1..(n + 1) : script = SetsFrom(j, n)
      BY <2>1 DEF SettingUp
    <3>2. /\ userState = "running" /\ funcContinueResolve # "none" /\ mameBps \subseteq 1..n
          /\ (mameRuns <=> layout = "A") /\ (Stopping(layout) => layout = "AT")
      BY <2>1 DEF SettingUp
    <3>3. CASE j = n + 1
      <4>1. script' = <<>> /\ messageQueue[1] = Mame!Go /\ layout \in {"A", "AT"}
        BY <1>1, <1>7, <3>1, <3>3, ScriptTails, ScriptTypes
      <4>2. userState' = "running" /\ funcContinueResolve' # "none"
        BY <1>7, <3>2, <4>1
      <4>3. Going(left, n)'
        BY <1>1, <3>2, <4>1, <4>2 DEF Going, Stopping
      <4>. QED
        BY <4>3 DEF Phases
    <3>4. CASE j # n + 1
      <4>1. j \in 1..n /\ j + 1 \in 1..(n + 1)
        BY <3>4
      <4>2. script' = SetsFrom(j + 1, n) /\ script' # <<>> /\ messageQueue[1] = Mame!Set(j)
        BY <1>7, <3>1, <3>4, <4>1, ScriptTails, ScriptTypes
      <4>3. layout \notin {"A", "AT"} /\ left = "none"
        <5>1. layout \notin {"A", "AT"}
          BY <1>1, <4>1, <4>2, DifferentCommands
        <5>. QED
          BY <1>1, <3>2, <5>1 DEF Stopping
      <4>4. userState' = "running" /\ funcContinueResolve' # "none"
        BY <1>7, <3>2, <4>2
      <4>5. PICK k \in 1..(n + 1) : k = j + 1
        BY <4>1
      <4>6. SettingUp(left, n)'
        <5>1. script' = SetsFrom(k, n) /\ ~mameRuns' /\ mameBps' \subseteq 1..n /\ left # "A" /\ ~Stopping(left)
          BY <3>2, <4>2, <4>3, <4>5 DEF Stopping
        <5>. QED
          BY <4>4, <5>1 DEF SettingUp, SetsFrom, Mame!Set, Mame!Go, Stopping
      <4>. QED
        BY <4>6 DEF Phases
    <3>. QED
      BY <3>3, <3>4
  <2>2. CASE Removing(layout, n)
    <3>1. PICK j \in 1..n : /\ script = ClearsFrom(j, n) /\ mameBps \subseteq j..n
                            /\ toMame = <<>> /\ messageQueue[1] = Mame!Clear(j) => j \notin mameBps
      BY <2>2 DEF Removing
    <3>2. j \in 1..(n + 1) /\ j <= n /\ j + 1 \in 1..(n + 1) /\ j \in Nat
      OBVIOUS
    <3>3. messageQueue[1] = Mame!Clear(j) /\ script' = ClearsFrom(j + 1, n)
      BY <1>7, <3>1, <3>2, ScriptTails, ScriptTypes
    <3>4. j \notin mameBps /\ messageQueue[1] # Mame!Go
      BY <1>1, <3>1, <3>2, <3>3, DifferentCommands
    <3>5. userState = "running" /\ funcContinueResolve = "none" /\ ~mameRuns /\ ~Stopping(layout)
      BY <2>2 DEF Removing
    <3>6. CASE j = n
      <4>1. script' = <<>>
        BY <3>2, <3>3, <3>6, ScriptTypes
      <4>2. <<>> # <<Mame!Go>>
        OBVIOUS
      <4>3. userState' = "stopped" /\ funcContinueResolve' = "none"
        BY <1>7, <3>4, <3>5, <4>1, <4>2
      <4>4. mameBps = {}
        BY <3>1, <3>4, <3>6
      <4>5. AtRest(left)'
        BY <1>1, <3>5, <4>1, <4>3, <4>4 DEF AtRest, Stopping
      <4>. QED
        BY <4>5 DEF Phases
    <3>7. CASE j # n
      <4>1. PICK k \in 1..n : k = j + 1
        BY <3>2, <3>7
      <4>2. k \in 1..(n + 1) /\ k <= n /\ k \in Nat
        OBVIOUS
      <4>3. script' = ClearsFrom(k, n) /\ script' # <<>> /\ script'[1] = Mame!Clear(k)
        BY <3>3, <4>1, <4>2, ScriptTypes
      <4>4. script' # <<Mame!Go>>
        BY <4>2, <4>3, DifferentCommands
      <4>5. userState' = "running" /\ funcContinueResolve' = "none"
        BY <1>7, <3>4, <3>5, <4>3, <4>4
      <4>6. mameBps \subseteq k..n
        BY <3>1, <3>4, <4>1
      <4>7. toMame' # <<>>
        BY <1>5, <4>3
      <4>8. Removing(left, n)'
        BY <1>1, <3>5, <4>3, <4>5, <4>6, <4>7 DEF Removing, ClearsFrom, Mame!Clear, Stopping
      <4>. QED
        BY <4>8 DEF Phases
    <3>. QED
      BY <3>6, <3>7
  <2>3. CASE AtRest(layout) \/ Going(layout, n)
    BY <1>7, <2>3 DEF AtRest, Going
  <2>. QED
    BY <2>1, <2>2, <2>3 DEF Phases
<1>. QED
  BY <1>3, <1>6, <1>7

\* When MAME has notified a stop it has been running.
LEMMA StopFound ==
  ASSUME NEW layout \in Layouts, NEW n, Phases(layout, n), layout \in {"T", "TAR", "ART", "RT"}
  PROVE  Going(layout, n)
BY DEF Phases, AtRest, SettingUp, Removing, Stopping

LEMMA NotifiedPhase ==
  ASSUME MameTypes, Queued, NEW layout \in Layouts, OnItsWay(layout), Phases(layout, Cardinality(bps)),
         NEW left \in Layouts, Notifies(layout, left), UNCHANGED <<mameRuns, mameBps, bps>>
  PROVE  /\ messageQueue' \in Seq(Commands) /\ script' \in Seq(Commands) /\ Queued'
         /\ OnItsWay(left)' /\ Phases(left, Cardinality(bps))'
<1>1. PICK n \in Nat : n = Cardinality(bps) /\ Mame!clears = ClearsFrom(1, n)
  BY AllClears
<1>2. /\ layout \in {"T", "TAR"} /\ ~Stopping(left) /\ Mame!Notified
      /\ (layout = "T" /\ left = "none") \/ (layout = "TAR" /\ left = "AR")
  BY DEF Notifies, Stopping
<1>3. /\ userState = "running" /\ funcContinueResolve # "none" /\ script = <<>> /\ mameBps \subseteq 1..n /\ ~mameRuns
      /\ messageQueue \in Seq(Commands)
  BY <1>1, <1>2, StopFound DEF Going, Stopping, MameTypes
<1>4. /\ funcContinueResolve' = "none"
      /\ IF Mame!clears = <<>> THEN userState' = "stopped" /\ UNCHANGED <<script, messageQueue, toMame>>
         ELSE script' = Mame!clears /\ Mame!sendPacketData(Head(Mame!clears)) /\ UNCHANGED userState
  BY <1>2, <1>3 DEF Mame!Notified
<1>5. 1 \in 1..(n + 1) /\ (n # 0 => 1 <= n /\ 1 \in 1..n) /\ 1 \in Nat /\ (n = 0 => 1 = n + 1)
  OBVIOUS
<1>6. \A i \in 1..Len(messageQueue) : messageQueue[i] = Mame!Where
  BY <1>3, OnlyPauses
<1>7. CASE n = 0
  <2>1. Mame!clears = <<>>
    BY <1>1, <1>5, <1>7, ScriptTypes
  <2>2. userState' = "stopped" /\ script' = <<>> /\ messageQueue' = messageQueue /\ toMame' = toMame
    BY <1>3, <1>4, <2>1
  <2>3. AtRest(left)'
    BY <1>2, <1>3, <1>4, <1>7, <2>2 DEF AtRest, Stopping
  <2>4. OnItsWay(left)'
    BY <1>2, <2>2 DEF OnItsWay
  <2>5. script' \in Seq(Commands) /\ Queued'
    BY <1>6, <2>2, NothingQueued
  <2>. QED
    BY <1>3, <2>2, <2>3, <2>4, <2>5 DEF Phases
<1>8. CASE n # 0
  <2>1. /\ Mame!clears # <<>> /\ Mame!clears \in Seq(Commands) /\ Mame!clears[1] = Mame!Clear(1)
        /\ \A i \in 1..Len(Mame!clears) : Mame!clears[i] # Mame!Where
    BY <1>1, <1>5, <1>8, ScriptTypes
  <2>2. /\ script' = ClearsFrom(1, n) /\ script' \in Seq(Commands) /\ script' # <<>> /\ script'[1] = Mame!Clear(1)
        /\ Mame!sendPacketData(Mame!Clear(1)) /\ userState' = "running"
        /\ \A i \in 1..Len(script') : script'[i] # Mame!Where
    BY <1>1, <1>3, <1>4, <2>1, TailOf
  <2>3. Mame!Clear(1) \in Commands /\ Mame!Clear(1) # Mame!Where
    BY <1>5, DifferentCommands
  <2>4. OnItsWay(left)
    BY <1>2 DEF OnItsWay
  <2>5. /\ messageQueue' \in Seq(Commands) /\ messageQueue' # <<>> /\ Len(messageQueue) \in Nat
        /\ messageQueue # <<>> => messageQueue'[1] = messageQueue[1]
        /\ messageQueue = <<>> => toMame' # <<>>
        /\ OnItsWay(left)'
    BY <2>2, <2>3, <2>4, CommandSent
  <2>6. messageQueue' = Append(messageQueue, Mame!Clear(1))
    BY <2>2 DEF Mame!sendPacketData
  <2>7. Queued'
    BY <1>3, <1>6, <2>2, <2>3, <2>5, <2>6, ScriptQueued
  <2>8. toMame' = <<>> => messageQueue'[1] # Mame!Clear(1)
    <3>1. messageQueue # <<>> => 1 \in 1..Len(messageQueue)
      BY <1>3, TailOf
    <3>. QED
      BY <1>6, <2>3, <2>5, <3>1
  <2>9. Removing(left, n)'
    <3>1. mameBps' \subseteq 1..n /\ ~mameRuns' /\ 1 \in 1..n
      BY <1>3, <1>5, <1>8
    <3>. QED
      BY <1>2, <1>4, <2>2, <2>8, <3>1 DEF Removing, ClearsFrom, Mame!Clear, Stopping
  <2>10. Phases(left, n)'
    BY <2>9 DEF Phases
  <2>11. Phases(left, Cardinality(bps))'
    BY <1>1, <2>10
  <2>. QED
    BY <2>2, <2>5, <2>7, <2>11
<1>. QED
  BY <1>7, <1>8

LEMMA AtOncePhase ==
  ASSUME MameTypes, Queued, OnItsWay("AT"), Phases("AT", Cardinality(bps)),
         StopsAtOnce, UNCHANGED <<mameRuns, mameBps, bps>>
  PROVE  /\ messageQueue' \in Seq(Commands) /\ script' \in Seq(Commands) /\ Queued'
         /\ OnItsWay("none")' /\ Phases("none", Cardinality(bps))'
<1>1. PICK n \in Nat : n = Cardinality(bps) /\ Mame!clears = ClearsFrom(1, n)
  BY AllClears
<1>2. messageQueue # <<>> /\ messageQueue[1] = Mame!Go /\ toMame = <<>> /\ messageQueue \in Seq(Commands)
  BY DEF OnItsWay, MameTypes
<1>3. PICK q : q = Tail(messageQueue)
  OBVIOUS
<1>4. /\ q \in Seq(Commands) /\ Len(q) = Len(messageQueue) - 1 /\ Len(messageQueue) \in Nat /\ Len(messageQueue) >= 1
      /\ \A i \in 1..(Len(messageQueue) - 1) : q[i] = messageQueue[i + 1]
  BY <1>2, <1>3, TailOf
<1>5. Len(q) \in Nat /\ \A i \in 1..Len(q) : q[i] = Mame!Where
  <2>1. ASSUME NEW i \in 1..Len(q) PROVE q[i] = Mame!Where
    <3>1. i + 1 \in 1..Len(messageQueue) /\ 1 \in 1..Len(messageQueue) /\ i + 1 # 1 /\ q[i] = messageQueue[i + 1]
      BY <1>4
    <3>. QED
      BY <1>2, <3>1, DifferentCommands DEF Queued
  <2>. QED
    BY <1>4, <2>1
<1>6. /\ userState = "running" /\ mameBps \subseteq 1..n /\ ~mameRuns
  <2>1. SettingUp("AT", n)
    <3>1. script # <<>>
      <4>1. 1 \in 1..Len(messageQueue)
        BY <1>4
      <4>. QED
        BY <1>2, <4>1, DifferentCommands DEF Queued
    <3>. QED
      BY <1>1, <3>1 DEF Phases, AtRest, Going, Removing, Stopping
  <2>. QED
    BY <2>1 DEF SettingUp
<1>7. 1 \in 1..(n + 1) /\ (n # 0 => 1 <= n /\ 1 \in 1..n) /\ 1 \in Nat /\ (n = 0 => 1 = n + 1)
  OBVIOUS
<1>8. PICK rest : rest = q \o (IF Mame!clears = <<>> THEN <<>> ELSE <<Head(Mame!clears)>>)
  OBVIOUS
<1>9. /\ funcContinueResolve' = "none" /\ script' = Mame!clears /\ messageQueue' = rest
      /\ toMame' = <<>> \o Mame!Sent(rest)
      /\ userState' = IF Mame!clears = <<>> THEN "stopped" ELSE "running"
  BY <1>2, <1>3, <1>6, <1>8 DEF StopsAtOnce
<1>10. ASSUME rest \in Seq(Commands)
       PROVE  OnItsWay("none")' /\ (rest # <<>> => toMame' # <<>>)
  <2>1. CASE rest = <<>>
    BY <1>9, <2>1 DEF Mame!Sent, OnItsWay
  <2>2. CASE rest # <<>>
    <3>1. Mame!Sent(rest) = <<rest[1]>> /\ rest[1] \in Commands
      BY <1>10, <2>2, TailOf DEF Mame!Sent
    <3>2. <<rest[1]>> \in Seq(Commands)
      BY <3>1
    <3>3. toMame' = <<rest[1]>>
      BY <1>9, <3>1, <3>2, ConcatEmptySeq
    <3>. QED
      BY <1>9, <2>2, <3>3 DEF OnItsWay
  <2>. QED
    BY <2>1, <2>2
<1>11. CASE n = 0
  <2>1. Mame!clears = <<>>
    BY <1>1, <1>7, <1>11, ScriptTypes
  <2>2. rest = q
    BY <1>4, <1>8, <2>1, ConcatEmptySeq
  <2>3. script' = <<>> /\ messageQueue' = q /\ userState' = "stopped"
    BY <1>9, <2>1, <2>2
  <2>4. script' \in Seq(Commands) /\ Queued'
    BY <1>5, <2>3, NothingQueued
  <2>5. mameBps' = {} /\ ~mameRuns'
    BY <1>6, <1>11
  <2>6. AtRest("none")'
    BY <1>9, <2>3, <2>5 DEF AtRest, Stopping
  <2>. QED
    BY <1>4, <1>10, <2>2, <2>3, <2>4, <2>6 DEF Phases
<1>12. CASE n # 0
  <2>1. /\ Mame!clears # <<>> /\ Mame!clears \in Seq(Commands) /\ Mame!clears[1] = Mame!Clear(1)
        /\ \A i \in 1..Len(Mame!clears) : Mame!clears[i] # Mame!Where
    BY <1>1, <1>7, <1>12, ScriptTypes
  <2>2. Mame!Clear(1) \in Commands /\ Mame!Clear(1) # Mame!Where /\ Head(Mame!clears) = Mame!Clear(1)
    BY <1>7, <2>1, TailOf, DifferentCommands
  <2>3. rest = Append(q, Mame!Clear(1))
    BY <1>4, <1>8, <2>1, <2>2, AppendIsConcat
  <2>4. rest \in Seq(Commands) /\ rest # <<>>
    BY <1>4, <2>2, <2>3, AppendProperties
  <2>5. Queued'
    BY <1>4, <1>5, <1>9, <2>1, <2>2, <2>3, ScriptQueued
  <2>6. Removing("none", n)'
    <3>1. /\ script' = ClearsFrom(1, n) /\ userState' = "running" /\ toMame' # <<>>
          /\ mameBps' \subseteq 1..n /\ ~mameRuns' /\ 1 \in 1..n
      BY <1>1, <1>6, <1>7, <1>9, <1>10, <1>12, <2>1, <2>4
    <3>. QED
      BY <1>9, <3>1 DEF Removing, ClearsFrom, Mame!Clear, Stopping
  <2>7. Phases("none", n)'
    BY <2>6 DEF Phases
  <2>8. Phases("none", Cardinality(bps))'
    BY <1>1, <2>7
  <2>. QED
    BY <1>9, <1>10, <2>1, <2>4, <2>5, <2>8
<1>. QED
  BY <1>11, <1>12

\* Nothing is done with what is not complete yet.
LEMMA KeptPhase ==
  ASSUME Queued, MameTypes, NEW layout \in Layouts, OnItsWay(layout), NEW n, Phases(layout, n),
         NEW left \in Layouts, Keeps(layout, left), UNCHANGED <<mameRuns, mameBps>>
  PROVE  /\ messageQueue' \in Seq(Commands) /\ script' \in Seq(Commands) /\ Queued'
         /\ OnItsWay(left)' /\ Phases(left, n)'
<1>1. /\ (Stopping(left) <=> Stopping(layout)) /\ layout \notin {"A", "AT"} /\ left \notin {"A", "AT"}
      /\ layout \in {"none", "T"} <=> left \in {"none", "T"}
      /\ UNCHANGED <<script, messageQueue, toMame, userState, funcContinueResolve>>
  BY DEF Keeps, NothingDone, Stopping
<1>2. messageQueue' \in Seq(Commands) /\ script' \in Seq(Commands) /\ Queued'
  BY <1>1 DEF Queued, MameTypes
<1>3. OnItsWay(left)'
  BY <1>1 DEF OnItsWay, Layouts
<1>4. Phases(left, n)'
  <2>1. CASE AtRest(layout)
    BY <1>1, <2>1 DEF AtRest, Phases, Stopping
  <2>2. CASE SettingUp(layout, n)
    <3>1. SettingUp(left, n)'
      BY <1>1, <2>2 DEF SettingUp, Stopping, SetsFrom, Mame!Set, Mame!Go
    <3>. QED
      BY <3>1 DEF Phases
  <2>3. CASE Going(layout, n)
    <3>1. Going(left, n)'
      BY <1>1, <2>3 DEF Going, Stopping
    <3>. QED
      BY <3>1 DEF Phases
  <2>4. CASE Removing(layout, n)
    <3>1. Removing(left, n)'
      BY <1>1, <2>4 DEF Removing, Stopping, ClearsFrom, Mame!Clear
    <3>. QED
      BY <3>1 DEF Phases
  <2>. QED
    BY <2>1, <2>2, <2>3, <2>4 DEF Phases
<1>. QED
  BY <1>2, <1>3, <1>4

LEMMA DataMame ==
  ASSUME MameInv, NEW n, Mame!Data(n)
  PROVE  MameInv'
<1>1. PICK layout \in Layouts : /\ Pieces(layout, mameData \o fromMame) /\ OnItsWay(layout)
                                /\ Phases(layout, Cardinality(bps))
  BY DEF MameInv
<1>2. MameTypes /\ Queued /\ Cardinality(bps) \in Nat
  BY AllClears DEF MameInv
<1>3. layout = "T" => ~GoWaits
  <2>1. SUFFICES ASSUME layout = "T", messageQueue # <<>> PROVE Head(messageQueue) # Mame!Go
    BY DEF GoWaits
  <2>2. script = <<>>
    BY <1>1, <2>1, StopFound DEF Going
  <2>3. Head(messageQueue) = messageQueue[1] /\ 1 \in 1..Len(messageQueue)
    BY <1>2, <2>1, TailOf DEF MameTypes
  <2>4. messageQueue[1] = Mame!Where
    BY <1>2, <2>2, <2>3, OnlyPauses
  <2>. QED
    BY <2>3, <2>4, DifferentCommands
<1>4. /\ mameData' \in Seq(Piece) /\ fromMame' \in Seq(Piece)
      /\ UNCHANGED <<bps, mameRuns, mameBps>>
      /\ \E left \in Layouts : Pieces(left, mameData' \o fromMame') /\ Outcome(layout, left)
  BY <1>1, <1>2, <1>3, DataOutcome
<1>5. PICK left \in Layouts : Pieces(left, mameData' \o fromMame') /\ Outcome(layout, left)
  BY <1>4
<1>6. /\ messageQueue' \in Seq(Commands) /\ script' \in Seq(Commands) /\ Queued'
      /\ OnItsWay(left)' /\ Phases(left, Cardinality(bps))'
  <2>0. PICK k \in Nat : k = Cardinality(bps)
    BY <1>2
  <2>1. CASE Keeps(layout, left)
    <3>1. /\ messageQueue' \in Seq(Commands) /\ script' \in Seq(Commands) /\ Queued'
          /\ OnItsWay(left)' /\ Phases(left, k)'
      BY <1>1, <1>2, <1>4, <2>0, <2>1, KeptPhase
    <3>. QED
      BY <1>4, <2>0, <3>1
  <2>2. CASE Answers(layout, left)
    <3>1. /\ messageQueue' \in Seq(Commands) /\ script' \in Seq(Commands) /\ Queued'
          /\ OnItsWay(left)' /\ Phases(left, k)'
      BY <1>1, <1>2, <1>4, <2>0, <2>2, AnsweredPhase
    <3>. QED
      BY <1>4, <2>0, <3>1
  <2>3. CASE Notifies(layout, left)
    BY <1>1, <1>2, <1>4, <2>3, NotifiedPhase
  <2>4. CASE layout = "AT" /\ left = "none" /\ StopsAtOnce
    BY <1>1, <1>2, <1>4, <2>4, AtOncePhase
  <2>. QED
    BY <1>5, <2>1, <2>2, <2>3, <2>4 DEF Outcome
<1>7. MameTypes'
  BY <1>2, <1>4, <1>6 DEF MameTypes
<1>. QED
  BY <1>5, <1>6, <1>7 DEF MameInv

LEMMA PauseMame ==
  ASSUME MameInv, Mame!sendDzrpCmdPause
  PROVE  MameInv'
<1>1. PICK layout \in Layouts : /\ Pieces(layout, mameData \o fromMame) /\ OnItsWay(layout)
                                /\ Phases(layout, Cardinality(bps))
  BY DEF MameInv
<1>2. MameTypes /\ Queued
  BY DEF MameInv
<1>3. /\ Mame!sendPacketData(Mame!Where)
      /\ UNCHANGED <<mameData, funcContinueResolve, script, bps, userState, fromMame, mameRuns, mameBps>>
  BY DEF Mame!sendDzrpCmdPause
<1>4. /\ messageQueue' \in Seq(Commands) /\ OnItsWay(layout)' /\ messageQueue' # <<>>
      /\ messageQueue # <<>> => messageQueue'[1] = messageQueue[1] /\ toMame' = toMame
      /\ messageQueue = <<>> => toMame' # <<>>
  BY <1>1, <1>2, <1>3, CommandSent, DifferentCommands
<1>5. Queued'
  BY <1>1, <1>2, <1>3, PauseQueued
<1>6. PICK n : n = Cardinality(bps) /\ n = Cardinality(bps')
  BY <1>3
<1>7. Phases(layout, n)'
  <2>1. CASE AtRest(layout)
    BY <1>3, <2>1 DEF AtRest, Phases, Stopping
  <2>2. CASE SettingUp(layout, n)
    <3>1. SettingUp(layout, n)'
      BY <1>3, <2>2 DEF SettingUp, Stopping, SetsFrom, Mame!Set, Mame!Go
    <3>. QED
      BY <3>1 DEF Phases
  <2>3. CASE Going(layout, n)
    <3>1. Going(layout, n)'
      BY <1>3, <2>3 DEF Going, Stopping
    <3>. QED
      BY <3>1 DEF Phases
  <2>4. CASE Removing(layout, n)
    <3>1. Removing(layout, n)'
      <4>1. PICK j \in 1..n : /\ script = ClearsFrom(j, n) /\ mameBps \subseteq j..n
                              /\ toMame = <<>> /\ messageQueue[1] = Mame!Clear(j) => j \notin mameBps
        BY <2>4 DEF Removing
      <4>2. toMame' = <<>> /\ messageQueue'[1] = Mame!Clear(j) => j \notin mameBps'
        BY <1>3, <1>4, <4>1
      <4>3. /\ userState' = "running" /\ funcContinueResolve' = "none" /\ ~mameRuns' /\ ~Stopping(layout)
            /\ script' = ClearsFrom(j, n) /\ mameBps' \subseteq j..n
        BY <1>3, <2>4, <4>1 DEF Removing
      <4>. QED
        BY <4>2, <4>3 DEF Removing, Stopping, ClearsFrom, Mame!Clear
    <3>. QED
      BY <3>1 DEF Phases
  <2>. QED
    BY <1>1, <1>6, <2>1, <2>2, <2>3, <2>4 DEF Phases
<1>8. MameTypes'
  BY <1>2, <1>3, <1>4 DEF MameTypes
<1>9. Pieces(layout, mameData' \o fromMame') /\ Phases(layout, Cardinality(bps))'
  BY <1>1, <1>3, <1>6, <1>7
<1>. QED
  BY <1>4, <1>5, <1>8, <1>9 DEF MameInv

LEMMA ContinueMame ==
  ASSUME MameInv, NEW addrs \in {{}, {1}, {1, 2}}, Mame!sendDzrpCmdContinue(addrs)
  PROVE  MameInv'
<1>1. PICK layout \in Layouts : /\ Pieces(layout, mameData \o fromMame) /\ OnItsWay(layout)
                                /\ Phases(layout, Cardinality(bps))
  BY DEF MameInv
<1>2. MameTypes /\ Queued /\ messageQueue \in Seq(Commands)
  BY DEF MameInv, MameTypes
<1>3. userState = "stopped" /\ script = <<>> /\ UNCHANGED <<mameData, fromMame, mameRuns, mameBps>>
  BY DEF Mame!sendDzrpCmdContinue
<1>4. AtRest(layout)
  BY <1>1, <1>3 DEF Phases, SettingUp, Going, Removing
<1>5. /\ \A i \in 1..Len(messageQueue) : messageQueue[i] = Mame!Where
      /\ messageQueue # <<>> => 1 \in 1..Len(messageQueue)
  BY <1>2, <1>3, OnlyPauses, TailOf
<1>6. layout \in {"none", "AR", "R"}
  <2>1. layout # "A"
    BY <1>1, <1>5, DifferentCommands DEF OnItsWay
  <2>. QED
    BY <1>4, <2>1 DEF AtRest, Stopping, Layouts
<1>7. IsFiniteSet(addrs) /\ Cardinality(addrs) \in Nat
  <2>1. {1, 2} = {1} \cup {2} /\ IsFiniteSet({}) /\ IsFiniteSet({1}) /\ IsFiniteSet({2})
    BY FS_EmptySet, FS_Singleton
  <2>2. IsFiniteSet({1, 2})
    BY <2>1, FS_Union
  <2>. QED
    BY <2>1, <2>2, FS_CardinalityType
<1>8. PICK n \in Nat : n = Cardinality(addrs)
  BY <1>7
<1>9. PICK sets : sets = [i \in 1..n |-> Mame!Set(i)]
  OBVIOUS
<1>10. /\ script' = sets \o <<Mame!Go>> /\ bps' = addrs /\ userState' = "running"
       /\ funcContinueResolve' = IF sets = <<>> THEN "intermediate" ELSE "original"
       /\ Mame!sendPacketData(Head(script'))
  <2>1. Mame!Cardinality(addrs) = Cardinality(addrs)
    BY Zenon DEF Mame!Cardinality, Cardinality, Mame!IsFiniteSet, IsFiniteSet
  <2>2. sets = [i \in 1..Mame!Cardinality(addrs) |-> Mame!Set(i)]
    BY <1>8, <1>9, <2>1
  <2>. QED
    BY <2>2 DEF Mame!sendDzrpCmdContinue
<1>11. sets \in Seq(Commands) /\ Len(sets) = n /\ \A i \in 1..n : sets[i] = Mame!Set(i)
  <2>1. \A i \in 1..n : Mame!Set(i) \in Commands
    BY DifferentCommands
  <2>2. [i \in 1..n |-> Mame!Set(i)] \in [1..n -> Commands]
    BY <2>1
  <2>. QED
    BY <1>9, <2>2, FunctionIsSeq
<1>12. script' = SetsFrom(1, n)
  <2>1. <<Mame!Go>> \in Seq(Commands) /\ Len(<<Mame!Go>>) = 1 /\ <<Mame!Go>>[1] = Mame!Go
    BY DifferentCommands
  <2>2. PICK go : go = <<Mame!Go>>
    OBVIOUS
  <2>3. /\ sets \o go \in Seq(Commands) /\ Len(sets \o go) = n + 1
        /\ \A i \in 1..(n + 1) : (sets \o go)[i] = IF i <= n THEN sets[i] ELSE go[i - n]
    BY <1>11, <2>1, <2>2, ConcatProperties
  <2>4. 1 \in 1..(n + 1) /\ n + 2 - 1 = n + 1
    OBVIOUS
  <2>5. SetsFrom(1, n) \in Seq(Commands) /\ Len(SetsFrom(1, n)) = n + 1
    BY <2>4, ScriptTypes
  <2>6. ASSUME NEW i \in 1..(n + 1) PROVE (sets \o go)[i] = SetsFrom(1, n)[i]
    <3>1. SetsFrom(1, n)[i] = IF i = n + 1 THEN Mame!Go ELSE Mame!Set(i)
      <4>1. 1 + i - 1 = i
        OBVIOUS
      <4>. QED
        BY <2>4, <4>1 DEF SetsFrom
    <3>2. CASE i = n + 1
      <4>1. ~(i <= n) /\ i - n = 1
        BY <3>2
      <4>. QED
        BY <2>1, <2>2, <2>3, <3>1, <3>2, <4>1
    <3>3. CASE i # n + 1
      <4>1. i <= n /\ i \in 1..n
        BY <3>3
      <4>. QED
        BY <1>11, <2>3, <3>1, <3>3, <4>1
    <3>. QED
      BY <3>2, <3>3
  <2>7. sets \o go = SetsFrom(1, n)
    BY <2>3, <2>5, <2>6, SameSeq
  <2>. QED
    BY <1>10, <2>2, <2>7
<1>13. /\ script' \in Seq(Commands) /\ script' # <<>> /\ 1 \in 1..(n + 1) /\ Head(script') = script'[1]
       /\ \A i \in 1..Len(script') : script'[i] # Mame!Where
       /\ script'[1] \in Commands
  <2>1. 1 \in 1..(n + 1)
    OBVIOUS
  <2>2. /\ SetsFrom(1, n) \in Seq(Commands) /\ SetsFrom(1, n) # <<>> /\ Len(SetsFrom(1, n)) = n + 2 - 1
        /\ \A i \in 1..(n + 2 - 1) : SetsFrom(1, n)[i] # Mame!Where
    BY <2>1, ScriptTypes
  <2>3. Head(SetsFrom(1, n)) = SetsFrom(1, n)[1] /\ SetsFrom(1, n)[1] \in Commands
    BY <2>2, TailOf
  <2>. QED
    BY <1>12, <2>1, <2>2, <2>3
<1>14. PICK c \in Commands : c = Head(script')
  BY <1>13
<1>15. Mame!sendPacketData(c) /\ messageQueue' = Append(messageQueue, c)
  BY <1>10, <1>14 DEF Mame!sendPacketData
<1>16. c # Mame!Where /\ script'[1] = c
  <2>1. 1 \in 1..Len(script')
    BY <1>13, TailOf
  <2>. QED
    BY <1>13, <1>14, <2>1
<1>17. messageQueue' \in Seq(Commands) /\ Len(messageQueue) \in Nat /\ OnItsWay(layout)'
  BY <1>1, <1>2, <1>15, CommandSent
<1>18. Queued'
  BY <1>2, <1>5, <1>13, <1>15, <1>16, <1>17, ScriptQueued
<1>19. SettingUp(layout, n)'
  <2>1. PICK j \in 1..(n + 1) : script' = SetsFrom(j, n)
    BY <1>12, <1>13
  <2>2. funcContinueResolve' # "none" /\ mameBps' \subseteq 1..n /\ ~mameRuns' /\ layout # "A" /\ ~Stopping(layout)
    BY <1>3, <1>4, <1>6, <1>10 DEF AtRest
  <2>. QED
    BY <1>10, <2>1, <2>2 DEF SettingUp, SetsFrom, Mame!Set, Mame!Go, Stopping
<1>20. Phases(layout, Cardinality(bps))'
  <2>1. Phases(layout, n)'
    BY <1>19 DEF Phases
  <2>2. Cardinality(bps') = n
    BY <1>8, <1>10
  <2>. QED
    BY <2>1, <2>2
<1>21. MameTypes'
  BY <1>2, <1>3, <1>7, <1>10, <1>13, <1>17 DEF MameTypes
<1>22. Pieces(layout, mameData' \o fromMame')
  BY <1>1, <1>3
<1>. QED
  BY <1>17, <1>18, <1>20, <1>21, <1>22 DEF MameInv

\* What MAME sends is put behind what is on its way.
LEMMA PiecesAdded ==
  ASSUME NEW s \in Seq(Piece), NEW u \in Seq(Piece)
  PROVE  /\ s \o u \in Seq(Piece)
         /\ Pieces("none", s) => \A layout \in Layouts : Pieces(layout, u) => Pieces(layout, s \o u)
         /\ Pieces("T", s) /\ Pieces("AR", u) => Pieces("TAR", s \o u)
         /\ Pieces("A", s) /\ Pieces("T", u) => Pieces("AT", s \o u)
         /\ Pieces("AR", s) /\ Pieces("T", u) => Pieces("ART", s \o u)
         /\ Pieces("R", s) /\ Pieces("T", u) => Pieces("RT", s \o u)
<1>1. PICK t : t = s \o u
  OBVIOUS
<1>2. /\ t \in Seq(Piece) /\ Len(t) = Len(s) + Len(u) /\ Len(s) \in Nat /\ Len(u) \in Nat
      /\ \A i \in 1..(Len(s) + Len(u)) : t[i] = IF i <= Len(s) THEN s[i] ELSE u[i - Len(s)]
  BY <1>1, ConcatProperties
<1>3. ASSUME Pieces("none", s) PROVE t = u
  <2>1. s = <<>>
    BY <1>3, NoElements DEF Pieces
  <2>. QED
    BY <1>1, <2>1, ConcatEmptySeq
<1>4. /\ \A i \in 1..Len(s) : t[i] = s[i]
      /\ \A k \in 1..Len(u) : t[Len(s) + k] = u[k]
  <2>1. ASSUME NEW k \in 1..Len(u) PROVE t[Len(s) + k] = u[k]
    <3>1. Len(s) + k \in 1..(Len(s) + Len(u)) /\ ~(Len(s) + k <= Len(s)) /\ (Len(s) + k) - Len(s) = k
      BY <1>2
    <3>. QED
      BY <1>2, <3>1
  <2>2. ASSUME NEW i \in 1..Len(s) PROVE t[i] = s[i]
    <3>1. i \in 1..(Len(s) + Len(u)) /\ i <= Len(s)
      BY <1>2
    <3>. QED
      BY <1>2, <3>1
  <2>. QED
    BY <2>1, <2>2
<1>5. ASSUME Pieces("T", s), Pieces("AR", u) PROVE Pieces("TAR", t)
  <2>0. Len(s) = 2 /\ Two(s, 1, "T") /\ Len(u) = 3 /\ At(u, 1, "+", 0) /\ Two(u, 2, "R")
    BY <1>5 DEF Pieces, Two, At
  <2>1. Len(s) = 2 /\ Two(s, 1, "T") /\ Len(u) = 3 /\ At(u, 1, "+", 0) /\ Two(u, 2, "R") /\ Len(t) = 5
    BY <1>2, <2>0
  <2>2. t[1] = s[1] /\ t[2] = s[2] /\ t[3] = u[1] /\ t[4] = u[2] /\ t[5] = u[3]
    <3>1. 1 \in 1..Len(s) /\ 2 \in 1..Len(s) /\ 1 \in 1..Len(u) /\ 2 \in 1..Len(u) /\ 3 \in 1..Len(u)
          /\ Len(s) + 1 = 3 /\ Len(s) + 2 = 4 /\ Len(s) + 3 = 5
      BY <2>1
    <3>. QED
      BY <1>4, <3>1
  <2>. QED
    BY <2>1, <2>2 DEF Pieces, Two, At
<1>6. ASSUME Pieces("A", s), Pieces("T", u) PROVE Pieces("AT", t)
  <2>0. Len(s) = 1 /\ At(s, 1, "+", 0) /\ Len(u) = 2 /\ Two(u, 1, "T")
    BY <1>6 DEF Pieces, Two, At
  <2>1. Len(s) = 1 /\ At(s, 1, "+", 0) /\ Len(u) = 2 /\ Two(u, 1, "T") /\ Len(t) = 3
    BY <1>2, <2>0
  <2>2. t[1] = s[1] /\ t[2] = u[1] /\ t[3] = u[2]
    <3>1. 1 \in 1..Len(s) /\ 1 \in 1..Len(u) /\ 2 \in 1..Len(u) /\ Len(s) + 1 = 2 /\ Len(s) + 2 = 3
      BY <2>1
    <3>. QED
      BY <1>4, <3>1
  <2>. QED
    BY <2>1, <2>2 DEF Pieces, Two, At
<1>7. ASSUME Pieces("AR", s), Pieces("T", u) PROVE Pieces("ART", t)
  <2>0. Len(s) = 3 /\ At(s, 1, "+", 0) /\ Two(s, 2, "R") /\ Len(u) = 2 /\ Two(u, 1, "T")
    BY <1>7 DEF Pieces, Two, At
  <2>1. Len(s) = 3 /\ At(s, 1, "+", 0) /\ Two(s, 2, "R") /\ Len(u) = 2 /\ Two(u, 1, "T") /\ Len(t) = 5
    BY <1>2, <2>0
  <2>2. t[1] = s[1] /\ t[2] = s[2] /\ t[3] = s[3] /\ t[4] = u[1] /\ t[5] = u[2]
    <3>1. 1 \in 1..Len(s) /\ 2 \in 1..Len(s) /\ 3 \in 1..Len(s) /\ 1 \in 1..Len(u) /\ 2 \in 1..Len(u)
          /\ Len(s) + 1 = 4 /\ Len(s) + 2 = 5
      BY <2>1
    <3>. QED
      BY <1>4, <3>1
  <2>. QED
    BY <2>1, <2>2 DEF Pieces, Two, At
<1>8. ASSUME Pieces("R", s), Pieces("T", u) PROVE Pieces("RT", t)
  <2>0. Len(s) = 2 /\ Two(s, 1, "R") /\ Len(u) = 2 /\ Two(u, 1, "T")
    BY <1>8 DEF Pieces, Two, At
  <2>1. Len(s) = 2 /\ Two(s, 1, "R") /\ Len(u) = 2 /\ Two(u, 1, "T") /\ Len(t) = 4
    BY <1>2, <2>0
  <2>2. t[1] = s[1] /\ t[2] = s[2] /\ t[3] = u[1] /\ t[4] = u[2]
    <3>1. 1 \in 1..Len(s) /\ 2 \in 1..Len(s) /\ 1 \in 1..Len(u) /\ 2 \in 1..Len(u) /\ Len(s) + 1 = 3 /\ Len(s) + 2 = 4
      BY <2>1
    <3>. QED
      BY <1>4, <3>1
  <2>. QED
    BY <2>1, <2>2 DEF Pieces, Two, At
<1>. QED
  BY <1>1, <1>2, <1>3, <1>5, <1>6, <1>7, <1>8

LEMMA BreakMame ==
  ASSUME MameInv, Mame!MameBreaks
  PROVE  MameInv'
<1>1. PICK layout \in Layouts : /\ Pieces(layout, mameData \o fromMame) /\ OnItsWay(layout)
                                /\ Phases(layout, Cardinality(bps))
  BY DEF MameInv
<1>2. MameTypes /\ Queued /\ mameData \in Seq(Piece) /\ fromMame \in Seq(Piece)
  BY DEF MameInv, MameTypes
<1>3. /\ mameRuns /\ mameRuns' = FALSE /\ fromMame' = fromMame \o Mame!Stop
      /\ UNCHANGED <<messageQueue, mameData, funcContinueResolve, script, bps, userState, toMame, mameBps>>
  BY DEF Mame!MameBreaks, Mame!client
<1>4. Mame!Stop \in Seq(Piece) /\ Pieces("T", Mame!Stop)
  BY DifferentCommands DEF Mame!Stop, Mame!Packet, Piece, Pieces, Two, At
<1>5. /\ SettingUp(layout, Cardinality(bps)) \/ Going(layout, Cardinality(bps))
      /\ layout \in {"none", "A", "AR", "R"}
  BY <1>1, <1>3 DEF Phases, AtRest, SettingUp, Going, Removing, Stopping, Layouts
<1>6. PICK left \in Layouts : /\ layout = "none" => left = "T"
                              /\ layout = "A" => left = "AT"
                              /\ layout = "AR" => left = "ART"
                              /\ layout = "R" => left = "RT"
  BY DEF Layouts
<1>7. fromMame' \in Seq(Piece) /\ Pieces(left, mameData' \o fromMame')
  <2>1. mameData' \o fromMame' = (mameData \o fromMame) \o Mame!Stop
    BY SMTT(20), <1>2, <1>3, <1>4, ConcatAssociative
  <2>2. mameData \o fromMame \in Seq(Piece) /\ fromMame' \in Seq(Piece)
    BY <1>2, <1>3, <1>4, ConcatProperties
  <2>3. Pieces(left, (mameData \o fromMame) \o Mame!Stop)
    <3>1. PICK s \in Seq(Piece) : s = mameData \o fromMame
      BY <2>2
    <3>2. /\ Pieces("none", s) => Pieces("T", s \o Mame!Stop)
          /\ Pieces("A", s) => Pieces("AT", s \o Mame!Stop)
          /\ Pieces("AR", s) => Pieces("ART", s \o Mame!Stop)
          /\ Pieces("R", s) => Pieces("RT", s \o Mame!Stop)
      <4>1. "T" \in Layouts
        BY DEF Layouts
      <4>. QED
        BY <1>4, <4>1, PiecesAdded
    <3>. QED
      BY <1>1, <1>5, <1>6, <3>1, <3>2
  <2>. QED
    BY <2>1, <2>2, <2>3
<1>8. OnItsWay(left)'
  BY <1>1, <1>3, <1>5, <1>6 DEF OnItsWay
<1>9. Phases(left, Cardinality(bps))'
  <2>1. PICK n : n = Cardinality(bps) /\ n = Cardinality(bps')
    BY <1>3
  <2>2. Stopping(left) /\ (layout = "A" => left = "AT")
    BY <1>5, <1>6 DEF Stopping
  <2>3. CASE SettingUp(layout, n)
    <3>1. layout = "A" /\ left = "AT"
      BY <1>3, <2>2, <2>3 DEF SettingUp
    <3>2. SettingUp(left, n)'
      BY <1>3, <2>3, <3>1 DEF SettingUp, SetsFrom, Mame!Set, Mame!Go, Stopping
    <3>. QED
      BY <2>1, <3>2 DEF Phases
  <2>4. CASE Going(layout, n)
    <3>1. Going(left, n)'
      BY <1>3, <2>2, <2>4 DEF Going, Stopping
    <3>. QED
      BY <2>1, <3>1 DEF Phases
  <2>. QED
    BY <1>5, <2>1, <2>3, <2>4
<1>10. MameTypes' /\ Queued'
  BY <1>2, <1>3, <1>7 DEF MameTypes, Queued
<1>. QED
  BY <1>7, <1>8, <1>9, <1>10 DEF MameInv

\* The answer to a command.
LEMMA Replied ==
  ASSUME NEW c \in Commands
  PROVE  /\ <<Mame!Ack>> \in Seq(Piece) /\ Pieces("A", <<Mame!Ack>>)
         /\ <<Mame!Ack>> \o Mame!Packet("R", c) \in Seq(Piece)
         /\ Pieces("AR", <<Mame!Ack>> \o Mame!Packet("R", c))
         /\ Mame!Packet("R", c) \in Seq(Piece)
         /\ Mame!Stop \in Seq(Piece) /\ Pieces("T", Mame!Stop)
<1>1. /\ Mame!Ack \in Piece /\ Mame!Ack.kind = "+" /\ Mame!Ack.half = 0
      /\ Mame!Stop \in Seq(Piece) /\ Pieces("T", Mame!Stop)
  BY DifferentCommands DEF Mame!Ack, Mame!Stop, Mame!Packet, Piece, Pieces, Two, At
<1>2. /\ Mame!Packet("R", c) \in Seq(Piece) /\ Len(Mame!Packet("R", c)) = 2
      /\ Two(Mame!Packet("R", c), 1, "R")
  BY DEF Mame!Packet, Piece, Two, At
<1>3. PICK a, r : a = <<Mame!Ack>> /\ r = Mame!Packet("R", c)
  OBVIOUS
<1>4. a \in Seq(Piece) /\ Len(a) = 1 /\ a[1] = Mame!Ack
  BY <1>1, <1>3
<1>5. Pieces("A", a)
  BY <1>1, <1>4 DEF Pieces, At
<1>6. /\ a \o r \in Seq(Piece) /\ Len(a \o r) = 3
      /\ \A i \in 1..3 : (a \o r)[i] = IF i <= 1 THEN a[i] ELSE r[i - 1]
  BY <1>2, <1>3, <1>4, ConcatProperties
<1>7. (a \o r)[1] = Mame!Ack /\ (a \o r)[2] = r[1] /\ (a \o r)[3] = r[2]
  BY <1>4, <1>6
<1>8. Pieces("AR", a \o r)
  BY <1>1, <1>2, <1>3, <1>6, <1>7 DEF Pieces, Two, At
<1>. QED
  BY <1>1, <1>2, <1>3, <1>4, <1>5, <1>6, <1>8

LEMMA ReceiveMame ==
  ASSUME MameInv, Mame!MameReceives
  PROVE  MameInv'
<1>1. PICK layout \in Layouts : /\ Pieces(layout, mameData \o fromMame) /\ OnItsWay(layout)
                                /\ Phases(layout, Cardinality(bps))
  BY DEF MameInv
<1>2. MameTypes /\ Queued /\ mameData \in Seq(Piece) /\ fromMame \in Seq(Piece) /\ messageQueue \in Seq(Commands)
      /\ mameRuns \in BOOLEAN
  BY DEF MameInv, MameTypes
<1>3. PICK cmd : cmd = Head(toMame)
  OBVIOUS
<1>4. PICK stop, reply : /\ stop = (IF cmd = Mame!Where /\ mameRuns THEN Mame!Stop ELSE <<>>)
                         /\ reply = (IF cmd = Mame!Go THEN <<>> ELSE Mame!Packet("R", cmd))
  OBVIOUS
<1>5. /\ toMame # <<>> /\ toMame' = Tail(toMame)
      /\ mameBps' = CASE cmd[1] = "Z1" -> mameBps \cup {cmd[2]}
                      [] cmd[1] = "z1" -> mameBps \ {cmd[2]}
                      [] OTHER         -> mameBps
      /\ mameRuns' = CASE cmd = Mame!Go -> TRUE [] cmd = Mame!Where -> FALSE [] OTHER -> mameRuns
      /\ fromMame' = fromMame \o stop \o <<Mame!Ack>> \o reply
      /\ UNCHANGED <<messageQueue, mameData, funcContinueResolve, script, bps, userState>>
  BY <1>3, <1>4 DEF Mame!MameReceives, Mame!client
<1>6. /\ layout \in {"none", "T"} /\ messageQueue # <<>> /\ cmd = messageQueue[1] /\ toMame' = <<>>
      /\ cmd \in Commands /\ 1 \in 1..Len(messageQueue)
  <2>1. layout \in {"none", "T"} /\ messageQueue # <<>> /\ toMame = <<messageQueue[1]>>
    BY <1>1, <1>5 DEF OnItsWay
  <2>2. messageQueue[1] \in Commands /\ 1 \in 1..Len(messageQueue)
    BY <1>2, <2>1, TailOf
  <2>. QED
    BY <1>3, <1>5, <2>1, <2>2
<1>7. layout = "T" => Going(layout, Cardinality(bps)) /\ cmd = Mame!Where /\ ~mameRuns
  <2>1. layout = "T" => Going(layout, Cardinality(bps))
    BY <1>1, StopFound
  <2>. QED
    BY <1>2, <1>6, <2>1, OnlyPauses DEF Going, Stopping
<1>8. PICK left \in Layouts : left = IF cmd = Mame!Go THEN "A"
                                     ELSE IF layout = "T" \/ (cmd = Mame!Where /\ mameRuns) THEN "TAR" ELSE "AR"
  BY DEF Layouts
<1>9. fromMame' \in Seq(Piece) /\ Pieces(left, mameData' \o fromMame')
  <2>1. PICK s \in Seq(Piece) : s = mameData \o fromMame
    BY <1>2, ConcatProperties
  <2>2. PICK ack \in Seq(Piece) : ack = <<Mame!Ack>> /\ Pieces("A", ack)
    BY <1>6, Replied
  <2>3. reply \in Seq(Piece) /\ stop \in Seq(Piece)
    <3>1. Mame!Packet("R", cmd) \in Seq(Piece) /\ Mame!Stop \in Seq(Piece)
      BY <1>6, Replied
    <3>. QED
      BY <1>4, <3>1
  <2>4. PICK u : u = ack \o reply
    OBVIOUS
  <2>5. u \in Seq(Piece) /\ (cmd = Mame!Go => Pieces("A", u)) /\ (cmd # Mame!Go => Pieces("AR", u))
    <3>1. CASE cmd = Mame!Go
      BY <1>4, <2>2, <2>4, <3>1, ConcatEmptySeq
    <3>2. CASE cmd # Mame!Go
      <4>1. <<Mame!Ack>> \o Mame!Packet("R", cmd) \in Seq(Piece) /\ Pieces("AR", <<Mame!Ack>> \o Mame!Packet("R", cmd))
        BY <1>6, Replied
      <4>. QED
        BY <1>4, <2>2, <2>4, <3>2, <4>1
    <3>. QED
      BY <3>1, <3>2
  <2>6. PICK v : v = stop \o u
    OBVIOUS
  <2>7. fromMame' = fromMame \o v
    <3>1. fromMame' = ((fromMame \o stop) \o ack) \o reply
      BY <1>5, <2>2
    <3>2. fromMame \o stop \in Seq(Piece)
      BY <1>2, <2>3, ConcatProperties
    <3>3. ((fromMame \o stop) \o ack) \o reply = (fromMame \o stop) \o (ack \o reply)
      BY SMTT(20), <2>2, <2>3, <3>2, ConcatAssociative
    <3>4. (fromMame \o stop) \o u = fromMame \o (stop \o u)
      <4>1. fromMame \in Seq(Piece) /\ stop \in Seq(Piece) /\ u \in Seq(Piece)
        BY <1>2, <2>3, <2>5
      <4>. QED
        BY SMTT(20), <4>1, ConcatAssociative
    <3>. QED
      BY <2>4, <2>6, <3>1, <3>3, <3>4
  <2>8. v \in Seq(Piece) /\ (cmd = Mame!Where /\ mameRuns => Pieces("TAR", v)) /\ (~(cmd = Mame!Where /\ mameRuns) => v = u)
    <3>1. CASE cmd = Mame!Where /\ mameRuns
      <4>1. Mame!Stop \in Seq(Piece) /\ Pieces("T", Mame!Stop) /\ stop = Mame!Stop
        BY <1>4, <1>6, <3>1, Replied
      <4>2. Pieces("AR", u)
        BY <2>5, <3>1, DifferentCommands
      <4>3. Mame!Stop \o u \in Seq(Piece) /\ Pieces("TAR", Mame!Stop \o u)
        BY <2>5, <4>1, <4>2, PiecesAdded
      <4>. QED
        BY <2>6, <3>1, <4>1, <4>3
    <3>2. CASE ~(cmd = Mame!Where /\ mameRuns)
      <4>1. stop = <<>>
        BY <1>4, <3>2
      <4>2. <<>> \o u = u
        BY <2>5, ConcatEmptySeq
      <4>. QED
        BY <2>5, <2>6, <3>2, <4>1, <4>2
    <3>. QED
      BY <3>1, <3>2
  <2>9. mameData' \o fromMame' = s \o v /\ fromMame' \in Seq(Piece)
    <3>1. (mameData \o fromMame) \o v = mameData \o (fromMame \o v)
      <4>1. mameData \in Seq(Piece) /\ fromMame \in Seq(Piece) /\ v \in Seq(Piece)
        BY <1>2, <2>8
      <4>. QED
        BY SMTT(20), <4>1, ConcatAssociative
    <3>2. fromMame \o v \in Seq(Piece)
      BY <1>2, <2>8, ConcatProperties
    <3>. QED
      BY <1>5, <2>1, <2>7, <3>1, <3>2
  <2>10. Pieces(left, s \o v)
    <3>1. CASE layout = "T"
      <4>1. v = u /\ Pieces("AR", u) /\ left = "TAR" /\ Pieces("T", s)
        BY <1>1, <1>7, <1>8, <2>1, <2>5, <2>8, <3>1, DifferentCommands
      <4>. QED
        BY <2>5, <4>1, PiecesAdded
    <3>2. CASE layout = "none"
      <4>1. Pieces(left, v)
        <5>1. CASE cmd = Mame!Where /\ mameRuns
          BY <1>8, <2>8, <5>1, DifferentCommands
        <5>2. CASE ~(cmd = Mame!Where /\ mameRuns)
          BY <1>8, <2>5, <2>8, <3>2, <5>2
        <5>. QED
          BY <5>1, <5>2
      <4>2. Pieces("none", s)
        BY <1>1, <2>1, <3>2
      <4>. QED
        BY <2>8, <4>1, <4>2, PiecesAdded
    <3>. QED
      BY <1>6, <3>1, <3>2
  <2>. QED
    BY <2>9, <2>10
<1>10. OnItsWay(left)'
  BY <1>5, <1>6, <1>8 DEF OnItsWay
<1>11. cmd = Mame!Where => mameBps' = mameBps /\ mameRuns' = FALSE
  BY <1>5, DifferentCommands
<1>12. cmd = Mame!Go => mameBps' = mameBps /\ mameRuns' = TRUE
  BY <1>5, DifferentCommands
<1>13. ASSUME NEW j \in Nat
       PROVE  /\ cmd = Mame!Set(j) => mameBps' = mameBps \cup {j} /\ mameRuns' = mameRuns
              /\ cmd = Mame!Clear(j) => mameBps' = mameBps \ {j} /\ mameRuns' = mameRuns
  <2>1. cmd = Mame!Set(j) => cmd[1] = "Z1" /\ cmd[2] = j /\ cmd # Mame!Go /\ cmd # Mame!Where
    BY DifferentCommands
  <2>2. cmd = Mame!Clear(j) => cmd[1] = "z1" /\ cmd[2] = j /\ cmd # Mame!Go /\ cmd # Mame!Where
    BY DifferentCommands
  <2>. QED
    BY <1>5, <2>1, <2>2
<1>14. PICK n \in Nat : n = Cardinality(bps) /\ n = Cardinality(bps')
  BY <1>2, <1>5, AllClears
<1>15. cmd # Mame!Where => script # <<>> /\ cmd = script[1]
  BY <1>2, <1>6 DEF Queued
<1>16. Phases(left, n)'
  <2>1. CASE AtRest(layout)
    <3>1. cmd = Mame!Where /\ left = "AR"
      BY <1>6, <1>7, <1>8, <1>15, <2>1, DifferentCommands DEF AtRest, Going
    <3>2. AtRest(left)'
      BY <1>5, <1>11, <2>1, <3>1 DEF AtRest, Stopping
    <3>. QED
      BY <3>2 DEF Phases
  <2>2. CASE SettingUp(layout, n)
    <3>1. /\ userState' = "running" /\ funcContinueResolve' # "none" /\ mameBps \subseteq 1..n /\ script' = script
          /\ ~mameRuns /\ layout = "none"
      BY <1>5, <1>6, <2>2 DEF SettingUp, Stopping
    <3>2. PICK j \in 1..(n + 1) : script = SetsFrom(j, n)
      BY <2>2 DEF SettingUp
    <3>3. SetsFrom(j, n)[1] = IF j = n + 1 THEN Mame!Go ELSE Mame!Set(j)
      BY ScriptTypes
    <3>4. mameBps' \subseteq 1..n /\ (mameRuns' <=> left = "A") /\ ~Stopping(left)
      <4>1. CASE cmd = Mame!Where
        BY <1>8, <1>11, <3>1, <4>1, DifferentCommands DEF Stopping
      <4>2. CASE cmd = Mame!Go
        BY <1>8, <1>12, <3>1, <4>2 DEF Stopping
      <4>3. CASE cmd # Mame!Where /\ cmd # Mame!Go
        <5>1. cmd = Mame!Set(j) /\ j \in 1..n /\ j \in Nat
          BY <1>15, <3>2, <3>3, <4>3
        <5>2. mameBps' = mameBps \cup {j} /\ mameRuns' = mameRuns
          BY <1>13, <5>1
        <5>3. left = "AR"
          BY <1>8, <3>1, <4>3
        <5>. QED
          BY <3>1, <5>1, <5>2, <5>3 DEF Stopping
      <4>. QED
        BY <4>1, <4>2, <4>3
    <3>5. SettingUp(left, n)'
      BY <3>1, <3>2, <3>4 DEF SettingUp, SetsFrom, Mame!Set, Mame!Go, Stopping
    <3>. QED
      BY <3>5 DEF Phases
  <2>3. CASE Going(layout, n)
    <3>1. cmd = Mame!Where
      BY <1>15, <2>3 DEF Going
    <3>2. left = "TAR"
      BY <1>6, <1>8, <2>3, <3>1, DifferentCommands DEF Going, Stopping
    <3>3. Going(left, n)'
      BY <1>5, <1>11, <2>3, <3>1, <3>2 DEF Going, Stopping
    <3>. QED
      BY <3>3 DEF Phases
  <2>4. CASE Removing(layout, n)
    <3>1. /\ userState' = "running" /\ funcContinueResolve' = "none" /\ ~mameRuns /\ script' = script /\ layout = "none"
      BY <1>5, <1>6, <2>4 DEF Removing, Stopping
    <3>2. PICK j \in 1..n : script = ClearsFrom(j, n) /\ mameBps \subseteq j..n
      BY <2>4 DEF Removing
    <3>3. j \in Nat /\ j \in 1..(n + 1) /\ j <= n
      OBVIOUS
    <3>4. ClearsFrom(j, n)[1] = Mame!Clear(j) /\ Mame!Clear(j) # Mame!Where /\ Mame!Clear(j) # Mame!Go
      BY <3>3, ScriptTypes, DifferentCommands
    <3>5. /\ mameBps' \subseteq j..n /\ ~mameRuns' /\ left = "AR"
          /\ messageQueue'[1] = Mame!Clear(j) => j \notin mameBps'
      <4>1. CASE cmd = Mame!Where
        BY <1>5, <1>6, <1>8, <1>11, <3>1, <3>2, <3>4, <4>1, DifferentCommands
      <4>2. CASE cmd # Mame!Where
        <5>1. cmd = Mame!Clear(j)
          BY <1>15, <3>2, <3>4, <4>2
        <5>2. mameBps' = mameBps \ {j} /\ mameRuns' = mameRuns
          BY <1>13, <3>3, <5>1
        <5>. QED
          BY <1>8, <3>1, <3>2, <3>4, <4>2, <5>1, <5>2
      <4>. QED
        BY <4>1, <4>2
    <3>6. ~Stopping(left)
      BY <3>5 DEF Stopping
    <3>7. Removing(left, n)'
      BY <3>1, <3>2, <3>5, <3>6 DEF Removing, Stopping, ClearsFrom, Mame!Clear
    <3>. QED
      BY <3>7 DEF Phases
  <2>. QED
    BY <1>1, <1>14, <2>1, <2>2, <2>3, <2>4 DEF Phases
<1>17. MameTypes' /\ Queued'
  <2>1. mameRuns' \in BOOLEAN
    BY <1>2, <1>5
  <2>2. Queued'
    BY <1>2, <1>5 DEF Queued
  <2>. QED
    BY <1>2, <1>5, <1>9, <2>1, <2>2 DEF MameTypes
<1>18. Phases(left, Cardinality(bps))'
  BY <1>14, <1>16
<1>. QED
  BY <1>9, <1>10, <1>17, <1>18 DEF MameInv

LEMMA UnchangedMame ==
  ASSUME MameInv, UNCHANGED mameVars
  PROVE  MameInv'
<1>1. /\ UNCHANGED <<messageQueue, mameData, funcContinueResolve, script, bps, userState, toMame, fromMame>>
      /\ UNCHANGED <<mameRuns, mameBps>>
  BY DEF mameVars
<1>2. PICK layout \in Layouts : /\ Pieces(layout, mameData \o fromMame) /\ OnItsWay(layout)
                                /\ Phases(layout, Cardinality(bps))
  BY DEF MameInv
<1>3. MameTypes' /\ Queued'
  BY <1>1 DEF MameInv, MameTypes, Queued
<1>4. OnItsWay(layout)'
  BY <1>1, <1>2 DEF OnItsWay
<1>5. PICK n : n = Cardinality(bps) /\ n = Cardinality(bps')
  BY <1>1
<1>6. Phases(layout, n)'
  <2>1. AtRest(layout) => AtRest(layout)'
    BY <1>1 DEF AtRest, Stopping
  <2>2. SettingUp(layout, n) => SettingUp(layout, n)'
    BY <1>1 DEF SettingUp, SetsFrom, Mame!Set, Mame!Go, Stopping
  <2>3. Going(layout, n) => Going(layout, n)'
    BY <1>1 DEF Going, Stopping
  <2>4. Removing(layout, n) => Removing(layout, n)'
    BY <1>1 DEF Removing, ClearsFrom, Mame!Clear, Stopping
  <2>. QED
    BY <1>2, <1>5, <2>1, <2>2, <2>3, <2>4 DEF Phases
<1>7. Pieces(layout, mameData' \o fromMame') /\ Phases(layout, Cardinality(bps))'
  BY <1>1, <1>2, <1>5, <1>6
<1>. QED
  BY <1>3, <1>4, <1>7 DEF MameInv

LEMMA InitMame ==
  ASSUME Mame!Init
  PROVE  MameInv
<1>1. /\ messageQueue = <<>> /\ script = <<>> /\ mameData = <<>> /\ fromMame = <<>> /\ toMame = <<>>
      /\ bps = {} /\ mameRuns = FALSE /\ mameBps = {} /\ userState = "stopped" /\ funcContinueResolve = "none"
  BY DEF Mame!Init
<1>2. IsFiniteSet(bps)
  BY <1>1, FS_EmptySet
<1>3. MameTypes /\ Queued
  <2>1. <<>> \in Seq(Commands) /\ <<>> \in Seq(Piece) /\ Len(<<>>) = 0
    OBVIOUS
  <2>2. MameTypes
    BY <1>1, <1>2, <2>1 DEF MameTypes
  <2>3. Queued
    BY <1>1, <2>1 DEF Queued
  <2>. QED
    BY <2>2, <2>3
<1>4. "none" \in Layouts /\ Pieces("none", mameData \o fromMame)
  BY <1>1 DEF Layouts, Pieces
<1>5. OnItsWay("none") /\ AtRest("none")
  BY <1>1 DEF OnItsWay, AtRest, Stopping
<1>. QED
  BY <1>3, <1>4, <1>5 DEF MameInv, Phases

LEMMA OnlyMame ==
  [MCNext]_<<part, allVars, socketQueueVars, dzrpVars, mameVars>> => [Mame!Next]_mameVars
BY Zenon DEF MCNext

LEMMA MameInductive == MCSpec => []MameInv
<1>1. MCInit => MameInv
  BY InitMame DEF MCInit
<1>2. MameInv /\ [MCNext]_<<part, allVars, socketQueueVars, dzrpVars, mameVars>> => MameInv'
  <2>. SUFFICES ASSUME MameInv, [Mame!Next]_mameVars PROVE MameInv'
    BY OnlyMame
  <2>1. ASSUME NEW addrs \in {{}, {1}, {1, 2}}, Mame!sendDzrpCmdContinue(addrs) PROVE MameInv'
    BY <2>1, ContinueMame
  <2>2. ASSUME Mame!sendDzrpCmdPause PROVE MameInv'
    BY <2>2, PauseMame
  <2>3. ASSUME NEW n \in DOMAIN fromMame, Mame!Data(n) PROVE MameInv'
    BY <2>3, DataMame
  <2>4. ASSUME Mame!MameReceives PROVE MameInv'
    BY <2>4, ReceiveMame
  <2>5. ASSUME Mame!MameBreaks PROVE MameInv'
    BY <2>5, BreakMame
  <2>6. ASSUME UNCHANGED mameVars PROVE MameInv'
    BY <2>6, UnchangedMame
  <2>. QED
    BY <2>1, <2>2, <2>3, <2>4, <2>5, <2>6 DEF Mame!Next
<1>. QED
  BY <1>1, <1>2, PTL DEF MCSpec

(* When the user is told of a stop MAME has stopped and has none of the    *)
(* temporary breakpoints, and the protocol is never mistaken: for packets  *)
(* that come in pieces or glued together, and any number of continues and  *)
(* pauses.  dataReceived, sendDzrpCmdContinue.                             *)
THEOREM StopsClean == MCSpec => []StoppedClean
<1>1. MameInv => StoppedClean
  <2>1. ASSUME MameInv PROVE StoppedClean
    <3>1. PICK layout \in Layouts : Phases(layout, Cardinality(bps))
      BY <2>1 DEF MameInv
    <3>. QED
      BY <3>1 DEF Phases, AtRest, SettingUp, Going, Removing, StoppedClean, Mame!StoppedClean
  <2>. QED
    BY <2>1
<1>. QED
  BY <1>1, MameInductive, PTL

===============================================================================
