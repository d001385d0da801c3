---------------------------- MODULE ZesaruxSocket ----------------------------
(***************************************************************************)
(* The command queue of a connected ZesaruxSocket.  A line that is written *)
(* to ZEsarUX is answered with a text and a prompt; answers carry no       *)
(* number, the oldest command of the queue gets the next one.  'run' is    *)
(* special: it is not in the queue, it says "Running until" at once and    *)
(* ends only at a breakpoint or when something is written.  A command that *)
(* comes in meanwhile interrupts it with a blank line, and run is written  *)
(* again when the queue is empty.                                          *)
(***************************************************************************)
EXTENDS Integers, Sequences, FiniteSets, SequencesExt

CONSTANTS
  MaxCmds,     \* bound: the calls of send
  MaxRuns,     \* bound: the calls of sendInterruptableRunCmd
  MaxPauses    \* bound: the calls of sendBlank

VARIABLES
  crossing,                         \* the environment: events that end a run may cross on the wire
  queue,                            \* commands, head first; Blank is the interrupting one
  interruptableRunCmd,              \* the run that has not returned, or NoRun
  interruptableRunCmdCriticalPhase, \* run was written, "Running until" not yet received
  receivedDataChunk,                \* what was received without a prompt
  timer,                            \* the socket's timeout is on
  lastCallQueue,                    \* somebody waits for an empty queue
  sent, runs, pauses,               \* calls so far
  answer,                           \* answer[c]: what the handler of c was called with
  runAnswer,                        \* runAnswer[r]: what the handler of run r was called with
  thrown,                           \* the assertion of receiveSocket failed (history)
  toEmu,                            \* lines on their way to ZEsarUX
  running,                          \* ZEsarUX runs the program
  fromEmu                           \* texts on their way back

queueVars == <<queue, interruptableRunCmd, interruptableRunCmdCriticalPhase, timer>>
callVars  == <<sent, runs, pauses>>
endVars   == <<receivedDataChunk, lastCallQueue, answer, runAnswer, thrown>>
emuVars   == <<running, fromEmu, crossing>>
vars      == <<queueVars, callVars, endVars, toEmu, emuVars>>

Blank   == 0
RunLine == -1
Mixed   == -2   \* the texts of several answers
NotYet  == -3
NoRun   == 0
Cmds    == 1..MaxCmds
Lines   == Cmds \cup {Blank, RunLine}
Texts   == [text : {"until", "hit", "stopped", "answer"}, of : Lines]

Text(t, line) == [text |-> t, of |-> line]
Holds(texts, t) == \E i \in DOMAIN texts : texts[i].text = t
Answers(texts) == {i \in DOMAIN texts : texts[i].text # "until"}

Init ==
  /\ crossing \in BOOLEAN
  /\ queue = <<>>
  /\ interruptableRunCmd = NoRun
  /\ interruptableRunCmdCriticalPhase = FALSE
  /\ receivedDataChunk = <<>>
  /\ timer = FALSE
  /\ lastCallQueue = FALSE
  /\ sent = 0 /\ runs = 0 /\ pauses = 0
  /\ answer = [c \in Cmds |-> NotYet]
  /\ runAnswer = [r \in 1..MaxRuns |-> NotYet]
  /\ thrown = FALSE
  /\ toEmu = <<>>
  /\ running = FALSE
  /\ fromEmu = <<>>

(* Without crossing nothing else ends a run while one thing already does.  *)
RunEnds == Blank \in ToSet(toEmu) \/ Holds(fromEmu, "hit") \/ Holds(fromEmu, "stopped")
Alone   == crossing \/ interruptableRunCmd = NoRun \/ ~RunEnds

(* sendSocketCmd                                                           *)
sendSocketCmdUntimed(line) ==   \* mutant: the timeout is switched off for every line
  /\ toEmu' = Append(toEmu, line)
  /\ timer' = FALSE
  /\ interruptableRunCmdCriticalPhase' = (line = RunLine)

sendSocketCmdCritical(line) ==   \* mutant: every line starts the critical phase
  /\ toEmu' = Append(toEmu, line)
  /\ timer' = (line # RunLine)
  /\ interruptableRunCmdCriticalPhase' = TRUE

sendSocketCmd(line) ==
  /\ toEmu' = Append(toEmu, line)
  /\ timer' = (line # RunLine)
  /\ interruptableRunCmdCriticalPhase' = (line = RunLine)

(* The queue becomes q and its head is written; a blank line goes first if *)
(* a run is to be interrupted.                                             *)
InterruptPushed(q) ==   \* mutant: the blank line is queued behind the commands
  /\ queue' = q \o <<Blank>>
  /\ sendSocketCmd(Blank)

Interrupt(q) ==
  /\ queue' = <<Blank>> \o q
  /\ sendSocketCmd(Blank)

sendAnytime(c) ==   \* mutant: the critical phase is not respected
  IF queue = <<>>
  THEN IF interruptableRunCmd # NoRun THEN Interrupt(<<c>>)
       ELSE queue' = <<c>> /\ sendSocketCmd(c)
  ELSE /\ queue' = Append(queue, c)
       /\ UNCHANGED <<toEmu, timer, interruptableRunCmdCriticalPhase>>

Enqueue(c) ==
  IF queue = <<>> /\ ~interruptableRunCmdCriticalPhase
  THEN IF interruptableRunCmd # NoRun THEN Interrupt(<<c>>)
       ELSE queue' = <<c>> /\ sendSocketCmd(c)
  ELSE /\ queue' = Append(queue, c)
       /\ UNCHANGED <<toEmu, timer, interruptableRunCmdCriticalPhase>>

send ==
  /\ sent < MaxCmds
  /\ Alone \/ queue # <<>>
  /\ sent' = sent + 1
  /\ Enqueue(sent')
  /\ UNCHANGED <<interruptableRunCmd, runs, pauses>>
  /\ UNCHANGED <<endVars, emuVars>>

sendInterruptableRunCmd ==
  /\ interruptableRunCmd = NoRun
  /\ runs < MaxRuns
  /\ runs' = runs + 1
  /\ interruptableRunCmd' = runs'
  /\ IF queue = <<>> THEN sendSocketCmd(RunLine)
                     ELSE UNCHANGED <<toEmu, timer, interruptableRunCmdCriticalPhase>>
  /\ UNCHANGED <<queue, sent, pauses>>
  /\ UNCHANGED <<endVars, emuVars>>

(* The pause button.                                                       *)
sendBlank ==
  /\ interruptableRunCmd # NoRun
  /\ pauses < MaxPauses
  /\ crossing \/ (running /\ queue = <<>> /\ ~RunEnds /\ ~interruptableRunCmdCriticalPhase)
  /\ pauses' = pauses + 1
  /\ toEmu' = Append(toEmu, Blank)
  /\ UNCHANGED <<queueVars, sent, runs>>
  /\ UNCHANGED <<endVars, emuVars>>

executeWhenQueueIsEmpty ==
  /\ queue # <<>>
  /\ lastCallQueue' = TRUE
  /\ UNCHANGED <<queueVars, callVars, receivedDataChunk, answer, runAnswer, thrown>>
  /\ UNCHANGED <<toEmu, emuVars>>

-----------------------------------------------------------------------------
(* receiveSocket, with everything received so far that ended in no prompt. *)

(* In the critical phase the first line has to be "Running until".         *)
AssertionFails(texts) ==
  /\ interruptableRunCmdCriticalPhase
  /\ Head(texts).text # "until"
  /\ interruptableRunCmdCriticalPhase' = FALSE
  /\ thrown' = TRUE
  /\ receivedDataChunk' = texts
  /\ UNCHANGED <<queue, interruptableRunCmd, timer, lastCallQueue, answer, runAnswer, toEmu>>

(* ... and ends it: commands that came in meanwhile interrupt the run now. *)
RunStartedQuietly(texts) ==   \* mutant: the waiting commands are forgotten
  /\ interruptableRunCmdCriticalPhase
  /\ Len(texts) = 1 /\ Head(texts).text = "until"
  /\ receivedDataChunk' = <<>>
  /\ interruptableRunCmdCriticalPhase' = FALSE
  /\ UNCHANGED <<queue, toEmu, timer>>
  /\ UNCHANGED <<interruptableRunCmd, lastCallQueue, answer, runAnswer, thrown>>

RunStarted(texts) ==
  /\ interruptableRunCmdCriticalPhase
  /\ Len(texts) = 1 /\ Head(texts).text = "until"
  /\ receivedDataChunk' = <<>>
  /\ IF queue # <<>> THEN Interrupt(queue)
     ELSE /\ interruptableRunCmdCriticalPhase' = FALSE
          /\ UNCHANGED <<queue, toEmu, timer>>
  /\ UNCHANGED <<interruptableRunCmd, lastCallQueue, answer, runAnswer, thrown>>

NoPrompt(texts) ==
  /\ ~interruptableRunCmdCriticalPhase
  /\ Last(texts).text = "until"
  /\ receivedDataChunk' = texts
  /\ UNCHANGED <<queueVars, lastCallQueue, answer, runAnswer, thrown, toEmu>>

Prompt(texts) ==
  /\ interruptableRunCmdCriticalPhase => Head(texts).text = "until"
  /\ Last(texts).text # "until"
  /\ receivedDataChunk' = <<>>
  /\ UNCHANGED thrown

Answered(texts) ==
  LET answers == Answers(texts)
  IN  IF \A i, j \in answers : i = j THEN texts[CHOOSE i \in answers : TRUE].of ELSE Mixed

(* The prompt removes the oldest command; the next one is written, and     *)
(* with an empty queue the interrupted run.                                *)
sendNext(rest, run) ==
  /\ queue' = rest
  /\ IF rest # <<>> THEN sendSocketCmd(Head(rest))
     ELSE IF run # NoRun THEN sendSocketCmd(RunLine)
     ELSE /\ timer' = FALSE
          /\ interruptableRunCmdCriticalPhase' = FALSE
          /\ UNCHANGED toEmu

Rest == IF queue = <<>> THEN <<>> ELSE Tail(queue)

(* The run returned by itself, or by the pause button.                     *)
RunReturns(texts, data) ==
  /\ Prompt(texts)
  /\ interruptableRunCmd # NoRun
  /\ queue = <<>> \/ Holds(data, "hit")
  /\ runAnswer' = [runAnswer EXCEPT ![interruptableRunCmd] = Answered(texts)]
  /\ interruptableRunCmd' = NoRun
  /\ sendNext(Rest, NoRun)
  /\ UNCHANGED <<lastCallQueue, answer>>

CommandReturnsForgetting(texts, data) ==   \* mutant: run and waiting callers are forgotten
  /\ Prompt(texts)
  /\ interruptableRunCmd = NoRun \/ ~(queue = <<>> \/ Holds(data, "hit"))
  /\ answer' = IF queue = <<>> \/ Head(queue) = Blank THEN answer
               ELSE [answer EXCEPT ![Head(queue)] = Answered(texts)]
  /\ sendNext(Rest, NoRun)
  /\ UNCHANGED <<interruptableRunCmd, runAnswer, lastCallQueue>>

CommandReturns(texts, data) ==
  /\ Prompt(texts)
  /\ interruptableRunCmd = NoRun \/ ~(queue = <<>> \/ Holds(data, "hit"))
  /\ answer' = IF queue = <<>> \/ Head(queue) = Blank THEN answer
               ELSE [answer EXCEPT ![Head(queue)] = Answered(texts)]
  /\ sendNext(Rest, interruptableRunCmd)
  /\ lastCallQueue' = (lastCallQueue /\ Rest # <<>>)
  /\ UNCHANGED <<interruptableRunCmd, runAnswer>>

receiveSocket(k) ==
  LET data  == SubSeq(fromEmu, 1, k)
      texts == receivedDataChunk \o data
  IN  /\ \/ AssertionFails(texts)
         \/ RunStarted(texts)
         \/ NoPrompt(texts)
         \/ RunReturns(texts, data)
         \/ CommandReturns(texts, data)
      /\ fromEmu' = SubSeq(fromEmu, k + 1, Len(fromEmu))
      /\ UNCHANGED <<callVars, running, crossing>>

-----------------------------------------------------------------------------
(* ZEsarUX (external): anything that is written ends a run and is gone.    *)
EmuLine ==
  /\ toEmu # <<>>
  /\ toEmu' = Tail(toEmu)
  /\ running' = (~running /\ Head(toEmu) = RunLine)
  /\ fromEmu' = Append(fromEmu, IF running THEN Text("stopped", RunLine)
                                ELSE IF Head(toEmu) = RunLine THEN Text("until", RunLine)
                                ELSE Text("answer", Head(toEmu)))
  /\ UNCHANGED <<queueVars, callVars, endVars, crossing>>

EmuHit ==
  /\ running
  /\ crossing \/ (toEmu = <<>> /\ queue = <<>>)
  /\ running' = FALSE
  /\ fromEmu' = Append(fromEmu, Text("hit", RunLine))
  /\ UNCHANGED <<queueVars, callVars, endVars, toEmu, crossing>>

Receive == \E k \in 1..Len(fromEmu) : receiveSocket(k)

Next ==
  \/ send
  \/ sendInterruptableRunCmd
  \/ sendBlank
  \/ executeWhenQueueIsEmpty
  \/ Receive
  \/ EmuLine
  \/ EmuHit

Spec == Init /\ [][Next]_vars

(* Data is delivered and ZEsarUX reads its socket.                         *)
FairSpec == Spec /\ WF_vars(Receive) /\ WF_vars(EmuLine)

-----------------------------------------------------------------------------
TypeOK ==
  /\ queue \in Seq(Cmds \cup {Blank})
  /\ interruptableRunCmd \in 0..runs
  /\ interruptableRunCmdCriticalPhase => interruptableRunCmd # NoRun
  /\ receivedDataChunk \in Seq(Texts)
  /\ {timer, lastCallQueue, thrown, running, crossing} \subseteq BOOLEAN
  /\ answer \in [Cmds -> Lines \cup {Mixed, NotYet}]
  /\ runAnswer \in [1..MaxRuns -> Lines \cup {Mixed, NotYet}]
  /\ toEmu \in Seq(Lines)
  /\ fromEmu \in Seq(Texts)

(* The handler of a command is called with the answer to this command, and *)
(* that of a run with the end of the run, however often the run was        *)
(* interrupted in between.                                                 *)
OwnAnswer ==
  ~crossing => /\ \A c \in Cmds : answer[c] \in {NotYet, c}
               /\ \A r \in 1..MaxRuns : runAnswer[r] \in {NotYet, RunLine}

(* No command is written while ZEsarUX is busy with another one, and none  *)
(* reaches it while it runs the program: a blank line has ended the run,   *)
(* and one that has been written is left alone until it has said that it   *)
(* is running.                                                             *)
OneByOne ==
  ~crossing =>
    /\ Len(toEmu) <= 1 /\ \A i, j \in Answers(fromEmu) : i = j
    /\ toEmu # <<>> => Answers(fromEmu) = {}
    /\ running => ToSet(toEmu) \subseteq {Blank}
    /\ Blank \in ToSet(toEmu) => ~Holds(fromEmu, "until") /\ running

(* While a command waits, either the socket's timeout watches over it or   *)
(* "Running until" is due; the timeout never strikes an idle socket, and   *)
(* who waits for an empty queue is not forgotten.                          *)
WaitingIsTimed ==
  ~crossing =>
    /\ queue # <<>> /\ ~interruptableRunCmdCriticalPhase => timer
    /\ timer \/ lastCallQueue => queue # <<>>

(* Whatever crosses on the wire, at most one interruption is under way, it *)
(* is the next to be answered, and there is a run to be continued after it;*)
(* no run is interrupted in its critical phase.                            *)
InterruptHasRun ==
  \A i \in DOMAIN queue : queue[i] = Blank =>
    i = 1 /\ interruptableRunCmd # NoRun /\ ~interruptableRunCmdCriticalPhase

(* Every command is answered.                                              *)
EveryCommandAnswered ==
  \A c \in Cmds : (c <= sent /\ ~crossing) ~> (answer[c] # NotYet)

(* A run that commands have interrupted goes on, until it returns.         *)
RunGoesOn ==
  \A r \in 1..MaxRuns :
    (interruptableRunCmd = r /\ ~crossing) ~> (running \/ runAnswer[r] # NotYet)

(* Violated: "After the message is executed the 'handler' is called", in   *)
(* the order of the calls.  When the run hits a breakpoint before "Running *)
(* until" was received, the command that waits for the end of the critical *)
(* phase is taken for the interruption: it is never sent nor answered.     *)
CalledInOrder ==
  \A c, d \in Cmds : c < d /\ answer[d] # NotYet => answer[c] # NotYet
=============================================================================
