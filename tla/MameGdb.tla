------------------------------- MODULE MameGdb -------------------------------
(***************************************************************************)
(* MameGdbRemote: commands are packets of the gdb protocol.  MAME answers  *)
(* each with an acknowledge and, but for the continue, a packet; a stop is *)
(* notified by a packet of its own.  The socket delivers chunks.           *)
(***************************************************************************)
EXTENDS Integers, Sequences, FiniteSets, SequencesExt

CONSTANTS MaxRuns, MaxPauses    \* bounds: continues and pauses of the user

VARIABLES
  messageQueue,         \* commands that are not answered, the first has been sent
  receivedData,
  funcContinueResolve,  \* "none", "original" or "intermediate" (removes the temporary breakpoints)
  script,               \* the commands that the continue, or the handler of its break, still sends
  bps,                  \* the temporary breakpoints of this run
  userState,            \* "stopped", "running", or "failed"
  toMame, fromMame,     \* the socket: commands, and halves of packets
  mameRuns, mameBps,    \* MAME
  runs, pauses, answers \* bounds; history of the answers: the command and what it was answered with

client == <<messageQueue, receivedData, funcContinueResolve, script, bps, userState, answers>>
vars == <<messageQueue, receivedData, funcContinueResolve, script, bps, userState,
          toMame, fromMame, mameRuns, mameBps, runs, pauses, answers>>

Set(a) == <<"Z1", a>>
Clear(a) == <<"z1", a>>
Go == <<"c", "">>
Where == <<"p0b", "">>     \* read the PC; sent behind a CTRL-C
Ack == [kind |-> "+", of |-> Go, half |-> 0]
Packet(kind, of) == <<[kind |-> kind, of |-> of, half |-> 1], [kind |-> kind, of |-> of, half |-> 2]>>
Stop == Packet("T", Go)

noReply(cmd) == cmd = Go

Init ==
  /\ messageQueue = <<>> /\ receivedData = <<>> /\ funcContinueResolve = "none"
  /\ script = <<>> /\ bps = {} /\ userState = "stopped"
  /\ toMame = <<>> /\ fromMame = <<>> /\ mameRuns = FALSE /\ mameBps = {}
  /\ runs = 0 /\ pauses = 0 /\ answers = <<>>

\* the first command of the queue is on its way
Sent(queue) == IF queue = <<>> THEN <<>> ELSE <<Head(queue)>>

\* sendPacketData
sendPacketData(cmd) ==
  /\ messageQueue' = Append(messageQueue, cmd)
  /\ toMame' = IF messageQueue = <<>> THEN Append(toMame, cmd) ELSE toMame

\* sendDzrpCmdContinue: temporary breakpoints first
sendDzrpCmdContinue(addrs) ==
  /\ userState = "stopped" /\ runs < MaxRuns /\ script = <<>>
  /\ runs' = runs + 1
  /\ bps' = addrs
  /\ userState' = "running"
  /\ LET sets == [i \in 1..Cardinality(addrs) |-> Set(i)]
     IN /\ script' = sets \o <<Go>>
        /\ funcContinueResolve' = IF sets = <<>> THEN "intermediate" ELSE "original"
  /\ sendPacketData(Head(script'))
  /\ UNCHANGED <<receivedData, fromMame, mameRuns, mameBps, pauses, answers>>

sendDzrpCmdPause ==
  /\ userState = "running" /\ pauses < MaxPauses
  /\ pauses' = pauses + 1
  /\ sendPacketData(Where)
  /\ UNCHANGED <<receivedData, funcContinueResolve, script, bps, userState, fromMame, mameRuns, mameBps, runs, answers>>

\* What is done when cmd was answered: the next command of the script is queued; behind the last
\* one of the removals the handler of the break is called.
Answered(queue, cmd) ==
  LET mine == script # <<>> /\ cmd = Head(script)
      rest == Tail(script)
      last == mine /\ rest = <<>> /\ cmd # Go
      next == IF mine /\ rest # <<>> THEN Append(queue, Head(rest)) ELSE queue
  IN /\ script' = IF mine THEN rest ELSE script
     /\ messageQueue' = next
     /\ toMame' = toMame \o Sent(next)
     /\ userState' = IF last THEN "stopped" ELSE userState
     /\ funcContinueResolve' = IF mine /\ rest = <<Go>> THEN "intermediate" ELSE funcContinueResolve

\* receivedMsg of a stop
NotifiedKept ==   \* mutant: the handler stays, the breakpoints are not removed
  /\ userState' = IF funcContinueResolve = "none" THEN userState ELSE "stopped"
  /\ UNCHANGED <<funcContinueResolve, script, messageQueue, toMame>>

\* the handler of a break: the commands that remove the temporary breakpoints
clears == [i \in 1..Cardinality(bps) |-> Clear(i)]

Notified ==
  IF funcContinueResolve = "none" THEN UNCHANGED <<funcContinueResolve, script, userState, messageQueue, toMame>>
  ELSE /\ funcContinueResolve' = "none"
       /\ IF clears = <<>> THEN userState' = "stopped" /\ UNCHANGED <<script, messageQueue, toMame>>
          ELSE script' = clears /\ sendPacketData(Head(clears)) /\ UNCHANGED userState

\* mutant: what is left behind a packet is dropped
dataReceivedDropping(data) ==
  LET all    == receivedData \o data
      acked  == IF Head(all).kind = "+" THEN Tail(all) ELSE all
      go     == messageQueue # <<>> /\ noReply(Head(messageQueue))
  IN /\ receivedData' = <<>>
     /\ IF go THEN Answered(Tail(messageQueue), Head(messageQueue)) /\ UNCHANGED answers
        ELSE IF Len(acked) < 2 THEN UNCHANGED <<script, messageQueue, toMame, userState, funcContinueResolve, answers>>
        ELSE IF acked[1].kind = "T" THEN Notified /\ UNCHANGED answers
        ELSE /\ Answered(Tail(messageQueue), Head(messageQueue))
             /\ answers' = Append(answers, <<Head(messageQueue), acked[1].of>>)
     /\ UNCHANGED bps

\* dataReceived: an acknowledge is taken off; it answers a continue.  Then one packet is taken, if
\* it is complete.  What follows it waits for the next data.
dataReceived(data) ==
  LET all      == receivedData \o data
      acked    == IF Head(all).kind = "+" THEN Tail(all) ELSE all
      go       == messageQueue # <<>> /\ noReply(Head(messageQueue))
      complete == Len(acked) >= 2 /\ acked[1].half = 1
      wrong    == acked # <<>> /\ acked[1].half # 1
      packet   == acked[1]
  IN /\ receivedData' = IF wrong THEN <<>> ELSE IF complete THEN SubSeq(acked, 3, Len(acked)) ELSE acked
     /\ CASE wrong -> /\ userState' = "failed"
                      /\ UNCHANGED <<script, messageQueue, toMame, funcContinueResolve, answers>>
          [] ~wrong /\ go /\ ~complete -> Answered(Tail(messageQueue), Head(messageQueue)) /\ UNCHANGED answers
          [] ~wrong /\ go /\ complete  ->
               \* the acknowledge and the stop in one chunk
               /\ packet.kind = "T"
               /\ funcContinueResolve' = "none" /\ UNCHANGED answers
               /\ LET queue == Tail(messageQueue) \o (IF clears = <<>> THEN <<>> ELSE <<Head(clears)>>)
                  IN /\ script' = clears
                     /\ messageQueue' = queue
                     /\ toMame' = toMame \o Sent(queue)
                     /\ userState' = IF clears = <<>> THEN "stopped" ELSE userState
          [] ~wrong /\ ~go /\ complete /\ packet.kind = "T" -> Notified /\ UNCHANGED answers
          [] ~wrong /\ ~go /\ complete /\ packet.kind = "R" ->
               IF messageQueue = <<>>
               THEN userState' = "failed" /\ UNCHANGED <<script, messageQueue, toMame, funcContinueResolve, answers>>
               ELSE /\ Answered(Tail(messageQueue), Head(messageQueue))
                    /\ answers' = Append(answers, <<Head(messageQueue), packet.of>>)
          [] OTHER -> UNCHANGED <<script, messageQueue, toMame, userState, funcContinueResolve, answers>>
     /\ UNCHANGED bps

\* a chunk ends anywhere: within a packet, or with several of them glued together
Data(n) ==
  /\ userState # "failed"
  /\ n \in 1..Len(fromMame)
  /\ fromMame' = SubSeq(fromMame, n + 1, Len(fromMame))
  /\ dataReceived(SubSeq(fromMame, 1, n))
  /\ UNCHANGED <<mameRuns, mameBps, runs, pauses>>

------------------------------------------------------------------------------
(* MAME                                                                     *)

MameReceives ==
  /\ toMame # <<>>
  /\ toMame' = Tail(toMame)
  /\ LET cmd == Head(toMame)
     IN /\ mameBps' = CASE cmd[1] = "Z1" -> mameBps \cup {cmd[2]}
                        [] cmd[1] = "z1" -> mameBps \ {cmd[2]}
                        [] OTHER         -> mameBps
        /\ mameRuns' = CASE cmd = Go -> TRUE [] cmd = Where -> FALSE [] OTHER -> mameRuns
        /\ fromMame' = fromMame
                         \o (IF cmd = Where /\ mameRuns THEN Stop ELSE <<>>)
                         \o <<Ack>> \o (IF cmd = Go THEN <<>> ELSE Packet("R", cmd))
  /\ UNCHANGED <<client, runs, pauses>>

MameBreaks ==
  /\ mameRuns
  /\ mameRuns' = FALSE
  /\ fromMame' = fromMame \o Stop
  /\ UNCHANGED <<client, toMame, mameBps, runs, pauses>>

Next ==
  \/ \E addrs \in {{}, {1}, {1, 2}} : sendDzrpCmdContinue(addrs)
  \/ sendDzrpCmdPause
  \/ \E n \in DOMAIN fromMame : Data(n)
  \/ MameReceives
  \/ MameBreaks

\* The network delivers, MAME answers.  Nothing makes MAME break.
Fairness == WF_vars(\E n \in DOMAIN fromMame : Data(n)) /\ WF_vars(MameReceives)

Spec == Init /\ [][Next]_vars /\ Fairness

------------------------------------------------------------------------------
\* A command is answered with what MAME replied to it, also when a break is notified in between.
OwnAnswer == \A i \in DOMAIN answers : answers[i][1] = answers[i][2]

\* When the user is told of a stop MAME has stopped and has none of the temporary breakpoints, and the
\* protocol is never mistaken.
StoppedClean == /\ userState = "stopped" /\ script = <<>> => ~mameRuns /\ mameBps = {}
                /\ userState # "failed"

\* A call of dataReceived takes one packet.  What was glued to it stays in receivedData, and when
\* nothing more is on its way nobody looks at it.
Asleep ==
  /\ toMame = <<>> /\ fromMame = <<>>
  /\ \E i \in {1, 2} : i < Len(receivedData) /\ receivedData[i].half = 1

\* Every command is answered, and a stop that MAME has notified is told to the user.  Glued packets
\* may delay this until there are more data, but they are never lost.
EveryCommandAnswered == messageQueue # <<>> ~> messageQueue = <<>> \/ Asleep
StopIsTold == (\E i \in DOMAIN fromMame : fromMame[i].kind = "T") ~> userState = "stopped" \/ Asleep
==============================================================================
