------------------------------ MODULE DzrpQueue ------------------------------
(***************************************************************************)
(* The command queue between the debug adapter and a DZRP remote           *)
(* (DzrpQueuedRemote and the receiving half of DzrpBufferRemote).          *)
(*                                                                         *)
(* A call of sendDzrpCmd creates a promise and a buffer with the next      *)
(* sequence number and pushes it on messageQueue.  Only the head of the    *)
(* queue is ever written to the transport.  A response with the head's     *)
(* sequence number, or the response timer, removes the head, writes the    *)
(* next message and settles the promise once that write has called back.   *)
(*                                                                         *)
(* A command is identified by the number of its call.  The remote (an      *)
(* emulator at the other end of a socket) handles the commands it receives *)
(* in order, or ignores them ("not able to receive anything at all").      *)
(***************************************************************************)
EXTENDS Integers, Sequences

CONSTANTS
  MaxCmds,      \* bound: the number of sendDzrpCmd calls
  SeqMax,       \* the last sequence number (255 in the code)
  Lossy,        \* whether the remote may ignore a command
  WritesFail    \* whether sendBuffer may reject (MAME: yes, CSpect: no)

ASSUME QueueAssumption ==
  /\ MaxCmds \in Nat
  /\ SeqMax \in Nat \ {0}
  /\ Lossy \in BOOLEAN
  /\ WritesFail \in BOOLEAN

VARIABLES
  submitted,        \* the number of sendDzrpCmd calls so far
  sequenceNumber,   \* the last sequence number given out
  seqno,            \* seqno[c]: byte 4 of the buffer of command c
  messageQueue,     \* the commands waiting for their response, head first
  timer,            \* cmdRespTimeoutHandle is set
  writes,           \* writes that have not called back, and what awaits them
  wire,             \* commands on their way to the remote
  executed,         \* the commands the remote has carried out (history)
  replies,          \* responses on their way back
  received,         \* receivedData: complete responses not yet consumed
  parsing,          \* dataReceived is running (nothing else can run)
  outcome           \* outcome[c]: how the promise of command c is settled

clientVars == <<submitted, sequenceNumber, seqno, messageQueue, timer, writes,
                received, parsing, outcome>>
remoteVars == <<wire, executed, replies>>
vars == <<submitted, sequenceNumber, seqno, messageQueue, timer, writes,
          wire, executed, replies, received, parsing, outcome>>

Cmds == 1..MaxCmds

Pending     == [kind |-> "pending",  of |-> 0]
Rejected    == [kind |-> "rejected", of |-> 0]
Resolved(r) == [kind |-> "resolved", of |-> r]  \* with the response to command r
Outcomes    == {Pending, Rejected} \cup {Resolved(r) : r \in Cmds}

(* What runs after "await this.sendNextMessage()": the promise of cmd is   *)
(* settled with "as".  Nothing is a call that nobody continues after.      *)
Continuation(c, o) == [cmd |-> c, as |-> o]
Nothing            == Continuation(0, Pending)
Continuations      == {Nothing} \cup [cmd : Cmds, as : Outcomes \ {Pending}]

(* resolve or reject of a promise: only the first call has an effect.      *)
SettleTwice(out, k) ==   \* mutant: a later call wins
  IF k # Nothing THEN [out EXCEPT ![k.cmd] = k.as] ELSE out

Settle(out, k) ==
  IF k # Nothing /\ out[k.cmd] = Pending THEN [out EXCEPT ![k.cmd] = k.as] ELSE out

NextSeqNoUnwrapped(s) == s + 1   \* mutant: the byte is never wrapped

NextSeqNo(s) == IF s + 1 > SeqMax THEN 1 ELSE s + 1

-----------------------------------------------------------------------------
Init ==
  /\ submitted = 0
  /\ sequenceNumber = 0
  /\ seqno = [c \in Cmds |-> 0]
  /\ messageQueue = <<>>
  /\ timer = FALSE
  /\ writes = <<>>
  /\ wire = <<>>
  /\ executed = <<>>
  /\ replies = <<>>
  /\ received = <<>>
  /\ parsing = FALSE
  /\ outcome = [c \in Cmds |-> Pending]

(* sendNextMessage with the queue q, awaited by continuation k: the head   *)
(* is written and timed; with an empty queue it returns at once.           *)
SendNextMessageDropping(q, k) ==   \* mutant: an empty queue settles nothing
  /\ messageQueue' = q
  /\ timer' = (q # <<>>)
  /\ writes' = IF q = <<>> THEN writes
                           ELSE Append(writes, [cmd |-> Head(q), then |-> k])
  /\ outcome' = outcome

SendNextMessageTimingFirst(q, k) ==   \* mutant: the timer starts before the check
  /\ messageQueue' = q
  /\ timer' = TRUE
  /\ writes' = IF q = <<>> THEN writes
                           ELSE Append(writes, [cmd |-> Head(q), then |-> k])
  /\ outcome' = IF q = <<>> THEN Settle(outcome, k) ELSE outcome

SendNextMessage(q, k) ==
  /\ messageQueue' = q
  /\ timer' = (q # <<>>)
  /\ writes' = IF q = <<>> THEN writes
                           ELSE Append(writes, [cmd |-> Head(q), then |-> k])
  /\ outcome' = IF q = <<>> THEN Settle(outcome, k) ELSE outcome

(* sendDzrpCmd: the message is sent at once when it is alone in the queue. *)
SendDzrpCmdAlways ==   \* mutant: every call writes the head of the queue
  /\ ~parsing
  /\ submitted < MaxCmds
  /\ submitted' = submitted + 1
  /\ sequenceNumber' = NextSeqNo(sequenceNumber)
  /\ seqno' = [seqno EXCEPT ![submitted'] = sequenceNumber']
  /\ SendNextMessage(Append(messageQueue, submitted'), Nothing)
  /\ UNCHANGED <<received, parsing, remoteVars>>

SendDzrpCmd ==
  /\ ~parsing
  /\ submitted < MaxCmds
  /\ submitted' = submitted + 1
  /\ sequenceNumber' = NextSeqNo(sequenceNumber)
  /\ seqno' = [seqno EXCEPT ![submitted'] = sequenceNumber']
  /\ LET q == Append(messageQueue, submitted')
     IN  IF Len(q) = 1
         THEN SendNextMessage(q, Nothing)
         ELSE /\ messageQueue' = q
              /\ UNCHANGED <<timer, writes, outcome>>
  /\ UNCHANGED <<received, parsing, remoteVars>>

(* The transport has taken the oldest buffer: its callback runs.           *)
WriteDone ==
  /\ ~parsing
  /\ writes # <<>>
  /\ writes' = Tail(writes)
  /\ wire' = Append(wire, Head(writes).cmd)
  /\ outcome' = Settle(outcome, Head(writes).then)
  /\ UNCHANGED <<submitted, sequenceNumber, seqno, messageQueue, timer,
                 received, parsing, executed, replies>>

(* sendBuffer rejects: the catch of sendNextMessage rejects the command,   *)
(* which stays in the queue until its timer elapses.                       *)
WriteFailed ==
  /\ WritesFail
  /\ ~parsing
  /\ writes # <<>>
  /\ writes' = Tail(writes)
  /\ outcome' = Settle(Settle(outcome, Continuation(Head(writes).cmd, Rejected)),
                       Head(writes).then)
  /\ UNCHANGED <<submitted, sequenceNumber, seqno, messageQueue, timer,
                 received, parsing, remoteVars>>

(* The response timer elapses: the head is removed, the next one is sent.  *)
CmdRespTimeoutIdle ==   \* mutant: the next message is not sent
  /\ ~parsing
  /\ timer
  /\ timer' = FALSE
  /\ messageQueue' = Tail(messageQueue)
  /\ outcome' = Settle(outcome, Continuation(Head(messageQueue), Rejected))
  /\ UNCHANGED <<submitted, sequenceNumber, seqno, writes, received, parsing, remoteVars>>

CmdRespTimeout ==
  /\ ~parsing
  /\ timer
  /\ SendNextMessage(Tail(messageQueue), Continuation(Head(messageQueue), Rejected))
  /\ UNCHANGED <<submitted, sequenceNumber, seqno, received, parsing, remoteVars>>

-----------------------------------------------------------------------------
(* dataReceived: a response is appended to what an earlier exception may   *)
(* have left in receivedData; then the responses are consumed one by one.  *)
DataReceived ==
  /\ ~parsing
  /\ replies # <<>>
  /\ replies' = Tail(replies)
  /\ received' = Append(received, Head(replies))
  /\ parsing' = TRUE
  /\ UNCHANGED <<submitted, sequenceNumber, seqno, messageQueue, timer, writes,
                 outcome, wire, executed>>

(* dataReceived has come back from receivedMsg and goes on with the rest.  *)
Consumed ==
  /\ received' = Tail(received)
  /\ parsing' = (Tail(received) # <<>>)

(* The three ways through receivedMsg for a response; each of them begins  *)
(* with stopCmdRespTimeout.                                                *)

(* The assertion "Response received without request" throws: dataReceived  *)
(* is left before it drops the response from receivedData.                 *)
ResponseWithoutRequest ==
  /\ parsing
  /\ messageQueue = <<>>
  /\ timer' = FALSE
  /\ parsing' = FALSE
  /\ UNCHANGED <<submitted, sequenceNumber, seqno, messageQueue, writes,
                 received, outcome, remoteVars>>

(* The head is rejected but neither removed nor timed any more.            *)
WrongSeqNo ==
  /\ parsing
  /\ messageQueue # <<>>
  /\ seqno[Head(received)] # seqno[Head(messageQueue)]
  /\ timer' = FALSE
  /\ outcome' = Settle(outcome, Continuation(Head(messageQueue), Rejected))
  /\ Consumed
  /\ UNCHANGED <<submitted, sequenceNumber, seqno, messageQueue, writes, remoteVars>>

ResponseReceivedUnchecked ==   \* mutant: the sequence number is not compared
  /\ parsing
  /\ messageQueue # <<>>
  /\ SendNextMessage(Tail(messageQueue),
                     Continuation(Head(messageQueue), Resolved(Head(received))))
  /\ Consumed
  /\ UNCHANGED <<submitted, sequenceNumber, seqno, remoteVars>>

ResponseReceived ==
  /\ parsing
  /\ messageQueue # <<>>
  /\ seqno[Head(received)] = seqno[Head(messageQueue)]
  /\ SendNextMessage(Tail(messageQueue),
                     Continuation(Head(messageQueue), Resolved(Head(received))))
  /\ Consumed
  /\ UNCHANGED <<submitted, sequenceNumber, seqno, remoteVars>>

-----------------------------------------------------------------------------
(* The remote carries out the next command and answers, or ignores it.     *)
RemoteExecute ==
  /\ wire # <<>>
  /\ wire' = Tail(wire)
  /\ executed' = Append(executed, Head(wire))
  /\ replies' = Append(replies, Head(wire))
  /\ UNCHANGED clientVars

RemoteIgnore ==
  /\ Lossy
  /\ wire # <<>>
  /\ wire' = Tail(wire)
  /\ UNCHANGED <<executed, replies, clientVars>>

ReceivedMsg == ResponseWithoutRequest \/ WrongSeqNo \/ ResponseReceived

Next ==
  \/ SendDzrpCmd
  \/ WriteDone
  \/ WriteFailed
  \/ CmdRespTimeout
  \/ DataReceived
  \/ ReceivedMsg
  \/ RemoteExecute
  \/ RemoteIgnore

(* Timers elapse, writes call back and data events are delivered; a remote *)
(* that reads its socket gets to every command.                            *)
Fairness ==
  /\ WF_vars(WriteDone \/ WriteFailed)
  /\ WF_vars(CmdRespTimeout)
  /\ WF_vars(DataReceived)
  /\ WF_vars(ReceivedMsg)
  /\ WF_vars(RemoteExecute \/ RemoteIgnore)

Spec     == Init /\ [][Next]_vars
FairSpec == Spec /\ Fairness

-----------------------------------------------------------------------------
TypeOK ==
  /\ submitted \in 0..MaxCmds
  /\ sequenceNumber \in 0..SeqMax
  /\ seqno \in [Cmds -> 0..SeqMax]
  /\ messageQueue \in Seq(Cmds)
  /\ timer \in BOOLEAN
  /\ writes \in Seq([cmd : Cmds, then : Continuations])
  /\ wire \in Seq(Cmds)
  /\ executed \in Seq(Cmds)
  /\ replies \in Seq(Cmds)
  /\ received \in Seq(Cmds)
  /\ parsing \in BOOLEAN
  /\ outcome \in [Cmds -> Outcomes]

(* A late response is never taken for the answer to another command: a     *)
(* promise resolves with the response to its own command, or to one that   *)
(* is a whole round of sequence numbers (SeqMax calls) older.              *)
OwnResponse ==
  \A c, r \in Cmds : outcome[c] = Resolved(r) => r = c \/ c - r >= SeqMax

(* The response timer never elapses for an empty queue, where its handler  *)
(* would shift an undefined message; and while it runs the head of the     *)
(* queue is not settled yet (unless its write failed).                     *)
TimerHasMessage ==
  timer => /\ messageQueue # <<>>
           /\ WritesFail \/ outcome[Head(messageQueue)] = Pending

(* No promise is forgotten: a command that is not settled is still in the  *)
(* queue, or a write that has not called back will settle it.              *)
NoForgottenPromise ==
  \A c \in 1..submitted :
    outcome[c] = Pending =>
      \/ \E i \in 1..Len(messageQueue) : messageQueue[i] = c
      \/ \E i \in 1..Len(writes) : writes[i].then.cmd = c

(* The remote carries out each command at most once and in the order of    *)
(* the calls, whatever timed out, failed or was ignored in between.        *)
ExecutedInOrder ==
  \A i, j \in 1..Len(executed) : i < j => executed[i] < executed[j]

(* The queue implements the call-and-return service its callers rely on.   *)
Service     == INSTANCE DzrpService
                 WITH submitted <- submitted, executed <- executed, outcome <- outcome
ServiceSpec == Service!Spec

-----------------------------------------------------------------------------
(* "The 'resolve' is called when the reply is received or when a timeout    *)
(* occurs": every call of sendDzrpCmd comes back.  Violated, see README.   *)
AlwaysSettles == \A c \in Cmds : (c <= submitted) ~> (outcome[c] # Pending)

(* What the code does promise: every call comes back, whatever is ignored, *)
(* late or not written, unless a response with the wrong number has met    *)
(* the head of the queue, which then stays there, rejected and untimed.    *)
HeadRejected == messageQueue # <<>> /\ ~timer /\ outcome[Head(messageQueue)] # Pending

EveryCommandSettles ==
  \A c \in Cmds : (c <= submitted) ~> (outcome[c] # Pending \/ []HeadRejected)
=============================================================================
