--------------------------- MODULE DzrpQueueProofs ---------------------------
(***************************************************************************)
(* Proofs about the command queue, for any number of calls, any width of   *)
(* the sequence number, and a remote and a transport that may fail.        *)
(***************************************************************************)
EXTENDS DzrpQueue, SequenceTheorems, TLAPS

(* Two calls less than SeqMax apart have different sequence numbers:       *)
(* the numbers advance with the calls and wrap at most once in between.    *)
SeqNoWindow ==
  /\ \A c \in 1..submitted : seqno[c] \in 1..SeqMax
  /\ submitted > 0 => sequenceNumber = seqno[submitted]
  /\ \A c, d \in 1..submitted :
       c <= d /\ d - c < SeqMax => \/ seqno[d] - seqno[c] = d - c
                                   \/ seqno[d] - seqno[c] = d - c - SeqMax

(* The queue holds the latest calls, in their order.                       *)
QueueIsSuffix ==
  /\ Len(messageQueue) <= submitted
  /\ \A i \in 1..Len(messageQueue) :
       messageQueue[i] = submitted - Len(messageQueue) + i

(* The last command that was written.                                      *)
LastSent == IF messageQueue = <<>> THEN submitted ELSE Head(messageQueue)

(* Nothing on its way belongs to a command that was not written yet.       *)
NothingAhead ==
  /\ \A i \in 1..Len(writes)   : writes[i].cmd <= LastSent
  /\ \A i \in 1..Len(wire)     : wire[i] <= LastSent
  /\ \A i \in 1..Len(replies)  : replies[i] <= LastSent
  /\ \A i \in 1..Len(received) : received[i] <= LastSent

(* The promises that a write has still to settle: their commands have left *)
(* the queue, and OwnResponse holds of what they will be settled with.     *)
ContinuationsBehind ==
  \A i \in 1..Len(writes) :
    /\ writes[i].then.cmd <= submitted - Len(messageQueue)
    /\ \A r \in Cmds : writes[i].then.as = Resolved(r) =>
         r = writes[i].then.cmd \/ writes[i].then.cmd - r >= SeqMax

(* Only the head of the queue can be settled already, and then it has no   *)
(* timer any more.                                                         *)
QueueUnsettled ==
  \A i \in 1..Len(messageQueue) :
    i > 1 \/ (timer /\ ~WritesFail) => outcome[messageQueue[i]] = Pending

UncalledPending == \A c \in Cmds : c > submitted => outcome[c] = Pending

ParsingHasData == parsing => received # <<>>

IInv ==
  /\ TypeOK
  /\ timer => messageQueue # <<>>
  /\ ParsingHasData
  /\ SeqNoWindow
  /\ QueueIsSuffix
  /\ NothingAhead
  /\ ContinuationsBehind
  /\ QueueUnsettled
  /\ UncalledPending
  /\ OwnResponse
  /\ NoForgottenPromise

-----------------------------------------------------------------------------
(* What the operators on sequences return. *)
LEMMA TailFacts ==
  ASSUME NEW S, NEW s \in Seq(S), s # <<>>
  PROVE  /\ Head(s) \in S
         /\ Head(s) = s[1]
         /\ Tail(s) \in Seq(S)
         /\ Len(s) \in Nat \ {0}
         /\ Len(Tail(s)) = Len(s) - 1
         /\ \A i \in 1..Len(Tail(s)) : Tail(s)[i] = s[i + 1]
         /\ Tail(s) # <<>> => Len(s) > 1 /\ Head(Tail(s)) = s[2]
OBVIOUS

LEMMA AppendFacts ==
  ASSUME NEW S, NEW s \in Seq(S), NEW e \in S
  PROVE  /\ Append(s, e) \in Seq(S)
         /\ Append(s, e) # <<>>
         /\ Len(s) \in Nat
         /\ Len(Append(s, e)) = Len(s) + 1
         /\ \A i \in 1..Len(s) : Append(s, e)[i] = s[i]
         /\ Append(s, e)[Len(s) + 1] = e
         /\ Head(Append(s, e)) = IF s = <<>> THEN e ELSE Head(s)
<1>1. Head(Append(s, e)) = Append(s, e)[1]
  OBVIOUS
<1>2. s = <<>> => Len(s) = 0
  OBVIOUS
<1>3. s # <<>> => Len(s) \in Nat /\ Len(s) >= 1 /\ Head(s) = s[1]
  BY EmptySeq
<1>. QED
  BY <1>1, <1>2, <1>3

LEMMA SettleType ==
  ASSUME NEW out \in [Cmds -> Outcomes], NEW k \in Continuations
  PROVE  Settle(out, k) \in [Cmds -> Outcomes]
BY DEF Settle, Continuations, Nothing, Continuation

LEMMA ContinuationType ==
  /\ Nothing \in Continuations
  /\ \A c \in Cmds : Continuation(c, Rejected) \in Continuations
  /\ \A c, r \in Cmds : Continuation(c, Resolved(r)) \in Continuations
BY DEF Continuations, Continuation, Outcomes, Rejected, Resolved, Pending

LEMMA SendType ==
  ASSUME TypeOK, NEW q \in Seq(Cmds), NEW k \in Continuations,
         SendNextMessage(q, k)
  PROVE  /\ messageQueue' \in Seq(Cmds)
         /\ timer' \in BOOLEAN
         /\ writes' \in Seq([cmd : Cmds, then : Continuations])
         /\ outcome' \in [Cmds -> Outcomes]
<1>1. CASE q = <<>>
  BY <1>1, SettleType DEF SendNextMessage, TypeOK
<1>2. CASE q # <<>>
  <2>1. Head(q) \in Cmds
    BY <1>2, TailFacts
  <2>2. [cmd |-> Head(q), then |-> k] \in [cmd : Cmds, then : Continuations]
    BY <2>1
  <2>. QED
    BY <1>2, <2>2, AppendFacts DEF SendNextMessage, TypeOK
<1>. QED
  BY <1>1, <1>2

-----------------------------------------------------------------------------
(* The steps, action by action. *)
LEMMA InitIInv == Init => IInv
<1>. USE QueueAssumption
<1>. SUFFICES ASSUME Init PROVE IInv
  OBVIOUS
<1>1. TypeOK
  <2>1. outcome \in [Cmds -> Outcomes]
    BY DEF Init, Outcomes
  <2>2. seqno \in [Cmds -> 0..SeqMax]
    BY DEF Init
  <2>3. /\ <<>> \in Seq(Cmds)
        /\ <<>> \in Seq([cmd : Cmds, then : Continuations])
    OBVIOUS
  <2>4. submitted \in 0..MaxCmds /\ sequenceNumber \in 0..SeqMax
    BY DEF Init
  <2>. QED
    BY <2>1, <2>2, <2>3, <2>4 DEF Init, TypeOK
<1>. QED
  BY <1>1 DEF Init, IInv, ParsingHasData, SeqNoWindow, QueueIsSuffix, NothingAhead,
     ContinuationsBehind, QueueUnsettled, UncalledPending, OwnResponse,
     NoForgottenPromise, Cmds, Pending, Resolved

LEMMA DataReceivedStep == IInv /\ DataReceived => IInv'
<1>. SUFFICES ASSUME IInv, DataReceived PROVE IInv'
  OBVIOUS
<1>1. /\ Head(replies) \in Cmds
      /\ Head(replies) <= LastSent
      /\ Tail(replies) \in Seq(Cmds)
      /\ Len(Tail(replies)) = Len(replies) - 1
      /\ \A i \in 1..Len(Tail(replies)) : Tail(replies)[i] = replies[i + 1]
      /\ Len(replies) \in Nat
  BY TailFacts DEF DataReceived, IInv, TypeOK, NothingAhead
<1>2. /\ received' \in Seq(Cmds)
      /\ received' # <<>>
      /\ Len(received) \in Nat
      /\ Len(received') = Len(received) + 1
      /\ \A i \in 1..Len(received) : received'[i] = received[i]
      /\ received'[Len(received) + 1] = Head(replies)
  BY <1>1, AppendFacts DEF DataReceived, IInv, TypeOK
<1>3. TypeOK'
  BY <1>1, <1>2 DEF DataReceived, IInv, TypeOK
<1>4. ParsingHasData'
  BY <1>2 DEF ParsingHasData
<1>5. NothingAhead'
  <2>1. LastSent' = LastSent
    BY DEF DataReceived, LastSent
  <2>2. \A i \in 1..Len(replies') : replies'[i] <= LastSent
    BY <1>1 DEF DataReceived, IInv, NothingAhead
  <2>3. \A i \in 1..Len(received') : received'[i] <= LastSent
    BY <1>1, <1>2 DEF IInv, NothingAhead
  <2>. QED
    BY <2>1, <2>2, <2>3 DEF DataReceived, IInv, NothingAhead
<1>. QED
  BY <1>3, <1>4, <1>5 DEF DataReceived, IInv, SeqNoWindow, QueueIsSuffix,
     ContinuationsBehind, QueueUnsettled, UncalledPending, OwnResponse,
     NoForgottenPromise

LEMMA Types ==
  ASSUME TypeOK
  PROVE  /\ \A i \in 1..Len(writes) : /\ writes[i].cmd \in Int
                                      /\ writes[i].then \in Continuations
                                      /\ writes[i].then.cmd \in Int
         /\ \A i \in 1..Len(wire) : wire[i] \in Int
         /\ \A i \in 1..Len(replies) : replies[i] \in Int
         /\ \A i \in 1..Len(received) : received[i] \in Int
         /\ \A i \in 1..Len(messageQueue) : messageQueue[i] \in Cmds
         /\ submitted \in Int
         /\ Len(messageQueue) \in Nat
         /\ Len(writes) \in Nat
         /\ Cmds \subseteq Int
<1>1. \A k \in Continuations : k.cmd \in Int
  BY QueueAssumption DEF Continuations, Nothing, Continuation, Cmds
<1>2. Cmds \subseteq Int
  BY QueueAssumption DEF Cmds
<1>3. ASSUME NEW i \in 1..Len(writes)
      PROVE  writes[i].cmd \in Cmds /\ writes[i].then \in Continuations
  <2>1. writes[i] \in [cmd : Cmds, then : Continuations]
    BY ElementOfSeq DEF TypeOK
  <2>. QED
    BY <2>1
<1>4. /\ submitted \in Int
      /\ Len(messageQueue) \in Nat
      /\ Len(writes) \in Nat
      /\ \A i \in 1..Len(messageQueue) : messageQueue[i] \in Cmds
      /\ \A i \in 1..Len(wire) : wire[i] \in Cmds
      /\ \A i \in 1..Len(replies) : replies[i] \in Cmds
      /\ \A i \in 1..Len(received) : received[i] \in Cmds
  BY QueueAssumption DEF TypeOK
<1>. QED
  BY <1>1, <1>2, <1>3, <1>4

(* The head leaves the queue and is settled with o, as OwnResponse allows; *)
(* the next message is sent.                                               *)
LEMMA ShiftStep ==
  ASSUME IInv, messageQueue # <<>>,
         NEW o \in Outcomes \ {Pending},
         \A r \in Cmds : o = Resolved(r) =>
            r = Head(messageQueue) \/ Head(messageQueue) - r >= SeqMax,
         SendNextMessage(Tail(messageQueue), Continuation(Head(messageQueue), o)),
         UNCHANGED <<submitted, sequenceNumber, seqno, remoteVars>>,
         received' \in Seq(Cmds),
         \A i \in 1..Len(received') : received'[i] <= LastSent,
         parsing' \in BOOLEAN,
         ParsingHasData'
  PROVE  IInv'
<1>. DEFINE q == Tail(messageQueue)
            c == Head(messageQueue)
            k == Continuation(c, o)
<1>. USE QueueAssumption
<1>1. /\ c \in Cmds
      /\ c = messageQueue[1]
      /\ q \in Seq(Cmds)
      /\ Len(messageQueue) \in Nat \ {0}
      /\ Len(q) = Len(messageQueue) - 1
      /\ \A i \in 1..Len(q) : q[i] = messageQueue[i + 1]
      /\ q # <<>> => Len(messageQueue) > 1 /\ Head(q) = messageQueue[2]
  BY TailFacts DEF IInv, TypeOK
<1>2. k \in Continuations /\ k # Nothing
  BY <1>1 DEF Continuations, Continuation, Nothing, Cmds
<1>3. c = submitted - Len(messageQueue) + 1 /\ submitted \in Nat
  BY <1>1 DEF IInv, QueueIsSuffix, TypeOK
<1>4. messageQueue' = q
  BY DEF SendNextMessage
<1>5. TypeOK'
  BY <1>1, <1>2, SendType DEF IInv, TypeOK, remoteVars
<1>6. (timer => messageQueue # <<>>)'
  BY DEF SendNextMessage
<1>7. SeqNoWindow'
  BY DEF IInv, SeqNoWindow
<1>8. QueueIsSuffix'
  BY <1>1, <1>3, <1>4 DEF IInv, QueueIsSuffix
<1>9. LastSent <= LastSent' /\ LastSent = c /\ LastSent' \in Int
  <2>1. q = <<>> => LastSent' = submitted
    BY <1>4 DEF LastSent
  <2>2. q # <<>> => LastSent' = messageQueue[2]
    BY <1>1, <1>4 DEF LastSent
  <2>3. q # <<>> => messageQueue[2] = c + 1
    BY <1>1, <1>3 DEF IInv, QueueIsSuffix
  <2>4. c <= submitted
    BY <1>1, <1>3
  <2>. QED
    BY <1>1, <1>3, <2>1, <2>2, <2>3, <2>4 DEF LastSent, Cmds
<1>12. \A i \in 1..Len(received') : received'[i] \in Int
  BY Types DEF IInv
<1>10. CASE q = <<>>
  <2>1. writes' = writes /\ outcome' = Settle(outcome, k)
    BY <1>10 DEF SendNextMessage
  <2>2. outcome' = IF outcome[c] = Pending THEN [outcome EXCEPT ![c] = o] ELSE outcome
    BY <1>2, <2>1 DEF Settle, Continuation
  <2>3. NothingAhead'
    <3>1. \A n \in Int : n <= LastSent => n <= LastSent'
      BY <1>1, <1>9, Types DEF IInv
    <3>2. \A i \in 1..Len(writes') : writes'[i].cmd <= LastSent'
      BY <2>1, <3>1, Types DEF IInv, NothingAhead
    <3>3. \A i \in 1..Len(received') : received'[i] <= LastSent'
      BY <3>1, <1>12
    <3>. QED
      BY <3>1, <3>2, <3>3, Types DEF IInv, NothingAhead, remoteVars
  <2>4. ContinuationsBehind'
    BY <1>1, <1>4, <2>1, Types DEF IInv, ContinuationsBehind
  <2>5. QueueUnsettled'
    <3>1. Len(messageQueue') = 0
      BY <1>4, <1>10
    <3>. QED
      BY <3>1 DEF QueueUnsettled
  <2>6. UncalledPending'
    BY <1>1, <1>3, <2>2 DEF IInv, UncalledPending, TypeOK
  <2>7. OwnResponse'
    BY <1>1, <2>2 DEF IInv, OwnResponse, TypeOK
  <2>8. NoForgottenPromise'
    <3>1. Len(messageQueue) = 1
      <4>. HIDE DEF q
      <4>1. Len(q) = 0
        BY <1>10
      <4>. QED
        BY <4>1, <1>1
    <3>2. outcome'[c] # Pending
      BY <1>1, <2>2 DEF IInv, TypeOK
    <3>3. \A d \in 1..submitted : d # c => outcome'[d] = outcome[d]
      BY <1>1, <2>2 DEF IInv, TypeOK
    <3>4. \A i \in 1..Len(messageQueue) : messageQueue[i] = c
      BY <1>1, <3>1
    <3>. QED
      BY <2>1, <3>2, <3>3, <3>4 DEF IInv, NoForgottenPromise
  <2>. QED
    BY <1>5, <1>6, <1>7, <1>8, <2>3, <2>4, <2>5, <2>6, <2>7, <2>8 DEF IInv
<1>11. CASE q # <<>>
  <2>. DEFINE w == [cmd |-> Head(q), then |-> k]
  <2>1. writes' = Append(writes, w) /\ outcome' = outcome /\ timer'
    BY <1>11 DEF SendNextMessage
  <2>2. w \in [cmd : Cmds, then : Continuations] /\ w.cmd = Head(q) /\ w.then = k
    BY <1>1, <1>2, <1>11, TailFacts
  <2>3. /\ Len(writes') = Len(writes) + 1
        /\ \A i \in 1..Len(writes) : writes'[i] = writes[i]
        /\ writes'[Len(writes) + 1] = w
        /\ Len(writes) \in Nat
    <3>. HIDE DEF w
    <3>1. writes \in Seq([cmd : Cmds, then : Continuations])
      BY DEF IInv, TypeOK
    <3>. QED
      BY <2>1, <2>2, <3>1, AppendFacts
  <2>4. k.cmd = c /\ k.as = o
    BY DEF Continuation
  <2>5. \A i \in 1..Len(writes') : (i \in 1..Len(writes) /\ writes'[i] = writes[i])
                                    \/ (i = Len(writes) + 1 /\ writes'[i] = w)
    <3>. HIDE DEF w
    <3>. QED
      BY <2>3
  <2>6. NothingAhead'
    <3>1. \A n \in Int : n <= LastSent => n <= LastSent'
      BY <1>1, <1>9, Types DEF IInv
    <3>2. w.cmd <= LastSent'
      BY <1>1, <1>4, <1>11, <2>2, Types DEF LastSent, IInv
    <3>3. \A i \in 1..Len(writes') : writes'[i].cmd <= LastSent'
      BY <2>5, <3>1, <3>2, Types DEF IInv, NothingAhead
    <3>4. \A i \in 1..Len(received') : received'[i] <= LastSent'
      BY <3>1, <1>12
    <3>. QED
      BY <3>1, <3>3, <3>4, Types DEF IInv, NothingAhead, remoteVars
  <2>7. ContinuationsBehind'
    <3>1. /\ w.then.cmd = c /\ w.then.as = o
          /\ c = submitted - Len(messageQueue')
          /\ Len(messageQueue') = Len(messageQueue) - 1
      BY <1>1, <1>3, <1>4, <2>2, <2>4
    <3>2. submitted' = submitted
      OBVIOUS
    <3>3. ASSUME NEW i \in 1..Len(writes')
          PROVE  /\ writes'[i].then.cmd <= submitted' - Len(messageQueue')
                 /\ \A r \in Cmds : writes'[i].then.as = Resolved(r) =>
                      r = writes'[i].then.cmd \/ writes'[i].then.cmd - r >= SeqMax
      <4>1. CASE i \in 1..Len(writes) /\ writes'[i] = writes[i]
        BY <3>1, <3>2, <4>1, Types DEF IInv, ContinuationsBehind
      <4>2. CASE writes'[i] = w
        BY <3>1, <3>2, <4>2, <1>1, <1>3
      <4>. QED
        BY <2>5, <4>1, <4>2
    <3>. QED
      BY <3>3 DEF ContinuationsBehind
  <2>8. QueueUnsettled'
    BY <1>1, <1>4, <2>1 DEF IInv, QueueUnsettled
  <2>9. UncalledPending' /\ OwnResponse'
    BY <2>1 DEF IInv, UncalledPending, OwnResponse
  <2>10. NoForgottenPromise'
    <3>. SUFFICES ASSUME NEW d \in 1..submitted, outcome[d] = Pending
                  PROVE  \/ \E i \in 1..Len(q) : q[i] = d
                         \/ \E i \in 1..Len(writes') : writes'[i].then.cmd = d
      BY <1>4, <2>1 DEF NoForgottenPromise
    <3>1. CASE d = c
      BY <2>2, <2>3, <2>4, <3>1
    <3>2. CASE d # c /\ \E i \in 1..Len(messageQueue) : messageQueue[i] = d
      <4>1. PICK i \in 1..Len(messageQueue) : messageQueue[i] = d
        BY <3>2
      <4>2. i # 1
        BY <3>2, <4>1, <1>1
      <4>3. i - 1 \in 1..Len(q) /\ q[i - 1] = d
        BY <4>1, <4>2, <1>1
      <4>. QED
        BY <4>3
    <3>3. CASE \E i \in 1..Len(writes) : writes[i].then.cmd = d
      BY <2>3, <3>3
    <3>. QED
      BY <3>1, <3>2, <3>3 DEF IInv, NoForgottenPromise
  <2>. QED
    BY <1>5, <1>6, <1>7, <1>8, <2>6, <2>7, <2>8, <2>9, <2>10 DEF IInv
<1>. QED
  BY <1>10, <1>11

LEMMA CmdRespTimeoutStep == IInv /\ CmdRespTimeout => IInv'
<1>. SUFFICES ASSUME IInv, CmdRespTimeout PROVE IInv'
  OBVIOUS
<1>1. messageQueue # <<>>
  BY DEF IInv, CmdRespTimeout
<1>2. Rejected \in Outcomes \ {Pending} /\ \A r \in Cmds : Rejected # Resolved(r)
  BY DEF Outcomes, Rejected, Pending, Resolved
<1>3. SendNextMessage(Tail(messageQueue), Continuation(Head(messageQueue), Rejected))
  BY DEF CmdRespTimeout
<1>4. /\ received' = received /\ parsing' = parsing
      /\ UNCHANGED <<submitted, sequenceNumber, seqno, remoteVars>>
  BY DEF CmdRespTimeout
<1>5. /\ received' \in Seq(Cmds)
      /\ \A i \in 1..Len(received') : received'[i] <= LastSent
      /\ parsing' \in BOOLEAN
      /\ ParsingHasData'
  BY <1>4 DEF IInv, TypeOK, NothingAhead, ParsingHasData
<1>. QED
  BY <1>1, <1>2, <1>3, <1>4, <1>5, ShiftStep

(* dataReceived goes on with the rest of what it has received. *)
LEMMA ConsumedFacts ==
  ASSUME IInv, parsing, Consumed
  PROVE  /\ received' \in Seq(Cmds)
         /\ \A i \in 1..Len(received') : received'[i] <= LastSent
         /\ parsing' \in BOOLEAN
         /\ ParsingHasData'
         /\ Head(received) \in Cmds
         /\ Head(received) <= LastSent
<1>1. received # <<>> /\ received \in Seq(Cmds)
  BY DEF IInv, ParsingHasData, TypeOK
<1>2. /\ Head(received) \in Cmds
      /\ Head(received) = received[1]
      /\ Len(received) \in Nat \ {0}
      /\ received' \in Seq(Cmds)
      /\ Len(received') = Len(received) - 1
      /\ \A i \in 1..Len(received') : received'[i] = received[i + 1]
  BY <1>1, TailFacts DEF Consumed
<1>3. Head(received) <= LastSent
  BY <1>2 DEF IInv, NothingAhead
<1>4. \A i \in 1..Len(received') : received'[i] <= LastSent
  BY <1>2 DEF IInv, NothingAhead
<1>5. parsing' \in BOOLEAN /\ ParsingHasData'
  BY DEF Consumed, ParsingHasData
<1>. QED
  BY <1>2, <1>3, <1>4, <1>5

LEMMA HeadFacts ==
  ASSUME IInv, messageQueue # <<>>
  PROVE  /\ Head(messageQueue) \in Cmds
         /\ Head(messageQueue) = messageQueue[1]
         /\ Head(messageQueue) = submitted - Len(messageQueue) + 1
         /\ Head(messageQueue) <= submitted
         /\ 1 \in 1..Len(messageQueue)
<1>1. messageQueue \in Seq(Cmds)
  BY DEF IInv, TypeOK
<1>2. /\ Head(messageQueue) \in Cmds
      /\ Head(messageQueue) = messageQueue[1]
      /\ Len(messageQueue) \in Nat \ {0}
  BY <1>1, TailFacts
<1>3. submitted \in Int
  BY Types DEF IInv
<1>4. messageQueue[1] = submitted - Len(messageQueue) + 1
  BY <1>2 DEF IInv, QueueIsSuffix
<1>. QED
  BY <1>2, <1>3, <1>4

LEMMA ResponseReceivedStep == IInv /\ ResponseReceived => IInv'
<1>. SUFFICES ASSUME IInv, ResponseReceived PROVE IInv'
  OBVIOUS
<1>. DEFINE c == Head(messageQueue)
            r == Head(received)
<1>1. /\ messageQueue # <<>>
      /\ SendNextMessage(Tail(messageQueue), Continuation(c, Resolved(r)))
      /\ UNCHANGED <<submitted, sequenceNumber, seqno, remoteVars>>
      /\ seqno[r] = seqno[c]
  BY DEF ResponseReceived
<1>2. /\ received' \in Seq(Cmds)
      /\ \A i \in 1..Len(received') : received'[i] <= LastSent
      /\ parsing' \in BOOLEAN
      /\ ParsingHasData'
      /\ r \in Cmds
      /\ r <= LastSent
  BY ConsumedFacts DEF ResponseReceived
<1>3. c \in Cmds /\ c <= submitted
  BY <1>1, HeadFacts
<1>4. r = c \/ c - r >= SeqMax
  <2>1. r <= c
    BY <1>1, <1>2 DEF LastSent
  <2>2. SUFFICES ASSUME c - r < SeqMax PROVE r = c
    BY <1>2, <1>3, QueueAssumption DEF Cmds
  <2>3. r \in 1..submitted /\ c \in 1..submitted
    BY <1>2, <1>3, <2>1, Types, QueueAssumption DEF Cmds, IInv
  <2>4. \/ seqno[c] - seqno[r] = c - r
        \/ seqno[c] - seqno[r] = c - r - SeqMax
    BY <2>1, <2>2, <2>3 DEF IInv, SeqNoWindow
  <2>5. seqno[c] - seqno[r] = 0
    BY <1>1, <1>2, <1>3, QueueAssumption DEF IInv, TypeOK
  <2>. QED
    BY <2>2, <2>3, <2>4, <2>5, Types, QueueAssumption DEF IInv
<1>5. Resolved(r) \in Outcomes \ {Pending} /\ \A s \in Cmds : Resolved(r) = Resolved(s) => s = r
  BY <1>2 DEF Outcomes, Pending, Resolved
<1>. HIDE DEF c, r
<1>. QED
  BY <1>1, <1>2, <1>4, <1>5, ShiftStep DEF c

LEMMA ResponseWithoutRequestStep == IInv /\ ResponseWithoutRequest => IInv'
<1>. SUFFICES ASSUME IInv, ResponseWithoutRequest PROVE IInv'
  OBVIOUS
<1>1. TypeOK'
  BY DEF ResponseWithoutRequest, IInv, TypeOK, remoteVars
<1>2. QueueUnsettled'
  BY DEF ResponseWithoutRequest, IInv, QueueUnsettled
<1>3. NothingAhead'
  BY DEF ResponseWithoutRequest, IInv, NothingAhead, LastSent, remoteVars
<1>. QED
  BY <1>1, <1>2, <1>3 DEF ResponseWithoutRequest, IInv, ParsingHasData, SeqNoWindow,
     QueueIsSuffix, ContinuationsBehind, UncalledPending, OwnResponse, NoForgottenPromise

LEMMA WrongSeqNoStep == IInv /\ WrongSeqNo => IInv'
<1>. SUFFICES ASSUME IInv, WrongSeqNo PROVE IInv'
  OBVIOUS
<1>. DEFINE c == Head(messageQueue)
<1>1. /\ received' \in Seq(Cmds)
      /\ \A i \in 1..Len(received') : received'[i] <= LastSent
      /\ parsing' \in BOOLEAN
      /\ ParsingHasData'
  BY ConsumedFacts DEF WrongSeqNo
<1>2. /\ c \in Cmds /\ c = messageQueue[1] /\ c <= submitted
      /\ 1 \in 1..Len(messageQueue)
  BY HeadFacts DEF WrongSeqNo
<1>3. outcome' = IF outcome[c] = Pending THEN [outcome EXCEPT ![c] = Rejected] ELSE outcome
  BY <1>2, QueueAssumption DEF WrongSeqNo, Settle, Continuation, Nothing, Cmds
<1>4. /\ outcome' \in [Cmds -> Outcomes]
      /\ \A d \in Cmds : d # c => outcome'[d] = outcome[d]
      /\ outcome'[c] = outcome[c] \/ outcome'[c] = Rejected
  BY <1>2, <1>3 DEF IInv, TypeOK, Outcomes
<1>5. TypeOK'
  BY <1>1, <1>4 DEF WrongSeqNo, IInv, TypeOK, remoteVars
<1>6. NothingAhead'
  BY <1>1 DEF WrongSeqNo, IInv, NothingAhead, LastSent, remoteVars
<1>7. QueueUnsettled'
  <2>1. \A i \in 1..Len(messageQueue) : i > 1 => messageQueue[i] # c
    BY <1>2, Types DEF IInv, QueueIsSuffix
  <2>. QED
    BY <1>2, <1>4, <2>1, Types DEF WrongSeqNo, IInv, QueueUnsettled
<1>8. UncalledPending'
  BY <1>2, <1>4, Types DEF WrongSeqNo, IInv, UncalledPending
<1>9. OwnResponse'
  BY <1>4 DEF IInv, OwnResponse, Rejected, Resolved
<1>10. NoForgottenPromise'
  <2>1. \A d \in 1..submitted : d \in Cmds
    BY QueueAssumption DEF IInv, TypeOK, Cmds
  <2>. QED
    BY <1>2, <1>4, <2>1 DEF WrongSeqNo, IInv, NoForgottenPromise
<1>. QED
  BY <1>1, <1>5, <1>6, <1>7, <1>8, <1>9, <1>10 DEF WrongSeqNo, IInv, SeqNoWindow,
     QueueIsSuffix, ContinuationsBehind

LEMMA RemoteStep == IInv /\ (RemoteExecute \/ RemoteIgnore) => IInv'
<1>. SUFFICES ASSUME IInv, RemoteExecute \/ RemoteIgnore PROVE IInv'
  OBVIOUS
<1>1. /\ Head(wire) \in Cmds
      /\ Head(wire) <= LastSent
      /\ wire' \in Seq(Cmds)
      /\ \A i \in 1..Len(wire') : wire'[i] <= LastSent
  <2>1. wire # <<>> /\ wire' = Tail(wire) /\ wire \in Seq(Cmds)
    BY DEF RemoteExecute, RemoteIgnore, IInv, TypeOK
  <2>. QED
    BY <2>1, TailFacts DEF IInv, NothingAhead
<1>2. /\ replies' \in Seq(Cmds)
      /\ executed' \in Seq(Cmds)
      /\ \A i \in 1..Len(replies') : replies'[i] <= LastSent
  <2>1. CASE RemoteExecute
    <3>1. replies' = Append(replies, Head(wire)) /\ executed' = Append(executed, Head(wire))
      BY <2>1 DEF RemoteExecute
    <3>2. \A i \in 1..Len(replies') :
            \/ i \in 1..Len(replies) /\ replies'[i] = replies[i]
            \/ replies'[i] = Head(wire)
      BY <1>1, <3>1, AppendFacts DEF IInv, TypeOK
    <3>. QED
      BY <1>1, <3>1, <3>2, AppendFacts DEF IInv, TypeOK, NothingAhead
  <2>2. CASE RemoteIgnore
    BY <2>2 DEF RemoteIgnore, IInv, TypeOK, NothingAhead
  <2>. QED
    BY <2>1, <2>2
<1>3. UNCHANGED clientVars
  BY DEF RemoteExecute, RemoteIgnore
<1>4. TypeOK'
  BY <1>1, <1>2, <1>3 DEF IInv, TypeOK, clientVars
<1>5. NothingAhead'
  BY <1>1, <1>2, <1>3 DEF IInv, NothingAhead, LastSent, clientVars
<1>. QED
  BY <1>3, <1>4, <1>5 DEF clientVars, IInv, ParsingHasData, SeqNoWindow, QueueIsSuffix,
     ContinuationsBehind, QueueUnsettled, UncalledPending, OwnResponse, NoForgottenPromise

(* A write is gone and zero or more promises of commands that have left    *)
(* the queue, or of one whose write failed, are settled.                   *)
LEMMA SettleFacts ==
  ASSUME TypeOK, NEW out \in [Cmds -> Outcomes], NEW k \in Continuations
  PROVE  /\ Settle(out, k) \in [Cmds -> Outcomes]
         /\ \A d \in Cmds : d # k.cmd => Settle(out, k)[d] = out[d]
         /\ \A d \in Cmds : Settle(out, k)[d] = out[d] \/ Settle(out, k)[d] = k.as
         /\ \A d \in Cmds : out[d] # Pending => Settle(out, k)[d] = out[d]
         /\ k.cmd \in Cmds => Settle(out, k)[k.cmd] # Pending
<1>1. CASE k = Nothing
  <2>1. Nothing.cmd \notin Cmds
    BY QueueAssumption DEF Nothing, Continuation, Cmds
  <2>. QED
    BY <1>1, <2>1 DEF Settle
<1>2. CASE k # Nothing
  <2>1. k.cmd \in Cmds /\ k.as \in Outcomes /\ k.as # Pending
    BY <1>2 DEF Continuations
  <2>2. Settle(out, k) = IF out[k.cmd] = Pending THEN [out EXCEPT ![k.cmd] = k.as] ELSE out
    BY <1>2 DEF Settle
  <2>. QED
    BY <2>1, <2>2
<1>. QED
  BY <1>1, <1>2

LEMMA WriteTail ==
  ASSUME IInv, writes # <<>>, writes' = Tail(writes)
  PROVE  /\ Head(writes) = writes[1]
         /\ writes' \in Seq([cmd : Cmds, then : Continuations])
         /\ Len(writes) \in Nat \ {0}
         /\ Len(writes') = Len(writes) - 1
         /\ \A i \in 1..Len(writes') : i + 1 \in 1..Len(writes) /\ writes'[i] = writes[i + 1]
         /\ Head(writes).cmd \in Cmds
         /\ Head(writes).cmd <= LastSent
         /\ Head(writes).then \in Continuations
         /\ Head(writes).then.cmd <= submitted - Len(messageQueue)
         /\ \A r \in Cmds : Head(writes).then.as = Resolved(r) =>
              r = Head(writes).then.cmd \/ Head(writes).then.cmd - r >= SeqMax
<1>1. writes \in Seq([cmd : Cmds, then : Continuations])
  BY DEF IInv, TypeOK
<1>2. /\ Head(writes) = writes[1]
      /\ writes' \in Seq([cmd : Cmds, then : Continuations])
      /\ Len(writes) \in Nat \ {0}
      /\ Len(writes') = Len(writes) - 1
      /\ \A i \in 1..Len(writes') : writes'[i] = writes[i + 1]
      /\ Head(writes) \in [cmd : Cmds, then : Continuations]
  BY <1>1, TailFacts
<1>3. 1 \in 1..Len(writes) /\ \A i \in 1..Len(writes') : i + 1 \in 1..Len(writes)
  BY <1>2
<1>. QED
  BY <1>2, <1>3 DEF IInv, NothingAhead, ContinuationsBehind

LEMMA WriteDoneStep == IInv /\ WriteDone => IInv'
<1>. SUFFICES ASSUME IInv, WriteDone PROVE IInv'
  OBVIOUS
<1>. DEFINE w == Head(writes)
            k == Head(writes).then
<1>1. /\ w = writes[1]
      /\ writes' \in Seq([cmd : Cmds, then : Continuations])
      /\ Len(writes) \in Nat \ {0}
      /\ Len(writes') = Len(writes) - 1
      /\ \A i \in 1..Len(writes') : i + 1 \in 1..Len(writes) /\ writes'[i] = writes[i + 1]
      /\ w.cmd \in Cmds
      /\ w.cmd <= LastSent
      /\ k \in Continuations
      /\ k.cmd <= submitted - Len(messageQueue)
      /\ \A r \in Cmds : k.as = Resolved(r) => r = k.cmd \/ k.cmd - r >= SeqMax
  BY WriteTail DEF WriteDone
<1>2. /\ wire' \in Seq(Cmds)
      /\ \A i \in 1..Len(wire') : \/ i \in 1..Len(wire) /\ wire'[i] = wire[i]
                                  \/ wire'[i] = w.cmd
  <2>1. wire' = Append(wire, w.cmd) /\ wire \in Seq(Cmds)
    BY DEF WriteDone, IInv, TypeOK
  <2>. QED
    BY <1>1, <2>1, AppendFacts
<1>3. outcome \in [Cmds -> Outcomes] /\ outcome' = Settle(outcome, k)
  BY DEF WriteDone, IInv, TypeOK
<1>4. /\ outcome' \in [Cmds -> Outcomes]
      /\ \A d \in Cmds : d # k.cmd => outcome'[d] = outcome[d]
      /\ \A d \in Cmds : outcome'[d] = outcome[d] \/ outcome'[d] = k.as
      /\ k.cmd \in Cmds => outcome'[k.cmd] # Pending
  BY <1>1, <1>3, SettleFacts DEF IInv
<1>5. k.cmd \in Int /\ submitted \in Int /\ Len(messageQueue) \in Nat
  BY <1>1, Types DEF IInv, Continuations, Nothing, Continuation
<1>. HIDE DEF w, k
<1>6. TypeOK'
  BY <1>1, <1>2, <1>4 DEF WriteDone, IInv, TypeOK
<1>7. NothingAhead'
  <2>1. LastSent' = LastSent
    BY DEF WriteDone, LastSent
  <2>. QED
    BY <1>1, <1>2, <2>1 DEF WriteDone, IInv, NothingAhead
<1>8. ContinuationsBehind'
  BY <1>1 DEF WriteDone, IInv, ContinuationsBehind
<1>9. QueueUnsettled'
  <2>1. \A i \in 1..Len(messageQueue) : messageQueue[i] # k.cmd /\ messageQueue[i] \in Cmds
    BY <1>1, <1>5, Types DEF IInv, QueueIsSuffix
  <2>. QED
    BY <1>4, <2>1 DEF WriteDone, IInv, QueueUnsettled
<1>10. UncalledPending'
  <2>1. \A d \in Cmds : d > submitted => d # k.cmd
    BY <1>1, <1>5
  <2>. QED
    BY <1>4, <2>1 DEF WriteDone, IInv, UncalledPending
<1>11. OwnResponse'
  BY <1>1, <1>4 DEF IInv, OwnResponse
<1>12. NoForgottenPromise'
  <2>. SUFFICES ASSUME NEW d \in 1..submitted, outcome'[d] = Pending
                PROVE  \/ \E i \in 1..Len(messageQueue) : messageQueue[i] = d
                       \/ \E i \in 1..Len(writes') : writes'[i].then.cmd = d
    BY DEF WriteDone, NoForgottenPromise
  <2>1. d \in Cmds
    BY QueueAssumption DEF IInv, TypeOK, Cmds
  <2>2. d # k.cmd /\ outcome[d] = Pending
    BY <1>4, <2>1
  <2>3. ASSUME NEW i \in 1..Len(writes), writes[i].then.cmd = d
        PROVE  \E j \in 1..Len(writes') : writes'[j].then.cmd = d
    <3>1. i # 1
      BY <1>1, <2>2, <2>3 DEF k, w
    <3>2. i - 1 \in 1..Len(writes') /\ writes'[i - 1] = writes[i]
      BY <1>1, <3>1
    <3>. QED
      BY <2>3, <3>2
  <2>. QED
    BY <2>2, <2>3 DEF IInv, NoForgottenPromise
<1>. QED
  BY <1>6, <1>7, <1>8, <1>9, <1>10, <1>11, <1>12 DEF WriteDone, IInv, ParsingHasData,
     SeqNoWindow, QueueIsSuffix

LEMMA WriteFailedStep == IInv /\ WriteFailed => IInv'
<1>. SUFFICES ASSUME IInv, WriteFailed PROVE IInv'
  OBVIOUS
<1>. DEFINE w == Head(writes)
            k == Head(writes).then
            rejection == Continuation(w.cmd, Rejected)
            between == Settle(outcome, rejection)
<1>1. /\ w = writes[1]
      /\ writes' \in Seq([cmd : Cmds, then : Continuations])
      /\ Len(writes) \in Nat \ {0}
      /\ Len(writes') = Len(writes) - 1
      /\ \A i \in 1..Len(writes') : i + 1 \in 1..Len(writes) /\ writes'[i] = writes[i + 1]
      /\ w.cmd \in Cmds
      /\ w.cmd <= LastSent
      /\ k \in Continuations
      /\ k.cmd <= submitted - Len(messageQueue)
      /\ \A r \in Cmds : k.as = Resolved(r) => r = k.cmd \/ k.cmd - r >= SeqMax
  BY WriteTail DEF WriteFailed
<1>2. /\ rejection \in Continuations
      /\ rejection.cmd = w.cmd
      /\ rejection.as = Rejected
  BY <1>1, ContinuationType DEF Continuation
<1>3. outcome \in [Cmds -> Outcomes] /\ outcome' = Settle(between, k)
  BY DEF WriteFailed, IInv, TypeOK
<1>4. /\ between \in [Cmds -> Outcomes]
      /\ \A d \in Cmds : d # w.cmd => between[d] = outcome[d]
      /\ \A d \in Cmds : between[d] = outcome[d] \/ between[d] = Rejected
      /\ \A d \in Cmds : outcome[d] # Pending => between[d] = outcome[d]
  <2>. HIDE DEF rejection
  <2>. QED
    BY <1>2, <1>3, SettleFacts DEF IInv
<1>5. /\ outcome' \in [Cmds -> Outcomes]
      /\ \A d \in Cmds : d # k.cmd => outcome'[d] = between[d]
      /\ \A d \in Cmds : outcome'[d] = between[d] \/ outcome'[d] = k.as
      /\ \A d \in Cmds : between[d] # Pending => outcome'[d] = between[d]
      /\ k.cmd \in Cmds => outcome'[k.cmd] # Pending
  <2>1. k \in Continuations /\ outcome' = Settle(between, k) /\ TypeOK
    BY <1>1, <1>3 DEF IInv
  <2>. HIDE DEF between, k
  <2>. QED
    BY <1>4, <2>1, SettleFacts
<1>6. k.cmd \in Int /\ submitted \in Int /\ Len(messageQueue) \in Nat
  BY <1>1, Types DEF IInv, Continuations, Nothing, Continuation
<1>. HIDE DEF between, rejection, w, k
<1>7. TypeOK'
  BY <1>1, <1>5 DEF WriteFailed, IInv, TypeOK, remoteVars
<1>8. NothingAhead'
  <2>1. LastSent' = LastSent
    BY DEF WriteFailed, LastSent
  <2>. QED
    BY <1>1, <2>1 DEF WriteFailed, IInv, NothingAhead, remoteVars
<1>9. ContinuationsBehind'
  BY <1>1 DEF WriteFailed, IInv, ContinuationsBehind
<1>10. QueueUnsettled'
  <2>1. WritesFail
    BY DEF WriteFailed
  <2>2. ASSUME NEW i \in 1..Len(messageQueue), i > 1
        PROVE  outcome'[messageQueue[i]] = Pending
    <3>1. messageQueue # <<>>
      BY <2>2
    <3>2. messageQueue[i] # k.cmd
      BY <1>1, <1>6, <2>2 DEF IInv, QueueIsSuffix
    <3>3. messageQueue[i] # w.cmd
      BY <1>1, <1>6, <2>2, <3>1, HeadFacts DEF IInv, QueueIsSuffix, LastSent, Cmds
    <3>4. messageQueue[i] \in Cmds /\ outcome[messageQueue[i]] = Pending
      BY <2>2, Types DEF IInv, QueueUnsettled
    <3>. QED
      BY <1>4, <1>5, <3>2, <3>3, <3>4
  <2>. QED
    BY <2>1, <2>2 DEF WriteFailed, IInv, QueueUnsettled
<1>11. LastSent <= submitted
  BY <1>6, HeadFacts DEF LastSent
<1>12. UncalledPending'
  <2>1. \A d \in Cmds : d > submitted => d # k.cmd /\ d # w.cmd
    BY <1>1, <1>6, <1>11, HeadFacts, QueueAssumption DEF LastSent, Cmds
  <2>. QED
    BY <1>4, <1>5, <2>1 DEF WriteFailed, IInv, UncalledPending
<1>13. OwnResponse'
  <2>1. \A r \in Cmds : Rejected # Resolved(r)
    BY DEF Rejected, Resolved
  <2>. QED
    BY <1>1, <1>4, <1>5, <2>1 DEF IInv, OwnResponse
<1>14. NoForgottenPromise'
  <2>. SUFFICES ASSUME NEW d \in 1..submitted, outcome'[d] = Pending
                PROVE  \/ \E i \in 1..Len(messageQueue) : messageQueue[i] = d
                       \/ \E i \in 1..Len(writes') : writes'[i].then.cmd = d
    BY DEF WriteFailed, NoForgottenPromise
  <2>1. d \in Cmds
    BY QueueAssumption DEF IInv, TypeOK, Cmds
  <2>2. d # k.cmd /\ outcome[d] = Pending
    BY <1>4, <1>5, <2>1
  <2>3. ASSUME NEW i \in 1..Len(writes), writes[i].then.cmd = d
        PROVE  \E j \in 1..Len(writes') : writes'[j].then.cmd = d
    <3>1. i # 1
      BY <1>1, <2>2, <2>3 DEF k, w
    <3>2. i - 1 \in 1..Len(writes') /\ writes'[i - 1] = writes[i]
      BY <1>1, <3>1
    <3>. QED
      BY <2>3, <3>2
  <2>. QED
    BY <2>2, <2>3 DEF IInv, NoForgottenPromise
<1>. QED
  BY <1>7, <1>8, <1>9, <1>10, <1>12, <1>13, <1>14 DEF WriteFailed, IInv, ParsingHasData,
     SeqNoWindow, QueueIsSuffix

LEMMA SendDzrpCmdStep == IInv /\ SendDzrpCmd => IInv'
<1>. SUFFICES ASSUME IInv, SendDzrpCmd PROVE IInv'
  OBVIOUS
<1>. USE QueueAssumption
<1>. DEFINE c == submitted + 1
            q == Append(messageQueue, c)
<1>1. /\ c \in Cmds /\ c \in 1..submitted' /\ submitted' = c
      /\ submitted \in Nat /\ SeqMax \in Nat \ {0}
  BY DEF SendDzrpCmd, IInv, TypeOK, Cmds
<1>2. /\ messageQueue' = q
      /\ UNCHANGED <<received, parsing, remoteVars>>
  BY DEF SendDzrpCmd, SendNextMessage
<1>3. /\ q \in Seq(Cmds)
      /\ q # <<>>
      /\ Len(messageQueue) \in Nat
      /\ Len(q) = Len(messageQueue) + 1
      /\ \A i \in 1..Len(messageQueue) : q[i] = messageQueue[i]
      /\ q[Len(messageQueue) + 1] = c
      /\ Head(q) = IF messageQueue = <<>> THEN c ELSE Head(messageQueue)
  BY <1>1, AppendFacts DEF IInv, TypeOK
<1>4. LastSent' = IF messageQueue = <<>> THEN c ELSE LastSent
  BY <1>2, <1>3 DEF LastSent
<1>5. LastSent \in Int /\ LastSent <= submitted
  BY <1>1, HeadFacts DEF LastSent, Cmds
<1>6. \A n \in Int : n <= LastSent => n <= LastSent'
  BY <1>1, <1>4, <1>5
<1>7. outcome' = outcome /\ c > submitted /\ outcome[c] = Pending
  BY <1>1 DEF SendDzrpCmd, SendNextMessage, Settle, IInv, UncalledPending
<1>8. /\ sequenceNumber' = NextSeqNo(sequenceNumber)
      /\ seqno' = [seqno EXCEPT ![c] = sequenceNumber']
  BY <1>1 DEF SendDzrpCmd
<1>9. /\ writes' \in Seq([cmd : Cmds, then : Continuations])
      /\ Len(writes) \in Nat
      /\ Len(writes') \in Nat
      /\ Len(writes') >= Len(writes)
      /\ \A i \in 1..Len(writes) : writes'[i] = writes[i]
      /\ \A i \in 1..Len(writes') : \/ i \in 1..Len(writes) /\ writes'[i] = writes[i]
                                    \/ /\ writes'[i] = [cmd |-> c, then |-> Nothing]
                                       /\ messageQueue = <<>>
  <2>1. CASE Len(q) = 1
    <3>. DEFINE w == [cmd |-> c, then |-> Nothing]
    <3>1. messageQueue = <<>>
      BY <1>3, <2>1, EmptySeq DEF IInv, TypeOK
    <3>2. writes' = Append(writes, w)
      BY <1>1, <1>3, <2>1, <3>1 DEF SendDzrpCmd, SendNextMessage
    <3>3. w \in [cmd : Cmds, then : Continuations]
      BY <1>1, ContinuationType
    <3>4. writes \in Seq([cmd : Cmds, then : Continuations])
      BY DEF IInv, TypeOK
    <3>5. w = [cmd |-> c, then |-> Nothing]
      OBVIOUS
    <3>. HIDE DEF w
    <3>6. /\ Append(writes, w) \in Seq([cmd : Cmds, then : Continuations])
          /\ Len(writes) \in Nat
          /\ Len(Append(writes, w)) = Len(writes) + 1
          /\ \A i \in 1..Len(writes) : Append(writes, w)[i] = writes[i]
          /\ Append(writes, w)[Len(writes) + 1] = w
      BY <3>3, <3>4, AppendFacts
    <3>. QED
      BY <3>1, <3>2, <3>5, <3>6
  <2>2. CASE Len(q) # 1
    <3>1. writes' = writes
      BY <1>1, <2>2 DEF SendDzrpCmd
    <3>. QED
      BY <3>1, Types DEF IInv, TypeOK
  <2>. QED
    BY <2>1, <2>2
<1>10. timer' = (messageQueue = <<>> \/ timer)
  BY <1>1, <1>3, EmptySeq DEF SendDzrpCmd, SendNextMessage, IInv, TypeOK
<1>11. sequenceNumber' \in 1..SeqMax /\ seqno' \in [Cmds -> 0..SeqMax]
       /\ seqno'[c] = sequenceNumber' /\ \A d \in Cmds : d # c => seqno'[d] = seqno[d]
  BY <1>1, <1>8 DEF NextSeqNo, IInv, TypeOK
<1>. HIDE DEF c, q
<1>12. TypeOK'
  <2>1. submitted' \in 0..MaxCmds /\ sequenceNumber' \in 0..SeqMax
    BY <1>1, <1>11 DEF Cmds
  <2>2. timer' \in BOOLEAN
    BY <1>10
  <2>. QED
    BY <1>2, <1>3, <1>7, <1>9, <1>11, <2>1, <2>2 DEF IInv, TypeOK, remoteVars
<1>13. SeqNoWindow'
  <2>1. \A d \in 1..submitted : d \in Cmds /\ d # c /\ seqno'[d] = seqno[d] /\ seqno[d] \in 1..SeqMax
    BY <1>1, <1>11 DEF c, Cmds, IInv, SeqNoWindow
  <2>2. \A d \in 1..submitted' : d = c \/ d \in 1..submitted
    BY <1>1 DEF c
  <2>3. ASSUME NEW d \in 1..submitted, c - d < SeqMax
        PROVE  \/ seqno'[c] - seqno'[d] = c - d
               \/ seqno'[c] - seqno'[d] = c - d - SeqMax
    <3>1. submitted > 0 /\ submitted \in 1..submitted /\ submitted - d < SeqMax /\ d <= submitted
      BY <1>1, <2>3 DEF c
    <3>2. \/ seqno[submitted] - seqno[d] = submitted - d
          \/ seqno[submitted] - seqno[d] = submitted - d - SeqMax
      BY <3>1 DEF IInv, SeqNoWindow
    <3>3. sequenceNumber = seqno[submitted] /\ seqno[submitted] \in 1..SeqMax
      BY <3>1 DEF IInv, SeqNoWindow
    <3>4. seqno'[c] = IF sequenceNumber + 1 > SeqMax THEN 1 ELSE sequenceNumber + 1
      BY <1>8, <1>11 DEF NextSeqNo
    <3>5. seqno[d] \in 1..SeqMax /\ seqno'[d] = seqno[d] /\ d \in Int
      BY <2>1
    <3>. QED
      BY <1>1, <2>3, <3>1, <3>2, <3>3, <3>4, <3>5 DEF c
  <2>4. ASSUME NEW b \in 1..submitted', NEW d \in 1..submitted', b <= d, d - b < SeqMax
        PROVE  \/ seqno'[d] - seqno'[b] = d - b
               \/ seqno'[d] - seqno'[b] = d - b - SeqMax
    <3>1. CASE d = c /\ b = c
      <4>1. seqno'[c] \in Int
        BY <1>1, <1>11
      <4>2. c \in Int
        BY <1>1 DEF Cmds
      <4>3. seqno'[d] = seqno'[c] /\ seqno'[b] = seqno'[c]
        BY <3>1
      <4>4. d - b = 0
        BY <3>1, <4>2
      <4>. QED
        BY <4>1, <4>3, <4>4
    <3>2. CASE d = c /\ b # c
      BY <2>2, <2>3, <2>4, <3>2
    <3>3. CASE d # c
      <4>1. d \in 1..submitted /\ b \in 1..submitted
        BY <1>1, <2>2, <2>4, <3>3 DEF c
      <4>. QED
        BY <2>1, <2>4, <4>1 DEF IInv, SeqNoWindow
    <3>. QED
      BY <3>1, <3>2, <3>3
  <2>5. \A d \in 1..submitted' : seqno'[d] \in 1..SeqMax
    BY <1>11, <2>1, <2>2
  <2>6. sequenceNumber' = seqno'[submitted']
    BY <1>1, <1>11 DEF c
  <2>. QED
    BY <2>4, <2>5, <2>6 DEF SeqNoWindow
<1>14. QueueIsSuffix'
  BY <1>1, <1>2, <1>3 DEF IInv, QueueIsSuffix, c
<1>15. NothingAhead'
  <2>1. messageQueue = <<>> => c <= LastSent'
    BY <1>1, <1>4 DEF Cmds
  <2>2. \A i \in 1..Len(writes') : writes'[i].cmd <= LastSent'
    BY <1>6, <1>9, <2>1, Types DEF IInv, NothingAhead
  <2>. QED
    BY <1>2, <1>6, <2>2, Types DEF IInv, NothingAhead, remoteVars
<1>16. ContinuationsBehind'
  <2>1. /\ Nothing.cmd = 0
        /\ \A r \in Cmds : Nothing.as # Resolved(r)
    BY DEF Nothing, Continuation, Pending, Resolved
  <2>2. submitted' - Len(messageQueue') = submitted - Len(messageQueue)
        /\ submitted - Len(messageQueue) >= 0
    BY <1>1, <1>2, <1>3 DEF IInv, QueueIsSuffix, c
  <2>. QED
    BY <1>9, <2>1, <2>2 DEF IInv, ContinuationsBehind
<1>17. QueueUnsettled'
  <2>1. ASSUME NEW i \in 1..Len(q), i > 1 \/ (timer' /\ ~WritesFail)
        PROVE  outcome[q[i]] = Pending
    <3>1. CASE i = Len(messageQueue) + 1
      BY <1>3, <1>7, <3>1
    <3>2. CASE i # Len(messageQueue) + 1
      <4>1. i \in 1..Len(messageQueue) /\ q[i] = messageQueue[i]
        BY <1>3, <3>2
      <4>2. messageQueue # <<>>
        BY <4>1
      <4>. QED
        BY <2>1, <4>1, <4>2, <1>10 DEF IInv, QueueUnsettled
    <3>. QED
      BY <3>1, <3>2
  <2>. QED
    BY <1>2, <1>7, <2>1 DEF QueueUnsettled
<1>18. UncalledPending' /\ OwnResponse'
  BY <1>1, <1>7 DEF IInv, UncalledPending, OwnResponse, Cmds, c
<1>19. NoForgottenPromise'
  <2>. SUFFICES ASSUME NEW d \in 1..submitted', outcome[d] = Pending
                PROVE  \/ \E i \in 1..Len(q) : q[i] = d
                       \/ \E i \in 1..Len(writes') : writes'[i].then.cmd = d
    BY <1>2, <1>7 DEF NoForgottenPromise
  <2>1. CASE d = c
    BY <1>3, <2>1
  <2>2. CASE d # c
    <3>1. d \in 1..submitted
      BY <1>1, <2>2 DEF c
    <3>2. \A i \in 1..Len(messageQueue) : i \in 1..Len(q) /\ q[i] = messageQueue[i]
      BY <1>3
    <3>3. \A i \in 1..Len(writes) : i \in 1..Len(writes') /\ writes'[i] = writes[i]
      BY <1>9
    <3>. QED
      BY <3>1, <3>2, <3>3 DEF IInv, NoForgottenPromise
  <2>. QED
    BY <2>1, <2>2
<1>20. (timer => messageQueue # <<>>)' /\ ParsingHasData'
  BY <1>2, <1>3 DEF IInv, ParsingHasData
<1>. QED
  BY <1>12, <1>13, <1>14, <1>15, <1>16, <1>17, <1>18, <1>19, <1>20 DEF IInv

-----------------------------------------------------------------------------
LEMMA StutterStep == IInv /\ UNCHANGED vars => IInv'
BY DEF IInv, vars, TypeOK, ParsingHasData, SeqNoWindow, QueueIsSuffix, NothingAhead,
   LastSent, ContinuationsBehind, QueueUnsettled, UncalledPending, OwnResponse,
   NoForgottenPromise

LEMMA Inductive == Spec => []IInv
<1>1. IInv /\ [Next]_vars => IInv'
  BY SendDzrpCmdStep, WriteDoneStep, WriteFailedStep, CmdRespTimeoutStep, DataReceivedStep,
     ResponseWithoutRequestStep, WrongSeqNoStep, ResponseReceivedStep, RemoteStep,
     StutterStep DEF Next, ReceivedMsg
<1>. QED
  BY InitIInv, <1>1, PTL DEF Spec

(* Every variable keeps its type; the sequence number fits its byte.       *)
THEOREM TypeCorrect == Spec => []TypeOK
<1>1. IInv => TypeOK
  BY DEF IInv
<1>. QED
  BY Inductive, <1>1, PTL

(* A promise resolves with the response to its own command, or with one    *)
(* that is at least SeqMax calls late.                                     *)
THEOREM ResponsesMatch == Spec => []OwnResponse
<1>1. IInv => OwnResponse
  BY DEF IInv
<1>. QED
  BY Inductive, <1>1, PTL

(* No promise is forgotten: who is not settled is queued or awaits a write. *)
THEOREM PromisesKept == Spec => []NoForgottenPromise
<1>1. IInv => NoForgottenPromise
  BY DEF IInv
<1>. QED
  BY Inductive, <1>1, PTL

(* The response timer runs only for a queued head that is not settled.     *)
THEOREM TimerSound == Spec => []TimerHasMessage
<1>1. IInv => TimerHasMessage
  <2>. SUFFICES ASSUME IInv, timer
                PROVE  messageQueue # <<>> /\ (WritesFail \/ outcome[Head(messageQueue)] = Pending)
    BY DEF TimerHasMessage
  <2>1. messageQueue # <<>>
    BY DEF IInv
  <2>. QED
    BY <2>1, HeadFacts DEF IInv, QueueUnsettled
<1>. QED
  BY Inductive, <1>1, PTL

-----------------------------------------------------------------------------
(* The way of the commands: what the remote has executed comes before what *)
(* is on the wire, and that before what is not written yet.                *)
Sent ==
  /\ \A i \in 1..Len(executed) : executed[i] <= LastSent
  /\ \A i, j \in 1..Len(executed) : i < j => executed[i] < executed[j]
  /\ \A i, j \in 1..Len(wire) : i < j => wire[i] < wire[j]
  /\ \A i, j \in 1..Len(writes) : i < j => writes[i].cmd < writes[j].cmd
  /\ \A i \in 1..Len(executed), j \in 1..Len(wire) : executed[i] < wire[j]
  /\ \A i \in 1..Len(executed), j \in 1..Len(writes) : executed[i] < writes[j].cmd
  /\ \A i \in 1..Len(wire), j \in 1..Len(writes) : wire[i] < writes[j].cmd

Among(r, s) == \E i \in 1..Len(s) : s[i] = r

(* There is no response, and no promise resolved with one, to a command    *)
(* that the remote has not executed.                                       *)
Answered ==
  /\ \A i \in 1..Len(replies)  : Among(replies[i], executed)
  /\ \A i \in 1..Len(received) : Among(received[i], executed)
  /\ \A i \in 1..Len(writes), r \in Cmds :
       writes[i].then.as = Resolved(r) => Among(r, executed)
  /\ \A c, r \in Cmds : outcome[c] = Resolved(r) => Among(r, executed)

(* What the members of the sequences of commands are. *)
LEMMA Sequences ==
  ASSUME IInv
  PROVE  /\ executed \in Seq(Cmds) /\ wire \in Seq(Cmds)
         /\ replies \in Seq(Cmds) /\ received \in Seq(Cmds)
         /\ writes \in Seq([cmd : Cmds, then : Continuations])
         /\ \A i \in 1..Len(executed) : executed[i] \in Int
         /\ \A i \in 1..Len(wire) : wire[i] \in Int
         /\ \A i \in 1..Len(writes) : writes[i].cmd \in Int
         /\ Len(executed) \in Nat /\ Len(wire) \in Nat /\ Len(writes) \in Nat
         /\ LastSent \in Int /\ LastSent <= submitted /\ submitted \in Int
<1>1. \A i \in 1..Len(executed) : executed[i] \in Cmds
  BY DEF IInv, TypeOK
<1>2. submitted \in Int
  BY Types DEF IInv
<1>3. LastSent \in Int /\ LastSent <= submitted
  BY <1>2, HeadFacts, Types DEF LastSent, IInv
<1>. QED
  BY <1>1, <1>2, <1>3, Types DEF IInv, TypeOK

LEMMA InitSent == Init => Sent /\ Answered
BY DEF Init, Sent, Answered, LastSent, Pending, Resolved

(* A step that writes nothing, or a command above the last one written.    *)
LEMMA WritesGrow ==
  ASSUME IInv, Sent, UNCHANGED <<executed, wire>>,
         LastSent' \in Int, LastSent <= LastSent',
         NEW w \in [cmd : Cmds, then : Continuations],
         writes' = writes \/ (writes' = Append(writes, w) /\ LastSent < w.cmd)
  PROVE  Sent'
<1>1. \A i \in 1..Len(executed) : executed[i] <= LastSent'
  BY Sequences DEF Sent
<1>2. \A i \in 1..Len(executed) : executed[i] <= LastSent
  BY DEF Sent
<1>3. /\ \A i \in 1..Len(wire) : wire[i] <= LastSent
      /\ \A i \in 1..Len(writes) : writes[i].cmd <= LastSent
  BY DEF IInv, NothingAhead
<1>4. CASE writes' = writes
  BY <1>1, <1>4 DEF Sent
<1>5. CASE writes' = Append(writes, w) /\ LastSent < w.cmd
  <2>1. /\ Len(writes') = Len(writes) + 1
        /\ \A i \in 1..Len(writes) : writes'[i] = writes[i]
        /\ writes'[Len(writes) + 1] = w
        /\ Len(writes) \in Nat
    BY <1>5, AppendFacts, Sequences
  <2>2. w.cmd \in Int
    BY QueueAssumption DEF Cmds
  <2>3. ASSUME NEW i \in 1..Len(writes'), NEW j \in 1..Len(writes'), i < j
        PROVE  writes'[i].cmd < writes'[j].cmd
    <3>1. i \in 1..Len(writes) /\ writes'[i] = writes[i]
      BY <2>1, <2>3
    <3>2. CASE j \in 1..Len(writes)
      BY <2>1, <2>3, <3>1, <3>2 DEF Sent
    <3>3. CASE j = Len(writes) + 1
      BY <1>3, <1>5, <2>1, <2>2, <3>1, <3>3, Sequences
    <3>. QED
      BY <2>1, <3>2, <3>3
  <2>4. \A n \in Int : n <= LastSent => n < w.cmd
    BY <1>5, <2>2, Sequences
  <2>5. /\ \A i \in 1..Len(executed) : executed[i] < w.cmd
        /\ \A i \in 1..Len(wire) : wire[i] < w.cmd
    BY <1>2, <1>3, <2>4, Sequences
  <2>6. \A j \in 1..Len(writes') : \/ j \in 1..Len(writes) /\ writes'[j] = writes[j]
                                   \/ writes'[j] = w
    BY <2>1
  <2>7. /\ \A i \in 1..Len(executed), j \in 1..Len(writes') : executed[i] < writes'[j].cmd
        /\ \A i \in 1..Len(wire), j \in 1..Len(writes') : wire[i] < writes'[j].cmd
    BY <2>5, <2>6 DEF Sent
  <2>. QED
    BY <1>1, <2>3, <2>7 DEF Sent
<1>. QED
  BY <1>4, <1>5

LEMMA SendSent == IInv /\ Sent /\ SendDzrpCmd => Sent'
<1>. SUFFICES ASSUME IInv, Sent, SendDzrpCmd PROVE Sent'
  OBVIOUS
<1>. DEFINE c == submitted + 1
            q == Append(messageQueue, c)
            w == [cmd |-> c, then |-> Nothing]
<1>1. /\ c \in Cmds /\ submitted \in Nat /\ LastSent \in Int /\ LastSent <= submitted
  BY QueueAssumption, Sequences DEF SendDzrpCmd, IInv, TypeOK, Cmds
<1>2. /\ q # <<>>
      /\ Head(q) = IF messageQueue = <<>> THEN c ELSE Head(messageQueue)
      /\ Len(q) = 1 => messageQueue = <<>>
  <2>1. messageQueue \in Seq(Cmds)
    BY DEF IInv, TypeOK
  <2>2. /\ q # <<>>
        /\ Len(q) = Len(messageQueue) + 1
        /\ Head(q) = IF messageQueue = <<>> THEN c ELSE Head(messageQueue)
    BY <1>1, <2>1, AppendFacts
  <2>3. Len(messageQueue) = 0 => messageQueue = <<>>
    BY <2>1, EmptySeq
  <2>4. Len(messageQueue) \in Nat
    BY <2>1
  <2>. HIDE DEF q
  <2>. QED
    BY <2>2, <2>3, <2>4
<1>3. messageQueue' = q
  BY DEF SendDzrpCmd, SendNextMessage
<1>4. LastSent' = IF messageQueue = <<>> THEN c ELSE LastSent
  BY <1>2, <1>3 DEF LastSent
<1>5. writes' = writes \/ (writes' = Append(writes, w) /\ messageQueue = <<>>)
  BY <1>2 DEF SendDzrpCmd, SendNextMessage
<1>6. w \in [cmd : Cmds, then : Continuations] /\ w.cmd = c
  BY <1>1, ContinuationType
<1>7. messageQueue = <<>> => LastSent < c
  BY <1>1 DEF LastSent
<1>8. UNCHANGED <<executed, wire>>
  BY DEF SendDzrpCmd, remoteVars
<1>9. LastSent' \in Int /\ LastSent <= LastSent'
  BY <1>1, <1>4
<1>. HIDE DEF w
<1>. QED
  BY <1>5, <1>6, <1>7, <1>8, <1>9, WritesGrow

(* The head has left the queue and the next message is written. *)
LEMMA ShiftSent ==
  ASSUME IInv, Sent, messageQueue # <<>>, UNCHANGED <<submitted, executed, wire>>,
         NEW k \in Continuations, SendNextMessage(Tail(messageQueue), k)
  PROVE  Sent'
<1>. DEFINE q == Tail(messageQueue)
            w == IF q = <<>> THEN [cmd |-> Head(messageQueue), then |-> k]
                             ELSE [cmd |-> Head(q), then |-> k]
<1>1. /\ q \in Seq(Cmds)
      /\ q # <<>> => Len(messageQueue) > 1 /\ Head(q) = messageQueue[2]
      /\ Len(messageQueue) \in Nat
  BY TailFacts DEF IInv, TypeOK
<1>2. LastSent = Head(messageQueue) /\ LastSent = submitted - Len(messageQueue) + 1
      /\ LastSent <= submitted /\ LastSent \in Cmds /\ LastSent \in Int /\ submitted \in Int
  BY HeadFacts, Sequences DEF LastSent
<1>3. q # <<>> => Head(q) = LastSent + 1 /\ Head(q) \in Cmds
  BY <1>1, <1>2, TailFacts DEF IInv, QueueIsSuffix
<1>4. messageQueue' = q /\ writes' = IF q = <<>> THEN writes ELSE Append(writes, w)
  BY DEF SendNextMessage
<1>5. LastSent' = IF q = <<>> THEN submitted ELSE Head(q)
  BY <1>4 DEF LastSent
<1>6. w \in [cmd : Cmds, then : Continuations] /\ (q # <<>> => w.cmd = Head(q))
  BY <1>2, <1>3
<1>7. LastSent' \in Int /\ LastSent <= LastSent'
  BY <1>2, <1>3, <1>5
<1>8. q # <<>> => LastSent < w.cmd
  BY <1>2, <1>3, <1>6
<1>. HIDE DEF w, q
<1>. QED
  BY <1>4, <1>6, <1>7, <1>8, WritesGrow

LEMMA WrittenSent ==
  ASSUME IInv, Sent, writes # <<>>, writes' = Tail(writes),
         UNCHANGED <<submitted, messageQueue, executed>>,
         wire' = wire \/ wire' = Append(wire, Head(writes).cmd)
  PROVE  Sent'
<1>. DEFINE w == Head(writes).cmd
<1>1. /\ Head(writes) = writes[1]
      /\ Len(writes) \in Nat \ {0}
      /\ Len(writes') = Len(writes) - 1
      /\ \A i \in 1..Len(writes') : i + 1 \in 1..Len(writes) /\ writes'[i] = writes[i + 1]
      /\ w \in Cmds
  BY WriteTail
<1>2. LastSent' = LastSent
  BY DEF LastSent
<1>3. \A j \in 1..Len(writes') : w < writes'[j].cmd
  BY <1>1 DEF Sent
<1>4. /\ \A i \in 1..Len(executed) : executed[i] < w
      /\ \A i \in 1..Len(wire) : wire[i] < w
  BY <1>1 DEF Sent
<1>5. \A i, j \in 1..Len(writes') : i < j => writes'[i].cmd < writes'[j].cmd
  BY <1>1 DEF Sent
<1>6. /\ \A i \in 1..Len(executed), j \in 1..Len(writes') : executed[i] < writes'[j].cmd
      /\ \A i \in 1..Len(wire), j \in 1..Len(writes') : wire[i] < writes'[j].cmd
  BY <1>1 DEF Sent
<1>7. CASE wire' = wire
  BY <1>2, <1>5, <1>6, <1>7 DEF Sent
<1>8. CASE wire' = Append(wire, w)
  <2>1. wire \in Seq(Cmds)
    BY Sequences
  <2>2. /\ Len(wire') = Len(wire) + 1
        /\ Len(wire) \in Nat
        /\ \A i \in 1..Len(wire) : wire'[i] = wire[i]
        /\ wire'[Len(wire) + 1] = w
    BY <1>1, <1>8, <2>1, AppendFacts
  <2>3. \A i \in 1..Len(wire') : \/ i \in 1..Len(wire) /\ wire'[i] = wire[i]
                                 \/ i = Len(wire) + 1 /\ wire'[i] = w
    BY <2>2
  <2>. HIDE DEF w
  <2>4. \A i, j \in 1..Len(wire') : i < j => wire'[i] < wire'[j]
    BY <1>4, <2>2, <2>3 DEF Sent
  <2>5. \A i \in 1..Len(executed), j \in 1..Len(wire') : executed[i] < wire'[j]
    BY <1>4, <2>3 DEF Sent
  <2>6. \A i \in 1..Len(wire'), j \in 1..Len(writes') : wire'[i] < writes'[j].cmd
    BY <1>3, <1>6, <2>3
  <2>. QED
    BY <1>2, <1>5, <1>6, <2>4, <2>5, <2>6 DEF Sent
<1>. QED
  BY <1>7, <1>8

LEMMA RemoteSent == IInv /\ Sent /\ (RemoteExecute \/ RemoteIgnore) => Sent'
<1>. SUFFICES ASSUME IInv, Sent, RemoteExecute \/ RemoteIgnore PROVE Sent'
  OBVIOUS
<1>. DEFINE c == Head(wire)
<1>1. wire # <<>> /\ wire' = Tail(wire) /\ wire \in Seq(Cmds)
  BY Sequences DEF RemoteExecute, RemoteIgnore
<1>2. /\ c \in Cmds
      /\ c = wire[1]
      /\ Len(wire) \in Nat \ {0}
      /\ Len(wire') = Len(wire) - 1
      /\ \A i \in 1..Len(wire') : i + 1 \in 1..Len(wire) /\ wire'[i] = wire[i + 1]
  BY <1>1, TailFacts
<1>3. LastSent' = LastSent /\ writes' = writes
  BY DEF RemoteExecute, RemoteIgnore, clientVars, LastSent
<1>4. /\ \A i \in 1..Len(executed) : executed[i] < c
      /\ \A j \in 1..Len(wire') : c < wire'[j]
      /\ \A j \in 1..Len(writes) : c < writes[j].cmd
      /\ c <= LastSent
  BY <1>2 DEF Sent, IInv, NothingAhead
<1>5. /\ \A i, j \in 1..Len(wire') : i < j => wire'[i] < wire'[j]
      /\ \A i \in 1..Len(wire'), j \in 1..Len(writes) : wire'[i] < writes[j].cmd
      /\ \A i \in 1..Len(executed), j \in 1..Len(wire') : executed[i] < wire'[j]
  <2>1. \A i, j \in 1..Len(wire') : i < j => wire[i + 1] < wire[j + 1]
    BY <1>2 DEF Sent
  <2>2. /\ \A i \in 1..Len(wire'), j \in 1..Len(writes) : wire[i + 1] < writes[j].cmd
        /\ \A i \in 1..Len(executed), j \in 1..Len(wire') : executed[i] < wire[j + 1]
    BY <1>2 DEF Sent
  <2>. QED
    BY <1>2, <2>1, <2>2
<1>6. CASE RemoteIgnore
  BY <1>3, <1>5, <1>6 DEF RemoteIgnore, Sent
<1>7. CASE RemoteExecute
  <2>1. executed' = Append(executed, c) /\ executed \in Seq(Cmds)
    BY <1>7, Sequences DEF RemoteExecute
  <2>2. /\ Len(executed') = Len(executed) + 1
        /\ Len(executed) \in Nat
        /\ \A i \in 1..Len(executed) : executed'[i] = executed[i]
        /\ executed'[Len(executed) + 1] = c
    BY <1>2, <2>1, AppendFacts
  <2>3. \A i \in 1..Len(executed') : \/ i \in 1..Len(executed) /\ executed'[i] = executed[i]
                                     \/ i = Len(executed) + 1 /\ executed'[i] = c
    BY <2>2
  <2>. HIDE DEF c
  <2>4. \A i, j \in 1..Len(executed') : i < j => executed'[i] < executed'[j]
    BY <1>4, <2>2, <2>3 DEF Sent
  <2>5. \A i \in 1..Len(executed') : executed'[i] <= LastSent
    BY <1>4, <2>3 DEF Sent
  <2>6. /\ \A i \in 1..Len(executed'), j \in 1..Len(wire') : executed'[i] < wire'[j]
        /\ \A i \in 1..Len(executed'), j \in 1..Len(writes) : executed'[i] < writes[j].cmd
    BY <1>4, <1>5, <2>3 DEF Sent
  <2>. QED
    BY <1>3, <1>5, <2>4, <2>5, <2>6 DEF Sent
<1>. QED
  BY <1>6, <1>7

LEMMA SentStep == IInv /\ Sent /\ [Next]_vars => Sent'
<1>. SUFFICES ASSUME IInv, Sent, [Next]_vars PROVE Sent'
  OBVIOUS
<1>1. CASE SendDzrpCmd
  BY <1>1, SendSent
<1>2. CASE WriteDone \/ WriteFailed
  BY <1>2, WrittenSent DEF WriteDone, WriteFailed, remoteVars
<1>3. CASE CmdRespTimeout
  <2>1. messageQueue # <<>>
    BY <1>3 DEF IInv, CmdRespTimeout
  <2>2. Continuation(Head(messageQueue), Rejected) \in Continuations
    BY <2>1, HeadFacts, ContinuationType
  <2>. QED
    BY <1>3, <2>1, <2>2, ShiftSent DEF CmdRespTimeout, remoteVars
<1>4. CASE ResponseReceived
  <2>1. messageQueue # <<>> /\ Head(received) \in Cmds
    BY <1>4, ConsumedFacts DEF ResponseReceived
  <2>2. Continuation(Head(messageQueue), Resolved(Head(received))) \in Continuations
    BY <2>1, HeadFacts, ContinuationType
  <2>. QED
    BY <1>4, <2>1, <2>2, ShiftSent DEF ResponseReceived, remoteVars
<1>5. CASE DataReceived \/ ResponseWithoutRequest \/ WrongSeqNo \/ UNCHANGED vars
  <2>1. UNCHANGED <<submitted, messageQueue, writes, wire, executed>>
    BY <1>5 DEF DataReceived, ResponseWithoutRequest, WrongSeqNo, vars, remoteVars
  <2>. QED
    BY <2>1 DEF Sent, LastSent
<1>6. CASE RemoteExecute \/ RemoteIgnore
  BY <1>6, RemoteSent
<1>. QED
  BY <1>1, <1>2, <1>3, <1>4, <1>5, <1>6 DEF Next, ReceivedMsg

(* What was executed stays executed. *)
LEMMA ExecutedGrows ==
  ASSUME IInv, [Next]_vars, NEW r, Among(r, executed)
  PROVE  Among(r, executed')
<1>1. CASE UNCHANGED executed
  BY <1>1 DEF Among
<1>2. CASE RemoteExecute
  <2>1. executed' = Append(executed, Head(wire)) /\ executed \in Seq(Cmds) /\ Head(wire) \in Cmds
    BY <1>2, TailFacts, Sequences DEF RemoteExecute
  <2>2. /\ Len(executed') = Len(executed) + 1
        /\ Len(executed) \in Nat
        /\ \A i \in 1..Len(executed) : executed'[i] = executed[i]
    BY <2>1, AppendFacts
  <2>. QED
    BY <2>2 DEF Among
<1>. QED
  BY <1>1, <1>2 DEF Next, vars, SendDzrpCmd, WriteDone, WriteFailed, CmdRespTimeout, DataReceived,
     ReceivedMsg, ResponseWithoutRequest, WrongSeqNo, ResponseReceived, RemoteIgnore, remoteVars

(* Every outcome is the one from before, or the one a continuation has     *)
(* carried, or Rejected; a settled one stays.                              *)
Settling(o) ==
  \A d \in Cmds : outcome'[d] # outcome[d] => outcome[d] = Pending /\ outcome'[d] \in {Rejected, o}

LEMMA SettlingOne ==
  ASSUME IInv, NEW k \in Continuations, outcome' = Settle(outcome, k)
  PROVE  Settling(k.as)
BY SettleFacts DEF IInv, TypeOK, Settling

(* An answer that the remote has given may go to a promise. *)
LEMMA SettlingAnswered ==
  ASSUME IInv, Answered, UNCHANGED executed, NEW o, Settling(o),
         \A r \in Cmds : o = Resolved(r) => Among(r, executed)
  PROVE  \A c, r \in Cmds : outcome'[c] = Resolved(r) => Among(r, executed')
<1>1. \A r \in Cmds : Rejected # Resolved(r)
  BY DEF Rejected, Resolved
<1>2. \A r : Among(r, executed) => Among(r, executed')
  BY DEF Among
<1>. QED
  BY <1>1, <1>2 DEF Settling, Answered

(* The steps of the client, in one: what is received was a reply, what is  *)
(* still to be written or was settled carries an executed answer or none.  *)
LEMMA AnsweredKept ==
  ASSUME IInv, Answered, UNCHANGED executed,
         NEW o, Settling(o), \A r \in Cmds : o = Resolved(r) => Among(r, executed),
         \A i \in 1..Len(replies') : Among(replies'[i], executed),
         \A i \in 1..Len(received') : Among(received'[i], executed),
         \A i \in 1..Len(writes') : \/ \E j \in 1..Len(writes) : writes'[i] = writes[j]
                                    \/ writes'[i].then.as \in {Pending, o}
  PROVE  Answered'
<1>1. \A r : Among(r, executed') <=> Among(r, executed)
  BY DEF Among
<1>2. \A c, r \in Cmds : outcome'[c] = Resolved(r) => Among(r, executed')
  BY SettlingAnswered
<1>3. \A r \in Cmds : Pending # Resolved(r)
  BY DEF Pending, Resolved
<1>4. ASSUME NEW i \in 1..Len(writes'), NEW r \in Cmds, writes'[i].then.as = Resolved(r)
      PROVE  Among(r, executed)
  BY <1>3, <1>4 DEF Answered
<1>. QED
  BY <1>1, <1>2, <1>4 DEF Answered

(* The sequence of which the first member is taken, or a new one put last. *)
LEMMA MembersOf ==
  ASSUME NEW S, NEW s \in Seq(S)
  PROVE  /\ s # <<>> => /\ \E j \in 1..Len(s) : Head(s) = s[j]
                        /\ \A i \in 1..Len(Tail(s)) : \E j \in 1..Len(s) : Tail(s)[i] = s[j]
         /\ \A e \in S : \A i \in 1..Len(Append(s, e)) :
              \/ \E j \in 1..Len(s) : Append(s, e)[i] = s[j]
              \/ Append(s, e)[i] = e
<1>1. ASSUME s # <<>>
      PROVE  /\ \E j \in 1..Len(s) : Head(s) = s[j]
             /\ \A i \in 1..Len(Tail(s)) : \E j \in 1..Len(s) : Tail(s)[i] = s[j]
  <2>1. /\ Head(s) = s[1]
        /\ Len(s) \in Nat \ {0}
        /\ Len(Tail(s)) = Len(s) - 1
        /\ \A i \in 1..Len(Tail(s)) : Tail(s)[i] = s[i + 1]
    BY <1>1, TailFacts
  <2>2. \A i \in 1..Len(Tail(s)) : i + 1 \in 1..Len(s)
    BY <2>1
  <2>. QED
    BY <2>1, <2>2
<1>2. ASSUME NEW e \in S
      PROVE  \A i \in 1..Len(Append(s, e)) :
               \/ \E j \in 1..Len(s) : Append(s, e)[i] = s[j]
               \/ Append(s, e)[i] = e
  BY AppendFacts
<1>. QED
  BY <1>1, <1>2

LEMMA SendOutcome ==
  ASSUME IInv, NEW q \in Seq(Cmds), NEW k \in Continuations, SendNextMessage(q, k)
  PROVE  /\ Settling(k.as)
         /\ \A i \in 1..Len(writes') : \/ \E j \in 1..Len(writes) : writes'[i] = writes[j]
                                       \/ writes'[i].then.as \in {Pending, k.as}
<1>. DEFINE w == [cmd |-> Head(q), then |-> k]
<1>1. CASE q = <<>>
  BY <1>1, SettlingOne DEF SendNextMessage
<1>2. CASE q # <<>>
  <2>1. Settling(k.as)
    BY <1>2 DEF SendNextMessage, Settling
  <2>2. w \in [cmd : Cmds, then : Continuations] /\ w.then = k
    BY <1>2, TailFacts
  <2>3. writes' = Append(writes, w)
    BY <1>2 DEF SendNextMessage
  <2>. HIDE DEF w
  <2>. QED
    BY <2>1, <2>2, <2>3, MembersOf, Sequences
<1>. QED
  BY <1>1, <1>2

LEMMA AnsweredStep == IInv /\ Answered /\ [Next]_vars => Answered'
<1>. SUFFICES ASSUME IInv, Answered, [Next]_vars PROVE Answered'
  OBVIOUS
<1>. USE Sequences
<1>1. CASE SendDzrpCmd
  <2>1. Nothing \in Continuations /\ Nothing.as = Pending
    BY ContinuationType DEF Nothing, Continuation
  <2>2. submitted' \in Cmds /\ messageQueue \in Seq(Cmds)
    <3>1. submitted \in 0..MaxCmds /\ submitted < MaxCmds /\ submitted' = submitted + 1
      BY <1>1 DEF SendDzrpCmd, IInv, TypeOK
    <3>. QED
      BY <3>1, QueueAssumption DEF IInv, TypeOK, Cmds
  <2>3. Append(messageQueue, submitted') \in Seq(Cmds)
    BY <2>2
  <2>4. \/ SendNextMessage(Append(messageQueue, submitted'), Nothing)
        \/ UNCHANGED <<writes, outcome>>
    BY <1>1 DEF SendDzrpCmd
  <2>5. /\ Settling(Pending)
        /\ \A i \in 1..Len(writes') : \/ \E j \in 1..Len(writes) : writes'[i] = writes[j]
                                      \/ writes'[i].then.as \in {Pending, Pending}
    <3>1. CASE SendNextMessage(Append(messageQueue, submitted'), Nothing)
      BY <2>1, <2>3, <3>1, SendOutcome
    <3>2. CASE UNCHANGED <<writes, outcome>>
      BY <3>2 DEF Settling
    <3>. QED
      BY <2>4, <3>1, <3>2
  <2>6. UNCHANGED <<executed, replies, received>>
    BY <1>1 DEF SendDzrpCmd, remoteVars
  <2>7. \A r \in Cmds : Pending # Resolved(r)
    BY DEF Pending, Resolved
  <2>. QED
    BY <2>5, <2>6, <2>7, AnsweredKept DEF Answered
<1>2. CASE WriteDone
  <2>. DEFINE k == Head(writes).then
  <2>1. /\ Head(writes) = writes[1]
        /\ 1 \in 1..Len(writes)
        /\ k \in Continuations
        /\ \A i \in 1..Len(writes') : i + 1 \in 1..Len(writes) /\ writes'[i] = writes[i + 1]
    BY <1>2, WriteTail DEF WriteDone
  <2>2. outcome' = Settle(outcome, k)
    BY <1>2 DEF WriteDone
  <2>3. \A r \in Cmds : k.as = Resolved(r) => Among(r, executed)
    BY <2>1 DEF Answered
  <2>. HIDE DEF k
  <2>4. Settling(k.as)
    BY <2>1, <2>2, SettlingOne
  <2>5. UNCHANGED <<executed, replies, received>>
    BY <1>2 DEF WriteDone
  <2>6. \A i \in 1..Len(writes') : \E j \in 1..Len(writes) : writes'[i] = writes[j]
    BY <2>1
  <2>. QED
    BY <2>3, <2>4, <2>5, <2>6, AnsweredKept DEF Answered
<1>3. CASE WriteFailed
  <2>. DEFINE k == Head(writes).then
              rejection == Continuation(Head(writes).cmd, Rejected)
              between == Settle(outcome, rejection)
  <2>1. /\ Head(writes) = writes[1]
        /\ 1 \in 1..Len(writes)
        /\ k \in Continuations
        /\ Head(writes).cmd \in Cmds
        /\ \A i \in 1..Len(writes') : i + 1 \in 1..Len(writes) /\ writes'[i] = writes[i + 1]
    BY <1>3, WriteTail DEF WriteFailed
  <2>2. outcome' = Settle(between, k) /\ outcome \in [Cmds -> Outcomes]
    BY <1>3 DEF WriteFailed, IInv, TypeOK
  <2>3. \A r \in Cmds : k.as = Resolved(r) => Among(r, executed)
    BY <2>1 DEF Answered
  <2>4. rejection \in Continuations /\ rejection.as = Rejected
    BY <2>1, ContinuationType DEF Continuation
  <2>. HIDE DEF k, rejection
  <2>5. /\ between \in [Cmds -> Outcomes]
        /\ \A d \in Cmds : between[d] = outcome[d] \/ between[d] = Rejected
        /\ \A d \in Cmds : outcome[d] # Pending => between[d] = outcome[d]
    BY <2>2, <2>4, SettleFacts DEF IInv
  <2>. HIDE DEF between
  <2>6. /\ \A d \in Cmds : outcome'[d] = between[d] \/ outcome'[d] = k.as
        /\ \A d \in Cmds : between[d] # Pending => outcome'[d] = between[d]
    BY <2>1, <2>2, <2>5, SettleFacts DEF IInv
  <2>7. Settling(k.as)
    BY <2>5, <2>6 DEF Settling, Rejected, Pending
  <2>8. UNCHANGED <<executed, replies, received>>
    BY <1>3 DEF WriteFailed, remoteVars
  <2>9. \A i \in 1..Len(writes') : \E j \in 1..Len(writes) : writes'[i] = writes[j]
    BY <2>1
  <2>. QED
    BY <2>3, <2>7, <2>8, <2>9, AnsweredKept DEF Answered
<1>4. CASE CmdRespTimeout
  <2>. DEFINE k == Continuation(Head(messageQueue), Rejected)
  <2>1. messageQueue # <<>>
    BY <1>4 DEF IInv, CmdRespTimeout
  <2>2. k \in Continuations /\ k.as = Rejected /\ Tail(messageQueue) \in Seq(Cmds)
    BY <2>1, HeadFacts, ContinuationType, TailFacts DEF Continuation, IInv, TypeOK
  <2>3. SendNextMessage(Tail(messageQueue), k)
    BY <1>4 DEF CmdRespTimeout
  <2>. HIDE DEF k
  <2>4. /\ Settling(k.as)
        /\ \A i \in 1..Len(writes') : \/ \E j \in 1..Len(writes) : writes'[i] = writes[j]
                                      \/ writes'[i].then.as \in {Pending, k.as}
    BY <2>2, <2>3, SendOutcome
  <2>5. UNCHANGED <<executed, replies, received>>
    BY <1>4 DEF CmdRespTimeout, remoteVars
  <2>6. \A r \in Cmds : k.as # Resolved(r)
    BY <2>2 DEF Rejected, Resolved
  <2>. QED
    BY <2>4, <2>5, <2>6, AnsweredKept DEF Answered
<1>5. CASE DataReceived
  <2>1. /\ replies # <<>> /\ replies \in Seq(Cmds) /\ received \in Seq(Cmds)
        /\ replies' = Tail(replies) /\ received' = Append(received, Head(replies))
        /\ Head(replies) \in Cmds
    BY <1>5, TailFacts DEF DataReceived
  <2>2. /\ \E j \in 1..Len(replies) : Head(replies) = replies[j]
        /\ \A i \in 1..Len(replies') : \E j \in 1..Len(replies) : replies'[i] = replies[j]
    BY <2>1, MembersOf
  <2>3. \A i \in 1..Len(received') : \/ \E j \in 1..Len(received) : received'[i] = received[j]
                                     \/ received'[i] = Head(replies)
    BY <2>1, MembersOf
  <2>4. /\ \A i \in 1..Len(replies') : Among(replies'[i], executed)
        /\ \A i \in 1..Len(received') : Among(received'[i], executed)
    BY <2>2, <2>3 DEF Answered
  <2>5. UNCHANGED <<executed, writes, outcome>>
    BY <1>5 DEF DataReceived
  <2>6. Settling(Rejected) /\ \A r \in Cmds : Rejected # Resolved(r)
    BY <2>5 DEF Settling, Rejected, Resolved
  <2>. QED
    BY <2>4, <2>5, <2>6, AnsweredKept
<1>6. CASE WrongSeqNo
  <2>1. /\ received # <<>> /\ received' = Tail(received) /\ messageQueue # <<>>
    BY <1>6 DEF WrongSeqNo, Consumed, IInv, ParsingHasData
  <2>2. \A i \in 1..Len(received') : \E j \in 1..Len(received) : received'[i] = received[j]
    BY <2>1, MembersOf
  <2>3. Continuation(Head(messageQueue), Rejected) \in Continuations
        /\ Continuation(Head(messageQueue), Rejected).as = Rejected
    BY <2>1, HeadFacts, ContinuationType DEF Continuation
  <2>4. Settling(Rejected)
    BY <1>6, <2>3, SettlingOne DEF WrongSeqNo
  <2>5. UNCHANGED <<executed, replies, writes>>
    BY <1>6 DEF WrongSeqNo, remoteVars
  <2>6. \A r \in Cmds : Rejected # Resolved(r)
    BY DEF Rejected, Resolved
  <2>. QED
    BY <2>2, <2>4, <2>5, <2>6, AnsweredKept DEF Answered
<1>7. CASE ResponseReceived
  <2>. DEFINE r == Head(received)
              k == Continuation(Head(messageQueue), Resolved(r))
  <2>1. /\ received # <<>> /\ received' = Tail(received) /\ messageQueue # <<>> /\ r \in Cmds
    BY <1>7, ConsumedFacts DEF ResponseReceived, Consumed, IInv, ParsingHasData
  <2>2. /\ \E j \in 1..Len(received) : Head(received) = received[j]
        /\ \A i \in 1..Len(received') : \E j \in 1..Len(received) : received'[i] = received[j]
    BY <2>1, MembersOf
  <2>3. Among(r, executed)
    BY <2>2 DEF Answered
  <2>4. k \in Continuations /\ k.as = Resolved(r) /\ Tail(messageQueue) \in Seq(Cmds)
    BY <2>1, HeadFacts, ContinuationType, TailFacts DEF Continuation, IInv, TypeOK
  <2>5. SendNextMessage(Tail(messageQueue), k)
    BY <1>7 DEF ResponseReceived
  <2>. HIDE DEF k, r
  <2>6. /\ Settling(k.as)
        /\ \A i \in 1..Len(writes') : \/ \E j \in 1..Len(writes) : writes'[i] = writes[j]
                                      \/ writes'[i].then.as \in {Pending, k.as}
    BY <2>4, <2>5, SendOutcome
  <2>7. UNCHANGED <<executed, replies>>
    BY <1>7 DEF ResponseReceived, remoteVars
  <2>8. \A s \in Cmds : k.as = Resolved(s) => Among(s, executed)
    BY <2>3, <2>4 DEF Resolved
  <2>. QED
    BY <2>2, <2>6, <2>7, <2>8, AnsweredKept DEF Answered
<1>8. CASE RemoteExecute
  <2>1. /\ executed' = Append(executed, Head(wire)) /\ replies' = Append(replies, Head(wire))
        /\ Head(wire) \in Cmds /\ UNCHANGED clientVars
    BY <1>8, TailFacts DEF RemoteExecute
  <2>2. Len(executed') = Len(executed) + 1 /\ executed'[Len(executed) + 1] = Head(wire)
    BY <2>1, AppendFacts
  <2>5. Len(executed) + 1 \in 1..Len(executed')
    BY <2>2
  <2>3. Among(Head(wire), executed')
    BY <2>2, <2>5 DEF Among
  <2>4. \A i \in 1..Len(replies') : \/ \E j \in 1..Len(replies) : replies'[i] = replies[j]
                                    \/ replies'[i] = Head(wire)
    BY <2>1, MembersOf
  <2>6. \A r : Among(r, executed) => Among(r, executed')
    BY ExecutedGrows
  <2>7. \A i \in 1..Len(replies') : Among(replies'[i], executed')
    BY <2>3, <2>4, <2>6 DEF Answered
  <2>. QED
    BY <2>1, <2>6, <2>7 DEF Answered, clientVars
<1>9. CASE RemoteIgnore \/ ResponseWithoutRequest \/ UNCHANGED vars
  <2>1. UNCHANGED <<executed, replies, received, writes, outcome>>
    BY <1>9 DEF RemoteIgnore, ResponseWithoutRequest, vars, clientVars, remoteVars
  <2>. QED
    BY ONLY <2>1, Answered DEF Answered, Among
<1>. QED
  BY <1>1, <1>2, <1>3, <1>4, <1>5, <1>6, <1>7, <1>8, <1>9 DEF Next, ReceivedMsg

LEMMA Delivery == Spec => [](IInv /\ Sent /\ Answered)
<1>1. Init => IInv /\ Sent /\ Answered
  BY InitIInv, InitSent
<1>2. Sent /\ IInv /\ [Next]_vars => Sent'
  BY SentStep
<1>3. Answered /\ IInv /\ [Next]_vars => Answered'
  BY AnsweredStep
<1>. QED
  BY <1>1, <1>2, <1>3, Inductive, PTL DEF Spec

(* The remote carries out every command at most once and in the order of   *)
(* the calls, whatever times out, fails or is ignored.                     *)
THEOREM InOrder == Spec => []ExecutedInOrder
<1>1. Sent => ExecutedInOrder
  BY DEF Sent, ExecutedInOrder
<1>. QED
  BY Delivery, <1>1, PTL

-----------------------------------------------------------------------------
(* The step of a client that settles promises is a Return of the service.  *)
LEMMA ReturnStep ==
  ASSUME IInv, IInv', Answered', UNCHANGED <<submitted, executed>>,
         \A c \in Cmds : outcome[c] # Pending => outcome'[c] = outcome[c]
  PROVE  Service!Return
<1>. USE DEF Service!Cmds, Cmds
<1>1. outcome' \in [Service!Cmds -> Service!Outcomes]
  BY DEF IInv, TypeOK, Outcomes, Service!Outcomes, Pending, Rejected, Resolved,
         Service!Pending, Service!Rejected, Service!Resolved
<1>2. ASSUME NEW c \in Cmds, outcome'[c] # outcome[c]
      PROVE  /\ c <= submitted
             /\ outcome[c] = Service!Pending
             /\ outcome'[c] \in {Service!Rejected} \cup Service!Answer(c)
  <2>1. outcome[c] = Pending /\ outcome'[c] # Pending
    BY <1>2
  <2>2. c <= submitted
    <3>1. c > submitted => outcome'[c] = Pending
      BY DEF IInv, UncalledPending
    <3>. QED
      BY <2>1, <3>1, Sequences, QueueAssumption
  <2>3. CASE outcome'[c] = Rejected
    BY <2>1, <2>2, <2>3 DEF Pending, Service!Pending, Rejected, Service!Rejected
  <2>4. CASE \E r \in Cmds : outcome'[c] = Resolved(r)
    <3>1. PICK r \in Cmds : outcome'[c] = Resolved(r)
      BY <2>4
    <3>2. r = c \/ c - r >= SeqMax
      BY <3>1 DEF IInv, OwnResponse
    <3>3. PICK j \in 1..Len(executed) : executed[j] = r
      BY <3>1 DEF Answered, Among
    <3>4. outcome'[c] \in Service!Answer(c)
      BY <3>1, <3>2, <3>3 DEF Service!Answer, Service!Resolved, Resolved
    <3>. QED
      BY <2>1, <2>2, <3>4 DEF Pending, Service!Pending
  <2>5. outcome'[c] \in Outcomes
    BY DEF IInv, TypeOK
  <2>. QED
    BY <2>1, <2>3, <2>4, <2>5 DEF Outcomes
<1>. QED
  BY <1>1, <1>2 DEF Service!Return

LEMMA ServiceStep ==
  IInv /\ Sent /\ Answered /\ IInv' /\ Answered' /\ [Next]_vars
    => [Service!Next]_<<submitted, executed, outcome>>
<1>. SUFFICES ASSUME IInv, Sent, Answered, IInv', Answered', [Next]_vars
              PROVE  [Service!Next]_<<submitted, executed, outcome>>
  OBVIOUS
<1>1. CASE SendDzrpCmd
  <2>1. UNCHANGED <<executed, outcome>>
    BY <1>1 DEF SendDzrpCmd, SendNextMessage, Settle, Nothing, Continuation, remoteVars
  <2>. QED
    BY <1>1, <2>1 DEF SendDzrpCmd, Service!Next, Service!Call
<1>2. CASE RemoteExecute
  <2>1. executed' = Append(executed, Head(wire)) /\ UNCHANGED <<submitted, outcome>>
    BY <1>2 DEF RemoteExecute, clientVars
  <2>2. Head(wire) \in Cmds /\ Head(wire) = wire[1] /\ 1 \in 1..Len(wire)
    BY <1>2, TailFacts, Sequences DEF RemoteExecute
  <2>3. \A i \in 1..Len(executed) : executed[i] < Head(wire)
    BY <2>2 DEF Sent
  <2>4. Head(wire) \in 1..submitted
    <3>1. Head(wire) <= LastSent
      BY <2>2 DEF IInv, NothingAhead
    <3>. QED
      BY <2>2, <3>1, Sequences, QueueAssumption DEF Cmds
  <2>. QED
    BY <2>1, <2>3, <2>4 DEF Service!Next, Service!Execute
<1>3. CASE WriteDone \/ WriteFailed \/ CmdRespTimeout \/ WrongSeqNo \/ ResponseReceived
  <2>1. UNCHANGED <<submitted, executed>>
    BY <1>3 DEF WriteDone, WriteFailed, CmdRespTimeout, WrongSeqNo, ResponseReceived, remoteVars
  <2>2. \A c \in Cmds : outcome[c] # Pending => outcome'[c] = outcome[c]
    BY <1>3 DEF WriteDone, WriteFailed, CmdRespTimeout, WrongSeqNo, ResponseReceived,
       SendNextMessage, Settle, IInv, TypeOK
  <2>. QED
    BY <2>1, <2>2, ReturnStep DEF Service!Next
<1>4. CASE DataReceived \/ ResponseWithoutRequest \/ RemoteIgnore \/ UNCHANGED vars
  BY <1>4 DEF DataReceived, ResponseWithoutRequest, RemoteIgnore, vars, clientVars, remoteVars
<1>. QED
  BY <1>1, <1>2, <1>3, <1>4 DEF Next, ReceivedMsg

(* The queue implements the service: to the callers of sendDzrpCmd it is a *)
(* remote procedure call, executed at most once and in order, whose        *)
(* promise is settled at most once and with the answer to the call.        *)
THEOREM Implements == Spec => ServiceSpec
<1>1. Init => Service!Init
  BY DEF Init, Service!Init, Cmds, Service!Cmds, Pending, Service!Pending
<1>2. IInv /\ Sent /\ Answered /\ IInv' /\ Answered' /\ [Next]_vars
        => [Service!Next]_<<submitted, executed, outcome>>
  BY ServiceStep
<1>. QED
  BY <1>1, <1>2, Delivery, PTL DEF Spec, ServiceSpec, Service!Spec
=============================================================================
