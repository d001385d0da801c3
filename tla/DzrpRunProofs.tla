---------------------------- MODULE DzrpRunProofs ----------------------------
(***************************************************************************)
(* Proofs about the run control of the DZRP remotes, for any addresses and *)
(* any number of pauses: a stop that is shown is one, no break is dropped, *)
(* and the remote has the breakpoints of the list.                         *)
(***************************************************************************)
EXTENDS MCDzrp, TLAPS

(* The messages on their way. *)
Has(s, M)       == \E i \in 1..Len(s) : s[i] \in M
AtMostOne(s, M) == \A i, j \in 1..Len(s) : s[i] \in M /\ s[j] \in M => i = j

AnyAddr    == Addrs \cup {NoAddr}
Resumes    == [type : {"continue", "step"}, addr : AnyAddr]
Adding(a)   == {Run!Message("add", a)}
Removing(a) == {Run!Message("remove", a)}
EditsOf(a)  == Adding(a) \cup Removing(a)
Edits      == [type : {"add", "remove"}, addr : Addrs]

(* Every message that is an edit is the edit of an address. *)
RemoteMessages == Resumes \cup [type : {"pause", "read"}, addr : AnyAddr] \cup Edits
ClientMessages == Run!Breaks \cup [type : {"read"}, addr : AnyAddr] \cup Edits

Addressed == toRemote \in Seq(RemoteMessages) /\ toClient \in Seq(ClientMessages)

(* Between two requests nobody awaits a break, and none can come: there is *)
(* nothing on the way that makes the program run, and it does not run.     *)
(* Otherwise there is one of these three: the command to run, the running  *)
(* program, the notification of its break.                                 *)
OneRun ==
  /\ funcContinueResolve => handler = "none"
  /\ funcContinueResolve \/ handler # "none" <=> processing = "running"
  /\ continueResolve <=> processing = "running"
  /\ funcContinueResolve \/
       (~running /\ ~Has(toRemote, Resumes) /\ ~Has(toClient, Run!Breaks))
  /\ AtMostOne(toRemote, Resumes)
  /\ AtMostOne(toClient, Run!Breaks)
  /\ Has(toRemote, Resumes) => ~running /\ ~Has(toClient, Run!Breaks)
  /\ running => ~Has(toClient, Run!Breaks)

(* An edit of a is under way once: as a command or as its answer, and the  *)
(* remote has carried it out in between.                                   *)
OneEdit(a) ==
  /\ Has(toRemote, Adding(a)) => bpOp[a] = "adding" /\ a \notin remoteBps
  /\ Has(toRemote, Removing(a)) => bpOp[a] = "removing" /\ a \in remoteBps
  /\ Has(toClient, Adding(a)) => bpOp[a] = "adding" /\ a \in remoteBps
  /\ Has(toClient, Removing(a)) => bpOp[a] = "removing" /\ a \notin remoteBps
  /\ AtMostOne(toRemote, EditsOf(a))
  /\ AtMostOne(toClient, EditsOf(a))
  /\ ~(Has(toRemote, EditsOf(a)) /\ Has(toClient, EditsOf(a)))

(* The list has no address that is being edited or was orphaned.           *)
Listed(a) ==
  /\ bpOp[a] # "none" \/ a \in orphans => a \notin breakpoints
  /\ a \in orphans => bpOp[a] = "none"
  /\ bpOp[a] = "none" /\ a \notin orphans => (a \in breakpoints <=> a \in remoteBps)

EditInv == \A a \in Addrs : OneEdit(a) /\ Listed(a)

RunInv == Run!TypeOK /\ Addressed /\ OneRun /\ EditInv

-----------------------------------------------------------------------------
(* A message is put last or the first one is taken. *)
LEMMA AppendMember ==
  ASSUME NEW S, NEW s \in Seq(S), NEW e \in S, NEW M
  PROVE  /\ Has(Append(s, e), M) <=> Has(s, M) \/ e \in M
         /\ AtMostOne(Append(s, e), M) <=> AtMostOne(s, M) /\ (e \in M => ~Has(s, M))
<1>1. /\ Len(s) \in Nat
      /\ Len(Append(s, e)) = Len(s) + 1
      /\ \A i \in 1..Len(s) : Append(s, e)[i] = s[i]
      /\ Append(s, e)[Len(s) + 1] = e
  OBVIOUS
<1>2. \A i \in 1..Len(Append(s, e)) : i \in 1..Len(s) \/ i = Len(s) + 1
  BY <1>1
<1>3. \A i \in 1..Len(s) : i \in 1..Len(Append(s, e)) /\ i # Len(s) + 1
  BY <1>1
<1>4. Len(s) + 1 \in 1..Len(Append(s, e))
  BY <1>1
<1>. QED
  BY <1>1, <1>2, <1>3, <1>4 DEF Has, AtMostOne

LEMMA TailMember ==
  ASSUME NEW S, NEW s \in Seq(S), s # <<>>, NEW M
  PROVE  /\ Head(s) \in S
         /\ Has(s, M) <=> Has(Tail(s), M) \/ Head(s) \in M
         /\ AtMostOne(s, M) => AtMostOne(Tail(s), M) /\ (Head(s) \in M => ~Has(Tail(s), M))
<1>1. /\ Head(s) \in S
      /\ Head(s) = s[1]
      /\ Len(s) \in Nat \ {0}
      /\ Len(Tail(s)) = Len(s) - 1
      /\ \A i \in 1..Len(Tail(s)) : Tail(s)[i] = s[i + 1]
  OBVIOUS
<1>2. \A i \in 1..Len(Tail(s)) : i + 1 \in 1..Len(s) /\ i + 1 # 1
  BY <1>1
<1>3. \A i \in 1..Len(s) : i = 1 \/ (i - 1 \in 1..Len(Tail(s)) /\ Tail(s)[i - 1] = s[i])
  BY <1>1
<1>4. 1 \in 1..Len(s)
  BY <1>1
<1>5. Has(s, M) <=> Has(Tail(s), M) \/ Head(s) \in M
  BY <1>1, <1>2, <1>3, <1>4 DEF Has
<1>6. ASSUME AtMostOne(s, M)
      PROVE  AtMostOne(Tail(s), M) /\ (Head(s) \in M => ~Has(Tail(s), M))
  <2>1. \A i, j \in 1..Len(Tail(s)) : Tail(s)[i] \in M /\ Tail(s)[j] \in M => i + 1 = j + 1
    BY <1>1, <1>2, <1>6 DEF AtMostOne
  <2>2. \A i, j \in 1..Len(Tail(s)) : i + 1 = j + 1 => i = j
    OBVIOUS
  <2>3. \A i \in 1..Len(Tail(s)) : Tail(s)[i] \in M => Head(s) \notin M
    BY <1>1, <1>2, <1>4, <1>6 DEF AtMostOne
  <2>. QED
    BY <2>1, <2>2, <2>3 DEF AtMostOne, Has
<1>. QED
  BY <1>1, <1>5, <1>6

-----------------------------------------------------------------------------
LEMMA InitRun == Run!Init => RunInv
<1>. SUFFICES ASSUME Run!Init PROVE RunInv
  OBVIOUS
<1>1. Len(toRemote) = 0 /\ Len(toClient) = 0
  BY DEF Run!Init
<1>2. \A M : ~Has(toRemote, M) /\ ~Has(toClient, M) /\ AtMostOne(toRemote, M) /\ AtMostOne(toClient, M)
  BY <1>1 DEF Has, AtMostOne
<1>3. Addressed /\ Run!TypeOK
  <2>1. breakInfo \in Run!Breaks
    BY DEF Run!Init, Run!Breaks, Run!NoBreak, Run!Message
  <2>2. kind \in Run!Kinds
    BY DEF Run!Init, Run!Kinds
  <2>3. bpOp \in [Addrs -> {"none", "adding", "removing"}]
    BY DEF Run!Init
  <2>4. Addressed /\ toRemote \in Seq(Run!Commands) /\ toClient \in Seq(Run!Replies \cup Run!Breaks)
    BY DEF Run!Init, Addressed
  <2>. QED
    BY <2>1, <2>2, <2>3, <2>4 DEF Run!Init, Run!TypeOK
<1>4. OneRun
  BY <1>2 DEF Run!Init, OneRun
<1>5. EditInv
  BY <1>2 DEF Run!Init, EditInv, OneEdit, Listed
<1>. QED
  BY <1>3, <1>4, <1>5 DEF RunInv

(* The messages that are sent, and what they are.                          *)
LEMMA SentMessages ==
  /\ \A t \in {"continue", "step", "pause", "read"} :
       Run!Command(t) \in RemoteMessages \cap Run!Commands
  /\ \A a \in Addrs, t \in {"add", "remove"} :
       Run!Message(t, a) \in RemoteMessages \cap Run!Commands
  /\ Run!Command("noReason") \in Run!Breaks /\ Run!Command("manual") \in Run!Breaks
  /\ \A a \in Addrs : Run!Message("breakpoint", a) \in Run!Breaks
  /\ Run!Breaks \subseteq ClientMessages
BY DEF Run!Command, Run!Message, Resumes, Run!Commands, Edits, Run!Breaks, AnyAddr,
   RemoteMessages, ClientMessages

(* A command that is answered by itself. *)
LEMMA Answers ==
  ASSUME NEW m \in RemoteMessages, m.type \in {"read", "add", "remove"}
  PROVE  m \in ClientMessages /\ m \in Run!Replies /\ m \notin Run!Breaks
BY DEF RemoteMessages, ClientMessages, Resumes, Edits, AnyAddr, Run!Replies, Run!Breaks

(* A message is sent, or none. *)
LEMMA Sending ==
  ASSUME RunInv,
         toRemote' = toRemote \/ \E m \in RemoteMessages \cap Run!Commands : toRemote' = Append(toRemote, m)
  PROVE  toRemote' \in Seq(RemoteMessages) /\ toRemote' \in Seq(Run!Commands)
<1>1. toRemote \in Seq(RemoteMessages) /\ toRemote \in Seq(Run!Commands)
  BY DEF RunInv, Addressed, Run!TypeOK
<1>. QED
  BY <1>1

LEMMA ToClientHead ==
  ASSUME RunInv, toClient # <<>>
  PROVE  /\ Head(toClient) \in ClientMessages
         /\ Head(toClient).type \in {"add", "remove"} => Head(toClient).addr \in Addrs
         /\ Tail(toClient) \in Seq(ClientMessages)
         /\ Tail(toClient) \in Seq(Run!Replies \cup Run!Breaks)
<1>1. toClient \in Seq(ClientMessages) /\ toClient \in Seq(Run!Replies \cup Run!Breaks)
  BY DEF RunInv, Addressed, Run!TypeOK
<1>2. Head(toClient) \in ClientMessages
  BY <1>1
<1>. QED
  BY <1>1, <1>2 DEF ClientMessages, Edits, Run!Breaks

LEMMA ToRemoteHead ==
  ASSUME RunInv, toRemote # <<>>
  PROVE  /\ Head(toRemote) \in RemoteMessages
         /\ Head(toRemote).type \in {"add", "remove"} => Head(toRemote).addr \in Addrs
         /\ Tail(toRemote) \in Seq(RemoteMessages)
         /\ Tail(toRemote) \in Seq(Run!Commands)
<1>1. toRemote \in Seq(RemoteMessages) /\ toRemote \in Seq(Run!Commands)
  BY DEF RunInv, Addressed, Run!TypeOK
<1>2. Head(toRemote) \in RemoteMessages
  BY <1>1
<1>. QED
  BY <1>1, <1>2 DEF RemoteMessages, Edits, Resumes

LEMMA TypeStep == RunInv /\ [Run!Next]_runVars => Run!TypeOK' /\ Addressed'
<1>. SUFFICES ASSUME RunInv, [Run!Next]_runVars PROVE Run!TypeOK' /\ Addressed'
  OBVIOUS
<1>. USE SentMessages DEF RunInv, Addressed, Run!TypeOK, Run!runVars, Run!bpVars, Run!remoteCpu
<1>1. ASSUME NEW k \in Run!Kinds, Run!StartProcessing(k) PROVE Run!TypeOK' /\ Addressed'
  BY <1>1 DEF Run!StartProcessing
<1>2. CASE Run!Run
  BY <1>2 DEF Run!Run, Run!SendContinue
<1>3. CASE Run!StepAgain \/ Run!StopProcessing
  BY <1>3 DEF Run!StepAgain, Run!StopProcessing
<1>4. CASE Run!Pause
  BY <1>4 DEF Run!Pause
<1>5. ASSUME NEW a \in Addrs, Run!SetBreakpoint(a) PROVE Run!TypeOK' /\ Addressed'
  BY <1>5 DEF Run!SetBreakpoint
<1>6. ASSUME NEW a \in Addrs, Run!RemoveBreakpoint(a) PROVE Run!TypeOK' /\ Addressed'
  <2>1. toRemote' \in Seq(RemoteMessages) /\ toRemote' \in Seq(Run!Commands)
    BY <1>6, Sending DEF Run!RemoveBreakpoint
  <2>2. /\ breakpoints' \subseteq Addrs /\ tmpBreakpoints' \subseteq Addrs /\ orphans' \subseteq Addrs
        /\ bpOp' \in [Addrs -> {"none", "adding", "removing"}]
    BY <1>6 DEF Run!RemoveBreakpoint
  <2>3. UNCHANGED <<Run!runVars, toClient, Run!remoteCpu>>
    BY <1>6 DEF Run!RemoveBreakpoint
  <2>. QED
    BY <2>1, <2>2, <2>3
<1>7. CASE Run!BreakpointAdded
  BY <1>7, ToClientHead DEF Run!BreakpointAdded
<1>8. CASE Run!BreakpointRemoved
  BY <1>8, ToClientHead DEF Run!BreakpointRemoved
<1>9. CASE Run!BreakNotification
  <2>1. toRemote' \in Seq(RemoteMessages) /\ toRemote' \in Seq(Run!Commands)
    BY <1>9, Sending DEF Run!BreakNotification
  <2>2. toClient' \in Seq(ClientMessages) /\ toClient' \in Seq(Run!Replies \cup Run!Breaks)
    BY <1>9, ToClientHead DEF Run!BreakNotification
  <2>3. /\ funcContinueResolve' \in BOOLEAN
        /\ handler' \in {"none", "registers", "stepBp", "callStack", "failed"}
        /\ breakInfo' \in Run!Breaks
        /\ UNCHANGED <<processing, kind, reason, continueResolve, pauseStep, Run!bpVars, Run!remoteCpu>>
    BY <1>9 DEF Run!BreakNotification
  <2>. QED
    BY <2>1, <2>2, <2>3
<1>10. CASE Run!HandleRegisters
  <2>1. /\ \/ toRemote' = toRemote
           \/ toRemote' = Append(toRemote, Run!Command("read"))
           \/ toRemote' = Append(toRemote, Run!Command("step"))
           \/ toRemote' = Append(toRemote, Run!Command("continue"))
        /\ reason' \in {"none", "break"}
        /\ funcContinueResolve' \in BOOLEAN
        /\ handler' \in {"none", "stepBp", "callStack", "failed"}
        /\ UNCHANGED <<processing, kind, continueResolve, breakInfo, pauseStep, Run!bpVars, Run!remoteCpu>>
    BY <1>10 DEF Run!HandleRegisters, Run!EvalBreak, Run!ConditionFails, Run!ReportBreak, Run!GoOn, Run!SendContinue
  <2>2. toRemote' \in Seq(RemoteMessages) /\ toRemote' \in Seq(Run!Commands)
    BY <2>1, Sending
  <2>3. toClient' \in Seq(ClientMessages) /\ toClient' \in Seq(Run!Replies \cup Run!Breaks)
    BY <1>10, ToClientHead DEF Run!HandleRegisters
  <2>. QED
    BY <2>1, <2>2, <2>3
<1>11. CASE Run!HandleStepBp \/ Run!HandleCallStack
  <2>1. /\ \/ toRemote' = toRemote
           \/ toRemote' = Append(toRemote, Run!Command("step"))
           \/ toRemote' = Append(toRemote, Run!Command("continue"))
        /\ handler' = "none" /\ funcContinueResolve' \in BOOLEAN /\ continueResolve' \in BOOLEAN
        /\ processing' \in {processing, "returned"}
        /\ UNCHANGED <<kind, reason, breakInfo, pauseStep, Run!bpVars, Run!remoteCpu>>
    BY <1>11 DEF Run!HandleStepBp, Run!HandleCallStack, Run!SendContinue
  <2>2. toRemote' \in Seq(RemoteMessages) /\ toRemote' \in Seq(Run!Commands)
    BY <2>1, Sending
  <2>3. toClient' \in Seq(ClientMessages) /\ toClient' \in Seq(Run!Replies \cup Run!Breaks)
    BY <1>11, ToClientHead DEF Run!HandleStepBp, Run!HandleCallStack
  <2>. QED
    BY <2>1, <2>2, <2>3
<1>12. CASE Run!RemoteCommand
  <2>. DEFINE c == Head(toRemote)
  <2>1. toRemote # <<>> /\ toRemote' = Tail(toRemote)
    BY <1>12 DEF Run!RemoteCommand
  <2>2. /\ c \in RemoteMessages
        /\ c.type \in {"add", "remove"} => c.addr \in Addrs
        /\ toRemote' \in Seq(RemoteMessages) /\ toRemote' \in Seq(Run!Commands)
    BY <2>1, ToRemoteHead
  <2>3. \/ toClient' = toClient
        \/ toClient' = Append(toClient, c) /\ c.type \in {"read", "add", "remove"}
        \/ toClient' = Append(toClient, Run!Command("manual"))
    BY <1>12 DEF Run!RemoteCommand
  <2>4. remoteBps' \subseteq Addrs /\ running' \in BOOLEAN /\ stepping' \in BOOLEAN
    BY <1>12, <2>2 DEF Run!RemoteCommand
  <2>5. UNCHANGED <<Run!runVars, Run!bpVars>>
    BY <1>12 DEF Run!RemoteCommand
  <2>. HIDE DEF c
  <2>6. c.type \in {"read", "add", "remove"} => c \in ClientMessages /\ c \in Run!Replies
    BY <2>2, Answers
  <2>a. toClient' = toClient \/ \E m \in Run!Replies \cup Run!Breaks : toClient' = Append(toClient, m)
    BY <2>3, <2>6
  <2>b. toClient \in Seq(Run!Replies \cup Run!Breaks) => toClient' \in Seq(Run!Replies \cup Run!Breaks)
    BY ONLY <2>a
  <2>7. toClient' \in Seq(Run!Replies \cup Run!Breaks)
    BY <2>b
  <2>8. toClient' = toClient \/ \E m \in ClientMessages : toClient' = Append(toClient, m)
    BY <2>3, <2>6
  <2>9. toClient \in Seq(ClientMessages) => toClient' \in Seq(ClientMessages)
    BY ONLY <2>8
  <2>. QED
    BY <2>2, <2>4, <2>5, <2>7, <2>9
<1>13. CASE Run!RemoteBreak
  <2>1. PICK m \in Run!Breaks : toClient' = Append(toClient, m)
    BY <1>13 DEF Run!RemoteBreak
  <2>2. /\ toClient' \in Seq(Run!Replies \cup Run!Breaks)
        /\ toClient' \in Seq(ClientMessages)
    BY <2>1
  <2>. QED
    BY <1>13, <2>2 DEF Run!RemoteBreak
<1>14. CASE UNCHANGED runVars
  BY <1>14 DEF runVars
<1>. QED
  BY <1>1, <1>2, <1>3, <1>4, <1>5, <1>6, <1>7, <1>8, <1>9, <1>10, <1>11, <1>12, <1>13, <1>14
     DEF Run!Next, Run!ClientReceive

-----------------------------------------------------------------------------
(* What the steps do to the messages on their way. *)
LEMMA RemoteAppend ==
  ASSUME RunInv, NEW m \in RemoteMessages, toRemote' = Append(toRemote, m), NEW M
  PROVE  /\ Has(toRemote', M) <=> Has(toRemote, M) \/ m \in M
         /\ AtMostOne(toRemote', M) <=> AtMostOne(toRemote, M) /\ (m \in M => ~Has(toRemote, M))
BY AppendMember DEF RunInv, Addressed

LEMMA ClientAppend ==
  ASSUME RunInv, NEW m \in ClientMessages, toClient' = Append(toClient, m), NEW M
  PROVE  /\ Has(toClient', M) <=> Has(toClient, M) \/ m \in M
         /\ AtMostOne(toClient', M) <=> AtMostOne(toClient, M) /\ (m \in M => ~Has(toClient, M))
BY AppendMember DEF RunInv, Addressed

LEMMA RemoteTail ==
  ASSUME RunInv, toRemote # <<>>, toRemote' = Tail(toRemote), NEW M
  PROVE  /\ Head(toRemote) \in RemoteMessages
         /\ Has(toRemote, M) <=> Has(toRemote', M) \/ Head(toRemote) \in M
         /\ AtMostOne(toRemote, M) =>
              AtMostOne(toRemote', M) /\ (Head(toRemote) \in M => ~Has(toRemote', M))
BY TailMember DEF RunInv, Addressed

LEMMA ClientTail ==
  ASSUME RunInv, toClient # <<>>, toClient' = Tail(toClient), NEW M
  PROVE  /\ Head(toClient) \in ClientMessages
         /\ Has(toClient, M) <=> Has(toClient', M) \/ Head(toClient) \in M
         /\ AtMostOne(toClient, M) =>
              AtMostOne(toClient', M) /\ (Head(toClient) \in M => ~Has(toClient', M))
BY TailMember DEF RunInv, Addressed

LEMMA MessageKinds ==
  /\ \A m \in RemoteMessages : m \in Resumes <=> m.type \in {"continue", "step"}
  /\ \A m \in ClientMessages : m \in Run!Breaks <=> m.type \notin {"read", "add", "remove"}
  /\ \A t : Run!Command(t) \in Resumes <=> t \in {"continue", "step"}
  /\ \A t, a : t \in {"add", "remove"} => Run!Message(t, a) \notin Resumes
BY DEF RemoteMessages, ClientMessages, Resumes, Edits, Run!Breaks, Run!Command, Run!Message, AnyAddr

(* The command to run is sent when nothing else makes the program run. *)
LEMMA ResumeStep ==
  ASSUME RunInv, ~funcContinueResolve, Run!SendContinue, UNCHANGED running,
         processing' = "running", handler' = "none", continueResolve' = TRUE,
         toClient' = toClient \/ (toClient # <<>> /\ toClient' = Tail(toClient))
  PROVE  OneRun'
<1>1. PICK m \in RemoteMessages : m \in Resumes /\ toRemote' = Append(toRemote, m)
  BY SentMessages, MessageKinds DEF Run!SendContinue
<1>2. /\ Has(toRemote', Resumes)
      /\ AtMostOne(toRemote', Resumes) <=> AtMostOne(toRemote, Resumes) /\ ~Has(toRemote, Resumes)
  BY <1>1, RemoteAppend
<1>3. ~running /\ ~Has(toRemote, Resumes) /\ ~Has(toClient, Run!Breaks)
      /\ AtMostOne(toRemote, Resumes) /\ AtMostOne(toClient, Run!Breaks)
  BY DEF RunInv, OneRun
<1>4. ~Has(toClient', Run!Breaks) /\ AtMostOne(toClient', Run!Breaks)
  <2>1. CASE toClient' = toClient
    BY <1>3, <2>1
  <2>2. CASE toClient # <<>> /\ toClient' = Tail(toClient)
    BY <1>3, <2>2, ClientTail
  <2>. QED
    BY <2>1, <2>2
<1>. QED
  BY <1>2, <1>3, <1>4 DEF OneRun, Run!SendContinue

(* A message that does not make the program run is sent, or an answer is   *)
(* taken, or both.                                                         *)
LEMMA QuietStep ==
  ASSUME RunInv,
         toRemote' = toRemote \/
           \E m \in RemoteMessages \ Resumes : toRemote' = Append(toRemote, m),
         toClient' = toClient \/
           (toClient # <<>> /\ toClient' = Tail(toClient) /\ Head(toClient) \notin Run!Breaks)
  PROVE  /\ Has(toRemote', Resumes) <=> Has(toRemote, Resumes)
         /\ AtMostOne(toRemote', Resumes)
         /\ Has(toClient', Run!Breaks) <=> Has(toClient, Run!Breaks)
         /\ AtMostOne(toClient', Run!Breaks)
<1>1. AtMostOne(toRemote, Resumes) /\ AtMostOne(toClient, Run!Breaks)
  BY DEF RunInv, OneRun
<1>2. (Has(toRemote', Resumes) <=> Has(toRemote, Resumes)) /\ AtMostOne(toRemote', Resumes)
  <2>1. CASE toRemote' = toRemote
    BY <1>1, <2>1
  <2>2. CASE \E m \in RemoteMessages \ Resumes : toRemote' = Append(toRemote, m)
    BY <1>1, <2>2, RemoteAppend
  <2>. QED
    BY <2>1, <2>2
<1>3. (Has(toClient', Run!Breaks) <=> Has(toClient, Run!Breaks)) /\ AtMostOne(toClient', Run!Breaks)
  <2>1. CASE toClient' = toClient
    BY <1>1, <2>1
  <2>2. CASE toClient # <<>> /\ toClient' = Tail(toClient) /\ Head(toClient) \notin Run!Breaks
    BY <1>1, <2>2, ClientTail
  <2>. QED
    BY <2>1, <2>2
<1>. QED
  BY <1>2, <1>3

LEMMA OneRunStep == RunInv /\ [Run!Next]_runVars => OneRun'
<1>. SUFFICES ASSUME RunInv, [Run!Next]_runVars PROVE OneRun'
  OBVIOUS
<1>. USE DEF Run!runVars, Run!bpVars, Run!remoteCpu
<1>0. /\ OneRun /\ Run!TypeOK
      /\ \A t \in {"pause", "read"} : Run!Command(t) \in RemoteMessages \ Resumes
      /\ \A a \in Addrs, t \in {"add", "remove"} : Run!Message(t, a) \in RemoteMessages \ Resumes
  BY SentMessages, MessageKinds DEF RunInv
<1>1. ASSUME NEW k \in Run!Kinds, Run!StartProcessing(k) PROVE OneRun'
  BY <1>0, <1>1 DEF Run!StartProcessing, OneRun
<1>2. CASE Run!Run
  <2>1. ~funcContinueResolve /\ handler = "none"
    BY <1>0, <1>2 DEF Run!Run, OneRun
  <2>. QED
    BY <1>2, <2>1, ResumeStep DEF Run!Run
<1>3. CASE Run!StepAgain \/ Run!StopProcessing
  BY <1>0, <1>3 DEF Run!StepAgain, Run!StopProcessing, OneRun
<1>4. CASE Run!Pause \/ (\E a \in Addrs : Run!SetBreakpoint(a) \/ Run!RemoveBreakpoint(a))
  <2>1. /\ UNCHANGED <<processing, funcContinueResolve, handler, continueResolve, running, toClient>>
        /\ toRemote' = toRemote \/ \E m \in RemoteMessages \ Resumes : toRemote' = Append(toRemote, m)
    BY <1>0, <1>4 DEF Run!Pause, Run!SetBreakpoint, Run!RemoveBreakpoint
  <2>2. /\ Has(toRemote', Resumes) <=> Has(toRemote, Resumes)
        /\ AtMostOne(toRemote', Resumes)
        /\ Has(toClient', Run!Breaks) <=> Has(toClient, Run!Breaks)
        /\ AtMostOne(toClient', Run!Breaks)
    BY <2>1, QuietStep
  <2>. QED
    BY <1>0, <2>1, <2>2 DEF OneRun
<1>5. CASE Run!BreakpointAdded \/ Run!BreakpointRemoved
  <2>1. /\ UNCHANGED <<processing, funcContinueResolve, handler, continueResolve, running, toRemote>>
        /\ toClient # <<>> /\ toClient' = Tail(toClient) /\ Head(toClient).type \in {"add", "remove"}
    BY <1>5 DEF Run!BreakpointAdded, Run!BreakpointRemoved
  <2>2. Head(toClient) \notin Run!Breaks
    BY <2>1, ToClientHead, MessageKinds
  <2>3. /\ Has(toRemote', Resumes) <=> Has(toRemote, Resumes)
        /\ AtMostOne(toRemote', Resumes)
        /\ Has(toClient', Run!Breaks) <=> Has(toClient, Run!Breaks)
        /\ AtMostOne(toClient', Run!Breaks)
    BY <2>1, <2>2, QuietStep
  <2>. QED
    BY <1>0, <2>1, <2>3 DEF OneRun
<1>6. CASE Run!BreakNotification
  <2>1. toClient # <<>> /\ toClient' = Tail(toClient) /\ Head(toClient) \in Run!Breaks
    BY <1>6 DEF Run!BreakNotification
  <2>2. Has(toClient, Run!Breaks) /\ ~Has(toClient', Run!Breaks) /\ AtMostOne(toClient', Run!Breaks)
    BY <1>0, <2>1, ClientTail DEF OneRun
  <2>3. funcContinueResolve /\ ~running /\ ~Has(toRemote, Resumes) /\ AtMostOne(toRemote, Resumes)
    BY <1>0, <2>2 DEF OneRun
  <2>4. /\ toRemote' = Append(toRemote, Run!Command("read"))
        /\ ~funcContinueResolve' /\ handler' = "registers"
        /\ UNCHANGED <<processing, continueResolve, running>>
    BY <1>6, <2>3 DEF Run!BreakNotification
  <2>5. ~Has(toRemote', Resumes) /\ AtMostOne(toRemote', Resumes)
    BY <1>0, <2>3, <2>4, RemoteAppend
  <2>. QED
    BY <1>0, <2>2, <2>3, <2>4, <2>5 DEF OneRun
<1>7. CASE Run!HandleRegisters \/ Run!HandleStepBp \/ Run!HandleCallStack
  <2>1. /\ toClient # <<>> /\ toClient' = Tail(toClient) /\ Head(toClient) \notin Run!Breaks
        /\ handler # "none" /\ ~funcContinueResolve /\ running' = running
    <3>1. toClient # <<>> /\ toClient' = Tail(toClient) /\ Head(toClient).type = "read"
          /\ handler # "none" /\ running' = running
      BY <1>7 DEF Run!HandleRegisters, Run!HandleStepBp, Run!HandleCallStack
    <3>. QED
      BY <1>0, <3>1, ToClientHead, MessageKinds DEF OneRun
  <2>2. CASE /\ toRemote' = toRemote \/ toRemote' = Append(toRemote, Run!Command("read"))
             /\ funcContinueResolve' = funcContinueResolve
             /\ \/ handler' \in {"stepBp", "callStack", "failed"} /\ UNCHANGED <<processing, continueResolve>>
                \/ handler' = "none" /\ processing' = "returned" /\ ~continueResolve'
    <3>1. toRemote' = toRemote \/ \E m \in RemoteMessages \ Resumes : toRemote' = Append(toRemote, m)
      BY <1>0, <2>2
    <3>2. /\ Has(toRemote', Resumes) <=> Has(toRemote, Resumes)
          /\ AtMostOne(toRemote', Resumes)
          /\ Has(toClient', Run!Breaks) <=> Has(toClient, Run!Breaks)
          /\ AtMostOne(toClient', Run!Breaks)
      BY <2>1, <3>1, QuietStep
    <3>. QED
      BY <1>0, <2>1, <2>2, <3>2 DEF OneRun
  <2>3. CASE Run!SendContinue /\ handler' = "none" /\ UNCHANGED <<processing, continueResolve>>
    <3>1. processing = "running" /\ continueResolve
      BY <1>0, <2>1 DEF OneRun
    <3>. QED
      BY <1>0, <2>1, <2>3, <3>1, ResumeStep DEF Run!TypeOK
  <2>. QED
    BY <1>7, <2>2, <2>3 DEF Run!HandleRegisters, Run!HandleStepBp, Run!HandleCallStack,
       Run!EvalBreak, Run!ConditionFails, Run!ReportBreak, Run!GoOn
<1>8. CASE Run!RemoteCommand
  <2>. DEFINE c == Head(toRemote)
  <2>1. /\ toRemote # <<>> /\ toRemote' = Tail(toRemote)
        /\ UNCHANGED <<processing, funcContinueResolve, handler, continueResolve>>
    BY <1>8 DEF Run!RemoteCommand
  <2>2. /\ c \in RemoteMessages
        /\ c \in Resumes <=> c.type \in {"continue", "step"}
        /\ Has(toRemote, Resumes) <=> Has(toRemote', Resumes) \/ c \in Resumes
        /\ AtMostOne(toRemote', Resumes)
        /\ c \in Resumes => ~Has(toRemote', Resumes)
    BY <1>0, <2>1, RemoteTail, MessageKinds DEF OneRun
  <2>3. \/ c.type \in {"continue", "step"} /\ running' /\ toClient' = toClient
        \/ c.type = "pause" /\ running /\ ~running' /\ toClient' = Append(toClient, Run!Command("manual"))
        \/ c.type = "pause" /\ ~running /\ ~running' /\ toClient' = toClient
        \/ c.type \in {"read", "add", "remove"} /\ running' = running /\ toClient' = Append(toClient, c)
    <3>1. c.type \in {"continue", "step", "pause", "read", "add", "remove"}
      BY <2>2 DEF RemoteMessages, Resumes, Edits
    <3>. QED
      BY <1>0, <1>8, <3>1 DEF Run!RemoteCommand, Run!TypeOK
  <2>. HIDE DEF c
  <2>4. CASE c.type \in {"continue", "step"} /\ running' /\ toClient' = toClient
    BY <1>0, <2>1, <2>2, <2>4 DEF OneRun
  <2>5. CASE c.type = "pause" /\ running /\ ~running' /\ toClient' = Append(toClient, Run!Command("manual"))
    <3>1. /\ Has(toClient', Run!Breaks)
          /\ AtMostOne(toClient', Run!Breaks) <=> AtMostOne(toClient, Run!Breaks) /\ ~Has(toClient, Run!Breaks)
      BY <2>5, SentMessages, ClientAppend
    <3>. QED
      BY <1>0, <2>1, <2>2, <2>5, <3>1 DEF OneRun
  <2>6. CASE c.type = "pause" /\ ~running /\ ~running' /\ toClient' = toClient
    BY <1>0, <2>1, <2>2, <2>6 DEF OneRun
  <2>7. CASE c.type \in {"read", "add", "remove"} /\ running' = running /\ toClient' = Append(toClient, c)
    <3>1. c \in ClientMessages /\ c \notin Run!Breaks
      BY <2>2, <2>7, Answers
    <3>2. /\ Has(toClient', Run!Breaks) <=> Has(toClient, Run!Breaks)
          /\ AtMostOne(toClient', Run!Breaks) <=> AtMostOne(toClient, Run!Breaks)
      BY <2>7, <3>1, ClientAppend
    <3>. QED
      BY <1>0, <2>1, <2>2, <2>7, <3>2 DEF OneRun
  <2>. QED
    BY <2>3, <2>4, <2>5, <2>6, <2>7
<1>9. CASE Run!RemoteBreak
  <2>1. PICK m \in Run!Breaks : toClient' = Append(toClient, m)
    BY <1>0, <1>9, SentMessages DEF Run!RemoteBreak, Run!TypeOK
  <2>2. m \in ClientMessages
    BY SentMessages
  <2>3. /\ Has(toClient', Run!Breaks)
        /\ AtMostOne(toClient', Run!Breaks) <=> AtMostOne(toClient, Run!Breaks) /\ ~Has(toClient, Run!Breaks)
    BY <2>1, <2>2, ClientAppend
  <2>. QED
    BY <1>0, <1>9, <2>3 DEF Run!RemoteBreak, OneRun
<1>10. CASE UNCHANGED runVars
  BY <1>0, <1>10 DEF runVars, OneRun
<1>. QED
  BY <1>1, <1>2, <1>3, <1>4, <1>5, <1>6, <1>7, <1>8, <1>9, <1>10 DEF Run!Next, Run!ClientReceive

-----------------------------------------------------------------------------
(* Which messages are edits of an address. *)
LEMMA EditKinds ==
  ASSUME NEW a \in Addrs
  PROVE  /\ \A m \in RemoteMessages \cup ClientMessages :
              /\ m \in Adding(a) <=> m.type = "add" /\ m.addr = a
              /\ m \in Removing(a) <=> m.type = "remove" /\ m.addr = a
         /\ \A t : t \notin {"add", "remove"} => Run!Command(t) \notin EditsOf(a)
         /\ \A m \in Run!Breaks : m \notin EditsOf(a)
         /\ \A m : m \in EditsOf(a) <=> m \in Adding(a) \/ m \in Removing(a)
         /\ \A m : ~(m \in Adding(a) /\ m \in Removing(a))
         /\ \A t, b : Run!Message(t, b) \in Adding(a) <=> t = "add" /\ b = a
         /\ \A t, b : Run!Message(t, b) \in Removing(a) <=> t = "remove" /\ b = a
<1>1. \A m \in RemoteMessages \cup ClientMessages : m = [type |-> m.type, addr |-> m.addr]
  BY DEF RemoteMessages, ClientMessages, Resumes, Edits, Run!Breaks
<1>. QED
  BY <1>1 DEF Run!Message, Run!Command, Run!Breaks, Adding, Removing, EditsOf

LEMMA HasEdits ==
  ASSUME NEW s, NEW a
  PROVE  Has(s, EditsOf(a)) <=> Has(s, Adding(a)) \/ Has(s, Removing(a))
BY DEF Has, EditsOf

(* No edit of a is under way when bpOp[a] says so. *)
LEMMA NoEdit ==
  ASSUME RunInv, NEW a \in Addrs, bpOp[a] = "none"
  PROVE  ~Has(toRemote, EditsOf(a)) /\ ~Has(toClient, EditsOf(a))
BY HasEdits DEF RunInv, EditInv, OneEdit

(* A step that has nothing to do with a. *)
LEMMA OtherStep ==
  ASSUME RunInv, NEW a \in Addrs,
         \/ toRemote' = toRemote
         \/ \E m \in RemoteMessages \ EditsOf(a) : toRemote' = Append(toRemote, m)
         \/ toRemote # <<>> /\ toRemote' = Tail(toRemote) /\ Head(toRemote) \notin EditsOf(a),
         \/ toClient' = toClient
         \/ \E m \in ClientMessages \ EditsOf(a) : toClient' = Append(toClient, m)
         \/ toClient # <<>> /\ toClient' = Tail(toClient) /\ Head(toClient) \notin EditsOf(a),
         bpOp'[a] = bpOp[a],
         a \in remoteBps' <=> a \in remoteBps,
         a \in breakpoints' <=> a \in breakpoints,
         a \in orphans' <=> a \in orphans
  PROVE  OneEdit(a)' /\ Listed(a)'
<1>1. OneEdit(a) /\ Listed(a)
  BY DEF RunInv, EditInv
<1>2. \A m : m \notin EditsOf(a) => m \notin Adding(a) /\ m \notin Removing(a)
  BY DEF EditsOf
<1>3. /\ Has(toRemote', Adding(a)) <=> Has(toRemote, Adding(a))
      /\ Has(toRemote', Removing(a)) <=> Has(toRemote, Removing(a))
      /\ Has(toRemote', EditsOf(a)) <=> Has(toRemote, EditsOf(a))
      /\ AtMostOne(toRemote, EditsOf(a)) => AtMostOne(toRemote', EditsOf(a))
  <2>1. CASE toRemote' = toRemote
    BY <2>1
  <2>2. CASE \E m \in RemoteMessages \ EditsOf(a) : toRemote' = Append(toRemote, m)
    BY <1>2, <2>2, RemoteAppend
  <2>3. CASE toRemote # <<>> /\ toRemote' = Tail(toRemote) /\ Head(toRemote) \notin EditsOf(a)
    BY <1>2, <2>3, RemoteTail
  <2>. QED
    BY <2>1, <2>2, <2>3
<1>4. /\ Has(toClient', Adding(a)) <=> Has(toClient, Adding(a))
      /\ Has(toClient', Removing(a)) <=> Has(toClient, Removing(a))
      /\ Has(toClient', EditsOf(a)) <=> Has(toClient, EditsOf(a))
      /\ AtMostOne(toClient, EditsOf(a)) => AtMostOne(toClient', EditsOf(a))
  <2>1. CASE toClient' = toClient
    BY <2>1
  <2>2. CASE \E m \in ClientMessages \ EditsOf(a) : toClient' = Append(toClient, m)
    BY <1>2, <2>2, ClientAppend
  <2>3. CASE toClient # <<>> /\ toClient' = Tail(toClient) /\ Head(toClient) \notin EditsOf(a)
    BY <1>2, <2>3, ClientTail
  <2>. QED
    BY <2>1, <2>2, <2>3
<1>. QED
  BY <1>1, <1>3, <1>4 DEF OneEdit, Listed

(* The command to edit a is sent. *)
LEMMA EditSent ==
  ASSUME RunInv, NEW a \in Addrs, bpOp[a] = "none", a \notin orphans, UNCHANGED <<toClient, orphans, remoteBps>>,
         NEW t \in {"add", "remove"},
         t = "add" <=> a \notin breakpoints,
         toRemote' = Append(toRemote, Run!Message(t, a)),
         bpOp'[a] = IF t = "add" THEN "adding" ELSE "removing",
         a \notin breakpoints'
  PROVE  OneEdit(a)' /\ Listed(a)'
<1>1. OneEdit(a) /\ Listed(a)
  BY DEF RunInv, EditInv
<1>2. ~Has(toRemote, EditsOf(a)) /\ ~Has(toClient, EditsOf(a))
  BY NoEdit
<1>3. /\ ~Has(toRemote, Adding(a)) /\ ~Has(toRemote, Removing(a))
      /\ ~Has(toClient, Adding(a)) /\ ~Has(toClient, Removing(a))
  BY <1>2, HasEdits
<1>4. Run!Message(t, a) \in RemoteMessages
  BY SentMessages
<1>5. /\ Has(toRemote', Adding(a)) <=> t = "add"
      /\ Has(toRemote', Removing(a)) <=> t = "remove"
  BY <1>3, <1>4, EditKinds, RemoteAppend
<1>6. AtMostOne(toRemote', EditsOf(a))
  BY <1>1, <1>2, <1>4, RemoteAppend DEF OneEdit
<1>7. a \in breakpoints <=> a \in remoteBps
  BY <1>1 DEF Listed
<1>. QED
  BY <1>1, <1>2, <1>3, <1>5, <1>6, <1>7 DEF OneEdit, Listed

(* The answer to the edit of a arrives. *)
LEMMA EditAnswered ==
  ASSUME RunInv, NEW a \in Addrs, toClient # <<>>, toClient' = Tail(toClient),
         NEW t \in {"add", "remove"}, Head(toClient).type = t, Head(toClient).addr = a,
         UNCHANGED <<toRemote, orphans, remoteBps>>,
         bpOp'[a] = "none",
         a \in breakpoints' <=> a \in breakpoints \/ t = "add"
  PROVE  OneEdit(a)' /\ Listed(a)'
<1>1. OneEdit(a) /\ Listed(a)
  BY DEF RunInv, EditInv
<1>2. Head(toClient) \in ClientMessages
  BY ToClientHead
<1>3. /\ Head(toClient) \in EditsOf(a)
      /\ t = "add" => Head(toClient) \in Adding(a)
      /\ t = "remove" => Head(toClient) \in Removing(a)
  BY <1>2, EditKinds
<1>4. /\ t = "add" => Has(toClient, Adding(a))
      /\ t = "remove" => Has(toClient, Removing(a))
      /\ Has(toClient, EditsOf(a))
  BY <1>3, ClientTail
<1>5. ~Has(toClient', EditsOf(a)) /\ AtMostOne(toClient', EditsOf(a))
  BY <1>1, <1>3, ClientTail DEF OneEdit
<1>6. ~Has(toRemote, EditsOf(a)) /\ AtMostOne(toRemote, EditsOf(a))
  BY <1>1, <1>4 DEF OneEdit
<1>7. /\ ~Has(toRemote, Adding(a)) /\ ~Has(toRemote, Removing(a))
      /\ ~Has(toClient', Adding(a)) /\ ~Has(toClient', Removing(a))
  BY <1>5, <1>6, HasEdits
<1>8. a \notin breakpoints /\ a \notin orphans
  BY <1>1, <1>4 DEF OneEdit, Listed
<1>9. t = "add" <=> a \in remoteBps
  BY <1>1, <1>4 DEF OneEdit
<1>. QED
  BY <1>5, <1>6, <1>7, <1>8, <1>9 DEF OneEdit, Listed

(* The remote carries out the edit of a and answers. *)
LEMMA EditExecuted ==
  ASSUME RunInv, NEW a \in Addrs, toRemote # <<>>, toRemote' = Tail(toRemote),
         NEW t \in {"add", "remove"}, Head(toRemote).type = t, Head(toRemote).addr = a,
         toClient' = Append(toClient, Head(toRemote)),
         UNCHANGED <<bpOp, breakpoints, orphans>>,
         a \in remoteBps' <=> t = "add"
  PROVE  OneEdit(a)' /\ Listed(a)'
<1>1. OneEdit(a) /\ Listed(a)
  BY DEF RunInv, EditInv
<1>2. Head(toRemote) \in RemoteMessages /\ Head(toRemote) \in ClientMessages
  BY ToRemoteHead, Answers
<1>3. /\ Head(toRemote) \in EditsOf(a)
      /\ Head(toRemote) \in Adding(a) <=> t = "add"
      /\ Head(toRemote) \in Removing(a) <=> t = "remove"
  BY <1>2, EditKinds
<1>4. /\ t = "add" => Has(toRemote, Adding(a))
      /\ t = "remove" => Has(toRemote, Removing(a))
      /\ Has(toRemote, EditsOf(a))
  BY <1>3, RemoteTail
<1>5. ~Has(toRemote', EditsOf(a)) /\ AtMostOne(toRemote', EditsOf(a))
  BY <1>1, <1>3, RemoteTail DEF OneEdit
<1>6. ~Has(toClient, EditsOf(a)) /\ AtMostOne(toClient, EditsOf(a))
  BY <1>1, <1>4 DEF OneEdit
<1>7. /\ ~Has(toClient, Adding(a)) /\ ~Has(toClient, Removing(a))
      /\ ~Has(toRemote', Adding(a)) /\ ~Has(toRemote', Removing(a))
  BY <1>5, <1>6, HasEdits
<1>8. /\ Has(toClient', Adding(a)) <=> t = "add"
      /\ Has(toClient', Removing(a)) <=> t = "remove"
      /\ AtMostOne(toClient', EditsOf(a))
  BY <1>2, <1>3, <1>6, <1>7, ClientAppend
<1>9. bpOp[a] = IF t = "add" THEN "adding" ELSE "removing"
  BY <1>1, <1>4 DEF OneEdit
<1>. QED
  BY <1>1, <1>5, <1>7, <1>8, <1>9 DEF OneEdit, Listed

LEMMA EditStep == RunInv /\ [Run!Next]_runVars => EditInv'
<1>. SUFFICES ASSUME RunInv, [Run!Next]_runVars, NEW a \in Addrs
              PROVE  OneEdit(a)' /\ Listed(a)'
  BY DEF EditInv
<1>. USE DEF Run!runVars, Run!bpVars, Run!remoteCpu
<1>0. /\ bpOp \in [Addrs -> {"none", "adding", "removing"}] /\ OneEdit(a) /\ Listed(a)
      /\ \A t \in {"continue", "step", "pause", "read"} : Run!Command(t) \in RemoteMessages \ EditsOf(a)
      /\ \A b \in Addrs, t \in {"add", "remove"} :
           b # a => Run!Message(t, b) \in RemoteMessages \ EditsOf(a)
  BY SentMessages, EditKinds DEF RunInv, EditInv, Run!TypeOK
<1>1. CASE (\E k \in Run!Kinds : Run!StartProcessing(k)) \/ Run!Run \/ Run!StepAgain
           \/ Run!StopProcessing \/ Run!Pause
  <2>1. toRemote' = toRemote \/ \E m \in RemoteMessages \ EditsOf(a) : toRemote' = Append(toRemote, m)
    BY <1>0, <1>1 DEF Run!StartProcessing, Run!Run, Run!SendContinue, Run!StepAgain,
       Run!StopProcessing, Run!Pause
  <2>2. UNCHANGED <<toClient, breakpoints, bpOp, orphans, remoteBps>>
    BY <1>1 DEF Run!StartProcessing, Run!Run, Run!StepAgain, Run!StopProcessing, Run!Pause
  <2>. QED
    BY <2>1, <2>2, OtherStep
<1>2. ASSUME NEW b \in Addrs, Run!SetBreakpoint(b)
      PROVE  OneEdit(a)' /\ Listed(a)'
  <2>1. CASE b = a
    BY <1>0, <1>2, <2>1, EditSent DEF Run!SetBreakpoint
  <2>2. CASE b # a
    BY <1>0, <1>2, <2>2, OtherStep DEF Run!SetBreakpoint
  <2>. QED
    BY <2>1, <2>2
<1>3. ASSUME NEW b \in Addrs, Run!RemoveBreakpoint(b)
      PROVE  OneEdit(a)' /\ Listed(a)'
  <2>1. /\ bpOp[b] = "none" /\ b \in breakpoints /\ breakpoints' = breakpoints \ {b}
        /\ UNCHANGED <<toClient, remoteBps>>
        /\ \/ orphans' = orphans \cup {b} /\ UNCHANGED <<bpOp, toRemote>>
           \/ /\ bpOp' = [bpOp EXCEPT ![b] = "removing"]
              /\ toRemote' = Append(toRemote, Run!Message("remove", b))
              /\ UNCHANGED orphans
    BY <1>3 DEF Run!RemoveBreakpoint
  <2>2. CASE b # a
    BY <1>0, <2>1, <2>2, OtherStep
  <2>3. CASE b = a /\ orphans' = orphans \cup {b} /\ UNCHANGED <<bpOp, toRemote>>
    <3>1. /\ ~Has(toRemote, EditsOf(a)) /\ ~Has(toClient, EditsOf(a))
          /\ a \notin breakpoints' /\ a \in orphans'
      BY <2>1, <2>3, NoEdit
    <3>. QED
      BY <1>0, <2>1, <2>3, <3>1, HasEdits DEF OneEdit, Listed
  <2>4. CASE /\ b = a /\ bpOp' = [bpOp EXCEPT ![b] = "removing"]
             /\ toRemote' = Append(toRemote, Run!Message("remove", b))
             /\ UNCHANGED orphans
    <3>1. a \notin orphans
      BY <1>0, <2>1, <2>4 DEF Listed
    <3>. QED
      BY <1>0, <2>1, <2>4, <3>1, EditSent
  <2>. QED
    BY <2>1, <2>2, <2>3, <2>4
<1>4. CASE Run!BreakpointAdded \/ Run!BreakpointRemoved
  <2>. DEFINE b == Head(toClient).addr
              t == Head(toClient).type
  <2>1. /\ toClient # <<>> /\ toClient' = Tail(toClient) /\ t \in {"add", "remove"}
        /\ bpOp' = [bpOp EXCEPT ![b] = "none"]
        /\ breakpoints' = IF t = "add" THEN breakpoints \cup {b} ELSE breakpoints
        /\ UNCHANGED <<toRemote, orphans, remoteBps>>
    BY <1>4 DEF Run!BreakpointAdded, Run!BreakpointRemoved
  <2>2. CASE b = a
    BY <1>0, <2>1, <2>2, EditAnswered
  <2>3. CASE b # a
    <3>1. Head(toClient) \notin EditsOf(a)
      BY <2>1, <2>3, ToClientHead, EditKinds
    <3>. QED
      BY <1>0, <2>1, <2>3, <3>1, ToClientHead, OtherStep
  <2>. QED
    BY <2>2, <2>3
<1>5. CASE Run!BreakNotification \/ Run!HandleRegisters \/ Run!HandleStepBp \/ Run!HandleCallStack
  <2>1. /\ toClient # <<>> /\ toClient' = Tail(toClient)
        /\ Head(toClient).type = "read" \/ Head(toClient) \in Run!Breaks
        /\ UNCHANGED <<breakpoints, bpOp, orphans, remoteBps>>
    BY <1>5 DEF Run!BreakNotification, Run!HandleRegisters, Run!HandleStepBp, Run!HandleCallStack
  <2>2. toRemote' = toRemote \/ \E m \in RemoteMessages \ EditsOf(a) : toRemote' = Append(toRemote, m)
    BY <1>0, <1>5 DEF Run!BreakNotification, Run!HandleRegisters, Run!HandleStepBp,
       Run!HandleCallStack, Run!EvalBreak, Run!ConditionFails, Run!ReportBreak, Run!GoOn, Run!SendContinue
  <2>3. Head(toClient) \notin EditsOf(a)
    BY <2>1, ToClientHead, EditKinds
  <2>. QED
    BY <2>1, <2>2, <2>3, OtherStep
<1>6. CASE Run!RemoteCommand
  <2>. DEFINE c == Head(toRemote)
  <2>1. /\ toRemote # <<>> /\ toRemote' = Tail(toRemote)
        /\ UNCHANGED <<breakpoints, bpOp, orphans>>
        /\ \/ toClient' = toClient /\ c.type \notin {"add", "remove"}
           \/ toClient' = Append(toClient, Run!Command("manual")) /\ c.type \notin {"add", "remove"}
           \/ toClient' = Append(toClient, c) /\ c.type \in {"read", "add", "remove"}
        /\ remoteBps' = CASE c.type = "add" -> remoteBps \cup {c.addr}
                          [] c.type = "remove" -> remoteBps \ {c.addr}
                          [] OTHER -> remoteBps
    BY <1>6 DEF Run!RemoteCommand
  <2>2. c \in RemoteMessages /\ (c.type \in {"read", "add", "remove"} => c \in ClientMessages)
    BY <2>1, ToRemoteHead, Answers
  <2>3. CASE c.type \in {"add", "remove"} /\ c.addr = a
    <3>1. toClient' = Append(toClient, c) /\ (a \in remoteBps' <=> c.type = "add")
      BY <2>1, <2>3
    <3>. QED
      BY <2>1, <2>3, <3>1, EditExecuted
  <2>4. CASE ~(c.type \in {"add", "remove"} /\ c.addr = a)
    <3>1. c \notin EditsOf(a)
      BY <2>2, <2>4, EditKinds
    <3>2. a \in remoteBps' <=> a \in remoteBps
      BY <2>1, <2>4
    <3>3. Run!Command("manual") \in ClientMessages \ EditsOf(a)
      BY SentMessages, EditKinds
    <3>4. toClient' = toClient \/ \E m \in ClientMessages \ EditsOf(a) : toClient' = Append(toClient, m)
      BY <2>1, <2>2, <3>1, <3>3
    <3>. QED
      BY <2>1, <3>1, <3>2, <3>4, OtherStep
  <2>. QED
    BY <2>3, <2>4
<1>7. CASE Run!RemoteBreak
  <2>1. PICK m \in Run!Breaks : toClient' = Append(toClient, m)
    BY <1>7, SentMessages DEF Run!RemoteBreak, RunInv, Run!TypeOK
  <2>2. m \in ClientMessages \ EditsOf(a)
    BY SentMessages, EditKinds
  <2>3. UNCHANGED <<toRemote, breakpoints, bpOp, orphans, remoteBps>>
    BY <1>7 DEF Run!RemoteBreak
  <2>. QED
    BY <2>1, <2>2, <2>3, OtherStep
<1>8. CASE UNCHANGED runVars
  BY <1>8, OtherStep DEF runVars
<1>. QED
  BY <1>1, <1>2, <1>3, <1>4, <1>5, <1>6, <1>7, <1>8 DEF Run!Next, Run!ClientReceive

-----------------------------------------------------------------------------
(* The run control in the module that composes it with the queue.          *)
LEMMA RunInductive == MCSpec => []RunInv
<1>1. MCInit => RunInv
  BY InitRun DEF MCInit
<1>2. RunInv /\ [MCNext]_<<part, vars, runVars>> => RunInv'
  <2>1. [MCNext]_<<part, vars, runVars>> => [Run!Next]_runVars
    BY DEF MCNext
  <2>. QED
    BY <2>1, TypeStep, OneRunStep, EditStep DEF RunInv
<1>. QED
  BY <1>1, <1>2, PTL DEF MCSpec

(* While the user sees the program stopped, or its break is being looked   *)
(* at, the remote does not execute it and has not been told to.            *)
THEOREM StopsAreReal == MCSpec => []ReportedStopIsReal
<1>1. RunInv => ReportedStopIsReal
  <2>. SUFFICES ASSUME RunInv PROVE Run!TypeOK /\ Run!ReportedStopIsReal
    BY DEF ReportedStopIsReal
  <2>1. processing # "running" \/ handler # "none" => ~running /\ ~Has(toRemote, Resumes)
    BY DEF RunInv, OneRun
  <2>2. \A i \in 1..Len(toRemote) : toRemote[i] \in RemoteMessages
    BY DEF RunInv, Addressed
  <2>3. ~Has(toRemote, Resumes) =>
          \A i \in 1..Len(toRemote) : toRemote[i].type \notin {"continue", "step"}
    BY <2>2, MessageKinds DEF Has
  <2>. QED
    BY <2>1, <2>3 DEF RunInv, Run!TypeOK, Run!ReportedStopIsReal
<1>. QED
  BY <1>1, RunInductive, PTL

(* Whenever a break can come or is on its way, somebody waits for it.      *)
THEOREM BreaksAreAwaited == MCSpec => []BreakIsAwaited
<1>1. RunInv => BreakIsAwaited
  BY DEF RunInv, OneRun, Has, BreakIsAwaited, Run!BreakIsAwaited
<1>. QED
  BY <1>1, RunInductive, PTL

(* A breakpoint that is not being edited is set in the remote exactly if   *)
(* it is listed, unless its removal has failed.                            *)
THEOREM ListIsSet == MCSpec => []RemoteInSync
<1>1. RunInv => RemoteInSync
  BY DEF RunInv, EditInv, Listed, RemoteInSync, Run!RemoteInSync
<1>. QED
  BY <1>1, RunInductive, PTL
==============================================================================
