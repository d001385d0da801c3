--------------------------- MODULE BreakpointsProofs ---------------------------
(***************************************************************************)
(* Proofs about the breakpoints of a DZRP remote: what the remote has when *)
(* nothing is under way, and what the list of a file has when an edit of   *)
(* it is answered, for any files, lines and groups and any number of edits *)
(* and tasks.  And about the numbered breakpoints of ZEsarUX: who has a    *)
(* number while the requests await their answers, for any number of        *)
(* numbers, assertions and requests.                                       *)
(***************************************************************************)
EXTENDS MCBreakpoints, FiniteSetTheorems, SequenceTheorems, TLAPS

-------------------------------------------------------------------------------
(* Reloads and switches                                                    *)

Objects == Kinds \X Int \X Comments
Of(S, k) == {o \in S : o[1] = k}

Parts == ({"on", "off", "suspend"} \X Kinds) \cup {<<"suspendGroups", "all">>, <<"create", "all">>}
Loops == {"loop"} \X Kinds

AllParts == Parts \cup Loops

Stages == {"idle", "next", "on", "off", "done"}
TaskRecords ==
  [stage : Stages, plan : Seq(AllParts), todo : SUBSET Objects,
   prev : SUBSET Kinds, pending : SUBSET Objects]

Looping(t) == tasks[t].stage \in {"on", "off"}
LoopOf(t)  == tasks[t].plan[1][2]

ListTypes ==
  /\ \A k \in Kinds : lists[k] \subseteq {k} \X Int \X Comments
  /\ lists \in [Kinds -> SUBSET Objects]
  /\ enabled \in [Kinds -> BOOLEAN]
  /\ bpId \in SUBSET Objects
  /\ remote \in SUBSET Objects
  /\ noRoom \in SUBSET Objects
  /\ broken \in SUBSET Kinds /\ forgotten \in SUBSET Kinds
  /\ tasks \in [1..MaxTasks -> TaskRecords]
  /\ overlapped \in BOOLEAN

\* A loop is the first part of the plan, and it is the only part that is one; only a loop waits for
\* answers.
PlanShape ==
  \A t \in 1..MaxTasks :
    /\ Looping(t) => tasks[t].plan # <<>> /\ tasks[t].plan[1] \in Loops
    /\ \A i \in 1..Len(tasks[t].plan) : i # 1 \/ ~Looping(t) => tasks[t].plan[i] \in Parts
    /\ ~Looping(t) => tasks[t].pending = {}

\* What is enabled is switched off before new objects are made: as long as that lies ahead in the
\* plan, something in front of it is about every kind that is enabled and has objects.
SuspendsFirst(plan, stage, isOn, objects) ==
  \A i \in 1..Len(plan) : plan[i][1] \in {"suspendGroups", "create"} =>
    /\ stage # "on"
    /\ \A j \in 1..(i - 1) : plan[j][1] \in {"suspend", "off", "loop"}
    /\ \A k \in {"WPMEM", "ASSERTION"} : isOn[k] => \E j \in 1..(i - 1) : plan[j][2] = k
    /\ plan[i][1] = "create" =>
         \A g \in Groups : isOn[g] /\ objects[g] # {} => \E j \in 1..(i - 1) : plan[j][2] = g

SuspendedFirst(t) == SuspendsFirst(tasks[t].plan, tasks[t].stage, enabled, lists)

\* Of a kind whose list is still the one its objects came from, the remote has objects of the list,
\* none that it had no room for, and what it has can be switched off: but for watchpoints it has an
\* id, or awaits the answer with it.
Left(k, objects, has, ids, lacks, pending) ==
  /\ has \cup ids \subseteq objects
  /\ has \cap lacks = {}
  /\ k = "WPMEM" => lacks = {}
  /\ k # "WPMEM" => has \subseteq ids \cup pending

\* While kind k is switched off, what the remote still has of it is still to do; while it is
\* switched on, what is done the remote has, if it had room and no switch was broken off before.
\* The ids follow the remote one answer behind, but for the watchpoints.
Halfway(task, k, objects, has, ids, lacks, state) ==
  /\ task.todo \subseteq objects
  /\ task.pending \subseteq objects \ task.todo
  /\ state # "forgotten" => Left(k, objects, has, ids, lacks, task.pending)
  /\ state # "forgotten" /\ task.stage = "off" =>
       /\ has \subseteq task.todo
       /\ ids \subseteq task.todo \cup task.pending
       /\ k = "WPMEM" => ids \subseteq task.todo
  /\ state = "sound" /\ task.stage = "on" =>
       /\ (objects \ task.todo) \ lacks \subseteq has
       /\ k = "WPMEM" => ids = has
       /\ k # "WPMEM" => ids = has \ task.pending

State(k) == IF k \in forgotten THEN "forgotten" ELSE IF k \in broken THEN "broken" ELSE "sound"

HalfwayOf(task, k) == Halfway(task, k, lists[k], Of(remote, k), Of(bpId, k), Of(noRoom, k), State(k))

LoopInv(t) == Looping(t) => HalfwayOf(tasks[t], LoopOf(t))

Want(k) == IF enabled[k] THEN lists[k] ELSE {}
KindMatches(k) ==
  /\ State(k) # "forgotten" => Left(k, lists[k], Of(remote, k), Of(bpId, k), Of(noRoom, k), {})
  /\ State(k) = "sound" => Of(remote, k) = Want(k) \ Of(noRoom, k) /\ Of(bpId, k) = Of(remote, k)

OneTask == \A t, u \in 1..MaxTasks : Active(t) /\ Active(u) => t = u

\* What holds of the one task that is active, and of the kinds that it has not in hand.
TaskInv(t) ==
  /\ SuspendedFirst(t)
  /\ LoopInv(t)
  /\ \A k \in Kinds : (Looping(t) /\ LoopOf(t) = k) \/ KindMatches(k)

Quiet == \A k \in Kinds : KindMatches(k)

SwitchInv ==
  ~overlapped =>
    /\ OneTask
    /\ \A t \in 1..MaxTasks : Active(t) => TaskInv(t)
    /\ (\A t \in 1..MaxTasks : ~Active(t)) => Quiet

ListInv == ListTypes /\ PlanShape /\ SwitchInv

-------------------------------------------------------------------------------
(* Edits                                                                   *)

Bps == [place : Places, edit : Int]
EditStages == {"idle", "edit", "adding", "done", "failed"}
EditFiles == Files \cup {Idle.file}   \* an edit that has not begun has any, even if there is none
EditRecords ==
  [stage : EditStages, file : EditFiles, given : SUBSET Places,
   remove : SUBSET Bps, add : SUBSET Places, alone : BOOLEAN]

EditTypes ==
  /\ breakpoints \in SUBSET Bps
  /\ noAddress \in SUBSET Bps
  /\ edits \in [1..MaxEdits -> EditRecords]

Begun(e)  == edits[e].stage # "idle"
Shown(f) == {b \in breakpoints \ noAddress : FileOf(b) = f}

\* Edits begin one after the other, and each is about its own file.
InOrder ==
  \A d, e \in 1..MaxEdits : d < e /\ Begun(e) => Begun(d)

OwnFile ==
  \A e \in 1..MaxEdits : Running(e) =>
    /\ \A b \in edits[e].remove : FileOf(b) = edits[e].file
    /\ \A p \in edits[e].add \cup edits[e].given : p[1] = edits[e].file

\* An edit that is alone has no other beside it, and none was disturbed before it.
AloneInFile ==
  \A d, e \in 1..MaxEdits :
    Running(e) /\ edits[e].alone /\ Begun(d) /\ edits[d].file = edits[e].file =>
      edits[d].alone /\ (d # e => ~Running(d))

\* As long as no edit of a file was disturbed, an address that its list has twice came with one edit.
AddressesOnce ==
  \A f \in EditFiles :
    (\A e \in 1..MaxEdits : Begun(e) /\ edits[e].file = f => edits[e].alone) =>
      \A b, c \in Shown(f) : Address(b) = Address(c) => b.edit = c.edit

\* What lies between the list and what the user gave is what is still to be removed and added.
Given(e) == {AddressOf[p] : p \in edits[e].given}

Remains(e) ==
  LET f == edits[e].file
  IN /\ \A b \in Shown(f) : Address(b) \in Given(e) \/ b \in edits[e].remove
     /\ \A b \in edits[e].remove : Address(b) \notin Given(e)
     /\ \A p \in edits[e].given :
           p \in edits[e].add \/ \E b \in breakpoints : FileOf(b) = f /\ Address(b) = AddressOf[p]
     /\ edits[e].add \subseteq edits[e].given
     /\ \A b \in Shown(f), p \in edits[e].add : Address(b) = AddressOf[p] => b.edit = e

StillToDo == \A e \in 1..MaxEdits : Running(e) /\ edits[e].alone => Remains(e)

EditInv == EditTypes /\ InOrder /\ OwnFile /\ AloneInFile /\ AddressesOnce /\ StillToDo /\ ListedIsSet

\* What every step of an edit that runs leaves as it is.
EditFrame ==
  \A d \in 1..MaxEdits :
    /\ edits'[d].file = edits[d].file
    /\ Running(d)' => edits'[d].given = edits[d].given
    /\ edits'[d].alone = edits[d].alone
    /\ Begun(d)' <=> Begun(d)
    /\ Running(d)' => Running(d)
    /\ edits'[d].remove \subseteq edits[d].remove
    /\ edits'[d].add \subseteq edits[d].add

LEMMA FrameKeeps ==
  ASSUME EditInv, EditTypes', EditFrame
  PROVE  InOrder' /\ OwnFile' /\ AloneInFile'
<1>1. InOrder'
  BY DEF EditInv, InOrder, EditFrame
<1>2. OwnFile'
  <2>1. SUFFICES ASSUME NEW e \in 1..MaxEdits, Running(e)'
                 PROVE  /\ \A b \in edits'[e].remove : FileOf(b) = edits'[e].file
                        /\ \A p \in edits'[e].add \cup edits'[e].given : p[1] = edits'[e].file
    BY DEF OwnFile
  <2>2. /\ Running(e)
        /\ edits'[e].remove \subseteq edits[e].remove
        /\ edits'[e].add \subseteq edits[e].add
        /\ edits'[e].given = edits[e].given
        /\ edits'[e].file = edits[e].file
    BY <2>1 DEF EditFrame
  <2>. QED
    BY <2>2 DEF EditInv, OwnFile
<1>3. AloneInFile'
  BY DEF EditInv, AloneInFile, EditFrame
<1>. QED
  BY <1>1, <1>2, <1>3

\* An edit that is over, answered or failed.
LEMMA OverFacts ==
  ASSUME EditTypes, NEW e \in 1..MaxEdits, NEW stage \in {"done", "failed"}, edits' = Over(e, stage)
  PROVE  /\ edits' \in [1..MaxEdits -> EditRecords]
         /\ \A d \in 1..MaxEdits : d # e => edits'[d] = edits[d]
         /\ edits'[e].file = edits[e].file /\ edits'[e].alone = edits[e].alone
         /\ edits'[e].stage = stage
         /\ edits'[e].given = {} /\ edits'[e].remove = {} /\ edits'[e].add = {}
<1>1. edits \in [1..MaxEdits -> EditRecords] /\ edits[e] \in EditRecords
  BY DEF EditTypes
<1>2. edits' = [edits EXCEPT ![e] = [edits[e] EXCEPT !.stage = stage, !.given = {}, !.remove = {}, !.add = {}]]
  BY <1>1 DEF Over
<1>3. edits'[e] = [edits[e] EXCEPT !.stage = stage, !.given = {}, !.remove = {}, !.add = {}]
  BY <1>1, <1>2
<1>4. edits'[e] \in EditRecords
  BY <1>1, <1>3 DEF EditRecords, EditStages
<1>. QED
  BY ONLY <1>1, <1>2, <1>3, <1>4 DEF EditRecords

LEMMA EditInitInv == Init => EditInv
<1>. SUFFICES ASSUME Init
              PROVE  EditInv
  OBVIOUS
<1>1. /\ breakpoints = {} /\ noAddress = {} /\ remoteUser = {}
      /\ edits = [e \in 1..MaxEdits |-> Idle]
  BY DEF Init
<1>2. \A e \in 1..MaxEdits : edits[e].stage = "idle"
  BY <1>1 DEF Idle
<1>3. EditTypes
  BY <1>1 DEF EditTypes, EditRecords, EditStages, EditFiles, Idle
<1>4. InOrder /\ OwnFile /\ AloneInFile /\ StillToDo
  BY <1>2 DEF InOrder, OwnFile, AloneInFile, StillToDo, Begun, Running
<1>5. AddressesOnce /\ ListedIsSet
  BY <1>1 DEF AddressesOnce, ListedIsSet, Shown
<1>. QED
  BY <1>3, <1>4, <1>5 DEF EditInv

\* A running edit and the others of the facts that an edit leaves alone: what is shown of other
\* files, and what another edit has still to do.
LEMMA OthersKeep ==
  ASSUME EditInv, EditTypes', EditFrame, NEW e \in 1..MaxEdits, Running(e),
         \A d \in 1..MaxEdits : d # e => edits'[d] = edits[d],
         noAddress \subseteq noAddress',
         \A b \in Bps : FileOf(b) # edits[e].file =>
           /\ b \in breakpoints' <=> b \in breakpoints
           /\ b \in noAddress' <=> b \in noAddress,
         NEW d \in 1..MaxEdits, d # e, Running(d)', edits'[d].alone
  PROVE  Remains(d)'
<1>1. edits'[d] = edits[d] /\ Running(d) /\ edits[d].alone /\ Begun(e)
  BY DEF Running, Begun
<1>2. edits[d].file # edits[e].file
  BY <1>1 DEF EditInv, AloneInFile
<1>3. Shown(edits[d].file)' = Shown(edits[d].file)
  BY <1>1, <1>2 DEF Shown, EditInv, EditTypes
<1>4. \A b \in breakpoints : FileOf(b) = edits[d].file => b \in breakpoints'
  BY <1>2 DEF EditInv, EditTypes
<1>5. Remains(d)
  BY <1>1 DEF EditInv, StillToDo
<1>6. \A p \in edits[d].given :
        p \in edits[d].add \/ \E b \in breakpoints' : FileOf(b) = edits[d].file /\ Address(b) = AddressOf[p]
  BY <1>4, <1>5 DEF Remains
<1>. QED
  BY <1>1, <1>3, <1>5, <1>6 DEF Remains, Given

LEMMA RemoveInv ==
  ASSUME EditInv, NEW e \in 1..MaxEdits, removeBreakpoint(e)
  PROVE  EditInv'
<1>. USE DEF EditInv
<1>1. /\ edits[e].stage = "edit" /\ Running(e) /\ edits[e] \in EditRecords
      /\ noAddress' = noAddress
  BY DEF removeBreakpoint, Running, EditTypes
<1>2. PICK b \in edits[e].remove :
        IF b \in breakpoints
        THEN /\ breakpoints' = breakpoints \ {b}
             /\ \/ /\ remoteUser' = remoteUser \ {b}
                   /\ edits' = [edits EXCEPT ![e].remove = @ \ {b}]
                \/ /\ remoteUser' \in {remoteUser, remoteUser \ {b}}
                   /\ edits' = Over(e, "failed")
        ELSE /\ edits' = Over(e, "failed")
             /\ UNCHANGED <<breakpoints, remoteUser>>
  BY DEF removeBreakpoint
<1>3. b \in Bps /\ FileOf(b) = edits[e].file
  BY <1>1, <1>2 DEF OwnFile, EditRecords
<1>4. breakpoints' \subseteq breakpoints /\ breakpoints \ {b} \subseteq breakpoints'
  BY <1>2
<1>5. \/ /\ b \in breakpoints /\ breakpoints' = breakpoints \ {b}
         /\ edits' = [edits EXCEPT ![e].remove = @ \ {b}]
      \/ edits' = Over(e, "failed")
  BY <1>2
<1>6. /\ edits' \in [1..MaxEdits -> EditRecords]
      /\ \A d \in 1..MaxEdits : d # e => edits'[d] = edits[d]
      /\ edits'[e].file = edits[e].file /\ edits'[e].alone = edits[e].alone
      /\ edits'[e].remove \subseteq edits[e].remove /\ edits'[e].add \subseteq edits[e].add
      /\ edits'[e].stage \in {"edit", "failed"}
      /\ edits'[e].stage = "edit" =>
           /\ breakpoints' = breakpoints \ {b} /\ edits'[e].remove = edits[e].remove \ {b}
           /\ edits'[e].given = edits[e].given /\ edits'[e].add = edits[e].add
  <2>1. edits \in [1..MaxEdits -> EditRecords]
    BY DEF EditTypes
  <2>2. CASE edits' = [edits EXCEPT ![e].remove = @ \ {b}] /\ breakpoints' = breakpoints \ {b}
    <3>1. edits'[e] = [edits[e] EXCEPT !.remove = @ \ {b}]
      BY <2>1, <2>2
    <3>2. edits'[e] \in EditRecords
      BY <1>1, <3>1 DEF EditRecords
    <3>. QED
      BY ONLY <1>1, <2>1, <2>2, <3>1, <3>2 DEF EditRecords
  <2>3. CASE edits' = Over(e, "failed")
    BY <2>3, OverFacts
  <2>. QED
    BY <1>5, <2>2, <2>3
<1>7. EditTypes'
  BY <1>1, <1>4, <1>6 DEF EditTypes
<1>8. EditFrame
  BY <1>1, <1>6 DEF EditFrame, Begun, Running
<1>9. InOrder' /\ OwnFile' /\ AloneInFile'
  BY <1>7, <1>8, FrameKeeps
<1>10. \A f \in EditFiles : Shown(f)' \subseteq Shown(f)
  BY <1>1, <1>4 DEF Shown
<1>11. AddressesOnce'
  BY <1>8, <1>10 DEF AddressesOnce, EditFrame
<1>12. StillToDo'
  <2>1. SUFFICES ASSUME NEW d \in 1..MaxEdits, Running(d)', edits'[d].alone
                 PROVE  Remains(d)'
    BY DEF StillToDo
  <2>2. CASE d # e
    BY <2>1, <2>2, <1>1, <1>3, <1>4, <1>6, <1>7, <1>8, OthersKeep
  <2>3. CASE d = e
    <3>1. /\ breakpoints' = breakpoints \ {b} /\ edits'[e].remove = edits[e].remove \ {b}
          /\ edits'[e].given = edits[e].given /\ edits'[e].add = edits[e].add
          /\ edits[e].alone
      BY <2>1, <2>3, <1>6 DEF Running
    <3>2. Remains(e)
      BY <3>1, <1>1 DEF StillToDo
    <3>3. \A c \in breakpoints' \ noAddress' : c \in breakpoints \ noAddress /\ c # b
      BY <3>1, <1>1
    <3>4. ASSUME NEW p \in edits[e].given, p \notin edits[e].add
          PROVE  \E c \in breakpoints' : FileOf(c) = edits[e].file /\ Address(c) = AddressOf[p]
      <4>1. PICK c \in breakpoints : FileOf(c) = edits[e].file /\ Address(c) = AddressOf[p]
        BY <3>2, <3>4 DEF Remains
      <4>2. c # b
        BY <3>2, <1>2, <4>1 DEF Remains, Given
      <4>. QED
        BY <3>1, <4>1, <4>2
    <3>. QED
      BY <2>3, <3>1, <3>2, <3>3, <3>4, <1>6 DEF Remains, Shown, Given
  <2>. QED
    BY <2>2, <2>3
<1>13. ListedIsSet'
  BY <1>1, <1>2 DEF ListedIsSet
<1>. QED
  BY <1>7, <1>9, <1>11, <1>12, <1>13

LEMMA SetInv ==
  ASSUME EditInv, NEW e \in 1..MaxEdits, setBreakpoint(e)
  PROVE  EditInv'
<1>. USE DEF EditInv
<1>1. /\ edits[e].stage = "edit" /\ Running(e) /\ edits[e] \in EditRecords
      /\ noAddress' = noAddress /\ breakpoints' = breakpoints
  BY DEF setBreakpoint, Running, EditTypes
<1>2. PICK place \in edits[e].add :
        /\ remoteUser \subseteq remoteUser'
        /\ \/ edits' = [edits EXCEPT ![e].stage = "adding", ![e].add = {place} \cup @]
           \/ edits' = Over(e, "failed")
  BY DEF setBreakpoint
<1>3. /\ edits' \in [1..MaxEdits -> EditRecords]
      /\ \A d \in 1..MaxEdits : d # e => edits'[d] = edits[d]
      /\ edits'[e].file = edits[e].file /\ edits'[e].alone = edits[e].alone
      /\ edits'[e].remove \subseteq edits[e].remove /\ edits'[e].add \subseteq edits[e].add
      /\ edits'[e].stage \in {"adding", "failed"}
      /\ edits'[e].stage = "adding" =>
           /\ edits'[e].remove = edits[e].remove /\ edits'[e].given = edits[e].given
           /\ edits'[e].add = edits[e].add
  <2>1. edits \in [1..MaxEdits -> EditRecords]
    BY DEF EditTypes
  <2>2. CASE edits' = [edits EXCEPT ![e].stage = "adding", ![e].add = {place} \cup @]
    <3>1. {place} \cup edits[e].add = edits[e].add
      OBVIOUS
    <3>2. edits'[e] = [edits[e] EXCEPT !.stage = "adding", !.add = {place} \cup @]
      BY <2>1, <2>2
    <3>3. edits'[e] \in EditRecords
      BY <1>1, <3>1, <3>2 DEF EditRecords, EditStages
    <3>. QED
      BY ONLY <1>1, <2>1, <2>2, <3>1, <3>2, <3>3 DEF EditRecords
  <2>3. CASE edits' = Over(e, "failed")
    BY <2>3, OverFacts
  <2>. QED
    BY <1>2, <2>2, <2>3
<1>4. EditTypes'
  BY <1>1, <1>3 DEF EditTypes
<1>5. EditFrame
  BY <1>1, <1>3 DEF EditFrame, Begun, Running
<1>6. InOrder' /\ OwnFile' /\ AloneInFile'
  BY <1>4, <1>5, FrameKeeps
<1>7. \A f \in EditFiles : Shown(f)' = Shown(f)
  BY <1>1 DEF Shown
<1>8. AddressesOnce'
  BY <1>5, <1>7 DEF AddressesOnce, EditFrame
<1>9. StillToDo'
  <2>1. SUFFICES ASSUME NEW d \in 1..MaxEdits, Running(d)', edits'[d].alone
                 PROVE  Remains(d)'
    BY DEF StillToDo
  <2>2. edits[d].alone /\ Running(d) /\ Remains(d)
    BY <2>1, <1>5 DEF StillToDo, EditFrame
  <2>3. breakpoints' \ noAddress' = breakpoints \ noAddress
    BY <1>1
  <2>4. /\ edits'[d].file = edits[d].file /\ edits'[d].given = edits[d].given
        /\ edits'[d].add = edits[d].add /\ edits'[d].remove = edits[d].remove
    BY <2>1, <1>3 DEF Running
  <2>. QED
    BY <2>2, <2>3, <2>4, <1>1 DEF Remains, Shown, Given
<1>10. ListedIsSet'
  BY <1>1, <1>2 DEF ListedIsSet
<1>. QED
  BY <1>4, <1>6, <1>8, <1>9, <1>10

LEMMA BreakpointSetInv ==
  ASSUME EditInv, NEW e \in 1..MaxEdits, BreakpointSet(e)
  PROVE  EditInv'
<1>. USE DEF EditInv
<1>1. /\ edits[e].stage = "adding" /\ Running(e) /\ edits[e] \in EditRecords
      /\ remoteUser' = remoteUser
  BY DEF BreakpointSet, Running, EditTypes
<1>2. PICK place \in edits[e].add :
        LET b == Bp(place, e)
        IN /\ breakpoints' = breakpoints \cup {b}
           /\ noAddress' = IF b \in remoteUser THEN noAddress ELSE noAddress \cup {b}
           /\ edits' = [edits EXCEPT ![e].stage = "edit", ![e].add = @ \ {place}]
  BY DEF BreakpointSet
<1>. DEFINE b == Bp(place, e)
<1>3. b \in Bps /\ b.place = place /\ b.edit = e /\ FileOf(b) = edits[e].file
  BY <1>1, <1>2 DEF OwnFile, EditRecords, Bp, Bps, FileOf
<1>4. /\ breakpoints' = breakpoints \cup {b}
      /\ noAddress' = noAddress \/ noAddress' = noAddress \cup {b}
      /\ b \in remoteUser \/ b \in noAddress'
  BY <1>2
<1>5. /\ edits' \in [1..MaxEdits -> EditRecords]
      /\ \A d \in 1..MaxEdits : d # e => edits'[d] = edits[d]
      /\ edits'[e].file = edits[e].file /\ edits'[e].given = edits[e].given
      /\ edits'[e].alone = edits[e].alone /\ edits'[e].add = edits[e].add \ {place}
      /\ edits'[e].remove = edits[e].remove /\ edits'[e].stage = "edit"
  <2>1. edits \in [1..MaxEdits -> EditRecords]
    BY DEF EditTypes
  <2>2. edits' = [edits EXCEPT ![e].stage = "edit", ![e].add = @ \ {place}]
    BY <1>2
  <2>3. edits'[e] = [edits[e] EXCEPT !.stage = "edit", !.add = @ \ {place}]
    BY <2>1, <2>2
  <2>4. edits'[e] \in EditRecords
    BY <1>1, <2>3 DEF EditRecords, EditStages
  <2>. QED
    BY ONLY <1>1, <2>1, <2>2, <2>3, <2>4 DEF EditRecords
<1>. HIDE DEF b
<1>6. EditTypes'
  BY <1>3, <1>4, <1>5 DEF EditTypes
<1>7. EditFrame
  BY <1>1, <1>5 DEF EditFrame, Begun, Running
<1>8. InOrder' /\ OwnFile' /\ AloneInFile'
  BY <1>6, <1>7, FrameKeeps
<1>9. \A c : c \in breakpoints' \ noAddress' => c \in breakpoints \ noAddress \/ c = b
  BY <1>4
<1>10. ASSUME edits[e].alone
       PROVE  \A c \in breakpoints \ noAddress :
                FileOf(c) = edits[e].file /\ Address(c) = AddressOf[place] => c.edit = e
  <2>1. Remains(e)
    BY <1>1, <1>10 DEF StillToDo
  <2>. QED
    BY <2>1, <1>2 DEF Remains, Shown
<1>11. AddressesOnce'
  <2>1. SUFFICES ASSUME NEW f \in EditFiles,
                        \A d \in 1..MaxEdits : Begun(d)' /\ edits'[d].file = f => edits'[d].alone,
                        NEW c \in Shown(f)', NEW d \in Shown(f)', Address(c) = Address(d)
                 PROVE  c.edit = d.edit
    BY DEF AddressesOnce
  <2>2. \A g \in 1..MaxEdits : Begun(g) /\ edits[g].file = f => edits[g].alone
    BY <2>1, <1>7 DEF EditFrame
  <2>3. /\ c \in Shown(f) \/ c = b
        /\ d \in Shown(f) \/ d = b
        /\ FileOf(c) = f /\ FileOf(d) = f
    BY <1>9 DEF Shown
  <2>4. CASE c # b /\ d # b
    BY <2>1, <2>2, <2>3, <2>4 DEF AddressesOnce
  <2>5. CASE c = b \/ d = b
    <3>1. edits[e].file = f /\ edits[e].alone
      BY <2>2, <2>3, <2>5, <1>1, <1>3 DEF Begun
    <3>. QED
      BY <2>1, <2>3, <2>5, <3>1, <1>3, <1>10 DEF Shown, Address
  <2>. QED
    BY <2>4, <2>5
<1>12. StillToDo'
  <2>1. SUFFICES ASSUME NEW d \in 1..MaxEdits, Running(d)', edits'[d].alone
                 PROVE  Remains(d)'
    BY DEF StillToDo
  <2>2. CASE d # e
    BY <2>1, <2>2, <1>1, <1>3, <1>4, <1>5, <1>6, <1>7, OthersKeep
  <2>3. CASE d = e
    <3>1. edits[e].alone /\ Remains(e)
      BY <2>1, <2>3, <1>1, <1>5 DEF StillToDo
    <3>2. place \in edits[e].given
      BY <3>1, <1>2 DEF Remains
    <3>3. \A c \in breakpoints' \ noAddress' :
            FileOf(c) = edits[e].file => Address(c) \in Given(e) \/ c \in edits[e].remove
      BY <3>1, <3>2, <1>3, <1>9 DEF Remains, Shown, Given, Address
    <3>4. \A p \in edits[e].given : \/ p \in edits[e].add \ {place}
                                    \/ \E c \in breakpoints' :
                                         FileOf(c) = edits[e].file /\ Address(c) = AddressOf[p]
      BY <3>1, <1>3, <1>4 DEF Remains, Address
    <3>5. \A c \in breakpoints' \ noAddress', p \in edits[e].add \ {place} :
            FileOf(c) = edits[e].file /\ Address(c) = AddressOf[p] => c.edit = e
      BY <3>1, <1>3, <1>9 DEF Remains, Shown
    <3>. QED
      BY <2>3, <3>1, <3>3, <3>4, <3>5, <1>5 DEF Remains, Shown, Given
  <2>. QED
    BY <2>2, <2>3
<1>13. ListedIsSet'
  BY <1>1, <1>4 DEF ListedIsSet
<1>. QED
  BY <1>6, <1>8, <1>11, <1>12, <1>13

LEMMA AnswerInv ==
  ASSUME EditInv, NEW e \in 1..MaxEdits, Answer(e)
  PROVE  EditInv'
<1>. USE DEF EditInv
<1>1. /\ edits[e].stage = "edit" /\ Running(e) /\ edits[e] \in EditRecords
      /\ UNCHANGED <<breakpoints, noAddress, remoteUser>>
      /\ edits' = Over(e, "done")
  BY DEF Answer, Running, EditTypes
<1>2. /\ edits' \in [1..MaxEdits -> EditRecords]
      /\ \A d \in 1..MaxEdits : d # e => edits'[d] = edits[d]
      /\ edits'[e].file = edits[e].file /\ edits'[e].alone = edits[e].alone
      /\ edits'[e].stage = "done" /\ edits'[e].remove = {} /\ edits'[e].add = {}
  BY <1>1, OverFacts
<1>3. EditTypes'
  BY <1>1, <1>2 DEF EditTypes
<1>4. EditFrame /\ ~Running(e)'
  BY <1>1, <1>2 DEF EditFrame, Begun, Running, EditRecords
<1>5. InOrder' /\ OwnFile' /\ AloneInFile'
  BY <1>3, <1>4, FrameKeeps
<1>6. AddressesOnce'
  BY <1>1, <1>4 DEF AddressesOnce, EditFrame, Shown
<1>7. StillToDo'
  <2>1. SUFFICES ASSUME NEW d \in 1..MaxEdits, Running(d)', edits'[d].alone
                 PROVE  Remains(d)'
    BY DEF StillToDo
  <2>2. d # e
    BY <1>4, <2>1
  <2>. QED
    BY <2>1, <2>2, <1>1, <1>2, <1>3, <1>4, OthersKeep
<1>8. ListedIsSet'
  BY <1>1 DEF ListedIsSet
<1>. QED
  BY <1>3, <1>5, <1>6, <1>7, <1>8

LEMMA BeginInv ==
  ASSUME EditInv, NEW e \in 1..MaxEdits, setBreakpoints(e)
  PROVE  EditInv'
<1>. USE DEF EditInv
<1>1. /\ edits[e].stage = "idle" /\ ~Begun(e) /\ edits[e] \in EditRecords
      /\ \A d \in 1..(e - 1) : Begun(d)
      /\ UNCHANGED <<breakpoints, noAddress, remoteUser>>
  BY DEF setBreakpoints, EditTypes, Begun
<1>2. PICK f \in Files, chosen \in SUBSET Lines :
        LET old     == {b \in breakpoints : FileOf(b) = f}
            current == Valid(f, chosen)
            have    == {Address(b) : b \in old \ noAddress}
            keep    == {AddressOf[p] : p \in current}
            busy    == {d \in 1..MaxEdits : Running(d) /\ edits[d].file = f}
        IN edits' = [d \in 1..MaxEdits |->
                       CASE d = e -> [stage |-> "edit", file |-> f, given |-> current,
                                      remove |-> {b \in old \ noAddress : Address(b) \notin keep},
                                      add |-> {p \in current : AddressOf[p] \notin have},
                                      alone |-> /\ busy = {}
                                                /\ \A c \in 1..(e - 1) : edits[c].file = f => edits[c].alone]
                         [] d \in busy -> [edits[d] EXCEPT !.alone = FALSE]
                         [] OTHER -> edits[d]]
  BY DEF setBreakpoints
<1>. DEFINE old     == {b \in breakpoints : FileOf(b) = f}
            current == Valid(f, chosen)
            have    == {Address(b) : b \in old \ noAddress}
            keep    == {AddressOf[p] : p \in current}
            busy    == {d \in 1..MaxEdits : Running(d) /\ edits[d].file = f}
            alone   == /\ busy = {}
                       /\ \A c \in 1..(e - 1) : edits[c].file = f => edits[c].alone
            new     == [stage |-> "edit", file |-> f, given |-> current,
                        remove |-> {b \in old \ noAddress : Address(b) \notin keep},
                        add |-> {p \in current : AddressOf[p] \notin have}, alone |-> alone]
<1>3. e \notin busy
  BY <1>1 DEF Running
<1>4. /\ edits' = [d \in 1..MaxEdits |-> IF d = e THEN new ELSE edits'[d]]
      /\ \A d \in busy \ {e} : edits'[d] = [edits[d] EXCEPT !.alone = FALSE]
      /\ \A d \in 1..MaxEdits : d # e /\ d \notin busy => edits'[d] = edits[d]
  <2>1. edits' = [d \in 1..MaxEdits |-> CASE d = e     -> new
                                          [] d \in busy -> [edits[d] EXCEPT !.alone = FALSE]
                                          [] OTHER     -> edits[d]]
    BY <1>2
  <2>2. busy \subseteq 1..MaxEdits
    OBVIOUS
  <2>. HIDE DEF new, busy
  <2>. QED
    BY <1>3, <2>1, <2>2
<1>5. current \in SUBSET Places /\ (\A p \in current : p[1] = f) /\ old \in SUBSET Bps
  BY DEF Places, EditTypes, Valid
<1>6. new \in EditRecords
  BY <1>5 DEF EditRecords, EditStages, EditFiles
<1>7. \A d \in busy : edits'[d] \in EditRecords
  <2>1. \A d \in busy : edits[d] \in EditRecords /\ edits'[d] = [edits[d] EXCEPT !.alone = FALSE]
    BY <1>4, <1>3 DEF EditTypes
  <2>. QED
    BY <2>1 DEF EditRecords
<1>8. /\ edits'[e] = new
      /\ \A d \in 1..MaxEdits : d # e =>
           /\ edits'[d].stage = edits[d].stage /\ edits'[d].file = edits[d].file
           /\ edits'[d].given = edits[d].given /\ edits'[d].remove = edits[d].remove
           /\ edits'[d].add = edits[d].add
           /\ d \in busy => ~edits'[d].alone
           /\ d \notin busy => edits'[d].alone = edits[d].alone
  <2>1. \A d \in 1..MaxEdits : edits[d] \in EditRecords
    BY DEF EditTypes
  <2>2. edits'[e] = new
    BY <1>4
  <2>3. \A d \in 1..MaxEdits : d # e => edits'[d] = edits[d] \/ edits'[d] = [edits[d] EXCEPT !.alone = FALSE]
    BY <1>4
  <2>4. \A d \in busy \ {e} : ~edits'[d].alone
    BY <2>1, <1>4 DEF EditRecords
  <2>. HIDE DEF new, busy
  <2>. QED
    BY <2>1, <2>2, <2>3, <2>4, <1>4 DEF EditRecords
<1>9. /\ edits'[e].stage = "edit" /\ edits'[e].file = f /\ edits'[e].given = current
      /\ edits'[e].remove = {b \in old \ noAddress : Address(b) \notin keep}
      /\ edits'[e].add = {p \in current : AddressOf[p] \notin have}
      /\ edits'[e].alone <=> alone
  BY <1>8
<1>10. EditTypes'
  <2>1. \A d \in 1..MaxEdits : edits'[d] \in EditRecords
    BY <1>4, <1>6, <1>7, <1>8 DEF EditTypes
  <2>. HIDE DEF new
  <2>. QED
    BY <1>1, <1>4, <2>1 DEF EditTypes
<1>. HIDE DEF new
<1>11. /\ Begun(e)' /\ Running(e)'
       /\ \A d \in 1..MaxEdits : d # e => (Begun(d)' <=> Begun(d)) /\ (Running(d)' <=> Running(d))
       /\ \A d \in 1..MaxEdits : Begun(d) => d < e
       /\ \A d \in 1..MaxEdits : Running(d) => Begun(d)
  BY <1>1, <1>8, <1>9 DEF Begun, Running, InOrder
<1>12. InOrder'
  BY <1>1, <1>11 DEF InOrder
<1>13. OwnFile'
  <2>1. ASSUME NEW d \in 1..MaxEdits, Running(d)', d # e
        PROVE  /\ \A b \in edits'[d].remove : FileOf(b) = edits'[d].file
               /\ \A p \in edits'[d].add \cup edits'[d].given : p[1] = edits'[d].file
    <3>1. Running(d)
      BY <2>1, <1>11
    <3>2. edits'[d].remove = edits[d].remove /\ edits'[d].file = edits[d].file
      BY <1>8, <2>1
    <3>3. edits'[d].add = edits[d].add /\ edits'[d].given = edits[d].given
      BY <1>8, <2>1
    <3>. QED
      BY <3>1, <3>2, <3>3 DEF OwnFile
  <2>2. /\ \A b \in edits'[e].remove : FileOf(b) = edits'[e].file
        /\ \A p \in edits'[e].add \cup edits'[e].given : p[1] = edits'[e].file
    BY <1>5, <1>9
  <2>. QED
    BY <2>1, <2>2 DEF OwnFile
<1>14. AloneInFile'
  <2>1. SUFFICES ASSUME NEW d \in 1..MaxEdits, NEW g \in 1..MaxEdits,
                        Running(g)', edits'[g].alone, Begun(d)', edits'[d].file = edits'[g].file
                 PROVE  edits'[d].alone /\ (d # g => ~Running(d)')
    BY DEF AloneInFile
  <2>2. CASE g = e
    <3>1. alone /\ edits'[d].file = f
      BY <2>1, <2>2, <1>9
    <3>2. CASE d # e
      <4>1. d \in 1..(e - 1) /\ edits[d].file = f /\ ~Running(d) /\ d \notin busy
        BY <2>1, <3>1, <3>2, <1>8, <1>11
      <4>. QED
        BY <4>1, <3>1, <3>2, <1>8, <1>11
    <3>3. CASE d = e
      BY <2>1, <2>2, <3>3
    <3>. QED
      BY <3>2, <3>3
  <2>3. CASE g # e
    <3>1. Running(g) /\ g \notin busy /\ edits[g].alone /\ edits[g].file # f
      BY <2>1, <2>3, <1>8, <1>11
    <3>2. d # e /\ edits[d].file = edits[g].file /\ d \notin busy
      BY <2>1, <2>3, <3>1, <1>8, <1>9
    <3>. QED
      BY <2>1, <3>1, <3>2, <1>8, <1>11 DEF AloneInFile
  <2>. QED
    BY <2>2, <2>3
<1>15. AddressesOnce'
  <2>1. ASSUME NEW h \in EditFiles, \A d \in 1..MaxEdits : Begun(d)' /\ edits'[d].file = h => edits'[d].alone
        PROVE  \A d \in 1..MaxEdits : Begun(d) /\ edits[d].file = h => edits[d].alone
    <3>1. SUFFICES ASSUME NEW d \in 1..MaxEdits, Begun(d), edits[d].file = h
                   PROVE  edits[d].alone
      OBVIOUS
    <3>2. d # e /\ Begun(d)' /\ edits'[d].file = h
      BY <3>1, <1>1, <1>8, <1>11
    <3>3. edits'[d].alone
      BY <2>1, <3>2
    <3>. QED
      BY <3>2, <3>3, <1>8
  <2>2. breakpoints' \ noAddress' = breakpoints \ noAddress
    BY <1>1
  <2>. QED
    BY <2>1, <2>2 DEF AddressesOnce, Shown
<1>16. StillToDo'
  <2>1. SUFFICES ASSUME NEW d \in 1..MaxEdits, Running(d)', edits'[d].alone
                 PROVE  Remains(d)'
    BY DEF StillToDo
  <2>2. CASE d = e
    <3>1. Given(e)' = keep
      BY <1>9 DEF Given
    <3>2. \A b \in breakpoints' \ noAddress' : FileOf(b) = f => Address(b) \in keep \/ b \in edits'[e].remove
      BY <1>1, <1>9
    <3>3. \A p \in current : p \in edits'[e].add \/ \E b \in breakpoints' : FileOf(b) = f /\ Address(b) = AddressOf[p]
      BY <1>1, <1>9
    <3>4. \A b \in breakpoints' \ noAddress', p \in edits'[e].add : FileOf(b) = f => Address(b) # AddressOf[p]
      BY <1>1, <1>9
    <3>. QED
      BY <2>2, <3>1, <3>2, <3>3, <3>4, <1>9 DEF Remains, Shown
  <2>3. CASE d # e
    <3>1. Running(d) /\ d \notin busy /\ edits[d].alone
      BY <2>1, <2>3, <1>8, <1>11
    <3>2. edits'[d] = edits[d] /\ Remains(d)
      BY <3>1, <2>3, <1>4 DEF StillToDo
    <3>. QED
      BY <3>2, <1>1 DEF Remains, Shown, Given
  <2>. QED
    BY <2>2, <2>3
<1>17. ListedIsSet'
  BY <1>1 DEF ListedIsSet
<1>. QED
  BY <1>10, <1>12, <1>13, <1>14, <1>15, <1>16, <1>17

LEMMA EditNextInv == EditInv /\ [Next]_vars => EditInv'
<1>1. ASSUME EditInv, UNCHANGED <<breakpoints, noAddress, remoteUser, edits>>
      PROVE  EditInv'
  BY <1>1
  DEF EditInv, EditTypes, InOrder, OwnFile, AloneInFile, AddressesOnce, StillToDo, Remains, Given,
      Begun, Running, Shown, ListedIsSet
<1>2. ASSUME NEW e \in 1..MaxEdits, Edit(e), EditInv
      PROVE  EditInv'
  BY <1>2, RemoveInv, SetInv, BreakpointSetInv, AnswerInv DEF Edit
<1>3. ASSUME NEW t \in 1..MaxTasks, reloadLabels(t) \/ setExceptionBreakPoints(t) \/ Task(t) \/ Fail(t)
      PROVE  UNCHANGED <<breakpoints, noAddress, remoteUser, edits>>
  BY <1>3
  DEF reloadLabels, setExceptionBreakPoints, Start, Task, NextPart, create, Send, Answered,
      LoopEnds, TaskEnds, Fail, userVars
<1>4. (UNCHANGED vars) => UNCHANGED <<breakpoints, noAddress, remoteUser, edits>>
  BY DEF vars, userVars
<1>. QED
  BY <1>1, <1>2, <1>3, <1>4, BeginInv DEF Next

\* A part of the model takes the steps of this module or none of them.
LEMMA PartIsNext == [MCNext]_<<part, vars, zesaruxVars>> => [Next]_vars
BY DEF MCNext, UserNext, CommentsNext, Next

LEMMA AlwaysEditInv == MCSpec => []EditInv
<1>1. MCInit => EditInv
  BY EditInitInv DEF MCInit
<1>. QED
  BY <1>1, EditNextInv, PartIsNext, PTL DEF MCSpec

\* The list of a file when an edit of it, that was alone, is answered.
AsGiven(e) ==
  LET listed == {b \in breakpoints : FileOf(b) = edits[e].file}
      given  == {AddressOf[p] : p \in edits[e].given}
  IN /\ given \subseteq {Address(b) : b \in listed}
     /\ \A b \in listed \ noAddress : Address(b) \in given
     /\ \A b, c \in listed \ noAddress : Address(b) = Address(c) => b.edit = c.edit

LEMMA AnsweredAsGiven ==
  ASSUME EditInv, NEW e \in 1..MaxEdits, Answer(e), edits[e].alone
  PROVE  AsGiven(e)
<1>1. Running(e) /\ edits[e].remove = {} /\ edits[e].add = {} /\ edits[e].file \in EditFiles
  BY DEF Answer, Running, EditInv, EditTypes, EditRecords
<1>2. Remains(e)
  BY <1>1 DEF EditInv, StillToDo
<1>3. \A b, c \in Shown(edits[e].file) : Address(b) = Address(c) => b.edit = c.edit
  <2>1. \A d \in 1..MaxEdits : Begun(d) /\ edits[d].file = edits[e].file => edits[d].alone
    BY <1>1 DEF EditInv, AloneInFile
  <2>. QED
    BY <1>1, <2>1 DEF EditInv, AddressesOnce
<1>. QED
  BY <1>1, <1>2, <1>3 DEF Remains, Shown, Given, AsGiven

(* When setBreakpoints is answered without an error, and no two calls for  *)
(* the file have overlapped so far, the list of the file has the address   *)
(* of every line that was given and, but for breakpoints without room, no  *)
(* other; an address that it has twice was given by two lines of one call: *)
(* whatever calls for other files run in between, and whichever of their   *)
(* commands fail.                                                          *)
THEOREM EditsAreKept == MCSpec => FileAsGiven
<1>1. ASSUME EditInv
      PROVE  [\A e \in 1..MaxEdits :
                Answer(e) /\ edits[e].alone =>
                  LET listed == {b \in breakpoints : FileOf(b) = edits[e].file}
                      given  == {AddressOf[p] : p \in edits[e].given}
                  IN /\ given \subseteq {Address(b) : b \in listed}
                     /\ \A b \in listed \ noAddress : Address(b) \in given
                     /\ \A b, c \in listed \ noAddress : Address(b) = Address(c) => b.edit = c.edit]_vars
  BY <1>1, AnsweredAsGiven DEF AsGiven
<1>. QED
  BY <1>1, AlwaysEditInv, PTL DEF FileAsGiven

-------------------------------------------------------------------------------
(* Reloads and switches: lemmas about sequences                            *)

LEMMA SetToSeqFacts ==
  ASSUME NEW S, IsFiniteSet(S)
  PROVE  /\ SetToSeq(S) \in Seq(S)
         /\ \A x \in S : \E i \in 1..Len(SetToSeq(S)) : SetToSeq(S)[i] = x
<1>. DEFINE n == Cardinality(S)
<1>1. n \in Nat /\ ExistsBijection(1..n, S)
  BY FS_CardinalityType
<1>2. \E f \in [1..n -> S] : IsInjective(f)
  BY <1>1 DEF ExistsBijection, Bijection, Injection
<1>3. SetToSeq(S) \in [1..n -> S] /\ IsInjective(SetToSeq(S))
  BY <1>2 DEF SetToSeq
<1>4. SetToSeq(S) \in Injection(1..n, S)
  BY <1>3 DEF Injection
<1>5. Cardinality(1..n) = n
  BY <1>1, FS_Interval
<1>6. SetToSeq(S) \in Surjection(1..n, S)
  BY <1>4, <1>5, FS_Injection
<1>7. \A x \in S : \E i \in 1..n : SetToSeq(S)[i] = x
  BY <1>6 DEF Surjection
<1>8. SetToSeq(S) \in Seq(S) /\ Len(SetToSeq(S)) = n
  BY <1>1, <1>3
<1>. QED
  BY <1>7, <1>8

\* The first element of a plan is taken away, or replaced.
LEMMA TailOf ==
  ASSUME NEW T, NEW s \in Seq(T), s # <<>>
  PROVE  /\ Len(s) \in Nat /\ Len(s) >= 1
         /\ Head(s) = s[1] /\ s[1] \in T
         /\ Tail(s) \in Seq(T) /\ Len(Tail(s)) = Len(s) - 1
         /\ \A i \in 1..Len(Tail(s)) : Tail(s)[i] = s[i + 1]
OBVIOUS

LEMMA HeadReplaced ==
  ASSUME NEW T, NEW s \in Seq(T), s # <<>>, NEW x \in T
  PROVE  /\ <<x>> \o Tail(s) \in Seq(T) /\ Len(<<x>> \o Tail(s)) = Len(s)
         /\ (<<x>> \o Tail(s))[1] = x
         /\ \A i \in 2..Len(s) : (<<x>> \o Tail(s))[i] = s[i]
<1>1. /\ Tail(s) \in Seq(T) /\ Len(Tail(s)) = Len(s) - 1 /\ Len(s) \in Nat /\ Len(s) >= 1
      /\ \A i \in 1..Len(Tail(s)) : Tail(s)[i] = s[i + 1]
  BY TailOf
<1>2. <<x>> \in Seq(T) /\ Len(<<x>>) = 1 /\ <<x>>[1] = x
  OBVIOUS
<1>3. /\ <<x>> \o Tail(s) \in Seq(T) /\ Len(<<x>> \o Tail(s)) = 1 + Len(Tail(s))
      /\ \A i \in 1..Len(<<x>> \o Tail(s)) :
            (<<x>> \o Tail(s))[i] = IF i <= 1 THEN <<x>>[i] ELSE Tail(s)[i - 1]
  BY <1>1, <1>2, ConcatProperties
<1>. QED
  BY <1>1, <1>2, <1>3

-------------------------------------------------------------------------------
(* Reloads and switches: steps                                             *)

\* A step of the active task concerns no other.
LEMMA OnlyTask ==
  ASSUME ListInv, ListTypes', PlanShape', NEW t \in 1..MaxTasks, Active(t),
         \A u \in 1..MaxTasks : u # t => tasks'[u] = tasks[u],
         overlapped' = overlapped,
         TaskInv(t) => TaskInv(t)' /\ (~Active(t)' => Quiet')
  PROVE  ListInv'
<1>. SUFFICES ASSUME ~overlapped
              PROVE  SwitchInv'
  BY DEF ListInv, SwitchInv
<1>1. /\ OneTask /\ TaskInv(t)
      /\ \A u \in 1..MaxTasks : u # t => ~Active(u)
  BY DEF ListInv, SwitchInv, OneTask
<1>2. \A u \in 1..MaxTasks : u # t => ~Active(u)'
  BY <1>1 DEF Active
<1>3. OneTask'
  BY <1>2 DEF OneTask
<1>4. TaskInv(t)' /\ (~Active(t)' => Quiet')
  BY <1>1
<1>. QED
  BY <1>2, <1>3, <1>4 DEF SwitchInv

LEMMA ListInitInv == Init => ListInv
<1>. SUFFICES ASSUME Init
              PROVE  ListInv
  OBVIOUS
<1>1. /\ lists = [k \in Kinds |-> Made(k, 0)] /\ enabled = [k \in Kinds |-> FALSE]
      /\ bpId = {} /\ remote = {} /\ tasks = [t \in 1..MaxTasks |-> NoTask] /\ overlapped = FALSE
      /\ noRoom = {} /\ broken = {} /\ forgotten = {}
  BY DEF Init
<1>2. NoTask \in TaskRecords
  <2>1. <<>> \in Seq(AllParts)
    OBVIOUS
  <2>. QED
    BY <2>1 DEF NoTask, TaskRecords, Stages
<1>3. ListTypes
  <2>1. lists \in [Kinds -> SUBSET Objects] /\ \A k \in Kinds : lists[k] \subseteq {k} \X Int \X Comments
    <3>1. \A k \in Kinds : Made(k, 0) \subseteq {k} \X Int \X Comments /\ Made(k, 0) \subseteq Objects
      BY DEF Objects, Made
    <3>. QED
      BY <1>1, <3>1
  <2>2. enabled \in [Kinds -> BOOLEAN]
    BY <1>1
  <2>3. tasks \in [1..MaxTasks -> TaskRecords]
    BY <1>1, <1>2
  <2>. QED
    BY <1>1, <2>1, <2>2, <2>3 DEF ListTypes
<1>4. PlanShape
  BY <1>1 DEF PlanShape, Looping, NoTask
<1>5. \A t \in 1..MaxTasks : ~Active(t)
  BY <1>1 DEF Active, NoTask
<1>6. Quiet
  BY <1>1 DEF Quiet, KindMatches, Left, State, Want, Of
<1>. QED
  BY <1>3, <1>4, <1>5, <1>6 DEF ListInv, SwitchInv, OneTask

\* A step that does not concern a kind leaves it as it is.
LEMMA KindKept ==
  ASSUME NEW k, KindMatches(k), lists'[k] = lists[k], enabled'[k] = enabled[k],
         Of(remote', k) = Of(remote, k), Of(bpId', k) = Of(bpId, k), Of(noRoom', k) = Of(noRoom, k),
         k \in broken' <=> k \in broken, k \in forgotten' <=> k \in forgotten
  PROVE  KindMatches(k)'
<1>1. State(k)' = State(k)
  BY DEF State
<1>2. Want(k)' = Want(k)
  BY DEF Want
<1>. QED
  BY <1>1, <1>2 DEF KindMatches

LEMMA KindsKept ==
  ASSUME \A k \in Kinds : KindMatches(k),
         UNCHANGED <<lists, enabled, bpId, remote, noRoom, broken, forgotten>>
  PROVE  \A k \in Kinds : KindMatches(k)'
BY KindKept

\* A task begins: with a switch of one kind, or with the three parts of a reload.
LEMMA StartInv ==
  ASSUME ListInv, NEW t \in 1..MaxTasks, NEW plan \in Seq(Parts), Start(t, plan),
         \A i \in 1..Len(plan) : plan[i][1] \in {"suspendGroups", "create"} =>
           /\ plan[i][1] # "create"
           /\ \A j \in 1..(i - 1) : plan[j][1] = "suspend"
           /\ \A k \in {"WPMEM", "ASSERTION"} : \E j \in 1..(i - 1) : plan[j][2] = k
  PROVE  ListInv'
<1>1. /\ tasks[t].stage = "idle" /\ ~Active(t)
      /\ tasks' = [tasks EXCEPT ![t] = [NoTask EXCEPT !.stage = "next", !.plan = plan]]
      /\ overlapped' = (overlapped \/ Others(t))
      /\ UNCHANGED <<lists, enabled, bpId, remote, noRoom, broken, forgotten>>
  BY DEF Start, Active, faultVars
<1>2. plan \in Seq(AllParts)
  BY DEF AllParts
<1>3. /\ tasks'[t] \in TaskRecords
      /\ tasks'[t].stage = "next" /\ tasks'[t].plan = plan /\ tasks'[t].pending = {}
      /\ \A u \in 1..MaxTasks : u # t => tasks'[u] = tasks[u]
  <2>1. tasks'[t] = [NoTask EXCEPT !.stage = "next", !.plan = plan]
    BY <1>1 DEF ListInv, ListTypes
  <2>2. \A u \in 1..MaxTasks : u # t => tasks'[u] = tasks[u]
    BY <1>1 DEF ListInv, ListTypes
  <2>. QED
    BY <1>2, <2>1, <2>2 DEF NoTask, TaskRecords, Stages
<1>4. ListTypes'
  <2>1. tasks' \in [1..MaxTasks -> TaskRecords]
    BY <1>1, <1>3 DEF ListInv, ListTypes
  <2>2. overlapped' \in BOOLEAN
    BY <1>1 DEF ListInv, ListTypes
  <2>. QED
    BY <1>1, <2>1, <2>2 DEF ListInv, ListTypes
<1>5. PlanShape'
  <2>1. ~Looping(t)' /\ \A i \in 1..Len(plan) : plan[i] \in Parts
    BY <1>3 DEF Looping
  <2>. QED
    BY <1>3, <2>1 DEF PlanShape, ListInv, Looping
<1>6. ASSUME ~overlapped'
      PROVE  SwitchInv'
  <2>1. ~overlapped /\ \A u \in 1..MaxTasks : ~Active(u)
    BY <1>1, <1>6 DEF Others
  <2>2. Quiet
    BY <2>1 DEF ListInv, SwitchInv
  <2>3. Quiet'
    BY <2>2, <1>1, KindsKept DEF Quiet
  <2>4. Active(t)' /\ \A u \in 1..MaxTasks : u # t => ~Active(u)'
    BY <2>1, <2>2, <1>3 DEF Active
  <2>5. TaskInv(t)'
    <3>1. SuspendedFirst(t)'
      <4>1. SuspendsFirst(plan, "next", enabled', lists')
        BY DEF SuspendsFirst
      <4>. QED
        BY <1>3, <4>1 DEF SuspendedFirst
    <3>2. LoopInv(t)'
      BY <1>3 DEF LoopInv, Looping
    <3>. QED
      BY <2>3, <3>1, <3>2 DEF TaskInv, Quiet
  <2>. QED
    BY <2>4, <2>5 DEF SwitchInv, OneTask
<1>. QED
  BY <1>4, <1>5, <1>6 DEF ListInv, SwitchInv

LEMMA ReloadInv ==
  ASSUME ListInv, NEW t \in 1..MaxTasks, reloadLabels(t)
  PROVE  ListInv'
<1>. DEFINE a == <<"suspend", "WPMEM">>
            b == <<"suspend", "ASSERTION">>
            c == <<"suspendGroups", "all">>
            plan == <<a, b, c>>
<1>1. Start(t, plan)
  BY DEF reloadLabels
<1>2. /\ a \in Parts /\ b \in Parts /\ c \in Parts
      /\ a[1] = "suspend" /\ a[2] = "WPMEM" /\ b[1] = "suspend" /\ b[2] = "ASSERTION"
      /\ c[1] = "suspendGroups"
  BY DEF Parts, Kinds
<1>. HIDE DEF a, b, c
<1>3. plan \in Seq(Parts) /\ Len(plan) = 3
  BY <1>2
<1>4. plan[1] = a /\ plan[2] = b /\ plan[3] = c
  OBVIOUS
<1>. HIDE DEF plan
<1>5. ASSUME NEW i \in 1..Len(plan), plan[i][1] \in {"suspendGroups", "create"}
      PROVE  i = 3
  <2>1. i = 1 \/ i = 2 \/ i = 3
    BY <1>3
  <2>. QED
    BY <2>1, <1>2, <1>4, <1>5
<1>6. \A j \in 1..2 : plan[j][1] = "suspend"
  <2>1. \A j \in 1..2 : j = 1 \/ j = 2
    OBVIOUS
  <2>. QED
    BY <2>1, <1>2, <1>4
<1>7. \A k \in {"WPMEM", "ASSERTION"} : \E j \in 1..2 : plan[j][2] = k
  <2>1. 1 \in 1..2 /\ plan[1][2] = "WPMEM" /\ 2 \in 1..2 /\ plan[2][2] = "ASSERTION"
    BY <1>2, <1>4
  <2>. QED
    BY <2>1
<1>8. plan[3][1] # "create"
  BY <1>2, <1>4
<1>9. ASSUME NEW i \in 1..Len(plan), plan[i][1] \in {"suspendGroups", "create"}
      PROVE  /\ plan[i][1] # "create"
             /\ \A j \in 1..(i - 1) : plan[j][1] = "suspend"
             /\ \A k \in {"WPMEM", "ASSERTION"} : \E j \in 1..(i - 1) : plan[j][2] = k
  <2>1. i = 3 /\ i - 1 = 2
    BY <1>5, <1>9
  <2>. QED
    BY ONLY <2>1, <1>6, <1>7, <1>8
<1>. QED
  BY <1>1, <1>3, <1>9, StartInv

LEMMA SwitchBeginsInv ==
  ASSUME ListInv, NEW t \in 1..MaxTasks, setExceptionBreakPoints(t)
  PROVE  ListInv'
<1>1. PICK k \in Kinds, p \in {"on", "off"} : Start(t, <<<<p, k>>>>)
  BY DEF setExceptionBreakPoints
<1>. DEFINE plan == <<<<p, k>>>>
<1>2. <<p, k>> \in Parts
  BY DEF Parts
<1>3. plan \in Seq(Parts) /\ Len(plan) = 1 /\ plan[1] = <<p, k>>
  BY <1>2
<1>. HIDE DEF plan
<1>4. \A i \in 1..Len(plan) : plan[i][1] \notin {"suspendGroups", "create"}
  <2>1. \A i \in 1..Len(plan) : i = 1
    BY <1>3
  <2>. QED
    BY <2>1, <1>3
<1>. QED
  BY <1>1, <1>3, <1>4, StartInv DEF plan

\* What a task is: the types of its parts.
LEMMA TaskFacts ==
  ASSUME ListInv, NEW t \in 1..MaxTasks
  PROVE  /\ tasks[t] \in TaskRecords
         /\ tasks[t].stage \in Stages /\ tasks[t].plan \in Seq(AllParts)
         /\ tasks[t].todo \subseteq Objects /\ tasks[t].prev \subseteq Kinds
         /\ tasks[t].pending \subseteq Objects
BY DEF ListInv, ListTypes, TaskRecords

\* The task of a step and the others.
LEMMA TaskUpdate ==
  ASSUME ListInv, NEW t \in 1..MaxTasks, NEW r \in TaskRecords, tasks' = [tasks EXCEPT ![t] = r]
  PROVE  /\ tasks' \in [1..MaxTasks -> TaskRecords]
         /\ tasks'[t] = r
         /\ \A u \in 1..MaxTasks : u # t => tasks'[u] = tasks[u]
BY DEF ListInv, ListTypes

LEMMA ShapeKept ==
  ASSUME ListInv, NEW t \in 1..MaxTasks,
         \A u \in 1..MaxTasks : u # t => tasks'[u] = tasks[u],
         NEW r, tasks'[t] = r,
         r.stage \in {"on", "off"} => r.plan # <<>> /\ r.plan[1] \in Loops,
         \A i \in 1..Len(r.plan) : i # 1 \/ r.stage \notin {"on", "off"} => r.plan[i] \in Parts,
         r.stage \notin {"on", "off"} => r.pending = {}
  PROVE  PlanShape'
BY DEF PlanShape, ListInv, Looping

\* The first part of a plan is replaced by a loop of its kind: nothing in front of what makes new
\* objects is lost; and a kind that is switched on has no such thing behind it.
LEMMA PlanReplaced ==
  ASSUME NEW old \in Seq(AllParts), old # <<>>, NEW x \in AllParts, x[1] = "loop", x[2] = old[1][2],
         \A i \in 1..Len(old) : old[i] \in Parts,
         NEW stage, old[1][1] = "on" \/ stage # "on",
         NEW isOn, NEW objects, SuspendsFirst(old, "next", isOn, objects)
  PROVE  LET plan == <<x>> \o Tail(old)
         IN /\ plan \in Seq(AllParts) /\ plan # <<>> /\ plan[1] = x
            /\ \A i \in 1..Len(plan) : i # 1 => plan[i] \in Parts
            /\ SuspendsFirst(plan, stage, isOn, objects)
<1>. DEFINE plan == <<x>> \o Tail(old)
<1>1. Len(old) \in Nat /\ Len(old) >= 1
  BY TailOf
<1>2. /\ plan \in Seq(AllParts) /\ Len(plan) = Len(old) /\ plan[1] = x
      /\ \A i \in 2..Len(old) : plan[i] = old[i]
  BY HeadReplaced
<1>. HIDE DEF plan
<1>3. plan # <<>>
  BY <1>1, <1>2
<1>4. \A i \in 1..Len(plan) : i = 1 \/ (i \in 2..Len(old) /\ plan[i] = old[i])
  BY <1>1, <1>2
<1>5. \A j \in 1..Len(old) : plan[j][2] = old[j][2]
  BY <1>2, <1>4
<1>6. ASSUME NEW i \in 1..Len(plan), plan[i][1] \in {"suspendGroups", "create"}
      PROVE  /\ stage # "on"
             /\ \A j \in 1..(i - 1) : plan[j][1] \in {"suspend", "off", "loop"}
             /\ \A k \in {"WPMEM", "ASSERTION"} : isOn[k] => \E j \in 1..(i - 1) : plan[j][2] = k
             /\ plan[i][1] = "create" =>
                  \A g \in Groups : isOn[g] /\ objects[g] # {} => \E j \in 1..(i - 1) : plan[j][2] = g
  <2>1. i # 1
    BY <1>2, <1>6
  <2>2. i \in 2..Len(old) /\ i \in 1..Len(old) /\ plan[i] = old[i] /\ 1 \in 1..(i - 1)
    BY <2>1, <1>1, <1>4
  <2>3. /\ \A j \in 1..(i - 1) : old[j][1] \in {"suspend", "off", "loop"}
        /\ \A k \in {"WPMEM", "ASSERTION"} : isOn[k] => \E j \in 1..(i - 1) : old[j][2] = k
        /\ plan[i][1] = "create" =>
             \A g \in Groups : isOn[g] /\ objects[g] # {} => \E j \in 1..(i - 1) : old[j][2] = g
    BY <2>2, <1>6 DEF SuspendsFirst
  <2>4. \A j \in 1..(i - 1) : j \in 1..Len(old) /\ (j = 1 \/ j \in 2..Len(old))
    BY <2>2, <1>1
  <2>5. stage # "on"
    BY <2>2, <2>3
  <2>6. \A j \in 1..(i - 1) : plan[j][1] \in {"suspend", "off", "loop"}
    BY <2>3, <2>4, <1>2
  <2>7. \A j \in 1..(i - 1) : plan[j][2] = old[j][2]
    BY <2>4, <1>5
  <2>. QED
    BY <2>3, <2>5, <2>6, <2>7
<1>7. SuspendsFirst(plan, stage, isOn, objects)
  BY <1>6 DEF SuspendsFirst
<1>. QED
  BY <1>2, <1>3, <1>4, <1>7 DEF plan

\* The first part of a plan is done: its kind is not enabled any more, or it was switched on.
LEMMA PlanDropped ==
  ASSUME NEW old \in Seq(AllParts), old # <<>>,
         \A i \in 1..Len(old) : i # 1 => old[i] \in Parts,
         NEW stage, NEW isOn, NEW on2, NEW objects, SuspendsFirst(old, stage, isOn, objects),
         stage = "on" \/ \A k \in Kinds : on2[k] => isOn[k] /\ k # old[1][2]
  PROVE  LET plan == Tail(old)
         IN /\ plan \in Seq(AllParts)
            /\ \A i \in 1..Len(plan) : plan[i] \in Parts
            /\ SuspendsFirst(plan, "next", on2, objects)
<1>. DEFINE plan == Tail(old)
<1>1. /\ plan \in Seq(AllParts) /\ Len(plan) = Len(old) - 1 /\ Len(old) \in Nat
      /\ \A i \in 1..Len(plan) : plan[i] = old[i + 1]
  BY TailOf
<1>. HIDE DEF plan
<1>2. \A i \in 1..Len(plan) : i + 1 \in 1..Len(old) /\ i + 1 # 1 /\ plan[i] = old[i + 1]
  BY <1>1
<1>3. ASSUME NEW i \in 1..Len(plan), plan[i][1] \in {"suspendGroups", "create"}
      PROVE  /\ \A j \in 1..(i - 1) : plan[j][1] \in {"suspend", "off", "loop"}
             /\ \A k \in {"WPMEM", "ASSERTION"} : on2[k] => \E j \in 1..(i - 1) : plan[j][2] = k
             /\ plan[i][1] = "create" =>
                  \A g \in Groups : on2[g] /\ objects[g] # {} => \E j \in 1..(i - 1) : plan[j][2] = g
  <2>1. old[i + 1][1] \in {"suspendGroups", "create"} /\ i + 1 \in 1..Len(old) /\ (i + 1) - 1 = i
    BY <1>2, <1>3
  <2>2. /\ stage # "on"
        /\ \A j \in 1..i : old[j][1] \in {"suspend", "off", "loop"}
        /\ \A k \in {"WPMEM", "ASSERTION"} : isOn[k] => \E j \in 1..i : old[j][2] = k
        /\ old[i + 1][1] = "create" =>
             \A g \in Groups : isOn[g] /\ objects[g] # {} => \E j \in 1..i : old[j][2] = g
    BY <2>1 DEF SuspendsFirst
  <2>3. \A j \in 1..(i - 1) : j \in 1..Len(plan) /\ j + 1 \in 1..i /\ plan[j] = old[j + 1]
    BY <1>1
  <2>4. ASSUME NEW k, k # old[1][2], \E j \in 1..i : old[j][2] = k
        PROVE  \E j \in 1..(i - 1) : plan[j][2] = k
    <3>1. PICK j \in 1..i : old[j][2] = k
      BY <2>4
    <3>2. j # 1
      BY <2>4, <3>1
    <3>3. j - 1 \in 1..(i - 1) /\ (j - 1) + 1 = j
      BY <3>2
    <3>. QED
      BY <2>3, <3>1, <3>3
  <2>5. \A k \in Kinds : on2[k] => isOn[k] /\ k # old[1][2]
    BY <2>2
  <2>6. \A j \in 1..(i - 1) : plan[j][1] \in {"suspend", "off", "loop"}
    BY <2>2, <2>3
  <2>7. plan[i] = old[i + 1]
    BY <1>2
  <2>8. "WPMEM" \in Kinds /\ "ASSERTION" \in Kinds /\ Groups \subseteq Kinds
    BY DEF Kinds
  <2>. QED
    BY <2>2, <2>4, <2>5, <2>6, <2>7, <2>8
<1>4. SuspendsFirst(plan, "next", on2, objects)
  BY <1>3 DEF SuspendsFirst
<1>5. \A i \in 1..Len(plan) : plan[i] \in Parts
  BY <1>2
<1>. QED
  BY <1>1, <1>4, <1>5 DEF plan

\* A loop begins: its part of the plan takes the place of the part that has asked for it.
LEMMA LoopBegins ==
  ASSUME ListInv, NEW t \in 1..MaxTasks, tasks[t].stage = "next", tasks[t].plan # <<>>,
         NEW p \in {"on", "off", "suspend"}, NEW k \in Kinds, tasks[t].plan[1] = <<p, k>>,
         NEW stage \in {"on", "off"}, p = "on" <=> stage = "on", NEW prev \in SUBSET Kinds,
         tasks' = [tasks EXCEPT ![t] =
                     [stage |-> stage, plan |-> <<<<"loop", k>>>> \o Tail(tasks[t].plan),
                      todo |-> lists[k], prev |-> prev, pending |-> {}]],
         UNCHANGED <<lists, enabled, bpId, remote, overlapped, noRoom, broken, forgotten>>
  PROVE  ListInv'
<1>. DEFINE old  == tasks[t].plan
            head == <<"loop", k>>
            plan == <<head>> \o Tail(old)
            r    == [stage |-> stage, plan |-> plan, todo |-> lists[k], prev |-> prev, pending |-> {}]
<1>1. old \in Seq(AllParts) /\ old # <<>> /\ head \in AllParts /\ head \in Loops /\ head[1] = "loop" /\ head[2] = k
  BY TaskFacts DEF AllParts, Loops
<1>2. lists[k] \subseteq Objects /\ tasks' = [tasks EXCEPT ![t] = r]
  BY DEF ListInv, ListTypes
<1>3. Active(t) /\ ~Looping(t)
  BY DEF Active, Looping
<1>4. \A i \in 1..Len(old) : old[i] \in Parts
  BY <1>3 DEF ListInv, PlanShape
<1>. HIDE DEF old, head
<1>5. old[1][1] = p /\ old[1][2] = k
  <2>1. old[1] = <<p, k>>
    BY DEF old
  <2>. QED
    BY ONLY <2>1
<1>6. /\ plan \in Seq(AllParts) /\ plan # <<>> /\ plan[1] = head
      /\ \A i \in 1..Len(plan) : i # 1 => plan[i] \in Parts
      /\ SuspendsFirst(old, "next", enabled, lists) => SuspendsFirst(plan, stage, enabled, lists)
  <2>1. ASSUME SuspendsFirst(old, "next", enabled, lists)
        PROVE  SuspendsFirst(plan, stage, enabled, lists)
    BY <1>1, <1>4, <1>5, <2>1, PlanReplaced
  <2>2. \A i \in 1..Len(plan) : i # 1 => plan[i] \in Parts
    BY <1>1, <1>4, HeadReplaced, TailOf
  <2>. QED
    BY <1>1, <2>1, <2>2, HeadReplaced, TailOf
<1>. HIDE DEF plan
<1>7. /\ r \in TaskRecords
      /\ r.stage = stage /\ r.plan = plan /\ r.todo = lists[k] /\ r.pending = {}
  BY <1>2, <1>6 DEF TaskRecords, Stages
<1>. HIDE DEF r
<1>8. /\ tasks' \in [1..MaxTasks -> TaskRecords] /\ tasks'[t] = r
      /\ \A u \in 1..MaxTasks : u # t => tasks'[u] = tasks[u]
  BY <1>2, <1>7, TaskUpdate
<1>9. ListTypes'
  BY <1>8 DEF ListInv, ListTypes
<1>10. PlanShape'
  BY <1>1, <1>6, <1>7, <1>8, ShapeKept
<1>11. ASSUME TaskInv(t)
       PROVE  TaskInv(t)' /\ Active(t)'
  <2>1. \A j \in Kinds : KindMatches(j)
    BY <1>3, <1>11 DEF TaskInv
  <2>2. Looping(t)' /\ LoopOf(t)' = k /\ Active(t)'
    BY <1>1, <1>6, <1>7, <1>8 DEF Looping, LoopOf, Active
  <2>3. SuspendedFirst(t)'
    <3>1. SuspendsFirst(old, "next", enabled, lists)
      BY <1>11 DEF TaskInv, SuspendedFirst, old
    <3>. QED
      BY <3>1, <1>6, <1>7, <1>8 DEF SuspendedFirst
  <2>4. LoopInv(t)'
    <3>1. KindMatches(k) /\ Want(k) \subseteq lists[k]
      BY <2>1 DEF Want
    <3>2. HalfwayOf(r, k)
      BY <3>1, <1>7 DEF HalfwayOf, Halfway, KindMatches, Left
    <3>3. State(k)' = State(k)
      BY DEF State
    <3>. QED
      BY <2>2, <3>2, <3>3, <1>8 DEF LoopInv, HalfwayOf
  <2>5. \A j \in Kinds : KindMatches(j)'
    BY <2>1, KindsKept
  <2>. QED
    BY <2>2, <2>3, <2>4, <2>5 DEF TaskInv
<1>. QED
  BY <1>3, <1>8, <1>9, <1>10, <1>11, OnlyTask

\* A kind is not enabled: its part of the plan is left out.
LEMMA SkipInv ==
  ASSUME ListInv, NEW t \in 1..MaxTasks, tasks[t].stage = "next", tasks[t].plan # <<>>,
         NEW k \in Kinds, tasks[t].plan[1][2] = k, ~enabled[k],
         tasks' = [tasks EXCEPT ![t] = [tasks[t] EXCEPT !.plan = Tail(tasks[t].plan)]],
         UNCHANGED <<lists, enabled, bpId, remote, overlapped, noRoom, broken, forgotten>>
  PROVE  ListInv'
<1>. DEFINE old  == tasks[t].plan
            plan == Tail(old)
            r    == [tasks[t] EXCEPT !.plan = plan]
<1>1. tasks[t] \in TaskRecords /\ old \in Seq(AllParts) /\ old # <<>> /\ tasks' = [tasks EXCEPT ![t] = r]
  BY TaskFacts
<1>2. Active(t) /\ ~Looping(t) /\ tasks[t].pending = {}
  BY DEF Active, Looping, ListInv, PlanShape
<1>3. /\ \A i \in 1..Len(old) : old[i] \in Parts
      /\ old[1][2] = k
  BY <1>2 DEF ListInv, PlanShape
<1>. HIDE DEF old
<1>4. /\ plan \in Seq(AllParts)
      /\ \A i \in 1..Len(plan) : plan[i] \in Parts
      /\ SuspendsFirst(old, "next", enabled, lists) => SuspendsFirst(plan, "next", enabled, lists)
  <2>1. \A x \in Kinds : enabled[x] => x # old[1][2]
    BY <1>3
  <2>2. ASSUME SuspendsFirst(old, "next", enabled, lists)
        PROVE  SuspendsFirst(plan, "next", enabled, lists)
    BY <1>1, <1>3, <2>1, <2>2, PlanDropped
  <2>. QED
    BY <1>1, <1>3, <2>2, TailOf
<1>. HIDE DEF plan
<1>5. r \in TaskRecords /\ r.stage = "next" /\ r.plan = plan /\ r.pending = tasks[t].pending
  BY <1>1, <1>4 DEF TaskRecords
<1>. HIDE DEF r
<1>6. /\ tasks' \in [1..MaxTasks -> TaskRecords] /\ tasks'[t] = r
      /\ \A u \in 1..MaxTasks : u # t => tasks'[u] = tasks[u]
  BY <1>1, <1>5, TaskUpdate
<1>7. ListTypes'
  BY <1>6 DEF ListInv, ListTypes
<1>8. PlanShape'
  BY <1>2, <1>4, <1>5, <1>6, ShapeKept
<1>9. ASSUME TaskInv(t)
      PROVE  TaskInv(t)' /\ Active(t)'
  <2>1. Active(t)' /\ ~Looping(t)'
    BY <1>5, <1>6 DEF Active, Looping
  <2>2. SuspendedFirst(t)'
    <3>1. SuspendsFirst(old, "next", enabled, lists)
      BY <1>9 DEF TaskInv, SuspendedFirst, old
    <3>. QED
      BY <3>1, <1>4, <1>5, <1>6 DEF SuspendedFirst
  <2>3. LoopInv(t)'
    BY <2>1, <1>2, <1>5, <1>6, <1>9 DEF TaskInv, LoopInv
  <2>4. \A j \in Kinds : KindMatches(j)'
    BY <1>2, <1>9, KindsKept DEF TaskInv
  <2>. QED
    BY <2>1, <2>2, <2>3, <2>4 DEF TaskInv
<1>. QED
  BY <1>2, <1>6, <1>7, <1>8, <1>9, OnlyTask

LEMMA GroupsFinite == ASSUME NEW S \in SUBSET Groups PROVE IsFiniteSet(S)
BY GroupsAssumption, FS_Subset

\* The plan that switches off every group of log points and then makes new objects.
LEMMA GroupsPlan ==
  ASSUME NEW S \in SUBSET Groups
  PROVE  LET groups == SetToSeq(S)
             plan   == [i \in DOMAIN groups |-> <<"off", groups[i]>>] \o <<<<"create", "all">>>>
         IN /\ plan \in Seq(Parts)
            /\ \A i \in 1..Len(plan) : plan[i][1] \in {"suspendGroups", "create"} => i = Len(plan)
            /\ \A j \in 1..(Len(plan) - 1) : plan[j][1] = "off"
            /\ \A g \in S : \E j \in 1..(Len(plan) - 1) : plan[j][2] = g
<1>. DEFINE groups == SetToSeq(S)
            last   == <<"create", "all">>
            Off(i) == <<"off", groups[i]>>
            offs   == [i \in DOMAIN groups |-> Off(i)]
            plan   == offs \o <<last>>
<1>1. groups \in Seq(S) /\ \A x \in S : \E i \in 1..Len(groups) : groups[i] = x
  BY GroupsFinite, SetToSeqFacts
<1>. HIDE DEF groups
<1>2. /\ Len(groups) \in Nat /\ DOMAIN groups = 1..Len(groups)
      /\ \A i \in 1..Len(groups) : groups[i] \in S
  BY <1>1
<1>3. \A i \in 1..Len(groups) : Off(i) \in Parts /\ Off(i)[1] = "off" /\ Off(i)[2] = groups[i]
  BY <1>2 DEF Parts, Kinds
<1>4. last \in Parts /\ last[1] = "create"
  BY DEF Parts
<1>. HIDE DEF last, Off
<1>5. offs \in Seq(Parts) /\ Len(offs) = Len(groups) /\ \A i \in 1..Len(groups) : offs[i] = Off(i)
  <2>1. offs \in [1..Len(groups) -> Parts]
    BY <1>2, <1>3
  <2>. QED
    BY <1>2, <2>1
<1>6. <<last>> \in Seq(Parts) /\ Len(<<last>>) = 1 /\ <<last>>[1] = last
  BY <1>4
<1>. HIDE DEF offs
<1>7. /\ plan \in Seq(Parts) /\ Len(plan) = Len(offs) + Len(<<last>>)
      /\ \A i \in 1..Len(plan) : plan[i] = IF i <= Len(offs) THEN offs[i] ELSE <<last>>[i - Len(offs)]
  BY <1>5, <1>6, ConcatProperties
<1>. HIDE DEF plan
<1>8. Len(plan) = Len(groups) + 1 /\ \A i \in 1..Len(groups) : plan[i] = Off(i)
  BY <1>2, <1>5, <1>6, <1>7
<1>9. ASSUME NEW i \in 1..Len(plan), plan[i][1] \in {"suspendGroups", "create"}
      PROVE  i = Len(plan)
  <2>1. i \in 1..Len(groups) \/ i = Len(groups) + 1
    BY <1>2, <1>8
  <2>. QED
    BY <2>1, <1>3, <1>8, <1>9
<1>10. 1..(Len(plan) - 1) = 1..Len(groups)
  BY <1>2, <1>8
<1>11. \A g \in S : \E j \in 1..Len(groups) : plan[j][2] = g
  BY <1>1, <1>3, <1>8
<1>12. \A j \in 1..(Len(plan) - 1) : plan[j][1] = "off"
  BY <1>3, <1>8, <1>10
<1>13. \A g \in S : \E j \in 1..(Len(plan) - 1) : plan[j][2] = g
  BY <1>10, <1>11
<1>14. \A i \in 1..Len(plan) : plan[i][1] \in {"suspendGroups", "create"} => i = Len(plan)
  BY <1>9
<1>. QED
  BY ONLY <1>7, <1>12, <1>13, <1>14 DEF plan, offs, groups, last, Off

\* The groups come next: those with objects are switched off one by one, and then new objects are made.
LEMMA SuspendGroupsInv ==
  ASSUME ListInv, NEW t \in 1..MaxTasks, tasks[t].stage = "next", tasks[t].plan # <<>>,
         tasks[t].plan[1][1] = "suspendGroups",
         NEW plan \in Seq(Parts),
         \A i \in 1..Len(plan) : plan[i][1] \in {"suspendGroups", "create"} => i = Len(plan),
         \A j \in 1..(Len(plan) - 1) : plan[j][1] = "off",
         \A g \in Groups : lists[g] # {} => \E j \in 1..(Len(plan) - 1) : plan[j][2] = g,
         tasks' = [tasks EXCEPT ![t].prev = @ \cup {g \in Groups : enabled[g]}, ![t].plan = plan],
         UNCHANGED <<lists, enabled, bpId, remote, overlapped, noRoom, broken, forgotten>>
  PROVE  ListInv'
<1>. DEFINE old == tasks[t].plan
            was == {g \in Groups : enabled[g]}
            r   == [tasks[t] EXCEPT !.prev = @ \cup was, !.plan = plan]
<1>1. /\ tasks[t] \in TaskRecords /\ old \in Seq(AllParts) /\ old # <<>>
      /\ Len(old) \in Nat /\ Len(old) >= 1
  BY TaskFacts, TailOf
<1>2. Active(t) /\ ~Looping(t) /\ tasks[t].pending = {}
  BY DEF Active, Looping, ListInv, PlanShape
<1>5. plan \in Seq(AllParts) /\ \A i \in 1..Len(plan) : plan[i] \in Parts
  BY DEF AllParts
<1>6. tasks' = [tasks EXCEPT ![t] = r]
  BY DEF ListInv, ListTypes
<1>7. r \in TaskRecords /\ r.stage = "next" /\ r.plan = plan /\ r.pending = tasks[t].pending
  <2>1. was \subseteq Kinds /\ tasks[t].stage = "next"
    BY DEF Kinds
  <2>. HIDE DEF was
  <2>. QED
    BY ONLY <1>1, <1>5, <2>1 DEF TaskRecords
<1>. HIDE DEF r, old
<1>8. /\ tasks' \in [1..MaxTasks -> TaskRecords] /\ tasks'[t] = r
      /\ \A u \in 1..MaxTasks : u # t => tasks'[u] = tasks[u]
  <2>1. tasks \in [1..MaxTasks -> TaskRecords] /\ t \in 1..MaxTasks
    BY DEF ListInv, ListTypes
  <2>. QED
    BY ONLY <2>1, <1>6, <1>7
<1>9. ListTypes'
  BY <1>8 DEF ListInv, ListTypes
<1>10. PlanShape'
  <2>1. ListInv
    OBVIOUS
  <2>. QED
    BY ONLY <2>1, <1>2, <1>5, <1>7, <1>8, ShapeKept DEF Looping
<1>11. ASSUME TaskInv(t)
       PROVE  TaskInv(t)' /\ Active(t)'
  <2>1. Active(t)' /\ ~Looping(t)'
    BY <1>7, <1>8 DEF Active, Looping
  <2>2. SuspendedFirst(t)'
    <3>1. SuspendsFirst(old, "next", enabled, lists)
      BY <1>11 DEF TaskInv, SuspendedFirst, old
    <3>2. ~enabled["WPMEM"] /\ ~enabled["ASSERTION"]
      <4>1. 1 \in 1..Len(old) /\ 1..(1 - 1) = {} /\ old[1][1] = "suspendGroups"
        BY <1>1 DEF old
      <4>. QED
        BY <3>1, <4>1 DEF SuspendsFirst
    <3>3. SuspendsFirst(plan, "next", enabled, lists)
      BY <3>2 DEF SuspendsFirst
    <3>. QED
      BY <3>3, <1>7, <1>8 DEF SuspendedFirst
  <2>3. LoopInv(t)'
    BY <2>1, <1>2, <1>7, <1>8, <1>11 DEF TaskInv, LoopInv
  <2>4. \A j \in Kinds : KindMatches(j)'
    BY <1>2, <1>11, KindsKept DEF TaskInv
  <2>. QED
    BY <2>1, <2>2, <2>3, <2>4 DEF TaskInv
<1>. QED
  <2>1. ListInv /\ overlapped' = overlapped
    OBVIOUS
  <2>. QED
    BY ONLY <2>1, <1>2, <1>8, <1>9, <1>10, <1>11, OnlyTask

LEMMA NextPartInv ==
  ASSUME ListInv, NEW t \in 1..MaxTasks, NextPart(t)
  PROVE  ListInv'
<1>. DEFINE first == Head(tasks[t].plan)
            k     == first[2]
            rest  == Tail(tasks[t].plan)
            Loop(stage, prev) == [stage |-> stage, plan |-> <<<<"loop", k>>>> \o rest,
                                  todo |-> lists[k], prev |-> prev, pending |-> {}]
<1>1. /\ tasks[t].stage = "next" /\ tasks[t].plan # <<>> /\ first[1] # "create"
      /\ UNCHANGED <<lists, enabled, bpId, remote, overlapped, noRoom, broken, forgotten>>
  BY DEF NextPart, faultVars
<1>2. first \in Parts /\ first = tasks[t].plan[1] /\ tasks[t].prev \subseteq Kinds
  <2>1. tasks[t].plan \in Seq(AllParts) /\ ~Looping(t) /\ tasks[t].prev \subseteq Kinds
    BY <1>1, TaskFacts DEF Looping
  <2>2. first = tasks[t].plan[1] /\ 1 \in 1..Len(tasks[t].plan)
    BY <1>1, <2>1, TailOf
  <2>. QED
    BY <2>1, <2>2 DEF ListInv, PlanShape
<1>3. CASE first[1] \in {"on", "off"}
  <2>1. k \in Kinds /\ first = <<first[1], k>>
    BY <1>2, <1>3 DEF Parts
  <2>2. tasks' = [tasks EXCEPT ![t] = Loop(IF first[1] = "on" THEN "on" ELSE "off", tasks[t].prev)]
    BY <1>3 DEF NextPart
  <2>3. PICK stage \in {"on", "off"} : stage = IF first[1] = "on" THEN "on" ELSE "off"
    OBVIOUS
  <2>4. tasks' = [tasks EXCEPT ![t] = Loop(stage, tasks[t].prev)]
    BY <2>2, <2>3
  <2>5. first[1] = "on" <=> stage = "on"
    BY <2>3
  <2>6. tasks[t].plan[1] = <<first[1], k>> /\ first[1] \in {"on", "off", "suspend"}
    BY <1>2, <1>3, <2>1
  <2>. HIDE DEF first
  <2>. QED
    BY <1>1, <1>2, <2>1, <2>4, <2>5, <2>6, LoopBegins
<1>4. CASE first[1] = "suspend" /\ enabled[k]
  <2>1. k \in Kinds /\ first = <<first[1], k>>
    BY <1>2, <1>4 DEF Parts
  <2>2. tasks' = [tasks EXCEPT ![t] = Loop("off", tasks[t].prev \cup {k})]
    BY <1>4 DEF NextPart
  <2>3. tasks[t].plan[1] = <<"suspend", k>> /\ tasks[t].prev \cup {k} \in SUBSET Kinds
    BY <1>2, <1>4, <2>1
  <2>. HIDE DEF first
  <2>. QED
    BY <1>1, <2>1, <2>2, <2>3, LoopBegins
<1>5. CASE first[1] = "suspend" /\ ~enabled[k]
  <2>1. k \in Kinds /\ tasks[t].plan[1][2] = k
    BY <1>2, <1>5 DEF Parts
  <2>2. tasks' = [tasks EXCEPT ![t] = [tasks[t] EXCEPT !.plan = rest]]
    BY <1>5 DEF NextPart
  <2>. HIDE DEF first
  <2>. QED
    BY <1>1, <1>5, <2>1, <2>2, SkipInv
<1>6. CASE first[1] = "suspendGroups"
  <2>. DEFINE S      == {g \in Groups : lists[g] # {}}
              groups == SetToSeq(S)
              plan   == [i \in DOMAIN groups |-> <<"off", groups[i]>>] \o <<<<"create", "all">>>>
  <2>1. tasks' = [tasks EXCEPT ![t].prev = @ \cup {g \in Groups : enabled[g]}, ![t].plan = plan]
    BY <1>6 DEF NextPart
  <2>2. tasks[t].plan[1][1] = "suspendGroups"
    BY <1>2, <1>6
  <2>3. /\ plan \in Seq(Parts)
        /\ \A i \in 1..Len(plan) : plan[i][1] \in {"suspendGroups", "create"} => i = Len(plan)
        /\ \A j \in 1..(Len(plan) - 1) : plan[j][1] = "off"
        /\ \A g \in S : \E j \in 1..(Len(plan) - 1) : plan[j][2] = g
    <3>1. S \in SUBSET Groups
      OBVIOUS
    <3>. HIDE DEF S
    <3>. QED
      BY <3>1, GroupsPlan
  <2>4. \A g \in Groups : lists[g] # {} => \E j \in 1..(Len(plan) - 1) : plan[j][2] = g
    BY <2>3
  <2>. HIDE DEF first, plan, groups, S
  <2>. QED
    BY <1>1, <2>1, <2>2, <2>3, <2>4, SuspendGroupsInv
<1>7. first[1] \in {"on", "off", "suspend", "suspendGroups"}
  BY <1>1, <1>2 DEF Parts
<1>. QED
  BY <1>3, <1>4, <1>5, <1>6, <1>7

\* The plan that switches on again what was enabled.
LEMMA AgainPlan ==
  ASSUME NEW prev \in SUBSET Kinds
  PROVE  LET Was(k) == IF k \in prev THEN <<k>> ELSE <<>>
             again  == Was("WPMEM") \o Was("ASSERTION") \o SetToSeq(prev \cap Groups)
             plan   == [i \in DOMAIN again |-> <<"on", again[i]>>]
         IN plan \in Seq(Parts) /\ \A i \in 1..Len(plan) : plan[i][1] = "on"
<1>. DEFINE Was(k) == IF k \in prev THEN <<k>> ELSE <<>>
            w      == Was("WPMEM")
            a      == Was("ASSERTION")
            groups == SetToSeq(prev \cap Groups)
            wa     == w \o a
            again  == wa \o groups
            On(i)  == <<"on", again[i]>>
            plan   == [i \in DOMAIN again |-> On(i)]
<1>1. \A k \in Kinds : Was(k) \in Seq(Kinds)
  OBVIOUS
<1>2. w \in Seq(Kinds) /\ a \in Seq(Kinds)
  <2>1. "WPMEM" \in Kinds /\ "ASSERTION" \in Kinds
    BY DEF Kinds
  <2>. HIDE DEF Was
  <2>. QED
    BY <1>1, <2>1
<1>3. groups \in Seq(Kinds)
  <2>1. groups \in Seq(prev \cap Groups)
    BY GroupsFinite, SetToSeqFacts
  <2>2. prev \cap Groups \subseteq Kinds
    OBVIOUS
  <2>. HIDE DEF groups
  <2>. QED
    BY <2>1, <2>2
<1>. HIDE DEF w, a, groups
<1>4. wa \in Seq(Kinds)
  BY <1>2, ConcatProperties
<1>. HIDE DEF wa
<1>5. again \in Seq(Kinds)
  BY <1>3, <1>4, ConcatProperties
<1>. HIDE DEF again
<1>6. DOMAIN again = 1..Len(again) /\ Len(again) \in Nat /\ \A i \in 1..Len(again) : again[i] \in Kinds
  BY <1>5
<1>7. \A i \in 1..Len(again) : On(i) \in Parts /\ On(i)[1] = "on"
  BY <1>6 DEF Parts
<1>. HIDE DEF On
<1>8. plan \in [1..Len(again) -> Parts] /\ \A i \in 1..Len(again) : plan[i] = On(i)
  BY <1>6, <1>7
<1>9. plan \in Seq(Parts) /\ Len(plan) = Len(again)
  BY <1>6, <1>8
<1>. HIDE DEF plan
<1>10. \A i \in 1..Len(plan) : plan[i][1] = "on"
  BY <1>7, <1>8, <1>9
<1>. QED
  BY <1>9, <1>10 DEF plan, On, again, wa, w, a, groups

\* New objects are made of the comments: nothing that is enabled has any at that moment.
LEMMA CreateInv ==
  ASSUME ListInv, NEW t \in 1..MaxTasks, create(t)
  PROVE  ListInv'
<1>. DEFINE old == tasks[t].plan
<1>1. /\ tasks[t].stage = "next" /\ old # <<>> /\ Head(old)[1] = "create"
      /\ forgotten' = forgotten \cup broken
      /\ UNCHANGED <<bpId, remote, overlapped, noRoom, broken>>
  BY DEF create
<1>2. PICK gone \in SUBSET Groups :
        /\ lists' = [k \in Kinds |-> IF k \in gone THEN {} ELSE Made(k, t)]
        /\ enabled' = [k \in Kinds |-> k \notin Groups /\ enabled[k]]
  BY DEF create
<1>3. /\ tasks[t] \in TaskRecords /\ old \in Seq(AllParts) /\ tasks[t].prev \subseteq Kinds
      /\ Len(old) \in Nat /\ Len(old) >= 1 /\ Head(old) = old[1]
  BY <1>1, TaskFacts, TailOf
<1>4. Active(t) /\ ~Looping(t) /\ tasks[t].pending = {}
  BY <1>1 DEF Active, Looping, ListInv, PlanShape
<1>5. PICK plan \in Seq(Parts) :
        /\ \A i \in 1..Len(plan) : plan[i][1] = "on"
        /\ tasks' = [tasks EXCEPT ![t].plan = plan]
  <2>. DEFINE prev   == tasks[t].prev
              Was(k) == IF k \in prev THEN <<k>> ELSE <<>>
              again  == Was("WPMEM") \o Was("ASSERTION") \o SetToSeq(prev \cap Groups)
              plan   == [i \in DOMAIN again |-> <<"on", again[i]>>]
  <2>1. tasks' = [tasks EXCEPT ![t].plan = plan]
    BY DEF create
  <2>2. prev \in SUBSET Kinds
    BY <1>3
  <2>. HIDE DEF prev
  <2>3. plan \in Seq(Parts) /\ \A i \in 1..Len(plan) : plan[i][1] = "on"
    BY <2>2, AgainPlan
  <2>. HIDE DEF plan
  <2>. QED
    BY <2>1, <2>3
<1>6. plan \in Seq(AllParts) /\ \A i \in 1..Len(plan) : plan[i] \in Parts
  BY DEF AllParts
<1>. DEFINE r == [tasks[t] EXCEPT !.plan = plan]
<1>7. tasks' = [tasks EXCEPT ![t] = r]
  BY <1>5 DEF ListInv, ListTypes
<1>8. r \in TaskRecords /\ r.stage = "next" /\ r.plan = plan /\ r.pending = tasks[t].pending
  BY <1>1, <1>3, <1>6 DEF TaskRecords
<1>. HIDE DEF r, old
<1>9. /\ tasks' \in [1..MaxTasks -> TaskRecords] /\ tasks'[t] = r
      /\ \A u \in 1..MaxTasks : u # t => tasks'[u] = tasks[u]
  BY <1>7, <1>8, TaskUpdate
<1>10. ListTypes'
  <2>1. \A k \in Kinds : lists'[k] \subseteq {k} \X Int \X Comments
    <3>1. \A k \in Kinds : Made(k, t) \subseteq {k} \X Int \X Comments
      BY DEF Made
    <3>2. \A k \in Kinds : lists'[k] = {} \/ lists'[k] = Made(k, t)
      BY <1>2
    <3>. QED
      BY <3>1, <3>2
  <2>2. lists' \in [Kinds -> SUBSET Objects]
    <3>1. \A k \in Kinds : lists'[k] \subseteq Objects
      BY <2>1 DEF Objects
    <3>2. DOMAIN lists' = Kinds /\ lists' = [k \in Kinds |-> lists'[k]]
      BY <1>2
    <3>. QED
      BY <3>1, <3>2
  <2>3. enabled' \in [Kinds -> BOOLEAN]
    BY <1>2
  <2>. QED
    BY <1>1, <1>9, <2>1, <2>2, <2>3 DEF ListInv, ListTypes
<1>11. PlanShape'
  BY <1>4, <1>6, <1>8, <1>9, ShapeKept
<1>12. ASSUME TaskInv(t)
       PROVE  TaskInv(t)' /\ Active(t)'
  <2>1. Active(t)' /\ ~Looping(t)'
    BY <1>8, <1>9 DEF Active, Looping
  <2>2. SuspendedFirst(t)'
    <3>1. SuspendsFirst(plan, "next", enabled', lists')
      BY <1>5 DEF SuspendsFirst
    <3>. QED
      BY <3>1, <1>8, <1>9 DEF SuspendedFirst
  <2>3. LoopInv(t)'
    BY <2>1, <1>4, <1>8, <1>9, <1>12 DEF TaskInv, LoopInv
  <2>4. ASSUME NEW k \in Kinds
        PROVE  Want(k) = {} /\ Want(k)' = {}
    <3>1. SuspendsFirst(old, "next", enabled, lists)
      BY <1>1, <1>12 DEF TaskInv, SuspendedFirst, old
    <3>2. 1 \in 1..Len(old) /\ 1..(1 - 1) = {} /\ old[1][1] = "create"
      BY <1>1, <1>3
    <3>3. /\ k \in {"WPMEM", "ASSERTION"} => ~enabled[k]
          /\ k \in Groups => ~(enabled[k] /\ lists[k] # {})
      BY <3>1, <3>2 DEF SuspendsFirst
    <3>4. enabled'[k] => k \notin Groups /\ enabled[k]
      BY <1>2
    <3>5. k \in {"WPMEM", "ASSERTION"} \/ k \in Groups
      BY DEF Kinds
    <3>. QED
      BY <3>3, <3>4, <3>5 DEF Want
  <2>5. ASSUME NEW k \in Kinds
        PROVE  KindMatches(k)'
    <3>1. SUFFICES ASSUME k \notin forgotten', k \notin broken
                   PROVE  KindMatches(k)'
      BY <1>1 DEF KindMatches, State
    <3>2. State(k) = "sound" /\ State(k)' = "sound"
      BY <3>1, <1>1 DEF State
    <3>3. Of(remote, k) = {} /\ Of(bpId, k) = {} /\ (k = "WPMEM" => Of(noRoom, k) = {})
      BY <2>4, <3>2, <1>4, <1>12 DEF TaskInv, KindMatches, Left
    <3>4. Of(remote, k)' = {} /\ Of(bpId, k)' = {} /\ (k = "WPMEM" => Of(noRoom, k)' = {})
      BY <3>3, <1>1
    <3>. QED
      BY <2>4, <3>2, <3>4 DEF KindMatches, Left
  <2>. QED
    BY <2>1, <2>2, <2>3, <2>5 DEF TaskInv
<1>. QED
  BY <1>1, <1>4, <1>9, <1>10, <1>11, <1>12, OnlyTask

\* One object is sent: what a loop has in hand moves on by one.
LEMMA HalfwaySent ==
  ASSUME NEW task, NEW k, NEW objects, NEW has, NEW ids, NEW lacks, NEW state,
         Halfway(task, k, objects, has, ids, lacks, state),
         task.stage \in {"on", "off"}, task.pending = {}, NEW o \in task.todo,
         NEW act \in BOOLEAN, NEW fits \in BOOLEAN, k = "WPMEM" => fits,
         act <=> (k = "WPMEM" \/ ~(task.stage = "on" <=> o \in ids)),
         NEW r, r.stage = task.stage, r.todo = task.todo \ {o}, r.pending = IF act THEN {o} ELSE {},
         NEW has2, has2 = IF ~act THEN has
                          ELSE IF task.stage = "off" THEN has \ {o}
                          ELSE IF fits THEN has \cup {o} ELSE has,
         NEW lacks2, lacks2 = IF act /\ task.stage = "on"
                              THEN IF fits THEN lacks \ {o} ELSE lacks \cup {o} ELSE lacks,
         NEW ids2, ids2 = IF k # "WPMEM" THEN ids ELSE IF task.stage = "on" THEN ids \cup {o} ELSE ids \ {o}
  PROVE  Halfway(r, k, objects, has2, ids2, lacks2, state)
<1>1. CASE task.stage = "on" /\ k = "WPMEM"
  BY <1>1 DEF Halfway, Left
<1>2. CASE task.stage = "on" /\ k # "WPMEM"
  BY <1>2 DEF Halfway, Left
<1>3. CASE task.stage = "off" /\ k = "WPMEM"
  BY <1>3 DEF Halfway, Left
<1>4. CASE task.stage = "off" /\ k # "WPMEM"
  BY <1>4 DEF Halfway, Left
<1>. QED
  BY <1>1, <1>2, <1>3, <1>4

LEMMA HalfwayAnswered ==
  ASSUME NEW task, NEW k, NEW objects, NEW has, NEW ids, NEW lacks, NEW state,
         Halfway(task, k, objects, has, ids, lacks, state),
         task.stage \in {"on", "off"},
         NEW r, r.stage = task.stage, r.todo = task.todo, r.pending = {},
         NEW ids2, ids2 = IF task.stage = "on" THEN ids \cup (task.pending \ lacks) ELSE ids \ task.pending
  PROVE  Halfway(r, k, objects, has, ids2, lacks, state)
<1>1. CASE task.stage = "on"
  BY <1>1 DEF Halfway, Left
<1>2. CASE task.stage = "off"
  BY <1>2 DEF Halfway, Left
<1>. QED
  BY <1>1, <1>2

\* A step inside a loop: the kind of the loop stays halfway, the others are as they were.
LEMMA LoopStep ==
  ASSUME ListInv, NEW t \in 1..MaxTasks, Looping(t), NEW r \in TaskRecords,
         r.stage = tasks[t].stage, r.plan = tasks[t].plan, tasks' = [tasks EXCEPT ![t] = r],
         UNCHANGED <<lists, enabled, overlapped, broken, forgotten>>,
         remote' \subseteq Objects, bpId' \subseteq Objects,
         noRoom' \subseteq Objects,
         NEW k, k = LoopOf(t),
         TaskInv(t) =>
           /\ \A j \in Kinds \ {k} : /\ Of(remote', j) = Of(remote, j) /\ Of(bpId', j) = Of(bpId, j)
                                     /\ Of(noRoom', j) = Of(noRoom, j)
           /\ Halfway(r, k, lists[k], Of(remote', k), Of(bpId', k), Of(noRoom', k), State(k))
  PROVE  ListInv'
<1>1. /\ tasks' \in [1..MaxTasks -> TaskRecords] /\ tasks'[t] = r
      /\ \A u \in 1..MaxTasks : u # t => tasks'[u] = tasks[u]
  BY TaskUpdate
<1>2. ListTypes'
  BY <1>1 DEF ListInv, ListTypes
<1>3. Active(t) /\ Active(t)' /\ Looping(t)' /\ LoopOf(t)' = k
  BY <1>1 DEF Active, Looping, LoopOf
<1>4. PlanShape'
  BY <1>1, ShapeKept DEF ListInv, PlanShape, Looping
<1>5. ASSUME TaskInv(t)
      PROVE  TaskInv(t)'
  <2>1. SuspendedFirst(t)'
    BY <1>1, <1>5 DEF TaskInv, SuspendedFirst
  <2>2. LoopInv(t)'
    <3>1. State(k)' = State(k)
      BY DEF State
    <3>. QED
      BY <1>1, <1>3, <1>5, <3>1 DEF LoopInv, HalfwayOf
  <2>3. \A j \in Kinds \ {k} : KindMatches(j)'
    BY <1>5, KindKept DEF TaskInv
  <2>. QED
    BY <1>3, <2>1, <2>2, <2>3 DEF TaskInv
<1>. QED
  BY <1>1, <1>2, <1>3, <1>4, <1>5, OnlyTask

\* What is known of an object that a loop has in hand.
LEMMA InHand ==
  ASSUME ListInv, NEW t \in 1..MaxTasks, Looping(t), TaskInv(t),
         NEW o \in tasks[t].todo \cup tasks[t].pending
  PROVE  LoopOf(t) \in Kinds /\ o \in lists[LoopOf(t)] /\ o[1] = LoopOf(t)
<1>1. LoopOf(t) \in Kinds
  BY DEF ListInv, PlanShape, Loops, LoopOf
<1>2. o \in lists[LoopOf(t)]
  BY DEF TaskInv, LoopInv, HalfwayOf, Halfway
<1>3. lists[LoopOf(t)] \subseteq {LoopOf(t)} \X Int \X Comments
  BY <1>1 DEF ListInv, ListTypes
<1>. QED
  BY <1>1, <1>2, <1>3

LEMMA SendInv ==
  ASSUME ListInv, NEW t \in 1..MaxTasks, Send(t)
  PROVE  ListInv'
<1>. DEFINE turnOn == tasks[t].stage = "on"
            k    == LoopOf(t)
            fit  == k = "WPMEM" \/ HasRoom
<1>1. /\ tasks[t].stage \in {"on", "off"} /\ Looping(t) /\ tasks[t].pending = {}
      /\ UNCHANGED <<lists, enabled, overlapped, broken, forgotten>>
  BY DEF Send, Looping
<1>2. PICK o \in tasks[t].todo :
        LET act == Needs(t, o)
        IN /\ tasks' = [tasks EXCEPT ![t].todo = @ \ {o}, ![t].pending = IF act THEN {o} ELSE {}]
           /\ remote' = CASE ~act -> remote
                          [] act /\ turnOn -> IF fit THEN remote \cup {o} ELSE remote
                          [] act /\ ~turnOn -> remote \ {o}
           /\ noRoom' = IF act /\ turnOn THEN IF fit THEN noRoom \ {o} ELSE noRoom \cup {o} ELSE noRoom
           /\ bpId' = IF k # "WPMEM" THEN bpId ELSE IF turnOn THEN bpId \cup {o} ELSE bpId \ {o}
  BY DEF Send, LoopOf
<1>3. PICK act \in BOOLEAN : act <=> (k = "WPMEM" \/ ~(turnOn <=> o \in bpId))
  <2>1. (k = "WPMEM" \/ ~(turnOn <=> o \in bpId)) \in BOOLEAN
    OBVIOUS
  <2>. QED
    BY <2>1
<1>. DEFINE r == [tasks[t] EXCEPT !.todo = @ \ {o}, !.pending = IF act THEN {o} ELSE {}]
<1>4. Needs(t, o) <=> act
  BY <1>3 DEF Needs, LoopOf
<1>5. tasks' = [tasks EXCEPT ![t].todo = @ \ {o}, ![t].pending = IF act THEN {o} ELSE {}]
  BY <1>2, <1>4
<1>6. PICK fits \in BOOLEAN : fits <=> fit
  <2>1. fit \in BOOLEAN
    BY DEF HasRoom
  <2>. QED
    BY <2>1
<1>7. /\ remote' = IF ~act THEN remote
                   ELSE IF tasks[t].stage = "off" THEN remote \ {o}
                   ELSE IF fits THEN remote \cup {o} ELSE remote
      /\ noRoom' = IF act /\ turnOn THEN IF fits THEN noRoom \ {o} ELSE noRoom \cup {o} ELSE noRoom
      /\ bpId' = IF k # "WPMEM" THEN bpId ELSE IF turnOn THEN bpId \cup {o} ELSE bpId \ {o}
  BY <1>1, <1>2, <1>4, <1>6
<1>8. /\ tasks[t] \in TaskRecords /\ o \in Objects
      /\ remote \subseteq Objects /\ bpId \subseteq Objects
      /\ noRoom \subseteq Objects
  BY <1>2, TaskFacts DEF ListInv, ListTypes
<1>9. tasks' = [tasks EXCEPT ![t] = r]
  BY <1>5 DEF ListInv, ListTypes
<1>10. /\ r \in TaskRecords /\ r.stage = tasks[t].stage /\ r.plan = tasks[t].plan
       /\ r.todo = tasks[t].todo \ {o} /\ r.pending = IF act THEN {o} ELSE {}
  BY <1>8 DEF TaskRecords
<1>. HIDE DEF r, k, fit
<1>11. remote' \subseteq Objects /\ bpId' \subseteq Objects /\ noRoom' \subseteq Objects
  BY <1>7, <1>8
<1>12. ASSUME TaskInv(t)
       PROVE  /\ \A j \in Kinds \ {k} : /\ Of(remote', j) = Of(remote, j) /\ Of(bpId', j) = Of(bpId, j)
                                        /\ Of(noRoom', j) = Of(noRoom, j)
              /\ Halfway(r, k, lists[k], Of(remote', k), Of(bpId', k), Of(noRoom', k), State(k))
  <2>1. Halfway(tasks[t], k, lists[k], Of(remote, k), Of(bpId, k), Of(noRoom, k), State(k))
    BY <1>1, <1>12 DEF TaskInv, LoopInv, HalfwayOf, k
  <2>2. o[1] = k
    BY <1>1, <1>12, InHand DEF k
  <2>3. \A j \in Kinds \ {k} : /\ Of(remote', j) = Of(remote, j) /\ Of(bpId', j) = Of(bpId, j)
                               /\ Of(noRoom', j) = Of(noRoom, j)
    BY <1>7, <2>2 DEF Of
  <2>4. /\ Of(remote', k) = IF ~act THEN Of(remote, k)
                            ELSE IF tasks[t].stage = "off" THEN Of(remote, k) \ {o}
                            ELSE IF fits THEN Of(remote, k) \cup {o} ELSE Of(remote, k)
        /\ Of(noRoom', k) = IF act /\ turnOn
                            THEN IF fits THEN Of(noRoom, k) \ {o} ELSE Of(noRoom, k) \cup {o}
                            ELSE Of(noRoom, k)
        /\ Of(bpId', k) = IF k # "WPMEM" THEN Of(bpId, k)
                          ELSE IF turnOn THEN Of(bpId, k) \cup {o} ELSE Of(bpId, k) \ {o}
        /\ o \in bpId <=> o \in Of(bpId, k)
    BY <1>7, <2>2 DEF Of
  <2>5. act <=> (k = "WPMEM" \/ ~(tasks[t].stage = "on" <=> o \in Of(bpId, k)))
    BY <1>3, <2>4
  <2>6. k = "WPMEM" => fits
    BY <1>6 DEF fit
  <2>7. Halfway(r, k, lists[k], Of(remote', k), Of(bpId', k), Of(noRoom', k), State(k))
    BY <1>1, <1>10, <2>1, <2>4, <2>5, <2>6, HalfwaySent
  <2>. QED
    BY <2>3, <2>7
<1>. QED
  BY <1>1, <1>9, <1>10, <1>11, <1>12, LoopStep DEF k

LEMMA AnsweredInv ==
  ASSUME ListInv, NEW t \in 1..MaxTasks, Answered(t)
  PROVE  ListInv'
<1>. DEFINE turnOn == tasks[t].stage = "on"
            k  == LoopOf(t)
            r  == [tasks[t] EXCEPT !.pending = {}]
<1>1. /\ UNCHANGED <<lists, enabled, remote, overlapped, noRoom, broken, forgotten>>
      /\ tasks' = [tasks EXCEPT ![t] = r]
      /\ bpId' = IF turnOn THEN bpId \cup (tasks[t].pending \ noRoom) ELSE bpId \ tasks[t].pending
  BY DEF Answered, ListInv, ListTypes, faultVars
<1>2. Looping(t)
  BY DEF Answered, ListInv, PlanShape
<1>3. /\ tasks[t] \in TaskRecords /\ tasks[t].pending \subseteq Objects
      /\ remote \subseteq Objects /\ bpId \subseteq Objects
      /\ noRoom \subseteq Objects
  BY TaskFacts DEF ListInv, ListTypes
<1>4. /\ r \in TaskRecords /\ r.stage = tasks[t].stage /\ r.plan = tasks[t].plan
      /\ r.todo = tasks[t].todo /\ r.pending = {}
  BY <1>3 DEF TaskRecords
<1>. HIDE DEF r, k
<1>5. ASSUME TaskInv(t)
      PROVE  /\ \A j \in Kinds \ {k} : /\ Of(remote', j) = Of(remote, j) /\ Of(bpId', j) = Of(bpId, j)
                                       /\ Of(noRoom', j) = Of(noRoom, j)
             /\ Halfway(r, k, lists[k], Of(remote', k), Of(bpId', k), Of(noRoom', k), State(k))
  <2>1. Halfway(tasks[t], k, lists[k], Of(remote, k), Of(bpId, k), Of(noRoom, k), State(k))
    BY <1>5, <1>2 DEF TaskInv, LoopInv, HalfwayOf, k
  <2>2. \A o \in tasks[t].pending : o[1] = k
    BY <1>2, <1>5, InHand DEF k
  <2>3. \A j \in Kinds \ {k} : /\ Of(remote', j) = Of(remote, j) /\ Of(bpId', j) = Of(bpId, j)
                               /\ Of(noRoom', j) = Of(noRoom, j)
    BY <1>1, <2>2 DEF Of
  <2>4. /\ Of(bpId', k) = IF turnOn THEN Of(bpId, k) \cup (tasks[t].pending \ Of(noRoom, k))
                          ELSE Of(bpId, k) \ tasks[t].pending
        /\ Of(remote', k) = Of(remote, k) /\ Of(noRoom', k) = Of(noRoom, k)
    BY <1>1, <2>2 DEF Of
  <2>5. tasks[t].stage \in {"on", "off"}
    BY <1>2 DEF Looping
  <2>6. Halfway(r, k, lists[k], Of(remote', k), Of(bpId', k), Of(noRoom', k), State(k))
    BY <1>4, <2>1, <2>4, <2>5, HalfwayAnswered
  <2>. QED
    BY <2>3, <2>6
<1>. QED
  BY <1>1, <1>3, <1>4, <1>5, <1>2, LoopStep DEF k

\* A command fails: its kind is broken, and what the remote has of it can still be switched off.
LEMMA FailInv ==
  ASSUME ListInv, NEW t \in 1..MaxTasks, Fail(t)
  PROVE  ListInv'
<1>. DEFINE k == LoopOf(t)
            r == [NoTask EXCEPT !.stage = "done"]
<1>1. /\ tasks[t].stage \in {"on", "off"} /\ Looping(t) /\ Active(t) /\ tasks[t].pending = {}
      /\ tasks' = [tasks EXCEPT ![t] = r] /\ broken' = broken \cup {k}
      /\ UNCHANGED <<lists, enabled, overlapped, noRoom, forgotten>>
  BY DEF Fail, Looping, Active, LoopOf
<1>2. PICK o \in tasks[t].todo :
        /\ remote' \in {remote, remote \cup {o}, remote \ {o}}
        /\ bpId' \in {bpId, bpId \cup {o}, bpId \ {o}}
        /\ k # "WPMEM" => bpId' = bpId /\ remote' \in {remote, remote \ {o}}
  <2>1. PICK o \in tasks[t].todo :
          CASE k = "WPMEM" /\ tasks[t].stage = "on" ->
                 bpId' = bpId \cup {o} /\ remote' \in {remote, remote \cup {o}}
            [] k # "WPMEM" /\ tasks[t].stage = "on" -> UNCHANGED <<bpId, remote>>
            [] ~(tasks[t].stage = "on") ->
                 /\ bpId' = IF k = "WPMEM" THEN bpId \ {o} ELSE bpId
                 /\ remote' \in {remote, remote \ {o}}
    BY DEF Fail, LoopOf
  <2>2. CASE k = "WPMEM" /\ tasks[t].stage = "on"
    BY <2>1, <2>2
  <2>3. CASE k # "WPMEM" /\ tasks[t].stage = "on"
    BY <2>1, <2>3
  <2>4. CASE tasks[t].stage # "on"
    BY <2>1, <2>4
  <2>. QED
    BY <2>2, <2>3, <2>4
<1>3. o \in Objects /\ k \in Kinds
  BY <1>1, <1>2, TaskFacts DEF ListInv, PlanShape, Loops, LoopOf
<1>4. r \in TaskRecords /\ r.stage = "done" /\ r.plan = <<>> /\ r.pending = {}
  <2>1. <<>> \in Seq(AllParts)
    OBVIOUS
  <2>. QED
    BY <2>1 DEF NoTask, TaskRecords, Stages
<1>. HIDE DEF r, k
<1>5. /\ tasks' \in [1..MaxTasks -> TaskRecords] /\ tasks'[t] = r
      /\ \A u \in 1..MaxTasks : u # t => tasks'[u] = tasks[u]
  BY <1>1, <1>4, TaskUpdate
<1>6. ListTypes'
  <2>1. remote' \in SUBSET Objects /\ bpId' \in SUBSET Objects /\ broken' \in SUBSET Kinds
    BY <1>1, <1>2, <1>3 DEF ListInv, ListTypes
  <2>. QED
    BY <1>1, <1>5, <2>1 DEF ListInv, ListTypes
<1>7. PlanShape'
  BY <1>4, <1>5, ShapeKept
<1>8. ASSUME TaskInv(t)
      PROVE  TaskInv(t)' /\ Quiet'
  <2>1. ~Looping(t)'
    BY <1>4, <1>5 DEF Looping
  <2>2. SuspendedFirst(t)'
    <3>1. SuspendsFirst(<<>>, "done", enabled', lists')
      BY DEF SuspendsFirst
    <3>. QED
      BY <3>1, <1>4, <1>5 DEF SuspendedFirst
  <2>3. LoopInv(t)'
    BY <2>1 DEF LoopInv
  <2>4. o \in lists[k] /\ o[1] = k
    BY <1>1, <1>2, <1>8, InHand DEF k
  <2>5. ASSUME NEW j \in Kinds, j # k
        PROVE  KindMatches(j)'
    <3>1. KindMatches(j)
      BY <1>8, <2>5 DEF TaskInv, k
    <3>2. Of(remote', j) = Of(remote, j) /\ Of(bpId', j) = Of(bpId, j) /\ Of(noRoom', j) = Of(noRoom, j)
      BY <1>1, <1>2, <2>4, <2>5 DEF Of
    <3>3. j \in broken' <=> j \in broken
      BY <1>1, <2>5
    <3>. QED
      BY <1>1, <3>1, <3>2, <3>3, KindKept
  <2>6. ASSUME NEW j \in Kinds, j = k
        PROVE  KindMatches(j)'
    <3>1. SUFFICES ASSUME j \notin forgotten
                   PROVE  KindMatches(j)'
      BY <1>1 DEF KindMatches, State
    <3>2. State(j)' = "broken" /\ State(j) # "forgotten"
      BY <1>1, <2>6, <3>1 DEF State
    <3>3. Left(j, lists[j], Of(remote, j), Of(bpId, j), Of(noRoom, j), {})
      BY <1>1, <1>8, <2>6, <3>2 DEF TaskInv, LoopInv, HalfwayOf, Halfway, k
    <3>4. /\ Of(remote', j) \in {Of(remote, j), Of(remote, j) \cup {o}, Of(remote, j) \ {o}}
          /\ Of(bpId', j) \in {Of(bpId, j), Of(bpId, j) \cup {o}, Of(bpId, j) \ {o}}
          /\ j # "WPMEM" => Of(bpId', j) = Of(bpId, j) /\ Of(remote', j) \subseteq Of(remote, j)
          /\ Of(noRoom', j) = Of(noRoom, j)
      BY <1>1, <1>2, <2>4, <2>6 DEF Of
    <3>5. Left(j, lists[j], Of(remote', j), Of(bpId', j), Of(noRoom', j), {})
      BY <2>4, <2>6, <3>3, <3>4 DEF Left
    <3>. QED
      BY <1>1, <3>2, <3>5 DEF KindMatches
  <2>. QED
    BY <2>1, <2>2, <2>3, <2>5, <2>6 DEF TaskInv, Quiet
<1>. QED
  BY <1>1, <1>5, <1>6, <1>7, <1>8, OnlyTask

\* A loop ends: the remote has the objects of its kind, or has none of them, and is told to have.
LEMMA LoopEndsInv ==
  ASSUME ListInv, NEW t \in 1..MaxTasks, LoopEnds(t)
  PROVE  ListInv'
<1>. DEFINE k       == LoopOf(t)
            old     == tasks[t].plan
            unknown == k \in Groups /\ lists[k] = {} /\ tasks[t].stage = "on"
            plan    == IF unknown THEN <<>> ELSE Tail(old)
            r       == [tasks[t] EXCEPT !.stage = "next", !.plan = plan]
<1>1. /\ tasks[t].stage \in {"on", "off"} /\ tasks[t].todo = {} /\ tasks[t].pending = {}
      /\ enabled' = IF unknown THEN enabled ELSE [enabled EXCEPT ![k] = tasks[t].stage = "on"]
      /\ tasks' = [tasks EXCEPT ![t] = r]
      /\ broken' = IF tasks[t].stage = "off" THEN broken \ {k} ELSE broken
      /\ UNCHANGED <<lists, bpId, remote, overlapped, noRoom, forgotten>>
  <2>1. tasks' = [tasks EXCEPT ![t].stage = "next", ![t].plan = IF unknown THEN <<>> ELSE Tail(@)]
    BY DEF LoopEnds, LoopOf
  <2>2. tasks' = [tasks EXCEPT ![t] = r]
    BY <2>1 DEF ListInv, ListTypes
  <2>. QED
    BY <2>2 DEF LoopEnds, LoopOf
<1>2. Looping(t) /\ Active(t)
  BY <1>1 DEF Looping, Active
<1>3. /\ tasks[t] \in TaskRecords /\ old \in Seq(AllParts) /\ old # <<>> /\ k \in Kinds /\ old[1][2] = k
      /\ \A i \in 1..Len(old) : i # 1 => old[i] \in Parts
  BY <1>2, TaskFacts DEF ListInv, PlanShape, Loops, LoopOf
<1>. HIDE DEF old, k
<1>4. enabled \in [Kinds -> BOOLEAN] /\ enabled' \in [Kinds -> BOOLEAN]
  BY <1>1, <1>3 DEF ListInv, ListTypes
<1>5. \/ unknown /\ enabled' = enabled /\ tasks[t].stage = "on"
      \/ /\ ~unknown /\ \A j \in Kinds \ {k} : enabled'[j] = enabled[j]
         /\ enabled'[k] <=> tasks[t].stage = "on"
  <2>1. CASE unknown
    BY <1>1, <2>1
  <2>2. CASE ~unknown
    <3>1. enabled' = [enabled EXCEPT ![k] = tasks[t].stage = "on"]
      BY <1>1, <2>2
    <3>. HIDE DEF unknown
    <3>. QED
      BY <1>3, <1>4, <2>2, <3>1
  <2>. QED
    BY <2>1, <2>2
<1>6. /\ plan \in Seq(AllParts)
      /\ \A i \in 1..Len(plan) : plan[i] \in Parts
      /\ SuspendsFirst(old, tasks[t].stage, enabled, lists) => SuspendsFirst(plan, "next", enabled', lists)
  <2>1. CASE unknown
    BY <2>1 DEF SuspendsFirst
  <2>2. CASE ~unknown
    <3>1. tasks[t].stage = "on" \/ \A j \in Kinds : enabled'[j] => enabled[j] /\ j # old[1][2]
      BY <1>1, <1>3, <1>5, <2>2
    <3>2. plan = Tail(old)
      BY <2>2
    <3>. HIDE DEF plan, unknown
    <3>3. ASSUME SuspendsFirst(old, tasks[t].stage, enabled, lists)
          PROVE  SuspendsFirst(plan, "next", enabled', lists)
      BY ONLY <1>3, <3>1, <3>2, <3>3, PlanDropped
    <3>. QED
      BY ONLY <1>3, <3>2, <3>3, TailOf
  <2>. QED
    BY <2>1, <2>2
<1>. HIDE DEF plan
<1>7. r \in TaskRecords /\ r.stage = "next" /\ r.plan = plan /\ r.pending = {}
  BY <1>1, <1>3, <1>6 DEF TaskRecords, Stages
<1>. HIDE DEF r
<1>8. /\ tasks' \in [1..MaxTasks -> TaskRecords] /\ tasks'[t] = r
      /\ \A u \in 1..MaxTasks : u # t => tasks'[u] = tasks[u]
  BY <1>1, <1>7, TaskUpdate
<1>9. ListTypes'
  BY <1>1, <1>4, <1>8 DEF ListInv, ListTypes
<1>10. PlanShape'
  BY <1>6, <1>7, <1>8, ShapeKept
<1>11. ASSUME TaskInv(t)
       PROVE  TaskInv(t)' /\ Active(t)'
  <2>1. Active(t)' /\ ~Looping(t)'
    BY <1>7, <1>8 DEF Active, Looping
  <2>2. SuspendedFirst(t)'
    <3>1. SuspendsFirst(old, tasks[t].stage, enabled, lists)
      BY <1>11 DEF TaskInv, SuspendedFirst, old
    <3>. QED
      BY <3>1, <1>1, <1>6, <1>7, <1>8 DEF SuspendedFirst
  <2>3. LoopInv(t)'
    BY <2>1 DEF LoopInv
  <2>4. ASSUME NEW j \in Kinds, j # k
        PROVE  KindMatches(j)'
    <3>1. KindMatches(j)
      BY <1>11, <2>4 DEF TaskInv, k
    <3>2. enabled'[j] = enabled[j]
      BY <1>5, <2>4
    <3>. QED
      BY <1>1, <2>4, <3>1, <3>2, KindKept
  <2>5. ASSUME NEW j \in Kinds, j = k
        PROVE  KindMatches(j)'
    <3>1. HalfwayOf(tasks[t], k)
      BY <1>2, <1>11 DEF TaskInv, LoopInv, k
    <3>2. CASE tasks[t].stage = "off"
      <4>1. SUFFICES ASSUME State(j) # "forgotten"
                     PROVE  KindMatches(j)'
        BY <1>1, <2>5 DEF KindMatches, State
      <4>2. /\ Of(remote, j) = {} /\ Of(bpId, j) = {}
            /\ j = "WPMEM" => Of(noRoom, j) = {}
        BY <1>1, <2>5, <3>1, <3>2, <4>1 DEF HalfwayOf, Halfway, Left
      <4>3. ~enabled'[j]
        BY <1>5, <2>5, <3>2
      <4>. QED
        BY <1>1, <4>2, <4>3 DEF KindMatches, Left, Want
    <3>3. CASE tasks[t].stage = "on"
      <4>1. State(j)' = State(j)
        BY <1>1, <3>3 DEF State
      <4>2. State(k) # "forgotten" => Left(k, lists[k], Of(remote, k), Of(bpId, k), Of(noRoom, k), {})
        BY <1>1, <3>1 DEF HalfwayOf, Halfway
      <4>3. State(k) = "sound" => Of(remote, k) = lists[k] \ Of(noRoom, k) /\ Of(bpId, k) = Of(remote, k)
        BY <1>1, <3>1, <3>3, <4>2 DEF HalfwayOf, Halfway, Left
      <4>4. enabled'[k] \/ lists[k] = {}
        BY <1>5, <3>3
      <4>. QED
        BY <1>1, <2>5, <4>1, <4>2, <4>3, <4>4 DEF KindMatches, Want
    <3>. QED
      BY <1>1, <3>2, <3>3
  <2>. QED
    BY <2>1, <2>2, <2>3, <2>4, <2>5 DEF TaskInv
<1>. QED
  BY <1>1, <1>2, <1>8, <1>9, <1>10, <1>11, OnlyTask

LEMMA TaskEndsInv ==
  ASSUME ListInv, NEW t \in 1..MaxTasks, TaskEnds(t)
  PROVE  ListInv'
<1>. DEFINE r == [tasks[t] EXCEPT !.stage = "done"]
<1>1. /\ tasks[t].stage = "next" /\ tasks[t].plan = <<>> /\ tasks' = [tasks EXCEPT ![t] = r]
      /\ UNCHANGED <<lists, enabled, bpId, remote, overlapped, noRoom, broken, forgotten>>
  BY DEF TaskEnds, ListInv, ListTypes, faultVars
<1>2. Active(t) /\ ~Looping(t) /\ tasks[t].pending = {}
  BY <1>1 DEF Active, Looping, ListInv, PlanShape
<1>3. r \in TaskRecords /\ r.stage = "done" /\ r.plan = <<>> /\ r.pending = {}
  <2>1. tasks[t] \in TaskRecords
    BY TaskFacts
  <2>. QED
    BY <1>1, <1>2, <2>1 DEF TaskRecords, Stages
<1>. HIDE DEF r
<1>4. /\ tasks' \in [1..MaxTasks -> TaskRecords] /\ tasks'[t] = r
      /\ \A u \in 1..MaxTasks : u # t => tasks'[u] = tasks[u]
  BY <1>1, <1>3, TaskUpdate
<1>5. ListTypes'
  BY <1>1, <1>4 DEF ListInv, ListTypes
<1>6. PlanShape'
  BY <1>3, <1>4, ShapeKept
<1>7. ASSUME TaskInv(t)
      PROVE  TaskInv(t)' /\ Quiet'
  <2>1. ~Looping(t)'
    BY <1>3, <1>4 DEF Looping
  <2>2. SuspendedFirst(t)'
    <3>1. SuspendsFirst(<<>>, "done", enabled', lists')
      BY DEF SuspendsFirst
    <3>. QED
      BY <3>1, <1>3, <1>4 DEF SuspendedFirst
  <2>3. LoopInv(t)'
    BY <2>1 DEF LoopInv
  <2>4. \A j \in Kinds : KindMatches(j)'
    BY <1>1, <1>2, <1>7, KindsKept DEF TaskInv
  <2>. QED
    BY <2>1, <2>2, <2>3, <2>4 DEF TaskInv, Quiet
<1>. QED
  BY <1>1, <1>2, <1>4, <1>5, <1>6, <1>7, OnlyTask

LEMMA ListNextInv == ListInv /\ [Next]_vars => ListInv'
<1>1. ASSUME ListInv, UNCHANGED listVars
      PROVE  ListInv'
  BY <1>1
  DEF listVars, ListInv, ListTypes, PlanShape, SwitchInv, OneTask, TaskInv, SuspendedFirst, LoopInv,
      HalfwayOf, State, KindMatches, Quiet, Want, Active, Looping, LoopOf, faultVars
<1>2. ASSUME NEW e \in 1..MaxEdits, setBreakpoints(e) \/ Edit(e)
      PROVE  UNCHANGED listVars
  BY <1>2 DEF setBreakpoints, Edit, removeBreakpoint, setBreakpoint, BreakpointSet, Answer
<1>3. ASSUME NEW t \in 1..MaxTasks, Task(t) \/ Fail(t), ListInv
      PROVE  ListInv'
  BY <1>3, NextPartInv, CreateInv, SendInv, AnsweredInv, FailInv, LoopEndsInv, TaskEndsInv DEF Task
<1>4. (UNCHANGED vars) => UNCHANGED listVars
  BY DEF vars
<1>. QED
  BY <1>1, <1>2, <1>3, <1>4, ReloadInv, SwitchBeginsInv DEF Next

LEMMA AlwaysListInv == MCSpec => []ListInv
<1>1. MCInit => ListInv
  BY ListInitInv DEF MCInit
<1>. QED
  BY <1>1, ListNextInv, PartIsNext, PTL DEF MCSpec

LEMMA ListInvMatches == ListInv => SwitchesMatch
<1>. SUFFICES ASSUME ListInv, ~overlapped, \A t \in 1..MaxTasks : ~Active(t),
                     NEW k \in Kinds \ (broken \cup forgotten)
              PROVE  {o \in remote : o[1] = k} = IF enabled[k] THEN lists[k] \ noRoom ELSE {}
  BY DEF SwitchesMatch
<1>1. Of(remote, k) = Want(k) \ Of(noRoom, k)
  BY DEF ListInv, SwitchInv, Quiet, KindMatches, State
<1>2. \A o \in lists[k] : o[1] = k
  BY DEF ListInv, ListTypes
<1>3. Want(k) \ Of(noRoom, k) = IF enabled[k] THEN lists[k] \ noRoom ELSE {}
  BY <1>2 DEF Want, Of
<1>. QED
  BY <1>1, <1>3 DEF Of

(* Whatever setBreakpoints calls run at the same time and whichever of     *)
(* their commands the remote does not answer, a breakpoint of the list     *)
(* that has an address is set at the remote.  And when nothing is under    *)
(* way, and the reloads of the list files and the switches came one after  *)
(* the other, the remote has the watchpoints, assertions and log points of *)
(* the comments that are enabled, as the files read last have them, but    *)
(* for those it had no room for.  A switch that an error broke off leaves  *)
(* its kind out, until the kind has been switched off as a whole.          *)
THEOREM ListsMatch == MCSpec => []RemoteHasTheLists
<1>1. EditInv /\ ListInv => RemoteHasTheLists
  BY ListInvMatches DEF EditInv, RemoteHasTheLists
<1>. QED
  BY <1>1, AlwaysEditInv, AlwaysListInv, PTL
-------------------------------------------------------------------------------
(* ZEsarUX.  The requests await their answers, and the commands of several *)
(* are mixed; but the operations of one come in groups, for a breakpoint   *)
(* that is set and for one that is removed, and a number has one owner at  *)
(* any time: the store, a breakpoint of the list, an assertion, or the     *)
(* request that has taken it.                                              *)

Numbers == 1..MaxId
EditRequests == {"edit", "edit2"}
SwitchRequests == {"switch", "switch2"}

Conditions ==
  [kind : {"pc", "sp", "ret"}, place : Zesarux!Places \cup {Zesarux!Nowhere} \cup (Assertions \X {0}), level : Int]
OpNames ==
  {"set-breakpoint", "enable-breakpoint", "disable-breakpoint", "clear", "run", "cpu-step", "get", "resolve",
   "take", "listed", "remove", "unlisted", "free", "enable", "disable", "numbered", "unnumbered", "renumber"}
Ops == [op : OpNames, id : 0..(MaxId + 1), what : Conditions]
Request == [ops : Seq(Ops), waits : BOOLEAN, id : {0}]
Results ==
  [kind : {"none", "continue", "over", "one", "out"}, from : Nat, reason : SUBSET (1..(MaxId + 1)), paused : BOOLEAN]
Entries == [place : Zesarux!Places, id : Numbers]

Todo(t) == requests[t].ops

ZesaruxTypes ==
  /\ freeBreakpointIds \in Seq(Numbers)
  /\ zesaruxList \in SUBSET Entries /\ IsFiniteSet(zesaruxList)
  /\ zesaruxId \in [Assertions -> 0..MaxId]
  /\ requests \in [Zesarux!Requests -> Request]
  /\ queue \in Seq(Zesarux!Requests)
  /\ condition \in [1..(MaxId + 1) -> Conditions] /\ on \in SUBSET (1..(MaxId + 1))
  /\ running \in BOOLEAN /\ returned \in BOOLEAN /\ level \in Nat
  /\ fired \in SUBSET (1..(MaxId + 1)) /\ result \in Results
  /\ restored \in BOOLEAN /\ requestsOverlapped \in BOOLEAN

\* A request is in the queue once, for the command at its head.
InTurn ==
  /\ \A i \in 1..Len(queue) : requests[queue[i]].waits
  /\ \A i, j \in 1..Len(queue) : queue[i] = queue[j] => i = j
  /\ \A t \in Zesarux!Requests : requests[t].waits => Todo(t) # <<>> /\ Zesarux!Command(Todo(t)[1])
  /\ running => /\ requests["run"].waits /\ Todo("run")[1].op = "run"
                /\ \A i \in 1..Len(queue) : queue[i] # "run"

\* The operations of a request: those of one breakpoint first, then what is planned.
Shape(ops, then, undone, plans) ==
  \/ \A i \in 1..Len(ops) : ops[i].op \in plans
  \/ /\ Len(ops) >= 3 /\ (\A i \in 4..Len(ops) : ops[i].op \in plans)
     /\ ops[1].op = "set-breakpoint" /\ ops[2].op = "enable-breakpoint" /\ ops[3].op = then
     /\ ops[2].id = ops[1].id /\ ops[3].id = ops[1].id /\ ops[3].what = ops[1].what
  \/ /\ Len(ops) >= 2 /\ (\A i \in 3..Len(ops) : ops[i].op \in plans)
     /\ ops[1].op = "enable-breakpoint" /\ ops[2].op = then /\ ops[2].id = ops[1].id
  \/ Len(ops) >= 1 /\ (\A i \in 2..Len(ops) : ops[i].op \in plans) /\ ops[1].op = then
  \/ /\ Len(ops) >= 3 /\ (\A i \in 4..Len(ops) : ops[i].op \in plans)
     /\ ops[1].op = "disable-breakpoint" /\ ops[2].op = "free" /\ ops[3].op = undone
     /\ ops[2].id = ops[1].id /\ ops[3].id = ops[1].id
  \/ /\ Len(ops) >= 2 /\ (\A i \in 3..Len(ops) : ops[i].op \in plans)
     /\ ops[1].op = "free" /\ ops[2].op = undone /\ ops[2].id = ops[1].id
  \/ Len(ops) >= 1 /\ (\A i \in 2..Len(ops) : ops[i].op \in plans) /\ ops[1].op = undone

Placed == {"remove", "take", "listed", "unlisted"}
Removing == {"remove", "unlisted"}
Assigned == {"enable", "disable", "numbered", "unnumbered"}
Entry(op) == [place |-> op.what.place, id |-> op.id]

EditOps(ops, list) ==
  /\ Shape(ops, "listed", "unlisted", {"remove", "take"})
  /\ \A i \in 1..Len(ops) :
       /\ ops[i].op \in Placed => ops[i].what.place \in Zesarux!Places /\ ops[i].what = Zesarux!AtPlace(ops[i].what.place)
       /\ ops[i].op # "take" => ops[i].id \in Numbers
       /\ ops[i].op \in Removing => Entry(ops[i]) \in list
  /\ \A i, j \in 1..Len(ops) :
       /\ ops[i].op \in Placed /\ ops[j].op \in Placed => ops[i].what.place[1] = ops[j].what.place[1]
       /\ ops[i].op \in Removing /\ ops[j].op \in Removing /\ Entry(ops[i]) = Entry(ops[j]) => i = j

SwitchOps(ops) ==
  /\ Shape(ops, "numbered", "unnumbered", {"enable", "disable"})
  /\ \A i \in 1..Len(ops) :
       /\ ops[i].op \in Assigned => ops[i].what.place[1] \in Assertions
       /\ ops[i].op \notin {"enable", "disable"} => ops[i].id \in Numbers

RunNames == {"get", "run", "cpu-step", "resolve", "set-breakpoint", "enable-breakpoint", "disable-breakpoint"}

\* The files that an edit is still about; no two edits are of one file.
FilesOf(ops) == {ops[i].what.place[1] : i \in {k \in 1..Len(ops) : ops[k].op \in Placed}}

OpsOk(t, ops, list, isRestored) ==
  /\ t \in EditRequests => EditOps(ops, list)
  /\ t \in SwitchRequests => SwitchOps(ops)
  /\ t = "restore" => /\ \A i \in 1..Len(ops) : ops[i].op \in {"clear", "renumber", "get"}
                      /\ ops # <<>> => isRestored
  /\ t = "run" => \A i \in 1..Len(ops) :
       /\ ops[i].op \in RunNames
       /\ ops[i].op \in {"set-breakpoint", "enable-breakpoint", "disable-breakpoint"} => ops[i].id = MaxId + 1

OpsInv ==
  /\ \A t \in Zesarux!Requests : OpsOk(t, Todo(t), zesaruxList, restored)
  /\ \A t, u \in EditRequests : t # u => FilesOf(Todo(t)) \cap FilesOf(Todo(u)) = {}

RequestsInv == ZesaruxTypes /\ InTurn /\ OpsInv

LEMMA NoElements ==
  ASSUME NEW S, NEW s \in Seq(S)
  PROVE  Len(s) = 0 <=> s = <<>>
OBVIOUS

\* A group of three is put in front of the rest.
LEMMA GroupFirst ==
  ASSUME NEW S, NEW s \in Seq(S), s # <<>>, NEW a \in S, NEW b \in S, NEW c \in S, NEW q, q = <<a, b, c>> \o Tail(s)
  PROVE  /\ q \in Seq(S) /\ q # <<>> /\ Len(q) = Len(s) + 2 /\ q[1] = a /\ q[2] = b /\ q[3] = c
         /\ \A i \in 4..Len(q) : i - 2 \in 2..Len(s) /\ q[i] = s[i - 2]
<1>1. /\ Tail(s) \in Seq(S) /\ Len(Tail(s)) = Len(s) - 1 /\ Len(s) \in Nat /\ Len(s) >= 1
      /\ \A i \in 1..Len(Tail(s)) : Tail(s)[i] = s[i + 1]
  BY TailOf
<1>2. PICK g : g = <<a, b, c>>
  OBVIOUS
<1>3. g \in Seq(S) /\ Len(g) = 3 /\ g[1] = a /\ g[2] = b /\ g[3] = c
  BY <1>2
<1>4. /\ q \in Seq(S) /\ Len(q) = 3 + Len(Tail(s))
      /\ \A i \in 1..(3 + Len(Tail(s))) : q[i] = IF i <= 3 THEN g[i] ELSE Tail(s)[i - 3]
  BY <1>1, <1>2, <1>3, ConcatProperties
<1>5. Len(q) = Len(s) + 2 /\ Len(q) >= 3
  BY <1>1, <1>4
<1>6. q[1] = a /\ q[2] = b /\ q[3] = c
  <2>1. 1 \in 1..(3 + Len(Tail(s))) /\ 2 \in 1..(3 + Len(Tail(s))) /\ 3 \in 1..(3 + Len(Tail(s)))
    BY <1>1
  <2>. QED
    BY <1>3, <1>4, <2>1
<1>7. ASSUME NEW i \in 4..Len(q) PROVE i - 2 \in 2..Len(s) /\ q[i] = s[i - 2]
  <2>1. i \in 1..(3 + Len(Tail(s))) /\ ~(i <= 3) /\ i - 3 \in 1..Len(Tail(s)) /\ (i - 3) + 1 = i - 2 /\ i - 2 \in 2..Len(s)
    BY <1>1, <1>4
  <2>. QED
    BY <1>1, <1>4, <2>1
<1>8. q # <<>>
  BY <1>4, <1>5, NoElements
<1>. QED
  BY <1>4, <1>5, <1>6, <1>7, <1>8

\* What comes next, when the operation at the head is done.
LEMMA ShapeTail ==
  ASSUME NEW ops \in Seq(Ops), ops # <<>>, NEW then, NEW undone, NEW plans, Shape(ops, then, undone, plans)
  PROVE  Shape(Tail(ops), then, undone, plans)
<1>1. /\ Tail(ops) \in Seq(Ops) /\ Len(Tail(ops)) = Len(ops) - 1 /\ Len(ops) \in Nat /\ Len(ops) >= 1
      /\ \A i \in 1..Len(Tail(ops)) : Tail(ops)[i] = ops[i + 1]
  BY TailOf
<1>2. PICK t : t = Tail(ops)
  OBVIOUS
<1>3. PICK n \in Nat : n = Len(t) /\ Len(ops) = n + 1
  <2>1. Len(t) = Len(ops) - 1 /\ Len(ops) \in Nat /\ Len(ops) >= 1
    BY <1>1, <1>2
  <2>2. Len(ops) - 1 \in Nat /\ Len(ops) = (Len(ops) - 1) + 1
    BY <2>1
  <2>. QED
    BY <2>1, <2>2
<1>4. \A i \in 1..n : t[i] = ops[i + 1] /\ i + 1 \in 1..(n + 1)
  BY <1>1, <1>2, <1>3
<1>5. ASSUME NEW k \in 1..4, \A i \in (k + 1)..Len(ops) : ops[i].op \in plans
      PROVE  \A i \in k..Len(t) : t[i].op \in plans
  <2>1. ASSUME NEW i \in k..Len(t) PROVE t[i].op \in plans
    <3>1. i \in 1..n /\ i + 1 \in (k + 1)..Len(ops)
      BY <1>3
    <3>. QED
      BY <1>4, <1>5, <3>1
  <2>. QED
    BY <2>1
<1>6. (n >= 1 => t[1] = ops[2]) /\ (n >= 2 => t[2] = ops[3])
  <2>1. (n >= 1 => 1 \in 1..n) /\ (n >= 2 => 2 \in 1..n) /\ 1 + 1 = 2 /\ 2 + 1 = 3
    OBVIOUS
  <2>. QED
    BY <1>4, <2>1
<1>7. \A i \in 2..Len(ops) : i \in 1..Len(ops)
  BY <1>1
<1>8. CASE \A i \in 1..Len(ops) : ops[i].op \in plans
  <2>1. \A i \in (1 + 1)..Len(ops) : ops[i].op \in plans
    BY <1>7, <1>8
  <2>2. \A i \in 1..Len(t) : t[i].op \in plans
    BY <1>5, <2>1
  <2>. QED
    BY <1>2, <2>2 DEF Shape
<1>9. CASE /\ Len(ops) >= 3 /\ (\A i \in 4..Len(ops) : ops[i].op \in plans)
           /\ ops[1].op = "set-breakpoint" /\ ops[2].op = "enable-breakpoint" /\ ops[3].op = then
           /\ ops[2].id = ops[1].id /\ ops[3].id = ops[1].id /\ ops[3].what = ops[1].what
  <2>1. \A i \in 3..Len(t) : t[i].op \in plans
    <3>1. \A i \in (3 + 1)..Len(ops) : ops[i].op \in plans
      BY <1>9
    <3>. QED
      BY <1>5, <3>1
  <2>2. n >= 2
    BY <1>3, <1>9
  <2>. QED
    BY <1>2, <1>3, <1>6, <1>9, <2>1, <2>2 DEF Shape
<1>10. CASE /\ Len(ops) >= 2 /\ (\A i \in 3..Len(ops) : ops[i].op \in plans)
            /\ ops[1].op = "enable-breakpoint" /\ ops[2].op = then /\ ops[2].id = ops[1].id
  <2>1. \A i \in 2..Len(t) : t[i].op \in plans
    <3>1. \A i \in (2 + 1)..Len(ops) : ops[i].op \in plans
      BY <1>10
    <3>. QED
      BY <1>5, <3>1
  <2>2. n >= 1
    BY <1>3, <1>10
  <2>. QED
    BY <1>2, <1>3, <1>6, <1>10, <2>1, <2>2 DEF Shape
<1>11. CASE /\ Len(ops) >= 1 /\ (\A i \in 2..Len(ops) : ops[i].op \in plans) /\ (ops[1].op = then \/ ops[1].op = undone)
  <2>1. \A i \in 1..Len(t) : t[i].op \in plans
    <3>1. \A i \in (1 + 1)..Len(ops) : ops[i].op \in plans
      BY <1>11
    <3>. QED
      BY <1>5, <3>1
  <2>. QED
    BY <1>2, <2>1 DEF Shape
<1>12. CASE /\ Len(ops) >= 3 /\ (\A i \in 4..Len(ops) : ops[i].op \in plans)
            /\ ops[1].op = "disable-breakpoint" /\ ops[2].op = "free" /\ ops[3].op = undone
            /\ ops[2].id = ops[1].id /\ ops[3].id = ops[1].id
  <2>1. \A i \in 3..Len(t) : t[i].op \in plans
    <3>1. \A i \in (3 + 1)..Len(ops) : ops[i].op \in plans
      BY <1>12
    <3>. QED
      BY <1>5, <3>1
  <2>2. n >= 2
    BY <1>3, <1>12
  <2>. QED
    BY <1>2, <1>3, <1>6, <1>12, <2>1, <2>2 DEF Shape
<1>13. CASE /\ Len(ops) >= 2 /\ (\A i \in 3..Len(ops) : ops[i].op \in plans)
            /\ ops[1].op = "free" /\ ops[2].op = undone /\ ops[2].id = ops[1].id
  <2>1. \A i \in 2..Len(t) : t[i].op \in plans
    <3>1. \A i \in (2 + 1)..Len(ops) : ops[i].op \in plans
      BY <1>13
    <3>. QED
      BY <1>5, <3>1
  <2>2. n >= 1
    BY <1>3, <1>13
  <2>. QED
    BY <1>2, <1>3, <1>6, <1>13, <2>1, <2>2 DEF Shape
<1>. QED
  BY <1>8, <1>9, <1>10, <1>11, <1>12, <1>13 DEF Shape

Kind(then, undone, plans) ==
  \/ then = "listed" /\ undone = "unlisted" /\ plans = {"remove", "take"}
  \/ then = "numbered" /\ undone = "unnumbered" /\ plans = {"enable", "disable"}

LEMMA HeadTells ==
  ASSUME NEW ops \in Seq(Ops), ops # <<>>, NEW then, NEW undone, NEW plans, Kind(then, undone, plans),
         Shape(ops, then, undone, plans), NEW t, t = Tail(ops)
  PROVE  /\ ops[1].op \in plans \cup {"set-breakpoint", "enable-breakpoint", then, "disable-breakpoint", "free", undone}
         /\ ops[1].op \in plans => (\A i \in 1..Len(ops) : ops[i].op \in plans) /\ (t # <<>> => t[1].op \in plans)
         /\ ops[1].op = "set-breakpoint" =>
              /\ t # <<>> /\ t[1].op = "enable-breakpoint" /\ t[1].id = ops[1].id
              /\ Len(t) >= 2 /\ t[2].op = then /\ t[2].id = ops[1].id /\ t[2].what = ops[1].what
         /\ ops[1].op = "enable-breakpoint" => t # <<>> /\ t[1].op = then /\ t[1].id = ops[1].id /\ t[1] = ops[2]
         /\ ops[1].op \in {then, undone} /\ t # <<>> => t[1].op \in plans
         /\ ops[1].op = "disable-breakpoint" =>
              /\ t # <<>> /\ t[1].op = "free" /\ t[1].id = ops[1].id
              /\ Len(t) >= 2 /\ t[2].op = undone /\ t[2].id = ops[1].id
         /\ ops[1].op = "free" => t # <<>> /\ t[1].op = undone /\ t[1].id = ops[1].id /\ t[1] = ops[2]
<1>1. /\ t \in Seq(Ops) /\ Len(t) = Len(ops) - 1 /\ Len(ops) \in Nat /\ Len(ops) >= 1
      /\ \A i \in 1..Len(t) : t[i] = ops[i + 1]
  BY TailOf
<1>2. (Len(ops) >= 2 => t[1] = ops[2]) /\ (Len(ops) >= 3 => t[2] = ops[3])
  <2>1. (Len(ops) >= 2 => 1 \in 1..Len(t)) /\ (Len(ops) >= 3 => 2 \in 1..Len(t)) /\ 1 + 1 = 2 /\ 2 + 1 = 3
    BY <1>1
  <2>. QED
    BY <1>1, <2>1
<1>3. (t # <<>> <=> Len(ops) >= 2) /\ (Len(t) >= 2 <=> Len(ops) >= 3)
  <2>1. t = <<>> <=> Len(t) = 0
    BY <1>1, NoElements
  <2>. QED
    BY <1>1, <2>1
<1>4. (Len(ops) >= 2 => 2 \in 1..Len(ops) /\ 2 \in 2..Len(ops)) /\ 1 \in 1..Len(ops)
  BY <1>1
<1>. QED
  BY <1>2, <1>3, <1>4 DEF Shape, Kind

LEMMA GroupShape ==
  ASSUME NEW ops \in Seq(Ops), ops # <<>>, NEW then, NEW undone, NEW plans, Kind(then, undone, plans),
         Shape(ops, then, undone, plans), ops[1].op \in plans,
         NEW a \in Ops, NEW b \in Ops, NEW c \in Ops, b.id = a.id, c.id = a.id,
         \/ a.op = "set-breakpoint" /\ b.op = "enable-breakpoint" /\ c.op = then /\ c.what = a.what
         \/ a.op = "disable-breakpoint" /\ b.op = "free" /\ c.op = undone,
         NEW q, q = <<a, b, c>> \o Tail(ops)
  PROVE  Shape(q, then, undone, plans)
<1>1. /\ q \in Seq(Ops) /\ Len(q) = Len(ops) + 2 /\ q[1] = a /\ q[2] = b /\ q[3] = c
      /\ \A i \in 4..Len(q) : i - 2 \in 2..Len(ops) /\ q[i] = ops[i - 2]
  BY GroupFirst
<1>2. \A i \in 1..Len(ops) : ops[i].op \in plans
  BY HeadTells
<1>3. Len(ops) \in Nat /\ Len(ops) >= 1 /\ Len(q) >= 3
  BY <1>1, TailOf
<1>4. \A i \in 4..Len(q) : q[i].op \in plans
  <2>1. ASSUME NEW i \in 4..Len(q) PROVE q[i].op \in plans
    <3>1. i - 2 \in 1..Len(ops) /\ q[i] = ops[i - 2]
      BY <1>1
    <3>. QED
      BY <1>2, <3>1
  <2>. QED
    BY <2>1
<1>. QED
  BY <1>1, <1>3, <1>4 DEF Shape

\* The rest of an edit.
LEMMA EditTail ==
  ASSUME NEW ops \in Seq(Ops), ops # <<>>, NEW list, EditOps(ops, list), NEW other,
         \A i \in 2..Len(ops) : ops[i].op \in Removing => Entry(ops[i]) \in other
  PROVE  EditOps(Tail(ops), other) /\ FilesOf(Tail(ops)) \subseteq FilesOf(ops)
<1>1. PICK t : t = Tail(ops)
  OBVIOUS
<1>2. Shape(t, "listed", "unlisted", {"remove", "take"})
  BY <1>1, ShapeTail DEF EditOps
<1>3. ASSUME NEW i \in 1..Len(t) PROVE i + 1 \in 1..Len(ops) /\ i + 1 \in 2..Len(ops) /\ t[i] = ops[i + 1] /\ i \in Nat
  BY <1>1, TailOf
<1>4. ASSUME NEW i \in 1..Len(t)
      PROVE  /\ t[i].op \in Placed => t[i].what.place \in Zesarux!Places /\ t[i].what = Zesarux!AtPlace(t[i].what.place)
             /\ t[i].op # "take" => t[i].id \in Numbers
             /\ t[i].op \in Removing => Entry(t[i]) \in other
  BY <1>3 DEF EditOps
<1>5. ASSUME NEW i \in 1..Len(t), NEW j \in 1..Len(t)
      PROVE  /\ t[i].op \in Placed /\ t[j].op \in Placed => t[i].what.place[1] = t[j].what.place[1]
             /\ t[i].op \in Removing /\ t[j].op \in Removing /\ Entry(t[i]) = Entry(t[j]) => i = j
  <2>1. /\ i + 1 \in 1..Len(ops) /\ t[i] = ops[i + 1] /\ i \in Nat
        /\ j + 1 \in 1..Len(ops) /\ t[j] = ops[j + 1] /\ j \in Nat
    BY <1>3
  <2>2. /\ ops[i + 1].op \in Placed /\ ops[j + 1].op \in Placed => ops[i + 1].what.place[1] = ops[j + 1].what.place[1]
        /\ ops[i + 1].op \in Removing /\ ops[j + 1].op \in Removing /\ Entry(ops[i + 1]) = Entry(ops[j + 1]) => i + 1 = j + 1
    BY <2>1 DEF EditOps
  <2>. QED
    BY <2>1, <2>2
<1>6. FilesOf(t) \subseteq FilesOf(ops)
  <2>1. SUFFICES ASSUME NEW i \in 1..Len(t), t[i].op \in Placed PROVE t[i].what.place[1] \in FilesOf(ops)
    BY DEF FilesOf
  <2>2. i + 1 \in {k \in 1..Len(ops) : ops[k].op \in Placed} /\ t[i] = ops[i + 1]
    BY <1>3, <2>1
  <2>. QED
    BY <2>2 DEF FilesOf
<1>. QED
  BY <1>1, <1>2, <1>4, <1>5, <1>6 DEF EditOps

LEMMA EditGroup ==
  ASSUME NEW ops \in Seq(Ops), ops # <<>>, NEW list, EditOps(ops, list), NEW id \in Numbers,
         NEW a \in Ops, NEW b \in Ops, NEW c \in Ops, a.id = id, b.id = id, c.id = id, c.what = ops[1].what,
         \/ /\ ops[1].op = "take" /\ a.op = "set-breakpoint" /\ b.op = "enable-breakpoint" /\ c.op = "listed"
            /\ a.what = c.what
         \/ ops[1].op = "remove" /\ a.op = "disable-breakpoint" /\ b.op = "free" /\ c.op = "unlisted" /\ id = ops[1].id,
         NEW q, q = <<a, b, c>> \o Tail(ops)
  PROVE  EditOps(q, list) /\ FilesOf(q) \subseteq FilesOf(ops)
<1>1. /\ q \in Seq(Ops) /\ Len(q) = Len(ops) + 2 /\ q[1] = a /\ q[2] = b /\ q[3] = c
      /\ \A i \in 4..Len(q) : i - 2 \in 2..Len(ops) /\ q[i] = ops[i - 2]
  BY GroupFirst
<1>2. Len(ops) \in Nat /\ Len(ops) >= 1 /\ 1 \in 1..Len(ops) /\ Len(q) \in Nat
  BY <1>1, TailOf
<1>3. Shape(q, "listed", "unlisted", {"remove", "take"})
  <2>1. Kind("listed", "unlisted", {"remove", "take"}) /\ Shape(ops, "listed", "unlisted", {"remove", "take"})
        /\ ops[1].op \in {"remove", "take"}
    BY DEF Kind, EditOps
  <2>. QED
    BY <2>1, GroupShape
\* Where an operation of q comes from: the third one is about the head of ops.
<1>4. ASSUME NEW i \in 1..Len(q), q[i].op \in Placed
      PROVE  \E k \in 1..Len(ops) : /\ ops[k].op \in Placed /\ q[i].what = ops[k].what
                                    /\ q[i].op \in Removing => ops[k].op \in Removing /\ q[i].id = ops[k].id
                                    /\ (i = 3 /\ k = 1) \/ (i >= 4 /\ k = i - 2)
  <2>1. CASE i \in 1..2
    BY <1>1, <1>4, <2>1 DEF Placed
  <2>2. CASE i = 3
    BY <1>1, <1>2, <2>2 DEF Placed, Removing
  <2>3. CASE i >= 4
    <3>1. i \in 4..Len(q) /\ i - 2 \in 1..Len(ops)
      BY <1>1, <1>2, <2>3
    <3>2. q[i] = ops[i - 2]
      BY <1>1, <3>1
    <3>. QED
      BY <1>4, <2>3, <3>1, <3>2
  <2>. QED
    BY <2>1, <2>2, <2>3
<1>5. Removing \subseteq Placed
  BY DEF Removing, Placed
<1>6. ASSUME NEW i \in 1..Len(q)
      PROVE  /\ q[i].op \in Placed => q[i].what.place \in Zesarux!Places /\ q[i].what = Zesarux!AtPlace(q[i].what.place)
             /\ q[i].op # "take" => q[i].id \in Numbers
             /\ q[i].op \in Removing => Entry(q[i]) \in list
  <2>1. ASSUME q[i].op \in Placed
        PROVE  /\ q[i].what.place \in Zesarux!Places /\ q[i].what = Zesarux!AtPlace(q[i].what.place)
               /\ q[i].op \in Removing => Entry(q[i]) \in list
    <3>1. PICK k \in 1..Len(ops) : /\ ops[k].op \in Placed /\ q[i].what = ops[k].what
                                   /\ q[i].op \in Removing => ops[k].op \in Removing /\ q[i].id = ops[k].id
      BY <1>4, <2>1
    <3>2. q[i].what.place \in Zesarux!Places /\ q[i].what = Zesarux!AtPlace(q[i].what.place)
      BY <3>1 DEF EditOps
    <3>3. ASSUME q[i].op \in Removing PROVE Entry(q[i]) \in list
      <4>1. Entry(q[i]) = Entry(ops[k])
        BY <3>1, <3>3 DEF Entry
      <4>. QED
        BY <3>1, <3>3, <4>1 DEF EditOps
    <3>. QED
      BY <3>2, <3>3
  <2>2. ASSUME q[i].op # "take" PROVE q[i].id \in Numbers
    <3>1. CASE i \in 1..3
      BY <1>1, <3>1
    <3>2. CASE i >= 4
      <4>1. i \in 4..Len(q) /\ i - 2 \in 1..Len(ops)
        BY <1>1, <1>2, <3>2
      <4>. QED
        BY <1>1, <2>2, <4>1 DEF EditOps
    <3>. QED
      BY <3>1, <3>2
  <2>. QED
    BY <1>5, <2>1, <2>2
<1>7. ASSUME NEW i \in 1..Len(q), NEW j \in 1..Len(q)
      PROVE  /\ q[i].op \in Placed /\ q[j].op \in Placed => q[i].what.place[1] = q[j].what.place[1]
             /\ q[i].op \in Removing /\ q[j].op \in Removing /\ Entry(q[i]) = Entry(q[j]) => i = j
  <2>1. ASSUME q[i].op \in Placed, q[j].op \in Placed PROVE q[i].what.place[1] = q[j].what.place[1]
    BY <1>4, <2>1 DEF EditOps
  <2>2. ASSUME q[i].op \in Removing, q[j].op \in Removing, Entry(q[i]) = Entry(q[j]) PROVE i = j
    <3>1. PICK k \in 1..Len(ops) : /\ ops[k].op \in Removing /\ q[i].id = ops[k].id /\ q[i].what = ops[k].what
                                   /\ (i = 3 /\ k = 1) \/ (i >= 4 /\ k = i - 2)
      BY <1>4, <1>5, <2>2
    <3>2. PICK m \in 1..Len(ops) : /\ ops[m].op \in Removing /\ q[j].id = ops[m].id /\ q[j].what = ops[m].what
                                   /\ (j = 3 /\ m = 1) \/ (j >= 4 /\ m = j - 2)
      BY <1>4, <1>5, <2>2
    <3>3. Entry(ops[k]) = Entry(q[i]) /\ Entry(ops[m]) = Entry(q[j])
      BY <3>1, <3>2 DEF Entry
    <3>4. k = m
      BY <2>2, <3>1, <3>2, <3>3 DEF EditOps
    <3>. QED
      BY <3>1, <3>2, <3>4
  <2>. QED
    BY <2>1, <2>2
<1>8. FilesOf(q) \subseteq FilesOf(ops)
  <2>1. SUFFICES ASSUME NEW i \in 1..Len(q), q[i].op \in Placed PROVE q[i].what.place[1] \in FilesOf(ops)
    BY DEF FilesOf
  <2>2. PICK k \in 1..Len(ops) : ops[k].op \in Placed /\ q[i].what = ops[k].what
    BY <1>4, <2>1
  <2>. QED
    BY <2>2 DEF FilesOf
<1>. QED
  BY <1>3, <1>6, <1>7, <1>8 DEF EditOps

LEMMA SwitchTail ==
  ASSUME NEW ops \in Seq(Ops), ops # <<>>, SwitchOps(ops)
  PROVE  SwitchOps(Tail(ops))
<1>1. PICK t : t = Tail(ops)
  OBVIOUS
<1>2. Shape(t, "numbered", "unnumbered", {"enable", "disable"})
  BY <1>1, ShapeTail DEF SwitchOps
<1>3. ASSUME NEW i \in 1..Len(t) PROVE i + 1 \in 1..Len(ops) /\ t[i] = ops[i + 1]
  BY <1>1, TailOf
<1>. QED
  BY <1>1, <1>2, <1>3 DEF SwitchOps

LEMMA SwitchGroup ==
  ASSUME NEW ops \in Seq(Ops), ops # <<>>, SwitchOps(ops), NEW id \in Numbers,
         NEW a \in Ops, NEW b \in Ops, NEW c \in Ops, a.id = id, b.id = id, c.id = id, c.what = ops[1].what,
         \/ /\ ops[1].op = "enable" /\ a.op = "set-breakpoint" /\ b.op = "enable-breakpoint" /\ c.op = "numbered"
            /\ a.what = c.what
         \/ ops[1].op = "disable" /\ a.op = "disable-breakpoint" /\ b.op = "free" /\ c.op = "unnumbered",
         NEW q, q = <<a, b, c>> \o Tail(ops)
  PROVE  SwitchOps(q)
<1>1. /\ q \in Seq(Ops) /\ Len(q) = Len(ops) + 2 /\ q[1] = a /\ q[2] = b /\ q[3] = c
      /\ \A i \in 4..Len(q) : i - 2 \in 2..Len(ops) /\ q[i] = ops[i - 2]
  BY GroupFirst
<1>2. Len(ops) \in Nat /\ Len(ops) >= 1 /\ 1 \in 1..Len(ops) /\ Len(q) \in Nat
  BY <1>1, TailOf
<1>3. Shape(q, "numbered", "unnumbered", {"enable", "disable"})
  <2>1. Kind("numbered", "unnumbered", {"enable", "disable"}) /\ Shape(ops, "numbered", "unnumbered", {"enable", "disable"})
        /\ ops[1].op \in {"enable", "disable"}
    BY DEF Kind, SwitchOps
  <2>. QED
    BY <2>1, GroupShape
<1>4. ASSUME NEW i \in 1..Len(q)
      PROVE  /\ q[i].op \in Assigned => q[i].what.place[1] \in Assertions
             /\ q[i].op \notin {"enable", "disable"} => q[i].id \in Numbers
  <2>1. CASE i \in 1..3
    <3>1. c.what.place[1] \in Assertions
      BY <1>2 DEF SwitchOps, Assigned
    <3>. QED
      BY <1>1, <2>1, <3>1 DEF Assigned
  <2>2. CASE i >= 4
    <3>1. i \in 4..Len(q) /\ i - 2 \in 1..Len(ops)
      BY <1>1, <1>2, <2>2
    <3>. QED
      BY <1>1, <3>1 DEF SwitchOps
  <2>. QED
    BY <2>1, <2>2
<1>. QED
  BY <1>3, <1>4 DEF SwitchOps

-------------------------------------------------------------------------------
(* A step of one request: it has something else to do, or awaits an answer. *)

Turned(t, todo, waits) ==
  /\ requests' \in [Zesarux!Requests -> Request]
  /\ \A u \in Zesarux!Requests \ {t} : requests'[u] = requests[u]
  /\ requests'[t].ops = todo /\ requests'[t].waits = waits

LEMMA RequestsAre ==
  /\ Zesarux!Requests = {"edit", "edit2", "switch", "switch2", "run", "restore"}
  /\ EditRequests \subseteq Zesarux!Requests /\ SwitchRequests \subseteq Zesarux!Requests
  /\ "run" \in Zesarux!Requests /\ "restore" \in Zesarux!Requests
  /\ EditRequests \cap SwitchRequests = {} /\ {"run", "restore"} \cap (EditRequests \cup SwitchRequests) = {}
BY DEF Zesarux!Requests, EditRequests, SwitchRequests

LEMMA TodoTyped ==
  ASSUME ZesaruxTypes, NEW t \in Zesarux!Requests
  PROVE  requests[t] \in Request /\ Todo(t) \in Seq(Ops) /\ requests[t].waits \in BOOLEAN
BY DEF ZesaruxTypes, Request, Todo

LEMMA TurnedBy ==
  ASSUME ZesaruxTypes, NEW t \in Zesarux!Requests, NEW r \in Request, requests' = [requests EXCEPT ![t] = r]
  PROVE  Turned(t, r.ops, r.waits)
BY DEF Turned, ZesaruxTypes

LEMMA DoTurns ==
  ASSUME ZesaruxTypes, NEW t \in Zesarux!Requests, Todo(t) # <<>>, NEW ops \in Seq(Ops), Zesarux!Do(t, ops)
  PROVE  Turned(t, ops \o Tail(Todo(t)), requests[t].waits) /\ ops \o Tail(Todo(t)) \in Seq(Ops)
<1>1. requests[t] \in Request /\ Todo(t) \in Seq(Ops)
  BY TodoTyped
<1>2. Tail(Todo(t)) \in Seq(Ops)
  BY <1>1, TailOf
<1>3. ops \o Tail(Todo(t)) \in Seq(Ops)
  BY <1>2, ConcatProperties
<1>4. PICK todo : todo = ops \o Tail(Todo(t))
  OBVIOUS
<1>5. PICK r : r = [requests[t] EXCEPT !.ops = todo]
  OBVIOUS
<1>6. r \in Request /\ r.ops = todo /\ r.waits = requests[t].waits
  BY <1>1, <1>3, <1>4, <1>5 DEF Request
<1>7. requests' = [requests EXCEPT ![t] = r]
  BY <1>4, <1>5 DEF Zesarux!Do, ZesaruxTypes, Todo
<1>. QED
  BY <1>3, <1>4, <1>6, <1>7, TurnedBy

LEMMA DoneTurns ==
  ASSUME ZesaruxTypes, NEW t \in Zesarux!Requests, Todo(t) # <<>>, Zesarux!Do(t, <<>>)
  PROVE  Turned(t, Tail(Todo(t)), requests[t].waits)
<1>1. <<>> \in Seq(Ops) /\ Tail(Todo(t)) \in Seq(Ops)
  BY TodoTyped, TailOf
<1>2. <<>> \o Tail(Todo(t)) = Tail(Todo(t))
  BY <1>1, ConcatEmptySeq
<1>3. Turned(t, <<>> \o Tail(Todo(t)), requests[t].waits)
  BY <1>1, DoTurns
<1>. QED
  BY <1>2, <1>3

LEMMA StartTurns ==
  ASSUME ZesaruxTypes, InTurn, NEW t \in Zesarux!Requests, NEW ops \in Seq(Ops), Zesarux!Start(t, ops)
  PROVE  Turned(t, ops, FALSE) /\ Todo(t) = <<>> /\ ~requests[t].waits
<1>1. PICK r : r = [Zesarux!Idle EXCEPT !.ops = ops]
  OBVIOUS
<1>2. r \in Request /\ r.ops = ops /\ r.waits = FALSE
  BY <1>1 DEF Zesarux!Idle, Request
<1>3. Turned(t, ops, FALSE)
  BY <1>1, <1>2, TurnedBy DEF Zesarux!Start
<1>. QED
  BY <1>3 DEF Zesarux!Start, Zesarux!Busy, InTurn, Todo

LEMMA SendTurns ==
  ASSUME ZesaruxTypes, NEW t \in Zesarux!Requests, Zesarux!Send(t)
  PROVE  Turned(t, Todo(t), TRUE) /\ Todo(t) # <<>> /\ ~requests[t].waits /\ Zesarux!Command(Todo(t)[1])
<1>1. requests[t] \in Request /\ Todo(t) \in Seq(Ops)
  BY TodoTyped
<1>2. PICK r : r = [requests[t] EXCEPT !.waits = TRUE]
  OBVIOUS
<1>3. r \in Request /\ r.ops = Todo(t) /\ r.waits = TRUE
  BY <1>1, <1>2 DEF Request, Todo
<1>4. requests' = [requests EXCEPT ![t] = r]
  BY <1>2 DEF Zesarux!Send, ZesaruxTypes
<1>5. Todo(t) # <<>> /\ ~requests[t].waits /\ Zesarux!Command(Head(Todo(t)))
  BY DEF Zesarux!Send, Zesarux!Busy, Zesarux!Next1, Todo
<1>6. Head(Todo(t)) = Todo(t)[1]
  BY <1>1, <1>5, TailOf
<1>. QED
  BY <1>3, <1>4, <1>5, <1>6, TurnedBy

LEMMA AnsweredTurns ==
  ASSUME ZesaruxTypes, NEW t \in Zesarux!Requests, Todo(t) # <<>>, Zesarux!Answered(t)
  PROVE  Turned(t, Tail(Todo(t)), FALSE)
<1>1. requests[t] \in Request /\ Todo(t) \in Seq(Ops)
  BY TodoTyped
<1>2. Tail(Todo(t)) \in Seq(Ops)
  BY <1>1, TailOf
<1>3. PICK q : q = Tail(Todo(t))
  OBVIOUS
<1>4. PICK s : s = [requests[t] EXCEPT !.waits = FALSE]
  OBVIOUS
<1>5. s \in Request /\ s.ops = Todo(t) /\ s.waits = FALSE
  BY <1>1, <1>4 DEF Request, Todo
<1>6. PICK r : r = [s EXCEPT !.ops = q]
  OBVIOUS
<1>7. r \in Request /\ r.ops = q /\ r.waits = FALSE
  BY <1>2, <1>3, <1>5, <1>6 DEF Request
<1>8. PICK f : f = [requests EXCEPT ![t] = s]
  OBVIOUS
<1>9. requests' = [f EXCEPT ![t].ops = Tail(@)]
  BY <1>4, <1>8 DEF Zesarux!Answered
<1>10. f \in [Zesarux!Requests -> Request] /\ f[t] = s /\ \A u \in Zesarux!Requests \ {t} : f[u] = requests[u]
  BY <1>5, <1>8 DEF ZesaruxTypes
<1>11. requests' = [f EXCEPT ![t] = r]
  BY <1>3, <1>5, <1>6, <1>9, <1>10
<1>. QED
  BY <1>3, <1>7, <1>10, <1>11 DEF Turned

LEMMA HeadOp ==
  ASSUME NEW ops \in Seq(Ops), ops # <<>>, NEW then, NEW undone, NEW plans, Kind(then, undone, plans),
         Shape(ops, then, undone, plans)
  PROVE  ops[1].op \in plans \cup {"set-breakpoint", "enable-breakpoint", then, "disable-breakpoint", "free", undone}
<1>1. PICK t : t = Tail(ops)
  OBVIOUS
<1>. QED
  BY <1>1, HeadTells

\* What is at the head of a request tells whose it is.
LEMMA HeadsAre ==
  ASSUME ZesaruxTypes, OpsInv, NEW t \in Zesarux!Requests, Todo(t) # <<>>, NEW op, op = Todo(t)[1]
  PROVE  /\ op \in Ops /\ Zesarux!Next1(t) = op
         /\ op.op \in {"take", "remove", "listed", "unlisted"} => t \in EditRequests
         /\ op.op \in {"enable", "disable", "numbered", "unnumbered"} => t \in SwitchRequests
         /\ op.op = "free" => t \in EditRequests \cup SwitchRequests
         /\ op.op \in {"renumber", "clear"} => t = "restore" /\ restored
         /\ op.op \in {"run", "cpu-step", "resolve"} => t = "run"
         /\ op.op \in {"set-breakpoint", "enable-breakpoint", "disable-breakpoint"} => t # "restore"
         /\ t \in EditRequests \cup SwitchRequests /\ op.op \notin {"take", "enable", "disable"} => op.id \in Numbers
         /\ t = "run" /\ op.op \in {"set-breakpoint", "enable-breakpoint", "disable-breakpoint"} => op.id = MaxId + 1
<1>1. Todo(t) \in Seq(Ops) /\ Len(Todo(t)) \in Nat /\ Len(Todo(t)) >= 1 /\ Head(Todo(t)) = op /\ op \in Ops
  BY TodoTyped, TailOf
<1>2. 1 \in 1..Len(Todo(t)) /\ Zesarux!Next1(t) = op
  BY <1>1 DEF Zesarux!Next1, Todo
<1>3. OpsOk(t, Todo(t), zesaruxList, restored)
  BY DEF OpsInv
<1>4. CASE t \in EditRequests
  <2>1. EditOps(Todo(t), zesaruxList)
    BY <1>3, <1>4 DEF OpsOk
  <2>2. Shape(Todo(t), "listed", "unlisted", {"remove", "take"}) /\ Kind("listed", "unlisted", {"remove", "take"})
    BY <2>1 DEF EditOps, Kind
  <2>3. op.op \in {"remove", "take"} \cup {"set-breakpoint", "enable-breakpoint", "listed", "disable-breakpoint", "free", "unlisted"}
    <3>1. Todo(t)[1].op \in {"remove", "take"} \cup {"set-breakpoint", "enable-breakpoint", "listed", "disable-breakpoint", "free", "unlisted"}
      BY <1>1, <2>2, HeadOp
    <3>. QED
      BY <3>1
  <2>4. op.op # "take" => op.id \in Numbers
    BY <1>2, <2>1 DEF EditOps
  <2>. QED
    BY <1>1, <1>2, <1>4, <2>3, <2>4, RequestsAre
<1>5. CASE t \in SwitchRequests
  <2>1. SwitchOps(Todo(t))
    BY <1>3, <1>5 DEF OpsOk
  <2>2. Shape(Todo(t), "numbered", "unnumbered", {"enable", "disable"}) /\ Kind("numbered", "unnumbered", {"enable", "disable"})
    BY <2>1 DEF SwitchOps, Kind
  <2>3. op.op \in {"enable", "disable"} \cup {"set-breakpoint", "enable-breakpoint", "numbered", "disable-breakpoint", "free", "unnumbered"}
    <3>1. Todo(t)[1].op \in {"enable", "disable"} \cup {"set-breakpoint", "enable-breakpoint", "numbered", "disable-breakpoint", "free", "unnumbered"}
      BY <1>1, <2>2, HeadOp
    <3>. QED
      BY <3>1
  <2>4. op.op \notin {"enable", "disable"} => op.id \in Numbers
    BY <1>2, <2>1 DEF SwitchOps
  <2>. QED
    BY <1>1, <1>2, <1>5, <2>3, <2>4, RequestsAre
<1>6. CASE t = "restore"
  <2>1. op.op \in {"clear", "renumber", "get"} /\ restored
    BY <1>2, <1>3, <1>6 DEF OpsOk
  <2>. QED
    BY <1>1, <1>2, <1>6, <2>1, RequestsAre
<1>7. CASE t = "run"
  <2>1. op.op \in RunNames /\ (op.op \in {"set-breakpoint", "enable-breakpoint", "disable-breakpoint"} => op.id = MaxId + 1)
    BY <1>2, <1>3, <1>7 DEF OpsOk
  <2>. QED
    BY <1>1, <1>2, <1>7, <2>1, RequestsAre DEF RunNames
<1>. QED
  BY <1>4, <1>5, <1>6, <1>7, RequestsAre DEF EditRequests, SwitchRequests

\* A request that does not wait is not in the queue, and it does not run the program.
LEMMA InTurnTurned ==
  ASSUME ZesaruxTypes, InTurn, NEW t \in Zesarux!Requests, ~requests[t].waits, NEW todo, Turned(t, todo, FALSE),
         queue' = queue, running' => running
  PROVE  InTurn'
<1>1. \A i \in 1..Len(queue) : queue[i] \in Zesarux!Requests /\ queue[i] # t
  BY DEF InTurn, ZesaruxTypes
<1>2. \A i \in 1..Len(queue) : requests'[queue[i]] = requests[queue[i]]
  BY <1>1 DEF Turned
<1>3. \A u \in Zesarux!Requests : requests'[u].waits => requests[u].waits /\ requests'[u] = requests[u]
  BY DEF Turned
<1>4. running' => requests'["run"] = requests["run"]
  BY RequestsAre DEF InTurn, Turned
<1>. QED
  BY <1>2, <1>3, <1>4 DEF InTurn, Todo

LEMMA OpsTurned ==
  ASSUME ZesaruxTypes, OpsInv, NEW t \in Zesarux!Requests, NEW todo, NEW waits, Turned(t, todo, waits),
         OpsOk(t, todo, zesaruxList', restored'), restored => restored',
         \A u \in EditRequests \ {t} : EditOps(Todo(u), zesaruxList'),
         \A u \in EditRequests \ {t} : t \in EditRequests => FilesOf(todo) \cap FilesOf(Todo(u)) = {}
  PROVE  OpsInv'
<1>1. ASSUME NEW u \in Zesarux!Requests PROVE OpsOk(u, requests'[u].ops, zesaruxList', restored')
  <2>1. CASE u = t
    BY <2>1 DEF Turned
  <2>2. CASE u # t
    <3>1. requests'[u].ops = Todo(u) /\ OpsOk(u, Todo(u), zesaruxList, restored)
      BY <2>2 DEF Turned, Todo, OpsInv
    <3>. QED
      BY <2>2, <3>1 DEF OpsOk
  <2>. QED
    BY <2>1, <2>2
<1>2. ASSUME NEW u \in EditRequests, NEW v \in EditRequests, u # v
      PROVE  FilesOf(requests'[u].ops) \cap FilesOf(requests'[v].ops) = {}
  <2>1. \A w \in EditRequests : requests'[w].ops = IF w = t THEN todo ELSE Todo(w)
    BY RequestsAre DEF Turned, Todo
  <2>2. FilesOf(Todo(u)) \cap FilesOf(Todo(v)) = {}
    BY <1>2 DEF OpsInv
  <2>. QED
    BY <1>2, <2>1, <2>2
<1>. QED
  BY <1>1, <1>2 DEF OpsInv, Todo

\* What is done is behind.
LEMMA OpsTail ==
  ASSUME ZesaruxTypes, OpsInv, NEW t \in Zesarux!Requests, Todo(t) # <<>>, NEW waits, Turned(t, Tail(Todo(t)), waits),
         zesaruxList' = zesaruxList, restored' = restored
  PROVE  OpsInv'
<1>1. /\ Todo(t) \in Seq(Ops) /\ Tail(Todo(t)) \in Seq(Ops) /\ Len(Tail(Todo(t))) = Len(Todo(t)) - 1 /\ Len(Todo(t)) \in Nat
      /\ \A i \in 1..Len(Tail(Todo(t))) : Tail(Todo(t))[i] = Todo(t)[i + 1]
  BY TodoTyped, TailOf
<1>2. \A i \in 1..Len(Tail(Todo(t))) : i + 1 \in 1..Len(Todo(t))
  BY <1>1
<1>3. OpsOk(t, Todo(t), zesaruxList, restored)
  BY DEF OpsInv
<1>4. ASSUME t \in EditRequests
      PROVE  EditOps(Tail(Todo(t)), zesaruxList) /\ FilesOf(Tail(Todo(t))) \subseteq FilesOf(Todo(t))
  <2>1. EditOps(Todo(t), zesaruxList)
    BY <1>3, <1>4 DEF OpsOk
  <2>2. \A i \in 2..Len(Todo(t)) : i \in 1..Len(Todo(t))
    BY <1>1
  <2>3. \A i \in 2..Len(Todo(t)) : Todo(t)[i].op \in Removing => Entry(Todo(t)[i]) \in zesaruxList
    BY <2>1, <2>2 DEF EditOps
  <2>. QED
    BY <1>1, <2>1, <2>3, EditTail
<1>5. t \in SwitchRequests => SwitchOps(Tail(Todo(t)))
  BY <1>1, <1>3, SwitchTail DEF OpsOk
<1>6. t \notin EditRequests \cup SwitchRequests => OpsOk(t, Tail(Todo(t)), zesaruxList, restored)
  BY <1>1, <1>2, <1>3 DEF OpsOk
<1>7. OpsOk(t, Tail(Todo(t)), zesaruxList', restored')
  BY <1>4, <1>5, <1>6, RequestsAre DEF OpsOk
<1>8. \A u \in EditRequests \ {t} :
        EditOps(Todo(u), zesaruxList') /\ (t \in EditRequests => FilesOf(Tail(Todo(t))) \cap FilesOf(Todo(u)) = {})
  <2>1. ASSUME NEW u \in EditRequests \ {t}
        PROVE  EditOps(Todo(u), zesaruxList') /\ (t \in EditRequests => FilesOf(Tail(Todo(t))) \cap FilesOf(Todo(u)) = {})
    <3>1. EditOps(Todo(u), zesaruxList')
      BY RequestsAre DEF OpsInv, OpsOk
    <3>2. ASSUME t \in EditRequests PROVE FilesOf(Todo(t)) \cap FilesOf(Todo(u)) = {}
      BY <3>2 DEF OpsInv
    <3>. QED
      BY <1>4, <3>1, <3>2
  <2>. QED
    BY <2>1
<1>. QED
  BY <1>7, <1>8, OpsTurned

-------------------------------------------------------------------------------
(* Requests that begin.                                                     *)

LEMMA ConditionsTyped ==
  /\ \A p \in Zesarux!Places : Zesarux!AtPlace(p) \in Conditions
  /\ \A a \in Assertions : Zesarux!AtPlace(<<a, 0>>) \in Conditions /\ Zesarux!AtPlace(<<a, 0>>).place[1] = a
  /\ Zesarux!None \in Conditions
  /\ \A l \in Int : Zesarux!AtLevel(l) \in Conditions /\ Zesarux!ReturnTo(l) \in Conditions
BY DEF Conditions, Zesarux!AtPlace, Zesarux!AtLevel, Zesarux!ReturnTo, Zesarux!None

LEMMA OpTyped ==
  ASSUME NEW name \in OpNames, NEW id \in 0..(MaxId + 1), NEW what \in Conditions, NEW op, op = Zesarux!Op(name, id, what)
  PROVE  op \in Ops /\ op.op = name /\ op.id = id /\ op.what = what
BY DEF Ops, Zesarux!Op

LEMMA IdsTyped ==
  /\ MaxId \in Nat /\ Zesarux!StepId = MaxId + 1
  /\ 0 \in 0..(MaxId + 1) /\ MaxId + 1 \in 0..(MaxId + 1) /\ MaxId + 1 \in 1..(MaxId + 1) /\ MaxId + 1 \notin Numbers
  /\ \A n \in Numbers : n \in 0..(MaxId + 1) /\ n \in 1..(MaxId + 1) /\ n \in 0..MaxId /\ n # 0
  /\ \A n \in 0..MaxId : n # 0 => n \in Numbers
BY ZesaruxAssumption DEF Numbers, Zesarux!StepId

\* SetToSeq gives a finite set's elements, each once.
LEMMA OneByOne ==
  ASSUME NEW S, IsFiniteSet(S), NEW s, s = Zesarux!SetToSeq(S)
  PROVE  /\ s \in Seq(S) /\ Len(s) \in Nat /\ DOMAIN s = 1..Len(s) /\ \A i \in 1..Len(s) : s[i] \in S
         /\ \A i, j \in 1..Len(s) : s[i] = s[j] => i = j
<1>. DEFINE n == Cardinality(S)
<1>1. n \in Nat /\ ExistsBijection(1..n, S)
  BY FS_CardinalityType
<1>2. \E f \in [1..n -> S] : IsInjective(f)
  BY <1>1 DEF ExistsBijection, Bijection, Injection
<1>3. SetToSeq(S) \in [1..n -> S] /\ IsInjective(SetToSeq(S))
  BY <1>2 DEF SetToSeq
<1>4. SetToSeq(S) = s
  BY Zenon DEF SetToSeq, Zesarux!SetToSeq, IsInjective, Zesarux!IsInjective, Cardinality, Zesarux!Cardinality,
               IsFiniteSet, Zesarux!IsFiniteSet
<1>5. s \in [1..n -> S] /\ \A i, j \in 1..n : s[i] = s[j] => i = j
  BY <1>3, <1>4 DEF IsInjective
<1>6. s \in Seq(S) /\ Len(s) = n /\ DOMAIN s = 1..n
  BY <1>1, <1>5
<1>. QED
  BY <1>1, <1>5, <1>6

LEMMA FunctionIsSeq ==
  ASSUME NEW n \in Nat, NEW S, NEW f \in [1..n -> S]
  PROVE  f \in Seq(S) /\ Len(f) = n
OBVIOUS

\* What a step of a request leaves alone.
ZesaruxStays == UNCHANGED <<queue, condition, on, running, level, pc, returned>>
BreakpointsStay == UNCHANGED <<freeBreakpointIds, zesaruxList, zesaruxId>>
ResultStays == UNCHANGED <<fired, result>>

LEMMA TypesTurned ==
  ASSUME ZesaruxTypes, NEW t, NEW todo, NEW waits, Turned(t, todo, waits), ZesaruxStays,
         freeBreakpointIds' \in Seq(Numbers), zesaruxList' \in SUBSET Entries, IsFiniteSet(zesaruxList'),
         zesaruxId' \in [Assertions -> 0..MaxId],
         fired' \in SUBSET (1..(MaxId + 1)), result' \in Results, restored' \in BOOLEAN, requestsOverlapped' \in BOOLEAN
  PROVE  ZesaruxTypes'
BY DEF ZesaruxTypes, Turned, ZesaruxStays

Removal(b) == Zesarux!Op("remove", b.id, Zesarux!AtPlace(b.place))
Addition(p) == Zesarux!Op("take", 0, Zesarux!AtPlace(p))

LEMMA RemovalTyped ==
  ASSUME NEW b \in Entries
  PROVE  /\ Removal(b) \in Ops /\ Removal(b).op = "remove" /\ Removal(b).id = b.id /\ b.id \in Numbers
         /\ Removal(b).what = Zesarux!AtPlace(b.place) /\ Removal(b).what.place = b.place /\ b.place \in Zesarux!Places
         /\ Entry(Removal(b)) = b
<1>1. PICK p \in Zesarux!Places, n \in Numbers : b = [place |-> p, id |-> n]
  BY DEF Entries
<1>2. PICK what : what = Zesarux!AtPlace(p)
  OBVIOUS
<1>3. what \in Conditions /\ what.place = p
  BY <1>2, ConditionsTyped DEF Zesarux!AtPlace
<1>4. n \in 0..(MaxId + 1) /\ "remove" \in OpNames
  BY IdsTyped DEF OpNames
<1>5. PICK op : op = Removal(b)
  OBVIOUS
<1>6. op = Zesarux!Op("remove", n, what)
  BY <1>1, <1>2, <1>5 DEF Removal
<1>7. op \in Ops /\ op.op = "remove" /\ op.id = n /\ op.what = what
  BY <1>3, <1>4, <1>6, OpTyped
<1>8. Entry(op) = b
  BY <1>1, <1>3, <1>7 DEF Entry
<1>. QED
  BY <1>1, <1>2, <1>3, <1>5, <1>7, <1>8

LEMMA AdditionTyped ==
  ASSUME NEW p \in Zesarux!Places
  PROVE  /\ Addition(p) \in Ops /\ Addition(p).op = "take"
         /\ Addition(p).what = Zesarux!AtPlace(p) /\ Addition(p).what.place = p
<1>1. PICK what : what = Zesarux!AtPlace(p)
  OBVIOUS
<1>2. what \in Conditions /\ what.place = p
  BY <1>1, ConditionsTyped DEF Zesarux!AtPlace
<1>3. 0 \in 0..(MaxId + 1) /\ "take" \in OpNames
  BY IdsTyped DEF OpNames
<1>4. PICK op : op = Zesarux!Op("take", 0, what)
  OBVIOUS
<1>5. op \in Ops /\ op.op = "take" /\ op.what = what
  BY <1>2, <1>3, <1>4, OpTyped
<1>. QED
  BY <1>1, <1>2, <1>4, <1>5 DEF Addition

Planned(list, f, r, removed, a, added) ==
  /\ list \in SUBSET Entries /\ r \in Seq(Ops) /\ a \in Seq(Ops)
  /\ \A i \in 1..Len(r) : removed[i] \in list /\ removed[i].place[1] = f /\ r[i] = Removal(removed[i])
  /\ \A i, j \in 1..Len(r) : removed[i] = removed[j] => i = j
  /\ \A i \in 1..Len(a) : added[i] \in Zesarux!Places /\ added[i][1] = f /\ a[i] = Addition(added[i])

LEMMA PlannedEdit ==
  ASSUME NEW list, NEW f, NEW r, NEW removed, NEW a, NEW added, Planned(list, f, r, removed, a, added),
         NEW ops, ops = r \o a
  PROVE  /\ ops \in Seq(Ops) /\ EditOps(ops, list) /\ FilesOf(ops) \subseteq {f}
         /\ \A i \in 1..Len(ops) : ops[i].op \in {"remove", "take"}
<1>. USE DEF Planned
<1>1. /\ ops \in Seq(Ops) /\ Len(ops) = Len(r) + Len(a) /\ Len(r) \in Nat /\ Len(a) \in Nat
      /\ \A i \in 1..(Len(r) + Len(a)) : ops[i] = IF i <= Len(r) THEN r[i] ELSE a[i - Len(r)]
  BY ConcatProperties
<1>2. ASSUME NEW i \in 1..Len(ops)
      PROVE  \/ i \in 1..Len(r) /\ ops[i] = Removal(removed[i])
             \/ \E j \in 1..Len(a) : ops[i] = Addition(added[j])
  <2>1. CASE i <= Len(r)
    BY <1>1, <2>1
  <2>2. CASE ~(i <= Len(r))
    <3>1. i - Len(r) \in 1..Len(a) /\ ops[i] = a[i - Len(r)]
      BY <1>1, <2>2
    <3>. QED
      BY <3>1
  <2>. QED
    BY <2>1, <2>2
<1>3. ASSUME NEW i \in 1..Len(ops)
      PROVE  /\ ops[i].op \in {"remove", "take"}
             /\ ops[i].what.place \in Zesarux!Places /\ ops[i].what = Zesarux!AtPlace(ops[i].what.place)
             /\ ops[i].what.place[1] = f
             /\ ops[i].op # "take" => /\ ops[i].id \in Numbers /\ i \in 1..Len(r) /\ Entry(ops[i]) = removed[i]
                                      /\ Entry(ops[i]) \in list
  <2>1. CASE i \in 1..Len(r) /\ ops[i] = Removal(removed[i])
    <3>1. PICK b : b = removed[i]
      OBVIOUS
    <3>2. b \in Entries /\ b \in list /\ b.place[1] = f
      BY <2>1, <3>1
    <3>3. /\ ops[i].op = "remove" /\ ops[i].id = b.id /\ b.id \in Numbers
          /\ ops[i].what = Zesarux!AtPlace(b.place) /\ ops[i].what.place = b.place /\ b.place \in Zesarux!Places
          /\ Entry(ops[i]) = b
      BY <2>1, <3>1, <3>2, RemovalTyped
    <3>. QED
      BY <2>1, <3>1, <3>2, <3>3
  <2>2. CASE \E j \in 1..Len(a) : ops[i] = Addition(added[j])
    <3>1. PICK j \in 1..Len(a) : ops[i] = Addition(added[j])
      BY <2>2
    <3>2. PICK p : p = added[j]
      OBVIOUS
    <3>3. p \in Zesarux!Places /\ p[1] = f
      BY <3>2
    <3>4. ops[i].op = "take" /\ ops[i].what = Zesarux!AtPlace(p) /\ ops[i].what.place = p
      BY <3>1, <3>2, <3>3, AdditionTyped
    <3>. QED
      BY <3>3, <3>4
  <2>. QED
    BY <1>2, <2>1, <2>2
<1>4. \A i \in 1..Len(ops) : ops[i].op \in {"remove", "take"}
  BY <1>3
<1>5. Shape(ops, "listed", "unlisted", {"remove", "take"})
  BY <1>4 DEF Shape
<1>6. ASSUME NEW i \in 1..Len(ops), NEW j \in 1..Len(ops), ops[i].op \in Removing, ops[j].op \in Removing,
             Entry(ops[i]) = Entry(ops[j])
      PROVE  i = j
  <2>1. ops[i].op # "take" /\ ops[j].op # "take"
    BY <1>6 DEF Removing
  <2>2. i \in 1..Len(r) /\ j \in 1..Len(r) /\ removed[i] = Entry(ops[i]) /\ removed[j] = Entry(ops[j])
    BY <1>3, <2>1
  <2>. QED
    BY <1>6, <2>2
<1>7. \A i \in 1..Len(ops) :
        /\ ops[i].op \in Placed => ops[i].what.place \in Zesarux!Places /\ ops[i].what = Zesarux!AtPlace(ops[i].what.place)
        /\ ops[i].op # "take" => ops[i].id \in Numbers
        /\ ops[i].op \in Removing => Entry(ops[i]) \in list
  <2>1. \A i \in 1..Len(ops) : ops[i].op \in Removing => ops[i].op # "take"
    BY DEF Removing
  <2>. QED
    BY <1>3, <2>1
<1>8. \A i, j \in 1..Len(ops) :
        /\ ops[i].op \in Placed /\ ops[j].op \in Placed => ops[i].what.place[1] = ops[j].what.place[1]
        /\ ops[i].op \in Removing /\ ops[j].op \in Removing /\ Entry(ops[i]) = Entry(ops[j]) => i = j
  BY <1>3, <1>6
<1>9. EditOps(ops, list)
  BY <1>5, <1>7, <1>8 DEF EditOps
<1>10. FilesOf(ops) \subseteq {f}
  BY <1>3 DEF FilesOf
<1>. QED
  BY <1>1, <1>4, <1>9, <1>10


\* A request that begins.
RequestBegun(t, ops) == ops \in Seq(Ops) /\ Turned(t, ops, FALSE) /\ Todo(t) = <<>> /\ ~requests[t].waits

LEMMA StartBegins ==
  ASSUME RequestsInv, NEW t \in Zesarux!Requests, NEW ops \in Seq(Ops), Zesarux!Start(t, ops)
  PROVE  RequestBegun(t, ops)
BY StartTurns DEF RequestBegun, RequestsInv

LEMMA BegunKeeps ==
  ASSUME RequestsInv, NEW t \in Zesarux!Requests, NEW ops, RequestBegun(t, ops), BreakpointsStay, ZesaruxStays,
         OpsOk(t, ops, zesaruxList, restored'), restored => restored', restored' \in BOOLEAN, requestsOverlapped' \in BOOLEAN,
         fired' \in SUBSET (1..(MaxId + 1)), result' \in Results,
         \A u \in EditRequests \ {t} : t \in EditRequests => FilesOf(ops) \cap FilesOf(Todo(u)) = {}
  PROVE  RequestsInv'
<1>1. ZesaruxTypes'
  <2>1. /\ freeBreakpointIds' \in Seq(Numbers) /\ zesaruxList' \in SUBSET Entries /\ IsFiniteSet(zesaruxList')
        /\ zesaruxId' \in [Assertions -> 0..MaxId]
    BY DEF BreakpointsStay, RequestsInv, ZesaruxTypes
  <2>. QED
    BY <2>1, TypesTurned DEF RequestBegun, RequestsInv
<1>2. InTurn'
  BY InTurnTurned DEF RequestBegun, RequestsInv, ZesaruxStays
<1>3. OpsInv'
  <2>1. \A u \in EditRequests \ {t} : EditOps(Todo(u), zesaruxList')
    BY RequestsAre DEF RequestsInv, OpsInv, OpsOk, BreakpointsStay
  <2>2. OpsOk(t, ops, zesaruxList', restored')
    BY DEF BreakpointsStay
  <2>. QED
    BY <2>1, <2>2, OpsTurned DEF RequestBegun, RequestsInv
<1>. QED
  BY <1>1, <1>2, <1>3 DEF RequestsInv

EditBegun(t, ops) ==
  /\ RequestBegun(t, ops) /\ EditOps(ops, zesaruxList) /\ \A i \in 1..Len(ops) : ops[i].op \in {"remove", "take"}
  /\ \A u \in EditRequests \ {t} : FilesOf(ops) \cap FilesOf(Todo(u)) = {}
  /\ BreakpointsStay /\ ZesaruxStays /\ ResultStays /\ UNCHANGED <<restored, requestsOverlapped>>

\* The operations of one file, given its breakpoints one by one.
EditPlan(removed, added) ==
  [i \in DOMAIN removed |-> Removal(removed[i])] \o [i \in DOMAIN added |-> Addition(added[i])]

InFile(f, gone, come) ==
  /\ gone \subseteq zesaruxList /\ \A b \in gone : b.place[1] = f
  /\ come \subseteq Zesarux!Places /\ IsFiniteSet(come) /\ \A p \in come : p[1] = f

LEMMA EditPlanned ==
  ASSUME RequestsInv, NEW f, NEW gone, NEW come, InFile(f, gone, come),
         NEW ops, ops = EditPlan(Zesarux!SetToSeq(gone), Zesarux!SetToSeq(come))
  PROVE  /\ ops \in Seq(Ops) /\ EditOps(ops, zesaruxList) /\ FilesOf(ops) \subseteq {f}
         /\ \A i \in 1..Len(ops) : ops[i].op \in {"remove", "take"}
<1>1. PICK removed, added : removed = Zesarux!SetToSeq(gone) /\ added = Zesarux!SetToSeq(come)
  OBVIOUS
<1>2. PICK r, a : r = [i \in DOMAIN removed |-> Removal(removed[i])] /\ a = [i \in DOMAIN added |-> Addition(added[i])]
  OBVIOUS
<1>3. ops = r \o a
  BY <1>1, <1>2 DEF EditPlan
<1>4. IsFiniteSet(gone) /\ IsFiniteSet(come)
  BY FS_Subset DEF RequestsInv, ZesaruxTypes, InFile
<1>5. /\ Len(removed) \in Nat /\ DOMAIN removed = 1..Len(removed) /\ \A i \in 1..Len(removed) : removed[i] \in gone
      /\ \A i, j \in 1..Len(removed) : removed[i] = removed[j] => i = j
  BY <1>1, <1>4, OneByOne
<1>6. /\ Len(added) \in Nat /\ DOMAIN added = 1..Len(added) /\ \A i \in 1..Len(added) : added[i] \in come
  BY <1>1, <1>4, OneByOne
<1>7. zesaruxList \in SUBSET Entries /\ gone \subseteq Entries /\ come \subseteq Zesarux!Places
  BY DEF RequestsInv, ZesaruxTypes, InFile
<1>8. /\ r \in [1..Len(removed) -> Ops] /\ \A i \in 1..Len(removed) : r[i] = Removal(removed[i])
  BY <1>2, <1>5, <1>7, RemovalTyped
<1>9. /\ a \in [1..Len(added) -> Ops] /\ \A i \in 1..Len(added) : a[i] = Addition(added[i])
  BY <1>2, <1>6, <1>7, AdditionTyped
<1>10. r \in Seq(Ops) /\ Len(r) = Len(removed)
  BY <1>5, <1>8, FunctionIsSeq
<1>11. a \in Seq(Ops) /\ Len(a) = Len(added)
  BY <1>6, <1>9, FunctionIsSeq
<1>12. \A i \in 1..Len(r) : removed[i] \in zesaruxList /\ removed[i].place[1] = f /\ r[i] = Removal(removed[i])
  BY <1>5, <1>8, <1>10 DEF InFile
<1>13. \A i \in 1..Len(a) : added[i] \in Zesarux!Places /\ added[i][1] = f /\ a[i] = Addition(added[i])
  BY <1>6, <1>9, <1>11 DEF InFile
<1>14. \A i, j \in 1..Len(r) : removed[i] = removed[j] => i = j
  BY <1>5, <1>10
<1>15. Planned(zesaruxList, f, r, removed, a, added)
  BY <1>7, <1>10, <1>11, <1>12, <1>13, <1>14 DEF Planned
<1>16. PICK q : q = r \o a
  OBVIOUS
<1>17. /\ q \in Seq(Ops) /\ EditOps(q, zesaruxList) /\ FilesOf(q) \subseteq {f}
       /\ \A i \in 1..Len(q) : q[i].op \in {"remove", "take"}
  BY <1>15, <1>16, PlannedEdit
<1>. QED
  BY <1>3, <1>16, <1>17

\* What setBreakpoints plans.
LEMMA EditFound ==
  ASSUME NEW t, Zesarux!setBreakpoints(t)
  PROVE  \E f \in Files, given \in SUBSET {1, 2} :
           /\ ~\E u \in {"edit", "edit2"} :
                 Zesarux!Busy(u) /\ \E i \in DOMAIN requests[u].ops : requests[u].ops[i].what.place[1] = f
           /\ Zesarux!Start(t,
                EditPlan(Zesarux!SetToSeq({b \in {c \in zesaruxList : c.place[1] = f} : b.place[2] \notin given}),
                         Zesarux!SetToSeq({<<f, l>> : l \in given} \ {b.place : b \in {c \in zesaruxList : c.place[1] = f}})))
BY Zenon DEF Zesarux!setBreakpoints, EditPlan, Removal, Addition

LEMMA EditBegins ==
  ASSUME RequestsInv, NEW t \in EditRequests, Zesarux!setBreakpoints(t)
  PROVE  \E ops : EditBegun(t, ops)
<1>1. PICK f \in Files, given \in SUBSET {1, 2} :
           /\ ~\E u \in {"edit", "edit2"} :
                 Zesarux!Busy(u) /\ \E i \in DOMAIN requests[u].ops : requests[u].ops[i].what.place[1] = f
           /\ Zesarux!Start(t,
                EditPlan(Zesarux!SetToSeq({b \in {c \in zesaruxList : c.place[1] = f} : b.place[2] \notin given}),
                         Zesarux!SetToSeq({<<f, l>> : l \in given} \ {b.place : b \in {c \in zesaruxList : c.place[1] = f}})))
  BY Zenon, EditFound
<1>2. PICK gone, come :
        /\ gone = {b \in {c \in zesaruxList : c.place[1] = f} : b.place[2] \notin given}
        /\ come = {<<f, l>> : l \in given} \ {b.place : b \in {c \in zesaruxList : c.place[1] = f}}
  OBVIOUS
<1>3. PICK ops : ops = EditPlan(Zesarux!SetToSeq(gone), Zesarux!SetToSeq(come))
  OBVIOUS
<1>4. Zesarux!Start(t, ops)
  BY <1>1, <1>2, <1>3, Zenon
<1>5. come \subseteq Zesarux!Places /\ \A p \in come : p[1] = f
  <2>1. ASSUME NEW p \in come PROVE p \in Zesarux!Places /\ p[1] = f
    <3>1. PICK l \in given : p = <<f, l>>
      BY <1>2
    <3>. QED
      BY <3>1 DEF Zesarux!Places
  <2>. QED
    BY <2>1
<1>6. IsFiniteSet(come)
  <2>1. PICK S : S = {<<f, 1>>} \cup {<<f, 2>>}
    OBVIOUS
  <2>2. IsFiniteSet(S)
    BY <2>1, FS_Singleton, FS_Union
  <2>3. come \subseteq S
    BY <1>2, <2>1
  <2>. QED
    BY <2>2, <2>3, FS_Subset
<1>7. InFile(f, gone, come)
  BY <1>2, <1>5, <1>6 DEF InFile
<1>8. /\ ops \in Seq(Ops) /\ EditOps(ops, zesaruxList) /\ FilesOf(ops) \subseteq {f}
      /\ \A i \in 1..Len(ops) : ops[i].op \in {"remove", "take"}
  BY <1>3, <1>7, EditPlanned
<1>9. RequestBegun(t, ops)
  BY <1>4, <1>8, StartBegins, RequestsAre
<1>10. ASSUME NEW u \in EditRequests PROVE FilesOf(ops) \cap FilesOf(Todo(u)) = {}
  <2>1. Todo(u) \in Seq(Ops) /\ u \in {"edit", "edit2"}
    BY TodoTyped, RequestsAre DEF RequestsInv, EditRequests
  <2>2. f \notin FilesOf(Todo(u))
    <3>1. SUFFICES ASSUME f \in FilesOf(Todo(u)) PROVE FALSE
      OBVIOUS
    <3>2. PICK i \in 1..Len(Todo(u)) : Todo(u)[i].what.place[1] = f
      BY <3>1 DEF FilesOf
    <3>3. requests[u].ops # <<>> /\ i \in DOMAIN requests[u].ops /\ requests[u].ops[i].what.place[1] = f
      BY <2>1, <3>2 DEF Todo
    <3>. QED
      BY <1>1, <2>1, <3>3 DEF Zesarux!Busy
  <2>. QED
    BY <1>8, <2>2
<1>11. BreakpointsStay /\ ZesaruxStays /\ ResultStays /\ UNCHANGED <<restored, requestsOverlapped>>
  BY DEF Zesarux!setBreakpoints, Zesarux!brk, Zesarux!mach, BreakpointsStay, ZesaruxStays, ResultStays
<1>. QED
  BY <1>8, <1>9, <1>10, <1>11 DEF EditBegun

LEMMA EditBegunKeeps ==
  ASSUME RequestsInv, NEW t \in EditRequests, NEW ops, EditBegun(t, ops)
  PROVE  RequestsInv'
<1>1. OpsOk(t, ops, zesaruxList, restored')
  BY RequestsAre DEF EditBegun, OpsOk
<1>2. fired' \in SUBSET (1..(MaxId + 1)) /\ result' \in Results /\ restored' \in BOOLEAN /\ requestsOverlapped' \in BOOLEAN
      /\ restored' = restored
  BY DEF EditBegun, ResultStays, RequestsInv, ZesaruxTypes
<1>. QED
  BY <1>1, <1>2, BegunKeeps, RequestsAre DEF EditBegun

SwitchBegun(t, ops) ==
  /\ RequestBegun(t, ops) /\ SwitchOps(ops) /\ \A i \in 1..Len(ops) : ops[i].op \in {"enable", "disable"}
  /\ BreakpointsStay /\ ZesaruxStays /\ ResultStays /\ UNCHANGED restored
  /\ requestsOverlapped' = (requestsOverlapped \/ Todo("switch") # <<>> \/ Todo("switch2") # <<>>)

LEMMA SwitchPlanned ==
  ASSUME NEW name \in {"enable", "disable"}, NEW as, as = Zesarux!SetToSeq(Assertions),
         NEW ops, ops = [i \in DOMAIN as |-> Zesarux!Op(name, 0, Zesarux!AtPlace(<<as[i], 0>>))]
  PROVE  ops \in Seq(Ops) /\ SwitchOps(ops) /\ \A i \in 1..Len(ops) : ops[i].op \in {"enable", "disable"}
<1>1. IsFiniteSet(Assertions)
  BY ZesaruxAssumption
<1>2. Len(as) \in Nat /\ DOMAIN as = 1..Len(as) /\ \A i \in 1..Len(as) : as[i] \in Assertions
  BY <1>1, OneByOne
<1>3. ASSUME NEW a \in Assertions, NEW op, op = Zesarux!Op(name, 0, Zesarux!AtPlace(<<a, 0>>))
      PROVE  op \in Ops /\ op.op = name /\ op.what.place[1] = a
  <2>1. PICK what : what = Zesarux!AtPlace(<<a, 0>>)
    OBVIOUS
  <2>2. what \in Conditions /\ what.place[1] = a
    BY <2>1, ConditionsTyped
  <2>3. name \in OpNames /\ 0 \in 0..(MaxId + 1) /\ op = Zesarux!Op(name, 0, what)
    BY <1>3, <2>1, IdsTyped DEF OpNames
  <2>. QED
    BY <2>2, <2>3, OpTyped
<1>4. /\ ops \in [1..Len(as) -> Ops]
      /\ \A i \in 1..Len(as) : ops[i].op = name /\ ops[i].what.place[1] \in Assertions
  <2>1. ops = [i \in 1..Len(as) |-> Zesarux!Op(name, 0, Zesarux!AtPlace(<<as[i], 0>>))]
    BY <1>2
  <2>2. ASSUME NEW i \in 1..Len(as) PROVE ops[i] \in Ops /\ ops[i].op = name /\ ops[i].what.place[1] \in Assertions
    <3>1. ops[i] = Zesarux!Op(name, 0, Zesarux!AtPlace(<<as[i], 0>>)) /\ as[i] \in Assertions
      BY <1>2, <2>1
    <3>. QED
      BY <1>3, <3>1
  <2>. QED
    BY <2>1, <2>2
<1>5. ops \in Seq(Ops) /\ Len(ops) = Len(as)
  BY <1>2, <1>4, FunctionIsSeq
<1>6. \A i \in 1..Len(ops) : ops[i].op \in {"enable", "disable"} /\ ops[i].what.place[1] \in Assertions
  BY <1>4, <1>5
<1>7. Shape(ops, "numbered", "unnumbered", {"enable", "disable"})
  BY <1>6 DEF Shape
<1>8. SwitchOps(ops)
  BY <1>6, <1>7 DEF SwitchOps
<1>. QED
  BY <1>5, <1>6, <1>8

LEMMA SwitchBegins ==
  ASSUME RequestsInv, NEW t \in SwitchRequests, NEW enable \in BOOLEAN, Zesarux!enableAssertionBreakpoints(t, enable)
  PROVE  \E ops : SwitchBegun(t, ops)
<1>1. PICK name : name = IF enable THEN "enable" ELSE "disable"
  OBVIOUS
<1>2. name \in {"enable", "disable"}
  BY <1>1
<1>3. PICK as : as = Zesarux!SetToSeq(Assertions)
  OBVIOUS
<1>4. PICK ops : ops = [i \in DOMAIN as |-> Zesarux!Op(name, 0, Zesarux!AtPlace(<<as[i], 0>>))]
  OBVIOUS
<1>5. Zesarux!Start(t, ops)
  BY <1>1, <1>3, <1>4, Zenon DEF Zesarux!enableAssertionBreakpoints
<1>6. ops \in Seq(Ops) /\ SwitchOps(ops) /\ \A i \in 1..Len(ops) : ops[i].op \in {"enable", "disable"}
  BY <1>2, <1>3, <1>4, SwitchPlanned
<1>7. RequestBegun(t, ops)
  BY <1>5, <1>6, StartBegins, RequestsAre
<1>8. BreakpointsStay /\ ZesaruxStays /\ ResultStays /\ UNCHANGED restored
  BY DEF Zesarux!enableAssertionBreakpoints, Zesarux!brk, Zesarux!mach, BreakpointsStay, ZesaruxStays, ResultStays
<1>9. requestsOverlapped' = (requestsOverlapped \/ Todo("switch") # <<>> \/ Todo("switch2") # <<>>)
  BY Zenon DEF Zesarux!enableAssertionBreakpoints, Zesarux!Busy, Todo
<1>. QED
  BY <1>6, <1>7, <1>8, <1>9, Zenon DEF SwitchBegun

LEMMA SwitchBegunKeeps ==
  ASSUME RequestsInv, NEW t \in SwitchRequests, NEW ops, SwitchBegun(t, ops)
  PROVE  RequestsInv'
<1>1. OpsOk(t, ops, zesaruxList, restored')
  BY RequestsAre DEF SwitchBegun, OpsOk
<1>2. requestsOverlapped' \in BOOLEAN
  BY Zenon DEF SwitchBegun
<1>3. /\ fired' \in SUBSET (1..(MaxId + 1)) /\ result' \in Results /\ restored' \in BOOLEAN
      /\ (restored => restored') /\ RequestBegun(t, ops) /\ BreakpointsStay /\ ZesaruxStays
  BY DEF SwitchBegun, ResultStays, RequestsInv, ZesaruxTypes
<1>4. t \notin EditRequests /\ t \in Zesarux!Requests
  BY RequestsAre
<1>. QED
  BY <1>1, <1>2, <1>3, <1>4, BegunKeeps

-------------------------------------------------------------------------------
(* Runs and steps that begin.                                               *)

\* What is left of a run with a breakpoint of its own, counted from the end.
StepName(k) ==
  CASE k = 7 -> "get" [] k = 6 -> "set-breakpoint" [] k = 5 -> "enable-breakpoint" [] k = 4 -> "run"
    [] k = 3 -> "get" [] k = 2 -> "disable-breakpoint" [] k = 1 -> "resolve"

StepOps(ops) ==
  /\ Len(ops) <= 7 /\ \A i \in 1..Len(ops) : ops[i].op = StepName(Len(ops) - i + 1)
  /\ \A i \in 1..Len(ops) : ops[i].op \in {"set-breakpoint", "enable-breakpoint", "disable-breakpoint"} => ops[i].id = MaxId + 1
PlainOps(ops) == \A i \in 1..Len(ops) : ops[i].op \in {"get", "run", "cpu-step", "resolve"}

RunBegun(kind, ops) ==
  /\ RequestBegun("run", ops) /\ BreakpointsStay /\ ZesaruxStays /\ UNCHANGED <<restored, requestsOverlapped>>
  /\ fired' = {} /\ result' = [kind |-> kind, from |-> level, reason |-> {}, paused |-> FALSE]
  /\ kind \in {"continue", "over", "one", "out"}
  /\ (kind = "over" \/ (kind = "out" /\ level # 0)) => StepOps(ops) /\ Len(ops) = 7
  /\ ~(kind = "over" \/ (kind = "out" /\ level # 0)) => PlainOps(ops)

LEMMA PlainTyped ==
  ASSUME NEW name \in {"get", "run", "cpu-step", "resolve"}, NEW op, op = Zesarux!Op(name, 0, Zesarux!None)
  PROVE  op \in Ops /\ op.op = name
<1>1. PICK what : what = Zesarux!None
  OBVIOUS
<1>2. what \in Conditions /\ name \in OpNames /\ 0 \in 0..(MaxId + 1) /\ op = Zesarux!Op(name, 0, what)
  BY <1>1, ConditionsTyped, IdsTyped DEF OpNames
<1>. QED
  BY <1>2, OpTyped

LEMMA StepTyped ==
  ASSUME NEW name \in {"set-breakpoint", "enable-breakpoint", "disable-breakpoint"}, NEW what \in Conditions,
         NEW op, op = Zesarux!Op(name, Zesarux!StepId, what)
  PROVE  op \in Ops /\ op.op = name /\ op.id = MaxId + 1
<1>1. PICK id : id = Zesarux!StepId
  OBVIOUS
<1>2. id = MaxId + 1 /\ id \in 0..(MaxId + 1) /\ name \in OpNames /\ op = Zesarux!Op(name, id, what)
  BY <1>1, IdsTyped DEF OpNames
<1>. QED
  BY <1>2, OpTyped

LEMMA OneFirst ==
  ASSUME NEW S, NEW a \in S, NEW s \in Seq(S), NEW q, q = <<a>> \o s
  PROVE  /\ q \in Seq(S) /\ Len(q) = Len(s) + 1 /\ Len(s) \in Nat /\ q[1] = a
         /\ \A i \in 2..Len(q) : i - 1 \in 1..Len(s) /\ q[i] = s[i - 1]
<1>1. PICK g : g = <<a>>
  OBVIOUS
<1>2. g \in Seq(S) /\ Len(g) = 1 /\ g[1] = a
  BY <1>1
<1>3. /\ q \in Seq(S) /\ Len(q) = 1 + Len(s) /\ Len(s) \in Nat
      /\ \A i \in 1..(1 + Len(s)) : q[i] = IF i <= 1 THEN g[i] ELSE s[i - 1]
  BY <1>1, <1>2, ConcatProperties
<1>4. q[1] = a
  <2>1. 1 \in 1..(1 + Len(s))
    BY <1>3
  <2>. QED
    BY <1>2, <1>3, <2>1
<1>5. ASSUME NEW i \in 2..Len(q) PROVE i - 1 \in 1..Len(s) /\ q[i] = s[i - 1]
  <2>1. i \in 1..(1 + Len(s)) /\ ~(i <= 1) /\ i - 1 \in 1..Len(s)
    BY <1>3
  <2>. QED
    BY <1>3, <2>1
<1>. QED
  BY <1>3, <1>4, <1>5

LEMMA StepPlanned ==
  ASSUME NEW cond \in Conditions
  PROVE  \E ops \in Seq(Ops) : ops = <<Zesarux!Get>> \o Zesarux!WithStepBreakpoint(cond) /\ Len(ops) = 7 /\ StepOps(ops)
<1>1. PICK get, set, enable, run, disable, resolved :
        /\ get = Zesarux!Op("get", 0, Zesarux!None) /\ set = Zesarux!Op("set-breakpoint", Zesarux!StepId, cond)
        /\ enable = Zesarux!Op("enable-breakpoint", Zesarux!StepId, Zesarux!None)
        /\ run = Zesarux!Op("run", 0, Zesarux!None)
        /\ disable = Zesarux!Op("disable-breakpoint", Zesarux!StepId, Zesarux!None)
        /\ resolved = Zesarux!Op("resolve", 0, Zesarux!None)
  OBVIOUS
<1>2. get \in Ops /\ get.op = "get" /\ run \in Ops /\ run.op = "run" /\ resolved \in Ops /\ resolved.op = "resolve"
  BY <1>1, PlainTyped
<1>3. Zesarux!None \in Conditions
  BY ConditionsTyped
<1>4. set \in Ops /\ set.op = "set-breakpoint" /\ set.id = MaxId + 1
  BY <1>1, StepTyped
<1>5. enable \in Ops /\ enable.op = "enable-breakpoint" /\ enable.id = MaxId + 1
  BY <1>1, <1>3, StepTyped
<1>6. disable \in Ops /\ disable.op = "disable-breakpoint" /\ disable.id = MaxId + 1
  BY <1>1, <1>3, StepTyped
<1>7. PICK rest : rest = <<set, enable, run, get, disable, resolved>>
  OBVIOUS
<1>8. PICK ops : ops = <<get>> \o rest
  OBVIOUS
<1>9. /\ rest \in Seq(Ops) /\ Len(rest) = 6 /\ rest[1] = set /\ rest[2] = enable /\ rest[3] = run /\ rest[4] = get
      /\ rest[5] = disable /\ rest[6] = resolved
  BY <1>2, <1>4, <1>5, <1>6, <1>7
<1>10. /\ ops \in Seq(Ops) /\ Len(ops) = 7 /\ ops[1] = get
       /\ \A i \in 2..7 : i - 1 \in 1..6 /\ ops[i] = rest[i - 1]
  <2>1. /\ ops \in Seq(Ops) /\ Len(ops) = Len(rest) + 1 /\ ops[1] = get
        /\ \A i \in 2..Len(ops) : i - 1 \in 1..Len(rest) /\ ops[i] = rest[i - 1]
    <3>1. get \in Ops /\ rest \in Seq(Ops)
      BY <1>2, <1>9
    <3>. QED
      BY <1>8, <3>1, OneFirst
  <2>2. Len(ops) = 7 /\ Len(rest) = 6
    BY <1>9, <2>1
  <2>. QED
    BY <2>1, <2>2
<1>11. /\ ops[2] = set /\ ops[3] = enable /\ ops[4] = run /\ ops[5] = get /\ ops[6] = disable /\ ops[7] = resolved
  <2>1. /\ 2 \in 2..7 /\ 3 \in 2..7 /\ 4 \in 2..7 /\ 5 \in 2..7 /\ 6 \in 2..7 /\ 7 \in 2..7
        /\ 2 - 1 = 1 /\ 3 - 1 = 2 /\ 4 - 1 = 3 /\ 5 - 1 = 4 /\ 6 - 1 = 5 /\ 7 - 1 = 6
    OBVIOUS
  <2>. QED
    BY <1>9, <1>10, <2>1
<1>12. /\ StepName(7) = "get" /\ StepName(6) = "set-breakpoint" /\ StepName(5) = "enable-breakpoint" /\ StepName(4) = "run"
       /\ StepName(3) = "get" /\ StepName(2) = "disable-breakpoint" /\ StepName(1) = "resolve"
  BY DEF StepName
<1>13. ASSUME NEW i \in 1..7
       PROVE  /\ ops[i].op = StepName(7 - i + 1)
              /\ ops[i].op \in {"set-breakpoint", "enable-breakpoint", "disable-breakpoint"} => ops[i].id = MaxId + 1
  <2>1. i = 1 \/ i = 2 \/ i = 3 \/ i = 4 \/ i = 5 \/ i = 6 \/ i = 7
    OBVIOUS
  <2>2. 7 - 1 + 1 = 7 /\ 7 - 2 + 1 = 6 /\ 7 - 3 + 1 = 5 /\ 7 - 4 + 1 = 4 /\ 7 - 5 + 1 = 3 /\ 7 - 6 + 1 = 2 /\ 7 - 7 + 1 = 1
    OBVIOUS
  <2>. QED
    BY <1>2, <1>4, <1>5, <1>6, <1>10, <1>11, <1>12, <2>1, <2>2
<1>14. StepOps(ops)
  <2>1. \A i \in 1..Len(ops) : i \in 1..7 /\ Len(ops) - i + 1 = 7 - i + 1
    BY <1>10
  <2>2. Len(ops) <= 7
    BY <1>10
  <2>. QED
    BY <1>13, <2>1, <2>2 DEF StepOps
<1>15. ops = <<Zesarux!Get>> \o Zesarux!WithStepBreakpoint(cond)
  BY <1>1, <1>7, <1>8 DEF Zesarux!WithStepBreakpoint, Zesarux!Get
<1>. QED
  BY <1>10, <1>14, <1>15

LEMMA SteppingBegins ==
  ASSUME RequestsInv, NEW kind \in {"continue", "over", "one", "out"}, NEW ops \in Seq(Ops), Zesarux!Stepping(kind, ops),
         (kind = "over" \/ (kind = "out" /\ level # 0)) => StepOps(ops) /\ Len(ops) = 7,
         ~(kind = "over" \/ (kind = "out" /\ level # 0)) => PlainOps(ops)
  PROVE  RunBegun(kind, ops)
<1>1. RequestBegun("run", ops)
  BY StartBegins, RequestsAre DEF Zesarux!Stepping
<1>2. /\ BreakpointsStay /\ ZesaruxStays /\ UNCHANGED <<restored, requestsOverlapped>>
      /\ fired' = {} /\ result' = [kind |-> kind, from |-> level, reason |-> {}, paused |-> FALSE]
  BY DEF Zesarux!Stepping, Zesarux!brk, BreakpointsStay, ZesaruxStays
<1>. QED
  BY <1>1, <1>2 DEF RunBegun

LEMMA RunBegins ==
  ASSUME RequestsInv, \/ Zesarux!continue \/ Zesarux!stepOver \/ Zesarux!stepInto \/ Zesarux!stepOut
  PROVE  \E kind, ops : RunBegun(kind, ops)
<1>1. PICK get, run, step, resolved :
        /\ get = Zesarux!Op("get", 0, Zesarux!None) /\ run = Zesarux!Op("run", 0, Zesarux!None)
        /\ step = Zesarux!Op("cpu-step", 0, Zesarux!None) /\ resolved = Zesarux!Op("resolve", 0, Zesarux!None)
  OBVIOUS
<1>2. /\ get \in Ops /\ get.op = "get" /\ run \in Ops /\ run.op = "run"
      /\ step \in Ops /\ step.op = "cpu-step" /\ resolved \in Ops /\ resolved.op = "resolve"
  BY <1>1, PlainTyped
<1>3. level \in Nat
  BY DEF RequestsInv, ZesaruxTypes
<1>4. CASE Zesarux!continue
  <2>1. PICK ops : ops = <<run, get, resolved>>
    OBVIOUS
  <2>2. Zesarux!Stepping("continue", ops)
    BY <1>1, <1>4, <2>1 DEF Zesarux!continue, Zesarux!Get
  <2>3. ops \in Seq(Ops) /\ PlainOps(ops)
    BY <1>2, <2>1 DEF PlainOps
  <2>. QED
    BY <2>2, <2>3, SteppingBegins
<1>5. CASE Zesarux!stepInto
  <2>1. PICK ops : ops = <<step, get, resolved>>
    OBVIOUS
  <2>2. Zesarux!Stepping("one", ops)
    BY <1>1, <1>5, <2>1 DEF Zesarux!stepInto, Zesarux!Get
  <2>3. ops \in Seq(Ops) /\ PlainOps(ops)
    BY <1>2, <2>1 DEF PlainOps
  <2>. QED
    BY <2>2, <2>3, SteppingBegins
<1>6. CASE Zesarux!stepOver
  <2>1. CASE Zesarux!Stepping("over", <<Zesarux!Get>> \o Zesarux!WithStepBreakpoint(Zesarux!AtLevel(level)))
    <3>1. PICK cond : cond = Zesarux!AtLevel(level)
      OBVIOUS
    <3>2. cond \in Conditions
      BY <1>3, <3>1, ConditionsTyped
    <3>3. PICK ops \in Seq(Ops) : ops = <<Zesarux!Get>> \o Zesarux!WithStepBreakpoint(cond) /\ Len(ops) = 7 /\ StepOps(ops)
      BY <3>2, StepPlanned
    <3>4. ops \in Seq(Ops) /\ Len(ops) = 7 /\ StepOps(ops)
      BY <3>3
    <3>5. Zesarux!Stepping("over", ops)
      BY <2>1, <3>1, <3>3
    <3>. QED
      BY <3>4, <3>5, SteppingBegins
  <2>2. CASE Zesarux!Stepping("one", <<Zesarux!Get, Zesarux!Op("cpu-step", 0, Zesarux!None), Zesarux!Get,
                                       Zesarux!Op("resolve", 0, Zesarux!None)>>)
    <3>1. PICK ops : ops = <<get, step, get, resolved>>
      OBVIOUS
    <3>2. Zesarux!Stepping("one", ops)
      BY <1>1, <2>2, <3>1 DEF Zesarux!Get
    <3>3. ops \in Seq(Ops) /\ PlainOps(ops)
      BY <1>2, <3>1 DEF PlainOps
    <3>. QED
      BY <3>2, <3>3, SteppingBegins
  <2>. QED
    BY <1>6, <2>1, <2>2, Zenon DEF Zesarux!stepOver
<1>7. CASE Zesarux!stepOut
  <2>1. CASE level = 0
    <3>1. PICK one : one = <<resolved>>
      OBVIOUS
    <3>2. PICK ops : ops = <<get>> \o one
      OBVIOUS
    <3>3. Zesarux!Stepping("out", ops)
      BY <1>1, <1>7, <2>1, <3>1, <3>2 DEF Zesarux!stepOut, Zesarux!Get
    <3>4. one \in Seq(Ops) /\ Len(one) = 1 /\ one[1] = resolved
      BY <1>2, <3>1
    <3>5. ops \in Seq(Ops) /\ PlainOps(ops)
      <4>1. /\ ops \in Seq(Ops) /\ Len(ops) = 2 /\ ops[1] = get
            /\ \A i \in 2..Len(ops) : i - 1 \in 1..Len(one) /\ ops[i] = one[i - 1]
        BY <1>2, <3>2, <3>4, OneFirst
      <4>2. 2 \in 2..Len(ops) /\ 2 - 1 = 1
        BY <4>1
      <4>3. ops[2] = resolved
        BY <3>4, <4>1, <4>2
      <4>. QED
        BY <1>2, <4>1, <4>3 DEF PlainOps
    <3>. QED
      BY <2>1, <3>3, <3>5, SteppingBegins
  <2>2. CASE level # 0
    <3>1. PICK cond : cond = Zesarux!ReturnTo(level - 1)
      OBVIOUS
    <3>2. cond \in Conditions
      <4>1. level - 1 \in Int
        BY <1>3
      <4>. QED
        BY <3>1, <4>1, ConditionsTyped
    <3>3. PICK ops \in Seq(Ops) : ops = <<Zesarux!Get>> \o Zesarux!WithStepBreakpoint(cond) /\ Len(ops) = 7 /\ StepOps(ops)
      BY <3>2, StepPlanned
    <3>4. ops \in Seq(Ops) /\ Len(ops) = 7 /\ StepOps(ops)
      BY <3>3
    <3>5. Zesarux!Stepping("out", ops)
      BY <1>7, <2>2, <3>1, <3>3 DEF Zesarux!stepOut
    <3>. QED
      BY <2>2, <3>4, <3>5, SteppingBegins
  <2>. QED
    BY <2>1, <2>2
<1>. QED
  BY <1>4, <1>5, <1>6, <1>7

LEMMA RunBegunKeeps ==
  ASSUME RequestsInv, NEW kind, NEW ops, RunBegun(kind, ops)
  PROVE  RequestsInv'
<1>1. level \in Nat /\ ops \in Seq(Ops)
  BY DEF RequestsInv, ZesaruxTypes, RunBegun, RequestBegun
<1>2. result' \in Results /\ fired' \in SUBSET (1..(MaxId + 1))
  BY <1>1 DEF RunBegun, Results
<1>3. \A i \in 1..Len(ops) :
        /\ ops[i].op \in RunNames
        /\ ops[i].op \in {"set-breakpoint", "enable-breakpoint", "disable-breakpoint"} => ops[i].id = MaxId + 1
  <2>1. CASE StepOps(ops)
    <3>1. \A k \in 1..7 : StepName(k) \in RunNames
      BY DEF StepName, RunNames
    <3>2. \A i \in 1..Len(ops) : Len(ops) - i + 1 \in 1..7
      BY <1>1, <2>1 DEF StepOps
    <3>. QED
      BY <2>1, <3>1, <3>2 DEF StepOps
  <2>2. CASE PlainOps(ops)
    BY <2>2 DEF PlainOps, RunNames
  <2>. QED
    BY <2>1, <2>2 DEF RunBegun
<1>4. OpsOk("run", ops, zesaruxList, restored')
  BY <1>3, RequestsAre DEF OpsOk
<1>5. /\ restored' \in BOOLEAN /\ requestsOverlapped' \in BOOLEAN /\ (restored => restored')
      /\ RequestBegun("run", ops) /\ BreakpointsStay /\ ZesaruxStays
  BY DEF RunBegun, RequestsInv, ZesaruxTypes
<1>6. "run" \in Zesarux!Requests /\ "run" \notin EditRequests
  BY RequestsAre
<1>. QED
  BY <1>2, <1>4, <1>5, <1>6, BegunKeeps

RestoreBegun(ops) ==
  /\ RequestBegun("restore", ops) /\ BreakpointsStay /\ ZesaruxStays /\ ResultStays /\ restored' = TRUE
  /\ UNCHANGED requestsOverlapped
  /\ \A i \in 1..Len(ops) : ops[i].op \in {"clear", "renumber", "get"}

LEMMA RestoreBegins ==
  ASSUME RequestsInv, Zesarux!stateRestore
  PROVE  \E ops : RestoreBegun(ops)
<1>1. PICK none : none = Zesarux!None
  OBVIOUS
<1>2. PICK clear, renumber, get :
        clear = Zesarux!Op("clear", 0, none) /\ renumber = Zesarux!Op("renumber", 0, none) /\ get = Zesarux!Op("get", 0, none)
  OBVIOUS
<1>3. none \in Conditions /\ 0 \in 0..(MaxId + 1) /\ "clear" \in OpNames /\ "renumber" \in OpNames /\ "get" \in OpNames
  BY <1>1, ConditionsTyped, IdsTyped DEF OpNames
<1>4. /\ clear \in Ops /\ clear.op = "clear" /\ renumber \in Ops /\ renumber.op = "renumber"
      /\ get \in Ops /\ get.op = "get"
  BY <1>2, <1>3, OpTyped
<1>5. PICK ops : ops = <<clear, renumber, get>>
  OBVIOUS
<1>6. Zesarux!Start("restore", ops)
  BY <1>1, <1>2, <1>5 DEF Zesarux!stateRestore, Zesarux!Get
<1>7. ops \in Seq(Ops) /\ \A i \in 1..Len(ops) : ops[i].op \in {"clear", "renumber", "get"}
  BY <1>4, <1>5
<1>8. RequestBegun("restore", ops)
  BY <1>6, <1>7, StartBegins, RequestsAre
<1>9. /\ BreakpointsStay /\ ZesaruxStays /\ ResultStays /\ restored' = TRUE /\ UNCHANGED requestsOverlapped
  BY DEF Zesarux!stateRestore, Zesarux!brk, Zesarux!mach, BreakpointsStay, ZesaruxStays, ResultStays
<1>. QED
  BY <1>7, <1>8, <1>9 DEF RestoreBegun

LEMMA RestoreBegunKeeps ==
  ASSUME RequestsInv, NEW ops, RestoreBegun(ops)
  PROVE  RequestsInv'
<1>1. OpsOk("restore", ops, zesaruxList, restored')
  BY RequestsAre DEF OpsOk, RestoreBegun
<1>2. /\ fired' \in SUBSET (1..(MaxId + 1)) /\ result' \in Results /\ restored' \in BOOLEAN /\ (restored => restored')
      /\ requestsOverlapped' \in BOOLEAN /\ RequestBegun("restore", ops) /\ BreakpointsStay /\ ZesaruxStays
  BY DEF RestoreBegun, ResultStays, RequestsInv, ZesaruxTypes
<1>3. "restore" \in Zesarux!Requests /\ "restore" \notin EditRequests
  BY RequestsAre
<1>. QED
  BY <1>1, <1>2, <1>3, BegunKeeps

-------------------------------------------------------------------------------
(* What a request does between two answers.                                 *)

LEMMA ThreeOf ==
  ASSUME NEW S, NEW a \in S, NEW b \in S, NEW c \in S, NEW g, g = <<a, b>> \o <<c>>
  PROVE  g = <<a, b, c>>
<1>1. PICK x, y, z : x = <<a, b>> /\ y = <<c>> /\ z = <<a, b, c>>
  OBVIOUS
<1>2. x \in Seq(S) /\ Len(x) = 2 /\ y \in Seq(S) /\ Len(y) = 1 /\ z \in Seq(S) /\ Len(z) = 3
  BY <1>1
<1>3. x[1] = a /\ x[2] = b /\ y[1] = c /\ z[1] = a /\ z[2] = b /\ z[3] = c
  BY <1>1
<1>4. g \in Seq(S) /\ Len(g) = 3 /\ \A i \in 1..3 : g[i] = IF i <= 2 THEN x[i] ELSE y[i - 2]
  BY <1>1, <1>2, ConcatProperties
<1>5. \A i \in 1..3 : g[i] = z[i]
  <2>1. \A i \in 1..3 : i = 1 \/ i = 2 \/ i = 3
    OBVIOUS
  <2>2. 1 \in 1..3 /\ 2 \in 1..3 /\ 3 \in 1..3 /\ 3 - 2 = 1
    OBVIOUS
  <2>. QED
    BY <1>3, <1>4, <2>1, <2>2
<1>. QED
  BY <1>1, <1>2, <1>4, <1>5, SeqEqual

LEMMA FrontOf ==
  ASSUME NEW S, NEW s \in Seq(S), s # <<>>
  PROVE  /\ Zesarux!Last(s) = s[Len(s)] /\ Zesarux!Last(s) \in S
         /\ Zesarux!Front(s) \in Seq(S) /\ Len(Zesarux!Front(s)) = Len(s) - 1 /\ Len(s) \in Nat /\ Len(s) >= 1
         /\ \A i \in 1..(Len(s) - 1) : Zesarux!Front(s)[i] = s[i]
<1>1. Len(s) \in Nat /\ Len(s) >= 1 /\ Len(s) \in 1..Len(s)
  BY NoElements
<1>2. Zesarux!Last(s) = s[Len(s)] /\ s[Len(s)] \in S
  BY <1>1 DEF Zesarux!Last
<1>3. PICK n \in Nat : n = Len(s) - 1
  BY <1>1
<1>4. Zesarux!Front(s) = SubSeq(s, 1, n)
  BY <1>3 DEF Zesarux!Front
<1>5. SubSeq(s, 1, n) \in Seq(S) /\ Len(SubSeq(s, 1, n)) = n /\ \A i \in 1..n : SubSeq(s, 1, n)[i] = s[i]
  BY <1>1, <1>3
<1>. QED
  BY <1>1, <1>2, <1>3, <1>4, <1>5

Acts(t, names) == Todo(t) # <<>> /\ ~requests[t].waits /\ Todo(t)[1].op \in names
About(t) == Todo(t)[1].what.place[1]
StepDone(t) == Turned(t, Tail(Todo(t)), FALSE)

Group(t, a, b, c, id) ==
  /\ a.id = id /\ b.id = id /\ c.id = id /\ c.what = Todo(t)[1].what
  /\ Turned(t, <<a, b, c>> \o Tail(Todo(t)), FALSE)

NothingDone(t) == Acts(t, {"take", "enable", "disable"}) /\ StepDone(t) /\ BreakpointsStay

NumberTaken(t) ==
  \E a, b, c \in Ops, id \in Numbers :
    /\ Group(t, a, b, c, id) /\ a.op = "set-breakpoint" /\ b.op = "enable-breakpoint" /\ a.what = c.what
    /\ \/ Acts(t, {"take"}) /\ c.op = "listed"
       \/ Acts(t, {"enable"}) /\ c.op = "numbered" /\ zesaruxId[About(t)] = 0
    /\ freeBreakpointIds # <<>> /\ id = freeBreakpointIds[Len(freeBreakpointIds)]
    /\ freeBreakpointIds' \in Seq(Numbers) /\ Len(freeBreakpointIds') = Len(freeBreakpointIds) - 1
    /\ \A i \in 1..(Len(freeBreakpointIds) - 1) : freeBreakpointIds'[i] = freeBreakpointIds[i]
    /\ UNCHANGED <<zesaruxList, zesaruxId>>

RemovalBegun(t) ==
  \E a, b, c \in Ops, id \in Numbers :
    /\ Group(t, a, b, c, id) /\ a.op = "disable-breakpoint" /\ b.op = "free"
    /\ \/ Acts(t, {"remove"}) /\ c.op = "unlisted" /\ id = Todo(t)[1].id
       \/ Acts(t, {"disable"}) /\ c.op = "unnumbered" /\ id = zesaruxId[About(t)]
    /\ BreakpointsStay

EntryListed(t) ==
  /\ Acts(t, {"listed"}) /\ StepDone(t) /\ zesaruxList' = zesaruxList \cup {Entry(Todo(t)[1])}
  /\ UNCHANGED <<freeBreakpointIds, zesaruxId>>
EntryUnlisted(t) ==
  /\ Acts(t, {"unlisted"}) /\ StepDone(t) /\ zesaruxList' = zesaruxList \ {Entry(Todo(t)[1])}
  /\ UNCHANGED <<freeBreakpointIds, zesaruxId>>
NumberFreed(t) ==
  /\ Acts(t, {"free"}) /\ StepDone(t) /\ freeBreakpointIds' = Append(freeBreakpointIds, Todo(t)[1].id)
  /\ UNCHANGED <<zesaruxList, zesaruxId>>
AssertionNumbered(t) ==
  /\ Acts(t, {"numbered"}) /\ StepDone(t) /\ zesaruxId' = [zesaruxId EXCEPT ![About(t)] = Todo(t)[1].id]
  /\ UNCHANGED <<freeBreakpointIds, zesaruxList>>
AssertionUnnumbered(t) ==
  /\ Acts(t, {"unnumbered"}) /\ StepDone(t) /\ zesaruxId' = [zesaruxId EXCEPT ![About(t)] = 0]
  /\ UNCHANGED <<freeBreakpointIds, zesaruxList>>
NumbersReset(t) ==
  /\ Acts(t, {"renumber"}) /\ StepDone(t) /\ freeBreakpointIds' \in Seq(Numbers)
  /\ UNCHANGED <<zesaruxList, zesaruxId>>

LocalStays == ZesaruxStays /\ ResultStays /\ UNCHANGED <<restored, requestsOverlapped>>
LocalStep(t) ==
  \/ NothingDone(t) \/ NumberTaken(t) \/ RemovalBegun(t) \/ EntryListed(t) \/ EntryUnlisted(t) \/ NumberFreed(t)
  \/ AssertionNumbered(t) \/ AssertionUnnumbered(t) \/ NumbersReset(t)

LEMMA HeldHead ==
  ASSUME RequestsInv, NEW t \in Zesarux!Requests, NEW name, Zesarux!Holds(t, name)
  PROVE  Acts(t, {name}) /\ Zesarux!Next1(t) = Todo(t)[1] /\ Todo(t)[1] \in Ops /\ Todo(t)[1].op = name
         /\ Todo(t) # <<>> /\ ~requests[t].waits
<1>1. Todo(t) # <<>> /\ ~requests[t].waits /\ Zesarux!Next1(t).op = name
  BY DEF Zesarux!Holds, Zesarux!Busy, Todo
<1>2. PICK op : op = Todo(t)[1]
  OBVIOUS
<1>3. op \in Ops /\ Zesarux!Next1(t) = op
  BY <1>1, <1>2, HeadsAre DEF RequestsInv
<1>. QED
  BY <1>1, <1>2, <1>3 DEF Acts

LEMMA StepIsDone ==
  ASSUME RequestsInv, NEW t \in Zesarux!Requests, Todo(t) # <<>>, ~requests[t].waits, Zesarux!Do(t, <<>>)
  PROVE  StepDone(t)
<1>1. Turned(t, Tail(Todo(t)), requests[t].waits)
  BY DoneTurns DEF RequestsInv
<1>2. requests[t].waits = FALSE
  BY TodoTyped DEF RequestsInv
<1>. QED
  BY <1>1, <1>2 DEF StepDone

\* Three operations in place of one.
LEMMA GroupDone ==
  ASSUME RequestsInv, NEW t \in Zesarux!Requests, Todo(t) # <<>>, ~requests[t].waits,
         NEW a \in Ops, NEW b \in Ops, NEW c \in Ops, NEW id, a.id = id, b.id = id, c.id = id, c.what = Todo(t)[1].what,
         NEW g, g = <<a, b, c>>, Zesarux!Do(t, g)
  PROVE  Group(t, a, b, c, id)
<1>1. g \in Seq(Ops)
  OBVIOUS
<1>2. Turned(t, g \o Tail(Todo(t)), requests[t].waits)
  BY <1>1, DoTurns DEF RequestsInv
<1>3. requests[t].waits = FALSE
  BY TodoTyped DEF RequestsInv
<1>. QED
  BY <1>2, <1>3 DEF Group

LEMMA TakingDoes ==
  ASSUME RequestsInv, NEW t \in Zesarux!Requests, NEW name, NEW then,
         \/ name = "take" /\ then = "listed"
         \/ name = "enable" /\ then = "numbered" /\ zesaruxId[About(t)] = 0,
         Zesarux!Holds(t, name), Zesarux!setBreakpointZesarux(t, then), UNCHANGED <<zesaruxList, zesaruxId>>
  PROVE  NothingDone(t) \/ NumberTaken(t)
<1>1. /\ Acts(t, {name}) /\ Zesarux!Next1(t) = Todo(t)[1] /\ Todo(t)[1] \in Ops /\ Todo(t) # <<>> /\ ~requests[t].waits
  BY HeldHead
<1>2. CASE freeBreakpointIds = <<>>
  <2>1. Zesarux!Do(t, <<>>) /\ UNCHANGED freeBreakpointIds
    BY <1>2 DEF Zesarux!setBreakpointZesarux
  <2>2. StepDone(t)
    BY <1>1, <2>1, StepIsDone
  <2>3. BreakpointsStay /\ Acts(t, {"take", "enable", "disable"})
    BY <1>1, <2>1 DEF BreakpointsStay, Acts
  <2>. QED
    BY <2>2, <2>3 DEF NothingDone
<1>3. CASE freeBreakpointIds # <<>>
  <2>1. freeBreakpointIds \in Seq(Numbers)
    BY DEF RequestsInv, ZesaruxTypes
  <2>2. PICK id : id = Zesarux!Last(freeBreakpointIds)
    OBVIOUS
  <2>3. /\ id = freeBreakpointIds[Len(freeBreakpointIds)] /\ id \in Numbers
        /\ Zesarux!Front(freeBreakpointIds) \in Seq(Numbers)
        /\ Len(Zesarux!Front(freeBreakpointIds)) = Len(freeBreakpointIds) - 1
        /\ \A i \in 1..(Len(freeBreakpointIds) - 1) : Zesarux!Front(freeBreakpointIds)[i] = freeBreakpointIds[i]
    BY <1>3, <2>1, <2>2, FrontOf
  <2>4. PICK what, none : what = Todo(t)[1].what /\ none = Zesarux!None
    OBVIOUS
  <2>5. what \in Conditions /\ none \in Conditions /\ id \in 0..(MaxId + 1)
    BY <1>1, <2>3, <2>4, ConditionsTyped, IdsTyped DEF Ops
  <2>6. "set-breakpoint" \in OpNames /\ "enable-breakpoint" \in OpNames /\ then \in OpNames
    BY DEF OpNames
  <2>7. PICK a : a = Zesarux!Op("set-breakpoint", id, what)
    OBVIOUS
  <2>8. PICK b : b = Zesarux!Op("enable-breakpoint", id, none)
    OBVIOUS
  <2>9. PICK c : c = Zesarux!Op(then, id, what)
    OBVIOUS
  <2>10. a \in Ops /\ a.op = "set-breakpoint" /\ a.id = id /\ a.what = what
    BY <2>5, <2>6, <2>7, OpTyped
  <2>11. b \in Ops /\ b.op = "enable-breakpoint" /\ b.id = id
    BY <2>5, <2>6, <2>8, OpTyped
  <2>12. c \in Ops /\ c.op = then /\ c.id = id /\ c.what = what
    BY <2>5, <2>6, <2>9, OpTyped
  <2>13. PICK g : g = <<a, b>> \o <<c>>
    OBVIOUS
  <2>14. Zesarux!Do(t, g) /\ freeBreakpointIds' = Zesarux!Front(freeBreakpointIds)
    BY <1>1, <1>3, <2>2, <2>4, <2>7, <2>8, <2>9, <2>13, Zenon DEF Zesarux!setBreakpointZesarux, Zesarux!Set
  <2>15. g = <<a, b, c>>
    BY <2>10, <2>11, <2>12, <2>13, ThreeOf
  <2>16. Group(t, a, b, c, id)
    <3>1. c.what = Todo(t)[1].what
      BY <2>4, <2>12
    <3>. QED
      BY <1>1, <2>10, <2>11, <2>12, <2>14, <2>15, <3>1, GroupDone
  <2>17. \/ Acts(t, {"take"}) /\ c.op = "listed"
         \/ Acts(t, {"enable"}) /\ c.op = "numbered" /\ zesaruxId[About(t)] = 0
    BY <1>1, <2>12
  <2>18. NumberTaken(t)
    BY <1>3, <2>3, <2>10, <2>11, <2>12, <2>14, <2>16, <2>17 DEF NumberTaken
  <2>. QED
    BY <2>18
<1>. QED
  BY <1>2, <1>3

LEMMA RemovingDoes ==
  ASSUME RequestsInv, NEW t \in Zesarux!Requests, NEW name, NEW then, NEW id,
         \/ name = "remove" /\ then = "unlisted" /\ id = Todo(t)[1].id
         \/ name = "disable" /\ then = "unnumbered" /\ id = zesaruxId[About(t)],
         id \in Numbers, Zesarux!Holds(t, name), Zesarux!removeBreakpointZesarux(t, id, then), BreakpointsStay
  PROVE  RemovalBegun(t)
<1>1. /\ Acts(t, {name}) /\ Zesarux!Next1(t) = Todo(t)[1] /\ Todo(t)[1] \in Ops /\ Todo(t) # <<>> /\ ~requests[t].waits
  BY HeldHead
<1>2. PICK what, none : what = Todo(t)[1].what /\ none = Zesarux!None
  OBVIOUS
<1>3. what \in Conditions /\ none \in Conditions /\ id \in 0..(MaxId + 1)
  BY <1>1, <1>2, ConditionsTyped, IdsTyped DEF Ops
<1>4. "disable-breakpoint" \in OpNames /\ "free" \in OpNames /\ then \in OpNames
  BY DEF OpNames
<1>5. PICK a : a = Zesarux!Op("disable-breakpoint", id, none)
  OBVIOUS
<1>6. PICK b : b = Zesarux!Op("free", id, none)
  OBVIOUS
<1>7. PICK c : c = Zesarux!Op(then, id, what)
  OBVIOUS
<1>8. a \in Ops /\ a.op = "disable-breakpoint" /\ a.id = id
  BY <1>3, <1>4, <1>5, OpTyped
<1>9. b \in Ops /\ b.op = "free" /\ b.id = id
  BY <1>3, <1>4, <1>6, OpTyped
<1>10. c \in Ops /\ c.op = then /\ c.id = id /\ c.what = Todo(t)[1].what
  BY <1>2, <1>3, <1>4, <1>7, OpTyped
<1>11. PICK g : g = <<a, b, c>>
  OBVIOUS
<1>12. Zesarux!Do(t, g)
  BY <1>1, <1>2, <1>5, <1>6, <1>7, <1>11, Zenon DEF Zesarux!removeBreakpointZesarux
<1>13. Group(t, a, b, c, id)
  BY <1>1, <1>8, <1>9, <1>10, <1>11, <1>12, GroupDone
<1>14. \/ Acts(t, {"remove"}) /\ c.op = "unlisted" /\ id = Todo(t)[1].id
       \/ Acts(t, {"disable"}) /\ c.op = "unnumbered" /\ id = zesaruxId[About(t)]
  BY <1>1, <1>10
<1>. QED
  BY <1>8, <1>9, <1>10, <1>13, <1>14 DEF RemovalBegun

LEMMA LocalDoes ==
  ASSUME RequestsInv, NEW t \in Zesarux!Requests, Zesarux!Local(t)
  PROVE  LocalStays /\ LocalStep(t)
<1>. DEFINE op == Zesarux!Next1(t)
            Held(name) == Zesarux!Holds(t, name)
<1>1. LocalStays
  BY DEF Zesarux!Local, Zesarux!mach, Zesarux!hist, LocalStays, ZesaruxStays, ResultStays
<1>2. /\ Todo(t) # <<>> => Todo(t)[1].id \in Nat /\ (Todo(t)[1].op \in {"remove", "free", "listed", "unlisted", "numbered"}
                                                      => Todo(t)[1].id \in Numbers)
      /\ zesaruxId \in [Assertions -> 0..MaxId]
  <2>1. ASSUME Todo(t) # <<>>
        PROVE  Todo(t)[1].id \in Nat /\ (Todo(t)[1].op \in {"remove", "free", "listed", "unlisted", "numbered"}
                                          => Todo(t)[1].id \in Numbers)
    <3>1. PICK o : o = Todo(t)[1]
      OBVIOUS
    <3>2. /\ o \in Ops /\ (o.op \in {"remove", "listed", "unlisted"} => t \in EditRequests)
          /\ (o.op = "numbered" => t \in SwitchRequests) /\ (o.op = "free" => t \in EditRequests \cup SwitchRequests)
          /\ (t \in EditRequests \cup SwitchRequests /\ o.op \notin {"take", "enable", "disable"} => o.id \in Numbers)
      BY <2>1, <3>1, HeadsAre DEF RequestsInv
    <3>3. o.id \in Nat
      BY <3>2, IdsTyped DEF Ops
    <3>. QED
      BY <3>1, <3>2, <3>3
  <2>. QED
    BY <2>1 DEF RequestsInv, ZesaruxTypes
<1>. SUFFICES LocalStep(t)
  BY <1>1
<1>3. CASE Held("take") /\ Zesarux!setBreakpointZesarux(t, "listed") /\ UNCHANGED <<zesaruxList, zesaruxId>>
  BY <1>3, TakingDoes DEF LocalStep
<1>4. CASE /\ Held("listed") /\ Zesarux!Do(t, <<>>)
           /\ zesaruxList' = zesaruxList \cup {[place |-> op.what.place, id |-> op.id]}
           /\ UNCHANGED <<freeBreakpointIds, zesaruxId>>
  <2>1. Acts(t, {"listed"}) /\ op = Todo(t)[1] /\ Todo(t) # <<>> /\ ~requests[t].waits
    BY <1>4, HeldHead
  <2>2. EntryListed(t)
    BY <1>4, <2>1, StepIsDone DEF EntryListed, Entry
  <2>. QED
    BY <2>2 DEF LocalStep
<1>5. CASE Held("remove") /\ Zesarux!removeBreakpointZesarux(t, op.id, "unlisted")
           /\ UNCHANGED <<freeBreakpointIds, zesaruxList, zesaruxId>>
  <2>1. Acts(t, {"remove"}) /\ op = Todo(t)[1] /\ Todo(t) # <<>> /\ Todo(t)[1].op = "remove"
    BY <1>5, HeldHead
  <2>2. PICK id : id = op.id
    OBVIOUS
  <2>3. id \in Numbers /\ id = Todo(t)[1].id /\ BreakpointsStay
    BY <1>2, <1>5, <2>1, <2>2 DEF BreakpointsStay
  <2>4. RemovalBegun(t)
    BY <1>5, <2>2, <2>3, RemovingDoes
  <2>. QED
    BY <2>4 DEF LocalStep
<1>6. CASE /\ Held("unlisted") /\ Zesarux!Do(t, <<>>)
           /\ zesaruxList' = zesaruxList \ {[place |-> op.what.place, id |-> op.id]}
           /\ UNCHANGED <<freeBreakpointIds, zesaruxId>>
  <2>1. Acts(t, {"unlisted"}) /\ op = Todo(t)[1] /\ Todo(t) # <<>> /\ ~requests[t].waits
    BY <1>6, HeldHead
  <2>2. EntryUnlisted(t)
    BY <1>6, <2>1, StepIsDone DEF EntryUnlisted, Entry
  <2>. QED
    BY <2>2 DEF LocalStep
<1>7. CASE /\ Held("free") /\ Zesarux!Do(t, <<>>) /\ freeBreakpointIds' = Append(freeBreakpointIds, op.id)
           /\ UNCHANGED <<zesaruxList, zesaruxId>>
  <2>1. Acts(t, {"free"}) /\ op = Todo(t)[1] /\ Todo(t) # <<>> /\ ~requests[t].waits
    BY <1>7, HeldHead
  <2>2. NumberFreed(t)
    BY <1>7, <2>1, StepIsDone DEF NumberFreed
  <2>. QED
    BY <2>2 DEF LocalStep
<1>8. CASE /\ Held("enable")
           /\ IF zesaruxId[op.what.place[1]] = 0 THEN Zesarux!setBreakpointZesarux(t, "numbered")
              ELSE Zesarux!Do(t, <<>>) /\ UNCHANGED freeBreakpointIds
           /\ UNCHANGED <<zesaruxList, zesaruxId>>
  <2>1. Acts(t, {"enable"}) /\ op = Todo(t)[1] /\ Todo(t) # <<>> /\ ~requests[t].waits
    BY <1>8, HeldHead
  <2>2. CASE zesaruxId[About(t)] = 0
    <3>1. Zesarux!setBreakpointZesarux(t, "numbered")
      BY <1>8, <2>1, <2>2 DEF About
    <3>. QED
      BY <1>8, <2>2, <3>1, TakingDoes DEF LocalStep
  <2>3. CASE zesaruxId[About(t)] # 0
    <3>1. Zesarux!Do(t, <<>>) /\ UNCHANGED freeBreakpointIds
      BY <1>8, <2>1, <2>3 DEF About
    <3>2. NothingDone(t)
      BY <1>8, <2>1, <3>1, StepIsDone DEF NothingDone, BreakpointsStay, Acts
    <3>. QED
      BY <3>2 DEF LocalStep
  <2>. QED
    BY <2>2, <2>3
<1>9. CASE /\ Held("disable")
           /\ IF zesaruxId[op.what.place[1]] # 0
              THEN Zesarux!removeBreakpointZesarux(t, zesaruxId[op.what.place[1]], "unnumbered") ELSE Zesarux!Do(t, <<>>)
           /\ UNCHANGED <<freeBreakpointIds, zesaruxList, zesaruxId>>
  <2>1. Acts(t, {"disable"}) /\ op = Todo(t)[1] /\ Todo(t) # <<>> /\ ~requests[t].waits /\ Todo(t)[1].op = "disable"
    BY <1>9, HeldHead
  <2>2. PICK id : id = zesaruxId[About(t)]
    OBVIOUS
  <2>3. BreakpointsStay
    BY <1>9 DEF BreakpointsStay
  <2>4. CASE id = 0
    <3>1. Zesarux!Do(t, <<>>)
      BY <1>9, <2>1, <2>2, <2>4 DEF About
    <3>2. NothingDone(t)
      BY <2>1, <2>3, <3>1, StepIsDone DEF NothingDone, Acts
    <3>. QED
      BY <3>2 DEF LocalStep
  <2>5. CASE id # 0
    <3>1. About(t) \in Assertions
      <4>1. t \in SwitchRequests
        BY <2>1, HeadsAre DEF RequestsInv
      <4>2. SwitchOps(Todo(t)) /\ Todo(t) \in Seq(Ops)
        BY <4>1, TodoTyped, RequestsAre DEF RequestsInv, OpsInv, OpsOk
      <4>3. 1 \in 1..Len(Todo(t))
        BY <2>1, <4>2, TailOf
      <4>. QED
        BY <2>1, <4>2, <4>3 DEF SwitchOps, Assigned, About
    <3>2. id \in Numbers
      BY <1>2, <2>2, <2>5, <3>1, IdsTyped
    <3>3. Zesarux!removeBreakpointZesarux(t, id, "unnumbered")
      BY <1>9, <2>1, <2>2, <2>5 DEF About
    <3>4. RemovalBegun(t)
      BY <1>9, <2>2, <2>3, <3>2, <3>3, RemovingDoes
    <3>. QED
      BY <3>4 DEF LocalStep
  <2>. QED
    BY <2>4, <2>5
<1>10. CASE /\ Held("numbered") /\ Zesarux!Do(t, <<>>) /\ zesaruxId' = [zesaruxId EXCEPT ![op.what.place[1]] = op.id]
            /\ UNCHANGED <<freeBreakpointIds, zesaruxList>>
  <2>1. Acts(t, {"numbered"}) /\ op = Todo(t)[1] /\ Todo(t) # <<>> /\ ~requests[t].waits
    BY <1>10, HeldHead
  <2>2. AssertionNumbered(t)
    BY <1>10, <2>1, StepIsDone DEF AssertionNumbered, About
  <2>. QED
    BY <2>2 DEF LocalStep
<1>11. CASE /\ Held("unnumbered") /\ Zesarux!Do(t, <<>>) /\ zesaruxId' = [zesaruxId EXCEPT ![op.what.place[1]] = 0]
            /\ UNCHANGED <<freeBreakpointIds, zesaruxList>>
  <2>1. Acts(t, {"unnumbered"}) /\ op = Todo(t)[1] /\ Todo(t) # <<>> /\ ~requests[t].waits
    BY <1>11, HeldHead
  <2>2. AssertionUnnumbered(t)
    BY <1>11, <2>1, StepIsDone DEF AssertionUnnumbered, About
  <2>. QED
    BY <2>2 DEF LocalStep
<1>12. CASE /\ Held("renumber") /\ Zesarux!Do(t, <<>>) /\ freeBreakpointIds' = [i \in 1..MaxId |-> MaxId + 1 - i]
            /\ UNCHANGED <<zesaruxList, zesaruxId>>
  <2>1. Acts(t, {"renumber"}) /\ op = Todo(t)[1] /\ Todo(t) # <<>> /\ ~requests[t].waits
    BY <1>12, HeldHead
  <2>2. freeBreakpointIds' \in Seq(Numbers)
    BY <1>12, ZesaruxAssumption DEF Numbers
  <2>3. NumbersReset(t)
    BY <1>12, <2>1, <2>2, StepIsDone DEF NumbersReset
  <2>. QED
    BY <2>3 DEF LocalStep
<1>. QED
  BY <1>3, <1>4, <1>5, <1>6, <1>7, <1>8, <1>9, <1>10, <1>11, <1>12, Zenon DEF Zesarux!Local, Zesarux!brk

LEMMA LocalKeeps ==
  ASSUME RequestsInv, NEW t \in Zesarux!Requests, LocalStays, LocalStep(t)
  PROVE  RequestsInv'
<1>. USE DEF LocalStays
<1>1. /\ fired' \in SUBSET (1..(MaxId + 1)) /\ result' \in Results /\ restored' \in BOOLEAN /\ restored' = restored
      /\ requestsOverlapped' \in BOOLEAN /\ ZesaruxStays /\ queue' = queue /\ (running' => running)
      /\ freeBreakpointIds \in Seq(Numbers) /\ zesaruxList \in SUBSET Entries /\ IsFiniteSet(zesaruxList)
      /\ zesaruxId \in [Assertions -> 0..MaxId]
  BY DEF ResultStays, ZesaruxStays, RequestsInv, ZesaruxTypes
<1>2. ASSUME Todo(t) # <<>>
      PROVE  /\ Todo(t) \in Seq(Ops) /\ Todo(t)[1] \in Ops /\ 1 \in 1..Len(Todo(t)) /\ Len(Todo(t)) \in Nat
             /\ t \in EditRequests => EditOps(Todo(t), zesaruxList)
             /\ t \in SwitchRequests => SwitchOps(Todo(t))
  <2>1. Todo(t) \in Seq(Ops) /\ OpsOk(t, Todo(t), zesaruxList, restored)
    BY TodoTyped DEF RequestsInv, OpsInv
  <2>2. 1 \in 1..Len(Todo(t)) /\ Todo(t)[1] \in Ops /\ Len(Todo(t)) \in Nat
    BY <1>2, <2>1, TailOf
  <2>. QED
    BY <2>1, <2>2 DEF OpsOk
<1>3. ASSUME NEW todo, Turned(t, todo, FALSE), ~requests[t].waits PROVE InTurn'
  BY <1>1, <1>3, InTurnTurned DEF RequestsInv
<1>4. ASSUME NEW todo, Turned(t, todo, FALSE), freeBreakpointIds' \in Seq(Numbers), zesaruxList' \in SUBSET Entries,
             IsFiniteSet(zesaruxList'), zesaruxId' \in [Assertions -> 0..MaxId]
      PROVE  ZesaruxTypes'
  BY <1>1, <1>4, TypesTurned DEF RequestsInv
<1>5. ASSUME StepDone(t), Todo(t) # <<>>, ~requests[t].waits, zesaruxList' = zesaruxList,
             freeBreakpointIds' \in Seq(Numbers), zesaruxId' \in [Assertions -> 0..MaxId]
      PROVE  RequestsInv'
  <2>1. OpsInv'
    BY <1>1, <1>5, OpsTail DEF StepDone, RequestsInv
  <2>2. InTurn' /\ ZesaruxTypes'
    BY <1>1, <1>3, <1>4, <1>5 DEF StepDone
  <2>. QED
    BY <2>1, <2>2 DEF RequestsInv
<1>6. ASSUME NEW a \in Ops, NEW b \in Ops, NEW c \in Ops, NEW id \in Numbers, Group(t, a, b, c, id), Todo(t) # <<>>,
             ~requests[t].waits, zesaruxList' = zesaruxList, zesaruxId' = zesaruxId, freeBreakpointIds' \in Seq(Numbers),
             \/ /\ Todo(t)[1].op = "take" /\ a.op = "set-breakpoint" /\ b.op = "enable-breakpoint" /\ c.op = "listed"
                /\ a.what = c.what
             \/ /\ Todo(t)[1].op = "enable" /\ a.op = "set-breakpoint" /\ b.op = "enable-breakpoint" /\ c.op = "numbered"
                /\ a.what = c.what
             \/ /\ Todo(t)[1].op = "remove" /\ a.op = "disable-breakpoint" /\ b.op = "free" /\ c.op = "unlisted"
                /\ id = Todo(t)[1].id
             \/ Todo(t)[1].op = "disable" /\ a.op = "disable-breakpoint" /\ b.op = "free" /\ c.op = "unnumbered"
      PROVE  RequestsInv'
  <2>1. PICK q : q = <<a, b, c>> \o Tail(Todo(t))
    OBVIOUS
  <2>2. Turned(t, q, FALSE) /\ a.id = id /\ b.id = id /\ c.id = id /\ c.what = Todo(t)[1].what
    BY <1>6, <2>1 DEF Group
  <2>3. InTurn' /\ ZesaruxTypes'
    BY <1>1, <1>3, <1>4, <1>6, <2>2
  <2>4. /\ Todo(t)[1].op \in {"take", "remove"} => t \in EditRequests
        /\ Todo(t)[1].op \in {"enable", "disable"} => t \in SwitchRequests
    BY <1>6, HeadsAre DEF RequestsInv
  <2>5. ASSUME t \in EditRequests PROVE EditOps(q, zesaruxList) /\ FilesOf(q) \subseteq FilesOf(Todo(t))
    <3>1. \/ /\ Todo(t)[1].op = "take" /\ a.op = "set-breakpoint" /\ b.op = "enable-breakpoint" /\ c.op = "listed"
             /\ a.what = c.what
          \/ /\ Todo(t)[1].op = "remove" /\ a.op = "disable-breakpoint" /\ b.op = "free" /\ c.op = "unlisted"
             /\ id = Todo(t)[1].id
      BY <1>6, <2>4, <2>5, RequestsAre
    <3>2. Todo(t) \in Seq(Ops) /\ EditOps(Todo(t), zesaruxList)
      BY <1>2, <1>6, <2>5
    <3>. QED
      BY <1>6, <2>1, <2>2, <3>1, <3>2, EditGroup
  <2>6. ASSUME t \in SwitchRequests PROVE SwitchOps(q)
    <3>1. \/ /\ Todo(t)[1].op = "enable" /\ a.op = "set-breakpoint" /\ b.op = "enable-breakpoint" /\ c.op = "numbered"
             /\ a.what = c.what
          \/ Todo(t)[1].op = "disable" /\ a.op = "disable-breakpoint" /\ b.op = "free" /\ c.op = "unnumbered"
      BY <1>6, <2>4, <2>6, RequestsAre
    <3>2. Todo(t) \in Seq(Ops) /\ SwitchOps(Todo(t))
      BY <1>2, <1>6, <2>6
    <3>. QED
      BY <1>6, <2>1, <2>2, <3>1, <3>2, SwitchGroup
  <2>7. t \in EditRequests \cup SwitchRequests
    BY <1>6, <2>4
  <2>8. OpsOk(t, q, zesaruxList', restored')
    BY <1>6, <2>5, <2>6, <2>7, RequestsAre DEF OpsOk
  <2>9. ASSUME NEW u \in EditRequests \ {t}
        PROVE  EditOps(Todo(u), zesaruxList') /\ (t \in EditRequests => FilesOf(q) \cap FilesOf(Todo(u)) = {})
    <3>1. EditOps(Todo(u), zesaruxList')
      BY <1>6, RequestsAre DEF RequestsInv, OpsInv, OpsOk
    <3>2. t \in EditRequests => FilesOf(Todo(t)) \cap FilesOf(Todo(u)) = {}
      BY DEF RequestsInv, OpsInv
    <3>. QED
      BY <2>5, <3>1, <3>2
  <2>10. OpsInv'
    <3>1. ZesaruxTypes /\ OpsInv /\ (restored => restored')
      BY <1>1 DEF RequestsInv
    <3>. QED
      BY <2>2, <2>8, <2>9, <3>1, OpsTurned
  <2>. QED
    BY <2>3, <2>10 DEF RequestsInv
<1>7. CASE NothingDone(t)
  <2>1. StepDone(t) /\ Todo(t) # <<>> /\ ~requests[t].waits /\ UNCHANGED <<freeBreakpointIds, zesaruxList, zesaruxId>>
    BY <1>7 DEF NothingDone, Acts, BreakpointsStay
  <2>. QED
    BY <1>1, <1>5, <2>1
<1>8. CASE NumberTaken(t)
  <2>1. PICK a \in Ops, b \in Ops, c \in Ops, id \in Numbers :
          /\ Group(t, a, b, c, id) /\ a.op = "set-breakpoint" /\ b.op = "enable-breakpoint" /\ a.what = c.what
          /\ \/ Acts(t, {"take"}) /\ c.op = "listed"
             \/ Acts(t, {"enable"}) /\ c.op = "numbered" /\ zesaruxId[About(t)] = 0
          /\ freeBreakpointIds' \in Seq(Numbers) /\ UNCHANGED <<zesaruxList, zesaruxId>>
    BY <1>8 DEF NumberTaken
  <2>2. Todo(t) # <<>> /\ ~requests[t].waits
    BY <2>1 DEF Acts
  <2>3. (Todo(t)[1].op = "take" /\ c.op = "listed") \/ (Todo(t)[1].op = "enable" /\ c.op = "numbered")
    BY <2>1 DEF Acts
  <2>. QED
    BY <1>6, <2>1, <2>2, <2>3
<1>9. CASE RemovalBegun(t)
  <2>1. PICK a \in Ops, b \in Ops, c \in Ops, id \in Numbers :
          /\ Group(t, a, b, c, id) /\ a.op = "disable-breakpoint" /\ b.op = "free"
          /\ \/ Acts(t, {"remove"}) /\ c.op = "unlisted" /\ id = Todo(t)[1].id
             \/ Acts(t, {"disable"}) /\ c.op = "unnumbered" /\ id = zesaruxId[About(t)]
          /\ BreakpointsStay
    BY <1>9 DEF RemovalBegun
  <2>2. Todo(t) # <<>> /\ ~requests[t].waits
    BY <2>1 DEF Acts
  <2>3. (Todo(t)[1].op = "remove" /\ c.op = "unlisted" /\ id = Todo(t)[1].id) \/ (Todo(t)[1].op = "disable" /\ c.op = "unnumbered")
    BY <2>1 DEF Acts
  <2>4. zesaruxList' = zesaruxList /\ zesaruxId' = zesaruxId /\ freeBreakpointIds' \in Seq(Numbers)
    BY <1>1, <2>1 DEF BreakpointsStay
  <2>. QED
    BY <1>6, <2>1, <2>2, <2>3, <2>4
<1>10. CASE EntryListed(t) \/ EntryUnlisted(t)
  <2>1. PICK op, list, e : op = Todo(t)[1] /\ list = zesaruxList' /\ e = Entry(op)
    OBVIOUS
  <2>2. /\ Todo(t) # <<>> /\ ~requests[t].waits /\ StepDone(t) /\ UNCHANGED <<freeBreakpointIds, zesaruxId>>
        /\ \/ op.op = "listed" /\ list = zesaruxList \cup {e}
           \/ op.op = "unlisted" /\ list = zesaruxList \ {e}
    BY <1>10, <2>1 DEF EntryListed, EntryUnlisted, Acts
  <2>3. t \in EditRequests
    BY <2>1, <2>2, HeadsAre DEF RequestsInv
  <2>4. op \in Ops /\ op.id \in Numbers /\ EditOps(Todo(t), zesaruxList) /\ Todo(t) \in Seq(Ops) /\ 1 \in 1..Len(Todo(t))
    <3>1. op \in Ops /\ EditOps(Todo(t), zesaruxList) /\ Todo(t) \in Seq(Ops) /\ 1 \in 1..Len(Todo(t))
      BY <1>2, <2>1, <2>2, <2>3
    <3>2. op.id \in Numbers
      BY <2>1, <2>2, <3>1 DEF EditOps
    <3>. QED
      BY <3>1, <3>2
  <2>5. op.op \in Placed /\ op.what.place \in Zesarux!Places /\ e = [place |-> op.what.place, id |-> op.id]
        /\ e \in Entries /\ e.place = op.what.place
    <3>1. op.op \in Placed
      BY <2>2 DEF Placed
    <3>2. op.what.place \in Zesarux!Places
      BY <2>1, <2>4, <3>1 DEF EditOps
    <3>. QED
      BY <2>1, <2>4, <3>1, <3>2 DEF Entry, Entries
  <2>6. list \in SUBSET Entries /\ IsFiniteSet(list)
    <3>1. list \subseteq zesaruxList \cup {e}
      BY <2>2
    <3>2. PICK S : S = {e}
      OBVIOUS
    <3>3. IsFiniteSet(S)
      BY <3>2, FS_Singleton
    <3>4. IsFiniteSet(zesaruxList \cup S)
      BY <1>1, <3>3, FS_Union
    <3>5. IsFiniteSet(list)
      BY <3>1, <3>2, <3>4, FS_Subset
    <3>. QED
      BY <1>1, <2>5, <3>1, <3>5
  <2>7. InTurn' /\ ZesaruxTypes'
    BY <1>1, <1>3, <1>4, <2>1, <2>2, <2>6 DEF StepDone
  <2>8. PICK ops : ops = Todo(t)
    OBVIOUS
  <2>9. \A i \in 2..Len(ops) : ops[i].op \in Removing => Entry(ops[i]) \in list
    <3>1. ASSUME NEW i \in 2..Len(ops), ops[i].op \in Removing PROVE Entry(ops[i]) \in list
      <4>1. i \in 1..Len(ops) /\ i # 1 /\ 1 \in 1..Len(ops)
        BY <2>4, <2>8
      <4>2. Entry(ops[i]) \in zesaruxList
        BY <2>4, <2>8, <3>1, <4>1 DEF EditOps
      <4>3. op.op = "unlisted" => Entry(ops[i]) # e
        <5>1. "unlisted" \in Removing
          BY DEF Removing
        <5>2. ops[1].op \in Removing => Entry(ops[1]) # Entry(ops[i])
          BY <2>4, <2>8, <3>1, <4>1 DEF EditOps
        <5>. QED
          BY <2>1, <2>8, <5>1, <5>2
      <4>. QED
        BY <2>2, <4>2, <4>3
    <3>. QED
      BY <3>1
  <2>10. EditOps(Tail(ops), list) /\ FilesOf(Tail(ops)) \subseteq FilesOf(ops)
    BY <2>2, <2>4, <2>8, <2>9, EditTail
  <2>11. ASSUME NEW u \in EditRequests \ {t}
         PROVE  EditOps(Todo(u), list) /\ FilesOf(Tail(ops)) \cap FilesOf(Todo(u)) = {}
    <3>1. PICK other : other = Todo(u)
      OBVIOUS
    <3>2. EditOps(other, zesaruxList) /\ FilesOf(ops) \cap FilesOf(other) = {}
      BY <2>3, <2>8, <3>1, RequestsAre DEF RequestsInv, OpsInv, OpsOk
    <3>3. e.place[1] \in FilesOf(ops)
      BY <2>1, <2>4, <2>5, <2>8 DEF FilesOf
    <3>4. ASSUME NEW i \in 1..Len(other), other[i].op \in Removing PROVE Entry(other[i]) \in list
      <4>1. other[i].op \in Placed /\ Entry(other[i]).place = other[i].what.place
        BY <3>4 DEF Removing, Placed, Entry
      <4>2. other[i].what.place[1] \in FilesOf(other)
        BY <4>1 DEF FilesOf
      <4>3. Entry(other[i]) # e
        BY <3>2, <3>3, <4>1, <4>2
      <4>4. Entry(other[i]) \in zesaruxList
        BY <3>2, <3>4 DEF EditOps
      <4>. QED
        BY <2>2, <4>3, <4>4
    <3>5. EditOps(other, list)
      BY <3>2, <3>4 DEF EditOps
    <3>. QED
      BY <2>10, <3>1, <3>2, <3>5
  <2>12. OpsOk(t, Tail(ops), list, restored')
    BY <2>3, <2>10, RequestsAre DEF OpsOk
  <2>13. OpsInv'
    <3>1. ZesaruxTypes /\ OpsInv /\ (restored => restored') /\ Turned(t, Tail(ops), FALSE)
      <4>1. ZesaruxTypes /\ OpsInv
        BY DEF RequestsInv
      <4>2. restored => restored'
        BY <1>1
      <4>3. Turned(t, Tail(ops), FALSE)
        BY <2>2, <2>8 DEF StepDone
      <4>. QED
        BY <4>1, <4>2, <4>3
    <3>. QED
      BY <2>1, <2>11, <2>12, <3>1, OpsTurned
  <2>. QED
    BY <2>7, <2>13 DEF RequestsInv
<1>11. CASE NumberFreed(t)
  <2>1. /\ StepDone(t) /\ Todo(t) # <<>> /\ ~requests[t].waits /\ Todo(t)[1].op = "free"
        /\ freeBreakpointIds' = Append(freeBreakpointIds, Todo(t)[1].id)
        /\ UNCHANGED <<zesaruxList, zesaruxId>>
    BY <1>11 DEF NumberFreed, Acts
  <2>2. Todo(t)[1].id \in Numbers
    BY <2>1, HeadsAre DEF RequestsInv
  <2>3. freeBreakpointIds' \in Seq(Numbers)
    BY <1>1, <2>1, <2>2
  <2>. QED
    BY <1>1, <1>5, <2>1, <2>3
<1>12. CASE AssertionNumbered(t) \/ AssertionUnnumbered(t)
  <2>1. PICK id : (AssertionNumbered(t) /\ id = Todo(t)[1].id) \/ (AssertionUnnumbered(t) /\ id = 0)
    BY <1>12
  <2>2. /\ StepDone(t) /\ Todo(t) # <<>> /\ ~requests[t].waits /\ zesaruxId' = [zesaruxId EXCEPT ![About(t)] = id]
        /\ UNCHANGED <<freeBreakpointIds, zesaruxList>> /\ Todo(t)[1].op \in {"numbered", "unnumbered"}
        /\ (id # 0 => id = Todo(t)[1].id)
    BY <2>1 DEF AssertionNumbered, AssertionUnnumbered, Acts
  <2>3. id \in 0..MaxId
    <3>1. Todo(t)[1].id \in Numbers
      BY <2>2, HeadsAre DEF RequestsInv
    <3>2. 0 \in 0..MaxId
      BY ZesaruxAssumption
    <3>. QED
      BY <2>2, <3>1, <3>2, IdsTyped
  <2>4. zesaruxId' \in [Assertions -> 0..MaxId]
    BY <1>1, <2>2, <2>3
  <2>. QED
    BY <1>1, <1>5, <2>2, <2>4
<1>13. CASE NumbersReset(t)
  <2>1. /\ StepDone(t) /\ Todo(t) # <<>> /\ ~requests[t].waits /\ freeBreakpointIds' \in Seq(Numbers)
        /\ UNCHANGED <<zesaruxList, zesaruxId>>
    BY <1>13 DEF NumbersReset, Acts
  <2>. QED
    BY <1>1, <1>5, <2>1
<1>. QED
  BY <1>7, <1>8, <1>9, <1>10, <1>11, <1>12, <1>13 DEF LocalStep

-------------------------------------------------------------------------------
(* ZEsarUX executes the commands in the order in which they were sent.      *)

Executed(t) ==
  /\ queue # <<>> /\ t = queue[1] /\ queue' = Tail(queue) /\ Todo(t) # <<>> /\ requests[t].waits
  /\ Todo(t)[1].op = "run" => running' = TRUE /\ requests' = requests
  /\ Todo(t)[1].op # "run" => StepDone(t) /\ running' = running
  /\ Todo(t)[1].op = "set-breakpoint" => condition' = [condition EXCEPT ![Todo(t)[1].id] = Todo(t)[1].what]
  /\ Todo(t)[1].op # "set-breakpoint" => condition' = condition
  /\ Todo(t)[1].op = "enable-breakpoint" => on' = on \cup {Todo(t)[1].id}
  /\ Todo(t)[1].op = "disable-breakpoint" => on' = on \ {Todo(t)[1].id}
  /\ Todo(t)[1].op = "clear" => on' = {}
  /\ Todo(t)[1].op \notin {"enable-breakpoint", "disable-breakpoint", "clear"} => on' = on
  /\ level' \in Nat /\ (Todo(t)[1].op # "cpu-step" => level' = level)
  /\ BreakpointsStay /\ ResultStays /\ UNCHANGED <<pc, returned, restored, requestsOverlapped>>

LEMMA ExecuteDoes ==
  ASSUME RequestsInv, Zesarux!Execute
  PROVE  \E t \in Zesarux!Requests : Executed(t)
<1>1. queue \in Seq(Zesarux!Requests) /\ queue # <<>> /\ level \in Nat
  BY DEF RequestsInv, ZesaruxTypes, Zesarux!Execute
<1>2. PICK t : t = queue[1]
  OBVIOUS
<1>3. t \in Zesarux!Requests /\ Head(queue) = t /\ 1 \in 1..Len(queue)
  BY <1>1, <1>2, TailOf
<1>4. requests[t].waits /\ Todo(t) # <<>>
  BY <1>2, <1>3 DEF RequestsInv, InTurn
<1>5. PICK op : op = Todo(t)[1]
  OBVIOUS
<1>6. Zesarux!Next1(t) = op
  BY <1>3, <1>4, <1>5, HeadsAre DEF RequestsInv
<1>7. /\ queue' = Tail(queue)
      /\ condition' = IF op.op = "set-breakpoint" THEN [condition EXCEPT ![op.id] = op.what] ELSE condition
      /\ on' = CASE op.op = "enable-breakpoint"  -> on \cup {op.id}
                 [] op.op = "disable-breakpoint" -> on \ {op.id}
                 [] op.op = "clear"              -> {}
                 [] OTHER                        -> on
      /\ IF op.op = "run" THEN running' = TRUE /\ UNCHANGED requests ELSE Zesarux!Answered(t) /\ UNCHANGED running
      /\ level' \in IF op.op = "cpu-step" THEN {level - 1, level, level + 1} \cap (0..MaxLevel) ELSE {level}
      /\ UNCHANGED <<freeBreakpointIds, zesaruxList, zesaruxId, pc, returned, fired, result, restored, requestsOverlapped>>
  BY <1>3, <1>6 DEF Zesarux!Execute, Zesarux!brk, Zesarux!hist
<1>8. op.op # "run" => StepDone(t) /\ running' = running
  BY <1>3, <1>4, <1>7, AnsweredTurns DEF RequestsInv, StepDone
<1>9. level' \in Nat /\ (op.op # "cpu-step" => level' = level)
  <2>1. level' \in (0..MaxLevel) \/ level' = level
    BY <1>7
  <2>. QED
    BY <1>1, <1>7, <2>1
<1>10. /\ op.op = "enable-breakpoint" => on' = on \cup {op.id}
       /\ op.op = "disable-breakpoint" => on' = on \ {op.id}
       /\ op.op = "clear" => on' = {}
       /\ op.op \notin {"enable-breakpoint", "disable-breakpoint", "clear"} => on' = on
  BY <1>7
<1>11. BreakpointsStay /\ ResultStays
  BY <1>7 DEF BreakpointsStay, ResultStays
<1>. QED
  BY <1>1, <1>2, <1>3, <1>4, <1>5, <1>7, <1>8, <1>9, <1>10, <1>11 DEF Executed

LEMMA ExecutedIds ==
  ASSUME RequestsInv, NEW t \in Zesarux!Requests, Executed(t),
         Todo(t)[1].op \in {"set-breakpoint", "enable-breakpoint", "disable-breakpoint"}
  PROVE  Todo(t)[1].id \in 1..(MaxId + 1) /\ Todo(t)[1].what \in Conditions
<1>1. PICK op : op = Todo(t)[1]
  OBVIOUS
<1>2. /\ op \in Ops /\ t # "restore"
      /\ (t \in EditRequests \cup SwitchRequests => op.id \in Numbers) /\ (t = "run" => op.id = MaxId + 1)
  BY <1>1, HeadsAre DEF Executed, RequestsInv
<1>3. op.id \in 1..(MaxId + 1)
  BY <1>2, IdsTyped, RequestsAre DEF EditRequests, SwitchRequests
<1>. QED
  BY <1>1, <1>2, <1>3 DEF Ops

LEMMA ExecutedKeeps ==
  ASSUME RequestsInv, NEW t \in Zesarux!Requests, Executed(t)
  PROVE  RequestsInv'
<1>1. Todo(t)[1].op = "run" => t = "run"
  BY HeadsAre DEF Executed, RequestsInv
<1>2. queue \in Seq(Zesarux!Requests) /\ queue # <<>> /\ t = queue[1] /\ queue' = Tail(queue)
  BY DEF RequestsInv, ZesaruxTypes, Executed
<1>3. /\ Tail(queue) \in Seq(Zesarux!Requests) /\ Len(Tail(queue)) = Len(queue) - 1 /\ Len(queue) \in Nat /\ Len(queue) >= 1
      /\ \A i \in 1..Len(Tail(queue)) : Tail(queue)[i] = queue[i + 1]
  BY <1>2, TailOf
<1>4. \A i \in 1..Len(queue') : queue'[i] = queue[i + 1] /\ i + 1 \in 1..Len(queue) /\ queue'[i] # t
                                /\ queue'[i] \in Zesarux!Requests
  <2>1. ASSUME NEW i \in 1..Len(queue')
        PROVE  queue'[i] = queue[i + 1] /\ i + 1 \in 1..Len(queue) /\ queue'[i] # t /\ queue'[i] \in Zesarux!Requests
    <3>1. i + 1 \in 1..Len(queue) /\ 1 \in 1..Len(queue) /\ i + 1 # 1 /\ queue'[i] = queue[i + 1]
      BY <1>2, <1>3
    <3>2. queue[i + 1] # queue[1]
      BY <3>1 DEF RequestsInv, InTurn
    <3>. QED
      BY <1>2, <3>1, <3>2
  <2>. QED
    BY <2>1
<1>5. /\ requests' \in [Zesarux!Requests -> Request]
      /\ \A u \in Zesarux!Requests \ {t} : requests'[u] = requests[u]
      /\ requests'[t].ops = IF Todo(t)[1].op = "run" THEN Todo(t) ELSE Tail(Todo(t))
      /\ requests'[t].waits = (Todo(t)[1].op = "run")
  <2>1. CASE Todo(t)[1].op = "run"
    BY <2>1, TodoTyped DEF Executed, RequestsInv, ZesaruxTypes, Todo
  <2>2. CASE Todo(t)[1].op # "run"
    BY <2>2 DEF Executed, StepDone, Turned
  <2>. QED
    BY <2>1, <2>2
<1>6. InTurn'
  <2>1. \A i \in 1..Len(queue') : requests'[queue'[i]].waits
    BY <1>4, <1>5 DEF RequestsInv, InTurn
  <2>2. ASSUME NEW i \in 1..Len(queue'), NEW j \in 1..Len(queue'), queue'[i] = queue'[j] PROVE i = j
    <3>1. i + 1 \in 1..Len(queue) /\ j + 1 \in 1..Len(queue) /\ queue[i + 1] = queue[j + 1]
      BY <1>4, <2>2
    <3>2. i + 1 = j + 1
      BY <3>1 DEF RequestsInv, InTurn
    <3>. QED
      BY <1>3, <3>2
  <2>3. ASSUME NEW u \in Zesarux!Requests, requests'[u].waits
        PROVE  requests'[u].ops # <<>> /\ Zesarux!Command(requests'[u].ops[1])
    <3>1. requests'[u].ops = Todo(u) /\ requests[u].waits
      BY <1>5, <2>3 DEF Executed, Todo
    <3>. QED
      BY <3>1 DEF RequestsInv, InTurn
  <2>4. ASSUME running'
        PROVE  /\ requests'["run"].waits /\ requests'["run"].ops[1].op = "run"
               /\ \A i \in 1..Len(queue') : queue'[i] # "run"
    <3>1. CASE Todo(t)[1].op = "run"
      BY <1>1, <1>4, <1>5, <3>1
    <3>2. CASE Todo(t)[1].op # "run"
      <4>1. running
        BY <2>4, <3>2 DEF Executed
      <4>2. requests["run"].waits /\ Todo("run")[1].op = "run" /\ (\A i \in 1..Len(queue) : queue[i] # "run")
        BY <4>1 DEF RequestsInv, InTurn
      <4>3. t # "run"
        BY <3>2, <4>2
      <4>4. requests'["run"] = requests["run"]
        BY <1>5, <4>3, RequestsAre
      <4>. QED
        BY <1>4, <4>2, <4>4 DEF Todo
    <3>. QED
      BY <3>1, <3>2
  <2>. QED
    BY <2>1, <2>2, <2>3, <2>4 DEF InTurn, Todo
<1>7. condition' \in [1..(MaxId + 1) -> Conditions] /\ on' \in SUBSET (1..(MaxId + 1))
  <2>1. condition \in [1..(MaxId + 1) -> Conditions] /\ on \in SUBSET (1..(MaxId + 1))
    BY DEF RequestsInv, ZesaruxTypes
  <2>2. condition' \in [1..(MaxId + 1) -> Conditions]
    <3>1. CASE Todo(t)[1].op = "set-breakpoint"
      BY <2>1, <3>1, ExecutedIds DEF Executed
    <3>2. CASE Todo(t)[1].op # "set-breakpoint"
      BY <2>1, <3>2 DEF Executed
    <3>. QED
      BY <3>1, <3>2
  <2>3. on' \in SUBSET (1..(MaxId + 1))
    <3>1. CASE Todo(t)[1].op = "enable-breakpoint"
      <4>1. PICK id : id = Todo(t)[1].id
        OBVIOUS
      <4>2. id \in 1..(MaxId + 1)
        BY <3>1, <4>1, ExecutedIds
      <4>3. on' = on \cup {id}
        BY <3>1, <4>1 DEF Executed
      <4>. QED
        BY <2>1, <4>2, <4>3
    <3>2. CASE Todo(t)[1].op # "enable-breakpoint"
      BY <2>1, <3>2 DEF Executed
    <3>. QED
      BY <3>1, <3>2
  <2>. QED
    BY <2>2, <2>3
<1>8. ZesaruxTypes'
  <2>1. running' \in BOOLEAN /\ level' \in Nat
    BY DEF Executed, RequestsInv, ZesaruxTypes
  <2>2. queue' \in Seq(Zesarux!Requests)
    BY <1>2, <1>3
  <2>3. /\ freeBreakpointIds' \in Seq(Numbers) /\ zesaruxList' \in SUBSET Entries /\ IsFiniteSet(zesaruxList')
        /\ zesaruxId' \in [Assertions -> 0..MaxId]
    BY DEF Executed, BreakpointsStay, RequestsInv, ZesaruxTypes
  <2>4. /\ fired' \in SUBSET (1..(MaxId + 1)) /\ result' \in Results /\ restored' \in BOOLEAN
        /\ requestsOverlapped' \in BOOLEAN /\ returned' \in BOOLEAN
    BY DEF Executed, ResultStays, RequestsInv, ZesaruxTypes
  <2>. QED
    BY <1>5, <1>7, <2>1, <2>2, <2>3, <2>4 DEF ZesaruxTypes
<1>9. OpsInv'
  <2>1. zesaruxList' = zesaruxList /\ restored' = restored
    BY DEF Executed, BreakpointsStay
  <2>2. CASE Todo(t)[1].op = "run"
    <3>1. requests' = requests
      BY <2>2 DEF Executed
    <3>. QED
      BY <2>1, <3>1 DEF RequestsInv, OpsInv, Todo
  <2>3. CASE Todo(t)[1].op # "run"
    <3>1. Turned(t, Tail(Todo(t)), FALSE) /\ Todo(t) # <<>>
      BY <2>3 DEF Executed, StepDone
    <3>. QED
      BY <2>1, <3>1, OpsTail DEF RequestsInv
  <2>. QED
    BY <2>2, <2>3
<1>. QED
  BY <1>6, <1>8, <1>9 DEF RequestsInv

LEMMA SendKeeps ==
  ASSUME RequestsInv, NEW t \in Zesarux!Requests, Zesarux!Send(t)
  PROVE  RequestsInv'
<1>1. Turned(t, Todo(t), TRUE) /\ Todo(t) # <<>> /\ ~requests[t].waits /\ Zesarux!Command(Todo(t)[1])
  BY SendTurns DEF RequestsInv
<1>2. /\ queue' = Append(queue, t) /\ BreakpointsStay /\ ResultStays
      /\ UNCHANGED <<condition, on, running, level, pc, returned, restored, requestsOverlapped>>
  BY DEF Zesarux!Send, Zesarux!brk, Zesarux!mach, Zesarux!hist, BreakpointsStay, ResultStays
<1>3. queue \in Seq(Zesarux!Requests) /\ Len(queue) \in Nat
  BY DEF RequestsInv, ZesaruxTypes
<1>4. /\ queue' \in Seq(Zesarux!Requests) /\ Len(queue') = Len(queue) + 1 /\ queue'[Len(queue) + 1] = t
      /\ \A i \in 1..Len(queue) : queue'[i] = queue[i]
  BY <1>2, <1>3, AppendProperties
<1>5. \A i \in 1..Len(queue) : queue[i] # t /\ queue[i] \in Zesarux!Requests
  BY <1>1, <1>3 DEF RequestsInv, InTurn
<1>6. /\ \A u \in Zesarux!Requests \ {t} : requests'[u] = requests[u]
      /\ requests'[t].ops = Todo(t) /\ requests'[t].waits
  BY <1>1 DEF Turned
<1>7. \A i \in 1..Len(queue') : (i \in 1..Len(queue) /\ queue'[i] = queue[i]) \/ (i = Len(queue) + 1 /\ queue'[i] = t)
  BY <1>3, <1>4
<1>8. InTurn'
  <2>1. \A i \in 1..Len(queue') : requests'[queue'[i]].waits
    <3>1. \A i \in 1..Len(queue) : requests'[queue[i]].waits
      BY <1>5, <1>6 DEF RequestsInv, InTurn
    <3>. QED
      BY <1>6, <1>7, <3>1
  <2>2. \A i, j \in 1..Len(queue') : queue'[i] = queue'[j] => i = j
    <3>1. \A i, j \in 1..Len(queue) : queue[i] = queue[j] => i = j
      BY DEF RequestsInv, InTurn
    <3>. QED
      BY <1>5, <1>7, <3>1
  <2>3. \A u \in Zesarux!Requests : requests'[u].waits => requests'[u].ops # <<>> /\ Zesarux!Command(requests'[u].ops[1])
    <3>1. \A u \in Zesarux!Requests : requests[u].waits => Todo(u) # <<>> /\ Zesarux!Command(Todo(u)[1])
      BY DEF RequestsInv, InTurn
    <3>2. ASSUME NEW u \in Zesarux!Requests, requests'[u].waits
          PROVE  requests'[u].ops # <<>> /\ Zesarux!Command(requests'[u].ops[1])
      <4>1. CASE u = t
        BY <1>1, <1>6, <4>1
      <4>2. CASE u # t
        BY <1>6, <3>1, <3>2, <4>2 DEF Todo
      <4>. QED
        BY <4>1, <4>2
    <3>. QED
      BY <3>2
  <2>4. ASSUME running'
        PROVE  /\ requests'["run"].waits /\ requests'["run"].ops[1].op = "run"
               /\ \A i \in 1..Len(queue') : queue'[i] # "run"
    <3>1. requests["run"].waits /\ Todo("run")[1].op = "run" /\ (\A i \in 1..Len(queue) : queue[i] # "run")
      BY <1>2, <2>4 DEF RequestsInv, InTurn
    <3>2. t # "run"
      BY <1>1, <3>1
    <3>3. requests'["run"] = requests["run"]
      BY <1>6, <3>2, RequestsAre
    <3>. QED
      BY <1>7, <3>1, <3>2, <3>3 DEF Todo
  <2>. QED
    BY <2>1, <2>2, <2>3, <2>4 DEF InTurn, Todo
<1>9. ZesaruxTypes'
  <2>1. requests' \in [Zesarux!Requests -> Request]
    BY <1>1 DEF Turned
  <2>. QED
    BY <1>2, <1>4, <2>1 DEF RequestsInv, ZesaruxTypes, BreakpointsStay, ResultStays
<1>10. OpsInv'
  <2>1. zesaruxList' = zesaruxList /\ restored' = restored
    BY <1>2 DEF BreakpointsStay
  <2>2. \A u \in Zesarux!Requests : requests'[u].ops = Todo(u)
    BY <1>6 DEF Todo
  <2>3. \A u \in EditRequests : requests'[u].ops = Todo(u)
    BY <2>2, RequestsAre
  <2>. QED
    BY <2>1, <2>2, <2>3 DEF RequestsInv, OpsInv, Todo
<1>. QED
  BY <1>8, <1>9, <1>10 DEF RequestsInv

\* A run that ends, and what is made of it.
Resolved ==
  /\ Acts("run", {"resolve"}) /\ StepDone("run") /\ BreakpointsStay /\ ZesaruxStays /\ UNCHANGED <<fired, restored, requestsOverlapped>>
  /\ result' \in Results /\ result'.kind = result.kind /\ result'.from = result.from /\ result'.paused = result.paused
  /\ result.kind = "over" /\ level > result.from => result'.reason = fired
  /\ result.kind = "out" /\ result.from > 0 /\ (level > result.from - 1 \/ ~returned) => result'.reason = fired

LEMMA ResolveDoes ==
  ASSUME RequestsInv, Zesarux!resolve
  PROVE  Resolved
<1>1. Acts("run", {"resolve"}) /\ Todo("run") # <<>> /\ ~requests["run"].waits
  BY HeldHead, RequestsAre DEF Zesarux!resolve
<1>2. StepDone("run")
  BY <1>1, StepIsDone, RequestsAre DEF Zesarux!resolve
<1>3. BreakpointsStay /\ ZesaruxStays /\ UNCHANGED <<fired, restored, requestsOverlapped>>
  BY DEF Zesarux!resolve, Zesarux!brk, Zesarux!mach, Zesarux!hist, BreakpointsStay, ZesaruxStays
<1>4. result \in Results /\ fired \in SUBSET (1..(MaxId + 1))
  BY DEF RequestsInv, ZesaruxTypes
<1>5. PICK reason : reason = CASE result.kind = "over" -> IF level > result.from THEN fired ELSE {}
                               [] result.kind = "out"  -> IF result.from > 0 /\ (level > result.from - 1 \/ ~returned) THEN fired ELSE {}
                               [] OTHER                -> fired
  OBVIOUS
<1>6. result' = [result EXCEPT !.reason = reason]
  BY <1>5 DEF Zesarux!resolve
<1>7. /\ reason \in SUBSET (1..(MaxId + 1))
      /\ result.kind = "over" /\ level > result.from => reason = fired
      /\ result.kind = "out" /\ result.from > 0 /\ (level > result.from - 1 \/ ~returned) => reason = fired
  BY <1>4, <1>5
<1>8. /\ result' \in Results /\ result'.kind = result.kind /\ result'.from = result.from /\ result'.paused = result.paused
      /\ result'.reason = reason
  BY <1>4, <1>6, <1>7 DEF Results
<1>. QED
  BY <1>1, <1>2, <1>3, <1>7, <1>8 DEF Resolved

LEMMA ResolvedKeeps ==
  ASSUME RequestsInv, Resolved
  PROVE  RequestsInv'
<1>1. "run" \in Zesarux!Requests /\ Turned("run", Tail(Todo("run")), FALSE) /\ Todo("run") # <<>> /\ ~requests["run"].waits
  BY RequestsAre DEF Resolved, Acts, StepDone
<1>2. /\ freeBreakpointIds' \in Seq(Numbers) /\ zesaruxList' \in SUBSET Entries /\ IsFiniteSet(zesaruxList')
      /\ zesaruxId' \in [Assertions -> 0..MaxId] /\ fired' \in SUBSET (1..(MaxId + 1)) /\ result' \in Results
      /\ restored' \in BOOLEAN /\ requestsOverlapped' \in BOOLEAN
  BY DEF Resolved, BreakpointsStay, RequestsInv, ZesaruxTypes
<1>3. ZesaruxTypes /\ InTurn /\ OpsInv /\ ZesaruxStays /\ zesaruxList' = zesaruxList /\ restored' = restored
  BY DEF RequestsInv, Resolved, BreakpointsStay
<1>4. ZesaruxTypes'
  BY <1>1, <1>2, <1>3, TypesTurned
<1>5. InTurn'
  <2>1. queue' = queue /\ (running' => running)
    BY <1>3 DEF ZesaruxStays
  <2>. QED
    BY <1>1, <1>3, <2>1, InTurnTurned
<1>6. OpsInv'
  BY <1>1, <1>3, OpsTail
<1>. QED
  BY <1>4, <1>5, <1>6 DEF RequestsInv

RunEnded ==
  /\ ~running /\ Todo("run") # <<>> /\ Todo("run")[1].op = "run" /\ requests["run"].waits
  /\ \A i \in 1..Len(queue) : queue[i] # "run"
  /\ StepDone("run") /\ BreakpointsStay /\ ResultStays
  /\ UNCHANGED <<queue, condition, on, running, level, returned, restored, requestsOverlapped>>

LEMMA RunEndsDoes ==
  ASSUME RequestsInv, Zesarux!RunEnds
  PROVE  RunEnded
<1>1. Todo("run") # <<>> /\ requests["run"].waits /\ Zesarux!Next1("run").op = "run" /\ ~running
  BY DEF Zesarux!RunEnds, Zesarux!Busy, Todo
<1>2. Zesarux!Next1("run") = Todo("run")[1]
  <2>1. PICK op : op = Todo("run")[1]
    OBVIOUS
  <2>. QED
    BY <1>1, <2>1, HeadsAre, RequestsAre DEF RequestsInv
<1>3. \A i \in 1..Len(queue) : queue[i] # "run"
  <2>1. queue \in Seq(Zesarux!Requests) /\ "run" \notin Zesarux!Range(queue)
    BY DEF RequestsInv, ZesaruxTypes, Zesarux!RunEnds
  <2>. QED
    BY <2>1 DEF Zesarux!Range
<1>4. Turned("run", Tail(Todo("run")), FALSE)
  BY <1>1, AnsweredTurns, RequestsAre DEF Zesarux!RunEnds, RequestsInv
<1>5. /\ BreakpointsStay /\ ResultStays
      /\ UNCHANGED <<queue, condition, on, running, level, returned, restored, requestsOverlapped>>
  BY DEF Zesarux!RunEnds, Zesarux!brk, Zesarux!hist, BreakpointsStay, ResultStays
<1>. QED
  BY <1>1, <1>2, <1>3, <1>4, <1>5 DEF RunEnded, StepDone

LEMMA RunEndedKeeps ==
  ASSUME RequestsInv, RunEnded
  PROVE  RequestsInv'
<1>1. "run" \in Zesarux!Requests /\ Turned("run", Tail(Todo("run")), FALSE) /\ Todo("run") # <<>>
  BY RequestsAre DEF RunEnded, StepDone
<1>2. /\ requests' \in [Zesarux!Requests -> Request] /\ \A u \in Zesarux!Requests \ {"run"} : requests'[u] = requests[u]
      /\ ~requests'["run"].waits
  BY <1>1 DEF Turned
<1>3. ZesaruxTypes'
  BY <1>2 DEF RunEnded, BreakpointsStay, ResultStays, RequestsInv, ZesaruxTypes
<1>4. InTurn'
  <2>1. queue' = queue /\ ~running' /\ \A i \in 1..Len(queue) : queue[i] # "run" /\ queue[i] \in Zesarux!Requests
    BY DEF RunEnded, RequestsInv, ZesaruxTypes
  <2>2. \A i \in 1..Len(queue) : requests'[queue[i]].waits
    BY <1>2, <2>1 DEF RequestsInv, InTurn
  <2>3. \A u \in Zesarux!Requests : requests'[u].waits => requests'[u] = requests[u] /\ requests[u].waits
    BY <1>2
  <2>. QED
    BY <2>1, <2>2, <2>3 DEF RequestsInv, InTurn, Todo
<1>5. OpsInv'
  <2>1. ZesaruxTypes /\ OpsInv /\ zesaruxList' = zesaruxList /\ restored' = restored
    BY DEF RequestsInv, RunEnded, BreakpointsStay
  <2>. QED
    BY <1>1, <2>1, OpsTail
<1>. QED
  BY <1>3, <1>4, <1>5 DEF RequestsInv

\* The machine goes on, or is stopped by the user.
MachineMoves ==
  /\ running /\ running' \in BOOLEAN /\ level' \in Nat /\ returned' \in BOOLEAN
  /\ fired' \in SUBSET (1..(MaxId + 1)) /\ result' \in Results /\ result'.kind = result.kind /\ result'.from = result.from
  /\ result'.reason = result.reason /\ (result.paused => result'.paused)
  /\ running' \/ fired' # {} \/ result'.paused
  /\ BreakpointsStay /\ UNCHANGED <<requests, queue, condition, on, restored, requestsOverlapped>>

LEMMA MachineDoes ==
  ASSUME RequestsInv, Zesarux!Instruction \/ Zesarux!pause
  PROVE  MachineMoves
<1>1. /\ result \in Results /\ fired \in SUBSET (1..(MaxId + 1)) /\ on \in SUBSET (1..(MaxId + 1)) /\ level \in Nat
      /\ returned \in BOOLEAN
  BY DEF RequestsInv, ZesaruxTypes
<1>2. CASE Zesarux!Instruction
  <2>1. /\ running /\ level' \in {level - 1, level, level + 1} \cap (0..MaxLevel) /\ returned' = (level' < level)
        /\ fired' \subseteq on /\ running' = (fired' = {}) /\ result' = result
        /\ BreakpointsStay /\ UNCHANGED <<requests, queue, condition, on, restored, requestsOverlapped>>
    BY <1>2 DEF Zesarux!Instruction, Zesarux!brk, Zesarux!hist, BreakpointsStay
  <2>2. running' \in BOOLEAN /\ returned' \in BOOLEAN
    <3>1. running' = TRUE \/ running' = FALSE
      BY <2>1, Zenon
    <3>2. returned' = TRUE \/ returned' = FALSE
      <4>1. CASE level' < level
        BY <2>1, <4>1
      <4>2. CASE ~(level' < level)
        BY <2>1, <4>2
      <4>. QED
        BY <4>1, <4>2
    <3>. QED
      BY <3>1, <3>2
  <2>3. level' \in Nat
    BY <2>1, ZesaruxAssumption
  <2>4. running' \/ fired' # {}
    BY <2>1, Zenon
  <2>. QED
    BY <1>1, <2>1, <2>2, <2>3, <2>4 DEF MachineMoves
<1>3. CASE Zesarux!pause
  <2>1. /\ running /\ running' = FALSE /\ result' = [result EXCEPT !.paused = TRUE]
        /\ BreakpointsStay /\ UNCHANGED <<requests, queue, condition, on, level, returned, fired, restored, requestsOverlapped>>
    BY <1>3 DEF Zesarux!pause, Zesarux!brk, Zesarux!hist, BreakpointsStay
  <2>2. /\ result' \in Results /\ result'.kind = result.kind /\ result'.from = result.from /\ result'.paused
        /\ result'.reason = result.reason
    BY <1>1, <2>1 DEF Results
  <2>. QED
    BY <1>1, <2>1, <2>2 DEF MachineMoves
<1>. QED
  BY <1>2, <1>3

LEMMA MachineKeeps ==
  ASSUME RequestsInv, MachineMoves
  PROVE  RequestsInv'
<1>1. ZesaruxTypes'
  BY DEF RequestsInv, ZesaruxTypes, MachineMoves, BreakpointsStay
<1>2. InTurn'
  BY DEF RequestsInv, InTurn, MachineMoves, Todo
<1>3. OpsInv'
  BY DEF RequestsInv, OpsInv, MachineMoves, BreakpointsStay, Todo
<1>. QED
  BY <1>1, <1>2, <1>3 DEF RequestsInv

LEMMA StutterKeeps ==
  ASSUME RequestsInv, UNCHANGED zesaruxVars
  PROVE  RequestsInv'
<1>1. ZesaruxTypes'
  BY DEF RequestsInv, ZesaruxTypes, zesaruxVars
<1>2. InTurn'
  BY DEF RequestsInv, InTurn, zesaruxVars, Todo
<1>3. OpsInv'
  BY DEF RequestsInv, OpsInv, zesaruxVars, Todo
<1>. QED
  BY <1>1, <1>2, <1>3 DEF RequestsInv

\* Every step of ZEsarUX and of the requests is one of these.
ZesaruxStep ==
  \/ \E t \in EditRequests : \E ops : EditBegun(t, ops)
  \/ \E t \in SwitchRequests : \E ops : SwitchBegun(t, ops)
  \/ \E kind, ops : RunBegun(kind, ops)
  \/ \E ops : RestoreBegun(ops)
  \/ \E t \in Zesarux!Requests : LocalStays /\ LocalStep(t)
  \/ \E t \in Zesarux!Requests : Zesarux!Send(t)
  \/ \E t \in Zesarux!Requests : Executed(t)
  \/ Resolved \/ RunEnded \/ MachineMoves \/ UNCHANGED zesaruxVars

LEMMA ZesaruxSteps ==
  ASSUME RequestsInv, Zesarux!Next \/ UNCHANGED zesaruxVars
  PROVE  ZesaruxStep
<1>1. CASE \E t \in {"edit", "edit2"} : Zesarux!setBreakpoints(t)
  BY <1>1, EditBegins DEF EditRequests, ZesaruxStep
<1>2. CASE \E t \in {"switch", "switch2"}, enable \in BOOLEAN : Zesarux!enableAssertionBreakpoints(t, enable)
  BY <1>2, SwitchBegins DEF SwitchRequests, ZesaruxStep
<1>3. CASE Zesarux!continue \/ Zesarux!stepOver \/ Zesarux!stepInto \/ Zesarux!stepOut
  BY <1>3, RunBegins DEF ZesaruxStep
<1>4. CASE Zesarux!stateRestore
  BY <1>4, RestoreBegins DEF ZesaruxStep
<1>5. CASE \E t \in Zesarux!Requests : Zesarux!Local(t) \/ Zesarux!Send(t)
  BY <1>5, LocalDoes DEF ZesaruxStep
<1>6. CASE Zesarux!resolve
  BY <1>6, ResolveDoes DEF ZesaruxStep
<1>7. CASE Zesarux!Execute
  BY <1>7, ExecuteDoes DEF ZesaruxStep
<1>8. CASE Zesarux!Instruction \/ Zesarux!pause
  BY <1>8, MachineDoes DEF ZesaruxStep
<1>9. CASE Zesarux!RunEnds
  BY <1>9, RunEndsDoes DEF ZesaruxStep
<1>10. CASE UNCHANGED zesaruxVars
  BY <1>10 DEF ZesaruxStep
<1>. QED
  BY <1>1, <1>2, <1>3, <1>4, <1>5, <1>6, <1>7, <1>8, <1>9, <1>10, Zenon DEF Zesarux!Next

LEMMA RequestsKept ==
  ASSUME RequestsInv, ZesaruxStep
  PROVE  RequestsInv'
BY EditBegunKeeps, SwitchBegunKeeps, RunBegunKeeps, RestoreBegunKeeps, LocalKeeps, SendKeeps, ExecutedKeeps,
   ResolvedKeeps, RunEndedKeeps, MachineKeeps, StutterKeeps, Zenon DEF ZesaruxStep

LEMMA RequestsBegin ==
  ASSUME Zesarux!Init
  PROVE  RequestsInv
<1>1. requests = [t \in Zesarux!Requests |-> Zesarux!Idle] /\ zesaruxList = {} /\ queue = <<>> /\ running = FALSE
  BY DEF Zesarux!Init
<1>2. Zesarux!Idle \in Request /\ Zesarux!Idle.ops = <<>> /\ ~Zesarux!Idle.waits
  BY DEF Zesarux!Idle, Request
<1>3. \A t \in Zesarux!Requests : requests[t] \in Request /\ Todo(t) = <<>> /\ ~requests[t].waits
  BY <1>1, <1>2 DEF Todo
<1>4. ZesaruxTypes
  <2>1. freeBreakpointIds \in Seq(Numbers)
    BY ZesaruxAssumption DEF Zesarux!Init, Numbers
  <2>2. zesaruxList \in SUBSET Entries /\ IsFiniteSet(zesaruxList)
    BY <1>1, FS_EmptySet
  <2>3. zesaruxId \in [Assertions -> 0..MaxId]
    <3>1. 0 \in 0..MaxId
      BY ZesaruxAssumption
    <3>. QED
      BY <3>1 DEF Zesarux!Init
  <2>4. requests \in [Zesarux!Requests -> Request] /\ queue \in Seq(Zesarux!Requests)
    BY <1>1, <1>2
  <2>5. condition \in [1..(MaxId + 1) -> Conditions]
    <3>1. condition = [i \in 1..(MaxId + 1) |-> Zesarux!None]
      BY IdsTyped DEF Zesarux!Init
    <3>. QED
      BY <3>1, ConditionsTyped
  <2>6. /\ on \in SUBSET (1..(MaxId + 1)) /\ running \in BOOLEAN /\ returned \in BOOLEAN /\ level \in Nat
        /\ fired \in SUBSET (1..(MaxId + 1)) /\ restored \in BOOLEAN /\ requestsOverlapped \in BOOLEAN
    BY DEF Zesarux!Init
  <2>7. result \in Results
    BY DEF Zesarux!Init, Results
  <2>. QED
    BY <2>1, <2>2, <2>3, <2>4, <2>5, <2>6, <2>7 DEF ZesaruxTypes
<1>5. InTurn
  BY <1>1, <1>3 DEF InTurn
<1>6. OpsInv
  <2>1. PICK none \in Seq(Ops) : none = <<>> /\ Len(none) = 0
    <3>1. <<>> \in Seq(Ops) /\ Len(<<>>) = 0
      OBVIOUS
    <3>. QED
      BY <3>1
  <2>2. EditOps(none, zesaruxList) /\ SwitchOps(none) /\ FilesOf(none) = {}
    BY <2>1 DEF EditOps, SwitchOps, Shape, FilesOf
  <2>3. \A t \in Zesarux!Requests : OpsOk(t, none, zesaruxList, restored)
    BY <2>1, <2>2 DEF OpsOk
  <2>. QED
    BY <1>3, <2>1, <2>2, <2>3, RequestsAre DEF OpsInv
<1>. QED
  BY <1>4, <1>5, <1>6 DEF RequestsInv

-------------------------------------------------------------------------------
(* Steps over and out of calls.  Their breakpoint is enabled from the       *)
(* command that enables it to the one that disables it, and between the two *)
(* the run ends only when something fires or the user pauses.               *)

RunOwn == result.kind = "over" \/ (result.kind = "out" /\ result.from # 0)
WentBack ==
  /\ result.kind = "over" => level <= result.from
  /\ result.kind = "out" => returned /\ level < result.from
RunQueued == \E i \in 1..Len(queue) : queue[i] = "run"

RunInv ==
  /\ RunOwn => StepOps(Todo("run"))
  /\ ~RunOwn => PlainOps(Todo("run"))
  /\ MaxId + 1 \in on => RunOwn /\ Len(Todo("run")) \in 2..4
  /\ RunOwn /\ Len(Todo("run")) \in 1..3 => fired # {} \/ result.paused
  /\ RunOwn /\ Len(Todo("run")) = 4 /\ requests["run"].waits /\ ~running /\ ~RunQueued => fired # {} \/ result.paused
  /\ RunOwn /\ Len(Todo("run")) = 0 /\ result.reason = {} /\ ~result.paused => WentBack

LEMMA StepHead ==
  ASSUME NEW ops \in Seq(Ops), ops # <<>>, StepOps(ops)
  PROVE  /\ Len(ops) \in 1..7 /\ ops[1].op = StepName(Len(ops)) /\ StepOps(Tail(ops)) /\ Len(Tail(ops)) = Len(ops) - 1
         /\ ops[1].op \in {"set-breakpoint", "enable-breakpoint", "disable-breakpoint"} => ops[1].id = MaxId + 1
<1>1. /\ Tail(ops) \in Seq(Ops) /\ Len(Tail(ops)) = Len(ops) - 1 /\ Len(ops) \in Nat /\ Len(ops) >= 1
      /\ \A i \in 1..Len(Tail(ops)) : Tail(ops)[i] = ops[i + 1]
  BY TailOf
<1>2. Len(ops) \in 1..7 /\ 1 \in 1..Len(ops) /\ Len(ops) - 1 + 1 = Len(ops)
  <2>1. Len(ops) <= 7
    BY DEF StepOps
  <2>2. PICK n : n = Len(ops)
    OBVIOUS
  <2>3. n \in Nat /\ n >= 1 /\ n <= 7
    BY <1>1, <2>1, <2>2
  <2>4. n \in 1..7 /\ 1 \in 1..n /\ n - 1 + 1 = n
    BY <2>3
  <2>. QED
    BY <2>2, <2>4
<1>3. ops[1].op = StepName(Len(ops))
  BY <1>2 DEF StepOps
<1>4. \A i \in 1..Len(Tail(ops)) : i + 1 \in 1..Len(ops) /\ Len(ops) - (i + 1) + 1 = Len(Tail(ops)) - i + 1
  BY <1>1
<1>5. StepOps(Tail(ops))
  BY <1>1, <1>2, <1>4 DEF StepOps
<1>. QED
  BY <1>1, <1>2, <1>3, <1>5 DEF StepOps

LEMMA StepNames ==
  /\ StepName(7) = "get" /\ StepName(6) = "set-breakpoint" /\ StepName(5) = "enable-breakpoint" /\ StepName(4) = "run"
  /\ StepName(3) = "get" /\ StepName(2) = "disable-breakpoint" /\ StepName(1) = "resolve"
BY DEF StepName

LEMMA PlainTail ==
  ASSUME NEW ops \in Seq(Ops), ops # <<>>, PlainOps(ops)
  PROVE  PlainOps(Tail(ops)) /\ ops[1].op \in {"get", "run", "cpu-step", "resolve"}
<1>1. /\ Len(Tail(ops)) = Len(ops) - 1 /\ Len(ops) \in Nat /\ Len(ops) >= 1
      /\ \A i \in 1..Len(Tail(ops)) : Tail(ops)[i] = ops[i + 1]
  BY TailOf
<1>2. 1 \in 1..Len(ops) /\ \A i \in 1..Len(Tail(ops)) : i + 1 \in 1..Len(ops)
  BY <1>1
<1>. QED
  BY <1>1, <1>2 DEF PlainOps

\* A step that is not about the run.
LEMMA RunFrame ==
  ASSUME RunInv, requests'["run"] = requests["run"], result' = result, fired' = fired, level' = level, returned' = returned,
         running' = running, MaxId + 1 \in on' => MaxId + 1 \in on, RunQueued => RunQueued'
  PROVE  RunInv'
BY DEF RunInv, RunOwn, WentBack, Todo

LEMMA LocalTurns ==
  ASSUME RequestsInv, NEW t \in Zesarux!Requests, LocalStep(t)
  PROVE  t # "run" /\ Todo(t) # <<>> /\ ~requests[t].waits /\ \E todo : Turned(t, todo, FALSE)
<1>1. PICK op : op = Todo(t)[1]
  OBVIOUS
<1>2. /\ Todo(t) # <<>> /\ ~requests[t].waits
      /\ op.op \in {"take", "remove", "listed", "unlisted", "enable", "disable", "numbered", "unnumbered", "free", "renumber"}
      /\ \E todo : Turned(t, todo, FALSE)
  BY <1>1 DEF LocalStep, NothingDone, NumberTaken, RemovalBegun, EntryListed, EntryUnlisted, NumberFreed,
              AssertionNumbered, AssertionUnnumbered, NumbersReset, Acts, StepDone, Group
<1>3. /\ op.op \in {"take", "remove", "listed", "unlisted"} => t \in EditRequests
      /\ op.op \in {"enable", "disable", "numbered", "unnumbered"} => t \in SwitchRequests
      /\ op.op = "free" => t \in EditRequests \cup SwitchRequests
      /\ op.op \in {"renumber", "clear"} => t = "restore"
  BY <1>1, <1>2, HeadsAre DEF RequestsInv
<1>. QED
  BY <1>2, <1>3, RequestsAre DEF EditRequests, SwitchRequests

LEMMA RunExecuted ==
  ASSUME RequestsInv, RunInv, NEW t \in Zesarux!Requests, Executed(t)
  PROVE  RunInv'
<1>1. PICK op : op = Todo(t)[1]
  OBVIOUS
<1>3. /\ queue # <<>> /\ t = queue[1] /\ queue' = Tail(queue) /\ Todo(t) # <<>> /\ requests[t].waits
      /\ op.op = "run" => running' = TRUE /\ requests' = requests
      /\ op.op # "run" => StepDone(t) /\ running' = running
      /\ op.op = "enable-breakpoint" => on' = on \cup {op.id}
      /\ op.op = "disable-breakpoint" => on' = on \ {op.id}
      /\ op.op = "clear" => on' = {}
      /\ op.op \notin {"enable-breakpoint", "disable-breakpoint", "clear"} => on' = on
      /\ op.op # "cpu-step" => level' = level
      /\ result' = result /\ fired' = fired /\ returned' = returned
  BY <1>1 DEF Executed, ResultStays
<1>4. queue \in Seq(Zesarux!Requests) /\ Todo("run") \in Seq(Ops) /\ Zesarux!Command(op)
  BY <1>1, <1>3, TodoTyped, RequestsAre DEF RequestsInv, ZesaruxTypes, InTurn
<1>5. CASE t # "run"
  <2>1. op.op \notin {"run", "cpu-step"}
    <3>1. op.op \in {"run", "cpu-step", "resolve"} => t = "run"
      BY <1>1, <1>3, HeadsAre DEF RequestsInv
    <3>. QED
      BY <1>5, <3>1
  <2>2. requests'["run"] = requests["run"]
    BY <1>3, <1>5, <2>1, RequestsAre DEF StepDone, Turned
  <2>3. MaxId + 1 \in on' => MaxId + 1 \in on
    <3>1. CASE op.op = "enable-breakpoint"
      <4>1. t # "restore"
        BY <1>1, <1>3, <3>1, HeadsAre DEF RequestsInv
      <4>2. t \in EditRequests \cup SwitchRequests
        BY <1>5, <4>1, RequestsAre DEF EditRequests, SwitchRequests
      <4>3. op.id \in Numbers
        BY <1>1, <1>3, <3>1, <4>2, HeadsAre DEF RequestsInv
      <4>. QED
        BY <1>3, <3>1, <4>3, IdsTyped
    <3>2. CASE op.op # "enable-breakpoint"
      BY <1>3, <3>2
    <3>. QED
      BY <3>1, <3>2
  <2>4. RunQueued => RunQueued'
    <3>1. SUFFICES ASSUME NEW i \in 1..Len(queue), queue[i] = "run" PROVE RunQueued'
      BY DEF RunQueued
    <3>2. /\ Len(Tail(queue)) = Len(queue) - 1 /\ Len(queue) \in Nat /\ Len(queue) >= 1
          /\ \A j \in 1..Len(Tail(queue)) : Tail(queue)[j] = queue[j + 1]
      BY <1>3, <1>4, TailOf
    <3>3. i # 1
      BY <1>3, <1>5, <3>1
    <3>4. i - 1 \in 1..Len(Tail(queue)) /\ (i - 1) + 1 = i
      BY <3>2, <3>3
    <3>5. i - 1 \in 1..Len(queue') /\ queue'[i - 1] = "run"
      BY <1>3, <3>1, <3>2, <3>4
    <3>. QED
      BY <3>5 DEF RunQueued
  <2>5. running' = running /\ level' = level
    BY <1>3, <2>1
  <2>. QED
    BY <1>3, <2>2, <2>3, <2>4, <2>5, RunFrame
<1>6. CASE t = "run" /\ op.op = "run"
  <2>1. requests' = requests /\ running' = TRUE /\ on' = on /\ level' = level
    BY <1>3, <1>6
  <2>. QED
    BY <1>3, <2>1 DEF RunInv, RunOwn, WentBack, Todo
<1>7. CASE t = "run" /\ op.op # "run"
  <2>1. requests'["run"].ops = Tail(Todo("run")) /\ requests'["run"].waits = FALSE /\ op = Todo("run")[1] /\ Todo("run") # <<>>
    BY <1>1, <1>3, <1>7 DEF StepDone, Turned
  <2>2. CASE RunOwn
    <3>1. PICK n : n = Len(Todo("run"))
      OBVIOUS
    <3>2. /\ n \in 1..7 /\ op.op = StepName(n) /\ StepOps(Tail(Todo("run"))) /\ Len(Tail(Todo("run"))) = n - 1
          /\ op.op \in {"set-breakpoint", "enable-breakpoint", "disable-breakpoint"} => op.id = MaxId + 1
      BY <1>4, <2>1, <2>2, <3>1, StepHead DEF RunInv
    <3>3. n # 1 /\ n # 4
      BY <1>4, <1>7, <3>2, StepNames DEF Zesarux!Command
    <3>4. n = 2 \/ n = 3 \/ n = 5 \/ n = 6 \/ n = 7
      BY <3>2, <3>3
    <3>5. op.op # "cpu-step" /\ level' = level
      BY <1>3, <3>2, <3>4, StepNames
    <3>6. MaxId + 1 \in on' => n - 1 \in 2..4
      <4>1. MaxId + 1 \in on => n \in 2..4
        BY <3>1 DEF RunInv
      <4>2. CASE n = 2
        BY <1>3, <3>2, <4>2, StepNames
      <4>3. CASE n = 3
        BY <4>3
      <4>4. CASE n = 5
        BY <4>4
      <4>5. CASE n \in {6, 7}
        <5>1. on' = on
          BY <1>3, <3>2, <4>5, StepNames
        <5>. QED
          BY <4>1, <4>5, <5>1
      <4>. QED
        BY <3>4, <4>2, <4>3, <4>4, <4>5
    <3>7. n - 1 \in 1..3 => fired # {} \/ result.paused
      <4>1. n - 1 \in 1..3 => n \in 1..3
        BY <3>4
      <4>. QED
        BY <2>2, <3>1, <4>1 DEF RunInv
    <3>8. n - 1 # 0
      BY <3>4
    <3>9. RunOwn' /\ fired' = fired /\ result' = result
      BY <1>3, <2>2 DEF RunOwn
    <3>. QED
      BY <2>1, <3>2, <3>6, <3>7, <3>8, <3>9 DEF RunInv, Todo
  <2>3. CASE ~RunOwn
    <3>1. PlainOps(Tail(Todo("run"))) /\ op.op \in {"get", "run", "cpu-step", "resolve"}
      BY <1>4, <2>1, <2>3, PlainTail DEF RunInv
    <3>2. on' = on /\ MaxId + 1 \notin on /\ ~RunOwn'
      BY <1>3, <2>3, <3>1 DEF RunInv, RunOwn
    <3>. QED
      BY <2>1, <3>1, <3>2 DEF RunInv, Todo
  <2>. QED
    BY <2>2, <2>3
<1>. QED
  BY <1>5, <1>6, <1>7

LEMMA RunKept ==
  ASSUME RequestsInv, RunInv, ZesaruxStep
  PROVE  RunInv'
<1>1. Todo("run") \in Seq(Ops) /\ "run" \in Zesarux!Requests /\ queue \in Seq(Zesarux!Requests)
  BY TodoTyped, RequestsAre DEF RequestsInv, ZesaruxTypes
<1>2. ASSUME NEW t, t # "run", NEW todo, NEW waits, Turned(t, todo, waits), ZesaruxStays, ResultStays PROVE RunInv'
  <2>1. requests'["run"] = requests["run"]
    BY <1>1, <1>2 DEF Turned
  <2>2. /\ result' = result /\ fired' = fired /\ level' = level /\ returned' = returned /\ running' = running
        /\ on' = on /\ queue' = queue
    BY <1>2 DEF ZesaruxStays, ResultStays
  <2>. QED
    BY <2>1, <2>2, RunFrame DEF RunQueued
<1>3. \A t \in EditRequests \cup SwitchRequests : t # "run"
  BY DEF EditRequests, SwitchRequests
<1>4. CASE \E t \in EditRequests : \E ops : EditBegun(t, ops)
  BY <1>2, <1>3, <1>4 DEF EditBegun, RequestBegun
<1>5. CASE \E t \in SwitchRequests : \E ops : SwitchBegun(t, ops)
  <2>1. PICK t \in SwitchRequests : \E ops : SwitchBegun(t, ops)
    BY <1>5
  <2>. PICK ops : SwitchBegun(t, ops)
    BY <2>1
  <2>2. Turned(t, ops, FALSE) /\ ZesaruxStays /\ ResultStays
    BY DEF SwitchBegun, RequestBegun
  <2>. QED
    BY <1>2, <1>3, <2>2
<1>6. CASE \E ops : RestoreBegun(ops)
  BY <1>2, <1>6 DEF RestoreBegun, RequestBegun
<1>7. CASE \E t \in Zesarux!Requests : LocalStays /\ LocalStep(t)
  <2>1. PICK t \in Zesarux!Requests : LocalStays /\ LocalStep(t)
    BY <1>7
  <2>2. t # "run" /\ \E todo : Turned(t, todo, FALSE)
    BY <2>1, LocalTurns
  <2>. QED
    BY <1>2, <2>1, <2>2 DEF LocalStays
<1>8. CASE \E kind, ops : RunBegun(kind, ops)
  <2>1. PICK kind, ops : RunBegun(kind, ops)
    BY <1>8
  <2>2. /\ Todo("run") = <<>> /\ ops \in Seq(Ops) /\ requests'["run"].ops = ops /\ requests'["run"].waits = FALSE
        /\ on' = on /\ level \in Nat
    BY <2>1 DEF RunBegun, RequestBegun, Turned, ZesaruxStays, RequestsInv, ZesaruxTypes
  <2>3. Len(Todo("run")) = 0
    BY <1>1, <2>2, NoElements
  <2>4. MaxId + 1 \notin on'
    <3>1. Len(Todo("run")) \notin 2..4
      BY <2>3
    <3>. QED
      BY <2>2, <3>1 DEF RunInv
  <2>5. PICK r : r = result'
    OBVIOUS
  <2>6. r.kind = kind /\ r.from = level
    BY <2>1, <2>5 DEF RunBegun
  <2>7. RunOwn' = (kind = "over" \/ (kind = "out" /\ level # 0))
    BY <2>5, <2>6 DEF RunOwn
  <2>8. CASE kind = "over" \/ (kind = "out" /\ level # 0)
    <3>1. StepOps(ops) /\ Len(ops) = 7
      BY <2>1, <2>8 DEF RunBegun
    <3>2. Len(ops) \notin 1..3 /\ Len(ops) # 4 /\ Len(ops) # 0
      BY <3>1
    <3>3. RunOwn' /\ Todo("run")' = ops
      BY <2>2, <2>7, <2>8, Zenon DEF Todo
    <3>. QED
      BY <2>4, <3>1, <3>2, <3>3 DEF RunInv
  <2>9. CASE ~(kind = "over" \/ (kind = "out" /\ level # 0))
    <3>1. PlainOps(ops)
      BY <2>1, <2>9 DEF RunBegun
    <3>. QED
      BY <2>2, <2>4, <2>7, <2>9, <3>1 DEF RunInv, Todo
  <2>. QED
    BY <2>8, <2>9
<1>9. CASE \E t \in Zesarux!Requests : Zesarux!Send(t)
  <2>1. PICK t \in Zesarux!Requests : Zesarux!Send(t)
    BY <1>9
  <2>2. /\ Turned(t, Todo(t), TRUE)
        /\ queue' = Append(queue, t) /\ UNCHANGED <<condition, on, running, level, returned, fired, result>>
    BY <2>1, SendTurns DEF Zesarux!Send, Zesarux!mach, RequestsInv
  <2>3. /\ Len(queue) \in Nat /\ Len(queue') = Len(queue) + 1 /\ queue'[Len(queue) + 1] = t
        /\ \A i \in 1..Len(queue) : queue'[i] = queue[i]
    BY <1>1, <2>2, AppendProperties
  <2>4. (RunQueued => RunQueued') /\ (t = "run" => RunQueued')
    <3>1. \A i \in 1..Len(queue) : i \in 1..Len(queue')
      BY <2>3
    <3>2. Len(queue) + 1 \in 1..Len(queue')
      BY <2>3
    <3>. QED
      BY <2>3, <3>1, <3>2 DEF RunQueued
  <2>5. CASE t = "run"
    <3>1. requests'["run"].ops = Todo("run") /\ RunQueued'
      BY <2>2, <2>4, <2>5 DEF Turned
    <3>. QED
      BY <2>2, <3>1 DEF RunInv, RunOwn, WentBack, Todo
  <2>6. CASE t # "run"
    <3>1. requests'["run"] = requests["run"]
      BY <1>1, <2>2, <2>6 DEF Turned
    <3>. QED
      BY <2>2, <2>4, <3>1, RunFrame
  <2>. QED
    BY <2>5, <2>6
<1>10. CASE \E t \in Zesarux!Requests : Executed(t)
  BY <1>10, RunExecuted
<1>11. CASE Resolved
  <2>1. /\ Todo("run") # <<>> /\ Todo("run")[1].op = "resolve"
        /\ requests'["run"].ops = Tail(Todo("run")) /\ requests'["run"].waits = FALSE
        /\ fired' = fired /\ on' = on /\ level' = level /\ returned' = returned
        /\ result'.kind = result.kind /\ result'.from = result.from /\ result'.paused = result.paused
    BY <1>11 DEF Resolved, Acts, StepDone, Turned, ZesaruxStays
  <2>2. CASE RunOwn
    <3>1. PICK n : n = Len(Todo("run"))
      OBVIOUS
    <3>2. n \in 1..7 /\ StepName(n) = "resolve" /\ StepOps(Tail(Todo("run"))) /\ Len(Tail(Todo("run"))) = n - 1
      BY <1>1, <2>1, <2>2, <3>1, StepHead DEF RunInv
    <3>3. n = 1
      <4>1. n = 1 \/ n = 2 \/ n = 3 \/ n = 4 \/ n = 5 \/ n = 6 \/ n = 7
        BY <3>2
      <4>. QED
        BY <3>2, <4>1, StepNames
    <3>4. fired # {} \/ result.paused
      BY <2>2, <3>1, <3>3 DEF RunInv
    <3>5. MaxId + 1 \notin on
      BY <3>1, <3>3 DEF RunInv
    <3>6. RunOwn'
      BY <2>1, <2>2 DEF RunOwn
    <3>7. result'.reason = {} /\ ~result'.paused => WentBack'
      <4>1. SUFFICES ASSUME result'.reason = {}, ~result'.paused PROVE WentBack'
        OBVIOUS
      <4>2. fired # {}
        BY <2>1, <3>4, <4>1
      <4>3. result.from \in Nat /\ level \in Nat /\ returned \in BOOLEAN
        BY DEF RequestsInv, ZesaruxTypes, Results
      <4>4. /\ ~(result.kind = "over" /\ level > result.from)
            /\ ~(result.kind = "out" /\ result.from > 0 /\ (level > result.from - 1 \/ ~returned))
        BY <1>11, <4>1, <4>2 DEF Resolved
      <4>5. result.kind = "out" => result.from > 0
        BY <2>2, <4>3 DEF RunOwn
      <4>6. /\ result.kind = "over" => level <= result.from
            /\ result.kind = "out" => returned /\ level < result.from
        BY <4>3, <4>4, <4>5
      <4>. QED
        BY <2>1, <4>6 DEF WentBack
    <3>8. PICK rest : rest = Tail(Todo("run"))
      OBVIOUS
    <3>9. StepOps(rest) /\ Len(rest) = 0 /\ Todo("run")' = rest
      BY <2>1, <3>2, <3>3, <3>8 DEF Todo
    <3>10. Len(rest) \notin 1..3 /\ Len(rest) # 4 /\ MaxId + 1 \notin on'
      BY <2>1, <3>5, <3>9
    <3>. QED
      BY <3>6, <3>7, <3>9, <3>10 DEF RunInv
  <2>3. CASE ~RunOwn
    <3>1. PlainOps(Tail(Todo("run"))) /\ MaxId + 1 \notin on'
      BY <1>1, <2>1, <2>3, PlainTail DEF RunInv
    <3>2. ~RunOwn'
      BY <2>1, <2>3 DEF RunOwn
    <3>. QED
      BY <2>1, <3>1, <3>2 DEF RunInv, Todo
  <2>. QED
    BY <2>2, <2>3
<1>12. CASE RunEnded
  <2>1. /\ Todo("run") # <<>> /\ Todo("run")[1].op = "run" /\ requests["run"].waits /\ ~running /\ ~RunQueued
        /\ requests'["run"].ops = Tail(Todo("run")) /\ requests'["run"].waits = FALSE
        /\ fired' = fired /\ on' = on /\ level' = level /\ returned' = returned /\ result' = result
    BY <1>12 DEF RunEnded, StepDone, Turned, ResultStays, RunQueued
  <2>2. CASE RunOwn
    <3>1. PICK n : n = Len(Todo("run"))
      OBVIOUS
    <3>2. n \in 1..7 /\ StepName(n) = "run" /\ StepOps(Tail(Todo("run"))) /\ Len(Tail(Todo("run"))) = n - 1
      BY <1>1, <2>1, <2>2, <3>1, StepHead DEF RunInv
    <3>3. n = 4
      <4>1. n = 1 \/ n = 2 \/ n = 3 \/ n = 4 \/ n = 5 \/ n = 6 \/ n = 7
        BY <3>2
      <4>. QED
        BY <3>2, <4>1, StepNames
    <3>4. fired # {} \/ result.paused
      BY <2>1, <2>2, <3>1, <3>3 DEF RunInv
    <3>5. RunOwn' /\ Len(Tail(Todo("run"))) = 3
      BY <2>1, <2>2, <3>2, <3>3 DEF RunOwn
    <3>. QED
      BY <2>1, <3>2, <3>4, <3>5 DEF RunInv, Todo
  <2>3. CASE ~RunOwn
    <3>1. PlainOps(Tail(Todo("run"))) /\ MaxId + 1 \notin on'
      BY <1>1, <2>1, <2>3, PlainTail DEF RunInv
    <3>2. ~RunOwn'
      BY <2>1, <2>3 DEF RunOwn
    <3>. QED
      BY <2>1, <3>1, <3>2 DEF RunInv, Todo
  <2>. QED
    BY <2>2, <2>3
<1>13. CASE MachineMoves
  <2>1. /\ running /\ requests' = requests /\ on' = on /\ (running' \/ fired' # {} \/ result'.paused)
        /\ result'.kind = result.kind /\ result'.from = result.from
    BY <1>13 DEF MachineMoves
  <2>2. requests["run"].waits /\ Todo("run")[1].op = "run" /\ Todo("run") # <<>>
    BY <1>1, <2>1 DEF RequestsInv, InTurn
  <2>3. CASE RunOwn
    <3>1. PICK n : n = Len(Todo("run"))
      OBVIOUS
    <3>2. n \in 1..7 /\ StepName(n) = "run"
      BY <1>1, <2>2, <2>3, <3>1, StepHead DEF RunInv
    <3>3. n = 4
      <4>1. n = 1 \/ n = 2 \/ n = 3 \/ n = 4 \/ n = 5 \/ n = 6 \/ n = 7
        BY <3>2
      <4>. QED
        BY <3>2, <4>1, StepNames
    <3>4. RunOwn'
      BY <2>1, <2>3 DEF RunOwn
    <3>. QED
      BY <2>1, <2>3, <3>1, <3>3, <3>4 DEF RunInv, Todo
  <2>4. CASE ~RunOwn
    <3>1. ~RunOwn'
      BY <2>1, <2>4 DEF RunOwn
    <3>. QED
      BY <2>1, <2>4, <3>1 DEF RunInv, Todo
  <2>. QED
    BY <2>3, <2>4
<1>14. CASE UNCHANGED zesaruxVars
  BY <1>14 DEF RunInv, RunOwn, WentBack, RunQueued, Todo, zesaruxVars
<1>. QED
  BY <1>4, <1>5, <1>6, <1>7, <1>8, <1>9, <1>10, <1>11, <1>12, <1>13, <1>14, Zenon DEF ZesaruxStep

LEMMA RunInvBegins ==
  ASSUME Zesarux!Init
  PROVE  RunInv
<1>1. Todo("run") = <<>> /\ on = {} /\ result.kind = "none"
  BY RequestsAre DEF Zesarux!Init, Zesarux!Idle, Todo
<1>2. ~RunOwn /\ PlainOps(Todo("run"))
  BY <1>1 DEF RunOwn, PlainOps
<1>. QED
  BY <1>1, <1>2 DEF RunInv

LEMMA ComesBack ==
  ASSUME RequestsInv, RunInv
  PROVE  Zesarux!StepsComeBack
<1>1. SUFFICES ASSUME Todo("run") = <<>>
               PROVE  /\ MaxId + 1 \notin on
                      /\ result.reason = {} /\ ~result.paused =>
                           /\ result.kind = "over" => level <= result.from
                           /\ result.kind = "out" /\ result.from > 0 => returned /\ level < result.from
  BY IdsTyped DEF Zesarux!StepsComeBack, Zesarux!Stopped, Zesarux!Busy, Todo
<1>2. Len(Todo("run")) = 0
  BY <1>1
<1>3. result.kind = "over" \/ (result.kind = "out" /\ result.from > 0) => RunOwn
  BY DEF RunOwn
<1>. QED
  BY <1>2, <1>3 DEF RunInv, WentBack

-------------------------------------------------------------------------------
(* The numbers.  Each has one owner: the store, an entry of the list, an    *)
(* assertion, or the request that sets a breakpoint under it.               *)

Taking(ops) == ops # <<>> /\ ops[1].op \in {"set-breakpoint", "enable-breakpoint", "listed", "numbered"}
Undoing(ops) == ops # <<>> /\ ops[1].op \in {"unlisted", "unnumbered"}
Unlists(ops, b) == Undoing(ops) /\ Entry(ops[1]) = b
Unassigns(ops, a) == Undoing(ops) /\ ops[1].what.place[1] = a
Removes(ops, b) == Unlists(ops, b) \/ (ops # <<>> /\ ops[1].op = "free" /\ Entry(ops[2]) = b)

StoreOwned == {<<"store", i, freeBreakpointIds[i]>> : i \in 1..Len(freeBreakpointIds)}
ListOwned == {<<"list", b, b.id>> : b \in {c \in zesaruxList : \A t \in EditRequests : ~Unlists(Todo(t), c)}}
AssertionsOwned ==
  {<<"assertion", a, zesaruxId[a]>> :
     a \in {c \in Assertions : zesaruxId[c] # 0 /\ \A t \in SwitchRequests : ~Unassigns(Todo(t), c)}}
RequestsOwned == {<<"request", t, Todo(t)[1].id>> : t \in {u \in EditRequests \cup SwitchRequests : Taking(Todo(u))}}
Owned == StoreOwned \cup ListOwned \cup AssertionsOwned \cup RequestsOwned
OneOwner(O) == (\A p, q \in O : p[3] = q[3] => p = q) /\ {p[3] : p \in O} = Numbers

\* One switch is under way at a time; nobody else changes what it has found.
OneSwitch ==
  /\ \A t, u \in SwitchRequests : Todo(t) # <<>> /\ Todo(u) # <<>> => t = u
  /\ \A t \in SwitchRequests : \A i \in 1..Len(Todo(t)) :
       /\ Todo(t)[i].op = "numbered" => zesaruxId[Todo(t)[i].what.place[1]] = 0
       /\ Todo(t)[i].op = "unnumbered" => zesaruxId[Todo(t)[i].what.place[1]] = Todo(t)[i].id

\* ZEsarUX has the listed breakpoints, but for those that are being removed, and one that is listed
\* next.
SetThere ==
  /\ \A b \in zesaruxList : (\E t \in EditRequests : Removes(Todo(t), b))
                            \/ (b.id \in on /\ condition[b.id] = Zesarux!AtPlace(b.place))
  /\ \A t \in EditRequests : Todo(t) # <<>> =>
       /\ Todo(t)[1].op = "enable-breakpoint" => condition[Todo(t)[1].id] = Todo(t)[2].what
       /\ Todo(t)[1].op = "listed" => Todo(t)[1].id \in on /\ condition[Todo(t)[1].id] = Todo(t)[1].what

Calm == ~restored /\ ~requestsOverlapped
NumbersInv == Calm => OneOwner(Owned) /\ OneSwitch /\ SetThere

LEMMA Moved ==
  ASSUME NEW O, OneOwner(O), NEW p \in O, NEW q, q[3] = p[3], NEW P, P = (O \ {p}) \cup {q}
  PROVE  OneOwner(P)
<1>1. \A x, y \in P : x[3] = y[3] => x = y
  BY DEF OneOwner
<1>2. {x[3] : x \in P} = {x[3] : x \in O}
  OBVIOUS
<1>. QED
  BY <1>1, <1>2 DEF OneOwner

\* What the operation at the head tells, before and after it is done.
HeadFacts(ops, t, then, undone, plans) ==
  /\ ops[1].op \in plans => ~Taking(ops) /\ ~Taking(t) /\ ~Undoing(ops) /\ ~Undoing(t)
  /\ ops[1].op \in {"set-breakpoint", "enable-breakpoint"} =>
       Taking(ops) /\ Taking(t) /\ t[1].id = ops[1].id /\ ~Undoing(ops) /\ ~Undoing(t)
  /\ ops[1].op = then => Taking(ops) /\ ~Taking(t) /\ ~Undoing(ops) /\ ~Undoing(t)
  /\ ops[1].op = "disable-breakpoint" => ~Taking(ops) /\ ~Taking(t) /\ ~Undoing(ops) /\ ~Undoing(t)
  /\ ops[1].op = "free" => /\ ~Taking(ops) /\ ~Taking(t) /\ ~Undoing(ops) /\ Undoing(t)
                           /\ t[1] = ops[2] /\ t[1].op = undone /\ t[1].id = ops[1].id /\ t # <<>>
  /\ ops[1].op = undone => ~Taking(ops) /\ ~Taking(t) /\ Undoing(ops) /\ ~Undoing(t)

LEMMA TailView ==
  ASSUME NEW ops \in Seq(Ops), ops # <<>>, NEW then, NEW undone, NEW plans, Kind(then, undone, plans),
         Shape(ops, then, undone, plans), NEW t, t = Tail(ops)
  PROVE  HeadFacts(ops, t, then, undone, plans)
<1>1. /\ ops[1].op \in plans => (t # <<>> => t[1].op \in plans)
      /\ ops[1].op = "set-breakpoint" => t # <<>> /\ t[1].op = "enable-breakpoint" /\ t[1].id = ops[1].id
      /\ ops[1].op = "enable-breakpoint" => t # <<>> /\ t[1].op = then /\ t[1].id = ops[1].id
      /\ ops[1].op \in {then, undone} /\ t # <<>> => t[1].op \in plans
      /\ ops[1].op = "disable-breakpoint" => t # <<>> /\ t[1].op = "free"
      /\ ops[1].op = "free" => t # <<>> /\ t[1].op = undone /\ t[1].id = ops[1].id /\ t[1] = ops[2]
  BY HeadTells
<1>. QED
  BY <1>1 DEF Kind, Taking, Undoing, HeadFacts

LEMMA TagsDiffer ==
  /\ \A o \in StoreOwned : o[1] = "store"
  /\ \A o \in ListOwned : o[1] = "list"
  /\ \A o \in AssertionsOwned : o[1] = "assertion"
  /\ \A o \in RequestsOwned : o[1] = "request"
<1>1. \A o \in StoreOwned : o[1] = "store"
  BY DEF StoreOwned
<1>2. \A o \in ListOwned : o[1] = "list"
  BY DEF ListOwned
<1>3. \A o \in AssertionsOwned : o[1] = "assertion"
  BY DEF AssertionsOwned
<1>4. \A o \in RequestsOwned : o[1] = "request"
  BY DEF RequestsOwned
<1>. QED
  BY <1>1, <1>2, <1>3, <1>4

\* What the turn of a request changes.
LEMMA RequestsOwnedTurned ==
  ASSUME NEW t \in EditRequests \cup SwitchRequests, NEW todo, NEW waits, Turned(t, todo, waits)
  PROVE  /\ ~Taking(Todo(t)) /\ ~Taking(todo) => RequestsOwned' = RequestsOwned
         /\ Taking(Todo(t)) /\ Taking(todo) /\ todo[1].id = Todo(t)[1].id => RequestsOwned' = RequestsOwned
         /\ ~Taking(Todo(t)) /\ Taking(todo) => RequestsOwned' = RequestsOwned \cup {<<"request", t, todo[1].id>>}
         /\ Taking(Todo(t)) /\ ~Taking(todo) => RequestsOwned' = RequestsOwned \ {<<"request", t, Todo(t)[1].id>>}
<1>1. \A u \in EditRequests \cup SwitchRequests : Todo(u)' = IF u = t THEN todo ELSE Todo(u)
  BY RequestsAre DEF Turned, Todo
<1>2. RequestsOwned' = {<<"request", u, Todo(u)'[1].id>> : u \in {v \in EditRequests \cup SwitchRequests : Taking(Todo(v)')}}
  BY DEF RequestsOwned, Taking
<1>3. \A o : o \in RequestsOwned <=> \E u \in EditRequests \cup SwitchRequests : Taking(Todo(u)) /\ o = <<"request", u, Todo(u)[1].id>>
  BY DEF RequestsOwned
<1>4. \A o : o \in RequestsOwned' <=>
        \E u \in EditRequests \cup SwitchRequests :
           IF u = t THEN Taking(todo) /\ o = <<"request", t, todo[1].id>>
           ELSE Taking(Todo(u)) /\ o = <<"request", u, Todo(u)[1].id>>
  BY <1>1, <1>2
<1>5. \A o : o \in RequestsOwned' <=>
        \/ Taking(todo) /\ o = <<"request", t, todo[1].id>>
        \/ \E u \in EditRequests \cup SwitchRequests : u # t /\ Taking(Todo(u)) /\ o = <<"request", u, Todo(u)[1].id>>
  BY <1>4
<1>6. \A o : o \in RequestsOwned <=>
        \/ Taking(Todo(t)) /\ o = <<"request", t, Todo(t)[1].id>>
        \/ \E u \in EditRequests \cup SwitchRequests : u # t /\ Taking(Todo(u)) /\ o = <<"request", u, Todo(u)[1].id>>
  BY <1>3
<1>7. \A u \in EditRequests \cup SwitchRequests : u # t => <<"request", u, Todo(u)[1].id>> # <<"request", t, Todo(t)[1].id>>
  OBVIOUS
<1>8. ASSUME ~Taking(Todo(t)), ~Taking(todo) PROVE RequestsOwned' = RequestsOwned
  BY <1>5, <1>6, <1>8
<1>9. ASSUME Taking(Todo(t)), Taking(todo), todo[1].id = Todo(t)[1].id PROVE RequestsOwned' = RequestsOwned
  BY <1>5, <1>6, <1>9
<1>10. ASSUME ~Taking(Todo(t)), Taking(todo) PROVE RequestsOwned' = RequestsOwned \cup {<<"request", t, todo[1].id>>}
  BY <1>5, <1>6, <1>10
<1>11. ASSUME Taking(Todo(t)), ~Taking(todo) PROVE RequestsOwned' = RequestsOwned \ {<<"request", t, Todo(t)[1].id>>}
  BY <1>5, <1>6, <1>7, <1>11
<1>. QED
  BY <1>8, <1>9, <1>10, <1>11

LEMMA ListOwnedTurned ==
  ASSUME NEW t \in Zesarux!Requests, NEW todo, NEW waits, Turned(t, todo, waits),
         \A b \in zesaruxList : t \in EditRequests => (Unlists(todo, b) <=> Unlists(Todo(t), b)), zesaruxList' = zesaruxList
  PROVE  ListOwned' = ListOwned
<1>1. \A u \in EditRequests : requests'[u].ops = IF u = t THEN todo ELSE Todo(u)
  BY RequestsAre DEF Turned, Todo
<1>2. \A b \in zesaruxList : (\A u \in EditRequests : ~Unlists(requests'[u].ops, b)) <=> (\A u \in EditRequests : ~Unlists(Todo(u), b))
  BY <1>1
<1>. QED
  BY <1>2 DEF ListOwned, Todo, Unlists, Undoing, Entry

LEMMA AssertionsOwnedTurned ==
  ASSUME NEW t \in Zesarux!Requests, NEW todo, NEW waits, Turned(t, todo, waits),
         \A a \in Assertions : t \in SwitchRequests => (Unassigns(todo, a) <=> Unassigns(Todo(t), a)), zesaruxId' = zesaruxId
  PROVE  AssertionsOwned' = AssertionsOwned
<1>1. \A u \in SwitchRequests : requests'[u].ops = IF u = t THEN todo ELSE Todo(u)
  BY RequestsAre DEF Turned, Todo
<1>2. \A a \in Assertions : (\A u \in SwitchRequests : ~Unassigns(requests'[u].ops, a)) <=> (\A u \in SwitchRequests : ~Unassigns(Todo(u), a))
  BY <1>1
<1>. QED
  BY <1>2 DEF AssertionsOwned, Todo, Unassigns, Undoing

Unmoved(ops, todo) ==
  \/ todo = ops
  \/ /\ ~Undoing(ops) /\ ~Undoing(todo) /\ (Taking(todo) <=> Taking(ops))
     /\ Taking(todo) => todo[1].id = ops[1].id

\* Steps that give no number away.
LEMMA OwnedStays ==
  ASSUME NEW t \in Zesarux!Requests, NEW todo, NEW waits, Turned(t, todo, waits), BreakpointsStay,
         t \in EditRequests \cup SwitchRequests => Unmoved(Todo(t), todo)
  PROVE  Owned' = Owned
<1>1. StoreOwned' = StoreOwned
  BY DEF StoreOwned, BreakpointsStay
<1>2. ListOwned' = ListOwned
  <2>1. \A b \in zesaruxList : t \in EditRequests => (Unlists(todo, b) <=> Unlists(Todo(t), b))
    BY DEF Unmoved, Unlists
  <2>. QED
    BY <2>1, ListOwnedTurned DEF BreakpointsStay
<1>3. AssertionsOwned' = AssertionsOwned
  <2>1. \A a \in Assertions : t \in SwitchRequests => (Unassigns(todo, a) <=> Unassigns(Todo(t), a))
    BY DEF Unmoved, Unassigns
  <2>. QED
    BY <2>1, AssertionsOwnedTurned DEF BreakpointsStay
<1>4. RequestsOwned' = RequestsOwned
  <2>1. CASE t \in EditRequests \cup SwitchRequests
    <3>1. CASE Taking(Todo(t))
      BY <2>1, <3>1, RequestsOwnedTurned DEF Unmoved
    <3>2. CASE ~Taking(Todo(t))
      BY <2>1, <3>2, RequestsOwnedTurned DEF Unmoved
    <3>. QED
      BY <3>1, <3>2
  <2>2. CASE t \notin EditRequests \cup SwitchRequests
    <3>1. \A u \in EditRequests \cup SwitchRequests : requests'[u].ops = requests[u].ops
      BY <2>2, RequestsAre DEF Turned
    <3>. QED
      BY <3>1 DEF RequestsOwned, Todo, Taking
  <2>. QED
    BY <2>1, <2>2
<1>. QED
  BY <1>1, <1>2, <1>3, <1>4 DEF Owned

LEMMA EditShape ==
  ASSUME RequestsInv, NEW t \in EditRequests
  PROVE  /\ Todo(t) \in Seq(Ops) /\ Shape(Todo(t), "listed", "unlisted", {"remove", "take"})
         /\ Kind("listed", "unlisted", {"remove", "take"})
         /\ \A i \in 1..Len(Todo(t)) :
              /\ Todo(t)[i].op \in Placed => Todo(t)[i].what.place \in Zesarux!Places
                                             /\ Todo(t)[i].what = Zesarux!AtPlace(Todo(t)[i].what.place)
                                             /\ Todo(t)[i].what.place[1] \in FilesOf(Todo(t))
              /\ Todo(t)[i].op # "take" => Todo(t)[i].id \in Numbers
              /\ Todo(t)[i].op \in Removing => Entry(Todo(t)[i]) \in zesaruxList
<1>1. Todo(t) \in Seq(Ops) /\ EditOps(Todo(t), zesaruxList)
  BY RequestsAre, TodoTyped DEF RequestsInv, OpsInv, OpsOk
<1>2. \A i \in 1..Len(Todo(t)) : Todo(t)[i].op \in Placed => Todo(t)[i].what.place[1] \in FilesOf(Todo(t))
  BY DEF FilesOf
<1>. QED
  BY <1>1, <1>2 DEF EditOps, Kind

LEMMA SwitchShape ==
  ASSUME RequestsInv, NEW t \in SwitchRequests
  PROVE  /\ Todo(t) \in Seq(Ops) /\ Shape(Todo(t), "numbered", "unnumbered", {"enable", "disable"})
         /\ Kind("numbered", "unnumbered", {"enable", "disable"})
         /\ \A i \in 1..Len(Todo(t)) :
              /\ Todo(t)[i].op \in Assigned => Todo(t)[i].what.place[1] \in Assertions
              /\ Todo(t)[i].op \notin {"enable", "disable"} => Todo(t)[i].id \in Numbers
<1>1. Todo(t) \in Seq(Ops) /\ SwitchOps(Todo(t))
  BY RequestsAre, TodoTyped DEF RequestsInv, OpsInv, OpsOk
<1>. QED
  BY <1>1 DEF SwitchOps, Kind

\* Edits are of different files: an entry that one is about is not the other's.
LEMMA OwnEntries ==
  ASSUME RequestsInv, NEW t \in EditRequests, NEW i \in 1..Len(Todo(t)), Todo(t)[i].op \in Placed,
         NEW u \in EditRequests, u # t
  PROVE  ~Unlists(Todo(u), Entry(Todo(t)[i]))
<1>1. SUFFICES ASSUME Unlists(Todo(u), Entry(Todo(t)[i])) PROVE FALSE
  OBVIOUS
<1>2. Todo(u) # <<>> /\ Todo(u)[1].op \in {"unlisted", "unnumbered"} /\ Todo(u)[1].what.place = Todo(t)[i].what.place
  BY <1>1 DEF Unlists, Undoing, Entry
<1>3. 1 \in 1..Len(Todo(u))
  BY <1>2, EditShape, TailOf
<1>4. Todo(u)[1].op \in Placed
  <2>1. Todo(u)[1].op \in {"remove", "take", "set-breakpoint", "enable-breakpoint", "listed", "disable-breakpoint", "free", "unlisted"}
    BY <1>2, HeadOp, EditShape
  <2>. QED
    BY <1>2, <2>1 DEF Placed
<1>5. Todo(u)[1].what.place[1] \in FilesOf(Todo(u)) /\ Todo(t)[i].what.place[1] \in FilesOf(Todo(t))
  BY <1>3, <1>4, EditShape
<1>6. FilesOf(Todo(t)) \cap FilesOf(Todo(u)) = {}
  BY DEF RequestsInv, OpsInv
<1>. QED
  BY <1>2, <1>5, <1>6

\* A request whose operation at the head is done, whichever kind it is of.
LEMMA HeadView ==
  ASSUME RequestsInv, NEW t \in EditRequests \cup SwitchRequests, Todo(t) # <<>>, NEW ops, ops = Todo(t), NEW rest, rest = Tail(ops)
  PROVE  /\ ops[1].op \in {"remove", "take", "enable", "disable"} => ~Taking(ops) /\ ~Taking(rest) /\ ~Undoing(ops) /\ ~Undoing(rest)
         /\ ops[1].op \in {"set-breakpoint", "enable-breakpoint"} =>
              Taking(ops) /\ Taking(rest) /\ rest[1].id = ops[1].id /\ ~Undoing(ops) /\ ~Undoing(rest)
         /\ ops[1].op \in {"listed", "numbered"} => Taking(ops) /\ ~Taking(rest) /\ ~Undoing(ops) /\ ~Undoing(rest)
         /\ ops[1].op = "disable-breakpoint" => ~Taking(ops) /\ ~Taking(rest) /\ ~Undoing(ops) /\ ~Undoing(rest)
         /\ ops[1].op = "free" => /\ ~Taking(ops) /\ ~Taking(rest) /\ ~Undoing(ops) /\ Undoing(rest)
                                  /\ rest[1] = ops[2] /\ rest[1].id = ops[1].id /\ rest # <<>>
         /\ ops[1].op \in {"unlisted", "unnumbered"} => ~Taking(ops) /\ ~Taking(rest) /\ Undoing(ops) /\ ~Undoing(rest)
         /\ t \in EditRequests => ops[1].op \notin {"enable", "disable", "numbered", "unnumbered"}
         /\ t \in EditRequests /\ ops[1].op = "free" => rest[1].op = "unlisted"
         /\ t \in SwitchRequests => ops[1].op \notin {"take", "remove", "listed", "unlisted"}
         /\ t \in SwitchRequests /\ ops[1].op = "free" => rest[1].op = "unnumbered"
<1>1. CASE t \in EditRequests
  <2>1. ops[1].op \in {"remove", "take"} \cup {"set-breakpoint", "enable-breakpoint", "listed", "disable-breakpoint", "free", "unlisted"}
    BY <1>1, EditShape, HeadOp
  <2>2. t \notin SwitchRequests
    BY <1>1, RequestsAre
  <2>5. PICK plans, then, undone : plans = {"remove", "take"} /\ then = "listed" /\ undone = "unlisted"
    OBVIOUS
  <2>3. /\ ops # <<>> /\ rest = Tail(ops) /\ ops \in Seq(Ops) /\ Shape(ops, then, undone, plans) /\ Kind(then, undone, plans)
    BY <1>1, <2>5, EditShape
  <2>4. HeadFacts(ops, rest, then, undone, plans)
    BY <2>3, TailView
  <2>. QED
    BY <1>1, <2>1, <2>2, <2>4, <2>5 DEF HeadFacts
<1>2. CASE t \in SwitchRequests
  <2>1. ops[1].op \in {"enable", "disable"} \cup {"set-breakpoint", "enable-breakpoint", "numbered", "disable-breakpoint", "free", "unnumbered"}
    BY <1>2, SwitchShape, HeadOp
  <2>2. t \notin EditRequests
    BY <1>2, RequestsAre
  <2>5. PICK plans, then, undone : plans = {"enable", "disable"} /\ then = "numbered" /\ undone = "unnumbered"
    OBVIOUS
  <2>3. /\ ops # <<>> /\ rest = Tail(ops) /\ ops \in Seq(Ops) /\ Shape(ops, then, undone, plans) /\ Kind(then, undone, plans)
    BY <1>2, <2>5, SwitchShape
  <2>4. HeadFacts(ops, rest, then, undone, plans)
    BY <2>3, TailView
  <2>. QED
    BY <1>2, <2>1, <2>2, <2>4, <2>5 DEF HeadFacts
<1>. QED
  BY <1>1, <1>2

LEMMA NumberTakenMoves ==
  ASSUME RequestsInv, NEW t \in Zesarux!Requests, NumberTaken(t), OneOwner(Owned)
  PROVE  OneOwner(Owned')
<1>1. PICK a \in Ops, b \in Ops, c \in Ops, id \in Numbers :
        /\ Group(t, a, b, c, id) /\ a.op = "set-breakpoint" /\ b.op = "enable-breakpoint" /\ a.what = c.what
        /\ \/ Acts(t, {"take"}) /\ c.op = "listed"
           \/ Acts(t, {"enable"}) /\ c.op = "numbered" /\ zesaruxId[About(t)] = 0
        /\ freeBreakpointIds # <<>> /\ id = freeBreakpointIds[Len(freeBreakpointIds)]
        /\ freeBreakpointIds' \in Seq(Numbers) /\ Len(freeBreakpointIds') = Len(freeBreakpointIds) - 1
        /\ \A i \in 1..(Len(freeBreakpointIds) - 1) : freeBreakpointIds'[i] = freeBreakpointIds[i]
        /\ UNCHANGED <<zesaruxList, zesaruxId>>
  BY DEF NumberTaken
<1>2. PICK todo : todo = <<a, b, c>> \o Tail(Todo(t))
  OBVIOUS
<1>3. Todo(t) # <<>> /\ Todo(t)[1].op \in {"take", "enable"} /\ Turned(t, todo, FALSE) /\ a.id = id
  BY <1>1, <1>2 DEF Acts, Group
<1>4. Todo(t) \in Seq(Ops)
  BY TodoTyped DEF RequestsInv
<1>5. todo # <<>> /\ todo[1] = a
  BY <1>2, <1>3, <1>4, GroupFirst
<1>6. t \in EditRequests \cup SwitchRequests
  <2>1. PICK op : op = Todo(t)[1]
    OBVIOUS
  <2>. QED
    BY <1>3, <2>1, HeadsAre DEF RequestsInv
<1>7. ~Taking(Todo(t)) /\ Taking(todo) /\ ~Undoing(Todo(t)) /\ ~Undoing(todo) /\ todo[1].id = id
  BY <1>1, <1>3, <1>5, <1>6, HeadView DEF Taking, Undoing
<1>8. RequestsOwned' = RequestsOwned \cup {<<"request", t, id>>}
  BY <1>3, <1>6, <1>7, RequestsOwnedTurned
<1>9. ListOwned' = ListOwned
  BY <1>1, <1>3, <1>7, ListOwnedTurned DEF Unlists
<1>10. AssertionsOwned' = AssertionsOwned
  BY <1>1, <1>3, <1>7, AssertionsOwnedTurned DEF Unassigns
<1>11. PICK n \in Nat : n = Len(freeBreakpointIds) /\ n >= 1
  <2>1. freeBreakpointIds \in Seq(Numbers)
    BY DEF RequestsInv, ZesaruxTypes
  <2>. QED
    BY <1>1, <2>1, TailOf
<1>12. StoreOwned = {<<"store", i, freeBreakpointIds[i]>> : i \in 1..n}
  BY <1>11 DEF StoreOwned
<1>13. StoreOwned' = {<<"store", i, freeBreakpointIds[i]>> : i \in 1..(n - 1)}
  <2>1. \A i \in 1..(n - 1) : freeBreakpointIds'[i] = freeBreakpointIds[i]
    BY <1>1, <1>11
  <2>2. StoreOwned' = {<<"store", i, freeBreakpointIds'[i]>> : i \in 1..(n - 1)}
    BY <1>1, <1>11 DEF StoreOwned
  <2>. QED
    BY <2>1, <2>2
<1>14. StoreOwned' = StoreOwned \ {<<"store", n, id>>} /\ <<"store", n, id>> \in StoreOwned
  <2>1. \A i \in 1..n : i \in 1..(n - 1) <=> i # n
    BY <1>11
  <2>2. n \in 1..n /\ \A i \in 1..(n - 1) : i \in 1..n
    BY <1>11
  <2>3. \A i : <<"store", i, freeBreakpointIds[i]>> = <<"store", n, id>> => i = n
    OBVIOUS
  <2>. QED
    BY <1>1, <1>11, <1>12, <1>13, <2>1, <2>2, <2>3
<1>15. PICK p, q : p = <<"store", n, id>> /\ q = <<"request", t, id>>
  OBVIOUS
<1>16. p \in Owned /\ p[1] = "store" /\ p[3] = id /\ q[3] = id
  BY <1>14, <1>15 DEF Owned
<1>17. Owned' = (Owned \ {p}) \cup {q}
  BY <1>8, <1>9, <1>10, <1>14, <1>15, <1>16, TagsDiffer DEF Owned
<1>. QED
  BY <1>16, <1>17, Moved

\* An operation at the head of a request.
LEMMA HeadOf ==
  ASSUME RequestsInv, NEW t \in Zesarux!Requests, NEW names, Acts(t, names)
  PROVE  /\ Todo(t) # <<>> /\ Todo(t) \in Seq(Ops) /\ 1 \in 1..Len(Todo(t)) /\ ~requests[t].waits
         /\ Todo(t)[1].op \in names
         /\ Todo(t)[1].op \in {"take", "remove", "listed", "unlisted"} => t \in EditRequests
         /\ Todo(t)[1].op \in {"enable", "disable", "numbered", "unnumbered"} => t \in SwitchRequests
         /\ Todo(t)[1].op = "free" => t \in EditRequests \cup SwitchRequests
         /\ Todo(t)[1].op = "renumber" => restored
<1>1. Todo(t) # <<>> /\ Todo(t) \in Seq(Ops) /\ 1 \in 1..Len(Todo(t)) /\ ~requests[t].waits /\ Todo(t)[1].op \in names
  BY TodoTyped, TailOf DEF RequestsInv, Acts
<1>2. PICK op : op = Todo(t)[1]
  OBVIOUS
<1>. QED
  BY <1>1, <1>2, HeadsAre DEF RequestsInv

LEMMA EntryListedMoves ==
  ASSUME RequestsInv, NEW t \in Zesarux!Requests, EntryListed(t), OneOwner(Owned)
  PROVE  OneOwner(Owned')
<1>1. /\ Acts(t, {"listed"}) /\ StepDone(t) /\ zesaruxList' = zesaruxList \cup {Entry(Todo(t)[1])}
      /\ UNCHANGED <<freeBreakpointIds, zesaruxId>>
  BY DEF EntryListed
<1>2. PICK todo, e, n : todo = Tail(Todo(t)) /\ e = Entry(Todo(t)[1]) /\ n = Todo(t)[1].id
  OBVIOUS
<1>3. t \in EditRequests /\ Todo(t) # <<>> /\ 1 \in 1..Len(Todo(t)) /\ Todo(t)[1].op = "listed" /\ Turned(t, todo, FALSE)
  BY <1>1, <1>2, HeadOf DEF StepDone
<1>4. Taking(Todo(t)) /\ ~Taking(todo) /\ ~Undoing(Todo(t)) /\ ~Undoing(todo)
  BY <1>2, <1>3, HeadView
<1>5. RequestsOwned' = RequestsOwned \ {<<"request", t, n>>} /\ <<"request", t, n>> \in RequestsOwned
  BY <1>2, <1>3, <1>4, RequestsOwnedTurned DEF RequestsOwned
<1>6. AssertionsOwned' = AssertionsOwned
  BY <1>1, <1>3, <1>4, AssertionsOwnedTurned DEF Unassigns
<1>7. StoreOwned' = StoreOwned
  BY <1>1 DEF StoreOwned
<1>8. e.id = n
  BY <1>2 DEF Entry
<1>9. ListOwned' = ListOwned \cup {<<"list", e, n>>}
  <2>1. \A u \in EditRequests : requests'[u].ops = IF u = t THEN todo ELSE Todo(u)
    BY <1>3, RequestsAre DEF Turned, Todo
  <2>2. \A u \in EditRequests : ~Unlists(requests'[u].ops, e)
    <3>1. Todo(t)[1].op \in Placed
      BY <1>3 DEF Placed
    <3>2. \A u \in EditRequests : u # t => ~Unlists(Todo(u), e)
      BY <1>2, <1>3, <3>1, OwnEntries
    <3>. QED
      BY <1>4, <2>1, <3>2 DEF Unlists
  <2>3. \A b : (\A u \in EditRequests : ~Unlists(requests'[u].ops, b)) <=> (\A u \in EditRequests : ~Unlists(Todo(u), b))
    BY <1>4, <2>1 DEF Unlists
  <2>4. ListOwned' = {<<"list", b, b.id>> : b \in {c \in zesaruxList' : \A u \in EditRequests : ~Unlists(requests'[u].ops, c)}}
    BY DEF ListOwned, Todo, Unlists, Undoing, Entry
  <2>. QED
    BY <1>1, <1>2, <1>8, <2>2, <2>3, <2>4 DEF ListOwned
<1>10. PICK p, q : p = <<"request", t, n>> /\ q = <<"list", e, n>>
  OBVIOUS
<1>11. p \in Owned /\ p[1] = "request" /\ p[3] = n /\ q[3] = n
  BY <1>5, <1>10 DEF Owned
<1>12. Owned' = (Owned \ {p}) \cup {q}
  BY <1>5, <1>6, <1>7, <1>9, <1>10, <1>11, TagsDiffer DEF Owned
<1>. QED
  BY <1>11, <1>12, Moved

LEMMA EntryUnlistedStays ==
  ASSUME RequestsInv, NEW t \in Zesarux!Requests, EntryUnlisted(t)
  PROVE  Owned' = Owned
<1>1. /\ Acts(t, {"unlisted"}) /\ StepDone(t) /\ zesaruxList' = zesaruxList \ {Entry(Todo(t)[1])}
      /\ UNCHANGED <<freeBreakpointIds, zesaruxId>>
  BY DEF EntryUnlisted
<1>2. PICK todo, e : todo = Tail(Todo(t)) /\ e = Entry(Todo(t)[1])
  OBVIOUS
<1>3. t \in EditRequests /\ Todo(t) # <<>> /\ Todo(t)[1].op = "unlisted" /\ Turned(t, todo, FALSE)
  BY <1>1, <1>2, HeadOf DEF StepDone
<1>4. ~Taking(Todo(t)) /\ ~Taking(todo) /\ Undoing(Todo(t)) /\ ~Undoing(todo)
  BY <1>2, <1>3, HeadView
<1>5. RequestsOwned' = RequestsOwned
  BY <1>3, <1>4, RequestsOwnedTurned
<1>6. AssertionsOwned' = AssertionsOwned
  BY <1>1, <1>3, AssertionsOwnedTurned, RequestsAre
<1>7. StoreOwned' = StoreOwned
  BY <1>1 DEF StoreOwned
<1>8. ListOwned' = ListOwned
  <2>1. \A u \in EditRequests : requests'[u].ops = IF u = t THEN todo ELSE Todo(u)
    BY <1>3, RequestsAre DEF Turned, Todo
  <2>2. \A b : Unlists(Todo(t), b) <=> b = e
    BY <1>2, <1>4 DEF Unlists
  <2>3. \A b : ~Unlists(todo, b)
    BY <1>4 DEF Unlists
  <2>4. \A b : b # e => ((\A u \in EditRequests : ~Unlists(requests'[u].ops, b)) <=> (\A u \in EditRequests : ~Unlists(Todo(u), b)))
    BY <2>1, <2>2, <2>3
  <2>5. ListOwned' = {<<"list", b, b.id>> : b \in {c \in zesaruxList' : \A u \in EditRequests : ~Unlists(requests'[u].ops, c)}}
    BY DEF ListOwned, Todo, Unlists, Undoing, Entry
  <2>6. {c \in zesaruxList' : \A u \in EditRequests : ~Unlists(requests'[u].ops, c)}
          = {c \in zesaruxList : \A u \in EditRequests : ~Unlists(Todo(u), c)}
    BY <1>1, <1>2, <1>3, <2>2, <2>4
  <2>. QED
    BY <2>5, <2>6 DEF ListOwned
<1>. QED
  BY <1>5, <1>6, <1>7, <1>8 DEF Owned

\* A number that is pushed on the store.
LEMMA StoreGrows ==
  ASSUME RequestsInv, NEW n \in Numbers, freeBreakpointIds' = Append(freeBreakpointIds, n)
  PROVE  StoreOwned' = StoreOwned \cup {<<"store", Len(freeBreakpointIds) + 1, n>>}
<1>1. freeBreakpointIds \in Seq(Numbers)
  BY DEF RequestsInv, ZesaruxTypes
<1>2. PICK k \in Nat : k = Len(freeBreakpointIds)
  BY <1>1
<1>3. /\ Len(freeBreakpointIds') = k + 1 /\ freeBreakpointIds'[k + 1] = n
      /\ \A i \in 1..k : freeBreakpointIds'[i] = freeBreakpointIds[i]
  BY <1>1, <1>2, AppendProperties
<1>4. StoreOwned' = {<<"store", i, freeBreakpointIds'[i]>> : i \in 1..(k + 1)}
  BY <1>3 DEF StoreOwned
<1>5. StoreOwned = {<<"store", i, freeBreakpointIds[i]>> : i \in 1..k}
  BY <1>2 DEF StoreOwned
<1>6. 1..(k + 1) = 1..k \cup {k + 1}
  OBVIOUS
<1>. QED
  BY <1>2, <1>3, <1>4, <1>5, <1>6

\* What is freed, and after that taken off.
LEMMA FreeHead ==
  ASSUME RequestsInv, NEW t \in EditRequests \cup SwitchRequests, Todo(t) # <<>>, Todo(t)[1].op = "free"
  PROVE  /\ Todo(t) \in Seq(Ops) /\ 1 \in 1..Len(Todo(t)) /\ 2 \in 1..Len(Todo(t)) /\ Tail(Todo(t))[1] = Todo(t)[2]
         /\ Todo(t)[1].id \in Numbers /\ Todo(t)[2].id = Todo(t)[1].id
         /\ t \in EditRequests => Todo(t)[2].op = "unlisted" /\ Entry(Todo(t)[2]) \in zesaruxList
                                  /\ Entry(Todo(t)[2]).id = Todo(t)[1].id
         /\ t \in SwitchRequests => Todo(t)[2].op = "unnumbered" /\ Todo(t)[2].what.place[1] \in Assertions
<1>1. PICK ops, rest : ops = Todo(t) /\ rest = Tail(ops)
  OBVIOUS
<1>2. /\ rest[1] = ops[2] /\ rest[1].id = ops[1].id /\ rest # <<>>
      /\ t \in EditRequests => rest[1].op = "unlisted"
      /\ t \in SwitchRequests => rest[1].op = "unnumbered"
  BY <1>1, HeadView
<1>3. ops \in Seq(Ops)
  BY <1>1, RequestsAre, TodoTyped DEF RequestsInv
<1>4. rest \in Seq(Ops) /\ Len(rest) = Len(ops) - 1 /\ Len(ops) \in Nat
  BY <1>1, <1>3, TailOf
<1>5. Len(rest) # 0
  BY <1>2, <1>4, NoElements
<1>6. 1 \in 1..Len(ops) /\ 2 \in 1..Len(ops)
  BY <1>4, <1>5
<1>7. CASE t \in EditRequests
  <2>1. ops[2].op = "unlisted" /\ t \notin SwitchRequests
    BY <1>2, <1>7, RequestsAre
  <2>2. ops[1].id \in Numbers
    BY <1>1, <1>6, <1>7, EditShape
  <2>3. Entry(ops[2]) \in zesaruxList
    BY <1>1, <1>6, <1>7, <2>1, EditShape DEF Removing
  <2>4. Entry(ops[2]).id = ops[2].id
    BY DEF Entry
  <2>. QED
    BY <1>1, <1>2, <1>3, <1>6, <2>1, <2>2, <2>3, <2>4
<1>8. CASE t \in SwitchRequests
  <2>1. ops[2].op = "unnumbered" /\ t \notin EditRequests
    BY <1>2, <1>8, RequestsAre
  <2>2. ops[1].id \in Numbers /\ ops[2].what.place[1] \in Assertions
    BY <1>1, <1>6, <1>8, <2>1, SwitchShape DEF Assigned
  <2>. QED
    BY <1>1, <1>2, <1>3, <1>6, <2>1, <2>2
<1>. QED
  BY <1>7, <1>8

LEMMA NumberFreedMoves ==
  ASSUME RequestsInv, NEW t \in Zesarux!Requests, NumberFreed(t), OneOwner(Owned), OneSwitch
  PROVE  OneOwner(Owned')
<1>1. /\ Acts(t, {"free"}) /\ StepDone(t) /\ freeBreakpointIds' = Append(freeBreakpointIds, Todo(t)[1].id)
      /\ UNCHANGED <<zesaruxList, zesaruxId>>
  BY DEF NumberFreed
<1>2. PICK todo, n, k : todo = Tail(Todo(t)) /\ n = Todo(t)[1].id /\ k = Len(freeBreakpointIds) + 1
  OBVIOUS
<1>3. t \in EditRequests \cup SwitchRequests /\ Todo(t) # <<>> /\ Todo(t)[1].op = "free" /\ Turned(t, todo, FALSE)
  <2>1. Turned(t, todo, FALSE)
    BY <1>1, <1>2 DEF StepDone
  <2>2. PICK names : names = {"free"}
    OBVIOUS
  <2>3. Acts(t, names)
    BY <1>1, <2>2
  <2>4. Todo(t) # <<>> /\ Todo(t)[1].op \in names
    BY <2>3 DEF Acts
  <2>5. Todo(t)[1].op = "free"
    BY <2>2, <2>4
  <2>6. t \in EditRequests \cup SwitchRequests
    BY <2>3, <2>5, HeadOf
  <2>. QED
    BY <2>1, <2>4, <2>5, <2>6
<1>4. ~Taking(Todo(t)) /\ ~Taking(todo) /\ ~Undoing(Todo(t)) /\ Undoing(todo) /\ todo[1] = Todo(t)[2]
  BY <1>2, <1>3, HeadView
<1>5. RequestsOwned' = RequestsOwned
  BY <1>3, <1>4, RequestsOwnedTurned
<1>6. n \in Numbers
  BY <1>2, <1>3, FreeHead
<1>7. StoreOwned' = StoreOwned \cup {<<"store", k, n>>}
  BY <1>1, <1>2, <1>6, StoreGrows
<1>8. CASE t \in EditRequests
  <2>1. PICK e : e = Entry(Todo(t)[2])
    OBVIOUS
  <2>2. e \in zesaruxList /\ e.id = n /\ 2 \in 1..Len(Todo(t)) /\ Todo(t)[2].op = "unlisted"
    BY <1>2, <1>3, <1>8, <2>1, FreeHead
  <2>3. AssertionsOwned' = AssertionsOwned
    BY <1>1, <1>3, <1>8, AssertionsOwnedTurned, RequestsAre
  <2>4. \A u \in EditRequests : ~Unlists(Todo(u), e)
    <3>1. Todo(t)[2].op \in Placed
      BY <2>2 DEF Placed
    <3>2. \A u \in EditRequests : u # t => ~Unlists(Todo(u), e)
      BY <1>8, <2>1, <2>2, <3>1, OwnEntries
    <3>. QED
      BY <1>4, <3>2 DEF Unlists
  <2>5. \A u \in EditRequests : requests'[u].ops = IF u = t THEN todo ELSE Todo(u)
    BY <1>3, RequestsAre DEF Turned, Todo
  <2>6. (\A b : Unlists(todo, b) <=> b = e) /\ \A b : ~Unlists(Todo(t), b)
    BY <1>4, <2>1 DEF Unlists
  <2>7. {c \in zesaruxList' : \A u \in EditRequests : ~Unlists(requests'[u].ops, c)}
          = {c \in zesaruxList : \A u \in EditRequests : ~Unlists(Todo(u), c)} \ {e}
    BY <1>1, <1>8, <2>5, <2>6
  <2>8. ListOwned' = {<<"list", b, b.id>> : b \in {c \in zesaruxList' : \A u \in EditRequests : ~Unlists(requests'[u].ops, c)}}
    BY DEF ListOwned, Todo, Unlists, Undoing, Entry
  <2>9. PICK p, q : p = <<"list", e, n>> /\ q = <<"store", k, n>>
    OBVIOUS
  <2>10. ListOwned' = ListOwned \ {p} /\ p \in ListOwned
    <3>1. \A b : <<"list", b, b.id>> = <<"list", e, e.id>> => b = e
      OBVIOUS
    <3>. QED
      BY <2>2, <2>4, <2>7, <2>8, <2>9, <3>1 DEF ListOwned
  <2>11. p \in Owned /\ p[1] = "list" /\ p[3] = n /\ q[3] = n
    BY <2>9, <2>10 DEF Owned
  <2>12. Owned' = (Owned \ {p}) \cup {q}
    BY <1>5, <1>7, <2>3, <2>9, <2>10, <2>11, TagsDiffer DEF Owned
  <2>. QED
    BY <2>11, <2>12, Moved
<1>9. CASE t \in SwitchRequests
  <2>1. PICK a : a = Todo(t)[2].what.place[1]
    OBVIOUS
  <2>2. a \in Assertions /\ 2 \in 1..Len(Todo(t)) /\ Todo(t)[2].op = "unnumbered" /\ Todo(t)[2].id = n
    BY <1>2, <1>3, <1>9, <2>1, FreeHead
  <2>3. ListOwned' = ListOwned
    BY <1>1, <1>3, <1>9, ListOwnedTurned, RequestsAre
  <2>4. zesaruxId[a] = n /\ n # 0
    BY <1>6, <1>9, <2>1, <2>2, IdsTyped DEF OneSwitch
  <2>5. \A u \in SwitchRequests : ~Undoing(Todo(u))
    BY <1>3, <1>4, <1>9 DEF OneSwitch, Undoing
  <2>6. \A u \in SwitchRequests : requests'[u].ops = IF u = t THEN todo ELSE Todo(u)
    BY <1>3, RequestsAre DEF Turned, Todo
  <2>7. \A b : (\E u \in SwitchRequests : Unassigns(requests'[u].ops, b)) <=> b = a
    BY <1>4, <1>9, <2>1, <2>5, <2>6 DEF Unassigns
  <2>9. AssertionsOwned' = {<<"assertion", b, zesaruxId[b]>> : b \in
                              {c \in Assertions : zesaruxId[c] # 0 /\ \A u \in SwitchRequests : ~Unassigns(requests'[u].ops, c)}}
    BY <1>1 DEF AssertionsOwned, Todo, Unassigns, Undoing
  <2>10. AssertionsOwned = {<<"assertion", b, zesaruxId[b]>> : b \in {c \in Assertions : zesaruxId[c] # 0}}
    <3>1. \A b \in Assertions : \A u \in SwitchRequests : ~Unassigns(Todo(u), b)
      BY <2>5 DEF Unassigns
    <3>. QED
      BY <3>1 DEF AssertionsOwned
  <2>11. PICK p, q : p = <<"assertion", a, n>> /\ q = <<"store", k, n>>
    OBVIOUS
  <2>12. AssertionsOwned' = AssertionsOwned \ {p} /\ p \in AssertionsOwned
    <3>1. \A b : <<"assertion", b, zesaruxId[b]>> = <<"assertion", a, n>> => b = a
      OBVIOUS
    <3>2. {c \in Assertions : zesaruxId[c] # 0 /\ \A u \in SwitchRequests : ~Unassigns(requests'[u].ops, c)}
            = {c \in Assertions : zesaruxId[c] # 0} \ {a}
      BY <2>7
    <3>. QED
      BY <2>2, <2>4, <2>9, <2>10, <2>11, <3>1, <3>2
  <2>13. p \in Owned /\ p[1] = "assertion" /\ p[3] = n /\ q[3] = n
    BY <2>11, <2>12 DEF Owned
  <2>14. Owned' = (Owned \ {p}) \cup {q}
    BY <1>5, <1>7, <2>3, <2>11, <2>12, <2>13, TagsDiffer DEF Owned
  <2>. QED
    BY <2>13, <2>14, Moved
<1>. QED
  BY <1>3, <1>8, <1>9

LEMMA AssertionNumberedMoves ==
  ASSUME RequestsInv, NEW t \in Zesarux!Requests, AssertionNumbered(t), OneOwner(Owned), OneSwitch
  PROVE  OneOwner(Owned')
<1>1. /\ Acts(t, {"numbered"}) /\ StepDone(t) /\ zesaruxId' = [zesaruxId EXCEPT ![About(t)] = Todo(t)[1].id]
      /\ UNCHANGED <<freeBreakpointIds, zesaruxList>>
  BY DEF AssertionNumbered
<1>2. PICK todo, n, a : todo = Tail(Todo(t)) /\ n = Todo(t)[1].id /\ a = About(t)
  OBVIOUS
<1>3. t \in SwitchRequests /\ Todo(t) # <<>> /\ 1 \in 1..Len(Todo(t)) /\ Todo(t)[1].op = "numbered" /\ Turned(t, todo, FALSE)
  BY <1>1, <1>2, HeadOf DEF StepDone
<1>4. Taking(Todo(t)) /\ ~Taking(todo) /\ ~Undoing(Todo(t)) /\ ~Undoing(todo)
  BY <1>2, <1>3, HeadView
<1>5. RequestsOwned' = RequestsOwned \ {<<"request", t, n>>} /\ <<"request", t, n>> \in RequestsOwned
  BY <1>2, <1>3, <1>4, RequestsOwnedTurned DEF RequestsOwned
<1>6. ListOwned' = ListOwned
  BY <1>1, <1>3, ListOwnedTurned, RequestsAre
<1>7. StoreOwned' = StoreOwned
  BY <1>1 DEF StoreOwned
<1>8. a \in Assertions /\ n \in Numbers /\ n # 0
  BY <1>2, <1>3, SwitchShape, IdsTyped DEF About, Assigned
<1>9. zesaruxId[a] = 0
  BY <1>2, <1>3 DEF OneSwitch, About
<1>10. AssertionsOwned' = AssertionsOwned \cup {<<"assertion", a, n>>}
  <2>1. \A u \in SwitchRequests : requests'[u].ops = IF u = t THEN todo ELSE Todo(u)
    BY <1>3, RequestsAre DEF Turned, Todo
  <2>2. \A u \in SwitchRequests : ~Undoing(Todo(u)) /\ ~Undoing(requests'[u].ops)
    BY <1>3, <1>4, <2>1 DEF OneSwitch, Undoing
  <2>3. \A b \in Assertions : \A u \in SwitchRequests : ~Unassigns(Todo(u), b) /\ ~Unassigns(requests'[u].ops, b)
    BY <2>2 DEF Unassigns
  <2>4. AssertionsOwned = {<<"assertion", b, zesaruxId[b]>> : b \in {c \in Assertions : zesaruxId[c] # 0}}
    BY <2>3 DEF AssertionsOwned
  <2>5. AssertionsOwned' = {<<"assertion", b, zesaruxId'[b]>> : b \in {c \in Assertions : zesaruxId'[c] # 0}}
    <3>1. AssertionsOwned' = {<<"assertion", b, zesaruxId'[b]>> : b \in
                                {c \in Assertions : zesaruxId'[c] # 0 /\ \A u \in SwitchRequests : ~Unassigns(requests'[u].ops, c)}}
      BY DEF AssertionsOwned, Todo, Unassigns, Undoing
    <3>. QED
      BY <2>3, <3>1
  <2>6. \A b \in Assertions : zesaruxId'[b] = IF b = a THEN n ELSE zesaruxId[b]
    BY <1>1, <1>2 DEF RequestsInv, ZesaruxTypes
  <2>7. {c \in Assertions : zesaruxId'[c] # 0} = {c \in Assertions : zesaruxId[c] # 0} \cup {a}
    BY <1>8, <2>6
  <2>. QED
    BY <1>8, <1>9, <2>4, <2>5, <2>6, <2>7
<1>11. PICK p, q : p = <<"request", t, n>> /\ q = <<"assertion", a, n>>
  OBVIOUS
<1>12. p \in Owned /\ p[1] = "request" /\ p[3] = n /\ q[3] = n
  BY <1>5, <1>11 DEF Owned
<1>13. Owned' = (Owned \ {p}) \cup {q}
  BY <1>5, <1>6, <1>7, <1>10, <1>11, <1>12, TagsDiffer DEF Owned
<1>. QED
  BY <1>12, <1>13, Moved

LEMMA AssertionUnnumberedStays ==
  ASSUME RequestsInv, NEW t \in Zesarux!Requests, AssertionUnnumbered(t), OneSwitch
  PROVE  Owned' = Owned
<1>1. /\ Acts(t, {"unnumbered"}) /\ StepDone(t) /\ zesaruxId' = [zesaruxId EXCEPT ![About(t)] = 0]
      /\ UNCHANGED <<freeBreakpointIds, zesaruxList>>
  BY DEF AssertionUnnumbered
<1>2. PICK todo, a : todo = Tail(Todo(t)) /\ a = About(t)
  OBVIOUS
<1>3. t \in SwitchRequests /\ Todo(t) # <<>> /\ 1 \in 1..Len(Todo(t)) /\ Todo(t)[1].op = "unnumbered" /\ Turned(t, todo, FALSE)
  BY <1>1, <1>2, HeadOf DEF StepDone
<1>4. ~Taking(Todo(t)) /\ ~Taking(todo) /\ Undoing(Todo(t)) /\ ~Undoing(todo)
  BY <1>2, <1>3, HeadView
<1>5. RequestsOwned' = RequestsOwned
  BY <1>3, <1>4, RequestsOwnedTurned
<1>6. ListOwned' = ListOwned
  BY <1>1, <1>3, ListOwnedTurned, RequestsAre
<1>7. StoreOwned' = StoreOwned
  BY <1>1 DEF StoreOwned
<1>8. a \in Assertions
  BY <1>2, <1>3, SwitchShape DEF About, Assigned
<1>9. AssertionsOwned' = AssertionsOwned
  <2>1. \A u \in SwitchRequests : requests'[u].ops = IF u = t THEN todo ELSE Todo(u)
    BY <1>3, RequestsAre DEF Turned, Todo
  <2>2. \A u \in SwitchRequests : ~Undoing(requests'[u].ops)
    BY <1>3, <1>4, <2>1 DEF OneSwitch, Undoing
  <2>3. \A b \in Assertions : \A u \in SwitchRequests : ~Unassigns(requests'[u].ops, b)
    BY <2>2 DEF Unassigns
  <2>4. \A b \in Assertions : (\A u \in SwitchRequests : ~Unassigns(Todo(u), b)) <=> b # a
    <3>1. \A u \in SwitchRequests : u # t => ~Undoing(Todo(u))
      BY <1>3 DEF OneSwitch, Undoing
    <3>. QED
      BY <1>2, <1>3, <1>4, <3>1 DEF Unassigns, About
  <2>5. \A b \in Assertions : zesaruxId'[b] = IF b = a THEN 0 ELSE zesaruxId[b]
    BY <1>1, <1>2 DEF RequestsInv, ZesaruxTypes
  <2>6. AssertionsOwned' = {<<"assertion", b, zesaruxId'[b]>> : b \in
                              {c \in Assertions : zesaruxId'[c] # 0 /\ \A u \in SwitchRequests : ~Unassigns(requests'[u].ops, c)}}
    BY DEF AssertionsOwned, Todo, Unassigns, Undoing
  <2>7. {c \in Assertions : zesaruxId'[c] # 0 /\ \A u \in SwitchRequests : ~Unassigns(requests'[u].ops, c)}
          = {c \in Assertions : zesaruxId[c] # 0 /\ \A u \in SwitchRequests : ~Unassigns(Todo(u), c)}
    BY <2>3, <2>4, <2>5
  <2>8. \A b \in {c \in Assertions : zesaruxId[c] # 0 /\ \A u \in SwitchRequests : ~Unassigns(Todo(u), c)} : zesaruxId'[b] = zesaruxId[b]
    BY <2>4, <2>5
  <2>. QED
    BY <2>6, <2>7, <2>8 DEF AssertionsOwned
<1>. QED
  BY <1>5, <1>6, <1>7, <1>9 DEF Owned

LEMMA SwitchesQuiet ==
  ASSUME OneSwitch, NEW t \in Zesarux!Requests, t \notin SwitchRequests, NEW todo, NEW waits, Turned(t, todo, waits),
         zesaruxId' = zesaruxId
  PROVE  OneSwitch'
<1>1. \A u \in SwitchRequests : requests'[u].ops = Todo(u)
  BY RequestsAre DEF Turned, Todo
<1>. QED
  BY <1>1 DEF OneSwitch, Todo

Found(op, ids) ==
  /\ op.op = "numbered" => ids[op.what.place[1]] = 0
  /\ op.op = "unnumbered" => ids[op.what.place[1]] = op.id

LEMMA SwitchTurned ==
  ASSUME NEW t \in SwitchRequests, NEW todo, NEW waits, Turned(t, todo, waits),
         \A u \in SwitchRequests \ {t} : Todo(u) = <<>>, \A i \in 1..Len(todo) : Found(todo[i], zesaruxId')
  PROVE  OneSwitch'
<1>1. \A u \in SwitchRequests : requests'[u].ops = IF u = t THEN todo ELSE <<>>
  BY RequestsAre DEF Turned, Todo
<1>2. \A u, v \in SwitchRequests : requests'[u].ops # <<>> /\ requests'[v].ops # <<>> => u = v
  BY <1>1
<1>3. ASSUME NEW u \in SwitchRequests, NEW i \in 1..Len(requests'[u].ops)
      PROVE  Found(requests'[u].ops[i], zesaruxId')
  <2>1. CASE u = t
    BY <1>1, <1>3, <2>1
  <2>2. CASE u # t
    <3>1. requests'[u].ops = <<>>
      BY <1>1, <2>2
    <3>2. Len(requests'[u].ops) = 0
      BY <3>1
    <3>. QED
      BY <1>3, <3>2
  <2>. QED
    BY <2>1, <2>2
<1>. QED
  BY <1>2, <1>3 DEF OneSwitch, Todo, Found

LEMMA OtherSwitch ==
  ASSUME OneSwitch, NEW t \in SwitchRequests, Todo(t) # <<>>
  PROVE  /\ \A u \in SwitchRequests \ {t} : Todo(u) = <<>>
         /\ \A i \in 1..Len(Todo(t)) : Found(Todo(t)[i], zesaruxId)
BY DEF OneSwitch, Found

\* A request of any kind does what is at its head, and no assertion's number changes.
LEMMA SwitchTailed ==
  ASSUME RequestsInv, OneSwitch, NEW t \in Zesarux!Requests, Todo(t) # <<>>, StepDone(t), zesaruxId' = zesaruxId
  PROVE  OneSwitch'
<1>1. PICK ops, rest : ops = Todo(t) /\ rest = Tail(ops)
  OBVIOUS
<1>2. Turned(t, rest, FALSE)
  BY <1>1 DEF StepDone
<1>3. CASE t \in SwitchRequests
  <2>1. ops \in Seq(Ops) /\ ops # <<>>
    BY <1>1, <1>3, SwitchShape
  <2>2. \A i \in 1..Len(rest) : i + 1 \in 1..Len(ops) /\ rest[i] = ops[i + 1]
    BY <1>1, <2>1, TailOf
  <2>3. \A i \in 1..Len(rest) : Found(rest[i], zesaruxId')
    BY <1>1, <1>3, <2>2, OtherSwitch
  <2>. QED
    BY <1>2, <1>3, <2>3, OtherSwitch, SwitchTurned
<1>4. CASE t \notin SwitchRequests
  BY <1>2, <1>4, SwitchesQuiet
<1>. QED
  BY <1>3, <1>4

\* What is left of a switch when it has done the last operation of a group is planned only.
LEMMA SwitchPlanLeft ==
  ASSUME RequestsInv, NEW t \in SwitchRequests, Todo(t) # <<>>,
         Todo(t)[1].op \in {"enable", "disable", "numbered", "unnumbered"},
         NEW rest, rest = Tail(Todo(t)), NEW ids
  PROVE  \A i \in 1..Len(rest) : Found(rest[i], ids) /\ rest[i].op \in {"enable", "disable"}
<1>1. PICK ops, plans : ops = Todo(t) /\ plans = {"enable", "disable"}
  OBVIOUS
<1>2. /\ ops \in Seq(Ops) /\ ops # <<>> /\ rest = Tail(ops)
      /\ Shape(ops, "numbered", "unnumbered", plans) /\ Kind("numbered", "unnumbered", plans)
  BY <1>1, SwitchShape
<1>3. rest \in Seq(Ops) /\ \A i \in 1..Len(rest) : i + 1 \in 2..Len(ops) /\ rest[i] = ops[i + 1]
  <2>0. ops \in Seq(Ops) /\ ops # <<>>
    BY <1>2
  <2>2. /\ Tail(ops) \in Seq(Ops) /\ Len(Tail(ops)) = Len(ops) - 1 /\ Len(ops) \in Nat
        /\ \A i \in 1..Len(Tail(ops)) : Tail(ops)[i] = ops[i + 1]
    BY <2>0, TailOf
  <2>1. /\ rest \in Seq(Ops) /\ Len(rest) = Len(ops) - 1 /\ Len(ops) \in Nat
        /\ \A i \in 1..Len(rest) : rest[i] = ops[i + 1]
    BY <1>2, <2>2, Zenon
  <2>. QED
    BY <2>1
<1>4. \A i \in 1..Len(rest) : rest[i].op \in plans
  <2>1. CASE ops[1].op \in plans
    <3>1. \A i \in 1..Len(ops) : ops[i].op \in plans
      BY <1>2, <2>1, HeadTells
    <3>. QED
      BY <1>3, <3>1
  <2>2. CASE ops[1].op \in {"numbered", "unnumbered"}
    <3>1. \A i \in 2..Len(ops) : ops[i].op \in plans
      <4>1. 1 \in 1..Len(ops) /\ ops[1].op \notin plans
        BY <1>1, <1>2, <2>2, TailOf
      <4>. QED
        BY <1>1, <1>2, <2>2, <4>1 DEF Shape
    <3>. QED
      BY <1>3, <3>1
  <2>. QED
    BY <1>1, <2>1, <2>2
<1>. QED
  BY <1>1, <1>4 DEF Found

LEMMA SwitchGrouped ==
  ASSUME RequestsInv, OneSwitch, NEW t \in Zesarux!Requests, NumberTaken(t) \/ RemovalBegun(t)
  PROVE  OneSwitch'
<1>1. PICK a \in Ops, b \in Ops, c \in Ops, id \in Numbers :
        /\ Group(t, a, b, c, id) /\ zesaruxId' = zesaruxId /\ a.op \in {"set-breakpoint", "disable-breakpoint"}
        /\ b.op \in {"enable-breakpoint", "free"} /\ Acts(t, {"take", "enable", "remove", "disable"})
        /\ Acts(t, {"enable", "disable"}) => Found(c, zesaruxId)
  <2>1. CASE NumberTaken(t)
    <3>1. PICK a \in Ops, b \in Ops, c \in Ops, id \in Numbers :
            /\ Group(t, a, b, c, id) /\ a.op = "set-breakpoint" /\ b.op = "enable-breakpoint" /\ zesaruxId' = zesaruxId
            /\ \/ Acts(t, {"take"}) /\ c.op = "listed"
               \/ Acts(t, {"enable"}) /\ c.op = "numbered" /\ zesaruxId[About(t)] = 0
      BY <2>1 DEF NumberTaken
    <3>2. c.what = Todo(t)[1].what
      BY <3>1 DEF Group
    <3>3. Acts(t, {"enable", "disable"}) => Found(c, zesaruxId)
      BY <3>1, <3>2 DEF Acts, Found, About
    <3>4. Acts(t, {"take", "enable", "remove", "disable"})
      BY <3>1 DEF Acts
    <3>. QED
      BY <3>1, <3>3, <3>4
  <2>2. CASE RemovalBegun(t)
    <3>1. PICK a \in Ops, b \in Ops, c \in Ops, id \in Numbers :
            /\ Group(t, a, b, c, id) /\ a.op = "disable-breakpoint" /\ b.op = "free" /\ zesaruxId' = zesaruxId
            /\ \/ Acts(t, {"remove"}) /\ c.op = "unlisted"
               \/ Acts(t, {"disable"}) /\ c.op = "unnumbered" /\ id = zesaruxId[About(t)]
      BY <2>2 DEF RemovalBegun, BreakpointsStay
    <3>2. c.what = Todo(t)[1].what /\ c.id = id
      BY <3>1 DEF Group
    <3>3. Acts(t, {"enable", "disable"}) => Found(c, zesaruxId)
      BY <3>1, <3>2 DEF Acts, Found, About
    <3>4. Acts(t, {"take", "enable", "remove", "disable"})
      BY <3>1 DEF Acts
    <3>. QED
      BY <3>1, <3>3, <3>4
  <2>. QED
    BY <2>1, <2>2
<1>2. PICK rest, todo : rest = Tail(Todo(t)) /\ todo = <<a, b, c>> \o rest
  OBVIOUS
<1>3. Turned(t, todo, FALSE) /\ Todo(t) # <<>> /\ Todo(t)[1].op \in {"take", "enable", "remove", "disable"}
  BY <1>1, <1>2 DEF Group, Acts
<1>4. CASE t \notin SwitchRequests
  BY <1>1, <1>3, <1>4, SwitchesQuiet
<1>5. CASE t \in SwitchRequests
  <2>1. Todo(t)[1].op \in {"enable", "disable"}
    BY <1>3, <1>5, HeadView
  <2>2. Found(c, zesaruxId)
    BY <1>1, <2>1 DEF Acts
  <2>3. \A i \in 1..Len(rest) : Found(rest[i], zesaruxId)
    BY <1>2, <1>3, <1>5, <2>1, SwitchPlanLeft
  <2>4. Todo(t) \in Seq(Ops)
    BY TodoTyped DEF RequestsInv
  <2>5. /\ todo \in Seq(Ops) /\ todo[1] = a /\ todo[2] = b /\ todo[3] = c
        /\ \A i \in 4..Len(todo) : i - 2 \in 2..Len(Todo(t)) /\ todo[i] = Todo(t)[i - 2]
    BY <1>2, <1>3, <2>4, GroupFirst
  <2>6. Len(rest) = Len(Todo(t)) - 1 /\ Len(Todo(t)) \in Nat /\ \A i \in 1..Len(rest) : rest[i] = Todo(t)[i + 1]
    BY <1>2, <1>3, <2>4, TailOf
  <2>7. ASSUME NEW i \in 1..Len(todo) PROVE Found(todo[i], zesaruxId)
    <3>1. CASE i \in 4..Len(todo)
      <4>1. i - 3 \in 1..Len(rest) /\ (i - 3) + 1 = i - 2
        BY <2>5, <2>6, <3>1
      <4>2. todo[i] = rest[i - 3]
        BY <2>5, <2>6, <3>1, <4>1
      <4>. QED
        BY <2>3, <4>1, <4>2
    <3>2. CASE i \in {1, 2}
      BY <1>1, <2>5, <3>2 DEF Found
    <3>3. CASE i = 3
      BY <2>2, <2>5, <3>3
    <3>4. i \in 4..Len(todo) \/ i \in {1, 2} \/ i = 3
      <4>1. Len(todo) \in Nat
        BY <2>5
      <4>. QED
        BY <2>7, <4>1
    <3>. QED
      BY <3>1, <3>2, <3>3, <3>4
  <2>. QED
    BY <1>1, <1>3, <1>5, <2>7, OtherSwitch, SwitchTurned
<1>. QED
  BY <1>4, <1>5

LEMMA SwitchAssigned ==
  ASSUME RequestsInv, OneSwitch, NEW t \in Zesarux!Requests, AssertionNumbered(t) \/ AssertionUnnumbered(t)
  PROVE  OneSwitch'
<1>1. StepDone(t) /\ Acts(t, {"numbered", "unnumbered"})
  BY DEF AssertionNumbered, AssertionUnnumbered, Acts
<1>2. PICK rest : rest = Tail(Todo(t))
  OBVIOUS
<1>3. Turned(t, rest, FALSE) /\ Todo(t) # <<>> /\ Todo(t)[1].op \in {"numbered", "unnumbered"} /\ t \in SwitchRequests
  BY <1>1, <1>2, HeadOf DEF StepDone
<1>4. \A i \in 1..Len(rest) : Found(rest[i], zesaruxId')
  BY <1>2, <1>3, SwitchPlanLeft
<1>. QED
  BY <1>3, <1>4, OtherSwitch, SwitchTurned

IsSet(b, conditions, enabledIds) == b.id \in enabledIds /\ conditions[b.id] = Zesarux!AtPlace(b.place)
Ready(ops, conditions, enabledIds) ==
  ops # <<>> =>
    /\ ops[1].op = "enable-breakpoint" => conditions[ops[1].id] = ops[2].what
    /\ ops[1].op = "listed" => ops[1].id \in enabledIds /\ conditions[ops[1].id] = ops[1].what

LEMMA ThereTurned ==
  ASSUME NEW t \in Zesarux!Requests, NEW todo, NEW waits, Turned(t, todo, waits),
         t \in EditRequests => Ready(todo, condition', on'),
         \A u \in EditRequests \ {t} : Ready(Todo(u), condition', on'),
         \A b \in zesaruxList' : \/ IsSet(b, condition', on')
                                 \/ t \in EditRequests /\ Removes(todo, b)
                                 \/ \E u \in EditRequests \ {t} : Removes(Todo(u), b)
  PROVE  SetThere'
<1>1. \A u \in EditRequests : requests'[u].ops = IF u = t THEN todo ELSE Todo(u)
  BY RequestsAre DEF Turned, Todo
<1>2. ASSUME NEW b \in zesaruxList'
      PROVE  (\E u \in EditRequests : Removes(requests'[u].ops, b)) \/ IsSet(b, condition', on')
  BY <1>1
<1>3. ASSUME NEW u \in EditRequests PROVE Ready(requests'[u].ops, condition', on')
  BY <1>1
<1>. QED
  BY <1>2, <1>3 DEF SetThere, IsSet, Ready, Todo, Removes, Unlists, Undoing, Entry, Zesarux!AtPlace

LEMMA SetThereSays ==
  ASSUME SetThere
  PROVE  /\ \A b \in zesaruxList : IsSet(b, condition, on) \/ \E u \in EditRequests : Removes(Todo(u), b)
         /\ \A u \in EditRequests : Ready(Todo(u), condition, on)
BY DEF SetThere, IsSet, Ready

\* ZEsarUX executes nothing in the step.
LEMMA ThereQuiet ==
  ASSUME SetThere, NEW t \in Zesarux!Requests, NEW todo, NEW waits, Turned(t, todo, waits), UNCHANGED <<condition, on>>,
         t \in EditRequests => Ready(todo, condition, on),
         \A b \in zesaruxList' :
            \/ IsSet(b, condition, on)
            \/ b \in zesaruxList /\ (t \in EditRequests /\ Removes(Todo(t), b) => Removes(todo, b))
  PROVE  SetThere'
<1>1. \A b \in zesaruxList' : \/ IsSet(b, condition', on')
                              \/ t \in EditRequests /\ Removes(todo, b)
                              \/ \E u \in EditRequests \ {t} : Removes(Todo(u), b)
  BY SetThereSays
<1>2. (t \in EditRequests => Ready(todo, condition', on')) /\ \A u \in EditRequests : Ready(Todo(u), condition', on')
  BY SetThereSays
<1>. QED
  BY <1>1, <1>2, ThereTurned

LEMMA ThereBegun ==
  ASSUME SetThere, NEW t \in Zesarux!Requests, NEW ops, RequestBegun(t, ops), BreakpointsStay, ZesaruxStays,
         t \in EditRequests => \A i \in 1..Len(ops) : ops[i].op \in {"remove", "take"}
  PROVE  SetThere'
<1>1. Turned(t, ops, FALSE) /\ Todo(t) = <<>> /\ ops \in Seq(Ops) /\ zesaruxList' = zesaruxList /\ UNCHANGED <<condition, on>>
  BY DEF RequestBegun, BreakpointsStay, ZesaruxStays
<1>2. t \in EditRequests => Ready(ops, condition, on)
  <2>1. ops # <<>> => 1 \in 1..Len(ops)
    BY <1>1, TailOf
  <2>. QED
    BY <2>1 DEF Ready
<1>3. \A b : ~Removes(Todo(t), b)
  BY <1>1 DEF Removes, Unlists, Undoing
<1>. QED
  BY <1>1, <1>2, <1>3, ThereQuiet

LEMMA ThereLocal ==
  ASSUME RequestsInv, SetThere, NEW t \in Zesarux!Requests, LocalStays,
         \/ NothingDone(t) \/ NumberTaken(t) \/ RemovalBegun(t) \/ NumberFreed(t)
         \/ AssertionNumbered(t) \/ AssertionUnnumbered(t) \/ EntryListed(t) \/ EntryUnlisted(t)
  PROVE  SetThere'
<1>1. UNCHANGED <<condition, on>>
  BY DEF LocalStays, ZesaruxStays
<1>2. CASE NothingDone(t)
  <2>1. PICK rest : rest = Tail(Todo(t))
    OBVIOUS
  <2>2. Todo(t) # <<>> /\ Todo(t)[1].op \in {"take", "enable", "disable"} /\ Turned(t, rest, FALSE) /\ zesaruxList' = zesaruxList
    BY <1>2, <2>1 DEF NothingDone, Acts, StepDone, BreakpointsStay
  <2>3. t \in EditRequests => ~Taking(rest) /\ ~Undoing(Todo(t))
    BY <2>1, <2>2, HeadView
  <2>4. t \in EditRequests => Ready(rest, condition, on)
    BY <2>3 DEF Taking, Ready
  <2>5. \A b : t \in EditRequests => ~Removes(Todo(t), b)
    BY <2>2, <2>3 DEF Removes, Unlists
  <2>. QED
    BY <1>1, <2>2, <2>4, <2>5, ThereQuiet
<1>3. CASE NumberTaken(t) \/ RemovalBegun(t)
  <2>1. PICK a \in Ops, b \in Ops, c \in Ops, id \in Numbers :
          /\ Group(t, a, b, c, id) /\ a.op \in {"set-breakpoint", "disable-breakpoint"} /\ zesaruxList' = zesaruxList
          /\ Acts(t, {"take", "enable", "remove", "disable"})
    <3>1. CASE NumberTaken(t)
      BY <3>1 DEF NumberTaken, Acts
    <3>2. CASE RemovalBegun(t)
      BY <3>2 DEF RemovalBegun, BreakpointsStay, Acts
    <3>. QED
      BY <1>3, <3>1, <3>2
  <2>2. PICK todo : todo = <<a, b, c>> \o Tail(Todo(t))
    OBVIOUS
  <2>3. Todo(t) # <<>> /\ Todo(t)[1].op \in {"take", "enable", "remove", "disable"} /\ Turned(t, todo, FALSE)
    BY <2>1, <2>2 DEF Acts, Group
  <2>4. todo[1] = a
    <3>1. Todo(t) \in Seq(Ops)
      BY TodoTyped DEF RequestsInv
    <3>. QED
      BY <2>2, <2>3, <3>1, GroupFirst
  <2>5. Ready(todo, condition, on)
    BY <2>1, <2>4 DEF Ready
  <2>6. \A e : ~Removes(Todo(t), e)
    BY <2>3 DEF Removes, Unlists, Undoing
  <2>. QED
    BY <1>1, <2>1, <2>3, <2>5, <2>6, ThereQuiet
<1>4. CASE NumberFreed(t)
  <2>1. PICK rest : rest = Tail(Todo(t))
    OBVIOUS
  <2>2. Todo(t) # <<>> /\ Todo(t)[1].op = "free" /\ Turned(t, rest, FALSE) /\ zesaruxList' = zesaruxList
    BY <1>4, <2>1 DEF NumberFreed, Acts, StepDone
  <2>3. t \in EditRequests => ~Taking(rest) /\ ~Undoing(Todo(t)) /\ Undoing(rest) /\ rest[1] = Todo(t)[2]
    BY <2>1, <2>2, HeadView
  <2>4. t \in EditRequests => Ready(rest, condition, on)
    BY <2>3 DEF Taking, Ready
  <2>5. \A b : t \in EditRequests /\ Removes(Todo(t), b) => Removes(rest, b)
    BY <2>2, <2>3 DEF Removes, Unlists
  <2>. QED
    BY <1>1, <2>2, <2>4, <2>5, ThereQuiet
<1>5. CASE AssertionNumbered(t) \/ AssertionUnnumbered(t)
  <2>1. PICK rest : rest = Tail(Todo(t))
    OBVIOUS
  <2>2. Acts(t, {"numbered", "unnumbered"}) /\ Turned(t, rest, FALSE) /\ zesaruxList' = zesaruxList
    BY <1>5, <2>1 DEF AssertionNumbered, AssertionUnnumbered, Acts, StepDone
  <2>3. t \notin EditRequests
    BY <2>2, HeadOf, RequestsAre
  <2>. QED
    BY <1>1, <2>2, <2>3, ThereQuiet
<1>6. CASE EntryListed(t)
  <2>1. PICK rest, e : rest = Tail(Todo(t)) /\ e = Entry(Todo(t)[1])
    OBVIOUS
  <2>2. Acts(t, {"listed"}) /\ Turned(t, rest, FALSE) /\ zesaruxList' = zesaruxList \cup {e}
    BY <1>6, <2>1 DEF EntryListed, StepDone
  <2>3. t \in EditRequests /\ Todo(t) # <<>> /\ 1 \in 1..Len(Todo(t)) /\ Todo(t)[1].op = "listed"
    BY <2>2, HeadOf
  <2>4. ~Taking(rest) /\ ~Undoing(Todo(t))
    BY <2>1, <2>3, HeadView
  <2>5. Ready(rest, condition, on)
    BY <2>4 DEF Taking, Ready
  <2>6. \A b : ~Removes(Todo(t), b)
    BY <2>3, <2>4 DEF Removes, Unlists
  <2>7. IsSet(e, condition, on)
    <3>1. Todo(t)[1].id \in on /\ condition[Todo(t)[1].id] = Todo(t)[1].what
      BY <2>3, SetThereSays DEF Ready
    <3>2. Todo(t)[1].what = Zesarux!AtPlace(Todo(t)[1].what.place)
      BY <2>3, EditShape DEF Placed
    <3>3. e.id = Todo(t)[1].id /\ e.place = Todo(t)[1].what.place
      BY <2>1 DEF Entry
    <3>. QED
      BY <3>1, <3>2, <3>3 DEF IsSet
  <2>. QED
    BY <1>1, <2>2, <2>5, <2>6, <2>7, ThereQuiet
<1>7. CASE EntryUnlisted(t)
  <2>1. PICK rest, e : rest = Tail(Todo(t)) /\ e = Entry(Todo(t)[1])
    OBVIOUS
  <2>2. Acts(t, {"unlisted"}) /\ Turned(t, rest, FALSE) /\ zesaruxList' = zesaruxList \ {e}
    BY <1>7, <2>1 DEF EntryUnlisted, StepDone
  <2>3. t \in EditRequests /\ Todo(t) # <<>> /\ Todo(t)[1].op = "unlisted"
    BY <2>2, HeadOf
  <2>4. ~Taking(rest)
    BY <2>1, <2>3, HeadView
  <2>5. Ready(rest, condition, on)
    BY <2>4 DEF Taking, Ready
  <2>6. \A b : Removes(Todo(t), b) => b = e
    BY <2>1, <2>3 DEF Removes, Unlists
  <2>. QED
    BY <1>1, <2>2, <2>5, <2>6, ThereQuiet
<1>. QED
  BY <1>2, <1>3, <1>4, <1>5, <1>6, <1>7

\* Numbers that belong to different owners are different.
StaysListed(b) == \A u \in EditRequests : ~Unlists(Todo(u), b)
HasNumber(a) == a \in Assertions /\ zesaruxId[a] # 0 /\ \A u \in SwitchRequests : ~Unassigns(Todo(u), a)
Takers == {u \in EditRequests \cup SwitchRequests : Taking(Todo(u))}

LEMMA OwnersDiffer ==
  ASSUME OneOwner(Owned)
  PROVE  /\ \A b, c \in zesaruxList : StaysListed(b) /\ StaysListed(c) /\ b.id = c.id => b = c
         /\ \A b \in zesaruxList, u \in Takers : StaysListed(b) => b.id # Todo(u)[1].id
         /\ \A u, v \in Takers : Todo(u)[1].id = Todo(v)[1].id => u = v
         /\ \A a, b : HasNumber(a) /\ b \in zesaruxList /\ StaysListed(b) => b.id # zesaruxId[a]
         /\ \A a : \A u \in Takers : HasNumber(a) => Todo(u)[1].id # zesaruxId[a]
<1>1. \A b \in zesaruxList : StaysListed(b) => <<"list", b, b.id>> \in Owned
  BY DEF StaysListed, Owned, ListOwned
<1>2. \A u \in Takers : <<"request", u, Todo(u)[1].id>> \in Owned
  BY DEF Takers, Owned, RequestsOwned
<1>3. \A a : HasNumber(a) => <<"assertion", a, zesaruxId[a]>> \in Owned
  BY DEF HasNumber, Owned, AssertionsOwned
<1>4. \A p, q \in Owned : p[3] = q[3] => p = q
  BY DEF OneOwner
<1>5. ASSUME NEW b \in zesaruxList, NEW c \in zesaruxList, StaysListed(b), StaysListed(c), b.id = c.id PROVE b = c
  <2>1. PICK p, q : p = <<"list", b, b.id>> /\ q = <<"list", c, c.id>>
    OBVIOUS
  <2>2. p \in Owned /\ q \in Owned /\ p[3] = q[3] /\ p[2] = b /\ q[2] = c
    BY <1>1, <1>5, <2>1
  <2>. QED
    BY <1>4, <2>2
<1>6. ASSUME NEW b \in zesaruxList, NEW u \in Takers, StaysListed(b) PROVE b.id # Todo(u)[1].id
  <2>1. PICK p, q : p = <<"list", b, b.id>> /\ q = <<"request", u, Todo(u)[1].id>>
    OBVIOUS
  <2>2. p \in Owned /\ q \in Owned /\ p[1] # q[1] /\ p[3] = b.id /\ q[3] = Todo(u)[1].id
    BY <1>1, <1>2, <1>6, <2>1
  <2>. QED
    BY <1>4, <2>2
<1>7. ASSUME NEW u \in Takers, NEW v \in Takers, Todo(u)[1].id = Todo(v)[1].id PROVE u = v
  <2>1. PICK p, q : p = <<"request", u, Todo(u)[1].id>> /\ q = <<"request", v, Todo(v)[1].id>>
    OBVIOUS
  <2>2. p \in Owned /\ q \in Owned /\ p[3] = q[3] /\ p[2] = u /\ q[2] = v
    BY <1>2, <1>7, <2>1
  <2>. QED
    BY <1>4, <2>2
<1>8. ASSUME NEW a, NEW b, HasNumber(a), b \in zesaruxList, StaysListed(b) PROVE b.id # zesaruxId[a]
  <2>1. PICK p, q : p = <<"list", b, b.id>> /\ q = <<"assertion", a, zesaruxId[a]>>
    OBVIOUS
  <2>2. p \in Owned /\ q \in Owned /\ p[1] # q[1] /\ p[3] = b.id /\ q[3] = zesaruxId[a]
    BY <1>1, <1>3, <1>8, <2>1
  <2>. QED
    BY <1>4, <2>2
<1>9. ASSUME NEW a, NEW u \in Takers, HasNumber(a) PROVE Todo(u)[1].id # zesaruxId[a]
  <2>1. PICK p, q : p = <<"request", u, Todo(u)[1].id>> /\ q = <<"assertion", a, zesaruxId[a]>>
    OBVIOUS
  <2>2. p \in Owned /\ q \in Owned /\ p[1] # q[1] /\ p[3] = Todo(u)[1].id /\ q[3] = zesaruxId[a]
    BY <1>2, <1>3, <1>9, <2>1
  <2>. QED
    BY <1>4, <2>2
<1>. QED
  BY <1>5, <1>6, <1>7, <1>8, <1>9

\* A breakpoint whose condition is set, or that is disabled, is another's than the listed ones and
\* those that the other edits set.
OthersNumbers(t, n) ==
  /\ \A b \in zesaruxList : (\A u \in EditRequests : ~Removes(Todo(u), b)) /\ b.id = n =>
       t \in EditRequests /\ Todo(t)[1].op = "disable-breakpoint" /\ Entry(Todo(t)[3]) = b
  /\ \A u \in EditRequests \ {t} : Todo(u) # <<>> /\ Todo(u)[1].op \in {"enable-breakpoint", "listed"} => Todo(u)[1].id # n

LEMMA DisableHead ==
  ASSUME NEW ops \in Seq(Ops), ops # <<>>, NEW then, NEW undone, NEW plans, Kind(then, undone, plans),
         Shape(ops, then, undone, plans), ops[1].op = "disable-breakpoint"
  PROVE  3 \in 1..Len(ops) /\ ops[3].op = undone /\ ops[3].id = ops[1].id /\ Tail(ops)[1].op = "free" /\ Tail(ops)[2] = ops[3]
         /\ Tail(ops) # <<>>
<1>1. PICK t : t = Tail(ops)
  OBVIOUS
<1>2. t # <<>> /\ t[1].op = "free" /\ Len(t) >= 2 /\ t[2].op = undone /\ t[2].id = ops[1].id
  BY <1>1, HeadTells
<1>3. Tail(ops) \in Seq(Ops) /\ Len(Tail(ops)) = Len(ops) - 1 /\ Len(ops) \in Nat /\ \A i \in 1..Len(Tail(ops)) : Tail(ops)[i] = ops[i + 1]
  BY TailOf
<1>4. Len(Tail(ops)) >= 2
  BY <1>1, <1>2
<1>5. 2 \in 1..Len(Tail(ops)) /\ 3 \in 1..Len(ops) /\ 2 + 1 = 3
  BY <1>3, <1>4
<1>. QED
  BY <1>1, <1>2, <1>3, <1>5

LEMMA OthersKeepTheirs ==
  ASSUME RequestsInv, OneOwner(Owned), OneSwitch, NEW t \in Zesarux!Requests, Todo(t) # <<>>,
         Todo(t)[1].op \in {"set-breakpoint", "disable-breakpoint"}
  PROVE  OthersNumbers(t, Todo(t)[1].id) /\ Todo(t)[1].id \in 1..(MaxId + 1)
<1>1. PICK ops, n : ops = Todo(t) /\ n = Todo(t)[1].id
  OBVIOUS
<1>2. ops \in Seq(Ops) /\ ops # <<>> /\ 1 \in 1..Len(ops)
  BY <1>1, TodoTyped, TailOf DEF RequestsInv
<1>3. \A b \in zesaruxList : (\A u \in EditRequests : ~Removes(Todo(u), b)) => StaysListed(b)
  BY DEF Removes, StaysListed
<1>4. \A u \in EditRequests : Todo(u) # <<>> /\ Todo(u)[1].op \in {"enable-breakpoint", "listed"} => u \in Takers
  BY DEF Takers, Taking
<1>5. CASE t \in EditRequests \cup SwitchRequests /\ ops[1].op = "set-breakpoint"
  <2>1. t \in Takers
    BY <1>1, <1>5 DEF Takers, Taking
  <2>2. OthersNumbers(t, n)
    BY <1>1, <1>3, <1>4, <2>1, OwnersDiffer DEF OthersNumbers
  <2>3. n \in Numbers
    BY <1>1, <1>2, <1>5, EditShape, SwitchShape
  <2>. QED
    BY <1>1, <2>2, <2>3, IdsTyped
<1>6. CASE t \in EditRequests /\ ops[1].op = "disable-breakpoint"
  <2>1. PICK plans : plans = {"remove", "take"}
    OBVIOUS
  <2>2. Shape(ops, "listed", "unlisted", plans) /\ Kind("listed", "unlisted", plans)
    BY <1>1, <1>6, <2>1, EditShape
  <2>3. 3 \in 1..Len(ops) /\ ops[3].op = "unlisted" /\ ops[3].id = ops[1].id
    BY <1>2, <1>6, <2>2, DisableHead
  <2>4. PICK e : e = Entry(ops[3])
    OBVIOUS
  <2>5. e \in zesaruxList /\ e.id = n
    BY <1>1, <1>6, <2>3, <2>4, EditShape DEF Removing, Entry
  <2>6. StaysListed(e)
    <3>1. \A u \in EditRequests : u # t => ~Unlists(Todo(u), e)
      BY <1>1, <1>6, <2>3, <2>4, OwnEntries DEF Placed
    <3>2. ~Unlists(Todo(t), e)
      BY <1>1, <1>6 DEF Unlists, Undoing
    <3>. QED
      BY <3>1, <3>2 DEF StaysListed
  <2>7. \A b \in zesaruxList : (\A u \in EditRequests : ~Removes(Todo(u), b)) /\ b.id = n => b = e
    BY <1>3, <2>5, <2>6, OwnersDiffer
  <2>8. \A u \in Takers : Todo(u)[1].id # n
    BY <2>5, <2>6, OwnersDiffer
  <2>9. n \in Numbers
    BY <1>1, <1>2, <1>6, EditShape
  <2>. QED
    BY <1>1, <1>4, <1>6, <2>4, <2>7, <2>8, <2>9, IdsTyped DEF OthersNumbers
<1>7. CASE t \in SwitchRequests /\ ops[1].op = "disable-breakpoint"
  <2>1. PICK plans : plans = {"enable", "disable"}
    OBVIOUS
  <2>2. Shape(ops, "numbered", "unnumbered", plans) /\ Kind("numbered", "unnumbered", plans)
    BY <1>1, <1>7, <2>1, SwitchShape
  <2>3. 3 \in 1..Len(ops) /\ ops[3].op = "unnumbered" /\ ops[3].id = ops[1].id
    BY <1>2, <1>7, <2>2, DisableHead
  <2>4. PICK a : a = ops[3].what.place[1]
    OBVIOUS
  <2>5. n \in Numbers /\ n # 0
    BY <1>1, <1>2, <1>7, SwitchShape, IdsTyped
  <2>6. a \in Assertions /\ zesaruxId[a] = n
    BY <1>1, <1>7, <2>3, <2>4, SwitchShape DEF OneSwitch, Assigned
  <2>7. \A u \in SwitchRequests : ~Unassigns(Todo(u), a)
    <3>1. \A u \in SwitchRequests : u # t => Todo(u) = <<>>
      BY <1>1, <1>2, <1>7 DEF OneSwitch
    <3>. QED
      BY <1>1, <1>7, <3>1 DEF Unassigns, Undoing
  <2>8. HasNumber(a)
    BY <2>5, <2>6, <2>7 DEF HasNumber
  <2>9. OthersNumbers(t, n)
    BY <1>3, <1>4, <2>6, <2>8, OwnersDiffer DEF OthersNumbers
  <2>. QED
    BY <1>1, <2>5, <2>9, IdsTyped
<1>8. CASE t \notin EditRequests \cup SwitchRequests
  <2>1. t = "run"
    <3>1. PICK op : op = Todo(t)[1]
      OBVIOUS
    <3>2. t # "restore"
      BY <3>1, HeadsAre DEF RequestsInv
    <3>. QED
      BY <1>8, <3>2, RequestsAre DEF EditRequests, SwitchRequests
  <2>2. n = MaxId + 1
    BY <1>1, <1>2, <2>1 DEF RequestsInv, OpsInv, OpsOk
  <2>3. \A b \in zesaruxList : b.id \in Numbers
    BY DEF RequestsInv, ZesaruxTypes, Entries
  <2>4. \A u \in EditRequests : Todo(u) # <<>> /\ Todo(u)[1].op \in {"enable-breakpoint", "listed"} => Todo(u)[1].id \in Numbers
    <3>1. SUFFICES ASSUME NEW u \in EditRequests, Todo(u) # <<>>, Todo(u)[1].op \in {"enable-breakpoint", "listed"}
                   PROVE  Todo(u)[1].id \in Numbers
      OBVIOUS
    <3>2. 1 \in 1..Len(Todo(u))
      BY <3>1, EditShape, TailOf
    <3>. QED
      BY <3>1, <3>2, EditShape
  <2>. QED
    BY <1>1, <2>2, <2>3, <2>4, IdsTyped DEF OthersNumbers
<1>. QED
  BY <1>1, <1>5, <1>6, <1>7, <1>8

LEMMA ExecutedHead ==
  ASSUME RequestsInv, NEW t \in Zesarux!Requests, Executed(t)
  PROVE  /\ Todo(t) # <<>>
         /\ t \in EditRequests \cup SwitchRequests => Todo(t)[1].op \in {"set-breakpoint", "enable-breakpoint", "disable-breakpoint"}
         /\ Todo(t)[1].op = "clear" => restored
         /\ Todo(t)[1].op = "run" => t = "run"
<1>1. Todo(t) # <<>> /\ Zesarux!Command(Todo(t)[1])
  BY DEF Executed, RequestsInv, InTurn
<1>2. PICK op : op = Todo(t)[1]
  OBVIOUS
<1>3. op.op \in {"set-breakpoint", "enable-breakpoint", "disable-breakpoint", "clear", "run", "cpu-step", "get"}
  BY <1>1, <1>2 DEF Zesarux!Command
<1>4. (op.op = "clear" => restored) /\ (op.op = "run" => t = "run")
  BY <1>1, <1>2, HeadsAre DEF RequestsInv
<1>5. ASSUME t \in EditRequests \cup SwitchRequests PROVE op.op \in {"set-breakpoint", "enable-breakpoint", "disable-breakpoint"}
  <2>1. CASE t \in EditRequests
    <3>1. PICK plans : plans = {"remove", "take"}
      OBVIOUS
    <3>2. Todo(t) \in Seq(Ops) /\ Shape(Todo(t), "listed", "unlisted", plans) /\ Kind("listed", "unlisted", plans)
      BY <2>1, <3>1, EditShape
    <3>3. Todo(t)[1].op \in plans \cup {"set-breakpoint", "enable-breakpoint", "listed", "disable-breakpoint", "free", "unlisted"}
      BY <1>1, <3>2, HeadOp
    <3>. QED
      BY <1>2, <1>3, <3>1, <3>3
  <2>2. CASE t \in SwitchRequests
    <3>1. PICK plans : plans = {"enable", "disable"}
      OBVIOUS
    <3>2. Todo(t) \in Seq(Ops) /\ Shape(Todo(t), "numbered", "unnumbered", plans) /\ Kind("numbered", "unnumbered", plans)
      BY <2>2, <3>1, SwitchShape
    <3>3. Todo(t)[1].op \in plans \cup {"set-breakpoint", "enable-breakpoint", "numbered", "disable-breakpoint", "free", "unnumbered"}
      BY <1>1, <3>2, HeadOp
    <3>. QED
      BY <1>2, <1>3, <3>1, <3>3
  <2>. QED
    BY <1>5, <2>1, <2>2
<1>. QED
  BY <1>1, <1>2, <1>4, <1>5

LEMMA ExecutedOwned ==
  ASSUME RequestsInv, NEW t \in Zesarux!Requests, Executed(t), OneOwner(Owned), OneSwitch
  PROVE  OneOwner(Owned') /\ OneSwitch'
<1>1. BreakpointsStay /\ zesaruxId' = zesaruxId /\ Todo(t) # <<>>
  BY DEF Executed, BreakpointsStay
<1>2. CASE Todo(t)[1].op = "run"
  <2>1. requests' = requests
    BY <1>2 DEF Executed
  <2>2. Owned' = Owned
    BY <1>1, <2>1 DEF Owned, StoreOwned, ListOwned, AssertionsOwned, RequestsOwned, Todo, Taking, Unlists, Unassigns, Undoing,
                      BreakpointsStay
  <2>3. OneSwitch'
    BY <1>1, <2>1 DEF OneSwitch, Todo
  <2>. QED
    BY <2>2, <2>3
<1>3. CASE Todo(t)[1].op # "run"
  <2>1. PICK ops, rest : ops = Todo(t) /\ rest = Tail(Todo(t))
    OBVIOUS
  <2>2. StepDone(t) /\ Turned(t, rest, FALSE)
    BY <1>3, <2>1 DEF Executed, StepDone
  <2>3. t \in EditRequests \cup SwitchRequests => Unmoved(Todo(t), rest)
    <3>1. SUFFICES ASSUME t \in EditRequests \cup SwitchRequests PROVE Unmoved(Todo(t), rest)
      OBVIOUS
    <3>2. Todo(t)[1].op \in {"set-breakpoint", "enable-breakpoint", "disable-breakpoint"}
      BY <3>1, ExecutedHead
    <3>. QED
      BY <1>1, <2>1, <3>1, <3>2, HeadView DEF Unmoved
  <2>4. Owned' = Owned
    BY <1>1, <2>2, <2>3, OwnedStays
  <2>5. OneSwitch'
    BY <1>1, <2>2, SwitchTailed
  <2>. QED
    BY <2>4, <2>5
<1>. QED
  BY <1>2, <1>3

LEMMA SetExecuted ==
  ASSUME RequestsInv, NEW t \in Zesarux!Requests, Executed(t), OneOwner(Owned), OneSwitch, SetThere,
         Todo(t)[1].op = "set-breakpoint"
  PROVE  SetThere'
<1>1. PICK ops, rest, n : ops = Todo(t) /\ rest = Tail(Todo(t)) /\ n = Todo(t)[1].id
  OBVIOUS
<1>2. /\ Turned(t, rest, FALSE) /\ condition' = [condition EXCEPT ![n] = ops[1].what] /\ on' = on
      /\ zesaruxList' = zesaruxList /\ Todo(t) # <<>>
  BY <1>1 DEF Executed, StepDone, BreakpointsStay
<1>3. OthersNumbers(t, n) /\ n \in 1..(MaxId + 1)
  BY <1>1, <1>2, OthersKeepTheirs
<1>4. condition'[n] = ops[1].what /\ \A i : i # n /\ i \in 1..(MaxId + 1) => condition'[i] = condition[i]
  BY <1>2, <1>3 DEF RequestsInv, ZesaruxTypes
<1>5. \A b \in zesaruxList : (\A u \in EditRequests : ~Removes(Todo(u), b)) => IsSet(b, condition', on')
  <2>1. SUFFICES ASSUME NEW b \in zesaruxList, \A u \in EditRequests : ~Removes(Todo(u), b) PROVE IsSet(b, condition', on')
    OBVIOUS
  <2>2. b.id # n
    BY <1>3, <2>1 DEF OthersNumbers
  <2>3. b.id \in 1..(MaxId + 1)
    BY IdsTyped DEF RequestsInv, ZesaruxTypes, Entries
  <2>4. IsSet(b, condition, on)
    BY <2>1, SetThereSays
  <2>. QED
    BY <1>2, <1>4, <2>2, <2>3, <2>4 DEF IsSet
<1>6. \A u \in EditRequests \ {t} : Ready(Todo(u), condition', on')
  <2>1. SUFFICES ASSUME NEW u \in EditRequests \ {t}, Todo(u) # <<>>, Todo(u)[1].op \in {"enable-breakpoint", "listed"}
                 PROVE  Ready(Todo(u), condition', on')
    BY DEF Ready
  <2>2. Todo(u)[1].id # n
    BY <1>3, <2>1 DEF OthersNumbers
  <2>3. Todo(u)[1].id \in 1..(MaxId + 1)
    <3>1. 1 \in 1..Len(Todo(u))
      BY <2>1, EditShape, TailOf
    <3>. QED
      BY <2>1, <3>1, EditShape, IdsTyped
  <2>4. Ready(Todo(u), condition, on)
    BY SetThereSays
  <2>. QED
    BY <1>2, <1>4, <2>2, <2>3, <2>4 DEF Ready
<1>7. ASSUME t \in EditRequests
      PROVE  Ready(rest, condition', on') /\ \A b : ~Removes(Todo(t), b)
  <2>1. PICK plans : plans = {"remove", "take"}
    OBVIOUS
  <2>2. ops \in Seq(Ops) /\ Shape(ops, "listed", "unlisted", plans) /\ Kind("listed", "unlisted", plans)
    BY <1>1, <1>7, <2>1, EditShape
  <2>3. rest # <<>> /\ rest[1].op = "enable-breakpoint" /\ rest[1].id = n /\ rest[2].what = ops[1].what
    BY <1>1, <1>2, <2>2, HeadTells
  <2>4. \A b : ~Removes(Todo(t), b)
    BY DEF Removes, Unlists, Undoing
  <2>. QED
    BY <1>4, <2>3, <2>4 DEF Ready
<1>8. \A b \in zesaruxList' : \/ IsSet(b, condition', on')
                              \/ t \in EditRequests /\ Removes(rest, b)
                              \/ \E u \in EditRequests \ {t} : Removes(Todo(u), b)
  BY <1>2, <1>5, <1>7
<1>. QED
  BY <1>2, <1>6, <1>7, <1>8, ThereTurned

LEMMA EnableExecuted ==
  ASSUME RequestsInv, NEW t \in Zesarux!Requests, Executed(t), SetThere, Todo(t)[1].op = "enable-breakpoint"
  PROVE  SetThere'
<1>1. PICK ops, rest, n : ops = Todo(t) /\ rest = Tail(Todo(t)) /\ n = Todo(t)[1].id
  OBVIOUS
<1>2. /\ Turned(t, rest, FALSE) /\ condition' = condition /\ on' = on \cup {n}
      /\ zesaruxList' = zesaruxList /\ Todo(t) # <<>>
  BY <1>1 DEF Executed, StepDone, BreakpointsStay
<1>3. \A b : IsSet(b, condition, on) => IsSet(b, condition', on')
  BY <1>2 DEF IsSet
<1>4. \A o : Ready(o, condition, on) => Ready(o, condition', on')
  BY <1>2 DEF Ready
<1>5. ASSUME t \in EditRequests
      PROVE  Ready(rest, condition', on') /\ \A b : ~Removes(Todo(t), b)
  <2>1. PICK plans : plans = {"remove", "take"}
    OBVIOUS
  <2>2. ops \in Seq(Ops) /\ Shape(ops, "listed", "unlisted", plans) /\ Kind("listed", "unlisted", plans)
    BY <1>1, <1>5, <2>1, EditShape
  <2>3. rest # <<>> /\ rest[1].op = "listed" /\ rest[1].id = n /\ rest[1] = ops[2]
    BY <1>1, <1>2, <2>2, HeadTells
  <2>4. condition[n] = ops[2].what
    BY <1>1, <1>2, <1>5, SetThereSays DEF Ready
  <2>5. \A b : ~Removes(Todo(t), b)
    BY DEF Removes, Unlists, Undoing
  <2>. QED
    BY <1>2, <2>3, <2>4, <2>5 DEF Ready
<1>6. \A b \in zesaruxList' : \/ IsSet(b, condition', on')
                              \/ t \in EditRequests /\ Removes(rest, b)
                              \/ \E u \in EditRequests \ {t} : Removes(Todo(u), b)
  BY <1>2, <1>3, <1>5, SetThereSays
<1>. QED
  BY <1>2, <1>4, <1>5, <1>6, SetThereSays, ThereTurned

LEMMA DisableExecuted ==
  ASSUME RequestsInv, NEW t \in Zesarux!Requests, Executed(t), OneOwner(Owned), OneSwitch, SetThere,
         Todo(t)[1].op = "disable-breakpoint"
  PROVE  SetThere'
<1>1. PICK ops, rest, n : ops = Todo(t) /\ rest = Tail(Todo(t)) /\ n = Todo(t)[1].id
  OBVIOUS
<1>2. /\ Turned(t, rest, FALSE) /\ condition' = condition /\ on' = on \ {n}
      /\ zesaruxList' = zesaruxList /\ Todo(t) # <<>>
  BY <1>1 DEF Executed, StepDone, BreakpointsStay
<1>3. OthersNumbers(t, n)
  BY <1>1, <1>2, OthersKeepTheirs
<1>4. ASSUME t \in EditRequests
      PROVE  /\ Ready(rest, condition', on') /\ (\A b : ~Removes(Todo(t), b))
             /\ \A b : b = Entry(Todo(t)[3]) => Removes(rest, b)
  <2>1. PICK plans : plans = {"remove", "take"}
    OBVIOUS
  <2>2. ops \in Seq(Ops) /\ Shape(ops, "listed", "unlisted", plans) /\ Kind("listed", "unlisted", plans)
    BY <1>1, <1>4, <2>1, EditShape
  <2>3. rest # <<>> /\ rest[1].op = "free" /\ rest[2] = ops[3]
    BY <1>1, <1>2, <2>2, DisableHead
  <2>4. \A b : ~Removes(Todo(t), b)
    BY DEF Removes, Unlists, Undoing
  <2>. QED
    BY <1>1, <2>3, <2>4 DEF Ready, Removes
<1>5. \A b \in zesaruxList' : \/ IsSet(b, condition', on')
                              \/ t \in EditRequests /\ Removes(rest, b)
                              \/ \E u \in EditRequests \ {t} : Removes(Todo(u), b)
  <2>1. SUFFICES ASSUME NEW b \in zesaruxList, \A u \in EditRequests : ~Removes(Todo(u), b), ~(t \in EditRequests /\ Removes(rest, b))
                 PROVE  IsSet(b, condition', on')
    BY <1>2, <1>4
  <2>2. b.id # n
    BY <1>3, <1>4, <2>1 DEF OthersNumbers
  <2>3. IsSet(b, condition, on)
    BY <2>1, SetThereSays
  <2>. QED
    BY <1>2, <2>2, <2>3 DEF IsSet
<1>6. \A u \in EditRequests \ {t} : Ready(Todo(u), condition', on')
  <2>1. SUFFICES ASSUME NEW u \in EditRequests \ {t}, Todo(u) # <<>>, Todo(u)[1].op \in {"enable-breakpoint", "listed"}
                 PROVE  Ready(Todo(u), condition', on')
    BY DEF Ready
  <2>2. Todo(u)[1].id # n
    BY <1>3, <2>1 DEF OthersNumbers
  <2>3. Ready(Todo(u), condition, on)
    BY SetThereSays
  <2>. QED
    BY <1>2, <2>2, <2>3 DEF Ready
<1>. QED
  BY <1>2, <1>4, <1>5, <1>6, ThereTurned

LEMMA ExecutedThere ==
  ASSUME RequestsInv, NEW t \in Zesarux!Requests, Executed(t), OneOwner(Owned), OneSwitch, SetThere, ~restored
  PROVE  SetThere'
<1>1. CASE Todo(t)[1].op \in {"set-breakpoint", "enable-breakpoint", "disable-breakpoint"}
  BY <1>1, SetExecuted, EnableExecuted, DisableExecuted
<1>2. CASE Todo(t)[1].op \notin {"set-breakpoint", "enable-breakpoint", "disable-breakpoint"}
  <2>1. UNCHANGED <<condition, on>> /\ zesaruxList' = zesaruxList /\ t \notin EditRequests
    BY <1>2, ExecutedHead DEF Executed, BreakpointsStay
  <2>2. PICK rest : rest = Tail(Todo(t))
    OBVIOUS
  <2>3. CASE Todo(t)[1].op = "run"
    <3>1. requests' = requests
      BY <2>3 DEF Executed
    <3>. QED
      BY <2>1, <3>1 DEF SetThere, Todo, Removes, Unlists, Undoing
  <2>4. CASE Todo(t)[1].op # "run"
    <3>1. Turned(t, rest, FALSE)
      BY <2>2, <2>4 DEF Executed, StepDone
    <3>. QED
      BY <2>1, <3>1, ThereQuiet
  <2>. QED
    BY <2>3, <2>4
<1>. QED
  BY <1>1, <1>2

NumbersGood == OneOwner(Owned) /\ OneSwitch /\ SetThere

\* A request begins.
LEMMA BegunGood ==
  ASSUME NumbersGood, NEW t \in Zesarux!Requests, NEW ops, RequestBegun(t, ops), BreakpointsStay, ZesaruxStays,
         t \in EditRequests => \A i \in 1..Len(ops) : ops[i].op \in {"remove", "take"},
         t \in SwitchRequests => /\ \A i \in 1..Len(ops) : ops[i].op \in {"enable", "disable"}
                                 /\ \A u \in SwitchRequests : Todo(u) = <<>>
  PROVE  NumbersGood'
<1>1. Turned(t, ops, FALSE) /\ Todo(t) = <<>> /\ ops \in Seq(Ops) /\ zesaruxId' = zesaruxId
  BY DEF RequestBegun, BreakpointsStay
<1>2. ops # <<>> => 1 \in 1..Len(ops)
  BY <1>1, TailOf
<1>3. t \in EditRequests \cup SwitchRequests => ~Taking(ops) /\ ~Undoing(ops) /\ ~Taking(Todo(t)) /\ ~Undoing(Todo(t))
  BY <1>1, <1>2 DEF Taking, Undoing
<1>4. Owned' = Owned
  BY <1>1, <1>3, OwnedStays DEF Unmoved
<1>5. OneSwitch'
  <2>1. CASE t \in SwitchRequests
    <3>1. \A i \in 1..Len(ops) : Found(ops[i], zesaruxId')
      BY <2>1 DEF Found
    <3>. QED
      BY <1>1, <2>1, <3>1, SwitchTurned
  <2>2. CASE t \notin SwitchRequests
    BY <1>1, <2>2, SwitchesQuiet DEF NumbersGood
  <2>. QED
    BY <2>1, <2>2
<1>6. SetThere'
  BY ThereBegun DEF NumbersGood
<1>7. OneOwner(Owned')
  BY <1>4 DEF NumbersGood
<1>8. OneOwner(Owned)'
  BY <1>7 DEF OneOwner, Numbers
<1>. QED
  BY <1>5, <1>6, <1>8 DEF NumbersGood

LEMMA LocalGood ==
  ASSUME RequestsInv, NumbersGood, NEW t \in Zesarux!Requests, LocalStays, LocalStep(t), ~restored
  PROVE  NumbersGood'
<1>1. CASE NothingDone(t)
  <2>1. PICK rest : rest = Tail(Todo(t))
    OBVIOUS
  <2>2. /\ Todo(t) # <<>> /\ Todo(t)[1].op \in {"take", "enable", "disable"} /\ StepDone(t) /\ Turned(t, rest, FALSE)
        /\ BreakpointsStay /\ zesaruxId' = zesaruxId
    BY <1>1, <2>1 DEF NothingDone, Acts, StepDone, BreakpointsStay
  <2>3. t \in EditRequests \cup SwitchRequests => Unmoved(Todo(t), rest)
    BY <2>1, <2>2, HeadView DEF Unmoved
  <2>4. Owned' = Owned
    BY <2>2, <2>3, OwnedStays
  <2>5. OneSwitch'
    BY <2>2, SwitchTailed DEF NumbersGood
  <2>. QED
    BY <1>1, <2>4, <2>5, ThereLocal DEF NumbersGood, OneOwner, Numbers
<1>2. CASE NumberTaken(t)
  <2>1. OneOwner(Owned')
    BY <1>2, NumberTakenMoves DEF NumbersGood
  <2>2. OneSwitch'
    BY <1>2, SwitchGrouped DEF NumbersGood
  <2>. QED
    BY <1>2, <2>1, <2>2, ThereLocal DEF NumbersGood, OneOwner, Numbers
<1>3. CASE RemovalBegun(t)
  <2>1. PICK a \in Ops, b \in Ops, c \in Ops, id \in Numbers :
          /\ Group(t, a, b, c, id) /\ a.op = "disable-breakpoint" /\ Acts(t, {"remove", "disable"}) /\ BreakpointsStay
    BY <1>3 DEF RemovalBegun, Acts
  <2>2. PICK todo : todo = <<a, b, c>> \o Tail(Todo(t))
    OBVIOUS
  <2>3. Todo(t) # <<>> /\ Todo(t)[1].op \in {"remove", "disable"} /\ Turned(t, todo, FALSE)
    BY <2>1, <2>2 DEF Acts, Group
  <2>4. todo # <<>> /\ todo[1] = a
    <3>1. Todo(t) \in Seq(Ops)
      BY TodoTyped DEF RequestsInv
    <3>. QED
      BY <2>2, <2>3, <3>1, GroupFirst
  <2>5. Unmoved(Todo(t), todo)
    BY <2>1, <2>3, <2>4 DEF Unmoved, Taking, Undoing
  <2>6. Owned' = Owned
    BY <2>1, <2>3, <2>5, OwnedStays
  <2>7. OneSwitch'
    BY <1>3, SwitchGrouped DEF NumbersGood
  <2>. QED
    BY <1>3, <2>6, <2>7, ThereLocal DEF NumbersGood, OneOwner, Numbers
<1>4. CASE EntryListed(t) \/ EntryUnlisted(t) \/ NumberFreed(t)
  <2>1. OneOwner(Owned')
    BY <1>4, EntryListedMoves, EntryUnlistedStays, NumberFreedMoves DEF NumbersGood
  <2>2. StepDone(t) /\ Todo(t) # <<>> /\ zesaruxId' = zesaruxId
    BY <1>4 DEF EntryListed, EntryUnlisted, NumberFreed, Acts
  <2>3. OneSwitch'
    BY <2>2, SwitchTailed DEF NumbersGood
  <2>. QED
    BY <1>4, <2>1, <2>3, ThereLocal DEF NumbersGood, OneOwner, Numbers
<1>5. CASE AssertionNumbered(t) \/ AssertionUnnumbered(t)
  <2>1. OneOwner(Owned')
    BY <1>5, AssertionNumberedMoves, AssertionUnnumberedStays DEF NumbersGood
  <2>2. OneSwitch'
    BY <1>5, SwitchAssigned DEF NumbersGood
  <2>. QED
    BY <1>5, <2>1, <2>2, ThereLocal DEF NumbersGood, OneOwner, Numbers
<1>6. CASE NumbersReset(t)
  <2>1. Acts(t, {"renumber"})
    BY <1>6 DEF NumbersReset
  <2>. QED
    BY <2>1, HeadOf
<1>. QED
  BY <1>1, <1>2, <1>3, <1>4, <1>5, <1>6 DEF LocalStep

\* Steps that turn a request without giving or taking anything.
LEMMA TurnedGood ==
  ASSUME RequestsInv, NumbersGood, NEW t \in Zesarux!Requests, NEW waits, NEW todo, Turned(t, todo, waits), BreakpointsStay,
         UNCHANGED <<condition, on>>, todo = Todo(t) \/ t \notin EditRequests \cup SwitchRequests
  PROVE  NumbersGood'
<1>1. Owned' = Owned
  BY OwnedStays DEF Unmoved
<1>2. OneSwitch'
  <2>1. CASE t \in SwitchRequests
    <3>1. todo = Todo(t)
      BY <2>1
    <3>2. \A u \in SwitchRequests : requests'[u].ops = Todo(u)
      BY <2>1, <3>1, RequestsAre DEF Turned, Todo
    <3>. QED
      BY <3>2 DEF NumbersGood, OneSwitch, Todo, BreakpointsStay
  <2>2. CASE t \notin SwitchRequests
    BY <2>2, SwitchesQuiet DEF NumbersGood, BreakpointsStay
  <2>. QED
    BY <2>1, <2>2
<1>3. SetThere'
  <2>1. t \in EditRequests => todo = Todo(t)
    OBVIOUS
  <2>2. t \in EditRequests => Ready(todo, condition, on)
    BY <2>1, SetThereSays DEF NumbersGood
  <2>3. zesaruxList' = zesaruxList /\ SetThere
    BY DEF BreakpointsStay, NumbersGood
  <2>. QED
    BY <2>1, <2>2, <2>3, ThereQuiet
<1>. QED
  BY <1>1, <1>2, <1>3 DEF NumbersGood, OneOwner, Numbers

LEMMA StillGood ==
  ASSUME NumbersGood, requests' = requests, BreakpointsStay, UNCHANGED <<condition, on>>
  PROVE  NumbersGood'
<1>1. Owned' = Owned
  BY DEF Owned, StoreOwned, ListOwned, AssertionsOwned, RequestsOwned, Todo, Taking, Unlists, Unassigns, Undoing, Entry, BreakpointsStay
<1>2. OneSwitch' /\ SetThere'
  BY DEF NumbersGood, OneSwitch, SetThere, Todo, Removes, Unlists, Undoing, Entry, BreakpointsStay
<1>. QED
  BY <1>1, <1>2 DEF NumbersGood, OneOwner, Numbers

LEMMA NumbersKeep ==
  ASSUME RequestsInv, NumbersInv, ZesaruxStep
  PROVE  NumbersInv'
<1>1. SUFFICES ASSUME ~restored', ~requestsOverlapped' PROVE NumbersGood'
  BY DEF NumbersInv, NumbersGood, Calm
<1>2. Calm => NumbersGood
  BY DEF NumbersInv, NumbersGood
<1>3. ASSUME NEW t \in EditRequests, NEW ops, EditBegun(t, ops) PROVE NumbersGood'
  <2>1. /\ RequestBegun(t, ops) /\ BreakpointsStay /\ ZesaruxStays /\ restored' = restored /\ requestsOverlapped' = requestsOverlapped
        /\ \A i \in 1..Len(ops) : ops[i].op \in {"remove", "take"}
    BY <1>3 DEF EditBegun
  <2>2. NumbersGood
    BY <1>1, <1>2, <2>1 DEF Calm
  <2>. QED
    BY <2>1, <2>2, BegunGood, RequestsAre
<1>4. ASSUME NEW t \in SwitchRequests, NEW ops, SwitchBegun(t, ops) PROVE NumbersGood'
  <2>1. /\ RequestBegun(t, ops) /\ BreakpointsStay /\ ZesaruxStays /\ restored' = restored
        /\ \A i \in 1..Len(ops) : ops[i].op \in {"enable", "disable"}
        /\ requestsOverlapped' = (requestsOverlapped \/ Todo("switch") # <<>> \/ Todo("switch2") # <<>>)
    BY <1>4, Zenon DEF SwitchBegun
  <2>2. ~requestsOverlapped /\ Todo("switch") = <<>> /\ Todo("switch2") = <<>>
    BY <1>1, <2>1, Zenon
  <2>3. NumbersGood
    BY <1>1, <1>2, <2>1, <2>2 DEF Calm
  <2>4. (\A u \in SwitchRequests : Todo(u) = <<>>) /\ t \notin EditRequests /\ t \in Zesarux!Requests
    BY <2>2, RequestsAre DEF SwitchRequests
  <2>5. /\ t \in EditRequests => \A i \in 1..Len(ops) : ops[i].op \in {"remove", "take"}
        /\ RequestBegun(t, ops) /\ BreakpointsStay /\ ZesaruxStays /\ \A i \in 1..Len(ops) : ops[i].op \in {"enable", "disable"}
    BY <2>1, <2>4, Zenon
  <2>. QED
    BY <2>3, <2>4, <2>5, BegunGood
<1>5. ASSUME NEW kind, NEW ops, RunBegun(kind, ops) PROVE NumbersGood'
  <2>1. /\ RequestBegun("run", ops) /\ BreakpointsStay /\ ZesaruxStays /\ restored' = restored /\ requestsOverlapped' = requestsOverlapped
    BY <1>5 DEF RunBegun
  <2>2. NumbersGood
    BY <1>1, <1>2, <2>1 DEF Calm
  <2>. QED
    BY <2>1, <2>2, BegunGood, RequestsAre
<1>6. ASSUME NEW ops, RestoreBegun(ops) PROVE FALSE
  BY <1>1, <1>6 DEF RestoreBegun
<1>7. ASSUME NEW t \in Zesarux!Requests, LocalStays, LocalStep(t) PROVE NumbersGood'
  BY <1>1, <1>2, <1>7, LocalGood DEF LocalStays, Calm
<1>8. ASSUME NEW t \in Zesarux!Requests, Zesarux!Send(t) PROVE NumbersGood'
  <2>1. Turned(t, Todo(t), TRUE)
    BY <1>8, SendTurns DEF RequestsInv
  <2>2. BreakpointsStay /\ UNCHANGED <<condition, on, restored, requestsOverlapped>>
    BY <1>8 DEF Zesarux!Send, Zesarux!brk, Zesarux!hist, BreakpointsStay
  <2>. QED
    BY <1>1, <1>2, <2>1, <2>2, TurnedGood DEF Calm
<1>9. ASSUME NEW t \in Zesarux!Requests, Executed(t) PROVE NumbersGood'
  <2>1. UNCHANGED <<restored, requestsOverlapped>>
    BY <1>9 DEF Executed
  <2>2. NumbersGood /\ ~restored
    BY <1>1, <1>2, <2>1 DEF Calm
  <2>3. OneOwner(Owned') /\ OneSwitch' /\ SetThere'
    BY <1>9, <2>2, ExecutedOwned, ExecutedThere DEF NumbersGood
  <2>. QED
    BY <2>3 DEF NumbersGood, OneOwner, Numbers
<1>10. CASE Resolved
  <2>1. PICK rest : rest = Tail(Todo("run"))
    OBVIOUS
  <2>2. Turned("run", rest, FALSE) /\ BreakpointsStay /\ UNCHANGED <<condition, on, restored, requestsOverlapped>>
    BY <1>10, <2>1 DEF Resolved, StepDone, ZesaruxStays
  <2>. QED
    BY <1>1, <1>2, <2>2, TurnedGood, RequestsAre DEF Calm
<1>11. CASE RunEnded
  <2>1. PICK rest : rest = Tail(Todo("run"))
    OBVIOUS
  <2>2. Turned("run", rest, FALSE) /\ BreakpointsStay /\ UNCHANGED <<condition, on, restored, requestsOverlapped>>
    BY <1>11, <2>1 DEF RunEnded, StepDone
  <2>. QED
    BY <1>1, <1>2, <2>2, TurnedGood, RequestsAre DEF Calm
<1>12. CASE MachineMoves
  BY <1>1, <1>2, <1>12, StillGood DEF MachineMoves, Calm
<1>13. CASE UNCHANGED zesaruxVars
  <2>1. requests' = requests /\ BreakpointsStay /\ UNCHANGED <<condition, on, restored, requestsOverlapped>>
    BY <1>13 DEF zesaruxVars, BreakpointsStay
  <2>. QED
    BY <1>1, <1>2, <2>1, StillGood DEF Calm
<1>. QED
  BY <1>3, <1>4, <1>5, <1>6, <1>7, <1>8, <1>9, <1>10, <1>11, <1>12, <1>13, Zenon DEF ZesaruxStep

LEMMA NumbersBegin ==
  ASSUME Zesarux!Init
  PROVE  NumbersInv
<1>1. /\ freeBreakpointIds = [i \in 1..MaxId |-> MaxId + 1 - i] /\ zesaruxList = {} /\ zesaruxId = [a \in Assertions |-> 0]
      /\ requests = [t \in Zesarux!Requests |-> Zesarux!Idle]
  BY DEF Zesarux!Init
<1>2. \A t \in Zesarux!Requests : Todo(t) = <<>>
  BY <1>1 DEF Todo, Zesarux!Idle
<1>3. Len(freeBreakpointIds) = MaxId /\ \A i \in 1..MaxId : freeBreakpointIds[i] = MaxId + 1 - i
  BY <1>1, IdsTyped
<1>4. Owned = {<<"store", i, MaxId + 1 - i>> : i \in 1..MaxId}
  <2>1. StoreOwned = {<<"store", i, MaxId + 1 - i>> : i \in 1..MaxId}
    BY <1>3 DEF StoreOwned
  <2>2. ListOwned = {} /\ AssertionsOwned = {}
    BY <1>1 DEF ListOwned, AssertionsOwned
  <2>3. RequestsOwned = {}
    BY <1>2, RequestsAre DEF RequestsOwned, Taking
  <2>. QED
    BY <2>1, <2>2, <2>3 DEF Owned
<1>5. OneOwner(Owned)
  <2>1. ASSUME NEW i \in 1..MaxId, NEW j \in 1..MaxId, MaxId + 1 - i = MaxId + 1 - j PROVE i = j
    BY <2>1, IdsTyped
  <2>2. \A p, q \in Owned : p[3] = q[3] => p = q
    BY <1>4, <2>1
  <2>3. \A p \in Owned : p[3] \in Numbers
    <3>1. \A i \in 1..MaxId : MaxId + 1 - i \in Numbers
      BY IdsTyped DEF Numbers
    <3>. QED
      BY <1>4, <3>1
  <2>4. ASSUME NEW n \in Numbers PROVE \E p \in Owned : p[3] = n
    <3>1. PICK i \in 1..MaxId : i = MaxId + 1 - n /\ MaxId + 1 - i = n
      BY IdsTyped DEF Numbers
    <3>2. PICK p : p = <<"store", i, MaxId + 1 - i>>
      OBVIOUS
    <3>. QED
      BY <1>4, <3>1, <3>2
  <2>5. {p[3] : p \in Owned} = Numbers
    BY <2>3, <2>4
  <2>. QED
    BY <2>2, <2>5 DEF OneOwner
<1>6. OneSwitch
  <2>1. \A t \in SwitchRequests : Todo(t) = <<>> /\ Len(Todo(t)) = 0
    BY <1>2, RequestsAre
  <2>2. 1..0 = {}
    OBVIOUS
  <2>. QED
    BY <2>1, <2>2 DEF OneSwitch
<1>7. SetThere
  BY <1>1, <1>2, RequestsAre DEF SetThere
<1>. QED
  BY <1>5, <1>6, <1>7 DEF NumbersInv

LEMMA ListedAreSet ==
  ASSUME RequestsInv, NumbersInv
  PROVE  Zesarux!ListedIsSet
<1>1. SUFFICES ASSUME ~restored, ~requestsOverlapped, NEW b \in zesaruxList
               PROVE  Zesarux!Editing(b) \/ (b.id \in on /\ condition[b.id] = Zesarux!AtPlace(b.place))
  BY DEF Zesarux!ListedIsSet
<1>2. SetThere
  BY <1>1 DEF NumbersInv, Calm
<1>3. ASSUME NEW t \in EditRequests, Removes(Todo(t), b) PROVE Zesarux!Editing(b)
  <2>1. Todo(t) # <<>> /\ 1 \in 1..Len(Todo(t)) /\ Todo(t) \in Seq(Ops)
    <3>1. Todo(t) # <<>>
      BY <1>3 DEF Removes, Unlists, Undoing
    <3>. QED
      BY <3>1, EditShape, TailOf
  <2>2. \E i \in 1..Len(Todo(t)) : Todo(t)[i].id = b.id
    <3>1. CASE Unlists(Todo(t), b)
      BY <2>1, <3>1 DEF Unlists, Entry
    <3>2. CASE Todo(t)[1].op = "free" /\ Entry(Todo(t)[2]) = b
      <4>1. 2 \in 1..Len(Todo(t))
        BY <2>1, <3>2, FreeHead
      <4>2. Todo(t)[2].id = b.id
        BY <3>2 DEF Entry
      <4>. QED
        BY <4>1, <4>2
    <3>. QED
      BY <1>3, <3>1, <3>2 DEF Removes
  <2>3. DOMAIN requests[t].ops = 1..Len(Todo(t))
    BY <2>1 DEF Todo
  <2>. QED
    BY <2>1, <2>2, <2>3 DEF Zesarux!Editing, Zesarux!Busy, Todo, EditRequests
<1>. QED
  BY <1>2, <1>3 DEF SetThere

LEMMA OneNumberEach ==
  ASSUME NEW S, NEW s \in Seq(S), \A i, j \in 1..Len(s) : s[i] = s[j] => i = j
  PROVE  Zesarux!Cardinality(Zesarux!Range(s)) = Len(s)
<1>1. PICK R : R = {s[i] : i \in 1..Len(s)}
  OBVIOUS
<1>2. Zesarux!Range(s) = R
  BY <1>1 DEF Zesarux!Range
<1>3. \E f : f \in Bijection(1..Len(s), R)
  <2>1. PICK f : f = [i \in 1..Len(s) |-> s[i]]
    OBVIOUS
  <2>2. f \in [1..Len(s) -> R] /\ \A i \in 1..Len(s) : f[i] = s[i]
    BY <1>1, <2>1
  <2>3. (\A i, j \in 1..Len(s) : f[i] = f[j] => i = j) /\ \A r \in R : \E i \in 1..Len(s) : f[i] = r
    BY <1>1, <2>2
  <2>. QED
    BY <2>2, <2>3 DEF Bijection, Injection, Surjection, IsInjective
<1>4. ExistsBijection(1..Len(s), R)
  BY <1>3 DEF ExistsBijection
<1>5. Len(s) \in Nat
  OBVIOUS
<1>6. Cardinality(R) = Len(s)
  BY <1>4, <1>5, FS_CountingElements
<1>7. Zesarux!Cardinality(R) = Cardinality(R)
  BY Zenon DEF Zesarux!Cardinality, Cardinality
<1>. QED
  BY <1>2, <1>6, <1>7

LEMMA AllNumbersKept ==
  ASSUME RequestsInv, NumbersInv
  PROVE  Zesarux!NumbersAreKept
<1>1. SUFFICES ASSUME ~restored, ~requestsOverlapped, \A t \in Zesarux!Requests \ {"run"} : ~Zesarux!Busy(t)
               PROVE  /\ Zesarux!InUse \cup Zesarux!Range(freeBreakpointIds) = 1..MaxId
                      /\ Zesarux!InUse \cap Zesarux!Range(freeBreakpointIds) = {}
                      /\ Zesarux!Cardinality(Zesarux!Range(freeBreakpointIds)) = Len(freeBreakpointIds)
                      /\ \A b, c \in zesaruxList : b.id = c.id => b = c
                      /\ \A b \in zesaruxList, a \in Assertions : b.id # zesaruxId[a]
  BY Zenon DEF Zesarux!NumbersAreKept
<1>2. OneOwner(Owned)
  BY <1>1 DEF NumbersInv, Calm
<1>3. \A t \in EditRequests \cup SwitchRequests : Todo(t) = <<>>
  BY <1>1, RequestsAre DEF Zesarux!Busy, Todo
<1>4. \A b : StaysListed(b)
  BY <1>3 DEF StaysListed, Unlists, Undoing
<1>5. \A a \in Assertions : zesaruxId[a] # 0 => HasNumber(a)
  BY <1>3 DEF HasNumber, Unassigns, Undoing
<1>6. \A b, c \in zesaruxList : b.id = c.id => b = c
  BY <1>2, <1>4, OwnersDiffer
<1>7. \A b \in zesaruxList, a \in Assertions : b.id # zesaruxId[a]
  <2>1. \A b \in zesaruxList : b.id # 0
    BY IdsTyped DEF RequestsInv, ZesaruxTypes, Entries
  <2>. QED
    BY <1>2, <1>4, <1>5, <2>1, OwnersDiffer
<1>8. PICK n \in Nat : n = Len(freeBreakpointIds) /\ DOMAIN freeBreakpointIds = 1..n
  BY DEF RequestsInv, ZesaruxTypes
<1>9. Zesarux!Range(freeBreakpointIds) = {freeBreakpointIds[i] : i \in 1..n}
  BY <1>8 DEF Zesarux!Range
<1>10. Zesarux!InUse = {b.id : b \in zesaruxList} \cup {zesaruxId[a] : a \in {c \in Assertions : zesaruxId[c] # 0}}
  BY DEF Zesarux!InUse
<1>11. Owned = {<<"store", i, freeBreakpointIds[i]>> : i \in 1..n} \cup {<<"list", b, b.id>> : b \in zesaruxList}
               \cup {<<"assertion", a, zesaruxId[a]>> : a \in {c \in Assertions : zesaruxId[c] # 0}}
  <2>1. StoreOwned = {<<"store", i, freeBreakpointIds[i]>> : i \in 1..n}
    BY <1>8 DEF StoreOwned
  <2>2. ListOwned = {<<"list", b, b.id>> : b \in zesaruxList}
    BY <1>4 DEF ListOwned, StaysListed
  <2>3. AssertionsOwned = {<<"assertion", a, zesaruxId[a]>> : a \in {c \in Assertions : zesaruxId[c] # 0}}
    BY <1>5 DEF AssertionsOwned, HasNumber
  <2>4. RequestsOwned = {}
    BY <1>3 DEF RequestsOwned, Taking
  <2>. QED
    BY <2>1, <2>2, <2>3, <2>4 DEF Owned
<1>12. Zesarux!InUse \cup Zesarux!Range(freeBreakpointIds) = 1..MaxId
  <2>1. \A p \in Owned : p[3] \in Zesarux!InUse \cup Zesarux!Range(freeBreakpointIds)
    BY <1>9, <1>10, <1>11
  <2>2. ASSUME NEW i \in 1..n PROVE \E p \in Owned : p[3] = freeBreakpointIds[i]
    <3>1. PICK p : p = <<"store", i, freeBreakpointIds[i]>>
      OBVIOUS
    <3>. QED
      BY <1>11, <3>1
  <2>3. ASSUME NEW b \in zesaruxList PROVE \E p \in Owned : p[3] = b.id
    <3>1. PICK p : p = <<"list", b, b.id>>
      OBVIOUS
    <3>. QED
      BY <1>11, <3>1
  <2>4. ASSUME NEW a \in Assertions, zesaruxId[a] # 0 PROVE \E p \in Owned : p[3] = zesaruxId[a]
    <3>1. PICK p : p = <<"assertion", a, zesaruxId[a]>>
      OBVIOUS
    <3>. QED
      BY <1>11, <2>4, <3>1
  <2>5. \A m \in Zesarux!InUse \cup Zesarux!Range(freeBreakpointIds) : \E p \in Owned : p[3] = m
    BY <1>9, <1>10, <2>2, <2>3, <2>4
  <2>6. {p[3] : p \in Owned} = Zesarux!InUse \cup Zesarux!Range(freeBreakpointIds)
    BY <2>1, <2>5
  <2>. QED
    BY <1>2, <2>6 DEF OneOwner, Numbers
<1>13. Zesarux!InUse \cap Zesarux!Range(freeBreakpointIds) = {}
  <2>1. \A i \in 1..n, b \in zesaruxList : freeBreakpointIds[i] # b.id
    <3>1. SUFFICES ASSUME NEW i \in 1..n, NEW b \in zesaruxList, freeBreakpointIds[i] = b.id PROVE FALSE
      OBVIOUS
    <3>2. PICK p, q : p = <<"store", i, freeBreakpointIds[i]>> /\ q = <<"list", b, b.id>>
      OBVIOUS
    <3>. QED
      BY <1>2, <1>11, <3>1, <3>2 DEF OneOwner
  <2>2. \A i \in 1..n, a \in Assertions : zesaruxId[a] # 0 => freeBreakpointIds[i] # zesaruxId[a]
    <3>1. SUFFICES ASSUME NEW i \in 1..n, NEW a \in Assertions, zesaruxId[a] # 0, freeBreakpointIds[i] = zesaruxId[a] PROVE FALSE
      OBVIOUS
    <3>2. PICK p, q : p = <<"store", i, freeBreakpointIds[i]>> /\ q = <<"assertion", a, zesaruxId[a]>>
      OBVIOUS
    <3>. QED
      BY <1>2, <1>11, <3>1, <3>2 DEF OneOwner
  <2>. QED
    BY <1>9, <1>10, <2>1, <2>2
<1>14. Zesarux!Cardinality(Zesarux!Range(freeBreakpointIds)) = Len(freeBreakpointIds)
  <2>1. ASSUME NEW i \in 1..n, NEW j \in 1..n, freeBreakpointIds[i] = freeBreakpointIds[j] PROVE i = j
    <3>1. PICK p, q : p = <<"store", i, freeBreakpointIds[i]>> /\ q = <<"store", j, freeBreakpointIds[j]>>
      OBVIOUS
    <3>2. p \in Owned /\ q \in Owned /\ p[3] = q[3] /\ p[2] = i /\ q[2] = j
      BY <1>11, <2>1, <3>1
    <3>. QED
      BY <1>2, <3>2 DEF OneOwner
  <2>2. freeBreakpointIds \in Seq(Numbers)
    BY DEF RequestsInv, ZesaruxTypes
  <2>. QED
    BY <1>8, <2>1, <2>2, OneNumberEach
<1>. QED
  BY <1>6, <1>7, <1>12, <1>13, <1>14

\* The module's steps change ZEsarUX's variables by one of ZEsarUX's steps, or not at all.
LEMMA OnlyZesarux ==
  ASSUME [MCNext]_<<part, vars, zesaruxVars>>
  PROVE  Zesarux!Next \/ UNCHANGED zesaruxVars
BY Zenon DEF MCNext

LEMMA NumbersInductive == MCSpec => [](RequestsInv /\ RunInv /\ NumbersInv)
<1>1. MCInit => RequestsInv /\ RunInv /\ NumbersInv
  BY RequestsBegin, RunInvBegins, NumbersBegin DEF MCInit
<1>2. RequestsInv /\ RunInv /\ NumbersInv /\ [MCNext]_<<part, vars, zesaruxVars>> => (RequestsInv /\ RunInv /\ NumbersInv)'
  <2>1. SUFFICES ASSUME RequestsInv, RunInv, NumbersInv, [MCNext]_<<part, vars, zesaruxVars>>
                 PROVE  RequestsInv' /\ RunInv' /\ NumbersInv'
    OBVIOUS
  <2>2. ZesaruxStep
    BY <2>1, OnlyZesarux, ZesaruxSteps
  <2>. QED
    BY <2>1, <2>2, RequestsKept, RunKept, NumbersKeep
<1>. QED
  BY <1>1, <1>2, PTL DEF MCSpec

(* Every number of ZEsarUX's breakpoints has one owner, in whatever order the answers come to    *)
(* the requests under way: a listed breakpoint is set under its number, no number is lost or     *)
(* given twice (ZesaruxRemote.setBreakpoint, removeBreakpoint), and a step over a call or out of *)
(* one ends where it should and leaves no breakpoint behind.                                     *)
THEOREM NumbersKept == MCSpec => []NumbersMatch
<1>1. RequestsInv /\ RunInv /\ NumbersInv => NumbersMatch
  BY ListedAreSet, AllNumbersKept, ComesBack DEF NumbersMatch
<1>. QED
  BY <1>1, NumbersInductive, PTL
===============================================================================
