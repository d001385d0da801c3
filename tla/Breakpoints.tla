----------------------------- MODULE Breakpoints -----------------------------
(***************************************************************************)
(* The breakpoints of a DZRP remote.  The user sets them file by file      *)
(* (setBreakpoints), switches those that come from comments in the sources *)
(* (WPMEM, ASSERTION and groups of LOGPOINTs), and every list file that    *)
(* changes reloads the latter.  All of them talk to the remote breakpoint  *)
(* by breakpoint; between two of them another request may run.             *)
(***************************************************************************)
EXTENDS Integers, Sequences, FiniteSets, SequencesExt

CONSTANTS
  Files,      \* the source files
  Lines,      \* the lines of a file that have an address
  AddressOf,  \* AddressOf[place]: the address of a line, with a condition and a log
  FileAt,     \* FileAt[address]: the file of the last line that has the address
  Groups,     \* the groups of log points
  Comments,   \* the comments of each kind in the sources
  Capacity,   \* how many breakpoints the remote can hold
  MaxEdits,   \* bound: calls of setBreakpoints
  MaxTasks,   \* bound: reloads and switches
  MaxFails    \* bound: commands that the remote does not answer

ASSUME GroupsAssumption == IsFiniteSet(Groups)

VARIABLES
  breakpoints,   \* the list of the user's breakpoints
  noAddress,     \* those that the remote had no room for: their address is -1
  remoteUser,    \* the user's breakpoints the remote has
  edits,         \* edits[e]: a call of setBreakpoints
  fails,
  strays,        \* how many breakpoints the remote has whose number never arrived
  lists,         \* lists[k]: the objects made of the comments of kind k
  enabled,       \* wpmemEnabled, assertionBreakpointsEnabled, logpointsEnabled
  bpId,          \* the objects that have an id; WPMEM: addedWatchpoints
  remote,        \* the objects that the remote has
  noRoom,        \* the objects that the remote had no room for: their id is 0
  tasks,         \* tasks[t]: a reload or a switch
  overlapped,    \* two tasks ran at the same time (history)
  broken,        \* the kinds whose loop was broken off by an error, until one switches them off
  forgotten      \* the broken kinds that got a new list (history)

userVars == <<breakpoints, noAddress, remoteUser, edits, fails>>
faultVars == <<strays, noRoom, broken, forgotten>>
listVars == <<lists, enabled, bpId, remote, tasks, overlapped, faultVars>>
vars     == <<userVars, listVars>>

Kinds  == {"WPMEM", "ASSERTION"} \cup Groups
Places == Files \X Lines
Bp(place, e) == [place |-> place, edit |-> e]
FileOf(bp) == bp.place[1]
Address(bp) == AddressOf[bp.place]
Made(k, n) == {k} \X {n} \X Comments

\* log points and assertions take the room of breakpoints, watchpoints have their own
HasRoom ==
  Cardinality(remoteUser) + Cardinality({o \in remote : o[1] # "WPMEM"}) + strays < Capacity

Idle == [stage |-> "idle", file |-> CHOOSE f \in Files : TRUE, given |-> {},
         remove |-> {}, add |-> {}, alone |-> TRUE]
NoTask == [stage |-> "idle", plan |-> <<>>, todo |-> {}, prev |-> {}, pending |-> {}]

Init ==
  /\ breakpoints = {}
  /\ noAddress = {}
  /\ remoteUser = {}
  /\ edits = [e \in 1..MaxEdits |-> Idle]
  /\ fails = 0
  /\ lists = [k \in Kinds |-> Made(k, 0)]
  /\ enabled = [k \in Kinds |-> FALSE]
  /\ bpId = {}
  /\ remote = {}
  /\ tasks = [t \in 1..MaxTasks |-> NoTask]
  /\ overlapped = FALSE
  /\ strays = 0 /\ noRoom = {} /\ broken = {} /\ forgotten = {}

------------------------------------------------------------------------------
(* The user's breakpoints.  A place is the line the user gave: the entry    *)
(* made of it has the last line with its address, so that two lines with    *)
(* one address, as a label's and its instruction's, make two equal entries. *)

Running(e) == edits[e].stage \in {"edit", "adding"}
Over(e, stage) ==
  [edits EXCEPT ![e].stage = stage, ![e].given = {}, ![e].remove = {}, ![e].add = {}]

\* the lines of those the user gave whose address leads back to the file; the others get an error
Valid(f, given) == {p \in {f} \X given : FileAt[AddressOf[p]] = f}

\* mutant: a breakpoint that is already there is added again
setBreakpointsAgain(e) ==
  /\ edits[e].stage = "idle" /\ \A d \in 1..(e - 1) : edits[d].stage # "idle"
  /\ \E f \in Files, given \in SUBSET Lines :
       edits' = [edits EXCEPT ![e] =
         [stage |-> "edit", file |-> f, given |-> Valid(f, given),
          remove |-> {b \in breakpoints : FileOf(b) = f /\ \A p \in Valid(f, given) : Address(b) # AddressOf[p]},
          add |-> Valid(f, given),
          alone |-> \A d \in 1..(e - 1) : edits[d].alone /\ ~Running(d)]]
  /\ UNCHANGED <<breakpoints, noAddress, remoteUser, fails, listVars>>

\* setBreakpoints: what is to be removed and what to be added is found, by the addresses, before
\* the first await
setBreakpoints(e) ==
  /\ edits[e].stage = "idle" /\ \A d \in 1..(e - 1) : edits[d].stage # "idle"
  /\ \E f \in Files, given \in SUBSET Lines :
       LET old     == {b \in breakpoints : FileOf(b) = f}
           current == Valid(f, given)
           have    == {Address(b) : b \in old \ noAddress}
           keep    == {AddressOf[p] : p \in current}
           busy    == {d \in 1..MaxEdits : Running(d) /\ edits[d].file = f}
       IN edits' = [d \in 1..MaxEdits |->
                      CASE d = e -> [stage |-> "edit", file |-> f, given |-> current,
                                     remove |-> {b \in old \ noAddress : Address(b) \notin keep},
                                     add |-> {p \in current : AddressOf[p] \notin have},
                                     alone |-> /\ busy = {}
                                               /\ \A c \in 1..(e - 1) : edits[c].file = f => edits[c].alone]
                        [] d \in busy -> [edits[d] EXCEPT !.alone = FALSE]
                        [] OTHER -> edits[d]]
  /\ UNCHANGED <<breakpoints, noAddress, remoteUser, fails, listVars>>

\* the list loses the breakpoint before the remote does; it must be in the list
removeBreakpoint(e) ==
  /\ edits[e].stage = "edit"
  /\ \E b \in edits[e].remove :
       IF b \in breakpoints
       THEN /\ breakpoints' = breakpoints \ {b}
            /\ \/ /\ remoteUser' = remoteUser \ {b}
                  /\ edits' = [edits EXCEPT ![e].remove = @ \ {b}]
                  /\ UNCHANGED fails
               \/ /\ fails < MaxFails
                  /\ fails' = fails + 1
                  /\ remoteUser' \in {remoteUser, remoteUser \ {b}}
                  /\ edits' = Over(e, "failed")
       ELSE /\ edits' = Over(e, "failed")
            /\ UNCHANGED <<breakpoints, remoteUser, fails>>
  /\ UNCHANGED <<noAddress, listVars>>

\* mutant: the breakpoint is listed before the remote has answered
setBreakpointEarly(e) ==
  /\ edits[e].stage = "edit" /\ edits[e].remove = {}
  /\ \E place \in edits[e].add :
       /\ breakpoints' = breakpoints \cup {Bp(place, e)}
       /\ \/ remoteUser' = remoteUser \cup {Bp(place, e)} /\ fails' = fails
          \/ fails < MaxFails /\ fails' = fails + 1 /\ remoteUser' = remoteUser
       /\ edits' = [edits EXCEPT ![e].add = @ \ {place}]
  /\ UNCHANGED <<noAddress, listVars>>

\* the remote gets the breakpoint first; without room it answers the id 0
setBreakpoint(e) ==
  /\ edits[e].stage = "edit" /\ edits[e].remove = {}
  /\ \E place \in edits[e].add :
       \/ /\ edits' = [edits EXCEPT ![e].stage = "adding", ![e].add = {place} \cup @]
          /\ remoteUser' = IF HasRoom THEN remoteUser \cup {Bp(place, e)} ELSE remoteUser
          /\ UNCHANGED fails
       \/ /\ fails < MaxFails
          /\ fails' = fails + 1
          /\ edits' = Over(e, "failed")
          /\ \/ remoteUser' = remoteUser
             \/ HasRoom /\ remoteUser' = remoteUser \cup {Bp(place, e)}
  /\ UNCHANGED <<breakpoints, noAddress, listVars>>

\* mutant: an answer with the id 0 does not resolve the request
BreakpointSetNonZero(e) ==
  /\ edits[e].stage = "adding"
  /\ \E place \in edits[e].add :
       /\ Bp(place, e) \in remoteUser \ breakpoints
       /\ breakpoints' = breakpoints \cup {Bp(place, e)}
       /\ edits' = [edits EXCEPT ![e].stage = "edit", ![e].add = @ \ {place}]
  /\ UNCHANGED <<noAddress, remoteUser, fails, listVars>>

\* the answer comes: the list has it now, with an address or without
BreakpointSet(e) ==
  /\ edits[e].stage = "adding"
  /\ \E place \in edits[e].add :
       LET b == Bp(place, e)
       IN /\ b \notin breakpoints
          /\ b \in remoteUser \/ ~\E p \in edits[e].add : Bp(p, e) \in remoteUser \ breakpoints
          /\ breakpoints' = breakpoints \cup {b}
          /\ noAddress' = IF b \in remoteUser THEN noAddress ELSE noAddress \cup {b}
          /\ edits' = [edits EXCEPT ![e].stage = "edit", ![e].add = @ \ {place}]
  /\ UNCHANGED <<remoteUser, fails, listVars>>

\* the list that vscode gets to show
Answer(e) ==
  /\ edits[e].stage = "edit" /\ edits[e].remove = {} /\ edits[e].add = {}
  /\ edits' = Over(e, "done")
  /\ UNCHANGED <<breakpoints, noAddress, remoteUser, fails, listVars>>

------------------------------------------------------------------------------
(* The breakpoints of the comments                                          *)

Active(t) == tasks[t].stage # "idle" /\ tasks[t].stage # "done"
Others(t) == \E u \in 1..MaxTasks : u # t /\ Active(u)

Start(t, plan) ==
  /\ tasks[t].stage = "idle" /\ \A u \in 1..(t - 1) : tasks[u].stage # "idle"
  /\ tasks' = [tasks EXCEPT ![t] = [NoTask EXCEPT !.stage = "next", !.plan = plan]]
  /\ overlapped' = (overlapped \/ Others(t))
  /\ UNCHANGED <<userVars, lists, enabled, bpId, remote, faultVars>>

\* a list file has changed: initWpmemAssertionLogpoints
reloadLabels(t) ==
  Start(t, <<<<"suspend", "WPMEM">>, <<"suspend", "ASSERTION">>, <<"suspendGroups", "all">>>>)

\* the user checks or unchecks an exception breakpoint
setExceptionBreakPoints(t) ==
  \E k \in Kinds : Start(t, <<<<IF enabled[k] THEN "off" ELSE "on", k>>>>)

ToDo(on, k) == IF k = "WPMEM" THEN lists[k] ELSE IF on THEN lists[k] \ bpId ELSE lists[k] \cap bpId

\* The next part of the plan.  "suspend" remembers what was enabled; the loops run over the
\* list as it is when they begin.
NextPart(t) ==
  LET part == Head(tasks[t].plan)
      k    == part[2]
      rest == Tail(tasks[t].plan)
      Loop(on, kind) == [stage |-> IF on THEN "on" ELSE "off", plan |-> <<<<"loop", kind>>>> \o rest,
                         todo |-> lists[kind], prev |-> tasks[t].prev, pending |-> {}]
      groups == SetToSeq({g \in Groups : lists[g] # {}})
  IN /\ tasks[t].stage = "next" /\ tasks[t].plan # <<>> /\ part[1] # "create"
     /\ CASE part[1] \in {"on", "off"} -> tasks' = [tasks EXCEPT ![t] = Loop(part[1] = "on", k)]
          [] part[1] = "suspend" ->
               tasks' = [tasks EXCEPT ![t] =
                 IF enabled[k] THEN [Loop(FALSE, k) EXCEPT !.prev = @ \cup {k}]
                 ELSE [tasks[t] EXCEPT !.plan = rest]]
          [] part[1] = "suspendGroups" ->
               tasks' = [tasks EXCEPT ![t].prev = @ \cup {g \in Groups : enabled[g]},
                                      ![t].plan = [i \in DOMAIN groups |-> <<"off", groups[i]>>]
                                                    \o <<<<"create", "all">>>>]
     /\ UNCHANGED <<userVars, lists, enabled, bpId, remote, overlapped, faultVars>>

\* mutant: what was enabled is not switched on again
createAllOff(t) ==
  /\ tasks[t].stage = "next" /\ tasks[t].plan # <<>> /\ Head(tasks[t].plan)[1] = "create"
  /\ lists' = [k \in Kinds |-> Made(k, t)]
  /\ enabled' = [k \in Kinds |-> IF k \in tasks[t].prev THEN TRUE ELSE enabled[k]]
  /\ tasks' = [tasks EXCEPT ![t].plan = <<>>]
  /\ UNCHANGED <<userVars, bpId, remote, overlapped, faultVars>>

\* new objects are made of the comments; a group that was enabled may be gone
create(t) ==
  /\ tasks[t].stage = "next" /\ tasks[t].plan # <<>> /\ Head(tasks[t].plan)[1] = "create"
  /\ \E gone \in SUBSET Groups :
       /\ lists' = [k \in Kinds |-> IF k \in gone THEN {} ELSE Made(k, t)]
       /\ enabled' = [k \in Kinds |-> k \notin Groups /\ enabled[k]]
  /\ tasks' = [tasks EXCEPT ![t].plan =
                 LET Was(k) == IF k \in tasks[t].prev THEN <<k>> ELSE <<>>
                     again  == Was("WPMEM") \o Was("ASSERTION") \o SetToSeq(tasks[t].prev \cap Groups)
                 IN [i \in DOMAIN again |-> <<"on", again[i]>>]]
  /\ forgotten' = forgotten \cup broken
  /\ UNCHANGED <<userVars, bpId, remote, overlapped, strays, noRoom, broken>>

\* one object: a breakpoint that has its id is not added again, one without is not removed
Needs(t, o) ==
  LET k == tasks[t].plan[1][2]
  IN k = "WPMEM" \/ (tasks[t].stage = "on") # (o \in bpId)

\* The command of an object; a watchpoint is entered, or forgotten, before it is sent.
Send(t) ==
  LET on == tasks[t].stage = "on"
      k  == tasks[t].plan[1][2]
  IN /\ tasks[t].stage \in {"on", "off"} /\ tasks[t].pending = {}
     /\ \E o \in tasks[t].todo :
          LET act == Needs(t, o)
              fits == k = "WPMEM" \/ HasRoom
          IN /\ tasks' = [tasks EXCEPT ![t].todo = @ \ {o}, ![t].pending = IF act THEN {o} ELSE {}]
             /\ remote' = CASE ~act -> remote
                            [] act /\ on -> IF fits THEN remote \cup {o} ELSE remote
                            [] act /\ ~on -> remote \ {o}
             /\ noRoom' = IF act /\ on THEN IF fits THEN noRoom \ {o} ELSE noRoom \cup {o} ELSE noRoom
             /\ bpId' = IF k # "WPMEM" THEN bpId ELSE IF on THEN bpId \cup {o} ELSE bpId \ {o}
     /\ UNCHANGED <<userVars, lists, enabled, overlapped, strays, broken, forgotten>>

\* its answer: only now it has an id, unless that is 0, or has lost it
Answered(t) ==
  LET on == tasks[t].stage = "on"
  IN /\ tasks[t].pending # {}
     /\ tasks' = [tasks EXCEPT ![t].pending = {}]
     /\ bpId' = IF on THEN bpId \cup (tasks[t].pending \ noRoom) ELSE bpId \ tasks[t].pending
     /\ UNCHANGED <<userVars, lists, enabled, remote, overlapped, faultVars>>

\* The command of an object is not answered, or its socket fails: it was carried out or was not.
\* The error leaves the loop halfway and ends the task.
Fail(t) ==
  LET on == tasks[t].stage = "on"
      k  == tasks[t].plan[1][2]
  IN /\ tasks[t].stage \in {"on", "off"} /\ tasks[t].pending = {}
     /\ fails < MaxFails /\ fails' = fails + 1
     /\ \E o \in tasks[t].todo :
          /\ Needs(t, o)
          /\ CASE k = "WPMEM" /\ on ->
                    /\ bpId' = bpId \cup {o} /\ remote' \in {remote, remote \cup {o}}
                    /\ UNCHANGED strays
               [] k # "WPMEM" /\ on ->
                    /\ strays' \in {strays} \cup (IF HasRoom THEN {strays + 1} ELSE {})
                    /\ UNCHANGED <<bpId, remote>>
               [] ~on ->
                    /\ bpId' = IF k = "WPMEM" THEN bpId \ {o} ELSE bpId
                    /\ remote' \in {remote, remote \ {o}}
                    /\ UNCHANGED strays
     /\ tasks' = [tasks EXCEPT ![t] = [NoTask EXCEPT !.stage = "done"]]
     /\ broken' = broken \cup {k}
     /\ UNCHANGED <<breakpoints, noAddress, remoteUser, edits, lists, enabled, overlapped, noRoom, forgotten>>

\* the end of a loop; a group that does not exist ends the reload with an error
LoopEnds(t) ==
  LET k == tasks[t].plan[1][2]
      unknown == k \in Groups /\ lists[k] = {} /\ tasks[t].stage = "on"
  IN /\ tasks[t].stage \in {"on", "off"} /\ tasks[t].todo = {} /\ tasks[t].pending = {}
     /\ enabled' = IF unknown THEN enabled ELSE [enabled EXCEPT ![k] = tasks[t].stage = "on"]
     /\ tasks' = [tasks EXCEPT ![t].stage = "next", ![t].plan = IF unknown THEN <<>> ELSE Tail(@)]
     /\ broken' = IF tasks[t].stage = "off" THEN broken \ {k} ELSE broken
     /\ UNCHANGED <<userVars, lists, bpId, remote, overlapped, strays, noRoom, forgotten>>

TaskEnds(t) ==
  /\ tasks[t].stage = "next" /\ tasks[t].plan = <<>>
  /\ tasks' = [tasks EXCEPT ![t].stage = "done"]
  /\ UNCHANGED <<userVars, lists, enabled, bpId, remote, overlapped, faultVars>>

------------------------------------------------------------------------------
Edit(e) == removeBreakpoint(e) \/ setBreakpoint(e) \/ BreakpointSet(e) \/ Answer(e)
Task(t) == NextPart(t) \/ create(t) \/ Send(t) \/ Answered(t) \/ LoopEnds(t) \/ TaskEnds(t)

Next ==
  \/ \E e \in 1..MaxEdits : setBreakpoints(e) \/ Edit(e)
  \/ \E t \in 1..MaxTasks : reloadLabels(t) \/ setExceptionBreakPoints(t) \/ Task(t) \/ Fail(t)

Spec ==
  /\ Init /\ [][Next]_vars
  /\ \A e \in 1..MaxEdits : WF_vars(Edit(e))
  /\ \A t \in 1..MaxTasks : WF_vars(Task(t))

------------------------------------------------------------------------------
(* Properties                                                               *)

\* Whatever edits run at the same time and whichever of their commands fails, a breakpoint
\* in the list that has an address is set at the remote.
ListedIsSet == breakpoints \ noAddress \subseteq remoteUser

\* When an edit of a file is answered without an error and no two edits of the file have
\* overlapped so far, the list has the addresses that the user gave and, but for those without
\* room, no others; an address that it has twice was given twice, as two lines, in one edit.
FileAsGiven ==
  [][\A e \in 1..MaxEdits :
       Answer(e) /\ edits[e].alone =>
         LET listed == {b \in breakpoints : FileOf(b) = edits[e].file}
             given  == {AddressOf[p] : p \in edits[e].given}
         IN /\ given \subseteq {Address(b) : b \in listed}
            /\ \A b \in listed \ noAddress : Address(b) \in given
            /\ \A b, c \in listed \ noAddress : Address(b) = Address(c) => b.edit = c.edit]_vars

\* When nothing is under way, and reloads and switches came one after the other, the remote
\* has the objects of the kinds that are enabled, but for those it had no room for, and no
\* others.  This is not said of a kind whose switch was broken off by an error: until it has
\* been switched off as a whole, and for good when its list was replaced before that.
SwitchesMatch ==
  (~overlapped /\ \A t \in 1..MaxTasks : ~Active(t)) =>
    \A k \in Kinds \ (broken \cup forgotten) :
      {o \in remote : o[1] = k} = IF enabled[k] THEN lists[k] \ noRoom ELSE {}

\* Every request of the user is answered, and every reload ends: again and again nothing is
\* under way (there are finitely many requests).
RequestsEnd ==
  []<>(/\ \A e \in 1..MaxEdits : ~Running(e)
       /\ \A t \in 1..MaxTasks : ~Active(t))
==============================================================================
