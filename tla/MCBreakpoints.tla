---------------------------- MODULE MCBreakpoints ----------------------------
(***************************************************************************)
(* Breakpoints for TLC: the lists that all remotes share, and what         *)
(* ZEsarUX, which has a fixed number of breakpoints, makes of its own.     *)
(* "part" says which is explored: the breakpoints of the user and those of *)
(* the comments share only the room of the remote, and are explored apart  *)
(* and then, with one request of each kind, together.                      *)
(***************************************************************************)
EXTENDS Breakpoints

CONSTANTS AtOnce, Assertions, MaxId, MaxLevel, MaxRequests

ASSUME ZesaruxAssumption == IsFiniteSet(Assertions) /\ MaxId \in Nat /\ MaxLevel \in Nat

VARIABLES
  part,
  freeBreakpointIds, zesaruxList, zesaruxId, requests, queue, condition, on, running, level, pc,
  returned, fired, result, used, restored, requestsOverlapped

zesaruxVars ==
  <<freeBreakpointIds, zesaruxList, zesaruxId, requests, queue, condition, on, running, level, pc,
    returned, fired, result, used, restored, requestsOverlapped>>

Zesarux == INSTANCE ZesaruxRemote
             WITH breakpoints <- zesaruxList, bpId <- zesaruxId, tasks <- requests,
                  overlapped <- requestsOverlapped

\* lines 1 and 2 have one address, as a label and its instruction; that of line 4 is a macro's
MCAddressOf == [p \in Files \X Lines |-> IF p[2] = 2 THEN <<p[1], 1>> ELSE p]
MCFileAt    == [a \in Files \X Lines |-> IF a[2] = 4 THEN "macros" ELSE a[1]]

MCInit == part \in {"user", "comments", "both", "zesarux"} /\ Init /\ Zesarux!Init

\* at most AtOnce edits run at the same time
UserNext(edit) ==
  /\ \E e \in edit : setBreakpoints(e) \/ Edit(e)
  /\ Cardinality({e \in edit : Running(e)'}) <= AtOnce
\* when tasks overlap there are only AtOnce of them
CommentsNext(task) ==
  /\ \E t \in task : reloadLabels(t) \/ setExceptionBreakPoints(t) \/ Task(t) \/ Fail(t)
  /\ overlapped' => Cardinality({t \in task : tasks'[t].stage # "idle"}) <= AtOnce

MCNext ==
  \/ part = "user" /\ UserNext(1..MaxEdits) /\ UNCHANGED <<part, zesaruxVars>>
  \/ part = "comments" /\ CommentsNext(1..MaxTasks) /\ UNCHANGED <<part, zesaruxVars>>
  \/ /\ part = "both" /\ (UserNext({1} \cap 1..MaxEdits) \/ CommentsNext({1} \cap 1..MaxTasks))
     /\ UNCHANGED <<part, zesaruxVars>>
  \/ part = "zesarux" /\ Zesarux!Next /\ UNCHANGED <<part, vars>>

MCSpec ==
  /\ MCInit /\ [][MCNext]_<<part, vars, zesaruxVars>>
  /\ \A e \in 1..MaxEdits : WF_vars(part \in {"user", "both"} /\ Edit(e))
  /\ \A t \in 1..MaxTasks : WF_vars(part \in {"comments", "both"} /\ Task(t))

------------------------------------------------------------------------------
(* When nothing is under way the remote has what is in the lists: the      *)
(* user's breakpoints at any time, the objects of the comments as their    *)
(* kinds are enabled.                                                      *)
RemoteHasTheLists == ListedIsSet /\ SwitchesMatch

(* A listed breakpoint is set in ZEsarUX under its number, no number is    *)
(* lost or given twice, and steps over and out of calls, which take one of *)
(* the numbers, end where they should and leave no breakpoint behind.      *)
NumbersMatch == Zesarux!ListedIsSet /\ Zesarux!NumbersAreKept /\ Zesarux!StepsComeBack
==============================================================================
