-------------------------------- MODULE Mutex --------------------------------
(***************************************************************************)
(* The mutex of misc/mutex.ts: tasks of one event loop queue for it; a     *)
(* timer limits the time between the call of 'lock' that succeeds and the  *)
(* call of 'unlock'.  ZesaruxSocket.quit serialises itself with one.       *)
(***************************************************************************)
EXTENDS Naturals, Sequences, SequencesExt

CONSTANT Tasks   \* the functions that use the mutex

VARIABLES
  locks,           \* the tasks that hold or wait for the mutex
  timeoutHandle,   \* "undefined", "armed", or "elapsed": a handle whose timer has fired
  task,            \* how far each task is
  late,            \* the tasks whose time has elapsed before they called unlock (history)
  stolen           \* an unlock has released the lock of another task (history)

vars == <<locks, timeoutHandle, task, late, stolen>>

TaskStates == {"outside", "waiting", "granted", "inside"}

Init ==
  /\ locks = <<>>
  /\ timeoutHandle = "undefined"
  /\ task = [t \in Tasks |-> "outside"]
  /\ late = {}
  /\ stolen = FALSE

(* proceed() arms the timer and lets the task continue in a later turn of  *)
(* the event loop (setImmediate).                                          *)
lockAtOnce(t) ==   \* mutant: a task proceeds although the list is not empty
  /\ task[t] = "outside"
  /\ locks' = Append(locks, t)
  /\ timeoutHandle' = "armed"
  /\ task' = [task EXCEPT ![t] = "granted"]
  /\ UNCHANGED <<late, stolen>>

lock(t) ==
  /\ task[t] = "outside"
  /\ locks' = Append(locks, t)
  /\ IF locks = <<>>
     THEN timeoutHandle' = "armed" /\ task' = [task EXCEPT ![t] = "granted"]
     ELSE UNCHANGED timeoutHandle /\ task' = [task EXCEPT ![t] = "waiting"]
  /\ UNCHANGED <<late, stolen>>

Enter(t) ==
  /\ task[t] = "granted"
  /\ task' = [task EXCEPT ![t] = "inside"]
  /\ UNCHANGED <<locks, timeoutHandle, late, stolen>>

Leave(t) ==
  /\ task[t] = "inside"
  /\ late' = late \ {t}

UnlockThrows(t) ==
  /\ Leave(t)
  /\ timeoutHandle = "undefined"
  /\ task' = [task EXCEPT ![t] = "outside"]
  /\ UNCHANGED <<locks, timeoutHandle, stolen>>

UnlockForgets(t) ==   \* mutant: the next task in the queue is not told
  /\ Leave(t)
  /\ timeoutHandle # "undefined"
  /\ locks' = IF locks = <<>> THEN <<>> ELSE Tail(locks)
  /\ stolen' = (stolen \/ (locks # <<>> /\ Head(locks) # t))
  /\ timeoutHandle' = "undefined"
  /\ task' = [task EXCEPT ![t] = "outside"]

unlock(t) ==
  /\ Leave(t)
  /\ timeoutHandle # "undefined"
  /\ locks' = IF locks = <<>> THEN <<>> ELSE Tail(locks)
  /\ stolen' = (stolen \/ (locks # <<>> /\ Head(locks) # t))
  /\ IF locks' = <<>>
     THEN timeoutHandle' = "undefined" /\ task' = [task EXCEPT ![t] = "outside"]
     ELSE /\ timeoutHandle' = "armed"
          /\ task' = [task EXCEPT ![t] = "outside", ![Head(locks')] = "granted"]

(* The time is up: the owner is not told, the waiting tasks are rejected,  *)
(* and the list is empty for the next one.                                 *)
TimeoutWithoutReject ==   \* mutant: the list is cleared, its tasks are not rejected
  /\ timeoutHandle = "armed"
  /\ timeoutHandle' = "elapsed"
  /\ late' = late \cup {Head(locks)}
  /\ locks' = <<>>
  /\ UNCHANGED <<task, stolen>>

Timeout ==
  /\ timeoutHandle = "armed"
  /\ timeoutHandle' = "elapsed"
  /\ late' = late \cup {Head(locks)}
  /\ locks' = <<>>
  /\ task' = [t \in Tasks |-> IF task[t] = "waiting" THEN "outside" ELSE task[t]]
  /\ UNCHANGED stolen

Next ==
  \/ \E t \in Tasks : lock(t) \/ Enter(t) \/ UnlockThrows(t) \/ unlock(t)
  \/ Timeout

Spec == Init /\ [][Next]_vars

(* The event loop runs timers and immediates; nobody promises to unlock.   *)
FairSpec == Spec /\ WF_vars(Timeout) /\ WF_vars(\E t \in Tasks : Enter(t))

-----------------------------------------------------------------------------
Owns(t) == task[t] \in {"granted", "inside"}

(* The timer runs exactly while the list has an owner.                     *)
TypeOK ==
  /\ locks \in Seq(Tasks)
  /\ timeoutHandle = "armed" <=> locks # <<>>
  /\ timeoutHandle \in {"undefined", "armed", "elapsed"}
  /\ task \in [Tasks -> TaskStates]
  /\ late \in SUBSET Tasks
  /\ stolen \in BOOLEAN

(* As long as no late unlock has released someone else's lock, of all the  *)
(* tasks that are within their time at most one is between 'lock' and      *)
(* 'unlock', however timeouts, rejections and new locks follow each other. *)
MutualExclusion ==
  ~stolen => \A t, u \in Tasks \ late : Owns(t) /\ Owns(u) => t = u

(* A task that waits stands in the list behind the owner, and the owner's  *)
(* timer is running: there is always an event that will serve or reject it.*)
WaiterIsServed ==
  \A t \in Tasks : task[t] = "waiting" =>
    timeoutHandle = "armed" /\ \E i \in 2..Len(locks) : locks[i] = t

(* Every lock() is settled, with the lock or with an exception, even when  *)
(* the owner never calls unlock.                                           *)
EveryLockSettles == \A t \in Tasks : task[t] = "waiting" ~> task[t] # "waiting"
=============================================================================
