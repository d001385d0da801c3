----------------------------- MODULE MutexProofs -----------------------------
(***************************************************************************)
(* Proofs about the mutex, for any set of tasks.                           *)
(***************************************************************************)
EXTENDS Mutex, SequenceTheorems, TLAPS

(* The list and the tasks say the same: the head owns the mutex, the       *)
(* others wait, nobody is in the list twice, and a task that was timed     *)
(* out is not in the list any more.                                        *)
ListMatchesTasks ==
  /\ \A i \in 1..Len(locks) : IF i = 1 THEN Owns(locks[i]) ELSE task[locks[i]] = "waiting"
  /\ \A i, j \in 1..Len(locks) : locks[i] = locks[j] => i = j
  /\ \A i \in 1..Len(locks) : locks[i] \notin late
  /\ \A t \in Tasks : task[t] = "waiting" => \E i \in 2..Len(locks) : locks[i] = t

(* Who owns the mutex in time is the head of the list.                     *)
OwnerIsHead ==
  ~stolen => \A t \in Tasks \ late : Owns(t) => locks # <<>> /\ Head(locks) = t

LateOwns == \A t \in late : Owns(t)

IInv == TypeOK /\ ListMatchesTasks /\ OwnerIsHead /\ LateOwns

-----------------------------------------------------------------------------
LEMMA TailFacts ==
  ASSUME NEW S, NEW s \in Seq(S), s # <<>>
  PROVE  /\ Head(s) \in S
         /\ Head(s) = s[1]
         /\ Tail(s) \in Seq(S)
         /\ Len(s) \in Nat \ {0}
         /\ Len(Tail(s)) = Len(s) - 1
         /\ \A i \in 1..Len(Tail(s)) : Tail(s)[i] = s[i + 1]
         /\ Tail(s) # <<>> => Len(s) > 1 /\ Head(Tail(s)) = s[2]
OBVIOUS

LEMMA AppendFacts ==
  ASSUME NEW S, NEW s \in Seq(S), NEW e \in S
  PROVE  /\ Append(s, e) \in Seq(S)
         /\ Append(s, e) # <<>>
         /\ Len(s) \in Nat
         /\ s # <<>> => Len(s) > 0
         /\ Len(Append(s, e)) = Len(s) + 1
         /\ \A i \in 1..Len(s) : Append(s, e)[i] = s[i]
         /\ Append(s, e)[Len(s) + 1] = e
OBVIOUS

LEMMA HeadStays ==
  ASSUME NEW S, NEW s \in Seq(S), NEW e \in S, s # <<>>
  PROVE  Head(Append(s, e)) = Head(s)
OBVIOUS

LEMMA InitIInv == Init => IInv
<1>. SUFFICES ASSUME Init
              PROVE  IInv
  OBVIOUS
<1>1. /\ locks = <<>> /\ Len(locks) = 0 /\ timeoutHandle = "undefined"
      /\ task = [t \in Tasks |-> "outside"] /\ late = {} /\ stolen = FALSE
  BY DEF Init
<1>2. TypeOK
  <2>1. locks \in Seq(Tasks)
    BY <1>1
  <2>2. task \in [Tasks -> TaskStates]
    BY <1>1 DEF TaskStates
  <2>3. late \in SUBSET Tasks /\ stolen \in BOOLEAN
    BY <1>1
  <2>. QED
    BY <1>1, <2>1, <2>2, <2>3 DEF TypeOK
<1>3. ListMatchesTasks
  BY <1>1 DEF ListMatchesTasks
<1>4. OwnerIsHead
  BY <1>1 DEF OwnerIsHead, Owns
<1>5. LateOwns
  BY <1>1 DEF LateOwns
<1>. QED
  BY <1>2, <1>3, <1>4, <1>5 DEF IInv

LEMMA LockIInv ==
  ASSUME IInv, NEW t \in Tasks, lock(t)
  PROVE  IInv'
<1>. USE DEF IInv
<1>1. /\ locks' = Append(locks, t) /\ locks' \in Seq(Tasks) /\ locks' # <<>>
      /\ Len(locks) \in Nat /\ Len(locks') = Len(locks) + 1
      /\ \A i \in 1..Len(locks) : locks'[i] = locks[i]
      /\ locks'[Len(locks) + 1] = t
  BY AppendFacts DEF lock, TypeOK
<1>2. /\ task[t] = "outside" /\ ~Owns(t) /\ t \notin late
      /\ \A u \in Tasks \ {t} : task'[u] = task[u]
      /\ late' = late /\ stolen' = stolen
  BY DEF lock, TypeOK, Owns, LateOwns
<1>3. \A i \in 1..Len(locks) : locks[i] \in Tasks \ {t}
  BY <1>2 DEF ListMatchesTasks, TypeOK
<1>4. CASE locks = <<>>
  <2>1. timeoutHandle' = "armed" /\ task' = [task EXCEPT ![t] = "granted"] /\ Len(locks) = 0
    BY <1>4 DEF lock
  <2>2. Head(locks') = t /\ Len(locks') = 1 /\ locks'[1] = t
    BY <1>1, <2>1, <1>4
  <2>3. TypeOK'
    BY <1>1, <1>2, <2>1 DEF TypeOK, TaskStates
  <2>4. ListMatchesTasks'
    BY <1>2, <2>1, <2>2 DEF ListMatchesTasks, TypeOK, Owns
  <2>5. OwnerIsHead'
    BY <1>1, <1>2, <1>4, <2>2 DEF OwnerIsHead, Owns, TypeOK
  <2>6. LateOwns'
    BY <1>2, <2>1 DEF LateOwns, Owns, TypeOK
  <2>. QED
    BY <2>3, <2>4, <2>5, <2>6
<1>5. CASE locks # <<>>
  <2>1. timeoutHandle' = timeoutHandle /\ task' = [task EXCEPT ![t] = "waiting"] /\ Len(locks) > 0
    BY <1>5, AppendFacts DEF lock, TypeOK
  <2>2. Head(locks') = Head(locks)
    BY <1>1, <1>5, HeadStays DEF TypeOK
  <2>3. TypeOK'
    BY <1>1, <1>2, <1>5, <2>1 DEF TypeOK, TaskStates
  <2>4. ListMatchesTasks'
    <3>1. \A i \in 1..Len(locks') : i \in 1..Len(locks) \/ i = Len(locks) + 1
      BY <1>1
    <3>2. ASSUME NEW i \in 1..Len(locks')
          PROVE  IF i = 1 THEN Owns(locks[i])' ELSE task'[locks'[i]] = "waiting"
      BY <1>1, <1>2, <1>3, <2>1, <3>1 DEF ListMatchesTasks, Owns, TypeOK
    <3>3. ASSUME NEW i \in 1..Len(locks'), NEW j \in 1..Len(locks'), locks'[i] = locks'[j]
          PROVE  i = j
      BY <1>1, <1>3, <3>1, <3>3 DEF ListMatchesTasks
    <3>4. ASSUME NEW i \in 1..Len(locks')
          PROVE  locks'[i] \notin late'
      BY <1>1, <1>2, <3>1 DEF ListMatchesTasks
    <3>5. ASSUME NEW u \in Tasks, task'[u] = "waiting"
          PROVE  \E i \in 2..Len(locks') : locks'[i] = u
      <4>1. CASE u = t
        BY <4>1, <1>1, <2>1
      <4>2. CASE u # t
        <5>1. PICK i \in 2..Len(locks) : locks[i] = u
          BY <4>2, <3>5, <1>2 DEF ListMatchesTasks
        <5>. QED
          BY <5>1, <1>1
      <4>. QED
        BY <4>1, <4>2
    <3>. QED
      BY <3>2, <3>3, <3>4, <3>5 DEF ListMatchesTasks
  <2>5. OwnerIsHead'
    BY <1>1, <1>2, <2>1, <2>2 DEF OwnerIsHead, Owns, TypeOK
  <2>6. LateOwns'
    BY <1>2, <2>1 DEF LateOwns, Owns, TypeOK
  <2>. QED
    BY <2>3, <2>4, <2>5, <2>6
<1>. QED
  BY <1>4, <1>5

LEMMA EnterIInv ==
  ASSUME IInv, NEW t \in Tasks, Enter(t)
  PROVE  IInv'
<1>. USE DEF IInv
<1>1. /\ task[t] = "granted" /\ task' = [task EXCEPT ![t] = "inside"]
      /\ UNCHANGED <<locks, timeoutHandle, late, stolen>>
  BY DEF Enter
<1>2. TypeOK'
  BY <1>1 DEF TypeOK, TaskStates
<1>3. \A u \in Tasks : (Owns(u)' <=> Owns(u)) /\ (task'[u] = "waiting" <=> task[u] = "waiting")
  BY <1>1 DEF Owns, TypeOK
<1>4. ListMatchesTasks'
  <2>1. \A i \in 1..Len(locks) : locks[i] \in Tasks
    BY DEF TypeOK
  <2>. QED
    BY <1>1, <1>3, <2>1 DEF ListMatchesTasks, Owns
<1>5. OwnerIsHead'
  BY <1>1, <1>3 DEF OwnerIsHead, Owns
<1>6. LateOwns'
  BY <1>1, <1>3 DEF LateOwns, Owns, TypeOK
<1>. QED
  BY <1>2, <1>4, <1>5, <1>6

(* What the two forms of unlock have in common: the task leaves, and if    *)
(* the list has a head it is dropped, whoever the head is.                 *)
LEMMA UnlockThrowsIInv ==
  ASSUME IInv, NEW t \in Tasks, UnlockThrows(t)
  PROVE  IInv'
<1>. USE DEF IInv
<1>1. /\ locks = <<>> /\ Len(locks) = 0
      /\ UNCHANGED <<locks, timeoutHandle, stolen>>
      /\ late' = late \ {t} /\ task[t] = "inside"
      /\ task' = [task EXCEPT ![t] = "outside"]
  BY DEF UnlockThrows, Leave, TypeOK
<1>2. TypeOK'
  BY <1>1 DEF TypeOK, TaskStates
<1>3. ListMatchesTasks'
  BY <1>1 DEF ListMatchesTasks, TypeOK
<1>4. OwnerIsHead'
  BY <1>1 DEF OwnerIsHead, Owns, TypeOK
<1>5. LateOwns'
  BY <1>1 DEF LateOwns, Owns, TypeOK
<1>. QED
  BY <1>2, <1>3, <1>4, <1>5

LEMMA UnlockIInv ==
  ASSUME IInv, NEW t \in Tasks, unlock(t)
  PROVE  IInv'
<1>. USE DEF IInv
<1>1. /\ late' = late \ {t} /\ task[t] = "inside" /\ Owns(t)
      /\ locks' = IF locks = <<>> THEN <<>> ELSE Tail(locks)
      /\ stolen' = (stolen \/ (locks # <<>> /\ Head(locks) # t))
  BY DEF unlock, Leave, Owns
<1>2. CASE locks = <<>>
  <2>1. /\ locks' = <<>> /\ Len(locks') = 0 /\ timeoutHandle' = "undefined"
        /\ task' = [task EXCEPT ![t] = "outside"]
    <3>1. locks' = <<>>
      BY <1>1, <1>2
    <3>2. timeoutHandle' = "undefined" /\ task' = [task EXCEPT ![t] = "outside"]
      BY <3>1 DEF unlock
    <3>. QED
      BY <3>1, <3>2
  <2>0. (stolen' <=> stolen) /\ stolen' \in BOOLEAN
    BY <1>1, <1>2
  <2>2. TypeOK'
    BY <1>1, <2>0, <2>1 DEF TypeOK, TaskStates
  <2>3. ListMatchesTasks'
    BY <1>2, <2>1 DEF ListMatchesTasks, TypeOK
  <2>4. OwnerIsHead'
    BY <1>1, <1>2, <2>0, <2>1 DEF OwnerIsHead, Owns, TypeOK
  <2>5. LateOwns'
    BY <1>1, <2>1 DEF LateOwns, Owns, TypeOK
  <2>. QED
    BY <2>2, <2>3, <2>4, <2>5
<1>3. CASE locks # <<>> /\ Tail(locks) = <<>>
  <2>1. /\ Len(locks) = 1 /\ Head(locks) = locks[1] /\ Head(locks) \in Tasks
    <3>1. Len(locks) - 1 = 0 /\ Len(locks) \in Nat
      BY <1>3, TailFacts DEF TypeOK
    <3>. QED
      BY <3>1, <1>3, TailFacts DEF TypeOK
  <2>2. /\ locks' = <<>> /\ Len(locks') = 0 /\ timeoutHandle' = "undefined"
        /\ task' = [task EXCEPT ![t] = "outside"]
    <3>1. locks' = <<>>
      BY <1>1, <1>3
    <3>2. timeoutHandle' = "undefined" /\ task' = [task EXCEPT ![t] = "outside"]
      BY <3>1 DEF unlock
    <3>. QED
      BY <3>1, <3>2
  <2>3. TypeOK'
    BY <1>1, <2>2 DEF TypeOK, TaskStates
  <2>4. ListMatchesTasks'
    BY <2>1, <2>2 DEF ListMatchesTasks, TypeOK
  <2>5. OwnerIsHead'
    BY <1>1, <1>3, <2>2 DEF OwnerIsHead, Owns, TypeOK
  <2>6. LateOwns'
    BY <1>1, <2>2 DEF LateOwns, Owns, TypeOK
  <2>. QED
    BY <2>3, <2>4, <2>5, <2>6
<1>4. CASE locks # <<>> /\ Tail(locks) # <<>>
  <2>1. /\ Len(locks) \in Nat /\ Len(locks) > 1 /\ Head(locks) = locks[1] /\ Head(locks) \in Tasks
        /\ locks' = Tail(locks) /\ locks' \in Seq(Tasks) /\ locks' # <<>>
        /\ Len(locks') = Len(locks) - 1
        /\ \A i \in 1..Len(locks') : locks'[i] = locks[i + 1]
        /\ Head(locks') = locks[2] /\ locks[2] \in Tasks /\ locks'[1] = locks[2]
    BY <1>1, <1>4, TailFacts DEF TypeOK
  <2>2. /\ timeoutHandle' = "armed"
        /\ task' = [task EXCEPT ![t] = "outside", ![locks[2]] = "granted"]
    BY <1>1, <1>4, <2>1 DEF unlock
  <2>3. task[locks[2]] = "waiting" /\ locks[2] # t /\ locks[2] \notin late
    BY <1>1, <2>1 DEF ListMatchesTasks
  <2>4. /\ task'[t] = "outside" /\ task'[locks[2]] = "granted"
        /\ \A u \in Tasks \ {t, locks[2]} : task'[u] = task[u]
    BY <2>1, <2>2, <2>3 DEF TypeOK
  <2>5. TypeOK'
    BY <1>1, <2>1, <2>2 DEF TypeOK, TaskStates
  <2>6. ListMatchesTasks'
    <3>1. \A i \in 1..Len(locks') : i + 1 \in 2..Len(locks) /\ locks[i + 1] \in Tasks
      BY <2>1 DEF TypeOK
    <3>2. ASSUME NEW i \in 1..Len(locks')
          PROVE  IF i = 1 THEN Owns(locks[i])' ELSE task'[locks'[i]] = "waiting"
      <4>1. CASE i = 1
        BY <4>1, <2>1, <2>4 DEF Owns
      <4>2. CASE i # 1
        <5>1. /\ i + 1 \in 1..Len(locks) /\ i + 1 # 1 /\ i + 1 # 2
              /\ 2 \in 1..Len(locks)
          BY <2>1, <3>1, <4>2
        <5>2. task[locks[i + 1]] = "waiting" /\ locks[i + 1] # locks[2]
          BY <5>1 DEF ListMatchesTasks
        <5>3. locks[i + 1] # t
          BY <5>2, <1>1
        <5>. QED
          BY <4>2, <5>2, <5>3, <3>1, <2>1, <2>4
      <4>. QED
        BY <4>1, <4>2
    <3>3. ASSUME NEW i \in 1..Len(locks'), NEW j \in 1..Len(locks'), locks'[i] = locks'[j]
          PROVE  i = j
      <4>1. locks[i + 1] = locks[j + 1] /\ i + 1 \in 1..Len(locks) /\ j + 1 \in 1..Len(locks)
        BY <2>1, <3>1, <3>3
      <4>2. i + 1 = j + 1
        BY <4>1 DEF ListMatchesTasks
      <4>. QED
        BY <4>2
    <3>4. ASSUME NEW i \in 1..Len(locks')
          PROVE  locks'[i] \notin late'
      <4>1. i + 1 \in 1..Len(locks)
        BY <3>1, <2>1
      <4>. QED
        BY <1>1, <2>1, <4>1 DEF ListMatchesTasks
    <3>5. ASSUME NEW u \in Tasks, task'[u] = "waiting"
          PROVE  \E i \in 2..Len(locks') : locks'[i] = u
      <4>1. u # t /\ u # locks[2] /\ task[u] = "waiting"
        BY <2>4, <3>5
      <4>2. PICK i \in 2..Len(locks) : locks[i] = u
        BY <4>1 DEF ListMatchesTasks
      <4>3. i # 2 /\ i - 1 \in 2..Len(locks') /\ i - 1 \in 1..Len(locks') /\ (i - 1) + 1 = i
        BY <4>1, <4>2, <2>1
      <4>4. locks'[i - 1] = u
        BY <4>2, <4>3, <2>1
      <4>. QED
        BY <4>3, <4>4
    <3>. QED
      BY <3>2, <3>3, <3>4, <3>5 DEF ListMatchesTasks
  <2>7. OwnerIsHead'
    <3>1. ASSUME ~stolen', NEW u \in Tasks, u \notin late', Owns(u)'
          PROVE  Head(locks') = u
      <4>1. ~stolen /\ Head(locks) = t
        BY <1>1, <1>4, <3>1
      <4>2. u # t
        BY <3>1, <2>4 DEF Owns
      <4>3. u # locks[2] => Owns(u) /\ u \notin late
        BY <4>2, <3>1, <2>4, <1>1 DEF Owns
      <4>4. u = locks[2]
        BY <4>1, <4>2, <4>3 DEF OwnerIsHead
      <4>. QED
        BY <4>4, <2>1
    <3>. QED
      BY <3>1, <2>1 DEF OwnerIsHead
  <2>8. LateOwns'
    BY <1>1, <2>3, <2>4 DEF LateOwns, Owns, TypeOK
  <2>. QED
    BY <2>5, <2>6, <2>7, <2>8
<1>. QED
  BY <1>2, <1>3, <1>4

LEMMA TimeoutIInv ==
  ASSUME IInv, Timeout
  PROVE  IInv'
<1>. USE DEF IInv
<1>1. /\ locks # <<>> /\ Head(locks) \in Tasks /\ Head(locks) = locks[1] /\ 1 \in 1..Len(locks)
      /\ Owns(Head(locks))
  <2>1. locks # <<>>
    BY DEF Timeout, TypeOK
  <2>2. Head(locks) \in Tasks /\ Head(locks) = locks[1] /\ Len(locks) \in Nat \ {0}
    BY <2>1, TailFacts DEF TypeOK
  <2>. QED
    BY <2>1, <2>2 DEF ListMatchesTasks
<1>2. /\ locks' = <<>> /\ Len(locks') = 0 /\ timeoutHandle' = "elapsed" /\ stolen' = stolen
      /\ late' = late \cup {Head(locks)}
      /\ task' = [u \in Tasks |-> IF task[u] = "waiting" THEN "outside" ELSE task[u]]
  BY DEF Timeout
<1>3. \A u \in Tasks : (Owns(u)' <=> Owns(u)) /\ task'[u] # "waiting"
  BY <1>2 DEF Owns
<1>4. TypeOK'
  BY <1>1, <1>2 DEF TypeOK, TaskStates
<1>5. ListMatchesTasks'
  BY <1>2, <1>3 DEF ListMatchesTasks
<1>6. OwnerIsHead'
  BY <1>1, <1>2, <1>3 DEF OwnerIsHead, Owns
<1>7. LateOwns'
  BY <1>1, <1>2, <1>3 DEF LateOwns, Owns, TypeOK
<1>. QED
  BY <1>4, <1>5, <1>6, <1>7

LEMMA NextIInv == IInv /\ [Next]_vars => IInv'
<1>1. ASSUME IInv, UNCHANGED vars
      PROVE  IInv'
  BY <1>1 DEF vars, IInv, TypeOK, ListMatchesTasks, OwnerIsHead, LateOwns, Owns
<1>. QED
  BY <1>1, LockIInv, EnterIInv, UnlockThrowsIInv, UnlockIInv, TimeoutIInv DEF Next

LEMMA AlwaysIInv == Spec => []IInv
BY InitIInv, NextIInv, PTL DEF Spec

(* The timer runs exactly while the list of the mutex is not empty, and    *)
(* every variable keeps its type.                                          *)
THEOREM TypeCorrect == Spec => []TypeOK
<1>1. IInv => TypeOK
  BY DEF IInv
<1>. QED
  BY <1>1, AlwaysIInv, PTL

(* Until a task that was timed out unlocks the mutex of its successor, two *)
(* tasks that are in time never own it together.                           *)
THEOREM Excludes == Spec => []MutualExclusion
<1>1. IInv => MutualExclusion
  BY DEF IInv, OwnerIsHead, MutualExclusion
<1>. QED
  BY <1>1, AlwaysIInv, PTL

(* A task that waits always has an armed timer and an owner ahead of it.   *)
THEOREM WaitersServed == Spec => []WaiterIsServed
<1>1. IInv => WaiterIsServed
  <2>1. SUFFICES ASSUME IInv, NEW t \in Tasks, task[t] = "waiting"
                 PROVE  timeoutHandle = "armed" /\ \E i \in 2..Len(locks) : locks[i] = t
    BY DEF WaiterIsServed
  <2>2. PICK i \in 2..Len(locks) : locks[i] = t
    BY <2>1 DEF IInv, ListMatchesTasks
  <2>3. locks # <<>>
    BY <2>2
  <2>. QED
    BY <2>1, <2>2, <2>3 DEF IInv, TypeOK
<1>. QED
  BY <1>1, AlwaysIInv, PTL
=============================================================================
