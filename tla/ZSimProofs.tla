----------------------------- MODULE ZSimProofs -----------------------------
(***************************************************************************)
(* The watchpoints of the simulator work: the counters of an address stand *)
(* for the watchpoints set there, and no watched access goes unnoticed,    *)
(* for every number of addresses and watchpoints, every instruction and    *)
(* every order of calls.  Restoring a state is all or nothing.             *)
(***************************************************************************)
EXTENDS ZSim, FiniteSetTheorems, SequenceTheorems, TLAPS

Counters == [Addr -> [r : Nat, w : Nat]]

\* the watchpoints that notice a read, or a write, of an address
Readers(a) == {i \in DOMAIN wps : a \in Range(Watched(wps[i])) /\ wps[i].r = 1}
Writers(a) == {i \in DOMAIN wps : a \in Range(Watched(wps[i])) /\ wps[i].w = 1}

\* The program counter, which is accessed too, is an address, also when it is restored.
PcOk == pc \in Addr /\ (saved = <<>> \/ \E t, s, m : \E a \in Addr : saved = <<t, s, m, a>>)

WatchInv ==
  /\ wps \in Seq(Wps)
  /\ watchPointMemory \in Counters
  /\ \A a \in Addr : /\ watchPointMemory[a].r = Cardinality(Readers(a))
                     /\ watchPointMemory[a].w = Cardinality(Writers(a))
  /\ PcOk
  /\ ~passed

(* The counters in the words of the property.                              *)
LEMMA CountsAreCardinalities ==
  WatchCounts <=> \A a \in Addr : /\ watchPointMemory[a].r = Cardinality(Readers(a))
                                  /\ watchPointMemory[a].w = Cardinality(Writers(a))
BY DEF WatchCounts, Count, Readers, Writers

------------------------------------------------------------------------------
(* Facts about the operators                                                *)

(* Two places of a watchpoint are two addresses: none is counted twice.    *)
LEMMA WatchedOnce ==
  ASSUME NEW wp \in Wps, NEW a \in Addr
  PROVE  Count(Watched(wp), LAMBDA x : x = a) = IF a \in Range(Watched(wp)) THEN 1 ELSE 0
<1>. DEFINE S == {i \in DOMAIN Watched(wp) : Watched(wp)[i] = a}
<1>1. Count(Watched(wp), LAMBDA x : x = a) = Cardinality(S)
  BY DEF Count
<1>2. CASE a \in Range(Watched(wp))
  <2>1. PICK i \in DOMAIN Watched(wp) : Watched(wp)[i] = a
    BY <1>2 DEF Range
  <2>2. wp \in Watchpoint /\ Top \in Nat
    BY ConstantsAssumption
  <2>3. \A j \in 1..wp.size : j # i => Watched(wp)[j] # Watched(wp)[i]
    <3>. DEFINE N == Top + 1
                p(j) == wp.addr + j - 1
    <3>1. N \in Nat \ {0} /\ wp.size \in 1..N /\ wp.addr \in 0..(N - 1) /\ i \in 1..wp.size
      BY <2>1, <2>2 DEF Watchpoint, Addr, Watched
    <3>2. TAKE j \in 1..wp.size
    <3>3. HAVE j # i
    <3>4. p(i) \in 0..(2 * N - 1) /\ p(j) \in 0..(2 * N - 1)
      BY <3>1
    <3>5. \/ p(i) < p(j) /\ p(j) - p(i) < N
          \/ p(j) < p(i) /\ p(i) - p(j) < N
      BY <3>1, <3>3
    <3>6. \A x, y \in 0..(2 * N - 1) : x < y /\ y - x < N => x % N # y % N
      <4>. HIDE DEF N
      <4>. QED
        BY <3>1
    <3>7. p(i) % N # p(j) % N
      <4>. HIDE DEF N, p
      <4>. QED
        BY <3>4, <3>5, <3>6
    <3>. QED
      BY <3>1, <3>7 DEF Watched
  <2>4. S = {i}
    BY <2>1, <2>3 DEF Watched
  <2>. QED
    BY <1>1, <1>2, <2>4, FS_Singleton
<1>3. CASE a \notin Range(Watched(wp))
  <2>1. S = {}
    BY <1>3 DEF Range
  <2>. QED
    BY <1>1, <1>3, <2>1, FS_EmptySet
<1>. QED
  BY <1>2, <1>3

(* The members of a sequence that lost one of them.                        *)
LEMMA RemovedMembers ==
  ASSUME NEW S, NEW s \in Seq(S), NEW i \in DOMAIN s
  PROVE  /\ RemoveAt(s, i) \in Seq(S)
         /\ Len(RemoveAt(s, i)) = Len(s) - 1
         /\ \A j \in 1..(Len(s) - 1) : RemoveAt(s, i)[j] = s[IF j < i THEN j ELSE j + 1]
<1>. DEFINE front == SubSeq(s, 1, i - 1)
            rear == SubSeq(s, i + 1, Len(s))
<1>1. i \in 1..Len(s) /\ Len(s) \in Nat /\ s = [j \in 1..Len(s) |-> s[j]]
      /\ \A j \in 1..Len(s) : s[j] \in S
  OBVIOUS
<1>2. /\ front \in Seq(S) /\ Len(front) = i - 1
      /\ \A j \in 1..(i - 1) : front[j] = s[j]
  <2>1. i - 1 \in Int /\ \A j \in 1..(i - 1) : s[j] \in S
    BY <1>1
  <2>2. /\ front \in Seq(S)
        /\ Len(front) = IF 1 <= i - 1 THEN i - 1 - 1 + 1 ELSE 0
        /\ \A j \in 1..(i - 1 - 1 + 1) : front[j] = s[1 + j - 1]
    BY <2>1, SubSeqProperties
  <2>. QED
    BY <1>1, <2>2
<1>3. /\ rear \in Seq(S) /\ Len(rear) = Len(s) - i
      /\ \A j \in 1..(Len(s) - i) : rear[j] = s[i + j]
  <2>1. i + 1 \in Int /\ Len(s) \in Int /\ \A j \in (i + 1)..Len(s) : s[j] \in S
    BY <1>1
  <2>2. /\ rear \in Seq(S)
        /\ Len(rear) = IF i + 1 <= Len(s) THEN Len(s) - (i + 1) + 1 ELSE 0
        /\ \A j \in 1..(Len(s) - (i + 1) + 1) : rear[j] = s[(i + 1) + j - 1]
    BY <2>1, SubSeqProperties
  <2>. QED
    BY <1>1, <2>2
<1>4. RemoveAt(s, i) = front \o rear
  BY DEF RemoveAt
<1>. HIDE DEF front, rear
<1>5. /\ front \o rear \in Seq(S)
      /\ Len(front \o rear) = Len(s) - 1
      /\ \A j \in 1..(Len(s) - 1) : (front \o rear)[j] = IF j < i THEN front[j] ELSE rear[j - (i - 1)]
  <2>1. /\ front \o rear \in Seq(S)
        /\ Len(front \o rear) = Len(front) + Len(rear)
        /\ \A j \in 1..(Len(front) + Len(rear)) :
             (front \o rear)[j] = IF j <= Len(front) THEN front[j] ELSE rear[j - Len(front)]
    BY <1>2, <1>3, ConcatProperties
  <2>. QED
    BY <1>1, <1>2, <1>3, <2>1
<1>6. ASSUME NEW j \in 1..(Len(s) - 1)
      PROVE  (front \o rear)[j] = s[IF j < i THEN j ELSE j + 1]
  <2>1. CASE j < i
    BY <1>1, <1>2, <1>5, <2>1
  <2>2. CASE ~(j < i)
    <3>1. j - (i - 1) \in 1..(Len(s) - i) /\ i + (j - (i - 1)) = j + 1
      BY <1>1, <2>2
    <3>. QED
      BY <1>3, <1>5, <2>2, <3>1
  <2>. QED
    BY <2>1, <2>2
<1>. QED
  BY <1>4, <1>5, <1>6

(* The numbers of the watchpoints behind the removed one go down by one,   *)
(* and nothing else happens to a set of them.                              *)
LEMMA Renumbered ==
  ASSUME NEW n \in Nat, NEW i \in 1..n, NEW S \in SUBSET (1..n), NEW T \in SUBSET (1..(n - 1)),
         \A j \in 1..(n - 1) : j \in T <=> (IF j < i THEN j ELSE j + 1) \in S
  PROVE  Cardinality(T) = Cardinality(S \ {i})
<1>. DEFINE f == [j \in T |-> IF j < i THEN j ELSE j + 1]
            R == S \ {i}
<1>1. IsFiniteSet(T)
  <2>1. IsFiniteSet(1..(n - 1))
    BY FS_Interval
  <2>. QED
    BY <2>1, FS_Subset
<1>2. f \in [T -> R]
  OBVIOUS
<1>3. \A j, k \in T : f[j] = f[k] => j = k
  OBVIOUS
<1>4. \A k \in R : \E j \in T : f[j] = k
  <2>1. TAKE k \in R
  <2>2. CASE k < i
    BY <2>2
  <2>3. CASE k > i
    <3>1. k - 1 \in T /\ f[k - 1] = k
      BY <2>3
    <3>. QED
      BY <3>1
  <2>. QED
    BY <2>2, <2>3
<1>. HIDE DEF f, R
<1>5. f \in Bijection(T, R)
  <2>1. IsInjective(f)
    BY <1>2, <1>3 DEF IsInjective
  <2>. QED
    BY <1>2, <1>4, <2>1 DEF Bijection, Injection, Surjection
<1>6. ExistsBijection(T, R)
  BY <1>5 DEF ExistsBijection
<1>. QED
  BY <1>1, <1>6, FS_Bijection DEF R

(* The counters behind a watchpoint that is set, and behind one that is    *)
(* removed.                                                                *)
LEMMA SetCounters ==
  ASSUME NEW wpm \in Counters, NEW wp \in Wps
  PROVE  /\ setWatchpoint(wpm, wp) \in Counters
         /\ \A a \in Addr :
              /\ setWatchpoint(wpm, wp)[a].r =
                   wpm[a].r + (IF a \in Range(Watched(wp)) /\ wp.r = 1 THEN 1 ELSE 0)
              /\ setWatchpoint(wpm, wp)[a].w =
                   wpm[a].w + (IF a \in Range(Watched(wp)) /\ wp.w = 1 THEN 1 ELSE 0)
<1>1. wp.r \in {0, 1} /\ wp.w \in {0, 1}
  BY ConstantsAssumption DEF Watchpoint
<1>2. \A a \in Addr : LET n == IF a \in Range(Watched(wp)) THEN 1 ELSE 0
                      IN setWatchpoint(wpm, wp)[a] = [r |-> wpm[a].r + n * wp.r, w |-> wpm[a].w + n * wp.w]
  BY WatchedOnce DEF setWatchpoint
<1>3. setWatchpoint(wpm, wp) = [a \in Addr |-> setWatchpoint(wpm, wp)[a]]
  BY DEF setWatchpoint
<1>. HIDE DEF setWatchpoint
<1>4. \A a \in Addr : wpm[a].r \in Nat /\ wpm[a].w \in Nat
  BY DEF Counters
<1>5. \A a \in Addr :
        setWatchpoint(wpm, wp)[a] =
          [r |-> wpm[a].r + (IF a \in Range(Watched(wp)) /\ wp.r = 1 THEN 1 ELSE 0),
           w |-> wpm[a].w + (IF a \in Range(Watched(wp)) /\ wp.w = 1 THEN 1 ELSE 0)]
  <2>1. TAKE a \in Addr
  <2>. DEFINE n == IF a \in Range(Watched(wp)) THEN 1 ELSE 0
  <2>2. /\ n * wp.r = IF a \in Range(Watched(wp)) /\ wp.r = 1 THEN 1 ELSE 0
        /\ n * wp.w = IF a \in Range(Watched(wp)) /\ wp.w = 1 THEN 1 ELSE 0
    BY <1>1
  <2>. HIDE DEF n
  <2>3. setWatchpoint(wpm, wp)[a] = [r |-> wpm[a].r + n * wp.r, w |-> wpm[a].w + n * wp.w]
    BY <1>2 DEF n
  <2>. QED
    BY <2>2, <2>3
<1>. QED
  BY <1>3, <1>4, <1>5 DEF Counters

LEMMA RemoveCounters ==
  ASSUME NEW wpm \in Counters, NEW wp \in Wps,
         \A a \in Range(Watched(wp)) \cap Addr : /\ wp.r = 1 => wpm[a].r > 0
                                                 /\ wp.w = 1 => wpm[a].w > 0
  PROVE  /\ removeWatchpoint(wpm, wp) \in Counters
         /\ \A a \in Addr :
              /\ removeWatchpoint(wpm, wp)[a].r =
                   wpm[a].r - (IF a \in Range(Watched(wp)) /\ wp.r = 1 THEN 1 ELSE 0)
              /\ removeWatchpoint(wpm, wp)[a].w =
                   wpm[a].w - (IF a \in Range(Watched(wp)) /\ wp.w = 1 THEN 1 ELSE 0)
<1>1. wp.r \in {0, 1} /\ wp.w \in {0, 1}
  BY ConstantsAssumption DEF Watchpoint
<1>2. \A a \in Addr : wpm[a] \in [r : Nat, w : Nat]
  BY DEF Counters
<1>3. ASSUME NEW a \in Addr
      PROVE  /\ removeWatchpoint(wpm, wp)[a] \in [r : Nat, w : Nat]
             /\ removeWatchpoint(wpm, wp)[a].r =
                  wpm[a].r - (IF a \in Range(Watched(wp)) /\ wp.r = 1 THEN 1 ELSE 0)
             /\ removeWatchpoint(wpm, wp)[a].w =
                  wpm[a].w - (IF a \in Range(Watched(wp)) /\ wp.w = 1 THEN 1 ELSE 0)
  <2>1. CASE a \in Range(Watched(wp))
    <3>1. removeWatchpoint(wpm, wp)[a] = [r |-> IF wpm[a].r > 0 THEN wpm[a].r - wp.r ELSE 0,
                                          w |-> IF wpm[a].w > 0 THEN wpm[a].w - wp.w ELSE 0]
      BY <2>1 DEF removeWatchpoint
    <3>2. (wp.r = 1 => wpm[a].r > 0) /\ (wp.w = 1 => wpm[a].w > 0)
      BY <2>1
    <3>. QED
      BY <1>1, <1>2, <2>1, <3>1, <3>2
  <2>2. CASE a \notin Range(Watched(wp))
    <3>1. removeWatchpoint(wpm, wp)[a] = wpm[a]
      BY <2>2 DEF removeWatchpoint
    <3>. QED
      BY <1>2, <2>2, <3>1
  <2>. QED
    BY <2>1, <2>2
<1>4. removeWatchpoint(wpm, wp) = [a \in Addr |-> removeWatchpoint(wpm, wp)[a]]
  BY DEF removeWatchpoint
<1>. HIDE DEF removeWatchpoint
<1>. QED
  BY <1>3, <1>4 DEF Counters

(* There are finitely many watchpoints.                                    *)
LEMMA WatchersFinite ==
  ASSUME wps \in Seq(Wps)
  PROVE  \A a : /\ IsFiniteSet(Readers(a)) /\ Cardinality(Readers(a)) \in Nat
                /\ IsFiniteSet(Writers(a)) /\ Cardinality(Writers(a)) \in Nat
<1>1. IsFiniteSet(1..Len(wps)) /\ DOMAIN wps = 1..Len(wps)
  BY FS_Interval
<1>2. \A a : Readers(a) \in SUBSET (1..Len(wps)) /\ Writers(a) \in SUBSET (1..Len(wps))
  BY <1>1 DEF Readers, Writers
<1>. QED
  BY <1>1, <1>2, FS_Subset, FS_CardinalityType

(* What is counted when a watchpoint is set: one more where it watches.    *)
LEMMA WatchersAdded ==
  ASSUME wps \in Seq(Wps), NEW wp \in Wps, wps' = Append(wps, wp), NEW a \in Addr
  PROVE  /\ Cardinality(Readers(a)') = Cardinality(Readers(a))
                                       + (IF a \in Range(Watched(wp)) /\ wp.r = 1 THEN 1 ELSE 0)
         /\ Cardinality(Writers(a)') = Cardinality(Writers(a))
                                       + (IF a \in Range(Watched(wp)) /\ wp.w = 1 THEN 1 ELSE 0)
<1>. DEFINE n == Len(wps) + 1
<1>1. /\ DOMAIN wps = 1..Len(wps) /\ Len(wps) \in Nat
      /\ DOMAIN wps' = 1..n /\ wps'[n] = wp
      /\ \A j \in DOMAIN wps : wps'[j] = wps[j]
  OBVIOUS
<1>2. DOMAIN wps' = DOMAIN wps \cup {n} /\ n \notin DOMAIN wps
  BY <1>1
<1>. HIDE DEF n
<1>3. /\ Readers(a)' = IF a \in Range(Watched(wp)) /\ wp.r = 1 THEN Readers(a) \cup {n} ELSE Readers(a)
      /\ Writers(a)' = IF a \in Range(Watched(wp)) /\ wp.w = 1 THEN Writers(a) \cup {n} ELSE Writers(a)
      /\ n \notin Readers(a) /\ n \notin Writers(a)
  BY <1>1, <1>2 DEF Readers, Writers
<1>4. /\ IsFiniteSet(Readers(a)) /\ Cardinality(Readers(a)) \in Nat
      /\ IsFiniteSet(Writers(a)) /\ Cardinality(Writers(a)) \in Nat
  BY WatchersFinite
<1>5. /\ Cardinality(Readers(a) \cup {n}) = Cardinality(Readers(a)) + 1
      /\ Cardinality(Writers(a) \cup {n}) = Cardinality(Writers(a)) + 1
  BY <1>3, <1>4, FS_AddElement
<1>. QED
  BY <1>3, <1>4, <1>5

(* And when one is removed: one less.                                      *)
LEMMA WatchersRemoved ==
  ASSUME wps \in Seq(Wps), NEW i \in DOMAIN wps, wps' = RemoveAt(wps, i), NEW a \in Addr
  PROVE  /\ Cardinality(Readers(a)') = Cardinality(Readers(a))
                                       - (IF a \in Range(Watched(wps[i])) /\ wps[i].r = 1 THEN 1 ELSE 0)
         /\ Cardinality(Writers(a)') = Cardinality(Writers(a))
                                       - (IF a \in Range(Watched(wps[i])) /\ wps[i].w = 1 THEN 1 ELSE 0)
<1>. DEFINE n == Len(wps)
<1>1. /\ DOMAIN wps = 1..n /\ n \in Nat /\ i \in 1..n
  OBVIOUS
<1>2. /\ wps' \in Seq(Wps) /\ Len(wps') = n - 1
      /\ \A j \in 1..(n - 1) : wps'[j] = wps[IF j < i THEN j ELSE j + 1]
  BY RemovedMembers
<1>3. DOMAIN wps' = 1..(n - 1)
  BY <1>2
<1>. HIDE DEF n
<1>4. \A j \in 1..(n - 1) : (IF j < i THEN j ELSE j + 1) \in 1..n
  BY <1>1
<1>5. /\ Readers(a) \in SUBSET (1..n) /\ Writers(a) \in SUBSET (1..n)
      /\ Readers(a)' \in SUBSET (1..(n - 1)) /\ Writers(a)' \in SUBSET (1..(n - 1))
  BY <1>1, <1>3 DEF Readers, Writers
<1>6. \A j \in 1..(n - 1) : /\ j \in Readers(a)' <=> (IF j < i THEN j ELSE j + 1) \in Readers(a)
                            /\ j \in Writers(a)' <=> (IF j < i THEN j ELSE j + 1) \in Writers(a)
  BY <1>1, <1>2, <1>3, <1>4 DEF Readers, Writers
<1>7. /\ Cardinality(Readers(a)') = Cardinality(Readers(a) \ {i})
      /\ Cardinality(Writers(a)') = Cardinality(Writers(a) \ {i})
  <2>1. n \in Nat /\ i \in 1..n
    BY <1>1
  <2>2. \A j \in 1..(n - 1) : j \in Readers(a)' <=> (IF j < i THEN j ELSE j + 1) \in Readers(a)
    BY <1>6
  <2>3. \A j \in 1..(n - 1) : j \in Writers(a)' <=> (IF j < i THEN j ELSE j + 1) \in Writers(a)
    BY <1>6
  <2>6. \A S \in SUBSET (1..n), T \in SUBSET (1..(n - 1)) :
           (\A j \in 1..(n - 1) : j \in T <=> (IF j < i THEN j ELSE j + 1) \in S)
             => Cardinality(T) = Cardinality(S \ {i})
    BY ONLY <2>1, Renumbered
  <2>4. Cardinality(Readers(a)') = Cardinality(Readers(a) \ {i})
    BY <1>5, <2>2, <2>6
  <2>5. Cardinality(Writers(a)') = Cardinality(Writers(a) \ {i})
    BY <1>5, <2>3, <2>6
  <2>. QED
    BY <2>4, <2>5
<1>8. /\ i \in Readers(a) <=> a \in Range(Watched(wps[i])) /\ wps[i].r = 1
      /\ i \in Writers(a) <=> a \in Range(Watched(wps[i])) /\ wps[i].w = 1
  BY DEF Readers, Writers
<1>9. /\ IsFiniteSet(Readers(a)) /\ Cardinality(Readers(a)) \in Nat
      /\ IsFiniteSet(Writers(a)) /\ Cardinality(Writers(a)) \in Nat
  BY WatchersFinite
<1>10. /\ Cardinality(Readers(a) \ {i}) = IF i \in Readers(a) THEN Cardinality(Readers(a)) - 1
                                          ELSE Cardinality(Readers(a))
       /\ Cardinality(Writers(a) \ {i}) = IF i \in Writers(a) THEN Cardinality(Writers(a)) - 1
                                          ELSE Cardinality(Writers(a))
  BY <1>9, FS_RemoveElement
<1>. QED
  BY <1>7, <1>8, <1>9, <1>10

(* Who watches an address counts: then its counter is not zero.            *)
LEMMA WatchedIsCounted ==
  ASSUME WatchInv, NEW i \in DOMAIN wps, NEW a \in Addr, a \in Range(Watched(wps[i]))
  PROVE  /\ wps[i].r = 1 => watchPointMemory[a].r > 0
         /\ wps[i].w = 1 => watchPointMemory[a].w > 0
<1>1. /\ IsFiniteSet(Readers(a)) /\ Cardinality(Readers(a)) \in Nat
      /\ IsFiniteSet(Writers(a)) /\ Cardinality(Writers(a)) \in Nat
  BY WatchersFinite DEF WatchInv
<1>2. /\ wps[i].r = 1 => Readers(a) # {}
      /\ wps[i].w = 1 => Writers(a) # {}
  BY DEF Readers, Writers
<1>3. /\ wps[i].r = 1 => Cardinality(Readers(a)) # 0
      /\ wps[i].w = 1 => Cardinality(Writers(a)) # 0
  BY <1>1, <1>2, FS_EmptySet
<1>. QED
  BY <1>1, <1>3 DEF WatchInv

------------------------------------------------------------------------------
(* The watchpoints                                                          *)

LEMMA InitWatch == Init => WatchInv
<1>. SUFFICES ASSUME Init PROVE WatchInv
  OBVIOUS
<1>1. \A a \in Addr : Readers(a) = {} /\ Writers(a) = {}
  BY DEF Init, Readers, Writers
<1>2. watchPointMemory \in Counters /\ \A a \in Addr : watchPointMemory[a].r = 0 /\ watchPointMemory[a].w = 0
  BY DEF Init, Counters
<1>3. wps \in Seq(Wps) /\ PcOk /\ ~passed
  BY ConstantsAssumption DEF Init, PcOk, Addr
<1>. QED
  BY <1>1, <1>2, <1>3, FS_EmptySet DEF WatchInv

(* An instruction that does not hit a watchpoint accesses no address whose *)
(* counter for this access is not zero.                                    *)
LEMMA NoHitMeansNoCounter ==
  ASSUME NEW accesses \in Seq(Access), HitAfter(accesses) = NoHit
  PROVE  \A j \in DOMAIN accesses : ~Hits(watchPointMemory, accesses[j])
<1>. DEFINE hits  == {j \in DOMAIN accesses : Hits(watchPointMemory, accesses[j])}
            first == CHOOSE j \in hits : \A k \in hits : j <= k
<1>1. HitAfter(accesses) = IF hit # NoHit \/ hits = {} THEN hit
                           ELSE [addr |-> accesses[first].addr, access |-> accesses[first].kind]
  BY DEF HitAfter
<1>2. ASSUME hits # {} PROVE FALSE
  <2>1. hits \subseteq 1..Len(accesses)
    OBVIOUS
  <2>2. PICK j \in hits : \A k \in hits : j <= k
    <3>1. hits \subseteq Nat
      BY <2>1
    <3>2. PICK x \in hits : \A y \in hits : <<y, x>> \notin OpToRel(<, Nat)
      BY <1>2, <3>1, NatLessThanWellFounded, WFMin
    <3>3. \A y \in hits : ~(y < x)
      BY <3>1, <3>2 DEF OpToRel
    <3>. QED
      BY <3>1, <3>3
  <2>3. first \in hits
    BY <2>2
  <2>4. accesses[first].addr \in Addr
    <3>1. accesses[first] \in Access
      <4>. HIDE DEF first
      <4>. QED
        BY <2>1, <2>3
    <3>. QED
      BY <3>1 DEF Access
  <2>5. HitAfter(accesses) = hit \/ HitAfter(accesses).addr \in Addr
    <3>. HIDE DEF hits, first
    <3>. QED
      BY <1>1, <2>4
  <2>6. NoHit.addr \notin Addr
    <3>1. NoHit.addr = None
      BY DEF NoHit
    <3>2. None \notin Addr
      BY DEF None, Addr
    <3>. QED
      BY <3>1, <3>2
  <2>7. hit = NoHit
    BY <2>5, <2>6
  <2>8. HitAfter(accesses) = [addr |-> accesses[first].addr, access |-> accesses[first].kind]
    <3>. HIDE DEF hits, first
    <3>. QED
      BY <1>1, <1>2, <2>7
  <2>. QED
    BY <2>4, <2>6, <2>8
<1>. QED
  BY <1>2

(* The loop goes on only when no watchpoint is hit.                        *)
LEMMA NoReasonMeansNoHit ==
  ASSUME NEW error, NEW next, NEW newSlots, NEW newHit, NEW irq,
         BreakReason(error, next, newSlots, newHit, irq) = ""
  PROVE  newHit = NoHit
BY DEF BreakReason

LEMMA ExecuteWatch == WatchInv /\ execute => WatchInv'
<1>. SUFFICES ASSUME WatchInv, execute PROVE WatchInv'
  OBVIOUS
<1>1. PICK op \in Ops, next \in Addr :
        LET accesses == <<[kind |-> "r", addr |-> pc, value |-> 0]>> \o op.acc
            switched == [slots EXCEPT ![op.out[1]] = op.out[2]]
            newSlots == IF op.out # <<>> /\ SlotsOk(switched) THEN switched ELSE slots
            error    == op.out # <<>> /\ ~SlotsOk(switched)
            newHit   == HitAfter(accesses)
            irq      == interruptOccurred \/ op.irq
            reason   == BreakReason(error, next, newSlots, newHit, irq)
        IN /\ pc' = next
           /\ passed' = (passed \/ (reason = "" /\ \E i \in DOMAIN wps, j \in DOMAIN accesses :
                            LET acc == accesses[j]
                            IN acc.addr \in Range(Watched(wps[i]))
                               /\ (IF acc.kind = "r" THEN wps[i].r ELSE wps[i].w) = 1))
  BY Zenon DEF execute
<1>2. UNCHANGED <<watchPointMemory, wps, saved>>
  BY DEF execute
<1>. DEFINE accesses == <<[kind |-> "r", addr |-> pc, value |-> 0]>> \o op.acc
<1>3. accesses \in Seq(Access)
  <2>1. <<[kind |-> "r", addr |-> pc, value |-> 0]>> \in Seq(Access)
    BY DEF WatchInv, PcOk, Access
  <2>. QED
    BY <2>1, ConstantsAssumption, ConcatProperties
<1>. HIDE DEF accesses
<1>4. ASSUME HitAfter(accesses) = NoHit, NEW i \in DOMAIN wps, NEW j \in DOMAIN accesses,
             accesses[j].addr \in Range(Watched(wps[i])),
             (IF accesses[j].kind = "r" THEN wps[i].r ELSE wps[i].w) = 1
      PROVE  FALSE
  <2>1. ~Hits(watchPointMemory, accesses[j])
    BY <1>3, <1>4, NoHitMeansNoCounter
  <2>2. accesses[j].addr \in Addr
    <3>1. accesses[j] \in Access
      BY <1>3
    <3>. QED
      BY <3>1 DEF Access
  <2>3. /\ wps[i].r = 1 => watchPointMemory[accesses[j].addr].r > 0
        /\ wps[i].w = 1 => watchPointMemory[accesses[j].addr].w > 0
    BY <1>4, <2>2, WatchedIsCounted
  <2>. QED
    BY <1>4, <2>1, <2>3 DEF Hits
<1>5. ~passed'
  BY <1>1, <1>4, NoReasonMeansNoHit DEF WatchInv, accesses
<1>6. PcOk'
  BY <1>1, <1>2 DEF WatchInv, PcOk
<1>. QED
  BY <1>2, <1>5, <1>6 DEF WatchInv, Readers, Writers

LEMMA AddWatch == WatchInv /\ sendDzrpCmdAddWatchpoint => WatchInv'
<1>. SUFFICES ASSUME WatchInv, sendDzrpCmdAddWatchpoint PROVE WatchInv'
  OBVIOUS
<1>1. PICK wp \in Wps : /\ watchPointMemory' = setWatchpoint(watchPointMemory, wp)
                        /\ wps' = Append(wps, wp)
  BY DEF sendDzrpCmdAddWatchpoint
<1>2. /\ wps \in Seq(Wps) /\ watchPointMemory \in Counters
      /\ UNCHANGED <<pc, saved, passed>>
  BY DEF WatchInv, sendDzrpCmdAddWatchpoint
<1>3. wps' \in Seq(Wps)
  BY <1>1, <1>2
<1>4. watchPointMemory' \in Counters
  BY <1>1, <1>2, SetCounters
<1>5. ASSUME NEW a \in Addr
      PROVE  /\ watchPointMemory'[a].r = Cardinality(Readers(a)')
             /\ watchPointMemory'[a].w = Cardinality(Writers(a)')
  <2>1. /\ watchPointMemory'[a].r = watchPointMemory[a].r
             + (IF a \in Range(Watched(wp)) /\ wp.r = 1 THEN 1 ELSE 0)
        /\ watchPointMemory'[a].w = watchPointMemory[a].w
             + (IF a \in Range(Watched(wp)) /\ wp.w = 1 THEN 1 ELSE 0)
    BY <1>1, <1>2, SetCounters
  <2>2. /\ Cardinality(Readers(a)') = Cardinality(Readers(a))
                                      + (IF a \in Range(Watched(wp)) /\ wp.r = 1 THEN 1 ELSE 0)
        /\ Cardinality(Writers(a)') = Cardinality(Writers(a))
                                      + (IF a \in Range(Watched(wp)) /\ wp.w = 1 THEN 1 ELSE 0)
    BY <1>1, <1>2, WatchersAdded
  <2>. QED
    BY <2>1, <2>2 DEF WatchInv
<1>. QED
  BY <1>2, <1>3, <1>4, <1>5 DEF WatchInv, PcOk

LEMMA RemoveWatch == WatchInv /\ sendDzrpCmdRemoveWatchpoint => WatchInv'
<1>. SUFFICES ASSUME WatchInv, sendDzrpCmdRemoveWatchpoint PROVE WatchInv'
  OBVIOUS
<1>1. PICK i \in DOMAIN wps : /\ watchPointMemory' = removeWatchpoint(watchPointMemory, wps[i])
                              /\ wps' = RemoveAt(wps, i)
  BY DEF sendDzrpCmdRemoveWatchpoint
<1>2. /\ wps \in Seq(Wps) /\ watchPointMemory \in Counters /\ wps[i] \in Wps
      /\ UNCHANGED <<pc, saved, passed>>
  BY DEF WatchInv, sendDzrpCmdRemoveWatchpoint
<1>3. wps' \in Seq(Wps)
  BY <1>1, <1>2, RemovedMembers
<1>4. \A a \in Range(Watched(wps[i])) \cap Addr : /\ wps[i].r = 1 => watchPointMemory[a].r > 0
                                                  /\ wps[i].w = 1 => watchPointMemory[a].w > 0
  BY WatchedIsCounted
<1>5. /\ watchPointMemory' \in Counters
      /\ \A a \in Addr :
           /\ watchPointMemory'[a].r = watchPointMemory[a].r
                - (IF a \in Range(Watched(wps[i])) /\ wps[i].r = 1 THEN 1 ELSE 0)
           /\ watchPointMemory'[a].w = watchPointMemory[a].w
                - (IF a \in Range(Watched(wps[i])) /\ wps[i].w = 1 THEN 1 ELSE 0)
  BY <1>1, <1>2, <1>4, RemoveCounters
<1>6. ASSUME NEW a \in Addr
      PROVE  /\ watchPointMemory'[a].r = Cardinality(Readers(a)')
             /\ watchPointMemory'[a].w = Cardinality(Writers(a)')
  BY <1>1, <1>2, <1>5, WatchersRemoved DEF WatchInv
<1>. QED
  BY <1>2, <1>3, <1>5, <1>6 DEF WatchInv, PcOk

(* A state that is restored is the saved one or the current one.           *)
LEMMA Restored ==
  ASSUME PcOk, sendDzrpCmdWriteState
  PROVE  serialize' \in {saved, serialize}
<1>1. PICK bad \in BOOLEAN : 
        serialize' = <<restore(saved, bad)[1], restore(saved, bad)[2],
                       restore(saved, bad)[3], restore(saved, bad)[4]>>
  BY DEF sendDzrpCmdWriteState, serialize
<1>2. PICK t, s, m, a : saved = <<t, s, m, a>>
  BY DEF PcOk, sendDzrpCmdWriteState
<1>3. restore(saved, TRUE) = serialize /\ restore(saved, FALSE) = saved
  BY DEF restore, deserialize
<1>. QED
  <2>1. CASE bad = TRUE
    <3>1. serialize' = <<serialize[1], serialize[2], serialize[3], serialize[4]>>
      BY <1>1, <1>3, <2>1
    <3>2. serialize' = serialize
      BY <3>1 DEF serialize
    <3>. QED
      BY <3>2
  <2>2. CASE bad = FALSE
    <3>1. serialize' = <<saved[1], saved[2], saved[3], saved[4]>>
      BY <1>1, <1>3, <2>2
    <3>2. serialize' = saved
      BY <1>2, <3>1
    <3>. QED
      BY <3>2
  <2>. QED
    BY <2>1, <2>2

LEMMA OtherWatch ==
  ASSUME WatchInv, [Next]_vars, ~execute, ~sendDzrpCmdAddWatchpoint, ~sendDzrpCmdRemoveWatchpoint
  PROVE  WatchInv'
<1>1. UNCHANGED <<wps, watchPointMemory, passed>>
  BY DEF Next, Loop, Calls, leaveAtTstates, wake, sendDzrpCmdContinue, sendDzrpCmdPause, disconnect,
         sendDzrpCmdSetSlot, sendDzrpCmdWriteMem, enableBreakOnInterrupt, setTimeoutRequest,
         sendDzrpCmdReadState, sendDzrpCmdWriteState, vars, memVars
<1>2. CASE sendDzrpCmdWriteState
  <2>1. serialize' \in {saved, serialize} /\ saved # <<>> /\ UNCHANGED saved
    BY <1>2, Restored DEF WatchInv, sendDzrpCmdWriteState
  <2>2. pc' \in Addr
    BY <2>1 DEF WatchInv, PcOk, serialize
  <2>3. PcOk'
    BY <2>1, <2>2 DEF WatchInv, PcOk
  <2>. QED
    BY <1>1, <2>3 DEF WatchInv, Readers, Writers
<1>3. CASE sendDzrpCmdReadState
  <2>1. PcOk'
    BY <1>3 DEF WatchInv, PcOk, serialize, sendDzrpCmdReadState
  <2>. QED
    BY <1>1, <2>1 DEF WatchInv, Readers, Writers
<1>4. CASE ~sendDzrpCmdWriteState /\ ~sendDzrpCmdReadState
  <2>1. UNCHANGED <<pc, saved>>
    BY <1>4 DEF Next, Loop, Calls, leaveAtTstates, wake, sendDzrpCmdContinue, sendDzrpCmdPause,
         disconnect, sendDzrpCmdSetSlot, sendDzrpCmdWriteMem, enableBreakOnInterrupt,
         setTimeoutRequest, vars
  <2>. QED
    BY <1>1, <2>1 DEF WatchInv, PcOk, Readers, Writers
<1>. QED
  BY <1>2, <1>3, <1>4

LEMMA WatchInductive == Spec => []WatchInv
<1>1. WatchInv /\ [Next]_vars => WatchInv'
  BY ExecuteWatch, AddWatch, RemoveWatch, OtherWatch
<1>. QED
  BY InitWatch, <1>1, PTL DEF Spec

(* Watchpoints work (SimulatedMemory and z80CpuContinue): no access to a   *)
(* watched address goes unnoticed, and each counter is the number of the   *)
(* watchpoints there, whatever overlaps, wraps around or was removed.      *)
THEOREM Noticed == Spec => []WatchesWork
<1>1. WatchInv => WatchesWork
  BY CountsAreCardinalities DEF WatchInv, WatchesWork, NoAccessUnnoticed
<1>. QED
  BY <1>1, WatchInductive, PTL

(* Restoring (sendDzrpCmdWriteState) is all or nothing: the state behind   *)
(* it is the saved one, or the one before it.                              *)
THEOREM AllOrNothing == Spec => StateIsRestored
<1>1. WatchInv /\ [Next]_vars => [sendDzrpCmdWriteState => serialize' \in {saved, serialize}]_vars
  BY Restored DEF WatchInv
<1>. QED
  BY <1>1, WatchInductive, PTL DEF Spec, StateIsRestored
==============================================================================
