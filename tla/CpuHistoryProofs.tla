-------------------------- MODULE CpuHistoryProofs --------------------------
(***************************************************************************)
(* Proofs about reverse debugging, for every size of the ring, every       *)
(* length of the program and every order of steps: going back shows the    *)
(* lines that were executed, the youngest first, as far as the ring goes.  *)
(***************************************************************************)
EXTENDS CpuHistory, SequenceTheorems, TLAPS

Words == [kind : {"call", "rst", "int", "data"}, value : Int, name : Int]
Lines == [pc : Int, op : Ops, taken : BOOLEAN, pushed : Int, words : Seq(Words)]

\* The steps back after which the place i of the ring is shown: the place that was written last is
\* the first, the one before it the second, and before the first place comes the last.
Age(i) == IF i - 1 <= historyWriteIndex THEN historyWriteIndex - i + 2
          ELSE historyWriteIndex - i + 2 + Len(history)

Steps == Len(revDbgHistory)
LineBack(i) == trace[Len(trace) - i + 1]

\* The registers, and what is stored of them.
Typed ==
  /\ pc \in Int /\ ran \in Int
  /\ words \in Seq(Words)
  /\ trace \in Seq(Lines) /\ history \in Seq(Lines) /\ revDbgHistory \in Seq(Int)
  /\ historyWriteIndex \in Int /\ historyIndex \in Int

\* The ring is as long as the trace until it is full; it is written one place after the other.
RingOk ==
  /\ Len(history) <= MaxSize /\ Len(history) <= Len(trace)
  /\ Len(history) < MaxSize => Len(history) = Len(trace) /\ historyWriteIndex = Len(history) - 1
  /\ historyWriteIndex >= -1 /\ historyWriteIndex < Len(history)
  /\ history # <<>> => historyWriteIndex >= 0

\* The ring keeps the youngest lines, each at the place of its age.
RingKeepsYoungest == \A i \in 1..Len(history) : history[i] = LineBack(Age(i))

\* The line shown is at the place whose age is the number of steps back.
PlaceIsSteps ==
  /\ historyIndex >= -1 /\ historyIndex < Len(history)
  /\ historyIndex = -1 <=> Steps = 0
  /\ Steps > 0 => Age(historyIndex + 1) = Steps

ShownIsLine ==
  /\ \A i \in 1..Steps : revDbgHistory[i] = LineBack(i).pc
  /\ Steps > 0 => cache = LineBack(Steps)
  /\ Steps = 0 /\ ~stale => cache = Present(pc, words) /\ frames = EmulatorFrames(code, pc, words)

RingInv == Typed /\ RingOk /\ RingKeepsYoungest /\ PlaceIsSteps /\ ShownIsLine

------------------------------------------------------------------------------
(* The types                                                                *)

LEMMA OpsTyped == \A op \in Ops : op.target \in Int
BY DEF Ops, Op, RstAddress

(* What an instruction makes of the PC and of the stack.                   *)
LEMMA ExecutedTyped ==
  ASSUME Typed, NEW op \in Ops, NEW taken \in BOOLEAN,
         op.kind \in {"pop", "ret"} => words # <<>>
  PROVE  Executed(op, taken)[1] \in Int /\ Executed(op, taken)[2] \in Seq(Words)
<1>. USE DEF Typed
<1>1. op.target \in Int
  BY OpsTyped
<1>2. \A k \in {"call", "rst", "int", "data"}, v, n \in Int : Append(words, Word(k, v, n)) \in Seq(Words)
  BY AppendProperties DEF Word, Words
<1>3. words # <<>> => Front(words) \in Seq(Words) /\ Last(words) \in Words
  <2>. SUFFICES ASSUME words # <<>> PROVE Front(words) \in Seq(Words) /\ Last(words) \in Words
    OBVIOUS
  <2>1. Len(words) \in Nat \ {0} /\ \A i \in 1..Len(words) : words[i] \in Words
    BY EmptySeq, ElementOfSeq
  <2>2. SubSeq(words, 1, Len(words) - 1) \in Seq(Words)
    BY <2>1, SubSeqProperties
  <2>. QED
    BY <2>1, <2>2 DEF Front, Last
<1>4. op.kind = "ldsp" => Resized(words, op.target) \in Seq(Words)
  <2>. SUFFICES ASSUME op.kind = "ldsp" PROVE Resized(words, op.target) \in Seq(Words)
    OBVIOUS
  <2>1. op.target = 2
    BY DEF Ops, Op
  <2>2. Len(words) \in Nat /\ \A i \in 1..Len(words) : words[i] \in Words
    BY ElementOfSeq
  <2>3. 2 <= Len(words) => SubSeq(words, 1, 2) \in Seq(Words)
    BY <2>2, SubSeqProperties
  <2>4. ~(2 <= Len(words)) =>
          [i \in 1..(2 - Len(words)) |-> Word("data", 0, Unknown)] \in Seq(Words)
    BY <2>2 DEF Word, Words, Unknown
  <2>5. ~(2 <= Len(words)) =>
          words \o [i \in 1..(2 - Len(words)) |-> Word("data", 0, Unknown)] \in Seq(Words)
    BY <2>4, ConcatProperties
  <2>. QED
    BY <2>1, <2>3, <2>5 DEF Resized
<1>5. CASE op.kind = "ret" /\ taken
  BY <1>3, <1>5 DEF Executed, Words
<1>6. CASE op.kind = "pop"
  BY <1>3, <1>6 DEF Executed
<1>7. CASE op.kind \notin {"ret", "pop"}
  <2>1. CASE op.kind = "push"
    <3>1. Append(words, Word("data", 100 + ran, Unknown)) \in Seq(Words)
      BY <1>2 DEF Unknown
    <3>. QED
      BY <2>1, <3>1 DEF Executed
  <2>2. CASE op.kind = "call"
    BY <1>1, <1>2, <2>2 DEF Executed
  <2>3. CASE op.kind = "rst"
    <3>1. Append(words, Word("rst", pc + 1, op.target)) \in Seq(Words)
      BY <1>1, <1>2
    <3>. QED
      BY <1>1, <2>3, <3>1 DEF Executed
  <2>4. CASE op.kind = "ldsp"
    BY <1>4, <2>4 DEF Executed
  <2>5. CASE op.kind \notin {"push", "call", "rst", "ldsp"}
    BY <1>7, <2>5 DEF Executed
  <2>. QED
    BY <2>1, <2>2, <2>3, <2>4, <2>5
<1>8. CASE op.kind = "ret" /\ ~taken
  BY <1>8 DEF Executed
<1>. QED
  BY <1>5, <1>6, <1>7, <1>8

LEMMA RunTyped ==
  ASSUME Typed, NEW op \in Ops, NEW taken \in BOOLEAN, NEW int \in BOOLEAN, Run(op, taken, int)
  PROVE  /\ pc' \in Int /\ words' \in Seq(Words) /\ ran' \in Int
         /\ Line(pc, op, taken, 100 + ran, words) \in Lines
<1>. DEFINE plain == Executed(op, taken)
<1>1. plain[1] \in Int /\ plain[2] \in Seq(Words)
  BY ExecutedTyped DEF Run
<1>2. /\ pc' = (IF int THEN Interrupted(plain[1], plain[2]) ELSE plain)[1]
      /\ words' = (IF int THEN Interrupted(plain[1], plain[2]) ELSE plain)[2]
      /\ ran' = ran + 1
  BY DEF Run
<1>3. Line(pc, op, taken, 100 + ran, words) \in Lines
  BY DEF Line, Lines, Typed
<1>. HIDE DEF plain
<1>4. CASE int
  <2>1. pc' = IntAddress /\ words' = Append(plain[2], Word("int", plain[1], Interrupt))
    BY <1>2, <1>4 DEF Interrupted
  <2>2. Word("int", plain[1], Interrupt) \in Words
    BY <1>1 DEF Word, Words, Interrupt
  <2>3. words' \in Seq(Words)
    BY <1>1, <2>1, <2>2, AppendProperties
  <2>. QED
    BY <1>2, <1>3, <2>1, <2>3 DEF IntAddress, Typed
<1>5. CASE ~int
  BY <1>1, <1>2, <1>3, <1>5 DEF Typed
<1>. QED
  BY <1>4, <1>5

------------------------------------------------------------------------------
(* The ring                                                                 *)

LEMMA SizeIsPositive == MaxSize \in Nat \ {0}
BY HistoryAssumption

(* One place back, and forward, in a ring of n places.                     *)
LEMMA RingArithmetic ==
  ASSUME NEW n \in Nat \ {0}, NEW x \in 0..(n - 1)
  PROVE  /\ (x - 1) % n = IF x = 0 THEN n - 1 ELSE x - 1
         /\ (x + 1) % n = IF x = n - 1 THEN 0 ELSE x + 1
OBVIOUS

\* The places and their ages: each place has another age, and all ages up to the length are there.
LEMMA Ages ==
  ASSUME Typed, RingOk, history # <<>>
  PROVE  /\ \A i \in 1..Len(history) : Age(i) \in 1..Len(history)
         /\ \A i, j \in 1..Len(history) : Age(i) = Age(j) => i = j
         /\ Age(historyWriteIndex + 1) = 1
         /\ Len(history) \in Nat \ {0} /\ historyWriteIndex \in 0..(Len(history) - 1)
<1>1. Len(history) \in Nat \ {0}
  BY EmptySeq DEF Typed
<1>2. historyWriteIndex \in 0..(Len(history) - 1)
  BY <1>1 DEF RingOk, Typed
<1>. QED
  BY <1>1, <1>2 DEF Age

\* The next place back is one step older, and there is none behind the oldest; forward it is one
\* step younger, and there is none before the youngest.
LEMMA Places ==
  ASSUME Typed, RingOk, PlaceIsSteps
  PROVE  /\ PrevIndex = -1 <=> Steps = Len(history)
         /\ PrevIndex # -1 => PrevIndex \in 0..(Len(history) - 1) /\ Age(PrevIndex + 1) = Steps + 1
         /\ isInStepBackMode => /\ NextIndex = -1 <=> Steps = 1
                                /\ NextIndex # -1 => /\ NextIndex \in 0..(Len(history) - 1)
                                                     /\ Age(NextIndex + 1) = Steps - 1
<1>. DEFINE n == Len(history)
<1>1. n \in Nat /\ Steps \in Nat
  BY DEF Typed, Steps
<1>2. CASE historyIndex < 0
  <2>1. historyIndex = -1 /\ Steps = 0 /\ PrevIndex = historyWriteIndex
    BY <1>2 DEF PlaceIsSteps, PrevIndex, Typed
  <2>2. CASE history = <<>>
    <3>1. n = 0 /\ historyWriteIndex = -1
      BY <1>1, <2>2 DEF RingOk, Typed
    <3>. QED
      BY <1>2, <2>1, <3>1 DEF isInStepBackMode
  <2>3. CASE history # <<>>
    BY <1>2, <2>1, <2>3, Ages DEF isInStepBackMode
  <2>. QED
    BY <2>2, <2>3
<1>3. CASE historyIndex >= 0
  <2>1. n \in Nat \ {0} /\ historyIndex \in 0..(n - 1) /\ history # <<>>
    BY <1>1, <1>3, EmptySeq DEF PlaceIsSteps, Typed
  <2>2. Age(historyIndex + 1) = Steps /\ historyWriteIndex \in 0..(n - 1)
    BY <1>1, <1>3, <2>1, Ages DEF PlaceIsSteps
  <2>3. /\ (historyIndex - 1) % n = IF historyIndex = 0 THEN n - 1 ELSE historyIndex - 1
        /\ (historyIndex + 1) % n = IF historyIndex = n - 1 THEN 0 ELSE historyIndex + 1
    BY <2>1, RingArithmetic
  <2>4. PrevIndex = LET index == IF historyIndex = 0 THEN n - 1 ELSE historyIndex - 1
                    IN IF index = historyWriteIndex THEN -1 ELSE index
    BY <1>3, <2>1, <2>3 DEF PrevIndex
  <2>5. NextIndex = IF historyIndex = historyWriteIndex THEN -1
                    ELSE IF historyIndex = n - 1 THEN 0 ELSE historyIndex + 1
    BY <2>3 DEF NextIndex
  <2>. HIDE DEF n
  <2>6. \A i \in 1..n : Age(i) = IF i - 1 <= historyWriteIndex THEN historyWriteIndex - i + 2
                                 ELSE historyWriteIndex - i + 2 + n
    BY DEF Age, n
  <2>. QED
    BY <1>3, <2>1, <2>2, <2>4, <2>5, <2>6, <1>1 DEF n
<1>. QED
  BY <1>2, <1>3 DEF Typed

------------------------------------------------------------------------------
(* The steps                                                                *)

LEMMA InitRing == Init => RingInv
<1>. SUFFICES ASSUME Init PROVE RingInv
  OBVIOUS
<1>1. Len(history) = 0 /\ Len(trace) = 0 /\ Steps = 0
  BY DEF Init, Steps
<1>2. Word("call", 13, 20) \in Words
  BY DEF Word, Words
<1>3. Typed
  BY <1>2 DEF Init, Typed
<1>. QED
  BY <1>1, <1>3, SizeIsPositive
     DEF Init, RingInv, RingOk, RingKeepsYoungest, PlaceIsSteps, ShownIsLine

(* The stack of steps is emptied, and the emulator is asked.               *)
LEMMA OutOfTheHistory ==
  ASSUME Typed', historyIndex' = -1, revDbgHistory' = <<>>, cache' = Present(pc', words'),
         frames' = EmulatorFrames(code', pc', words'), Len(history') \in Nat
  PROVE  PlaceIsSteps' /\ ShownIsLine'
<1>1. Steps' = 0
  BY DEF Steps
<1>2. PlaceIsSteps'
  BY <1>1 DEF PlaceIsSteps
<1>3. ShownIsLine'
  BY <1>1 DEF ShownIsLine
<1>. QED
  BY <1>2, <1>3

(* A line is stored at the place behind the youngest, instead of the       *)
(* oldest if the ring is full.                                             *)
LEMMA LineStored ==
  ASSUME Typed, RingOk, RingKeepsYoungest, NEW line \in Lines,
         PushHistoryInfo(line), trace' = Append(trace, line)
  PROVE  /\ trace' \in Seq(Lines) /\ history' \in Seq(Lines) /\ historyWriteIndex' \in Int
         /\ RingOk' /\ RingKeepsYoungest'
<1>. DEFINE n == Len(history)
            w == historyWriteIndex
<1>1. n \in Nat /\ w \in Int /\ MaxSize \in Nat \ {0} /\ Len(trace) \in Nat
  BY SizeIsPositive DEF Typed
<1>2. /\ trace' \in Seq(Lines) /\ Len(trace') = Len(trace) + 1
      /\ trace'[Len(trace) + 1] = line /\ \A i \in 1..Len(trace) : trace'[i] = trace[i]
  BY AppendProperties DEF Typed
<1>3. LineBack(1)' = line
  BY <1>1, <1>2 DEF LineBack
<1>4. CASE n < MaxSize
  <2>1. history' = Append(history, line) /\ historyWriteIndex' = w + 1
    BY <1>1, <1>4 DEF PushHistoryInfo
  <2>2. /\ history' \in Seq(Lines) /\ Len(history') = n + 1
        /\ history'[n + 1] = line /\ \A i \in 1..n : history'[i] = history[i]
    BY <2>1, AppendProperties DEF Typed
  <2>3. n = Len(trace) /\ w = n - 1
    BY <1>4 DEF RingOk
  <2>4. RingOk'
    BY <1>1, <1>2, <1>4, <2>1, <2>2, <2>3 DEF RingOk
  <2>5. /\ \A i \in 1..n : Age(i) = n + 1 - i
        /\ \A i \in 1..(n + 1) : Age(i)' = n + 2 - i
    BY <1>1, <2>1, <2>2, <2>3 DEF Age
  <2>6. ASSUME NEW i \in 1..(n + 1) PROVE history'[i] = LineBack(Age(i))'
    <3>1. CASE i = n + 1
      BY <1>1, <1>3, <2>2, <2>5, <3>1 DEF LineBack
    <3>2. CASE i \in 1..n
      <4>1. history'[i] = LineBack(Age(i))
        BY <2>2, <3>2 DEF RingKeepsYoungest
      <4>2. Age(i) \in 1..Len(trace) /\ Age(i)' = Age(i) + 1
        BY <1>1, <2>3, <2>5, <3>2
      <4>3. LineBack(Age(i))' = LineBack(Age(i))
        BY <1>1, <1>2, <4>2 DEF LineBack
      <4>. QED
        BY <4>1, <4>3
    <3>. QED
      BY <1>1, <3>1, <3>2
  <2>. QED
    BY <1>2, <2>1, <2>2, <2>4, <2>6, <1>1 DEF RingKeepsYoungest
<1>5. CASE n >= MaxSize
  <2>1. n = MaxSize /\ n <= Len(trace) /\ history # <<>> /\ w \in 0..(n - 1)
    BY <1>1, <1>5, Ages DEF RingOk
  <2>2. (w + 1) % MaxSize = IF w = n - 1 THEN 0 ELSE w + 1
    BY <1>1, <2>1, RingArithmetic
  <2>3. PICK x \in 0..(n - 1) : x = IF w = n - 1 THEN 0 ELSE w + 1
    BY <1>1, <2>1
  <2>4. historyWriteIndex' = x /\ history' = [history EXCEPT ![x + 1] = line]
    BY <1>5, <2>2, <2>3 DEF PushHistoryInfo, ReplaceAt
  <2>5. /\ history' \in Seq(Lines) /\ Len(history') = n
        /\ \A i \in 1..n : history'[i] = IF i = x + 1 THEN line ELSE history[i]
    BY <1>1, <2>3, <2>4, ExceptSeq DEF Typed
  <2>6. RingOk'
    BY <1>1, <1>2, <2>1, <2>3, <2>4, <2>5 DEF RingOk
  <2>7. /\ Age(x + 1)' = 1
        /\ \A i \in 1..n : i # x + 1 => Age(i)' = Age(i) + 1 /\ Age(i) \in 1..(n - 1)
    <3>1. \A i \in 1..n : Age(i)' = IF i - 1 <= x THEN x - i + 2 ELSE x - i + 2 + n
      BY <2>4, <2>5 DEF Age
    <3>2. \A i \in 1..n : Age(i) = IF i - 1 <= w THEN w - i + 2 ELSE w - i + 2 + n
      BY DEF Age
    <3>3. x + 1 \in 1..n
      BY <1>1, <2>3
    <3>. HIDE DEF n, w
    <3>4. Age(x + 1)' = 1
      BY <1>1, <2>3, <3>1, <3>3
    <3>5. ASSUME NEW i \in 1..n, i # x + 1 PROVE Age(i)' = Age(i) + 1 /\ Age(i) \in 1..(n - 1)
      BY <1>1, <2>1, <2>3, <3>1, <3>2, <3>5
    <3>. QED
      BY <3>4, <3>5
  <2>8. ASSUME NEW i \in 1..n PROVE history'[i] = LineBack(Age(i))'
    <3>1. CASE i = x + 1
      BY <1>3, <2>5, <2>7, <3>1 DEF LineBack
    <3>2. CASE i # x + 1
      <4>1. history'[i] = LineBack(Age(i))
        BY <2>5, <3>2 DEF RingKeepsYoungest
      <4>2. Age(i) \in 1..Len(trace) /\ Age(i)' = Age(i) + 1
        BY <1>1, <2>1, <2>7, <3>2
      <4>3. LineBack(Age(i))' = LineBack(Age(i))
        BY <1>1, <1>2, <4>2 DEF LineBack
      <4>. QED
        BY <4>1, <4>3
    <3>. QED
      BY <3>1, <3>2
  <2>. QED
    BY <1>2, <2>4, <2>5, <2>6, <2>8 DEF RingKeepsYoungest
<1>. QED
  BY <1>1, <1>4, <1>5

LEMMA RunRing ==
  ASSUME RingInv, NEW op \in Ops, NEW taken \in BOOLEAN, NEW int \in BOOLEAN, Run(op, taken, int)
  PROVE  RingInv'
<1>. DEFINE line == Line(pc, op, taken, 100 + ran, words)
<1>1. /\ historyIndex = -1 /\ historyIndex' = -1 /\ revDbgHistory' = <<>>
      /\ cache' = Present(pc', words') /\ frames' = EmulatorFrames(code', pc', words')
  BY DEF Run, isInStepBackMode, RingInv, PlaceIsSteps, Typed
<1>2. pc' \in Int /\ words' \in Seq(Words) /\ ran' \in Int /\ line \in Lines
  BY RunTyped DEF RingInv
<1>3. /\ trace' \in Seq(Lines) /\ history' \in Seq(Lines) /\ historyWriteIndex' \in Int
      /\ RingOk' /\ RingKeepsYoungest'
  <2>1. CASE pc # previouslyStoredPC
    <3>1. PushHistoryInfo(line) /\ trace' = Append(trace, line)
      BY <2>1 DEF Run
    <3>. QED
      BY <1>2, <3>1, LineStored DEF RingInv
  <2>2. CASE pc = previouslyStoredPC
    <3>1. UNCHANGED <<history, historyWriteIndex, trace>>
      BY <2>2 DEF Run
    <3>. QED
      BY <3>1 DEF RingInv, Typed, RingOk, RingKeepsYoungest, LineBack, Age
  <2>. QED
    BY <2>1, <2>2
<1>4. Typed'
  BY <1>1, <1>2, <1>3 DEF Typed
<1>5. PlaceIsSteps' /\ ShownIsLine'
  BY <1>1, <1>4, OutOfTheHistory DEF Typed
<1>. QED
  BY <1>3, <1>4, <1>5 DEF RingInv

(* One step further into the past.                                         *)
LEMMA BackRing ==
  ASSUME RingInv, Back
  PROVE  RingInv'
<1>1. UNCHANGED <<code, pc, words, ran, history, historyWriteIndex, trace, stale>>
  BY DEF Back, program
<1>2. RingOk' /\ RingKeepsYoungest'
  BY <1>1 DEF RingInv, RingOk, RingKeepsYoungest, LineBack, Age
<1>3. \A i : Age(i)' = Age(i) /\ LineBack(i)' = LineBack(i)
  BY <1>1 DEF Age, LineBack
<1>4. CASE PrevIndex < 0
  BY <1>1, <1>2, <1>3, <1>4
     DEF Back, RingInv, Typed, PlaceIsSteps, ShownIsLine, Steps, Age, LineBack
<1>5. CASE ~(PrevIndex < 0)
  <2>. DEFINE x    == PrevIndex
              line == history[x + 1]
  <2>1. /\ historyIndex' = x /\ revDbgHistory' = Append(revDbgHistory, line.pc)
        /\ cache' = line
    BY <1>5 DEF Back
  <2>2. x \in 0..(Len(history) - 1) /\ Age(x + 1) = Steps + 1
    BY <1>5, Places DEF RingInv
  <2>3. Len(history) \in Nat /\ x + 1 \in 1..Len(history)
    BY <2>2 DEF RingInv, Typed
  <2>4. line = LineBack(Steps + 1) /\ line \in Lines
    BY <2>2, <2>3, ElementOfSeq DEF RingInv, RingKeepsYoungest, Typed
  <2>5. line.pc \in Int
    BY <2>4 DEF Lines
  <2>. HIDE DEF x, line
  <2>6. /\ revDbgHistory' \in Seq(Int) /\ Steps \in Nat /\ Steps' = Steps + 1
        /\ revDbgHistory'[Steps + 1] = line.pc
        /\ \A i \in 1..Steps : revDbgHistory'[i] = revDbgHistory[i]
    BY <2>1, <2>5, AppendProperties DEF RingInv, Typed, Steps
  <2>7. Typed'
    BY <1>1, <2>1, <2>2, <2>6 DEF RingInv, Typed
  <2>8. PlaceIsSteps'
    BY <1>1, <1>3, <2>1, <2>2, <2>6 DEF PlaceIsSteps
  <2>9. ShownIsLine'
    <3>1. ASSUME NEW i \in 1..(Steps + 1) PROVE revDbgHistory'[i] = LineBack(i).pc
      BY <2>4, <2>6 DEF RingInv, ShownIsLine
    <3>. QED
      <4>1. \A i \in 1..Steps' : revDbgHistory'[i] = LineBack(i)'.pc
        BY <1>1, <2>6, <3>1 DEF LineBack
      <4>2. cache' = LineBack(Steps)'
        BY <1>1, <2>1, <2>4, <2>6 DEF LineBack
      <4>3. ~(Steps' = 0)
        BY <2>6
      <4>. QED
        BY <4>1, <4>2, <4>3 DEF ShownIsLine
  <2>. QED
    BY <1>2, <2>7, <2>8, <2>9 DEF RingInv
<1>. QED
  BY <1>4, <1>5

(* One step towards the present, or into it.                               *)
LEMMA ForwardRing ==
  ASSUME RingInv, NEW g, NEW done, Forward(g, done)
  PROVE  RingInv'
<1>. DEFINE x == NextIndex
<1>1. /\ UNCHANGED <<code, pc, words, ran, history, historyWriteIndex, trace, stale>>
      /\ isInStepBackMode /\ historyIndex' = x /\ revDbgHistory' = Front(revDbgHistory)
      /\ x < 0 => cache' = Present(pc, words) /\ frames' = EmulatorFrames(code, pc, words)
      /\ ~(x < 0) => cache' = history[x + 1]
  BY DEF Forward, program, NextLine
<1>2. RingOk' /\ RingKeepsYoungest'
  BY <1>1 DEF RingInv, RingOk, RingKeepsYoungest, LineBack, Age
<1>3. \A i : Age(i)' = Age(i) /\ LineBack(i)' = LineBack(i)
  BY <1>1 DEF Age, LineBack
<1>4. /\ x = -1 <=> Steps = 1
      /\ x # -1 => x \in 0..(Len(history) - 1) /\ Age(x + 1) = Steps - 1
  BY <1>1, Places DEF RingInv
<1>5. Steps \in Nat \ {0} /\ Len(history) \in Nat
  BY <1>1 DEF RingInv, Typed, PlaceIsSteps, isInStepBackMode, Steps
<1>6. /\ revDbgHistory' \in Seq(Int) /\ Steps' = Steps - 1
      /\ \A i \in 1..(Steps - 1) : revDbgHistory'[i] = revDbgHistory[i]
  <2>1. \A i \in 1..(Steps - 1) : revDbgHistory[i] \in Int
    BY <1>5, ElementOfSeq DEF RingInv, Typed, Steps
  <2>2. revDbgHistory' = SubSeq(revDbgHistory, 1, Steps - 1)
    BY <1>1 DEF Front, Steps
  <2>3. /\ revDbgHistory' \in Seq(Int)
        /\ Len(revDbgHistory') = IF 1 <= Steps - 1 THEN Steps - 1 - 1 + 1 ELSE 0
        /\ \A i \in 1..(Steps - 1 - 1 + 1) : revDbgHistory'[i] = revDbgHistory[1 + i - 1]
    BY <1>5, <2>1, <2>2, SubSeqProperties
  <2>4. Len(revDbgHistory') = Steps - 1
    BY <1>5, <2>3
  <2>5. Steps' = Steps - 1
    BY <2>4 DEF Steps
  <2>. QED
    BY <1>5, <2>3, <2>5
<1>7. Typed'
  BY <1>1, <1>4, <1>5, <1>6 DEF RingInv, Typed
<1>8. PlaceIsSteps'
  BY <1>1, <1>3, <1>4, <1>5, <1>6 DEF PlaceIsSteps
<1>9. ShownIsLine'
  <2>1. ASSUME NEW i \in 1..(Steps - 1) PROVE revDbgHistory'[i] = LineBack(i).pc
    BY <1>5, <1>6 DEF RingInv, ShownIsLine
  <2>2. CASE x = -1
    <3>1. cache' = Present(pc', words') /\ frames' = EmulatorFrames(code', pc', words') /\ Steps' = 0
      BY <1>1, <1>4, <1>6, <2>2
    <3>. QED
      BY <3>1 DEF ShownIsLine
  <2>3. CASE x # -1
    <3>1. ~(x < 0) /\ Steps' > 0 /\ x + 1 \in 1..Len(history) /\ Age(x + 1) = Steps'
      BY <1>4, <1>5, <1>6, <2>3
    <3>2. cache' = LineBack(Steps')
      BY <1>1, <3>1 DEF RingInv, RingKeepsYoungest
    <3>. QED
      BY <1>3, <1>6, <2>1, <3>1, <3>2 DEF ShownIsLine
  <2>. QED
    BY <2>2, <2>3
<1>. QED
  BY <1>2, <1>7, <1>8, <1>9 DEF RingInv

LEMMA PcRing ==
  ASSUME RingInv, NEW a \in Subs, setPcToLine(a)
  PROVE  RingInv'
<1>1. a \in Int
  BY DEF Subs
<1>2. /\ UNCHANGED <<code, words, history, historyWriteIndex, trace>>
      /\ ran' = ran + 1 /\ pc' = a /\ cache' = Present(pc', words')
      /\ frames' = EmulatorFrames(code', pc', words')
      /\ historyIndex' = -1 /\ revDbgHistory' = <<>>
  BY DEF setPcToLine
<1>3. Typed'
  BY <1>1, <1>2 DEF RingInv, Typed
<1>4. RingOk' /\ RingKeepsYoungest'
  BY <1>2 DEF RingInv, RingOk, RingKeepsYoungest, LineBack, Age
<1>. QED
  BY <1>2, <1>3, <1>4, OutOfTheHistory DEF RingInv, Typed

LEMMA ReloadRing ==
  ASSUME RingInv, reloadLabels
  PROVE  RingInv'
<1>1. /\ history' = <<>> /\ historyWriteIndex' = -1 /\ historyIndex' = -1
      /\ revDbgHistory' = <<>> /\ trace' = <<>> /\ stale' = (stale \/ isInStepBackMode)
      /\ ran' = ran + 1 /\ UNCHANGED <<code, pc, words, cache, frames>>
  BY DEF reloadLabels
<1>2. Len(history') = 0 /\ Len(trace') = 0 /\ Steps' = 0
  BY <1>1 DEF Steps
<1>3. Typed'
  BY <1>1 DEF RingInv, Typed
<1>4. ShownIsLine'
  <2>1. ~stale' => ~stale /\ ~isInStepBackMode
    BY <1>1, Zenon
  <2>2. ~isInStepBackMode => Steps = 0
    BY DEF RingInv, PlaceIsSteps, Typed, isInStepBackMode
  <2>3. ~stale' => cache' = Present(pc', words') /\ frames' = EmulatorFrames(code', pc', words')
    BY <1>1, <2>1, <2>2 DEF RingInv, ShownIsLine
  <2>. QED
    BY <1>2, <2>3 DEF ShownIsLine
<1>. QED
  BY <1>1, <1>2, <1>3, <1>4, SizeIsPositive
     DEF RingInv, RingOk, RingKeepsYoungest, PlaceIsSteps

LEMMA NextRing == RingInv /\ [Next]_vars => RingInv'
<1>. SUFFICES ASSUME RingInv, [Next]_vars PROVE RingInv'
  OBVIOUS
<1>1. ASSUME NEW op \in Ops, NEW taken \in BOOLEAN, NEW int \in BOOLEAN, Run(op, taken, int)
      PROVE  RingInv'
  BY <1>1, RunRing
<1>2. CASE stepBack \/ reverseContinue
  BY <1>2, BackRing DEF stepBack, reverseContinue
<1>3. CASE continue \/ stepInto \/ stepOver \/ stepOut
  BY <1>3, ForwardRing DEF continue, stepInto, stepOver, stepOut
<1>4. ASSUME NEW a \in Subs, setPcToLine(a) PROVE RingInv'
  BY <1>4, PcRing
<1>5. CASE reloadLabels
  BY <1>5, ReloadRing
<1>6. CASE UNCHANGED vars
  <2>1. Typed' /\ RingOk' /\ RingKeepsYoungest' /\ PlaceIsSteps'
    BY <1>6 DEF vars, RingInv, Typed, RingOk, RingKeepsYoungest, PlaceIsSteps, Steps, Age, LineBack
  <2>2. /\ UNCHANGED <<code, pc, words, stale, cache, frames, revDbgHistory, trace>>
        /\ Steps' = Steps /\ ShownIsLine
    BY <1>6 DEF vars, RingInv, Steps
  <2>3. ShownIsLine'
    BY <2>2 DEF ShownIsLine, LineBack
  <2>. QED
    BY <2>1, <2>3 DEF RingInv
<1>. QED
  BY <1>1, <1>2, <1>3, <1>4, <1>5, <1>6 DEF Next

(* The property in the words of CpuHistory: as many steps back are         *)
(* possible as the ring is long.                                           *)
LEMMA RingShowsHistory == RingInv => HistoryInOrder
<1>. SUFFICES ASSUME RingInv PROVE HistoryInOrder
  OBVIOUS
<1>. DEFINE kept == Min({MaxSize, Len(trace)})
<1>1. Len(history) \in Nat /\ Len(trace) \in Nat /\ MaxSize \in Nat /\ Steps \in Nat
  BY SizeIsPositive DEF RingInv, Typed, Steps
<1>2. kept \in {MaxSize, Len(trace)} /\ kept <= MaxSize /\ kept <= Len(trace)
  <2>. DEFINE S == {MaxSize, Len(trace)}
  <2>1. \E m \in S : \A y \in S : m <= y
    BY <1>1
  <2>2. (CHOOSE m \in S : \A y \in S : m <= y) \in S /\ \A y \in S : (CHOOSE m \in S : \A z \in S : m <= z) <= y
    BY <2>1
  <2>. QED
    BY <2>2 DEF Min
<1>3. kept = Len(history)
  BY <1>1, <1>2 DEF RingInv, RingOk
<1>. HIDE DEF kept
<1>4. PrevIndex < 0 <=> Steps = kept
  BY <1>1, <1>3, Places DEF RingInv
<1>5. isInStepBackMode <=> Steps > 0
  BY <1>1 DEF RingInv, PlaceIsSteps, Typed, isInStepBackMode
<1>. QED
  BY <1>1, <1>4, <1>5 DEF RingInv, ShownIsLine, HistoryInOrder, LineBack, Steps, kept

(***************************************************************************)
(* Stepping back k times shows the k-th youngest of the lines that were    *)
(* executed, as far as the ring reaches, and out of the history the        *)
(* emulator's registers and call stack are shown: pushHistoryInfo, its     *)
(* wrapping index, and all ways to step back and forth agree.              *)
(***************************************************************************)
THEOREM PastInOrder == Spec => []HistoryInOrder
<1>1. Spec => []RingInv
  BY InitRing, NextRing, PTL DEF Spec
<1>. QED
  BY <1>1, RingShowsHistory, PTL
=============================================================================
