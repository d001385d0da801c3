----------------------------- MODULE CpuHistory -----------------------------
(***************************************************************************)
(* Reverse debugging with the simulator: the ring of executed instructions *)
(* (ZSimCpuHistory), the place in it (StepHistory) and the virtual call    *)
(* stack that CpuHistory takes back and forward with it, next to the real  *)
(* stack of the program, which `words' holds and the debugger must guess.  *)
(*                                                                         *)
(* SP is counted in words: it is the depth Len(words).  A line of the      *)
(* history carries the words for the properties; the code sees of them the *)
(* depth (SP) and the youngest (the contents of SP).                       *)
(***************************************************************************)
EXTENDS Integers, Sequences, SequencesExt, FiniteSetsExt, TLC

CONSTANTS
  MaxRun,     \* bound: instructions executed, changes of the PC, reloads
  MaxDepth,   \* bound: words on the stack
  MaxSize     \* reverseDebugInstructionCount

ASSUME HistoryAssumption == {MaxRun, MaxDepth, MaxSize} \subseteq Nat \ {0}

VARIABLES
  code,           \* the instructions in memory, as far as they are known
  pc, words,      \* the registers and the stack in the emulator
  ran,            \* instructions executed, changes of the PC, reloads
  previouslyStoredPC,
  history, historyWriteIndex,    \* the ring
  historyIndex,   \* -1: not in step back mode
  revDbgHistory,
  cache,          \* the cache of Z80Registers: the line that is shown
  frames,         \* the list of Remote, which is also the virtual call stack
  goal,           \* what continue, stepOver, stepOut or reverseContinue look for
  trace,          \* all lines stored since the last init (history variable)
  disciplined,    \* POP took data and RET took addresses, no LD SP (history variable)
  stale,          \* the list files were reloaded in step back mode (history variable)
  quiet           \* no interrupt comes between a RET and the next instruction

vars == <<code, pc, words, ran, previouslyStoredPC, history, historyWriteIndex,
          historyIndex, revDbgHistory, cache, frames, goal, trace,
          disciplined, stale, quiet>>

program == <<code, pc, words, ran, previouslyStoredPC, disciplined, quiet>>

-----------------------------------------------------------------------------
(* Names of frames: the address that was called, or one of these.          *)
Main      == -1
Unknown   == -2
Interrupt == -3
Undefined == -4     \* a value on the stack that nobody knows

RstAddress == 8
IntAddress == 56
Subs       == {20, 30}

Op(k, t)  == [kind |-> k, target |-> t]
Nop       == Op("nop", 0)
Ops == {Op(k, 0) : k \in {"nop", "loop", "push", "pop", "ret"}}
         \union {Op("call", 30), Op("rst", RstAddress), Op("ldsp", 2)}

Word(k, v, n) == [kind |-> k, value |-> v, name |-> n]
Line(p, op, taken, v, w) ==    \* v: the register that a PUSH would push
  [pc |-> p, op |-> op, taken |-> taken, pushed |-> v, words |-> w]
Depth(line) == Len(line.words)
Frame(name, addr, stack) == [name |-> name, addr |-> addr, stack |-> stack]

isCallAndExecuted(line) == line.op.kind = "call" /\ line.taken
isRetAndExecuted(line)  == line.op.kind = "ret" /\ line.taken

Top(fs)            == fs[Len(fs)]
SetAddr(fs, a)     == [fs EXCEPT ![Len(fs)].addr = a]
PushValue(fs, v)   == [fs EXCEPT ![Len(fs)].stack = Append(@, v)]
AtLeastMain(fs)    == IF fs = <<>> THEN <<Frame(Main, 0, <<>>)>> ELSE fs
Times(n)           == [i \in 1..n |-> i]

(* Memory at the address of a return: the CALL that pushed it, if any.     *)
CalledFrom(c, v) ==
  IF v - 3 \in DOMAIN c /\ c[v - 3].kind = "call" THEN c[v - 3].target ELSE Unknown

(* getCallStackFromEmulator: every word after a CALL opens a frame.        *)
EmulatorFrames(c, p, w) ==
  LET Add(fs, word) ==
        LET name == CalledFrom(c, word.value)
        IN  IF name = Unknown THEN PushValue(fs, word.value)
            ELSE Append(SetAddr(fs, word.value - 3), Frame(name, 0, <<>>))
  IN  SetAddr(FoldLeft(Add, <<Frame(Main, 0, <<>>)>>, w), p)

Goal(what, pcs, d) == [what |-> what, pcs |-> pcs, depth |-> d]
NoGoal == Goal("none", {}, 0)

Present(p, w) == Line(p, Nop, FALSE, 0, w)

-----------------------------------------------------------------------------
(* The virtual call stack.                                                 *)

(* One word less: the data of the last frame first, then the frame itself. *)
DropOne(fs, keep) ==
  IF fs = <<>> THEN fs
  ELSE IF Top(fs).stack # <<>> THEN [fs EXCEPT ![Len(fs)].stack = Front(@)]
  ELSE IF Len(fs) <= keep THEN fs
  ELSE Front(fs)

Drop(fs, n, keep) == FoldLeft(LAMBDA f, i : DropOne(f, keep), fs, Times(n))

PushUndefined(fs, n) ==
  FoldLeft(LAMBDA f, i : PushValue(f, Undefined), fs, Times(n))

(* The SP changes by n words, down to the bottom if n is positive.         *)
Adjust(fs, n, keep) == IF n > 0 THEN Drop(fs, n, keep) ELSE PushUndefined(fs, -n)

(* Backwards over an executed RET: the frame it left comes back.           *)
BackOverRetCaller(fs, cur, prev) ==   \* mutant: named by the caller
  LET interrupted == Depth(prev) # Depth(cur) - 1
      fs1 == IF interrupted THEN Front(fs) ELSE fs
  IN  Append(fs1, Frame(Last(cur.words).value - 3, cur.pc, <<>>))

BackOverRet(fs, cur, prev) ==
  LET interrupted == Depth(prev) # Depth(cur) - 1
      fs1 == IF interrupted THEN Front(fs) ELSE fs
  IN  Append(fs1, Frame(CalledFrom(code, Last(cur.words).value), cur.pc, <<>>))

StackBackPlainPop(fs, cur, prev) ==   \* mutant: SP is not corrected for a POP
  LET fs1 == SetAddr(Adjust(AtLeastMain(fs), Depth(prev) - Depth(cur), 1), cur.pc)
  IN  IF isRetAndExecuted(cur) THEN BackOverRet(AtLeastMain(fs), cur, prev)
      ELSE IF cur.op.kind = "pop" THEN PushValue(fs1, Last(cur.words).value)
      ELSE fs1

handleReverseDebugStackBack(fs, cur, prev) ==
  LET fs0   == AtLeastMain(fs)
      isPop == cur.op.kind = "pop"
      count == Depth(prev) - Depth(cur) + (IF isPop THEN 1 ELSE 0)
      fs1   == SetAddr(Adjust(fs0, count, 1), cur.pc)
  IN  IF isRetAndExecuted(cur) THEN BackOverRet(fs0, cur, prev)
      ELSE IF isPop THEN PushValue(fs1, Last(cur.words).value)
      ELSE fs1

(* The depth after an instruction when no interrupt comes.                 *)
expectedDepth(line) ==
  CASE isCallAndExecuted(line) \/ line.op.kind \in {"rst", "push"} -> Depth(line) + 1
    [] isRetAndExecuted(line) \/ line.op.kind = "pop" -> Depth(line) - 1
    [] line.op.kind = "ldsp" -> line.op.target
    [] OTHER -> Depth(line)

handleReverseDebugStackForward(fs, cur, next) ==
  LET fs0      == AtLeastMain(fs)
      expected == expectedDepth(cur)
      fs1 == CASE isCallAndExecuted(cur) \/ cur.op.kind = "rst" ->
                    Append(fs0, Frame(cur.op.target, 0, <<>>))
               [] cur.op.kind = "push" ->
                    [fs0 EXCEPT ![Len(fs0)].stack = <<cur.pushed>> \o @]
               [] OTHER -> Adjust(fs0, Depth(cur) - expected, 0)
      fs2 == IF Depth(next) = expected + 1
             THEN Append(fs1, Frame(Interrupt, 0, <<>>)) ELSE fs1
  IN  SetAddr(AtLeastMain(fs2), next.pc)

-----------------------------------------------------------------------------
(* The ring.                                                               *)

PushHistoryInfoLate(line) ==   \* mutant: the write index wraps one too late
  IF Len(history) >= MaxSize
  THEN LET index == IF historyWriteIndex + 1 > MaxSize THEN 0 ELSE historyWriteIndex + 1
       IN  /\ historyWriteIndex' = index
           /\ history' = [i \in DOMAIN history |-> IF i = index + 1 THEN line ELSE history[i]]
  ELSE /\ history' = Append(history, line)
       /\ historyWriteIndex' = historyWriteIndex + 1

PushHistoryInfo(line) ==
  IF Len(history) >= MaxSize
  THEN LET index == (historyWriteIndex + 1) % MaxSize
       IN  /\ historyWriteIndex' = index
           /\ history' = ReplaceAt(history, index + 1, line)
  ELSE /\ history' = Append(history, line)
       /\ historyWriteIndex' = historyWriteIndex + 1

isInStepBackMode == historyIndex >= 0

(* getPrevRegistersAsync and getNextRegisters: the new historyIndex, or -1 *)
(* at the end of the history.                                              *)
PrevIndexStuck ==   \* mutant: the index does not wrap to the end of the ring
  IF historyIndex < 0 THEN historyWriteIndex
  ELSE historyIndex - 1

PrevIndex ==
  IF historyIndex < 0 THEN historyWriteIndex
  ELSE LET index == (historyIndex - 1) % Len(history)
       IN  IF index = historyWriteIndex THEN -1 ELSE index

NextIndex ==
  IF historyIndex = historyWriteIndex THEN -1
  ELSE (historyIndex + 1) % Len(history)

-----------------------------------------------------------------------------
Init ==
  /\ code = (10 :> Op("call", 20))
  /\ pc = 20
  /\ words = <<Word("call", 13, 20)>>
  /\ ran = 0
  /\ previouslyStoredPC = -1
  /\ history = <<>>
  /\ historyWriteIndex = -1
  /\ historyIndex = -1
  /\ revDbgHistory = <<>>
  /\ cache = Present(pc, words)
  /\ frames = EmulatorFrames(code, pc, words)
  /\ goal = NoGoal
  /\ trace = <<>>
  /\ disciplined = TRUE
  /\ stale = FALSE
  /\ quiet \in BOOLEAN

Resized(w, d) ==
  IF d <= Len(w) THEN SubSeq(w, 1, d)
  ELSE w \o [i \in 1..(d - Len(w)) |-> Word("data", 0, Unknown)]

(* The stack and the address after an instruction.                         *)
Executed(op, taken) ==
  CASE op.kind = "push" -> <<pc + 1, Append(words, Word("data", 100 + ran, Unknown))>>
    [] op.kind = "pop"  -> <<pc + 1, Front(words)>>
    [] op.kind = "call" /\ taken ->
         <<op.target, Append(words, Word("call", pc + 3, op.target))>>
    [] op.kind = "call" -> <<pc + 3, words>>
    [] op.kind = "rst"  -> <<op.target, Append(words, Word("rst", pc + 1, op.target))>>
    [] op.kind = "ret" /\ taken -> <<Last(words).value, Front(words)>>
    [] op.kind = "loop" -> <<IF taken THEN pc ELSE pc + 1, words>>
    [] op.kind = "ldsp" -> <<pc + 3, Resized(words, op.target)>>
    [] OTHER -> <<pc + 1, words>>

Interrupted(p, w) == <<IntAddress, Append(w, Word("int", p, Interrupt))>>

IsDisciplined(op, taken) ==
  CASE op.kind = "pop" -> Last(words).kind = "data"
    [] op.kind = "ret" /\ taken -> Last(words).kind # "data"
    [] OTHER -> op.kind # "ldsp"

(* The program runs for an instruction; the simulator stores the line      *)
(* first, and the registers and the call stack are read when it stops.     *)
Run(op, taken, int) ==
  LET line  == Line(pc, op, taken, 100 + ran, words)
      plain == Executed(op, taken)
      after == IF int THEN Interrupted(plain[1], plain[2]) ELSE plain
  IN  /\ ~isInStepBackMode /\ goal = NoGoal
      /\ ran < MaxRun
      /\ pc \in DOMAIN code => code[pc] = op
      /\ taken \/ op.kind \in {"call", "ret", "loop"}
      /\ op.kind \in {"pop", "ret"} => words # <<>>
      /\ pc = previouslyStoredPC => op.kind = "loop"
      /\ int => /\ \A i \in DOMAIN words : words[i].kind # "int"
                /\ ~(quiet /\ isRetAndExecuted(line))
      /\ Len(after[2]) <= MaxDepth
      /\ ran' = ran + 1
      /\ code' = (pc :> op) @@ code
      /\ pc' = after[1]
      /\ words' = after[2]
      /\ disciplined' = (disciplined /\ IsDisciplined(op, taken))
      /\ previouslyStoredPC' = pc
      /\ IF pc # previouslyStoredPC
         THEN PushHistoryInfo(line) /\ trace' = Append(trace, line)
         ELSE UNCHANGED <<history, historyWriteIndex, trace>>
      /\ revDbgHistory' = <<>>
      /\ cache' = Present(pc', words')
      /\ frames' = EmulatorFrames(code', pc', words')
      /\ stale' = FALSE
      /\ UNCHANGED <<historyIndex, goal, quiet>>

(* stepBack, and an iteration of reverseContinue: it ends at a breakpoint, *)
(* at the end of the history or when it is paused.                         *)
Back ==
  LET prev == PrevIndex
      line == history[prev + 1]
  IN  /\ UNCHANGED <<program, history, historyWriteIndex, trace, stale>>
      /\ IF prev < 0
         THEN UNCHANGED <<historyIndex, revDbgHistory, cache, frames>>
         ELSE /\ historyIndex' = prev
              /\ revDbgHistory' = Append(revDbgHistory, line.pc)
              /\ cache' = line
              /\ frames' = handleReverseDebugStackBack(frames, line, cache)

stepBack ==
  /\ goal = NoGoal
  /\ Back
  /\ UNCHANGED goal

reverseContinue ==
  /\ goal \in {NoGoal, Goal("reverse", {}, 0)}
  /\ Back
  /\ goal' \in {NoGoal} \union {g \in {Goal("reverse", {}, 0)} : PrevIndex >= 0}

NextLine == history[NextIndex + 1]   \* only where NextIndex >= 0

(* An iteration of continue, stepOver, stepInto or stepOut, which look for *)
(* g, and have found it if done (a condition on the cache and NextLine).   *)
(* At the start of the history the emulator is asked for its state.        *)
Forward(g, done) ==
  LET next == NextIndex
  IN  /\ isInStepBackMode
      /\ goal \in {NoGoal, g}
      /\ historyIndex' = next
      /\ revDbgHistory' = Front(revDbgHistory)
      /\ UNCHANGED <<program, history, historyWriteIndex, trace, stale>>
      /\ IF next < 0
         THEN /\ cache' = Present(pc, words)
              /\ frames' = EmulatorFrames(code, pc, words)
              /\ goal' = NoGoal
         ELSE /\ cache' = NextLine
              /\ frames' = handleReverseDebugStackForward(frames, cache, NextLine)
              /\ goal' \in {NoGoal} \union {h \in {g} : ~done}

continue == Forward(Goal("continue", {}, 0), FALSE)

stepInto == goal = NoGoal /\ Forward(NoGoal, TRUE)

(* The addresses at which stepOver ends; none if it is a single step.      *)
AfterCall(line) ==
  CASE line.op.kind = "call" -> {line.pc + 3}
    [] line.op.kind = "rst"  -> {line.pc + 1, line.pc + 2}
    [] OTHER -> {}

stepOver ==
  LET g == IF goal = NoGoal THEN Goal("over", AfterCall(cache), 0) ELSE goal
  IN  /\ g.what = "over"
      /\ Forward(g, g.pcs = {} \/ NextLine.pc \in g.pcs)

stepOut ==
  LET g == IF goal = NoGoal THEN Goal("out", {}, Depth(cache)) ELSE goal
  IN  /\ g.what = "out"
      /\ Forward(g, isRetAndExecuted(cache) /\ Depth(NextLine) < g.depth)

(* setPcToLine: the registers and the call stack are read again.           *)
setPcToLine(a) ==
  /\ goal = NoGoal
  /\ a # pc
  /\ ran < MaxRun
  /\ ran' = ran + 1
  /\ pc' = a
  /\ cache' = Present(a, words)
  /\ frames' = EmulatorFrames(code, a, words)
  /\ historyIndex' = -1
  /\ revDbgHistory' = <<>>
  /\ stale' = FALSE
  /\ UNCHANGED <<code, words, previouslyStoredPC, history, historyWriteIndex, goal,
                 trace, disciplined, quiet>>

(* reloadLabels, by a command or because a list file has changed: the      *)
(* history starts anew, and nothing else is read again.                    *)
reloadLabels ==
  /\ goal = NoGoal
  /\ history # <<>>
  /\ history' = <<>>
  /\ historyWriteIndex' = -1
  /\ historyIndex' = -1
  /\ revDbgHistory' = <<>>
  /\ trace' = <<>>
  /\ stale' = (stale \/ isInStepBackMode)
  /\ ran < MaxRun
  /\ ran' = ran + 1
  /\ UNCHANGED <<code, pc, words, previouslyStoredPC, disciplined, quiet, cache, frames,
                 goal>>

Next ==
  \/ \E op \in Ops, taken, int \in BOOLEAN : Run(op, taken, int)
  \/ stepBack
  \/ reverseContinue
  \/ continue
  \/ stepInto
  \/ stepOver
  \/ stepOut
  \/ \E a \in Subs : setPcToLine(a)
  \/ reloadLabels

Spec == Init /\ [][Next]_vars

-----------------------------------------------------------------------------
TypeOK ==
  /\ Len(history) <= MaxSize
  /\ historyWriteIndex \in -1..(Len(history) - 1)
  /\ historyIndex \in -1..(Len(history) - 1)
  /\ ran \in 0..MaxRun
  /\ Len(words) <= MaxDepth
  /\ goal.what \in {"none", "reverse", "continue", "over", "out"}
  /\ {disciplined, stale, quiet} \subseteq BOOLEAN

(* What the call stack shows for the words on the stack, oldest first:     *)
(* the data of a frame and the frame above it.                             *)
Shown ==
  LET Data(f) == [i \in DOMAIN f.stack |-> [data |-> TRUE, value |-> f.stack[i]]]
      Add(r, f) == r \o <<[data |-> FALSE, value |-> f.name]>> \o Data(f)
  IN  Tail(FoldLeft(Add, <<>>, frames))

(* The call stack shown has as many entries as the program has words on    *)
(* its stack, whatever it does with them, and its top is at the PC.        *)
DepthAgrees ==
  quiet => /\ Len(Shown) = Depth(cache)
           /\ Top(frames).addr = cache.pc

(* The same in every case, for a program that uses its stack properly:    *)
(* "We came from an interrupt. Remove interrupt address from call stack."  *)
InterruptRemoved == disciplined => Len(Shown) = Depth(cache)

(* With a program that pops what it pushed and returns to where it was     *)
(* called from, each word is shown as what it is: a return address as the  *)
(* subroutine that was called, and data as data.                           *)
WordsAgree ==
  quiet /\ disciplined =>
    \A i \in DOMAIN cache.words :
      LET w == cache.words[i]
          s == Shown[i]
      IN  /\ w.kind = "call" => ~s.data /\ s.value = w.name
          /\ w.kind = "data" => s.data

(* Each word on the stack has its entry in the call stack that is shown,   *)
(* and is shown as what it is, also while stepping back and forth.         *)
StackIsShown == TypeOK /\ DepthAgrees /\ WordsAgree

(* k steps back the k-th youngest line is shown, as far back as the ring   *)
(* reaches; out of step back mode the registers and the call stack are the *)
(* emulator's.                                                             *)
HistoryInOrder ==
  LET k == Len(revDbgHistory)
      kept == Min({MaxSize, Len(trace)})
      Youngest(i) == trace[Len(trace) - i + 1]
  IN  /\ isInStepBackMode <=> k > 0
      /\ \A i \in 1..k : revDbgHistory[i] = Youngest(i).pc
      /\ PrevIndex < 0 <=> k = kept
      /\ k > 0 => cache = Youngest(k)
      /\ k = 0 /\ ~stale => /\ cache = Present(pc, words)
                            /\ frames = EmulatorFrames(code, pc, words)
=============================================================================
