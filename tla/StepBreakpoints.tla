--------------------------- MODULE StepBreakpoints ---------------------------
(***************************************************************************)
(* How a step is made of breakpoints (calcStepBp): one or two addresses    *)
(* where the program has to stop behind the current instruction; and how   *)
(* the call stack is made of the words on the stack.                       *)
(***************************************************************************)
EXTENDS Opcodes, Sequences, SequencesExt

Mask(a)  == a % \h10000
NoAddr   == -1

\* st: the PC, the instruction there (prefix, code, operand bytes), what JP (HL) and RET would
\* go to, and how many bytes behind the instruction are marked to be skipped.
State(pc, prefix, code, low, high, hl, index, ret, skip) ==
  [pc |-> pc, prefix |-> prefix, code |-> code, low |-> low, high |-> high,
   hl |-> hl, index |-> index, ret |-> ret, skip |-> skip]

Flags(st)  == Decode(st.prefix, st.code).flags
Length(st) == Decode(st.prefix, st.code).length

\* the value of the operand of a jump or a call
Target(st) ==
  CASE st.prefix # "none"                       -> NoAddr
    [] st.code \in Step(\hC7, 8, \hFF)          -> RstTarget(st.code)
    [] st.code \in {\h10, \h18, \h20, \h28, \h30, \h38} -> RelativeTarget(st.pc, st.low)
    [] OTHER                                    -> WordAt(st.low, st.high)

BlockRepeat == {\hB0, \hB8, \hB1, \hB9, \hB2, \hBA, \hB3, \hBB}

Bps(a, b) == <<Mask(a), IF b = NoAddr THEN NoAddr ELSE Mask(b)>>

\* mutant: a conditional RET has one breakpoint only
calcStepBpOneRet(st, stepOver) ==
  IF RET \in Flags(st) THEN Bps(st.ret, NoAddr)
  ELSE IF BRANCH \in Flags(st) THEN Bps(st.pc + Length(st), Target(st)) ELSE Bps(st.pc + Length(st), NoAddr)

\* RST 8 is special: esxdos returns behind the byte that follows; the breakpoint of a call is
\* doubled by the next address
calcStepBp(st, stepOver) ==
  LET next  == Mask(st.pc + Length(st) + st.skip)
      flags == Flags(st)
      first == IF st.skip = 0 THEN st.pc + Length(st) ELSE next
  IN CASE st.prefix = "none" /\ st.code = \hCF ->
            IF ~stepOver THEN Bps(st.pc + 2, 8)
            ELSE IF st.skip = 0 THEN Bps(st.pc + 1, st.pc + 2) ELSE Bps(first, NoAddr)
       [] RET \in flags            -> IF COND \in flags THEN Bps(first, st.ret) ELSE Bps(st.ret, NoAddr)
       [] stepOver /\ CALL \in flags -> Bps(first, first + 1)
       [] BRANCH \in flags         -> IF COND \in flags THEN Bps(first, Target(st)) ELSE Bps(Target(st), NoAddr)
       [] STOP \in flags           ->
            CASE st.prefix = "none" /\ st.code = \hE9        -> Bps(st.hl, NoAddr)
              [] st.prefix \in {"DD", "FD"} /\ st.code = \hE9 -> Bps(st.index, NoAddr)
              [] OTHER                                       -> Bps(first, NoAddr)
       [] OTHER ->
            IF ~stepOver /\ \/ st.prefix = "ED" /\ st.code \in BlockRepeat
                            \/ st.prefix = "none" /\ st.code = \h76
            THEN Bps(first, st.pc) ELSE Bps(first, NoAddr)

\* isRet: whether a step out has come to the end of the subroutine
isRet(prefix, code) ==
  \/ prefix = "none" /\ (code = \hC9 \/ code \in Step(\hC0, 8, \hF8))
  \/ prefix = "ED" /\ code \in {\h4D, \h45}

------------------------------------------------------------------------------
(* The call stack                                                           *)

\* The words on the stack, oldest first.  A word is the return address of a call when the three
\* bytes before it are CALL nn or CALL cc,nn; IsReturn are the words for which that is so.
Frame(addr, sp) == [addr |-> addr, start |-> sp, stack |-> <<>>]

\* mutant: the frame begins at the return address
CallStackShifted(words, IsReturn, sp, pc) ==
  LET top   == sp + 2 * Len(words)
      made  == FoldLeft(LAMBDA acc, i :
                 IF words[i] \in IsReturn THEN Append(acc, Frame(0, top - 2 * i))
                 ELSE [acc EXCEPT ![Len(acc)].stack = Append(@, words[i])],
                 <<Frame(0, top - 2)>>, [i \in DOMAIN words |-> i])
  IN [made EXCEPT ![Len(made)].addr = pc]

getCallStackFromEmulator(words, IsReturn, sp, pc) ==
  LET top  == sp + 2 * Len(words)
      made == FoldLeft(LAMBDA acc, i :
                IF words[i] \in IsReturn
                THEN Append([acc EXCEPT ![Len(acc)].addr = words[i] - 3], Frame(0, top - 2 - 2 * i))
                ELSE [acc EXCEPT ![Len(acc)].stack = Append(@, words[i])],
                <<Frame(0, top - 2)>>, [i \in DOMAIN words |-> i])
  IN [made EXCEPT ![Len(made)].addr = pc]

\* getStackFromEmulator: from the top of the stack down, at most MaxItems words
StackWords(memory, sp, tos, MaxItems) ==
  LET depth == IF tos - sp > 2 * MaxItems THEN 2 * MaxItems ELSE tos - sp
  IN [i \in 1..(depth \div 2) |-> memory[sp + depth - 2 * i]]

------------------------------------------------------------------------------
(* Watchpoints                                                              *)

\* getWatchpointsByAddress: a watchpoint with a bank counts only while the bank is paged in;
\* that a watchpoint may wrap around at 64k is left out
getWatchpointsByAddress(wps, address, Slots) ==
  {wp \in wps : /\ Mask(address) >= wp.addr /\ Mask(address) < wp.addr + wp.size
                /\ wp.bank # NoAddr => wp.bank = Slots[wp.addr]}

------------------------------------------------------------------------------
(* Where the Z80 goes                                                       *)

\* the addresses at which the program may be after the instruction
NextPCs(st) ==
  LET c     == st.code
      after == Mask(st.pc + Length(st))
      plain == st.prefix = "none"
  IN CASE plain /\ c \in {\hC3, \hCD}                      -> {WordAt(st.low, st.high)}
       [] plain /\ X(c) = 3 /\ Z(c) \in {2, 4} /\ Y(c) \in 0..7 -> {after, WordAt(st.low, st.high)}
       [] plain /\ c = \h18                                -> {Mask(after + Signed(st.low))}
       [] plain /\ X(c) = 0 /\ Z(c) = 0 /\ Y(c) \in {2, 4, 5, 6, 7} -> {after, Mask(after + Signed(st.low))}
       [] plain /\ X(c) = 3 /\ Z(c) = 7                    -> {8 * Y(c)}
       [] plain /\ c = \hC9                                -> {st.ret}
       [] plain /\ X(c) = 3 /\ Z(c) = 0                    -> {after, st.ret}
       [] c = \hE9 /\ plain                                -> {st.hl}
       [] c = \hE9 /\ st.prefix \in {"DD", "FD"}           -> {st.index}
       [] st.prefix = "ED" /\ c \in {\h45, \h4D}           -> {st.ret}
       [] st.prefix = "ED" /\ X(c) = 2 /\ Y(c) >= 6 /\ Z(c) < 4 -> {after, st.pc}
       [] plain /\ c = \h76                                -> {after, st.pc}
       [] OTHER                                            -> {after}

\* the codes that the Z80 itself knows
Known(st) == \/ st.prefix = "none" /\ st.code \notin {\hCB, \hDD, \hED, \hFD}
             \/ st.prefix = "ED" /\ IsZ80Extended(st.code)
             \/ st.prefix \in {"DD", "FD"} /\ IsIndexed(st.code)

\* A step into stops behind the instruction wherever it goes; a step over too, unless the
\* instruction calls or repeats: then it stops where the program comes back to.
StepStops(st) ==
  Known(st) =>
    LET into == Range(calcStepBp(st, FALSE))
        over == Range(calcStepBp(st, TRUE))
        back == Mask(st.pc + Length(st) + st.skip)
    IN /\ st.skip = 0 => NextPCs(st) \subseteq into
       /\ CALL \in Flags(st) => back \in over
       /\ CALL \notin Flags(st) /\ st.skip = 0 => NextPCs(st) \ {st.pc} \subseteq over

\* Return addresses and what else is pushed make up the stack; a frame starts where its return
\* address lies; the last frame is the running one, and every other stands at its call.
FramesTileStack(words, IsReturn, sp, pc) ==
  LET frames == getCallStackFromEmulator(words, IsReturn, sp, pc)
      top    == sp + 2 * Len(words)
      At(a)  == LET i == (top - a) \div 2 IN IF i \in DOMAIN words THEN words[i] ELSE 0
  IN /\ Len(frames) - 1 + FoldLeft(LAMBDA n, f : n + Len(f.stack), 0, frames) = Len(words)
     /\ frames[Len(frames)].addr = pc
     /\ \A i \in 1..Len(frames) :
          \A k \in DOMAIN frames[i].stack : At(frames[i].start - 2 * (k - 1)) = frames[i].stack[k]
     /\ \A i \in 2..Len(frames) : frames[i - 1].addr = At(frames[i].start + 2) - 3
==============================================================================
