----------------------------- MODULE DzrpService -----------------------------
(***************************************************************************)
(* What the command queue promises its callers (the sendDzrpCmd methods    *)
(* that the rest of the debugger awaits): a remote procedure call that is  *)
(* executed at most once and in the order of the calls, and a promise that *)
(* is settled at most once, with the answer to the caller's own command.   *)
(* The one exception is the sequence number's width: an answer that comes  *)
(* SeqMax calls late is taken for the answer to the wrong command.         *)
(***************************************************************************)
EXTENDS Integers, Sequences

CONSTANTS MaxCmds, SeqMax

VARIABLES submitted, executed, outcome

Cmds == 1..MaxCmds

Pending     == [kind |-> "pending",  of |-> 0]
Rejected    == [kind |-> "rejected", of |-> 0]
Resolved(r) == [kind |-> "resolved", of |-> r]
Outcomes    == {Pending, Rejected} \cup {Resolved(r) : r \in Cmds}

Init ==
  /\ submitted = 0
  /\ executed = <<>>
  /\ outcome = [c \in Cmds |-> Pending]

Call ==
  /\ submitted < MaxCmds
  /\ submitted' = submitted + 1
  /\ UNCHANGED <<executed, outcome>>

Execute ==
  /\ \E c \in 1..submitted :
       /\ \A i \in 1..Len(executed) : executed[i] < c
       /\ executed' = Append(executed, c)
  /\ UNCHANGED <<submitted, outcome>>

(* The answers c may get: its own, or one that is a round late.            *)
Answer(c) ==
  {Resolved(executed[i]) :
     i \in {j \in 1..Len(executed) : executed[j] = c \/ c - executed[j] >= SeqMax}}

(* Promises of earlier calls are settled, each once and for all.           *)
Return ==
  /\ outcome' \in [Cmds -> Outcomes]
  /\ \A c \in Cmds :
       outcome'[c] # outcome[c] =>
         /\ c <= submitted
         /\ outcome[c] = Pending
         /\ outcome'[c] \in {Rejected} \cup Answer(c)
  /\ UNCHANGED <<submitted, executed>>

Next == Call \/ Execute \/ Return

Spec == Init /\ [][Next]_<<submitted, executed, outcome>>
=============================================================================
