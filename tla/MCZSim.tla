------------------------------- MODULE MCZSim -------------------------------
(* Three addresses: ROM, RAM, and RAM in which two banks can be switched. *)
EXTENDS ZSim

MCSlotBanks    == (0 :> {0}) @@ (1 :> {1}) @@ (2 :> {1, 2})
MCInitialSlots == (0 :> 0) @@ (1 :> 1) @@ (2 :> 2)

Acc(kind, a) == [kind |-> kind, addr |-> a, value |-> 1]
Op(acc, out, irq) == [acc |-> acc, out |-> out, irq |-> irq]
MCOps ==
  {Op(<<>>, <<>>, FALSE), Op(<<>>, <<>>, TRUE),
   Op(<<Acc("r", 0), Acc("w", 2)>>, <<>>, FALSE),
   Op(<<>>, <<2, 1>>, FALSE), Op(<<>>, <<2, 0>>, FALSE)}

Wp(a, size, r, w) == [addr |-> a, size |-> size, r |-> r, w |-> w]
MCWps == {Wp(2, 2, 1, 0), Wp(2, 1, 1, 1)}
MCBps == {[addr |-> 2, bank |-> 1, kind |-> "break"]}
==============================================================================
