--------------------------- MODULE MCLighthouseTx ---------------------------
(* Bounds for model checking LighthouseTx: a polled port, where main is      *)
(* alone, takes longer behaviours than one with the callback.                *)
EXTENDS LighthouseTx

MCFrames == [irq \in BOOLEAN |-> IF irq THEN 2 ELSE 5]
\* For a counterexample that needs a third fragment under the callback.
MoreFrames == [irq \in BOOLEAN |-> 3]
MCDirect == [irq \in BOOLEAN |-> IF irq THEN 0 ELSE 1]
=============================================================================
