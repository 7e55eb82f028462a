---------------------------- MODULE FragmentFifo ----------------------------
(***************************************************************************)
(* What a transmit queue promises: fragments go on the air in the order in *)
(* which they were accepted, each at most once; the oldest may be given up *)
(* but never silently reordered or repeated.                               *)
(***************************************************************************)
EXTENDS Sequences

CONSTANT Frame

VARIABLES
  pending,   \* accepted, not yet on the air
  air        \* everything put on the air so far

Init == pending = << >> /\ air = << >>

Accept == \E f \in Frame : pending' = Append(pending, f) /\ UNCHANGED air

Transmit ==
  /\ pending # << >>
  /\ pending' = Tail(pending)
  /\ air' = Append(air, Head(pending))

GiveUp ==
  /\ pending # << >>
  /\ pending' = Tail(pending)
  /\ UNCHANGED air

Next == Accept \/ Transmit \/ GiveUp

Spec == Init /\ [][Next]_<<pending, air>>
=============================================================================
