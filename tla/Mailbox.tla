------------------------------ MODULE Mailbox ------------------------------
(***************************************************************************)
(* What a slot for one frame promises: a frame that is put in replaces the *)
(* one that was there, and what goes on the wire is the newest frame, at   *)
(* most once.  Frames are numbered in the order in which they are put in.  *)
(***************************************************************************)
EXTENDS Naturals, Sequences

VARIABLES
  newest,   \* number of the frame put in last
  full,     \* it is still there
  wire      \* the frames that went out

Init == newest = 0 /\ full = FALSE /\ wire = << >>

Put == newest' = newest + 1 /\ full' = TRUE /\ UNCHANGED wire
Transmit == full /\ wire' = Append(wire, newest) /\ full' = FALSE /\ UNCHANGED newest
Discard == full /\ full' = FALSE /\ UNCHANGED <<newest, wire>>

Next == Put \/ Transmit \/ Discard

Spec == Init /\ [][Next]_<<newest, full, wire>>
=============================================================================
