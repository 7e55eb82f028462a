--------------------------- MODULE MCLighthouseRx ---------------------------
(* Messages for model checking LighthouseRx.  Peer a restarts and uses     *)
(* message id 1 again; it also sends an unfragmented payload and a         *)
(* malformed fragment.                                                     *)
EXTENDS LighthouseRx

Msg(s, e, i, t) == [src |-> s, era |-> e, id |-> i, total |-> t]

MCMsgs == {Msg("a", 0, 1, 2), Msg("a", 1, 1, 2), Msg("a", 0, 2, 1), Msg("a", 1, 2, 0)}

\* Peers a and b use the same id; a restarts and uses it once more.
PeerMsgs == {Msg("a", 0, 1, 2), Msg("a", 1, 1, 2), Msg("b", 0, 1, 2)}
=============================================================================
