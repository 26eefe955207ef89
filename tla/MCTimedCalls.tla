---------------------------- MODULE MCTimedCalls ----------------------------
(* Small instances of TimedCalls for TLC. *)
EXTENDS TimedCalls

MCDelay == {-1, 1, 3}
=============================================================================
