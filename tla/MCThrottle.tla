----------------------------- MODULE MCThrottle -----------------------------
(***************************************************************************)
(* The instance of Throttle that TLC checks.  Amounts below, at and above  *)
(* the limits make every case of _should_wait() happen.                    *)
(***************************************************************************)
EXTENDS Throttle

MCAmounts == {1, 3}
MCMaxes == {0, 2}
MCInitCounts == {0, 3}
=============================================================================
