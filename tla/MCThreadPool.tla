---------------------------- MODULE MCThreadPool ----------------------------
(***************************************************************************)
(* The instance of ThreadPool that TLC checks: two workers over two        *)
(* queues, two controllers whose calls overlap, an uninitialised _draining *)
(* that is clean or not.                                                   *)
(***************************************************************************)
EXTENDS ThreadPool

MCInitDraining == {0, 1}
=============================================================================
