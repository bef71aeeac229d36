-------------------------- MODULE MCDispatchQueue --------------------------
(***************************************************************************)
(* The instances of DispatchQueue that TLC checks.                         *)
(***************************************************************************)
EXTENDS DispatchQueue

CONSTANTS a, b, c, d, l, f

At(conn, prio, cost) == [conn |-> conn, prio |-> prio, cost |-> cost]

\* Two connections share priority 1, one of them also has priority 2; costs
\* below, between and above the limits.
MCMail == a :> At(1, 1, 4) @@ d :> At(1, 1, 6) @@ b :> At(2, 1, 2) @@ c :> At(2, 2, 9) @@ f :> At(0, 3, 4)
MCResets == {1}
MCFaults == {2}

\* Priority 1 always has something, priority 2 has something that costs as
\* much as there may be tokens; the process sends itself two messages.
MCMailLive == a :> At(1, 1, 4) @@ d :> At(1, 1, 6) @@ c :> At(2, 2, 9) @@ l :> At(0, 3, 4)
MCFast == {f}

MCStreams == {a}
MCStreamsLive == {a, d}
MCNone == {}
=============================================================================
