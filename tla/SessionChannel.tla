--------------------------- MODULE SessionChannel ---------------------------
(***************************************************************************)
(* What a session promises to one direction of its traffic, whatever the   *)
(* network does: messages come out in the order they were handed over and  *)
(* none is left out, except that a reset of the session may lose or hold   *)
(* up messages that were handed over before it.  A reset is an event the   *)
(* application is told of or asked for itself.                             *)
(* Repetitions of a message that has come out already are not seen here.   *)
(***************************************************************************)
EXTENDS Naturals

CONSTANT MaxSent  \* bound on the messages handed over

VARIABLES
  sent,  \* how many messages were handed over: they are 1..sent
  out,   \* the messages that came out
  mark   \* the messages 1..mark were handed over before the last reset

vars == <<sent, out, mark>>

Init == sent = 0 /\ out = {} /\ mark = 0

Send == sent < MaxSent /\ sent' = sent + 1 /\ UNCHANGED <<out, mark>>

\* A message of the current session comes out after all earlier ones of it
\* and before all later ones.
Deliver(m) ==
    /\ m \notin out
    /\ m > mark => /\ mark + 1 .. m - 1 \subseteq out
                   /\ \A n \in out : n < m
    /\ out' = out \cup {m}
    /\ UNCHANGED <<sent, mark>>

Reset == mark' = sent /\ UNCHANGED <<sent, out>>

Next == Send \/ Reset \/ \E m \in 1..sent : Deliver(m)

\* Every message comes out or is lost to a reset.
Arrives == \A m \in 1..MaxSent : (m <= sent) ~> (m \in out \/ m <= mark)

Spec == Init /\ [][Next]_vars /\ Arrives
=============================================================================
