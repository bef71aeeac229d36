------------------------------- MODULE Clock -------------------------------
(***************************************************************************)
(* utime_t (common/time_utils.h): a point in time or a duration as two     *)
(* unsigned 32 bit words, seconds and nanoseconds, put through the         *)
(* operations of the class one after the other.                            *)
(*                                                                         *)
(* A double is taken as the whole number of nanoseconds it stands for: its *)
(* rounding is left out.                                                   *)
(***************************************************************************)
EXTENDS Integers

CONSTANTS
  Nano,        \* nanoseconds in a second, 10^9
  Milli,       \* milliseconds in a second, 10^3
  Word,        \* 2^32, a little more than four times Nano
  Secs,        \* the seconds of the operands
  Nsecs,       \* the nanoseconds of the operands
  MaxCalls     \* bound: operations one after the other

ClockAssumption ==
  /\ Nano \in Nat \ {0} /\ Milli \in Nat \ {0} /\ Nano % Milli = 0
  /\ Word \in Nat /\ 4 * Nano < Word
  /\ Secs \subseteq 0 .. Word - 1 /\ Nsecs \subseteq 0 .. Nano - 1
  /\ MaxCalls \in Nat

VARIABLES
  t,           \* the object
  exact,       \* what it stands for, in nanoseconds, modulo the width of its seconds
  calls        \* operations so far

vars == <<t, exact, calls>>

utime_t == [sec : 0 .. Word - 1, nsec : 0 .. Word - 1]
Operands == [sec : Secs, nsec : Nsecs]
Durations == {Nano * s + n : s \in Secs, n \in Nsecs}

\* exactly one second's worth of nanoseconds stays as it is
normalize(u) ==
  IF Nano < u.nsec THEN [sec |-> (u.sec + (u.nsec \div Nano)) % Word, nsec |-> u.nsec % Nano] ELSE u

\* utime_t(s, n)
utime(s, n) == normalize([sec |-> s % Word, nsec |-> n % Word])

to_nsec(u) == u.nsec + u.sec * Nano
to_msec(u) == u.nsec \div (Nano \div Milli) + u.sec * Milli
\* copy_to_timeval() and set_from_timeval(), a microsecond being k nanoseconds
of_timeval(u, k) == [sec |-> u.sec, nsec |-> (u.nsec \div k) * k]
set_from_double(d) == [sec |-> (d \div Nano) % Word, nsec |-> d % Nano]

Plus(l, r) == utime(l.sec + r.sec + ((l.nsec + r.nsec) \div Nano), (l.nsec + r.nsec) % Nano)

\* (mutant) The second that the nanoseconds make up is not carried.
PlusAssignNoCarry(l, r) ==
  [sec |-> (l.sec + r.sec) % Word, nsec |-> (l.nsec + r.nsec) % Nano]

PlusAssign(l, r) ==
  [sec |-> (l.sec + r.sec + ((l.nsec + r.nsec) \div Nano)) % Word, nsec |-> (l.nsec + r.nsec) % Nano]
PlusDouble(l, f) ==
  normalize([sec |-> (l.sec + (f \div Nano)) % Word, nsec |-> (l.nsec + (f % Nano)) % Word])

Borrow(l, r) == IF l.nsec < r.nsec THEN 1 ELSE 0
Minus(l, r) == utime(l.sec - r.sec - Borrow(l, r), l.nsec - r.nsec + Nano * Borrow(l, r))
MinusAssign(l, r) ==
  IF l.nsec >= r.nsec
  THEN [sec |-> (l.sec - r.sec) % Word, nsec |-> l.nsec - r.nsec]
  ELSE [sec |-> (l.sec - r.sec - 1) % Word, nsec |-> l.nsec + Nano - r.nsec]
\* a second is borrowed whenever the double has a fraction
MinusDouble(l, f) ==
  LET s == l.sec - (f \div Nano)
  IN  normalize(IF f % Nano = 0 THEN [l EXCEPT !.sec = s % Word]
                ELSE [sec |-> (s - 1) % Word, nsec |-> (Nano + l.nsec - (f % Nano)) % Word])

Greater(l, r) == l.sec > r.sec \/ (l.sec = r.sec /\ l.nsec > r.nsec)
Less(l, r) == l.sec < r.sec \/ (l.sec = r.sec /\ l.nsec < r.nsec)
Equal(l, r) == l.sec = r.sec /\ l.nsec = r.nsec

(***************************************************************************)
(* The specification.                                                      *)
(***************************************************************************)
Init == t = [sec |-> 0, nsec |-> 0] /\ exact = 0 /\ calls = 0

Becomes(u, n) ==
  /\ calls < MaxCalls
  /\ t' = u /\ exact' = n % (Word * Nano) /\ calls' = calls + 1

Construct ==
  \E o \in Operands : \E n \in {o.nsec, Nano + o.nsec} : Becomes(utime(o.sec, n), Nano * o.sec + n)
FromDouble == \E d \in Durations : Becomes(set_from_double(d), d)
Add == \E o \in Operands : Becomes(Plus(t, o), exact + to_nsec(o))
AddTo == \E o \in Operands : Becomes(PlusAssign(t, o), exact + to_nsec(o))
AddDouble == \E d \in Durations : Becomes(PlusDouble(t, d), exact + d)
Subtract == \E o \in Operands : Becomes(Minus(t, o), exact - to_nsec(o))
SubtractFrom == \E o \in Operands : Becomes(MinusAssign(t, o), exact - to_nsec(o))
SubtractDouble == \E d \in Durations : Becomes(MinusDouble(t, d), exact - d)
\* the difference of a time and itself, and what is left of a deadline
Elapsed == \E o \in Operands : Becomes(Minus(o, t), to_nsec(o) - exact)

Next ==
  \/ Construct \/ FromDouble \/ Add \/ AddTo \/ AddDouble
  \/ Subtract \/ SubtractFrom \/ SubtractDouble \/ Elapsed

Spec == Init /\ [][Next]_vars

(***************************************************************************)
(* Properties.                                                             *)
(***************************************************************************)

\* However it was computed, an object stands for the time the operations make,
\* although normalize() leaves a whole second among the nanoseconds and the
\* operators carry and borrow each in its own way; and times compare the way
\* they stand for, as long as no such second is left.
ClockExact ==
  /\ t \in utime_t /\ t.nsec <= Nano
  /\ to_nsec(t) % (Word * Nano) = exact
  /\ to_msec(t) = to_nsec(t) \div (Nano \div Milli)
  /\ to_nsec(of_timeval(t, 10)) \in to_nsec(t) - 9 .. to_nsec(t)
  /\ \A o \in Operands :
       /\ Plus(t, o) = PlusAssign(t, o)
       /\ t.nsec < Nano =>
            /\ Greater(t, o) <=> to_nsec(t) > to_nsec(o)
            /\ Less(t, o) <=> to_nsec(t) < to_nsec(o)
            /\ Equal(t, o) <=> to_nsec(t) = to_nsec(o)
            /\ Minus(Plus(t, o), o) = t
=============================================================================
