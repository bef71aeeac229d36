----------------------------- MODULE MCLibrary -----------------------------
(***************************************************************************)
(* The modules that share no state with the sessions and the queues, each  *)
(* on an instance of its own: TLC takes up one of them (part) and explores *)
(* it alone, the others staying where they begin.                          *)
(***************************************************************************)
EXTENDS Integers, Sequences, TLC

CONSTANTS
  Buffers, NumRaws, Strings, MaxLen, MaxCalls, Bases, Page, AllocUnit, RawHeader,
  Script, HeaderLen, AckLen, FooterLen, IovMax, Prefetch, MaxBytes, MaxMessages, NumStreams, Servers,
  Chars, MaxText, MaxNumeral, Bits, UnitBits,
  Nano, Milli, Word, Secs, Nsecs,
  Sixty, Years, Offset, NsecDigits, UsecDigits, TimesOfDay, Fractions,
  Names, Keys, Values, Spellings,
  Fds, MaxErrors, MaxBinds

VARIABLES
  part,
  raw, bl, bufferCalls, bufferCall, out,
  stream, next, iov, group, net, broken, server, state, fd, recv, rd, sent, held, alive, log,
  text,
  t, exact, clockCalls,
  date, day,
  sections, cur, acc, rest, said,
  fds, listen, pipeRd, pipeWr, done, did_bind, woken, loop, pfd, errors, messengerCall, stop, binds, hit

Buffer == INSTANCE Buffer WITH calls <- bufferCalls, call <- bufferCall
Wire == INSTANCE Wire
Text == INSTANCE Text
Clock == INSTANCE Clock WITH calls <- clockCalls
Calendar == INSTANCE Calendar WITH Nsecs <- Fractions
Config == INSTANCE Config
Accepter == INSTANCE Accepter WITH rd <- pipeRd, wr <- pipeWr, call <- messengerCall

ASSUME LibraryAssumption ==
  /\ Buffer!BufferAssumption /\ Wire!WireAssumption
  /\ Text!TextAssumption /\ Text!LongAssumption
  /\ Clock!ClockAssumption /\ Calendar!CalendarAssumption
  /\ Config!ConfigAssumption /\ Accepter!AccepterAssumption

bufferVars == <<raw, bl, bufferCalls, bufferCall, out>>
wireVars == <<stream, next, iov, group, net, broken, server, state, fd, recv, rd, sent, held, alive, log>>
clockVars == <<t, exact, clockCalls>>
calendarVars == <<date, day>>
configVars == <<sections, cur, acc, rest, said>>
accepterVars ==
  <<fds, listen, pipeRd, pipeWr, done, did_bind, woken, loop, pfd, errors, messengerCall, stop, binds, hit>>

Init ==
  /\ part \in {"buffer", "wire", "text", "clock", "calendar", "config", "accepter"}
  /\ Buffer!Init /\ Wire!Init /\ Text!Init /\ Clock!Init
  /\ Calendar!Init /\ Config!Init /\ Accepter!Init
  /\ part # "wire" => server
  /\ part # "calendar" => day = 0

Next ==
  \/ /\ part = "buffer" /\ Buffer!Next
     /\ UNCHANGED <<part, wireVars, text, clockVars, calendarVars, configVars, accepterVars>>
  \/ /\ part = "wire" /\ Wire!Next
     /\ UNCHANGED <<part, bufferVars, text, clockVars, calendarVars, configVars, accepterVars>>
  \/ /\ part = "text" /\ Text!Next
     /\ UNCHANGED <<part, bufferVars, wireVars, clockVars, calendarVars, configVars, accepterVars>>
  \/ /\ part = "clock" /\ Clock!Next
     /\ UNCHANGED <<part, bufferVars, wireVars, text, calendarVars, configVars, accepterVars>>
  \/ /\ part = "calendar" /\ Calendar!Next
     /\ UNCHANGED <<part, bufferVars, wireVars, text, clockVars, configVars, accepterVars>>
  \/ /\ part = "config" /\ Config!Next
     /\ UNCHANGED <<part, bufferVars, wireVars, text, clockVars, calendarVars, accepterVars>>
  \/ /\ part = "accepter" /\ Accepter!Next
     /\ UNCHANGED <<part, bufferVars, wireVars, text, clockVars, calendarVars, configVars>>

Spec == Init /\ [][Next]_<<part, bufferVars, wireVars, text, clockVars, calendarVars, configVars, accepterVars>>

\* what the last call on a buffer was and returned is no part of the state
Memory ==
  <<part, raw, bl, bufferCalls, wireVars, text, clockVars, calendarVars, configVars, accepterVars>>
Symmetry == Permutations(Buffers)

(***************************************************************************)
(* The instances.                                                          *)
(***************************************************************************)
\* two strings of bytes to append
Texts == {<<0, 1>>}

\* a handshake, an acknowledgement, a message whose data is in two segments and not aligned
Items == <<
  [kind |-> "hello"],
  [kind |-> "ack"],
  [kind |-> "message", front |-> 0, middle |-> 0, data |-> <<1, 1>>, off |-> 1]>>

\* types of 3, 4, 6 and 11 bits; spaces, signs, digits, a prefix, a letter and what must be encoded
SomeBits == (8 :> 3) @@ (16 :> 4) @@ (32 :> 6) @@ (64 :> 11)
SomeChars == {13, 32, 37, 43, 45, 46, 47, 48, 51, 52, 75, 228}

\* names and values with blanks, brackets, quotes, comment signs and backslashes
SomeNames == {<<97>>, <<97, 32, 93>>}
SomeKeys == {<<98, 95, 61>>}
SomeValues == {<<>>, <<32, 97>>, <<34, 59, 92>>}
SomeSpellings == [k \in SomeKeys |-> {<<32, 98, 32, 9, 61, 32>>}]

(***************************************************************************)
(* What is checked.                                                        *)
(***************************************************************************)

\* Buffers: lengths, cached positions and cached checksums are right (buffer.cpp).
BuffersSound ==
  part = "buffer" => Buffer!Sound /\ Buffer!CursorSound /\ Buffer!CrcSound

\* Buffers: each is a string of bytes, whatever memory it shares (buffer.cpp).
IsString == Buffer!IsString

\* The stream: no byte is lost or repeated, no item torn or taken twice (socket.cpp).
StreamIntact == part = "wire" => Wire!Framed /\ Wire!Contiguous

\* The stream: every path gives back what it took of the throttles (socket.cpp).
Accounted == part = "wire" => Wire!Accounted

\* Numbers keep their value between text and integers (string_utils.cpp, strtol.cpp).
NumbersExact == part = "text" => Text!NumbersExact

\* Strings survive being encoded, cut and joined (string_utils.cpp, armor.cpp, tokener.h).
TextSurvives == part = "text" => Text!TextSurvives

\* Times add, subtract, compare, print and parse exactly (time_utils.h, time_utils.cpp).
TimeExact ==
  /\ part = "clock" => Clock!ClockExact
  /\ part = "calendar" => Calendar!CalendarExact

\* What a configuration file says is what the program gets (config_utils.cpp).
ConfigRead == part = "config" => Config!ConfigRead

\* The accepter closes and polls its own descriptors, and stop() leaves none (accepter.cpp).
OwnDescriptors == part = "accepter" => Accepter!OwnDescriptors
=============================================================================
