----------------------------- MODULE BufferSpec -----------------------------
(***************************************************************************)
(* What a buffer promises: to be a string of bytes.  It says nothing of    *)
(* segments, of shared memory, of cached positions or cached checksums.    *)
(* Each step names the call that was made and what the call returned.      *)
(*                                                                         *)
(* Buffers may share memory, so a write through one of them may show in    *)
(* another (in `seen'); what it may do there is to replace bytes by        *)
(* written ones.  It is exact unless the buffer has some memory twice.     *)
(***************************************************************************)
EXTENDS Integers, Sequences

CONSTANTS
  Buffers,      \* the buffer objects
  Byte,         \* the values of a byte; 0 is one of them
  Crc(_, _)     \* the checksum of a string, from a starting value

VARIABLES
  content,      \* the string each buffer holds
  call,         \* the last call
  out           \* what it returned

vars == <<content, call, out>>

Part(s, off, n) == SubSeq(s, off + 1, off + n)
Without(s, off, n) == SubSeq(s, 1, off) \o SubSeq(s, off + n + 1, Len(s))
Over(s, off, d) ==
  [i \in DOMAIN s |-> IF i > off /\ i <= off + Len(d) THEN d[i - off] ELSE s[i]]

\* s comes before t, byte by byte, the shorter string first
Less(s, t) ==
  \/ \E n \in 0 .. Len(s) :
        /\ n < Len(t)
        /\ \A i \in 1 .. n : s[i] = t[i]
        /\ n = Len(s) \/ s[n + 1] < t[n + 1]

Init ==
  /\ content \in [Buffers -> Seq(Byte)]
  /\ out = <<>>

Extend ==
  /\ call'.op = "append"
  /\ content' = [content EXCEPT ![call'.to] = @ \o call'.data]
  /\ out' = <<>>

Prepend ==
  /\ call'.op = "prepend"
  /\ content' = [content EXCEPT ![call'.to] = call'.data \o @]
  /\ out' = <<>>

\* the other buffer is left as it was, or left empty
Join ==
  /\ call'.op \in {"append_list", "claim_append"}
  /\ content' = [content EXCEPT
       ![call'.to] = @ \o content[call'.from],
       ![call'.from] = IF call'.op = "append_list" THEN @ ELSE <<>>]
  /\ out' = <<>>

JoinFront ==
  /\ call'.op = "claim_prepend"
  /\ content' = [content EXCEPT
       ![call'.to] = content[call'.from] \o @, ![call'.from] = <<>>]
  /\ out' = <<>>

Assign ==
  /\ call'.op \in {"assign", "move"}
  /\ content' = [content EXCEPT
       ![call'.to] = content[call'.from],
       ![call'.from] = IF call'.op = "assign" THEN @ ELSE <<>>]
  /\ out' = <<>>

Swap ==
  /\ call'.op = "swap"
  /\ content' = [content EXCEPT
       ![call'.to] = content[call'.from], ![call'.from] = content[call'.to]]
  /\ out' = <<>>

Cut ==
  /\ call'.op = "cut"
  /\ content' = [content EXCEPT
       ![call'.of] = Without(@, call'.off, call'.len),
       ![call'.to] = @ \o Part(content[call'.of], call'.off, call'.len)]
  /\ out' = <<>>

Drop ==
  /\ call'.op = "drop"
  /\ content' = [content EXCEPT ![call'.of] = Without(@, call'.off, call'.len)]
  /\ out' = <<>>

Substring ==
  /\ call'.op \in {"substr", "append_part"}
  /\ content' = [content EXCEPT ![call'.to] =
       (IF call'.op = "substr" THEN <<>> ELSE @)
          \o Part(content[call'.from], call'.off, call'.len)]
  /\ out' = <<>>

Write ==
  /\ call'.op = "write"
  /\ call'.exact => content'[call'.of] = Over(content[call'.of], call'.off, call'.data)
  /\ \A b \in Buffers : DOMAIN content'[b] = DOMAIN content[b]
  /\ \A b \in Buffers \ call'.seen : content'[b] = content[b]
  /\ \A b \in Buffers : \A i \in DOMAIN content[b] :
        \/ content'[b][i] = content[b][i]
        \/ \E j \in DOMAIN call'.data : content'[b][i] = call'.data[j]
  /\ out' = <<>>

\* calls that change no string, and the answers they give
Read ==
  /\ UNCHANGED content
  /\ \/ call'.op = "layout" /\ out' = <<>>
     \/ call'.op = "read" /\ out' = Part(content[call'.of], call'.off, call'.len)
     \/ call'.op = "crc" /\ out' = <<Crc(call'.base, content[call'.of])>>
     \/ /\ call'.op = "compare"
        /\ LET s == content[call'.of]
               t == content[call'.with]
           IN  out' = << s = t, Less(t, s), s = t \/ Less(t, s) >>

Next ==
  \/ Extend \/ Prepend \/ Join \/ JoinFront \/ Assign \/ Swap
  \/ Cut \/ Drop \/ Substring \/ Write \/ Read

Spec == Init /\ [][Next]_vars
=============================================================================
