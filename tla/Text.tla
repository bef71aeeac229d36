-------------------------------- MODULE Text --------------------------------
(***************************************************************************)
(* The helpers on strings: common/string_utils.cpp, strtol.cpp, armor.cpp  *)
(* and tokener.h.  A string is a sequence of byte codes, without the 0     *)
(* that ends it.                                                           *)
(*                                                                         *)
(* The integer types keep their order of widths (8 < 16 < 32 < 64 bits)    *)
(* but have the few bits of the constant Bits, and with them the number of *)
(* characters a decimal numeral of the type may have.                      *)
(***************************************************************************)
EXTENDS Integers, Sequences, SequencesExt

CONSTANTS
  Chars,        \* the byte codes strings are made of
  MaxText,      \* bound: the length of a string
  MaxNumeral,   \* bound: the length of a string of digits and signs
  Bits,         \* Bits[w]: the bits of the type called w bits wide, 8 .. 64
  UnitBits      \* the bits that a step of the SI prefixes stands for, 10 in the code

TextAssumption ==
  /\ Chars \subseteq 1 .. 255 /\ MaxText \in Nat /\ MaxNumeral \in Nat
  /\ DOMAIN Bits = {8, 16, 32, 64}
  /\ 1 < Bits[8] /\ Bits[8] < Bits[16] /\ Bits[16] < Bits[32] /\ Bits[32] < Bits[64]
  /\ UnitBits \in Nat \ {0}

VARIABLE text    \* the string that is put through all of them

Least(a, b) == IF a < b THEN a ELSE b
Greatest(a, b) == IF a > b THEN a ELSE b
FirstAt(s, P) == IF \E i \in DOMAIN s : P[i]
                 THEN CHOOSE i \in DOMAIN s : P[i] /\ \A j \in 1 .. i - 1 : ~P[j] ELSE 0
LastAt(s, P) == IF \E i \in DOMAIN s : P[i]
                THEN CHOOSE i \in DOMAIN s : P[i] /\ \A j \in i + 1 .. Len(s) : ~P[j] ELSE 0
Are(s, S) == [i \in DOMAIN s |-> s[i] \in S]
From(s, i) == SubSeq(s, i, Len(s))

Slash == 47
Dot == 46
Minus == 45
Plus == 43
Percent == 37
Equals == 61
Newline == 10
Return == 13
Blank == 32
Digits == 48 .. 57
Uppers == 65 .. 90
Lowers == 97 .. 122
is_space(c) == c \in {Blank, 9, Return, Newline}
Spaces == {c \in 1 .. 255 : is_space(c)}

(***************************************************************************)
(* Decimal numerals.                                                       *)
(***************************************************************************)
\* the number of digits, and the value as a type of w bits has it
NumDigits(n) == CHOOSE d \in 1 .. 10 : 10 ^ (d - 1) <= n /\ n < 10 ^ d
Wrapped(v, w, signed) ==
  LET r == v % 2 ^ Bits[w]
  IN  IF signed /\ r >= 2 ^ (Bits[w] - 1) THEN r - 2 ^ Bits[w] ELSE r
MinOf(w, signed) == IF signed THEN -(2 ^ (Bits[w] - 1)) ELSE 0
MaxOf(w, signed) == 2 ^ (IF signed THEN Bits[w] - 1 ELSE Bits[w]) - 1
\* sizeof("-2147483648") - 1 and its like
MaxLength(w, signed) ==
  IF signed THEN 1 + NumDigits(2 ^ (Bits[w] - 1)) ELSE NumDigits(2 ^ Bits[w] - 1)
\* a long holds every numeral that is as long as that of an int may be
LongAssumption == 10 ^ MaxLength(32, TRUE) <= 2 ^ (Bits[64] - 1)

ValueOf(s, w, signed) ==
  FoldLeft(LAMBDA v, c : Wrapped(10 * v + (c - 48), w, signed), 0, s)

Fails == [ok |-> FALSE]
Gives(v) == [ok |-> TRUE, value |-> v]

\* fast_string2int(): `upto' is converted_length; w is the width of IntType
fast_string2int(s, w, signed, max, upto, ignored_zero) ==
  LET char(i) == IF i <= Len(s) THEN s[i] ELSE 0
      negative == char(1) = Minus
      first == IF negative THEN 2 ELSE 1
      zeros == char(first) = 48
      digits == FirstAt(s, [i \in DOMAIN s |-> i > first /\ s[i] # 48])
      start == IF ~zeros THEN first ELSE IF digits = 0 THEN Len(s) + 1 ELSE digits
      end == IF upto = 0 THEN Len(s) ELSE Least(Len(s), Greatest(start, upto))
      value == ValueOf(SubSeq(s, start, end), w, signed)
  IN  CASE char(first) = 0 -> Fails
        [] zeros /\ (char(first + 1) = 0 \/ upto = 1) -> Gives(0)
        [] zeros /\ char(first + 1) # 0 /\ upto # 1 /\ (~ignored_zero \/ start > max) -> Fails
        [] zeros /\ char(first + 1) # 0 /\ upto # 1 /\ ignored_zero /\ start <= max /\ char(start) = 0 ->
             Gives(0)
        [] OTHER ->
             IF (end > start /\ end > max) \/ \E i \in start .. end : s[i] \notin Digits
             THEN Fails
             ELSE Gives(IF negative THEN Wrapped(-value, w, signed) ELSE value)

\* (mutant) A value that is too great by one passes.
InRangeAlmost(r, w, signed) ==
  r.ok /\ MinOf(w, signed) <= r.value /\ r.value <= MaxOf(w, signed) + 1

InRange(r, w, signed) ==
  r.ok /\ MinOf(w, signed) <= r.value /\ r.value <= MaxOf(w, signed)

\* a narrower type takes the value if it is in its range
Narrowed(r, w, signed) ==
  IF InRange(r, w, signed) THEN Gives(Wrapped(r.value, w, signed)) ELSE Fails

\* string2int() of the signed types: the wider type first, and its value is looked at
string2int32(s, upto, ign) ==
  Narrowed(fast_string2int(s, 64, TRUE, MaxLength(32, TRUE), upto, ign), 32, TRUE)
string2int16(s, upto, ign) == Narrowed(string2int32(s, upto, ign), 16, TRUE)
string2int8(s, upto, ign) == Narrowed(string2int16(s, upto, ign), 8, TRUE)
string2int64(s, upto, ign) == fast_string2int(s, 64, TRUE, MaxLength(64, TRUE), upto, ign)

\* and of the unsigned ones, of which the one of 32 bits does not look
string2uint32(s, upto, ign) ==
  LET r == fast_string2int(s, 64, FALSE, MaxLength(32, FALSE), upto, ign)
  IN  IF r.ok THEN Gives(Wrapped(r.value, 32, FALSE)) ELSE Fails
string2uint16(s, upto, ign) == Narrowed(string2uint32(s, upto, ign), 16, FALSE)
string2uint8(s, upto, ign) == Narrowed(string2uint16(s, upto, ign), 8, FALSE)
string2uint64(s, upto, ign) == fast_string2int(s, 64, FALSE, MaxLength(64, FALSE), upto, ign)

int_tostring(v) ==
  LET n == IF v < 0 THEN -v ELSE v
      d == IF n = 0 THEN 1 ELSE NumDigits(n)
      ds == [i \in 1 .. d |-> 48 + ((n \div 10 ^ (d - i)) % 10)]
  IN  IF v < 0 THEN <<Minus>> \o ds ELSE ds

\* strtoll() with base 10: spaces, a sign, digits; saturates
Numeral(s) ==
  LET a == FirstAt(s, [i \in DOMAIN s |-> ~is_space(s[i])])
      sign == a # 0 /\ s[a] \in {Plus, Minus}
      b == IF sign THEN a + 1 ELSE a
      c == FirstAt(s, [i \in DOMAIN s |-> i >= b /\ s[i] \notin Digits])
      e == IF c = 0 THEN Len(s) ELSE c - 1
  IN  IF a = 0 \/ b > e THEN [digits |-> <<>>, negative |-> FALSE, end |-> 0]
      ELSE [digits |-> SubSeq(s, b, e), negative |-> s[a] = Minus, end |-> e]
Magnitude(ds) == FoldLeft(LAMBDA v, c : Least(10 * v + (c - 48), 2 ^ 20), 0, ds)
Amount(n) == IF n.negative THEN -Magnitude(n.digits) ELSE Magnitude(n.digits)

strict_strtoll(s) ==
  LET n == Numeral(s)
  IN  IF n.digits = <<>> \/ n.end # Len(s) \/ ~InRange(Gives(Amount(n)), 64, TRUE)
      THEN Fails ELSE Gives(Amount(n))

\* the least and the greatest int are errors, too
strict_strtol(s) ==
  LET r == strict_strtoll(s)
  IN  IF r.ok /\ MinOf(32, TRUE) < r.value /\ r.value < MaxOf(32, TRUE) THEN r ELSE Fails

\* the SI prefixes B K M G T P E
SIPrefixes == <<66, 75, 77, 71, 84, 80, 69>>
strict_si_cast(s, w, signed) ==
  LET k == IF s = <<>> THEN 0 ELSE FirstAt(SIPrefixes, Are(SIPrefixes, {Last(s)}))
      m == IF k = 0 THEN 0 ELSE UnitBits * (k - 1)
      r == strict_strtoll(IF k = 0 THEN s ELSE Front(s))
  IN  IF \/ ~r.ok \/ m >= Bits[w]
         \/ r.value < MinOf(w, signed) \div 2 ^ m \/ r.value > MaxOf(w, signed) \div 2 ^ m
      THEN Fails ELSE Gives(r.value * 2 ^ m)

(***************************************************************************)
(* Letters, spaces, tokens, names of files.                                *)
(***************************************************************************)
to_upper(s) == [i \in DOMAIN s |-> IF s[i] \in Lowers THEN s[i] - 32 ELSE s[i]]
to_lower(s) == [i \in DOMAIN s |-> IF s[i] \in Uppers THEN s[i] + 32 ELSE s[i]]

skip_spaces(s) ==
  LET i == FirstAt(s, [i \in DOMAIN s |-> s[i] # Blank]) IN IF i = 0 THEN <<>> ELSE From(s, i)
trim_left(s) ==
  LET i == FirstAt(s, [i \in DOMAIN s |-> ~is_space(s[i])]) IN IF i = 0 THEN <<>> ELSE From(s, i)
trim_right(s) == SubSeq(s, 1, LastAt(s, [i \in DOMAIN s |-> ~is_space(s[i])]))
\* trim(char*) skips blanks only at the front
trim_chars(s) == trim_right(skip_spaces(s))
trim(s) == trim_right(trim_left(s))
\* of a line that is not empty
trim_CR(s) == IF Last(s) = Return THEN Front(s) ELSE s

chr_index(s, c) == FirstAt(s, Are(s, {c})) - 1
chr_rindex(s, c) == LastAt(s, Are(s, {c})) - 1
extract_dirpath(s) == SubSeq(s, 1, Greatest(0, chr_rindex(s, Slash)))
extract_filename(s) == From(s, chr_rindex(s, Slash) + 2)

\* remove_last() of a character that the string has: not if it is the last one
remove_last(s, c) == IF chr_rindex(s, c) + 1 # Len(s) THEN SubSeq(s, 1, chr_rindex(s, c)) ELSE s
\* remove_last() of a string of one character
remove_last_sep(s, c) == IF chr_rindex(s, c) < 0 THEN s ELSE SubSeq(s, 1, chr_rindex(s, c))

remove_suffix(s) == IF chr_index(s, Dot) < 0 THEN s ELSE SubSeq(s, 1, chr_index(s, Dot))
replace_suffix(s, x) ==
  IF x \in {<<>>, <<Dot>>} THEN remove_suffix(s)
  ELSE remove_suffix(s) \o (IF x[1] = Dot THEN x ELSE <<Dot>> \o x)

is_numeric_string(s) == \A i \in DOMAIN s : s[i] \in Digits
is_alphabetic_string(s) == \A i \in DOMAIN s : s[i] \in Uppers \cup Lowers
VariableChars == Digits \cup Uppers \cup Lowers \cup {95, Minus}
is_variable_string(s) == \A i \in DOMAIN s : s[i] \in VariableChars
\* these and \ / + * . , < > { } ( ) [ ] $ % ^ ? " and the blank
RegexChars == VariableChars \cup {92, Slash, Plus, 42, Dot, 44, 60, 62, 123, 125, 40, 41, 91, 93,
                                  36, Percent, 94, 63, 34, Blank}
is_regex_string(s) == \A i \in DOMAIN s : s[i] \in RegexChars

\* Tokener::split() at a character; skip_sep takes a row of them for one
Cuts(s, c, skip) ==
  SelectSeq([i \in DOMAIN s |-> i],
            LAMBDA i : s[i] = c /\ (skip => i = Len(s) \/ s[i + 1] # c))
TokenStart(s, c, skip, cuts, j) == IF j = 1 THEN 1 ELSE cuts[j - 1] + 1
TokenEnd(s, c, skip, cuts, j) ==
  IF j > Len(cuts) THEN Len(s)
  ELSE IF skip THEN CHOOSE e \in 0 .. cuts[j] - 1 :
                      /\ \A i \in e + 1 .. cuts[j] : s[i] = c
                      /\ e < TokenStart(s, c, skip, cuts, j) \/ s[e] # c
  ELSE cuts[j] - 1
split(s, c, skip) ==
  LET cuts == Cuts(s, c, skip)
  IN  IF s = <<>> THEN <<>>
      ELSE [j \in 1 .. Len(cuts) + 1 |->
              SubSeq(s, TokenStart(s, c, skip, cuts, j), TokenEnd(s, c, skip, cuts, j))]

Joined(ts, sep) ==
  IF ts = <<>> THEN <<>> ELSE FoldLeft(LAMBDA a, t : a \o sep \o t, Head(ts), Tail(ts))
path2filename(s, sep) == Joined(split(s, Slash, FALSE), sep)

(***************************************************************************)
(* Encodings.                                                              *)
(***************************************************************************)
HexDigits == <<48, 49, 50, 51, 52, 53, 54, 55, 56, 57, 65, 66, 67, 68, 69, 70>>
IsHex(c) == c \in Digits \cup (65 .. 70) \cup (97 .. 102)
HexValue(c) == LET u == to_upper(<<c>>)[1] IN IF u >= 65 THEN u - 55 ELSE u - 48
char2hex(c) == <<HexDigits[((c \div 16) % 16) + 1], HexDigits[(c % 16) + 1]>>
hex2char(s) == FoldLeft(LAMBDA v, c : (16 * v + HexValue(c)) % 256, 0, SubSeq(s, 1, Least(Len(s), 2)))

\* snprintf() gets the sign of a byte above 127 with it, and its room takes only two f's
to_hex(s, lowercase) ==
  FlattenSeq([i \in DOMAIN s |->
    LET h == IF s[i] > 127 THEN <<70, 70>> ELSE char2hex(s[i])
    IN  IF lowercase THEN to_lower(h) ELSE h])

\* (mutant) A plus sign is kept as it is.
UnreservedPlus == Digits \cup Uppers \cup Lowers \cup {Minus, 95, Dot, 126, Plus}

\* RFC 3986, as encode_url() has it
Unreserved == Digits \cup Uppers \cup Lowers \cup {Minus, 95, Dot, 126}
encode_url(s, space2plus) ==
  FlattenSeq([i \in DOMAIN s |->
    CASE s[i] = Blank /\ space2plus -> <<Plus>>
      [] s[i] \in Unreserved -> <<s[i]>>
      [] OTHER -> <<Percent>> \o char2hex(s[i])])

\* decode_url(): a % that no two hexadecimal digits follow is itself
decode_url(s) ==
  LET hex(i) == s[i] = Percent /\ i + 2 <= Len(s) /\ IsHex(s[i + 1]) /\ IsHex(s[i + 2])
      step(st, i) ==
        CASE st.skip > 0 -> [st EXCEPT !.skip = @ - 1]
          [] st.skip = 0 /\ hex(i) -> [out |-> Append(st.out, hex2char(SubSeq(s, i + 1, i + 2))), skip |-> 2]
          [] OTHER -> [out |-> Append(st.out, IF s[i] = Plus THEN Blank ELSE s[i]), skip |-> 0]
  IN  FoldLeft(step, [out |-> <<>>, skip |-> 0], [i \in DOMAIN s |-> i]).out

\* base64: the 64 characters in order
pem_key == [i \in 1 .. 26 |-> 64 + i] \o [i \in 1 .. 26 |-> 96 + i] \o [i \in 1 .. 10 |-> 47 + i] \o <<Plus, Slash>>
encode_bits(c) == pem_key[c + 1]
decode_bits(c) ==
  CASE c \in Uppers -> c - 65
    [] c \in Lowers -> c - 71
    [] c \in Digits -> c + 4
    [] c \in {Plus, Minus} -> 62
    [] c \in {Slash, 95} -> 63
    [] c = Equals -> 0
    [] OTHER -> -1

\* one to three bytes as four characters
Group(g) ==
  LET n == Len(g) a == g[1] b == IF n > 1 THEN g[2] ELSE 0 c == IF n > 2 THEN g[3] ELSE 0
  IN  <<encode_bits(a \div 4), encode_bits((a % 4) * 16 + b \div 16),
        IF n > 1 THEN encode_bits((b % 16) * 4 + c \div 64) ELSE Equals,
        IF n > 2 THEN encode_bits(c % 64) ELSE Equals>>

\* armor_line_break(): -ERANGE, as <<0>>, if it does not fit into `room'
TooLong == <<-2>>
armor(s, room, width) ==
  LET groups == (Len(s) + 2) \div 3
      line(j) == IF width > 0 /\ (width % 4) = 0 /\ ((4 * j) % width) = 0 THEN <<Newline>> ELSE <<>>
      out == FlattenSeq([j \in 1 .. groups |->
               Group(SubSeq(s, 3 * j - 2, Least(3 * j, Len(s)))) \o line(j)])
  IN  IF Len(out) > room THEN TooLong ELSE out

\* unarmor(): four characters at a time, newlines between them skipped; ends at a =
Invalid == <<-1>>
unarmor(s, room) ==
  LET step(st, i) ==
        CASE st.done -> st
          [] ~st.done /\ st.quad = <<>> /\ s[i] = Newline -> st
          [] OTHER ->
               LET q == Append(st.quad, s[i])
                   v == [k \in DOMAIN q |-> decode_bits(q[k])]
                   bytes == <<(v[1] * 4 + v[2] \div 16) % 256, ((v[2] % 16) * 16 + v[3] \div 4) % 256,
                              ((v[3] % 4) * 64 + v[4]) % 256>>
                   n == IF q[3] = Equals THEN 1 ELSE IF q[4] = Equals THEN 2 ELSE 3
               IN  IF Len(q) < 4 THEN [st EXCEPT !.quad = q]
                   ELSE IF \E k \in DOMAIN q : v[k] < 0
                   THEN [out |-> Invalid, quad |-> <<>>, done |-> TRUE]
                   ELSE [out |-> st.out \o SubSeq(bytes, 1, n), quad |-> <<>>, done |-> n < 3]
      end == FoldLeft(step, [out |-> <<>>, quad |-> <<>>, done |-> FALSE], [i \in DOMAIN s |-> i])
  IN  IF end.quad # <<>> \/ end.out = Invalid THEN Invalid
      ELSE IF Len(end.out) > room THEN TooLong ELSE end.out

encode_base64(s) == armor(s, ((Len(s) * 4) \div 3) + 3, 0)
decode_base64(s) == unarmor(s, 4 + ((Len(s) * 3) \div 4))

(***************************************************************************)
(* The specification: strings grow byte by byte.                           *)
(***************************************************************************)
Init == text = <<>>

NumeralChars == Digits \cup {Minus} \cup {75, 77}
Grow ==
  \E c \in Chars :
    /\ text' = Append(text, c)
    /\ Len(text') <= MaxText \/ (Len(text') <= MaxNumeral /\ \A i \in DOMAIN text' : text'[i] \in NumeralChars)

Next == Grow
Spec == Init /\ [][Next]_text

(***************************************************************************)
(* Properties.                                                             *)
(***************************************************************************)
IsNumeral(s) == LET d == IF s # <<>> /\ s[1] = Minus THEN Tail(s) ELSE s
                IN  d # <<>> /\ is_numeric_string(d)
Representable(v, w, sg) == v >= MinOf(w, sg) /\ v <= MaxOf(w, sg)
Signed(w) == CASE w = 8 -> string2int8(text, 0, TRUE)
               [] w = 16 -> string2int16(text, 0, TRUE)
               [] w = 32 -> string2int32(text, 0, TRUE)

\* What a conversion accepts means what it gives: a signed type of up to 32
\* bits accepts numerals of its range only, with their value, although the
\* digits are added up without a check and narrower types go through wider
\* ones; with an SI prefix the value is the shifted one, and in range.
AcceptedMeansValue ==
  /\ \A w \in {8, 16, 32} :
       Signed(w).ok => IsNumeral(text) /\ Signed(w).value = Amount(Numeral(text))
  /\ strict_strtol(text).ok => strict_strtol(text).value = Amount(Numeral(text))
  /\ \A w \in {32, 64} : \A sg \in BOOLEAN :
       LET r == strict_si_cast(text, w, sg)
       IN  r.ok => /\ Representable(r.value, w, sg)
                   /\ \E m \in 0 .. 6 : r.value = Amount(Numeral(text)) * 2 ^ (UnitBits * m)

\* Every number of every type is printed as a numeral that its conversion
\* turns back into the number, the least and the greatest included.
PrintedIsRead ==
  IsNumeral(text) =>
    LET v == Amount(Numeral(text))
        s == int_tostring(v)
        back(r, w, sg) == Representable(v, w, sg) => r = Gives(v)
    IN  /\ back(string2int8(s, 0, FALSE), 8, TRUE) /\ back(string2uint8(s, 0, FALSE), 8, FALSE)
        /\ back(string2int16(s, 0, FALSE), 16, TRUE) /\ back(string2uint16(s, 0, FALSE), 16, FALSE)
        /\ back(string2int32(s, 0, FALSE), 32, TRUE) /\ back(string2uint32(s, 0, FALSE), 32, FALSE)
        /\ back(string2int64(s, 0, FALSE), 64, TRUE) /\ back(string2uint64(s, 0, FALSE), 64, FALSE)

\* Numbers keep their value between text and integers, in both directions, at
\* the ends of every type.
NumbersExact == AcceptedMeansValue /\ PrintedIsRead

\* Every string survives being encoded and decoded: as part of a URL, in
\* base64 with lines of any width and in the room buffer::encode_base64()
\* gives it, in hexadecimal.
DecodeIsInverse ==
  /\ \A b \in BOOLEAN : decode_url(encode_url(text, b)) = text
  /\ \A width \in {0, 4, 8} : unarmor(armor(text, 100, width), 100) = text
  /\ decode_base64(encode_base64(text)) = text
  /\ \A i \in DOMAIN text : hex2char(char2hex(text[i])) = text[i]
  /\ \A lower \in BOOLEAN :
       (\A i \in DOMAIN text : text[i] < 128) =>
         [i \in DOMAIN text |-> hex2char(SubSeq(to_hex(text, lower), 2 * i - 1, 2 * i))] = text

\* A path falls apart into the parts it is made of: directory and file name,
\* tokens and separators, name and suffix; what was trimmed has nothing to trim.
PartsMakeWhole ==
  /\ text # <<>> => Joined(split(text, Slash, FALSE), <<Slash>>) = text
  /\ path2filename(text, <<Slash>>) = text
  /\ Len(path2filename(text, <<>>)) = Len(SelectSeq(text, LAMBDA c : c # Slash))
  /\ chr_rindex(text, Slash) >= 0 => extract_dirpath(text) \o <<Slash>> \o extract_filename(text) = text
  /\ chr_rindex(text, Slash) < 0 => extract_dirpath(text) = <<>> /\ extract_filename(text) = text
  /\ \A j \in DOMAIN split(text, Slash, TRUE) :
       j \notin {1, Len(split(text, Slash, TRUE))} => split(text, Slash, TRUE)[j] # <<>>
  /\ FlattenSeq(split(text, Slash, TRUE)) = FlattenSeq(split(text, Slash, FALSE))
  /\ \A x \in {<<>>, <<Dot>>, <<98>>, <<Dot, 98>>} :
       /\ remove_suffix(replace_suffix(text, x)) = remove_suffix(text)
       /\ replace_suffix(replace_suffix(text, <<98>>), x) = replace_suffix(text, x)
  /\ chr_index(text, Slash) >= 0 =>
       remove_last_sep(text, Slash) = extract_dirpath(text) /\
       remove_last(text, Slash) \in {text, extract_dirpath(text)}
  /\ trim(trim(text)) = trim(text) /\ trim_left(trim_right(text)) = trim(text)
  /\ trim_left(trim_chars(text)) = trim(text)
  /\ text # <<>> => trim_right(trim_CR(text)) = trim_right(text)
  /\ to_lower(to_upper(text)) = to_lower(text)
  /\ is_numeric_string(text) \/ is_alphabetic_string(text) => is_variable_string(text)
  /\ is_variable_string(text) => is_regex_string(text)

\* Nothing is lost or made up when strings are encoded, cut, joined or trimmed.
TextSurvives == DecodeIsInverse /\ PartsMakeWhole
=============================================================================
