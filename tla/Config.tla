------------------------------- MODULE Config -------------------------------
(***************************************************************************)
(* ConfFile (common/config_utils.cpp): load_from_buffer() goes through a   *)
(* file line by line, process_line() through a line character by           *)
(* character, and what they find is kept by section and key.               *)
(*                                                                         *)
(* A string is a sequence of byte codes.  A line is written to say         *)
(* something, and the specification keeps what it said next to what the    *)
(* code made of it.  A line may be split with backslashes at its end.      *)
(***************************************************************************)
EXTENDS Integers, Sequences, FiniteSets, SequencesExt, TLC

CONSTANTS
  Names,       \* names of sections
  Keys,        \* names of values
  Values,      \* the values
  Spellings    \* Spellings[k]: other ways to write the key k

ConfigAssumption ==
  /\ Names # {} /\ <<>> \notin Names \cup Keys
  /\ DOMAIN Spellings = Keys

VARIABLES
  sections,    \* _sections: the lines of each section by their keys
  cur,         \* cur_section; <<>> before the first one
  acc,         \* acc: the parts of a line split with backslashes
  rest,        \* what of the line is still to come, and what it says
  said         \* what the lines say

vars == <<sections, cur, acc, rest, said>>

Blank == 32
Quote == 34
Hash == 35
Semicolon == 59
Equals == 61
Open == 91
Back == 92
Close == 93
Underscore == 95
isspace(c) == c = Blank \/ c \in 9 .. 13
Empty == [x \in {} |-> x]

(***************************************************************************)
(* process_line()                                                          *)
(***************************************************************************)
Stripped(s) ==
  LET solid == {i \in DOMAIN s : ~isspace(s[i])}
  IN  IF solid = {} THEN <<>>
      ELSE SubSeq(s, CHOOSE i \in solid : \A j \in solid : i <= j,
                     CHOOSE i \in solid : \A j \in solid : j <= i)
\* of spaces in a row the first one stays
Squeezed(s) ==
  LET kept == SelectSeq([i \in DOMAIN s |-> i], LAMBDA i : i = 1 \/ ~isspace(s[i]) \/ ~isspace(s[i - 1]))
  IN  [j \in DOMAIN kept |-> s[kept[j]]]
trim(s, strip_internal) == IF strip_internal THEN Squeezed(Stripped(s)) ELSE Stripped(s)

normalize_key_name(key) ==
  LET k == trim(key, TRUE) IN [i \in DOMAIN k |-> IF k[i] = Blank THEN Underscore ELSE k[i]]

ACCEPT_INIT ==
  [state |-> "init", key |-> <<>>, val |-> <<>>, section |-> <<>>, escaping |-> FALSE]
Fails(m) == [m EXCEPT !.state = "error"]

\* a backslash is left out and the next character taken as it is
Escapes(m, c) == c = Back /\ ~m.escaping
Plain(m, c, S) == c \in S /\ ~m.escaping

SectionName(m, c) ==
  CASE Plain(m, c, {Close}) ->
         LET s == trim(m.section, TRUE)
         IN  IF s = <<>> THEN Fails(m) ELSE [m EXCEPT !.section = s, !.state = "comment start"]
    [] Plain(m, c, {Hash, Semicolon}) -> Fails(m)
    [] Escapes(m, c) -> [m EXCEPT !.escaping = TRUE]
    [] OTHER -> [m EXCEPT !.escaping = FALSE, !.section = Append(@, c)]

Key(m, c) ==
  CASE Plain(m, c, {Hash, Semicolon}) -> Fails(m)
    [] Plain(m, c, {Equals}) ->
         LET k == normalize_key_name(m.key)
         IN  IF k = <<>> THEN Fails(m) ELSE [m EXCEPT !.key = k, !.state = "val start"]
    [] Escapes(m, c) -> [m EXCEPT !.escaping = TRUE]
    [] OTHER -> [m EXCEPT !.escaping = FALSE, !.key = Append(@, c)]

UnquotedVal(m, c) ==
  CASE Plain(m, c, {Hash, Semicolon}) -> [m EXCEPT !.val = trim(@, FALSE), !.state = "comment"]
    [] Escapes(m, c) -> [m EXCEPT !.escaping = TRUE]
    [] OTHER -> [m EXCEPT !.escaping = FALSE, !.val = Append(@, c)]

QuotedVal(m, c) ==
  CASE Plain(m, c, {Quote}) -> [m EXCEPT !.state = "comment start"]
    [] Escapes(m, c) -> [m EXCEPT !.escaping = TRUE]
    [] OTHER -> [m EXCEPT !.escaping = FALSE, !.val = Append(@, c)]

Accept(m, c) ==
  CASE m.state = "init" ->
         CASE c = Open -> [m EXCEPT !.state = "section"]
           [] c \in {Hash, Semicolon} -> [m EXCEPT !.state = "comment"]
           [] c = Close -> Fails(m)
           [] isspace(c) -> m
           [] OTHER -> Key([m EXCEPT !.state = "key"], c)
    [] m.state = "section" -> SectionName(m, c)
    [] m.state = "key" -> Key(m, c)
    [] m.state = "val start" ->
         CASE c \in {Hash, Semicolon} -> [m EXCEPT !.state = "comment"]
           [] c = Quote -> [m EXCEPT !.state = "quoted"]
           [] isspace(c) -> m
           [] OTHER -> UnquotedVal([m EXCEPT !.state = "unquoted"], c)
    [] m.state = "unquoted" -> UnquotedVal(m, c)
    [] m.state = "quoted" -> QuotedVal(m, c)
    [] m.state = "comment start" ->
         CASE c \in {Hash, Semicolon} -> [m EXCEPT !.state = "comment"]
           [] isspace(c) -> m
           [] OTHER -> Fails(m)
    [] m.state \in {"comment", "error"} -> m

\* a comment alone is a line with neither key nor section
process_line(line) ==
  LET m == FoldLeft(Accept, ACCEPT_INIT, line)
  IN  CASE m.state = "unquoted" /\ ~m.escaping -> [m EXCEPT !.val = trim(@, FALSE)]
        [] m.state \in {"val start", "comment start", "comment"} -> m
        [] OTHER -> Fails(m)

(***************************************************************************)
(* load_from_buffer()                                                      *)
(***************************************************************************)
With(f, x, v) == (x :> v) @@ f

\* (mutant) The first line with a key stays.
StoredFirst(lines, m) == IF m.key \in DOMAIN lines THEN lines ELSE With(lines, m.key, m.val)

\* the last line with a key is the one that counts
Stored(lines, m) == With(lines, m.key, m.val)

\* A line that sets something before the first section follows an iterator
\* that points nowhere: files begin with a section.
CanLoad(line) ==
  LET m == process_line(line) IN m.state = "error" \/ m.section # <<>> \/ cur # <<>>

\* a whole line
Load(line) ==
  LET m == process_line(line)
  IN  /\ acc' = <<>>
      /\ CASE m.state = "error" -> UNCHANGED <<sections, cur>>
           [] m.state # "error" /\ m.section # <<>> ->
                /\ cur' = m.section
                /\ sections' = IF cur' \in DOMAIN sections THEN sections ELSE With(sections, cur', Empty)
           [] OTHER ->
                /\ sections' = [sections EXCEPT ![cur] = Stored(@, m)]
                /\ UNCHANGED cur

get_val(section, key) ==
  LET k == normalize_key_name(key)
  IN  IF section \in DOMAIN sections /\ k \in DOMAIN sections[section]
      THEN <<sections[section][k]>> ELSE <<>>

get_all_sections == DOMAIN sections

(***************************************************************************)
(* What is written.                                                        *)
(***************************************************************************)
Escaped(s, S) == FlattenSeq([i \in DOMAIN s |-> IF s[i] \in S THEN <<Back, s[i]>> ELSE <<s[i]>>])
Comments == {<<>>, <<Blank, Hash, Quote, Open, Equals>>}

\* without quotes the spaces at the ends are lost, and a backslash at the end is of the file
Bare(v, comment) == v = Stripped(v) /\ (v = <<>> \/ Last(v) # Back \/ comment # <<>>)

SectionLines ==
  {[text |-> <<Open>> \o pad \o Escaped(n, {Close, Hash, Semicolon, Back}) \o pad \o <<Close>> \o comment,
    says |-> <<n>>] : n \in Names, pad \in {<<>>, <<Blank>>}, comment \in Comments}
ValueLines ==
  UNION {{[text |-> Escaped(k, {Equals, Hash, Semicolon, Back}) \o <<Equals>> \o
                    (IF quoted THEN <<Quote>> \o Escaped(v, {Quote, Back}) \o <<Quote>>
                     ELSE Escaped(v, {Quote, Hash, Semicolon, Back})) \o comment,
           says |-> <<key, v>>] : k \in Spellings[key] \cup {key}, v \in {w \in Values : quoted \/ Bare(w, comment)}} :
         key \in Keys, quoted \in BOOLEAN, comment \in Comments}
\* nothing, a comment, and what is an error: no = , no end of the quotes, no name, something after them
OtherLines ==
  {[text |-> l, says |-> <<>>] :
     l \in {<<>>, <<Hash, Open, 97, Close>>, <<97>>, <<97, Equals, Quote, 98>>, <<Open, Blank, Close>>,
            <<Close>>, <<97, Equals, Quote, Quote, 98>>, <<Equals, 98>>}}
Lines == SectionLines \cup ValueLines \cup OtherLines

Says(l) ==
  said' = CASE Len(l.says) = 1 ->
                 [at |-> l.says[1],
                  vals |-> IF l.says[1] \in DOMAIN said.vals THEN said.vals
                           ELSE With(said.vals, l.says[1], Empty)]
            [] Len(l.says) = 2 ->
                 [said EXCEPT !.vals[said.at] = With(@, l.says[1], l.says[2])]
            [] OTHER -> said

(***************************************************************************)
(* The specification.                                                      *)
(***************************************************************************)
NoRest == [text |-> <<>>, says |-> <<>>]

Init ==
  /\ sections = Empty /\ cur = <<>> /\ acc = <<>>
  /\ rest = NoRest
  /\ said = [at |-> <<>>, vals |-> Empty]

ReadLine ==
  /\ rest = NoRest /\ acc = <<>>
  /\ \E l \in Lines : CanLoad(l.text) /\ Load(l.text) /\ Says(l)
  /\ UNCHANGED rest

\* the first k characters of a line and a backslash
ReadPart ==
  /\ rest = NoRest /\ acc = <<>>
  /\ \E l \in Lines : \E k \in 1 .. Len(l.text) - 1 :
       /\ CanLoad(l.text)
       /\ acc' = SubSeq(l.text, 1, k)
       /\ rest' = [l EXCEPT !.text = SubSeq(@, k + 1, Len(@))]
  /\ UNCHANGED <<sections, cur, said>>

ReadRest ==
  /\ rest # NoRest
  /\ Load(acc \o rest.text) /\ Says(rest)
  /\ rest' = NoRest

Next == ReadLine \/ ReadPart \/ ReadRest
Spec == Init /\ [][Next]_vars

(***************************************************************************)
(* Properties.                                                             *)
(***************************************************************************)

\* What a file says is what the program gets: every section, and of every key
\* the last value of its section, whatever is quoted, escaped, commented or
\* split, in which spelling the key is written or asked for, and whatever
\* lines are wrong; however often a section is left and entered again.
ConfigRead ==
  /\ get_all_sections = DOMAIN said.vals
  /\ rest = NoRest => cur = said.at
  /\ \A s \in Names, key \in Keys : \A k \in Spellings[key] \cup {key} :
       get_val(s, k) =
         IF s \in DOMAIN said.vals /\ key \in DOMAIN said.vals[s] THEN <<said.vals[s][key]>> ELSE <<>>
=============================================================================
