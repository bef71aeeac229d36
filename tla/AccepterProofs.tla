--------------------------- MODULE AccepterProofs ---------------------------
(***************************************************************************)
(* The accepter uses descriptors of its own only, for any number of        *)
(* descriptors, calls of bind() and rebind(), and errors of accept().      *)
(***************************************************************************)
EXTENDS Accepter, SetInduction, TLAPS

Open(f, whose) == f \in Fds /\ fds[f] = whose

\* What the descriptors are: each variable holds one that the accepter owns,
\* or none, but for the time between close() and the assignment in entry();
\* and the accepter owns no end of a pipe that no variable holds.
Owns ==
  /\ fds \in [Fds -> Owners] /\ ~hit
  /\ listen = -1 \/ Open(listen, "listen")
  /\ wr = -1 \/ Open(wr, "wr")
  /\ rd = -1 \/ Open(rd, "rd") \/ loop = "closed"
  /\ \A f \in Fds : (fds[f] = "rd" => f = rd /\ loop # "closed") /\ (fds[f] = "wr" => f = wr)

\* Where the thread is in between its start and its end, it has what it was
\* started with.
Running ==
  /\ loop \in {"ended", "starts", "tests", "polls", "accepts", "reads", "leaves", "closed"}
  /\ loop # "ended" => listen # -1 /\ rd # -1
  /\ loop \notin {"ended", "starts"} => pfd = [listen |-> listen, rd |-> rd]

\* How the messenger's calls and the thread go together: while something is
\* bound or after it was stopped there is no thread, and without a pipe to
\* write to there is none to stop, except at the end of stop().
AtEnd == stop \in {"joins", "closes listen", "closes rd"}
Phases ==
  /\ did_bind \in BOOLEAN
  /\ stop # "none" => call \in {"rebind", "wait"}
  /\ call \in {"new", "binds", "rebinds", "starts", "over"} => loop = "ended"
  /\ stop \in {"closes listen", "closes rd"} => loop = "ended"
  /\ AtEnd => wr = -1
  /\ stop = "closes rd" => listen = -1
  /\ stop \in {"wakes", "closes wr"} => wr # -1
  /\ wr = -1 /\ ~AtEnd => loop = "ended" /\ rd = -1
  /\ call = "binds" => ~did_bind
  /\ call = "rebinds" \/ (call \in {"new", "binds"} /\ ~did_bind) => wr = -1
  /\ call = "starts" \/ (call = "new" /\ did_bind) => listen # -1 /\ rd # -1 /\ wr # -1
  /\ call = "over" /\ ~done => listen = -1 /\ rd = -1 /\ wr = -1

AccepterInv == Owns /\ Running /\ Phases

\* The lowest of some descriptors is one of them.
LEMMA LowestIsOne ==
    ASSUME AccepterAssumption, NEW S \in SUBSET Fds, S # {}
    PROVE  Lowest(S) \in S
<1>1. \E f \in S : \A g \in S : f <= g
  BY LeastNat DEF AccepterAssumption
<1> QED
  BY <1>1 DEF Lowest

\* Three free descriptors are three different ones.
LEMMA ThreeFree ==
    ASSUME AccepterAssumption, Cardinality(Free) >= 3
    PROVE  LET l == Lowest(Free)
               r == Lowest(Free \ {l})
               w == Lowest(Free \ {l, r})
           IN  l \in Free /\ r \in Free \ {l} /\ w \in Free \ {l, r}
<1> DEFINE l == Lowest(Free)
           r == Lowest(Free \ {l})
           w == Lowest(Free \ {l, r})
<1>1. IsFiniteSet(Free) /\ Free \in SUBSET Fds
  BY FS_Subset DEF AccepterAssumption, Free
<1>2. Free # {}
  BY <1>1, FS_EmptySet
<1>3. l \in Free
  BY <1>1, <1>2, LowestIsOne
<1>4. IsFiniteSet(Free \ {l}) /\ Cardinality(Free \ {l}) = Cardinality(Free) - 1
  BY <1>1, <1>3, FS_RemoveElement
<1>5. Cardinality(Free) \in Nat
  BY <1>1, FS_CardinalityType
<1> HIDE DEF l
<1>6. Free \ {l} # {}
  BY <1>4, <1>5, FS_EmptySet
<1>7. r \in Free \ {l}
  BY <1>1, <1>6, LowestIsOne
<1>8. IsFiniteSet((Free \ {l}) \ {r}) /\ Cardinality((Free \ {l}) \ {r}) = Cardinality(Free \ {l}) - 1
  BY <1>4, <1>7, FS_RemoveElement
<1> HIDE DEF r
<1>9. (Free \ {l}) \ {r} = Free \ {l, r}
  OBVIOUS
<1>10. Free \ {l, r} # {}
  BY <1>4, <1>5, <1>8, <1>9, FS_EmptySet
<1>11. w \in Free \ {l, r}
  BY <1>1, <1>10, LowestIsOne
<1> QED
  BY <1>3, <1>7, <1>11 DEF l, r

\* No descriptor is the number that stands for none.
LEMMA NoneIsNone ==
    ASSUME AccepterAssumption PROVE -1 \notin Fds
<1>1. \A n \in Nat : n # -1
  OBVIOUS
<1> QED
  BY <1>1 DEF AccepterAssumption

\* It holds before anything is bound.
LEMMA AccepterInit ==
    ASSUME Init PROVE AccepterInv
BY DEF Init, AccepterInv, Owns, Running, Phases, Open, AtEnd, Owners

\* The rest of the process opens and closes what is not the accepter's.
LEMMA OthersStep ==
    ASSUME AccepterAssumption, AccepterInv, OtherSteps PROVE AccepterInv'
<1> USE DEF AccepterInv, Owns, Running, Phases, Open, AtEnd
<1>1. CASE Opens
  <2>1. Lowest(Free) \in Free
    BY <1>1, LowestIsOne DEF Opens, Free
  <2> QED
    BY <1>1, <2>1 DEF Opens, Free, Owners
<1>2. CASE ClosesTheirs
  <2>1. PICK f \in Fds : fds[f] = "others" /\ fds' = [fds EXCEPT ![f] = "free"]
    BY <1>2 DEF ClosesTheirs
  <2>2. UNCHANGED <<listen, rd, wr, hit, done, did_bind, loop, pfd, call, stop>>
    BY <1>2 DEF ClosesTheirs
  <2> QED
    BY <2>1, <2>2 DEF ClosesTheirs, Owners
<1> QED
  BY <1>1, <1>2 DEF OtherSteps

\* bind() takes free descriptors, when there are no others of the accepter's.
LEMMA BindStep ==
    ASSUME AccepterAssumption, AccepterInv, Bind PROVE AccepterInv'
<1> USE DEF AccepterInv, Owns, Running, Phases, Open, AtEnd
<1>0. call \in {"binds", "rebinds"} /\ loop = "ended" /\ stop = "none" /\ wr = -1 /\ rd = -1
  BY DEF Bind
<1>n. -1 \notin Fds
  BY NoneIsNone
<1>s. UNCHANGED <<hit, done, loop, pfd, errors, stop, binds>>
  BY DEF Bind
<1>1. CASE Cardinality(Free) >= 3 /\ listen' # -1 /\ rd' # -1 /\ call' \in {"new", "starts"} /\
           LET l == Lowest(Free)
               r == Lowest(Free \ {l})
               w == Lowest(Free \ {l, r})
           IN  /\ listen' = l /\ rd' = r /\ wr' = w
               /\ fds' = [fds EXCEPT ![l] = "listen", ![r] = "rd", ![w] = "wr"]
  <2>1. PICK l \in Free, r \in Free, w \in Free :
           /\ l # r /\ l # w /\ r # w
           /\ listen' = l /\ rd' = r /\ wr' = w
           /\ fds' = [fds EXCEPT ![l] = "listen", ![r] = "rd", ![w] = "wr"]
    BY <1>1, ThreeFree
  <2>2. did_bind' \in BOOLEAN /\ (call' = "new" => did_bind') /\ call' \in {"new", "starts"}
    BY <1>0, <1>1, <1>n DEF Bind
  <2> QED
    BY <1>0, <1>s, <1>n, <2>1, <2>2 DEF Free, Owners
<1>2. CASE /\ listen' = -1 \/ (Free # {} /\ listen' = Lowest(Free) /\ fds' = [fds EXCEPT ![listen'] = "listen"])
           /\ listen' = -1 => fds' = fds
           /\ call' = IF call = "binds" THEN "new" ELSE "runs"
           /\ UNCHANGED <<rd, wr, woken, did_bind>>
  <2>1. listen' = -1 \/ listen' \in Free
    BY <1>2, LowestIsOne DEF Free
  <2>2. fds' \in [Fds -> Owners] /\ (listen' = -1 \/ fds'[listen'] = "listen")
    BY <1>2, <2>1 DEF Free, Owners
  <2>3. \A f \in Fds : fds'[f] # "listen" => fds'[f] = fds[f]
    BY <1>2, <2>1 DEF Free
  <2> QED
    BY <1>0, <1>2, <1>s, <1>n, <2>1, <2>2, <2>3 DEF Free
<1>3. (call = "binds" => did_bind' = did_bind \/ call' = "new") /\ did_bind \in BOOLEAN
  BY DEF Bind
<1> QED
  BY <1>0, <1>1, <1>2, <1>n, ThreeFree DEF Bind, Free

\* The other steps of the messenger.
LEMMA MessengerStep ==
    ASSUME AccepterAssumption, AccepterInv, MessengerSteps PROVE AccepterInv'
<1> USE DEF AccepterInv, Owns, Running, Phases, Open, AtEnd
<1>n. -1 \notin Fds
  BY NoneIsNone
<1>1. CASE CallBind
  BY <1>1 DEF CallBind, fdVars
<1>2. CASE Bind
  BY <1>2, BindStep
<1>3. CASE Start
  BY <1>3 DEF Start, fdVars
<1>4. CASE CallStop
  BY <1>4 DEF CallStop, fdVars
<1>5. CASE Marks
  BY <1>5 DEF Marks, Returns, fdVars
<1>6. CASE Wakes
  BY <1>6 DEF Wakes, fdVars
<1>7. CASE ClosesWr
  BY <1>7, <1>n DEF ClosesWr, Closes, Owners
<1>8. CASE Joins
  BY <1>8 DEF Joins, Joinable, fdVars
<1>9. CASE ClosesListen
  BY <1>9, <1>n DEF ClosesListen, Closes, Owners
<1>10. CASE ClosesRd
  BY <1>10, <1>n DEF ClosesRd, Closes, Returns, Owners
<1> QED
  BY <1>1, <1>2, <1>3, <1>4, <1>5, <1>6, <1>7, <1>8, <1>9, <1>10 DEF MessengerSteps

\* The steps of the thread.
LEMMA ThreadStep ==
    ASSUME AccepterAssumption, AccepterInv, ThreadSteps PROVE AccepterInv'
<1> USE DEF AccepterInv, Owns, Running, Phases, Open, AtEnd
<1>n. -1 \notin Fds
  BY NoneIsNone
<1>1. CASE EntryBegins
  BY <1>1 DEF EntryBegins, fdVars
<1>2. CASE Tests
  BY <1>2 DEF Tests, fdVars
<1>3. CASE Polls
  BY <1>3 DEF Polls, fdVars
<1>4. CASE ReadsPipe
  BY <1>4 DEF ReadsPipe, fdVars
<1>5. CASE Accepts
  <2>1. Free # {} => Lowest(Free) \in Free
    BY LowestIsOne DEF Free
  <2> QED
    BY <1>5, <2>1 DEF Accepts, Free, Owners
<1>6. CASE Leaves
  BY <1>6, <1>n DEF Leaves, Closes, Owners
<1>7. CASE ForgetsPipe
  BY <1>7, <1>n DEF ForgetsPipe
<1> QED
  BY <1>1, <1>2, <1>3, <1>4, <1>5, <1>6, <1>7 DEF ThreadSteps

\* What it means for the property.
LEMMA AccepterInvImplies ==
    ASSUME AccepterAssumption, AccepterInv PROVE OwnDescriptors
<1> USE DEF AccepterInv, Owns, Running, Phases, Open
<1>1. -1 \notin Fds
  BY NoneIsNone
<1>2. ~hit
  OBVIOUS
<1>3. ASSUME loop = "polls" PROVE fds[pfd.listen] = "listen" /\ fds[pfd.rd] = "rd"
  <2> DEFINE r == [listen |-> listen, rd |-> rd]
  <2>0. pfd = r /\ r.listen = listen /\ r.rd = rd
    BY <1>3
  <2>1. pfd.listen = listen /\ pfd.rd = rd
    BY <2>0
  <2>2. Open(listen, "listen") /\ Open(rd, "rd")
    BY <1>3
  <2> QED
    BY <2>1, <2>2
<1>4. \A f \in Fds : fds[f] \in {"rd", "wr"} => f = IF fds[f] = "rd" THEN rd ELSE wr
  OBVIOUS
<1>5. (call = "over" /\ wr = -1 /\ ~done) =>
        loop = "ended" /\ listen = -1 /\ \A f \in Fds : fds[f] \notin {"rd", "wr"}
  BY <1>1
<1> QED
  BY <1>2, <1>3, <1>4, <1>5 DEF OwnDescriptors

\* The accepter polls and closes descriptors of its own, and a stop() that had
\* something to stop leaves no thread and nothing open (accepter.cpp:220-431).
THEOREM DescriptorsOwned ==
    ASSUME AccepterAssumption PROVE Spec => []OwnDescriptors
<1>1. Init => AccepterInv
  BY AccepterInit
<1>2. AccepterInv /\ [Next]_vars => AccepterInv'
  <2>1. CASE UNCHANGED vars
    BY <2>1 DEF AccepterInv, Owns, Running, Phases, Open, AtEnd, vars, fdVars
  <2> QED
    BY <2>1, MessengerStep, ThreadStep, OthersStep DEF Next
<1>3. AccepterInv => OwnDescriptors
  BY AccepterInvImplies
<1> QED
  BY <1>1, <1>2, <1>3, PTL DEF Spec
=============================================================================
