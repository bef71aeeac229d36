------------------------------ MODULE Accepter ------------------------------
(***************************************************************************)
(* The thread that accepts connections (net/accepter.cpp): entry() polls   *)
(* the listening socket and a pipe, stop() wakes it through the pipe, and  *)
(* the messenger binds, starts, rebinds and stops it                       *)
(* (SimpleMessenger::bind, ready, rebind, wait).                           *)
(*                                                                         *)
(* A descriptor is the lowest number that is free, and the rest of the     *)
(* process opens descriptors too: whoever closes or polls a number that is *)
(* no longer his own may hit one of theirs.                                *)
(***************************************************************************)
EXTENDS Integers, FiniteSets

CONSTANTS
  Fds,          \* the descriptors there are
  MaxErrors,    \* accept() may fail that often in a row
  MaxBinds      \* bound: calls of bind() and rebind()

AccepterAssumption == Fds \subseteq Nat /\ IsFiniteSet(Fds) /\ MaxErrors \in Nat /\ MaxBinds \in Nat

VARIABLES
  fds,          \* whose each descriptor is
  listen, rd, wr,   \* _listen_fd, _shutdown_rd_fd, _shutdown_wr_fd; -1 for none
  done,         \* _done
  did_bind,     \* _did_bind
  woken,        \* whether a byte is in the pipe
  loop,         \* where entry() is; "ended" before create(), too
  pfd,          \* what it polls
  errors,       \* errors of accept() in a row
  call,         \* where the messenger is
  stop,         \* where it is in stop(); "none" outside
  binds,        \* calls of bind() and rebind() so far
  hit           \* whether a descriptor of somebody else was closed

fdVars == <<fds, listen, rd, wr, hit>>
vars == <<fdVars, done, did_bind, woken, loop, pfd, errors, call, stop, binds>>

Owners == {"free", "listen", "rd", "wr", "others"}
Free == {f \in Fds : fds[f] = "free"}
Lowest(S) == CHOOSE f \in S : \A g \in S : f <= g

\* close(f) by the accepter of a descriptor it takes for its own
Closes(f, whose) ==
  /\ fds' = [fds EXCEPT ![f] = "free"]
  /\ hit' = (hit \/ fds[f] # whose)

(***************************************************************************)
(* The rest of the process.                                                *)
(***************************************************************************)
Opens == /\ Free # {}
         /\ fds' = [fds EXCEPT ![Lowest(Free)] = "others"]
         /\ UNCHANGED <<listen, rd, wr, hit, done, did_bind, woken, loop, pfd, errors, call, stop, binds>>
ClosesTheirs ==
  \E f \in Fds :
    /\ fds[f] = "others"
    /\ fds' = [fds EXCEPT ![f] = "free"]
    /\ UNCHANGED <<listen, rd, wr, hit, done, did_bind, woken, loop, pfd, errors, call, stop, binds>>

(***************************************************************************)
(* bind() and start()                                                      *)
(***************************************************************************)
\* the messenger binds before it starts
CallBind ==
  /\ call = "new" /\ ~did_bind /\ binds < MaxBinds
  /\ binds' = binds + 1 /\ call' = "binds"
  /\ UNCHANGED <<fdVars, done, did_bind, woken, loop, pfd, errors, stop>>

\* every way out: a socket that listens and a pipe, or no socket, or no pipe
Bind ==
  /\ call \in {"binds", "rebinds"}
  /\ \/ /\ Cardinality(Free) >= 3
        /\ LET l == Lowest(Free)
               r == Lowest(Free \ {l})
               w == Lowest(Free \ {l, r})
           IN  /\ listen' = l /\ rd' = r /\ wr' = w
               /\ fds' = [fds EXCEPT ![l] = "listen", ![r] = "rd", ![w] = "wr"]
        /\ woken' = FALSE
        /\ IF call = "binds" THEN did_bind' = TRUE /\ call' = "new"
           ELSE call' = "starts" /\ UNCHANGED did_bind
     \/ /\ listen' = -1
        /\ call' = IF call = "binds" THEN "new" ELSE "runs"
        /\ UNCHANGED <<rd, wr, fds, woken, did_bind>>
     \/ /\ Free # {}
        /\ listen' = Lowest(Free) /\ fds' = [fds EXCEPT ![Lowest(Free)] = "listen"]
        /\ call' = IF call = "binds" THEN "new" ELSE "runs"
        /\ UNCHANGED <<rd, wr, woken, did_bind>>
  /\ UNCHANGED <<hit, done, loop, pfd, errors, stop, binds>>

\* SimpleMessenger::ready(), and start() at the end of rebind()
Start ==
  /\ call = "starts" \/ (call = "new" /\ did_bind)
  /\ loop' = "starts"
  /\ call' = "runs"
  /\ UNCHANGED <<fdVars, done, did_bind, woken, pfd, errors, stop, binds>>

(***************************************************************************)
(* entry()                                                                 *)
(***************************************************************************)
EntryBegins ==
  /\ loop = "starts"
  /\ errors' = 0 /\ pfd' = [listen |-> listen, rd |-> rd] /\ loop' = "tests"
  /\ UNCHANGED <<fdVars, done, did_bind, woken, call, binds, stop>>

\* the condition of the loop, and again when poll() has returned
Tests ==
  /\ loop = "tests"
  /\ loop' = IF done THEN "leaves" ELSE "polls"
  /\ UNCHANGED <<fdVars, done, did_bind, woken, pfd, errors, call, stop, binds>>

\* a signal, an error of the listening socket, the pipe, or a connection
Polls ==
  /\ loop = "polls"
  /\ \/ loop' = "tests"
     \/ loop' = "leaves"
     \/ (woken \/ wr = -1) /\ loop' = "reads"
     \/ ~woken /\ wr # -1 /\ loop' = IF done THEN "leaves" ELSE "accepts"
  /\ UNCHANGED <<fdVars, done, did_bind, woken, pfd, errors, call, stop, binds>>

ReadsPipe ==
  /\ loop = "reads"
  /\ woken' = FALSE /\ loop' = "leaves"
  /\ UNCHANGED <<fdVars, done, did_bind, pfd, errors, call, stop, binds>>

\* accept(): the descriptor is add_accept_socket()'s from here on
Accepts ==
  /\ loop = "accepts"
  /\ \/ /\ Free # {}
        /\ fds' = [fds EXCEPT ![Lowest(Free)] = "others"]
        /\ errors' = 0 /\ loop' = "tests"
     \/ /\ errors' = errors + 1
        /\ loop' = IF errors' > MaxErrors THEN "leaves" ELSE "tests"
        /\ UNCHANGED fds
  /\ UNCHANGED <<listen, rd, wr, hit, done, did_bind, woken, pfd, call, binds, stop>>

Leaves ==
  /\ loop = "leaves"
  /\ IF rd # -1 THEN Closes(rd, "rd") /\ loop' = "closed" ELSE UNCHANGED <<fds, hit>> /\ loop' = "ended"
  /\ UNCHANGED <<listen, rd, wr, done, did_bind, woken, pfd, errors, call, stop, binds>>

ForgetsPipe ==
  /\ loop = "closed"
  /\ rd' = -1 /\ loop' = "ended"
  /\ UNCHANGED <<fds, listen, wr, hit, done, did_bind, woken, pfd, errors, call, stop, binds>>

(***************************************************************************)
(* stop()                                                                  *)
(***************************************************************************)
\* rebind() stops first; wait() stops for good
CallStop ==
  /\ call = "runs" /\ did_bind
  /\ \/ binds < MaxBinds /\ binds' = binds + 1 /\ call' = "rebind"
     \/ call' = "wait" /\ UNCHANGED binds
  /\ stop' = "marks"
  /\ UNCHANGED <<fdVars, done, did_bind, woken, loop, pfd, errors>>

\* stop() is over: rebind() goes on, wait() is done with the accepter
Returns ==
  IF call = "rebind" THEN call' = "rebinds" /\ UNCHANGED did_bind
  ELSE call' = "over" /\ did_bind' = FALSE

\* without a pipe stop() returns, and leaves _done set
Marks ==
  /\ stop = "marks"
  /\ done' = TRUE
  /\ IF wr = -1 THEN stop' = "none" /\ Returns ELSE stop' = "wakes" /\ UNCHANGED <<call, did_bind>>
  /\ UNCHANGED <<fdVars, woken, loop, pfd, errors, binds>>

\* safe_write(): into a pipe nobody reads it raises SIGPIPE, which ends the process
Wakes ==
  /\ stop = "wakes"
  /\ IF \E f \in Fds : fds[f] = "rd"
     THEN woken' = TRUE /\ stop' = "closes wr" /\ UNCHANGED call
     ELSE stop' = "none" /\ call' = "killed" /\ UNCHANGED woken
  /\ UNCHANGED <<fdVars, done, did_bind, loop, pfd, errors, binds>>

ClosesWr ==
  /\ stop = "closes wr"
  /\ Closes(wr, "wr") /\ wr' = -1
  /\ stop' = "joins"
  /\ UNCHANGED <<listen, rd, done, did_bind, woken, loop, pfd, errors, call, binds>>

\* (mutant) The thread is not waited for.
JoinableAtOnce == TRUE

\* pthread_join() returns when the thread has ended
Joinable == loop = "ended"

Joins ==
  /\ stop = "joins" /\ Joinable
  /\ stop' = "closes listen"
  /\ UNCHANGED <<fdVars, done, did_bind, woken, loop, pfd, errors, call, binds>>

ClosesListen ==
  /\ stop = "closes listen"
  /\ IF listen # -1 THEN Closes(listen, "listen") /\ listen' = -1 ELSE UNCHANGED <<fds, hit, listen>>
  /\ stop' = "closes rd"
  /\ UNCHANGED <<rd, wr, done, did_bind, woken, loop, pfd, errors, call, binds>>

ClosesRd ==
  /\ stop = "closes rd"
  /\ IF rd # -1 THEN Closes(rd, "rd") /\ rd' = -1 ELSE UNCHANGED <<fds, hit, rd>>
  /\ done' = FALSE
  /\ stop' = "none" /\ Returns
  /\ UNCHANGED <<listen, wr, woken, loop, pfd, errors, binds>>

(***************************************************************************)
(* The specification.                                                      *)
(***************************************************************************)
Init ==
  /\ fds = [f \in Fds |-> "free"]
  /\ listen = -1 /\ rd = -1 /\ wr = -1
  /\ done = FALSE /\ did_bind = FALSE /\ woken = FALSE
  /\ loop = "ended" /\ pfd = [listen |-> -1, rd |-> -1] /\ errors = 0
  /\ call = "new" /\ stop = "none" /\ binds = 0 /\ hit = FALSE

MessengerSteps ==
  \/ CallBind \/ Bind \/ Start \/ CallStop
  \/ Marks \/ Wakes \/ ClosesWr \/ Joins \/ ClosesListen \/ ClosesRd
ThreadSteps ==
  \/ EntryBegins \/ Tests \/ Polls \/ ReadsPipe \/ Accepts \/ Leaves \/ ForgetsPipe
OtherSteps == Opens \/ ClosesTheirs

Next == call # "killed" /\ (MessengerSteps \/ ThreadSteps \/ OtherSteps)

Spec == Init /\ [][Next]_vars

(***************************************************************************)
(* Properties.                                                             *)
(***************************************************************************)

\* The accepter polls and closes descriptors that are its own, although
\* thread and stop() both close the end of the pipe that is read and the
\* process reuses its number at once; and when a stop() that had something to
\* stop is over, the thread has ended and nothing the last bind() opened is
\* left.
OwnDescriptors ==
  /\ ~hit
  /\ loop = "polls" => fds[pfd.listen] = "listen" /\ fds[pfd.rd] = "rd"
  /\ \A f \in Fds : fds[f] \in {"rd", "wr"} => f = IF fds[f] = "rd" THEN rd ELSE wr
  /\ (call = "over" /\ wr = -1 /\ ~done) =>
       loop = "ended" /\ listen = -1 /\ \A f \in Fds : fds[f] \notin {"rd", "wr"}
=============================================================================
