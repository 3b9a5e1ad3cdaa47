------------------------------ MODULE EpollLoop ------------------------------
(***************************************************************************)
(* The event loop of src/libcommon/libcommon.cpp: a table of slots, an     *)
(* epoll instance that knows each descriptor by its slot, and batches of   *)
(* events that are handed one by one to the listener in the slot.  The     *)
(* loop, its callbacks and what main does before run() are one thread.     *)
(*                                                                         *)
(* A callback may open, add, read, close and delete descriptors.           *)
(* deleteFromEventLoop has no caller yet: it is private, and deleteFd,     *)
(* declared for the purpose, is not defined.                               *)
(*                                                                         *)
(* Every open file has a number of its own; descriptors are used again.    *)
(***************************************************************************)
EXTENDS Integers, Sequences, FiniteSets, SequencesExt

CONSTANTS
    Fds,        \* descriptors that are free when main starts, without 0 as a rule
    MaxSlots,   \* MAX_FD_IN_LOOP
    MaxEvents,  \* MAX_EVENTS
    MaxFiles,   \* bound: files opened in one behaviour
    MaxBroken   \* bound: files broken at a time

ASSUME EpollAssumption ==
    /\ Fds \subseteq Nat
    /\ {MaxSlots, MaxEvents, MaxFiles} \subseteq Nat \ {0}
    /\ MaxBroken \in Nat

VARIABLES
    file,       \* the file of each descriptor, 0 if it is closed
    opened,     \* files opened so far
    readable,   \* the files recv would not block on
    broken,     \* the files with EPOLLERR or EPOLLHUP
    watch,      \* what epoll watches: a set of [file, fd, slot]
    ready,      \* epoll's list of watched files with events
    fds,        \* the descriptor in each slot, 0 if the slot is free
    listeners,  \* whose listener and userData the slot holds: a file, 0 for NULL
    events,     \* the rest of the batch: [slot, error], and the file as history
    call,       \* the callback that runs: its listener, and the file
    at,         \* "app": in main or a callback; "loop", "exit", "crash"
    zero,       \* history: descriptor 0 has been added
    deleted     \* history: files whose slots were freed since epoll_wait returned

vars == <<file, opened, readable, broken, watch, ready, fds, listeners,
          events, call, at, zero, deleted>>

Slots == 0 .. MaxSlots - 1
Files == 1 .. MaxFiles

NoCall    == [listener |-> 0, file |-> 0]
Watched   == {w.file : w \in watch}
OpenFiles == {file[fd] : fd \in Fds} \ {0}

First(x, S) == \A y \in S : x <= y

-----------------------------------------------------------------------------
(* Plausible errors, for mutation of the definitions that follow.          *)
Usable_Any                  == Slots
Token_Descriptor(fd, slot)  == fd
Interest_Edge               == {"EPOLLIN", "EPOLLET"}
-----------------------------------------------------------------------------
Init ==
    /\ file = [fd \in Fds |-> 0] /\ opened = 0
    /\ readable = {} /\ broken = {} /\ watch = {} /\ ready = << >>
    /\ fds = [s \in Slots |-> 0]
    /\ listeners = [s \in Slots |-> 0]
    /\ events = << >> /\ call = NoCall /\ at = "app"
    /\ zero = FALSE /\ deleted = {}

Listed(f, list) == IF f \in ToSet(list) THEN list ELSE Append(list, f)
HasEvents(f)    == f \in readable \cup broken
Pending(f)      == f \in Watched /\ HasEvents(f)

(* Data arrives, or the other end hangs up. *)
Happens(f) ==
    /\ f \in OpenFiles /\ at \in {"app", "loop"}
    /\ \/ f \notin readable /\ readable' = readable \cup {f} /\ UNCHANGED broken
       \/ /\ f \notin broken /\ Cardinality(broken) < MaxBroken
          /\ broken' = broken \cup {f} /\ UNCHANGED readable
    /\ ready' = IF f \in Watched THEN Listed(f, ready) ELSE ready
    /\ UNCHANGED <<file, opened, watch, fds, listeners, events, call, at, zero, deleted>>

-----------------------------------------------------------------------------
\* open, socket, accept: the lowest descriptor that is free.
Open ==
    /\ at = "app"
    /\ opened < MaxFiles
    /\ \E fd \in Fds :
          /\ file[fd] = 0 /\ First(fd, {d \in Fds : file[d] = 0})
          /\ file' = [file EXCEPT ![fd] = opened + 1]
    /\ opened' = opened + 1
    /\ UNCHANGED <<readable, broken, watch, ready, fds, listeners,
                   events, call, at, zero, deleted>>

(* A slot is free if its descriptor is 0. *)
Usable == {s \in Slots : fds[s] = 0}

Used(table, slot, x) == [table EXCEPT ![slot] = x]
Freed(table, slot)   == [table EXCEPT ![slot] = 0]

\* addToEventLoop: what epoll is asked for, and what it reports events by.
Interest        == {"EPOLLIN"}
Token(fd, slot) == slot

(* addFd.  Without a free slot nothing changes.  EPOLL_CTL_ADD fails if the *)
(* descriptor is closed or watched already, and the slot is freed again.   *)
addFd(fd) ==
    LET f == file[fd]
    IN  /\ at = "app"
        /\ \E slot \in Usable :
              /\ First(slot, Usable)
              /\ \/ /\ f # 0 /\ f \notin Watched
                    /\ fds' = Used(fds, slot, fd)
                    /\ listeners' = Used(listeners, slot, f)
                    /\ watch' = watch \cup {[file |-> f, fd |-> fd, slot |-> Token(fd, slot)]}
                    /\ ready' = IF HasEvents(f) THEN Listed(f, ready) ELSE ready
                    /\ zero' = (zero \/ fd = 0)
                 \/ /\ f = 0 \/ f \in Watched
                    /\ fds' = Freed(fds, slot)
                    /\ listeners' = Freed(listeners, slot)
                    /\ UNCHANGED <<watch, ready, zero>>
        /\ UNCHANGED <<file, opened, readable, broken, events, call, at, deleted>>

(* deleteFromEventLoop2, once the slot is free. *)
Unwatched(fd) == {w \in watch : w.fd # fd}
Unlisted(fd)  ==
    LET places == {i \in 1 .. Len(ready) : ready[i] = file[fd]}
    IN  IF places = {} THEN ready ELSE RemoveAt(ready, CHOOSE i \in places : TRUE)

\* The first slot with the descriptor is freed.
deleteFromEventLoop(fd) ==
    /\ at = "app"
    /\ fd > 0
    /\ \E slot \in Slots :
          /\ fds[slot] = fd /\ First(slot, {s \in Slots : fds[s] = fd})
          /\ fds' = Freed(fds, slot)
          /\ listeners' = Freed(listeners, slot)
          /\ deleted' = deleted \cup ({listeners[slot]} \ {0})
    /\ watch' = Unwatched(fd)
    /\ ready' = Unlisted(fd)
    /\ UNCHANGED <<file, opened, readable, broken, events, call, at, zero>>

\* close: epoll forgets the file and what it listed, the table does not.
Close(fd) ==
    /\ at = "app"
    /\ file[fd] # 0
    /\ file' = [file EXCEPT ![fd] = 0]
    /\ watch' = {w \in watch : w.fd # fd}
    /\ ready' = Unlisted(fd)
    /\ readable' = readable \ {file[fd]}
    /\ broken' = broken \ {file[fd]}
    /\ UNCHANGED <<opened, fds, listeners, events, call, at, zero, deleted>>

(* process_event: the message is taken from the socket in userData.        *)
Receive ==
    /\ at = "app"
    /\ call.listener \in readable
    /\ readable' = readable \ {call.listener}
    /\ UNCHANGED <<file, opened, broken, watch, ready, fds, listeners,
                   events, call, at, zero, deleted>>

\* A callback returns, or main calls run().
Return ==
    /\ at = "app"
    /\ at' = "loop"
    /\ call' = NoCall
    /\ UNCHANGED <<file, opened, readable, broken, watch, ready, fds, listeners,
                   events, zero, deleted>>

(* epoll_wait walks its list and drops what has no events any more.        *)
Forget ==
    /\ at = "loop" /\ events = << >>
    /\ \E i \in 1 .. Len(ready) :
          /\ ~Pending(ready[i]) /\ First(i, {j \in 1 .. Len(ready) : ~Pending(ready[j])})
          /\ ready' = RemoveAt(ready, i)
    /\ UNCHANGED <<file, opened, readable, broken, watch, fds, listeners,
                   events, call, at, zero, deleted>>

\* What it reports goes to the end of the list, unless asked for edges only.
Requeued(batch, rest) == IF "EPOLLET" \in Interest THEN rest ELSE rest \o batch

Event(f) ==
    [slot |-> (CHOOSE w \in watch : w.file = f).slot, error |-> f \in broken, file |-> f]

epoll_wait ==
    LET n == IF Len(ready) < MaxEvents THEN Len(ready) ELSE MaxEvents
    IN  /\ at = "loop" /\ events = << >>
        /\ ready # << >> /\ \A i \in 1 .. Len(ready) : Pending(ready[i])
        /\ events' = [i \in 1 .. n |-> Event(ready[i])]
        /\ ready' = Requeued(SubSeq(ready, 1, n), SubSeq(ready, n + 1, Len(ready)))
        /\ deleted' = {}
        /\ UNCHANGED <<file, opened, readable, broken, watch, fds, listeners, call, at, zero>>

(* One turn of the loop over the batch: an error ends the program, a slot  *)
(* without a listener is dereferenced all the same.  (A listener without a *)
(* callback would drop the event; the listeners of the repository have     *)
(* one.)                                                                   *)
Dispatch ==
    LET e == Head(events)
    IN  /\ at = "loop" /\ events # << >>
        /\ events' = Tail(events)
        /\ IF e.error THEN at' = "exit" /\ UNCHANGED call
           ELSE /\ call' = [listener |-> listeners[e.slot], file |-> e.file]
                /\ at' = IF listeners[e.slot] = 0 THEN "crash" ELSE "app"
        /\ UNCHANGED <<file, opened, readable, broken, watch, ready, fds, listeners,
                       zero, deleted>>

Next ==
    \/ \E f \in Files : Happens(f)
    \/ Open
    \/ \E fd \in Fds : addFd(fd)
    \/ \E fd \in Fds : deleteFromEventLoop(fd)
    \/ \E fd \in Fds : Close(fd)
    \/ Receive
    \/ Return
    \/ Forget
    \/ epoll_wait
    \/ Dispatch

(* Callbacks return and the loop goes on. *)
Fairness == WF_vars(Return) /\ WF_vars(Forget) /\ WF_vars(epoll_wait) /\ WF_vars(Dispatch)

Spec == Init /\ [][Next]_vars /\ Fairness

-----------------------------------------------------------------------------
(* Every variable has its type. *)
TypeOK ==
    /\ file \in [Fds -> Files \cup {0}] /\ opened \in 0 .. MaxFiles
    /\ readable \subseteq Files /\ broken \subseteq Files
    /\ watch \subseteq [file : Files, fd : Fds, slot : Slots]
    /\ ready \in Seq(Files)
    /\ fds \in [Slots -> Fds \cup {0}] /\ listeners \in [Slots -> Files \cup {0}]
    /\ events \in Seq([slot : Slots, error : BOOLEAN, file : Files])
    /\ call \in [listener : Files \cup {0}, file : Files \cup {0}]
    /\ at \in {"app", "loop", "exit", "crash"}
    /\ zero \in BOOLEAN /\ deleted \subseteq Files

(* The table and epoll agree: what epoll watches is in the slot it was     *)
(* given, with its own descriptor and listener, whatever was closed,       *)
(* reopened under the same number, refused or deleted meanwhile - as long  *)
(* as nobody adds descriptor 0, which is how a free slot is marked.        *)
WatchedInTheirSlots ==
    zero \/ \A w \in watch : fds[w.slot] = w.fd /\ listeners[w.slot] = w.file

(* An event reaches the listener that was added for its file, also when a  *)
(* callback before it in the batch closed the file and used the number     *)
(* again.  Only freeing its slot between can change that (the loop then    *)
(* uses a null listener, or another), and descriptor 0.                    *)
EventsReachTheirListener ==
    call # NoCall => \/ zero
                     \/ call.listener = call.file
                     \/ call.file \in deleted

(* A file that can be read is handed to a callback in the end, however     *)
(* busy the others are and however small the batches, unless it is not     *)
(* watched any more or the program is gone.                                *)
ReadyIsDispatched ==
    \A f \in Files :
        f \in Watched /\ f \in readable
          ~> call.file = f \/ f \notin Watched \/ f \notin readable \/ at \in {"exit", "crash"}
=============================================================================
