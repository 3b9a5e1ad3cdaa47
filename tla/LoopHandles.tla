---------------------------- MODULE LoopHandles ----------------------------
(***************************************************************************)
(* The memory of the handles of a server's loop: the connections           *)
(* onNewConnection of src/libcmn2 accepts and readData closes, and the     *)
(* timers src/appcmn1 allocates for delayed responses.  libuv knows a      *)
(* handle from its init until it has called the close callback, in a later *)
(* turn of the loop than uv_close, and wants the memory until then.        *)
(*                                                                         *)
(* Two places free a handle libuv knows.  From then on, whenever libuv     *)
(* changes its list of handles, it may read or write memory that is not    *)
(* its own: what follows is as before, or corrupted, where the behaviour   *)
(* ends.                                                                   *)
(***************************************************************************)
EXTENDS Naturals

CONSTANTS
    Conns,   \* connections clients make, each once
    Timers   \* delayed-response requests, each a timer

ASSUME HandlesAssumption == Conns \cap Timers = {}

VARIABLES
    conn,       \* "none", "open", "closing", "closed"
    timer,      \* the connection a timer replies to, the timer itself if none
    ended,      \* connections whose client has gone
    memory,     \* handles that are allocated
    known,      \* handles in libuv's list
    corrupted   \* libuv used memory that was freed

vars == <<conn, timer, ended, memory, known, corrupted>>

Running == ~corrupted
Pending == {t \in Timers : timer[t] \in Conns}

-----------------------------------------------------------------------------
(* Plausible errors, for mutation of the definitions that follow.          *)
AfterCloseCb_Freed(c) == memory \ {c}
AfterUvClose_Freed(c) == memory \ {c}
-----------------------------------------------------------------------------
Init ==
    /\ conn = [c \in Conns |-> "none"]
    /\ timer = [t \in Timers |-> t]
    /\ ended = {} /\ memory = {} /\ known = {} /\ corrupted = FALSE

\* libuv adds to its list of handles, or removes from it.
ListIsUsed == corrupted' \in (IF known \subseteq memory THEN {FALSE} ELSE BOOLEAN)

(* onNewConnection: a handle for the connection, unless uv_accept fails,   *)
(* after which it is closed and freed in one go.                           *)
onNewConnection(c) ==
    /\ Running /\ conn[c] = "none"
    /\ known' = known \cup {c}
    /\ ListIsUsed
    /\ \/ conn' = [conn EXCEPT ![c] = "open"] /\ memory' = memory \cup {c}
       \/ conn' = [conn EXCEPT ![c] = "closing"] /\ UNCHANGED memory
    /\ UNCHANGED <<timer, ended>>

ClientGoes(c) ==
    /\ Running /\ conn[c] = "open" /\ c \notin ended
    /\ ended' = ended \cup {c}
    /\ UNCHANGED <<conn, timer, memory, known, corrupted>>

AfterEof        == "closing"
AfterUvClose(c) == memory

\* readData with nread -1: uv_close, and nothing is freed.
Eof(c) ==
    /\ Running /\ conn[c] = "open" /\ c \in ended
    /\ conn' = [conn EXCEPT ![c] = AfterEof]
    /\ memory' = AfterUvClose(c)
    /\ UNCHANGED <<timer, ended, known, corrupted>>

(* client_close_cb frees neither the handle nor its buffer.                *)
AfterCloseCb(c) == memory

Forgotten(h) == known \ {h}

\* libuv finishes what was closed, and calls client_close_cb.
FinishClose(c) ==
    /\ Running /\ conn[c] = "closing"
    /\ conn' = [conn EXCEPT ![c] = "closed"]
    /\ known' = Forgotten(c)
    /\ memory' = AfterCloseCb(c)
    /\ ListIsUsed
    /\ UNCHANGED <<timer, ended>>

(* start_new_timer, for a request that was read from c.                    *)
start_new_timer(t, c) ==
    /\ Running /\ conn[c] = "open" /\ timer[t] = t /\ t \notin known
    /\ timer' = [timer EXCEPT ![t] = c]
    /\ memory' = memory \cup {t}
    /\ known' = known \cup {t}
    /\ ListIsUsed
    /\ UNCHANGED <<conn, ended>>

Expired(t) == [timer EXCEPT ![t] = t]

(* delayed_response_cb: uv_write to the connection, which fails if it was  *)
(* closed; then the timer is freed, without uv_close.                      *)
delayed_response_cb(t) ==
    /\ Running /\ t \in Pending
    /\ timer' = Expired(t)
    /\ memory' = memory \ {t}
    /\ corrupted' \in (IF {t, timer[t]} \subseteq memory THEN {FALSE} ELSE BOOLEAN)
    /\ UNCHANGED <<conn, ended, known>>

Next ==
    \/ \E c \in Conns : onNewConnection(c) \/ ClientGoes(c) \/ Eof(c) \/ FinishClose(c)
    \/ \E t \in Timers, c \in Conns : start_new_timer(t, c)
    \/ \E t \in Timers : delayed_response_cb(t)

Spec == Init /\ [][Next]_vars

-----------------------------------------------------------------------------
(* Every variable has its type. *)
TypeOK ==
    /\ conn \in [Conns -> {"none", "open", "closing", "closed"}]
    /\ timer \in [Timers -> Conns \cup Timers] /\ \A t \in Timers : timer[t] \in Conns \cup {t}
    /\ ended \subseteq Conns
    /\ memory \subseteq Conns \cup Timers /\ known \subseteq Conns \cup Timers
    /\ corrupted \in BOOLEAN

(* A timer replies to a connection whose handle is there, also when it was *)
(* closed long before: uv_write then fails, and does no harm.  This is why *)
(* client_close_cb may not free what it is given.                          *)
RepliesFindTheirHandle ==
    \A t \in Pending : {t, timer[t]} \subseteq memory

(* Harm comes from two places only: every handle libuv knows is in memory, *)
(* but for timers that have replied and connections that were refused,     *)
(* which nobody replies to.                                                *)
OnlyThoseAreMissed ==
    \A h \in known \ memory :
        \/ h \in Timers \ Pending
        \/ h \in Conns /\ conn[h] = "closing" /\ h \notin ended /\ \A t \in Timers : timer[t] # h
=============================================================================
