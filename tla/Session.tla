------------------------------- MODULE Session -------------------------------
(***************************************************************************)
(* The outbound session table of src/appcmn1/session.cpp, and the reply    *)
(* handler of src/appcmn1/pbcommon.cpp that completes a session.           *)
(*                                                                         *)
(* make_new_session takes a session id from a pool and stores the caller's *)
(* data and magic in the vector ob_sessions; handle_std_reply looks the    *)
(* session of an incoming reply up by its id, compares the magic, runs the *)
(* callback the session holds and puts the id back into the pool.          *)
(*                                                                         *)
(* This module has the state and the operations.  The callers are in       *)
(* SessionPeer (any peer that echoes what it was sent) and in Rpc.         *)
(***************************************************************************)
EXTENDS Integers, Sequences

CONSTANTS
    Chunk,        \* ids that create_free_sids adds at a time: 10
    MaxSessions,  \* elements ob_sessions is resized to: 1000
    MaxRequests,  \* bound: sessions made in one behaviour
    Magics        \* the values of rand() used as random_id

ASSUME SessionAssumption ==
    /\ Chunk \in Nat \ {0}
    /\ MaxSessions \in Nat \ {0}
    /\ MaxRequests \in Nat
    /\ \E k \in 1 .. MaxSessions : MaxSessions = Chunk * k    \* 1000 = 10 * 100

(* rand() may return 0, once in 2^31 calls.  A session with magic 0 is not *)
(* invalidated by find_stored_session, so a second answer to it would      *)
(* match too: 0 is left out.                                               *)
ASSUME MagicAssumption == Magics \subseteq Nat \ {0}

VARIABLES
    free_list,        \* list of free ids, taken from the front
    used_list,        \* ids handed out; only membership is ever used
    current_max_sid,  \* the next id create_free_sids will add
    ob_sessions,      \* the vector, element 0 first
    overrun,          \* ob_sessions was written past its end: undefined from here on
    made,             \* history: number of sessions made
    calls             \* history: how often the callback of each session has run

sessionVars ==
    <<free_list, used_list, current_max_sid, ob_sessions, overrun, made, calls>>

Requests == 1 .. MaxRequests
Slots    == 0 .. (MaxSessions - 1)

(***************************************************************************)
(* A session: the magic its reply must carry and the data its callback     *)
(* gets back.  `data' is the number of the request the caller made, so a   *)
(* callback that runs for another request shows.  0 is the magic of an     *)
(* element that resize() made or that find_stored_session invalidated.     *)
(***************************************************************************)
NoSession == [magic |-> 0, data |-> 0]

SessionInit ==
    /\ free_list = << >>
    /\ used_list = {}
    /\ current_max_sid = 0
    /\ ob_sessions = [s \in Slots |-> NoSession]
    /\ overrun = FALSE
    /\ made = 0
    /\ calls = [r \in Requests |-> 0]

-----------------------------------------------------------------------------
(* Plausible errors in the operations, for mutation of the definitions     *)
(* that follow.                                                            *)

Matches_Always(sid, magic)  == TRUE
Invalidated_Kept(session)   == session
returned_Lost(sid)          == free_list
max_after_create_Same(max)  == max
-----------------------------------------------------------------------------

(* The ids that create_free_sids pushes, and the maximum it leaves. *)
create_free_sids(max) == [i \in 1 .. Chunk |-> max + i - 1]
max_after_create(max) == max + Chunk

(* The list find_free_sid takes the front of: refilled when it was empty. *)
RefilledList ==
    IF free_list = << >> THEN create_free_sids(current_max_sid) ELSE free_list

find_free_sid == Head(RefilledList)

(***************************************************************************)
(* make_new_session.  An id at or past the end of the vector is stored     *)
(* with operator[], outside the vector.                                    *)
(***************************************************************************)
make_new_session(data, magic) ==
    LET sid == find_free_sid IN
    /\ free_list' = Tail(RefilledList)
    /\ used_list' = used_list \cup {sid}
    /\ current_max_sid' = IF free_list = << >> THEN max_after_create(current_max_sid)
                                               ELSE current_max_sid
    /\ ob_sessions' = [s \in Slots |-> IF s = sid THEN [magic |-> magic, data |-> data]
                                               ELSE ob_sessions[s]]
    /\ overrun' = (sid \notin Slots)
    /\ made' = made + 1
    /\ UNCHANGED calls

(* find_stored_session compares the magic, copies the element, and zeroes its magic. *)
Matches(sid, magic)  == ob_sessions[sid].magic = magic
Invalidated(session) == [session EXCEPT !.magic = 0]

(* The free list after return_sid. *)
returned(sid) == Append(free_list, sid)

(***************************************************************************)
(* handle_std_reply: a reply whose magic does not match is dropped         *)
(* ("Stored session not found"), any other runs the callback and gives the *)
(* id back.                                                                *)
(***************************************************************************)
handle_std_reply(sid, magic) ==
    IF Matches(sid, magic)
    THEN /\ ob_sessions' = [ob_sessions EXCEPT ![sid] = Invalidated(@)]
         /\ calls' = [calls EXCEPT ![ob_sessions[sid].data] = @ + 1]
         /\ used_list' = used_list \ {sid}
         /\ free_list' = returned(sid)
         /\ UNCHANGED <<current_max_sid, overrun, made>>
    ELSE UNCHANGED sessionVars

-----------------------------------------------------------------------------
(* Every variable of the table has its type.                               *)
SessionTypeOK ==
    /\ free_list \in Seq(Nat)
    /\ used_list \subseteq Nat
    /\ current_max_sid \in Nat
    /\ ob_sessions \in [Slots -> [magic : Magics \cup {0}, data : 0 .. MaxRequests]]
    /\ overrun \in BOOLEAN
    /\ made \in 0 .. MaxRequests
    /\ calls \in [Requests -> Nat]

(* The ids below max are split between a free list, which holds each id    *)
(* once, and the ids in use.                                               *)
Pool(free, used, max) ==
    /\ \A i, j \in 1 .. Len(free) : free[i] = free[j] => i = j
    /\ \A i \in 1 .. Len(free) : free[i] \notin used
    /\ used \cup {free[i] : i \in 1 .. Len(free)} = 0 .. (max - 1)

(* No id is ever lost or held twice, however replies are repeated: all the *)
(* ids create_free_sids added are in the free list, once, or in use.       *)
SidsConserved == Pool(free_list, used_list, current_max_sid)

(* ob_sessions is only written past its end when every element of it is    *)
(* taken: create_free_sids adds its last ten ids exactly at the end.       *)
OverrunOnlyWhenFull == overrun => Slots \subseteq used_list

Lease == INSTANCE SessionLease WITH
    Sids <- Slots, Reqs <- Requests, answers <- calls,
    lease <- {[sid |-> s, req |-> ob_sessions[s].data] : s \in used_list \cap Slots}

(* The table implements the abstract promise: an outstanding request has   *)
(* an id of its own and its callback runs at most once.                    *)
LeaseSpec == Lease!Spec
=============================================================================
