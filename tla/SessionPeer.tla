---------------------------- MODULE SessionPeer ----------------------------
(***************************************************************************)
(* The session table with the least friendly peer the protocol allows: it  *)
(* only ever sends back a session_id and a random_id it was sent, but as   *)
(* late, as often and in whatever order it likes.  An honest server        *)
(* (DelayedReply) answers once; the table must keep its promise to the     *)
(* caller without relying on that, which is what the magic is for.         *)
(***************************************************************************)
EXTENDS Session

VARIABLE echo     \* every [sid, magic, req] the peer was sent

peerVars == <<sessionVars, echo>>

Echoes == [sid : Slots, magic : Magics, req : Requests]

PeerInit == SessionInit /\ echo = {}

(* Left out, like 0: that the same id draws the same number twice.         *)
MagicFresh(sid, magic) == \A e \in echo : e.sid = sid => e.magic # magic

\* delayed_response_test: a session is made and its id and magic go to the peer.
MakeRequest(magic) ==
    /\ ~overrun
    /\ made < MaxRequests
    /\ MagicFresh(find_free_sid, magic)
    /\ make_new_session(made + 1, magic)
    /\ echo' = IF find_free_sid \in Slots
               THEN echo \cup {[sid |-> find_free_sid, magic |-> magic, req |-> made + 1]}
               ELSE echo

\* A standard reply that carries the id and the magic of some earlier request.
StdReply(e) ==
    /\ ~overrun
    /\ handle_std_reply(e.sid, e.magic)
    /\ UNCHANGED echo

PeerNext ==
    \/ \E magic \in Magics : MakeRequest(magic)
    \/ \E e \in echo : StdReply(e)

PeerSpec == PeerInit /\ [][PeerNext]_peerVars

-----------------------------------------------------------------------------
(* Every variable has its type. *)
PeerTypeOK == SessionTypeOK /\ echo \subseteq Echoes

(* A reply that find_stored_session lets through is for the request that   *)
(* holds the id now, never for an earlier one that had the same id: the    *)
(* callback then runs with the data of the right request.                  *)
NoForeignReply ==
    \A e \in echo : Matches(e.sid, e.magic) =>
        /\ e.sid \in used_list
        /\ ob_sessions[e.sid].data = e.req
        /\ calls[e.req] = 0
=============================================================================
