---------------------------- MODULE SessionLease ----------------------------
(***************************************************************************)
(* What the session table of src/appcmn1 promises to whoever makes a       *)
(* request with make_new_session: while a request is outstanding it holds  *)
(* a session id of its own, and its callback runs at most once, for that   *)
(* request and at the moment its id becomes free.  Session ids, magics and *)
(* free lists are how session.cpp keeps the promise; none of them is here. *)
(***************************************************************************)
EXTENDS Naturals

CONSTANTS Sids, Reqs

VARIABLES
    lease,    \* the outstanding requests and the ids they hold: a set of [sid, req]
    answers   \* how often the callback of each request has run

Leases == [sid : Sids, req : Reqs]

Init ==
    /\ lease = {}
    /\ answers = [r \in Reqs |-> 0]

\* A request that was never made gets an id that no outstanding request holds.
Grant(s, r) ==
    /\ \A l \in lease : l.sid # s /\ l.req # r
    /\ answers[r] = 0
    /\ lease' = lease \cup {[sid |-> s, req |-> r]}
    /\ UNCHANGED answers

\* An outstanding request is answered and gives its id up.
Answer(l) ==
    /\ lease' = lease \ {l}
    /\ answers' = [answers EXCEPT ![l.req] = @ + 1]

Next ==
    \/ \E s \in Sids, r \in Reqs : Grant(s, r)
    \/ \E l \in lease : Answer(l)

Spec == Init /\ [][Next]_<<lease, answers>>

=============================================================================
