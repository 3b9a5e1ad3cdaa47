----------------------------- MODULE InProgress -----------------------------
(***************************************************************************)
(* The table of requests in progress, src/libutils1/inprogress.cpp.  The   *)
(* constructor sets nothing in the memory it gets, so a slot may be in use *)
(* from the start.  A slot knows nobody's name: return_slot takes any      *)
(* number from anybody, also one that was given to another user since.     *)
(* magic, data and data2 are set and cleared together with inuse, never    *)
(* read, and left out.  No program of the repository uses the table yet.   *)
(***************************************************************************)
EXTENDS Integers, FiniteSets

CONSTANTS
    Users,      \* requests in progress
    n_items,    \* m_n_items: 100
    Outside     \* numbers past the table that a user may return

ASSUME InProgressAssumption ==
    /\ n_items \in Nat \ {0}
    /\ Outside \subseteq Nat \ (0 .. n_items - 1)

VARIABLES
    inuse,   \* per slot
    held,    \* per user: what alloc_slot gave it and it has not returned
    stray,   \* history: in use when the table was made, never returned since
    revoked  \* history: returned by another than a user who still holds it

tableVars == <<inuse, held, stray, revoked>>

Slots      == 0 .. n_items - 1
Holders(i) == {u \in Users : i \in held[u]}
Held       == {i \in Slots : Holders(i) # {}}

-----------------------------------------------------------------------------
(* Plausible errors, for mutation of the definitions that follow.          *)
Unused_All == Slots
-----------------------------------------------------------------------------
\* malloc: whether a slot is in use is what was there.
TableInit ==
    /\ inuse \in [Slots -> BOOLEAN]
    /\ held = [u \in Users |-> {}]
    /\ stray = {i \in Slots : inuse[i]}
    /\ revoked = {}

Unused == {i \in Slots : ~inuse[i]}

(* The first slot that is not in use.  Without one, -1 and no change.      *)
alloc_slot(u) ==
    \E i \in Unused :
        /\ \A j \in Unused : i <= j
        /\ inuse' = [inuse EXCEPT ![i] = TRUE]
        /\ held' = [held EXCEPT ![u] = @ \cup {i}]
        /\ UNCHANGED <<stray, revoked>>

(* return_slot of a number of the table, by its holder or not: the slot is *)
(* not in use any more, and the result tells whether it was.               *)
return_slot(u, i) ==
    /\ inuse' = [inuse EXCEPT ![i] = FALSE]
    /\ held' = [held EXCEPT ![u] = @ \ {i}]
    /\ stray' = stray \ {i}
    /\ revoked' = IF Holders(i) \subseteq {u} THEN revoked \ {i} ELSE revoked \cup {i}

\* return_slot of any other number: -1.
return_outside(i) == i >= n_items /\ UNCHANGED tableVars

TableNext ==
    \/ \E u \in Users : alloc_slot(u)
    \/ \E u \in Users, i \in Slots : return_slot(u, i)
    \/ \E i \in Outside : return_outside(i)

TableSpec == TableInit /\ [][TableNext]_tableVars

-----------------------------------------------------------------------------
(* Every variable has its type. *)
TableTypeOK ==
    /\ inuse \in [Slots -> BOOLEAN]
    /\ held \in [Users -> SUBSET Slots]
    /\ stray \subseteq Slots
    /\ revoked \subseteq Slots

(* A slot belongs to one user, and is in use until that user returns it -  *)
(* unless somebody else returned it: then it is given out again while the  *)
(* first user still has it.                                                *)
SharedOnlyIfRevoked ==
    \A i \in Held \ revoked : inuse[i] /\ \A u, v \in Holders(i) : u = v

(* That ends when all to whom the slot was given have returned it, in      *)
(* whatever order: nothing of a wrong return lasts.                        *)
RevokedIsHeld == revoked \subseteq Held

(* No slot is lost, whoever returns what: what is in use is held, or is    *)
(* what the table was made with.  So alloc_slot's -1 means that all slots  *)
(* but those are held.                                                     *)
InUseIsHeld ==
    /\ \A i \in Slots : inuse[i] => i \in Held \cup stray
    /\ \A i \in stray : inuse[i] /\ i \notin Held

(* Slots are neither shared nor lost, but for those returned by others     *)
(* than their holders, and those until all have returned them.             *)
SlotsAreKept == SharedOnlyIfRevoked /\ RevokedIsHeld /\ InUseIsHeld
=============================================================================
