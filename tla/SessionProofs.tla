--------------------------- MODULE SessionProofs ---------------------------
(***************************************************************************)
(* Proofs about the session table: with any peer that echoes what it was   *)
(* sent (SessionPeer), and with the configuration agent, its connections   *)
(* and its servers (Rpc).  For every size of the table and of its chunks,  *)
(* every set of magics and servers, every burst and number of requests.    *)
(***************************************************************************)
EXTENDS SessionPeer, Rpc, SequenceTheorems, TLAPS

-----------------------------------------------------------------------------
(* The pool.  Ids are added when none is free, taken from the front of the *)
(* free list, and put back at its end; each keeps the ids split.           *)

(* create_free_sids adds a chunk of new ids to an exhausted pool.          *)
LEMMA RefillKeepsPool ==
    ASSUME NEW used, NEW max \in Nat, Pool(<< >>, used, max)
    PROVE  /\ create_free_sids(max) \in Seq(Nat)
           /\ create_free_sids(max) # << >>
           /\ create_free_sids(max)[1] = max
           /\ Pool(create_free_sids(max), used, max_after_create(max))
<1> DEFINE new == create_free_sids(max)
<1>1. Chunk \in Nat /\ Chunk > 0
  BY SessionAssumption
<1>2. new = [i \in 1 .. Chunk |-> max + i - 1]
  BY DEF create_free_sids
<1>3. new \in Seq(Nat) /\ Len(new) = Chunk
  <2>1. \A i \in 1 .. Chunk : max + i - 1 \in Nat
    BY <1>1
  <2> QED
    BY <1>1, <1>2, <2>1
<1>4. \A i \in 1 .. Chunk : new[i] = max + i - 1
  BY <1>2
<1>5. used = 0 .. (max - 1)
  <2>1. 1 .. Len(<< >>) = {}
    OBVIOUS
  <2> QED
    BY <2>1, Zenon DEF Pool
<1>6. used \cup {new[i] : i \in 1 .. Chunk} = 0 .. (max + Chunk - 1)
  <2>1. ASSUME NEW s \in 0 .. (max + Chunk - 1), s \notin used
        PROVE  \E i \in 1 .. Chunk : s = new[i]
    <3>1. s - max + 1 \in 1 .. Chunk
      BY <1>1, <1>5, <2>1
    <3> QED
      BY <1>4, <3>1
  <2>2. \A i \in 1 .. Chunk : new[i] \in 0 .. (max + Chunk - 1)
    BY <1>1, <1>4
  <2>3. used \subseteq 0 .. (max + Chunk - 1)
    BY <1>1, <1>5
  <2> QED
    BY <2>1, <2>2, <2>3
<1>7. \A i \in 1 .. Chunk : new[i] \notin used
  BY <1>1, <1>4, <1>5
<1>8. \A i, j \in 1 .. Chunk : new[i] = new[j] => i = j
  BY <1>1, <1>4
<1>9. Pool(new, used, max + Chunk)
  BY <1>3, <1>6, <1>7, <1>8 DEF Pool
<1>10. new[1] = max
  BY <1>1, <1>4
<1>11. new # << >>
  BY <1>1, <1>3
<1> QED
  BY <1>3, <1>9, <1>10, <1>11 DEF max_after_create

(* find_free_sid hands out an id that was not in use.                      *)
LEMMA TakeKeepsPool ==
    ASSUME NEW free \in Seq(Nat), free # << >>, NEW used, NEW max \in Nat,
           Pool(free, used, max)
    PROVE  /\ Tail(free) \in Seq(Nat)
           /\ Head(free) \in 0 .. (max - 1)
           /\ Head(free) \notin used
           /\ Pool(Tail(free), used \cup {Head(free)}, max)
<1> DEFINE rest == Tail(free)
<1>1. /\ Len(free) \in Nat /\ Len(free) > 0
      /\ Head(free) = free[1]
      /\ rest \in Seq(Nat) /\ Len(rest) = Len(free) - 1
      /\ \A i \in 1 .. Len(rest) : rest[i] = free[i + 1]
  OBVIOUS
<1>2. Head(free) \in 0 .. (max - 1) /\ Head(free) \notin used
  <2>1. 1 \in 1 .. Len(free)
    BY <1>1
  <2> QED
    BY <1>1, <2>1 DEF Pool
<1>3. \A i \in 1 .. Len(rest) : i + 1 \in 1 .. Len(free) /\ i + 1 # 1
  BY <1>1
<1>4. \A i, j \in 1 .. Len(rest) : rest[i] = rest[j] => i = j
  <2> TAKE i, j \in 1 .. Len(rest)
  <2> HAVE rest[i] = rest[j]
  <2>1. i + 1 = j + 1
    BY <1>1, <1>3 DEF Pool
  <2> QED
    BY <1>1, <2>1
<1>5. \A i \in 1 .. Len(rest) : rest[i] \notin used \cup {Head(free)}
  <2> TAKE i \in 1 .. Len(rest)
  <2>1. free[i + 1] # free[1] /\ free[i + 1] \notin used
    BY <1>1, <1>3 DEF Pool
  <2> QED
    BY <1>1, <2>1
<1>6. (used \cup {Head(free)}) \cup {rest[i] : i \in 1 .. Len(rest)} = 0 .. (max - 1)
  <2>1. {free[i] : i \in 1 .. Len(free)} = {Head(free)} \cup {rest[i] : i \in 1 .. Len(rest)}
    <3>1. ASSUME NEW i \in 1 .. Len(free), i # 1
          PROVE  \E j \in 1 .. Len(rest) : free[i] = rest[j]
      <4>1. i - 1 \in 1 .. Len(rest) /\ (i - 1) + 1 = i
        BY <1>1, <3>1
      <4> QED
        BY <1>1, <4>1
    <3>2. \A j \in 1 .. Len(rest) : \E i \in 1 .. Len(free) : rest[j] = free[i]
      BY <1>1, <1>3
    <3>3. Head(free) \in {free[i] : i \in 1 .. Len(free)}
      BY <1>1
    <3>4. {free[i] : i \in 1 .. Len(free)} \subseteq {Head(free)} \cup {rest[i] : i \in 1 .. Len(rest)}
      BY <1>1, <3>1
    <3>5. {rest[i] : i \in 1 .. Len(rest)} \subseteq {free[i] : i \in 1 .. Len(free)}
      BY <3>2
    <3> QED
      BY <3>3, <3>4, <3>5
  <2> QED
    BY <2>1 DEF Pool
<1> QED
  BY <1>1, <1>2, <1>4, <1>5, <1>6 DEF Pool

(* return_sid puts an id that was in use back.                             *)
LEMMA ReturnKeepsPool ==
    ASSUME NEW free \in Seq(Nat), NEW used, NEW max \in Nat,
           Pool(free, used, max), NEW sid \in used
    PROVE  /\ Append(free, sid) \in Seq(Nat)
           /\ Pool(Append(free, sid), used \ {sid}, max)
<1> DEFINE more == Append(free, sid)
<1>1. sid \in Nat
  <2>1. sid \in 0 .. (max - 1)
    BY DEF Pool
  <2> QED
    BY <2>1
<1>2. /\ Len(free) \in Nat
      /\ more \in Seq(Nat) /\ Len(more) = Len(free) + 1
      /\ more[Len(free) + 1] = sid
      /\ \A i \in 1 .. Len(free) : more[i] = free[i]
  BY <1>1
<1>3. \A i \in 1 .. Len(more) : i \in 1 .. Len(free) \/ i = Len(free) + 1
  BY <1>2
<1>4. \A i \in 1 .. Len(free) : free[i] \notin used /\ free[i] # sid
  BY DEF Pool
<1>5. \A i, j \in 1 .. Len(more) : more[i] = more[j] => i = j
  BY <1>2, <1>3, <1>4 DEF Pool
<1>6. \A i \in 1 .. Len(more) : more[i] \notin used \ {sid}
  BY <1>2, <1>3, <1>4
<1>7. (used \ {sid}) \cup {more[i] : i \in 1 .. Len(more)} = 0 .. (max - 1)
  <2>1. {more[i] : i \in 1 .. Len(more)} = {free[i] : i \in 1 .. Len(free)} \cup {sid}
    <3>1. 1 .. Len(more) = (1 .. Len(free)) \cup {Len(free) + 1}
      BY <1>2
    <3> QED
      BY <1>2, <3>1
  <2> QED
    BY <2>1 DEF Pool
<1> QED
  BY <1>2, <1>5, <1>6, <1>7 DEF Pool
-----------------------------------------------------------------------------
(* The part of the inductive invariants that is about the table alone.     *)

(* The vector is as long as a whole number of chunks, and is outgrown only *)
(* when every element of it is in use.                                     *)
Capacity ==
    /\ \E k \in Nat : current_max_sid = Chunk * k
    /\ ~overrun => current_max_sid <= MaxSessions
    /\ OverrunOnlyWhenFull

(* An element has a magic exactly while its id is in use, and then holds a *)
(* request of its own whose callback has not run.                          *)
Table ==
    /\ \A s \in Slots : ob_sessions[s].magic # 0 <=> s \in used_list
    /\ \A s \in Slots \cap used_list :
          ob_sessions[s].data \in 1 .. made /\ calls[ob_sessions[s].data] = 0
    /\ \A s, t \in Slots \cap used_list :
          ob_sessions[s].data = ob_sessions[t].data => s = t
    /\ \A r \in Requests : r > made => calls[r] = 0

TableInv == SessionTypeOK /\ SidsConserved /\ Capacity /\ Table

LEMMA ConstantFacts ==
    /\ Chunk \in Nat /\ Chunk > 0
    /\ MaxSessions \in Nat /\ MaxSessions > 0
    /\ MaxRequests \in Nat
    /\ \A m \in Magics : m \in Nat /\ m # 0
BY SessionAssumption, MagicAssumption


LEMMA TableInit == SessionInit => TableInv
<1> SUFFICES ASSUME SessionInit PROVE TableInv
  OBVIOUS
<1> USE DEF SessionInit
<1>1. SessionTypeOK
  <2>1. free_list \in Seq(Nat) /\ used_list \subseteq Nat /\ current_max_sid \in Nat
    OBVIOUS
  <2>2. /\ ob_sessions \in [Slots -> [magic : Magics \cup {0}, data : 0 .. MaxRequests]]
        /\ made \in 0 .. MaxRequests
        /\ calls \in [Requests -> Nat]
    BY ConstantFacts DEF NoSession
  <2>3. overrun \in BOOLEAN
    BY Zenon
  <2> QED
    BY <2>1, <2>2, <2>3, Zenon DEF SessionTypeOK
<1>2. SidsConserved
  <2>1. 1 .. Len(free_list) = {} /\ 0 .. (current_max_sid - 1) = {}
    OBVIOUS
  <2> QED
    BY <2>1, Zenon DEF SidsConserved, Pool
<1>3. Capacity
  <2>1. current_max_sid = Chunk * 0
    BY ConstantFacts
  <2> QED
    BY <2>1, ConstantFacts DEF Capacity, OverrunOnlyWhenFull
<1>4. Table
  BY ConstantFacts DEF Table, NoSession, Slots, Requests
<1> QED
  BY <1>1, <1>2, <1>3, <1>4 DEF TableInv

(* make_new_session hands out an id that is not in use and keeps the pool. *)
LEMMA NewSessionKeepsPool ==
    ASSUME SessionTypeOK, SidsConserved, NEW data, NEW magic, make_new_session(data, magic)
    PROVE  /\ find_free_sid \in Nat /\ find_free_sid \notin used_list
           /\ find_free_sid < current_max_sid'
           /\ free_list' \in Seq(Nat) /\ used_list' \subseteq Nat /\ current_max_sid' \in Nat
           /\ used_list' = used_list \cup {find_free_sid}
           /\ SidsConserved'
           /\ IF free_list = << >>
              THEN /\ current_max_sid' = current_max_sid + Chunk
                   /\ find_free_sid = current_max_sid
                   /\ used_list = 0 .. (current_max_sid - 1)
              ELSE current_max_sid' = current_max_sid
<1> DEFINE refilled == RefilledList
<1>1. /\ free_list \in Seq(Nat) /\ used_list \subseteq Nat /\ current_max_sid \in Nat
      /\ Pool(free_list, used_list, current_max_sid)
  BY DEF SessionTypeOK, SidsConserved
<1>2. /\ refilled \in Seq(Nat) /\ refilled # << >>
      /\ Pool(refilled, used_list, current_max_sid')
      /\ current_max_sid' \in Nat
      /\ IF free_list = << >>
         THEN /\ current_max_sid' = current_max_sid + Chunk
              /\ Head(refilled) = current_max_sid
              /\ used_list = 0 .. (current_max_sid - 1)
         ELSE current_max_sid' = current_max_sid
  <2>1. CASE free_list = << >>
    <3>1. refilled = create_free_sids(current_max_sid)
      BY <2>1 DEF RefilledList
    <3>2. current_max_sid' = max_after_create(current_max_sid)
      BY <2>1 DEF make_new_session
    <3>3. /\ refilled \in Seq(Nat) /\ refilled # << >> /\ refilled[1] = current_max_sid
          /\ Pool(refilled, used_list, current_max_sid')
      BY <1>1, <2>1, <3>1, <3>2, RefillKeepsPool
    <3>4. used_list = 0 .. (current_max_sid - 1)
      <4>1. 1 .. Len(free_list) = {}
        BY <2>1
      <4> QED
        BY <1>1, <4>1, Zenon DEF Pool
    <3>5. Head(refilled) = current_max_sid
      BY <3>3
    <3> QED
      BY <1>1, <2>1, <3>2, <3>3, <3>4, <3>5, ConstantFacts DEF max_after_create
  <2>2. CASE free_list # << >>
    BY <1>1, <2>2 DEF RefilledList, make_new_session
  <2> QED
    BY <2>1, <2>2
<1>3. /\ Tail(refilled) \in Seq(Nat)
      /\ Head(refilled) \in 0 .. (current_max_sid' - 1)
      /\ Head(refilled) \notin used_list
      /\ Pool(Tail(refilled), used_list \cup {Head(refilled)}, current_max_sid')
  BY <1>2, TakeKeepsPool
<1>4. /\ free_list' = Tail(refilled)
      /\ find_free_sid = Head(refilled)
      /\ used_list' = used_list \cup {find_free_sid}
  BY DEF make_new_session, find_free_sid
<1>5. Pool(free_list', used_list', current_max_sid')
  BY <1>3, <1>4
<1>6. SidsConserved'
  BY <1>5 DEF SidsConserved, Pool
<1>7. /\ find_free_sid \in Nat /\ find_free_sid \notin used_list
      /\ find_free_sid < current_max_sid'
      /\ free_list' \in Seq(Nat) /\ used_list' \subseteq Nat
  <2>1. Head(refilled) \in Nat /\ Head(refilled) < current_max_sid'
    BY <1>2, <1>3
  <2> QED
    BY <1>1, <1>3, <1>4, <2>1
<1>8. IF free_list = << >>
      THEN /\ current_max_sid' = current_max_sid + Chunk
           /\ find_free_sid = current_max_sid
           /\ used_list = 0 .. (current_max_sid - 1)
      ELSE current_max_sid' = current_max_sid
  BY <1>2, <1>4, Zenon
<1> QED
  BY <1>2, <1>4, <1>6, <1>7, <1>8, Zenon

(* A new session, made by a caller with requests left to make.             *)
LEMMA NewSessionTable ==
    ASSUME TableInv, ~overrun, made < MaxRequests,
           NEW magic \in Magics, make_new_session(made + 1, magic)
    PROVE  TableInv'
<1> DEFINE sid == find_free_sid
<1> USE DEF TableInv
<1>1. make_new_session(made + 1, magic) /\ ~overrun /\ made < MaxRequests
  OBVIOUS
<1>2. /\ sid \in Nat /\ sid \notin used_list /\ sid < current_max_sid'
      /\ free_list' \in Seq(Nat) /\ used_list' \subseteq Nat /\ current_max_sid' \in Nat
      /\ used_list' = used_list \cup {sid}
      /\ SidsConserved'
      /\ IF free_list = << >>
         THEN /\ current_max_sid' = current_max_sid + Chunk
              /\ sid = current_max_sid
              /\ used_list = 0 .. (current_max_sid - 1)
         ELSE current_max_sid' = current_max_sid
  BY <1>1, NewSessionKeepsPool
<1>3a. overrun' \in BOOLEAN /\ (overrun' <=> sid \notin Slots)
  BY <1>1, Zenon DEF make_new_session
<1>3. /\ made \in Nat /\ made' = made + 1 /\ made' \in 1 .. MaxRequests
      /\ calls' = calls
      /\ overrun' <=> (sid >= MaxSessions)
      /\ \A s \in Slots : ob_sessions'[s] =
              IF s = sid THEN [magic |-> magic, data |-> made + 1] ELSE ob_sessions[s]
      /\ ob_sessions' = [s \in Slots |->
              IF s = sid THEN [magic |-> magic, data |-> made + 1] ELSE ob_sessions[s]]
  <2>1. overrun' <=> (sid >= MaxSessions)
    BY <1>2, <1>3a, ConstantFacts DEF Slots
  <2> QED
    BY <1>1, <2>1, ConstantFacts DEF make_new_session, SessionTypeOK
<1>5. magic \in Nat /\ magic # 0
  BY ConstantFacts
<1>6. SessionTypeOK'
  <2>1. ob_sessions' \in [Slots -> [magic : Magics \cup {0}, data : 0 .. MaxRequests]]
    <3>1. [magic |-> magic, data |-> made + 1] \in [magic : Magics \cup {0}, data : 0 .. MaxRequests]
      BY <1>3, ConstantFacts
    <3>2. \A s \in Slots : ob_sessions[s] \in [magic : Magics \cup {0}, data : 0 .. MaxRequests]
      BY DEF SessionTypeOK
    <3> QED
      BY <1>3, <3>1, <3>2
  <2>3. made' \in 0 .. MaxRequests /\ calls' \in [Requests -> Nat]
    BY <1>3, ConstantFacts DEF SessionTypeOK
  <2> QED
    BY <1>2, <1>3a, <2>1, <2>3, Zenon DEF SessionTypeOK
<1>7. Capacity'
  <2>1. current_max_sid \in Nat /\ current_max_sid <= MaxSessions
    BY <1>1 DEF Capacity, SessionTypeOK
  <2>2. CASE free_list = << >>
    <3>1. PICK k \in Nat : current_max_sid = Chunk * k
      BY DEF Capacity
    <3>2. PICK n \in 1 .. MaxSessions : MaxSessions = Chunk * n
      BY SessionAssumption
    <3>3. current_max_sid' = Chunk * (k + 1)
      BY <1>2, <2>2, <3>1, ConstantFacts
    <3>4. current_max_sid < MaxSessions => current_max_sid' <= MaxSessions
      <4>1. ASSUME k + 1 <= n
            PROVE  Chunk * (k + 1) <= Chunk * n
        BY <4>1, ConstantFacts
      <4>2. ASSUME n <= k
            PROVE  Chunk * n <= Chunk * k
        BY <4>2, ConstantFacts
      <4> QED
        BY <2>1, <3>1, <3>2, <3>3, <4>1, <4>2
    <3>5. overrun' => Slots \subseteq used_list'
      BY <1>2, <1>3, <2>1, <2>2, ConstantFacts DEF Slots
    <3>6. ~overrun' => current_max_sid' <= MaxSessions
      BY <1>2, <1>3, <2>1, <2>2, <3>4, ConstantFacts
    <3>7. \E j \in Nat : current_max_sid' = Chunk * j
      BY <3>3
    <3> QED
      BY <3>5, <3>6, <3>7 DEF Capacity, OverrunOnlyWhenFull
  <2>3. CASE free_list # << >>
    <3>1. current_max_sid' = current_max_sid /\ ~overrun'
      BY <1>2, <1>3, <2>1, <2>3, ConstantFacts
    <3> QED
      BY <2>1, <3>1 DEF Capacity, OverrunOnlyWhenFull
  <2> QED
    BY <2>2, <2>3
<1>8. Table'
  <2>1. \A s \in Slots : ob_sessions'[s].magic # 0 <=> s \in used_list'
    BY <1>2, <1>3, <1>5 DEF Table
  <2>2. \A s \in Slots \cap used_list' : s # sid => s \in used_list /\ ob_sessions'[s] = ob_sessions[s]
    BY <1>2, <1>3
  <2>3. sid \in Slots => ob_sessions'[sid].data = made + 1
    BY <1>3
  <2>4. \A s \in Slots \cap used_list' :
           ob_sessions'[s].data \in 1 .. made' /\ calls'[ob_sessions'[s].data] = 0
    <3>1. calls[made + 1] = 0
      BY <1>3, ConstantFacts DEF Table, Requests
    <3> QED
      BY <1>3, <2>2, <2>3, <3>1 DEF Table
  <2>5. \A s, t \in Slots \cap used_list' :
           ob_sessions'[s].data = ob_sessions'[t].data => s = t
    <3>1. \A s \in Slots \cap used_list : ob_sessions[s].data # made + 1
      BY <1>3 DEF Table
    <3> QED
      BY <2>2, <2>3, <3>1 DEF Table
  <2>6. \A r \in Requests : r > made' => calls'[r] = 0
    BY <1>3 DEF Table, Requests
  <2> QED
    BY <2>1, <2>4, <2>5, <2>6 DEF Table
<1> QED
  BY <1>2, <1>6, <1>7, <1>8

(* A reply that matches gives the id of its session back.                  *)
LEMMA ReplyTable ==
    ASSUME TableInv, ~overrun, NEW s0 \in Slots \cap used_list, NEW magic,
           Matches(s0, magic), handle_std_reply(s0, magic)
    PROVE  TableInv'
<1> DEFINE r0 == ob_sessions[s0].data
<1> USE DEF TableInv
<1>1. s0 \in Slots /\ s0 \in used_list /\ r0 \in 1 .. made /\ calls[r0] = 0
  BY DEF Table
<1>2. /\ ob_sessions' = [ob_sessions EXCEPT ![s0] = [@ EXCEPT !.magic = 0]]
      /\ calls' = [calls EXCEPT ![r0] = @ + 1]
      /\ used_list' = used_list \ {s0}
      /\ free_list' = Append(free_list, s0)
      /\ UNCHANGED <<current_max_sid, overrun, made>>
      /\ ~overrun
  BY Zenon DEF handle_std_reply, Invalidated, returned
<1>3. /\ ob_sessions \in [Slots -> [magic : Magics \cup {0}, data : 0 .. MaxRequests]]
      /\ calls \in [Requests -> Nat] /\ r0 \in Requests
      /\ free_list \in Seq(Nat) /\ used_list \subseteq Nat /\ current_max_sid \in Nat
      /\ made \in Nat
  BY <1>1, ConstantFacts DEF SessionTypeOK, Requests
<1>4. /\ ob_sessions'[s0].magic = 0
      /\ \A s \in Slots : s # s0 => ob_sessions'[s] = ob_sessions[s]
  BY <1>1, <1>2, <1>3
<1>5. free_list' \in Seq(Nat) /\ SidsConserved'
  <2>1. Append(free_list, s0) \in Seq(Nat)
        /\ Pool(Append(free_list, s0), used_list \ {s0}, current_max_sid)
    BY <1>1, <1>3, ReturnKeepsPool DEF SidsConserved
  <2>2. Pool(free_list', used_list', current_max_sid')
    BY <1>2, <2>1
  <2> QED
    BY <1>2, <2>1, <2>2 DEF SidsConserved, Pool
<1>6. SessionTypeOK'
  <2>1. ob_sessions[s0] \in [magic : Magics \cup {0}, data : 0 .. MaxRequests]
    BY <1>1, <1>3
  <2>2. [ob_sessions[s0] EXCEPT !.magic = 0] \in [magic : Magics \cup {0}, data : 0 .. MaxRequests]
    BY <2>1
  <2>3. ob_sessions' \in [Slots -> [magic : Magics \cup {0}, data : 0 .. MaxRequests]]
    BY <1>1, <1>2, <1>3, <2>2
  <2>4. calls' \in [Requests -> Nat]
    BY <1>2, <1>3
  <2> QED
    BY <1>2, <1>5, <2>3, <2>4 DEF SessionTypeOK
<1>7. Capacity'
  BY <1>2 DEF Capacity, OverrunOnlyWhenFull
<1>8. Table'
  <2>1. \A s \in Slots \cap used_list' : /\ s # s0 /\ s \in used_list
                                         /\ ob_sessions'[s] = ob_sessions[s]
    BY <1>2, <1>4
  <2>2. \A s \in Slots : ob_sessions'[s].magic # 0 <=> s \in used_list'
    BY <1>2, <1>4 DEF Table
  <2>3. \A s \in Slots \cap used_list' : ob_sessions'[s].data # r0
    BY <1>1, <2>1 DEF Table
  <2>4. \A r \in Requests : r # r0 => calls'[r] = calls[r]
    BY <1>2, <1>3
  <2>5. r0 \in 1 .. made
    BY <1>1 DEF Table
  <2>6. \A s \in Slots \cap used_list' :
           ob_sessions'[s].data \in 1 .. made' /\ calls'[ob_sessions'[s].data] = 0
    <3>1. made <= MaxRequests
      BY ConstantFacts DEF SessionTypeOK
    <3> QED
      BY <1>2, <1>3, <2>1, <2>3, <2>4, <3>1, ConstantFacts DEF Table, Requests
  <2>7. \A s, t \in Slots \cap used_list' :
           ob_sessions'[s].data = ob_sessions'[t].data => s = t
    BY <2>1 DEF Table
  <2>8. \A r \in Requests : r > made' => calls'[r] = 0
    BY <1>2, <1>3, <2>4, <2>5 DEF Table, Requests
  <2> QED
    BY <2>2, <2>6, <2>7, <2>8 DEF Table
<1> QED
  BY <1>5, <1>6, <1>7, <1>8

LEMMA TableStutter ==
    ASSUME TableInv, UNCHANGED sessionVars
    PROVE  TableInv'
<1>1. UNCHANGED <<free_list, used_list, current_max_sid, ob_sessions, overrun, made, calls>>
  BY DEF sessionVars
<1>2. SessionTypeOK'
  BY <1>1 DEF TableInv, SessionTypeOK
<1>3. SidsConserved'
  BY <1>1 DEF TableInv, SidsConserved, Pool
<1>4. Capacity'
  BY <1>1 DEF TableInv, Capacity, OverrunOnlyWhenFull
<1>5. Table'
  BY <1>1 DEF TableInv, Table
<1> QED
  BY <1>2, <1>3, <1>4, <1>5 DEF TableInv

-----------------------------------------------------------------------------
(* The table implements SessionLease: the steps of the two operations.     *)

HeldLeases == {[sid |-> s, req |-> ob_sessions[s].data] : s \in used_list \cap Slots}

LEMMA LeaseInit == SessionInit => Lease!Init
<1> SUFFICES ASSUME SessionInit PROVE Lease!Init
  OBVIOUS
<1>1. used_list \cap Slots = {}
  BY DEF SessionInit
<1>2. HeldLeases = {}
  BY <1>1 DEF HeldLeases
<1>3. calls = [r \in Requests |-> 0]
  BY DEF SessionInit
<1> QED
  BY <1>2, <1>3, Zenon DEF Lease!Init, HeldLeases

(* make_new_session grants an id that no outstanding request holds, or is  *)
(* a step of the undefined behaviour after the last one.                   *)
LEMMA LeaseNewSession ==
    ASSUME TableInv, made < MaxRequests, NEW magic \in Magics, make_new_session(made + 1, magic)
    PROVE  Lease!Next \/ UNCHANGED <<HeldLeases, calls>>
<1> DEFINE sid == find_free_sid
           new == [sid |-> sid, req |-> made + 1]
<1>1. make_new_session(made + 1, magic) /\ made < MaxRequests
  OBVIOUS
<1>2. sid \in Nat /\ sid \notin used_list /\ used_list' = used_list \cup {sid}
  BY <1>1, NewSessionKeepsPool DEF TableInv
<1>3. /\ calls' = calls
      /\ \A s \in Slots : ob_sessions'[s] =
              IF s = sid THEN [magic |-> magic, data |-> made + 1] ELSE ob_sessions[s]
  BY <1>1 DEF make_new_session
<1>4. made + 1 \in Requests
  BY <1>1, ConstantFacts DEF TableInv, SessionTypeOK, Requests
<1>5. \A s \in used_list \cap Slots : ob_sessions'[s].data = ob_sessions[s].data
  BY <1>2, <1>3
<1>6. CASE sid \notin Slots
  <2>1. used_list' \cap Slots = used_list \cap Slots
    BY <1>2, <1>6
  <2>2. HeldLeases' = HeldLeases
    BY <1>5, <2>1 DEF HeldLeases
  <2> QED
    BY <1>3, <2>2
<1>7. CASE sid \in Slots
  <2> USE <1>4, <1>7
  <2>1. used_list' \cap Slots = (used_list \cap Slots) \cup {sid}
    BY <1>2, <1>7
  <2>2. ob_sessions'[sid].data = made + 1
    BY <1>3, <1>7
  <2>3. HeldLeases' = HeldLeases \cup {new}
    BY <1>5, <2>1, <2>2 DEF HeldLeases
  <2>4. \A l \in HeldLeases : l.sid # sid /\ l.req # made + 1
    <3>1. \A s \in used_list \cap Slots : s # sid /\ ob_sessions[s].data # made + 1
      BY <1>2 DEF TableInv, Table, SessionTypeOK
    <3> QED
      BY <3>1 DEF HeldLeases
  <2>5. calls[made + 1] = 0
    BY <1>4, ConstantFacts DEF TableInv, Table, SessionTypeOK
  <2>6. PICK s1 \in Slots, r1 \in Requests : s1 = sid /\ r1 = made + 1
    OBVIOUS
  <2>7. Lease!Grant(s1, r1)
    BY <1>3, <2>3, <2>4, <2>5, <2>6, Zenon DEF Lease!Grant, HeldLeases
  <2> QED
    BY <2>7, Zenon DEF Lease!Next
<1> QED
  BY <1>6, <1>7

(* A reply that matches answers the lease of its id.                       *)
LEMMA LeaseReply ==
    ASSUME TableInv, NEW s0 \in Slots \cap used_list, NEW magic,
           Matches(s0, magic), handle_std_reply(s0, magic)
    PROVE  Lease!Next
<1> DEFINE l0 == [sid |-> s0, req |-> ob_sessions[s0].data]
<1>1. s0 \in Slots \cap used_list
  OBVIOUS
<1>2. /\ ob_sessions' = [ob_sessions EXCEPT ![s0] = [@ EXCEPT !.magic = 0]]
      /\ calls' = [calls EXCEPT ![ob_sessions[s0].data] = @ + 1]
      /\ used_list' = used_list \ {s0}
  BY Zenon DEF handle_std_reply, Invalidated
<1>3. \A s \in Slots : s # s0 => ob_sessions'[s] = ob_sessions[s]
  BY <1>2 DEF TableInv, SessionTypeOK
<1>4. \A l \in HeldLeases : l \in HeldLeases' \/ l = l0
  BY <1>1, <1>2, <1>3 DEF HeldLeases
<1>5. \A l \in HeldLeases' : l \in HeldLeases /\ l # l0
  BY <1>1, <1>2, <1>3 DEF HeldLeases
<1>6. l0 \in HeldLeases
  BY <1>1 DEF HeldLeases
<1>7. HeldLeases' = HeldLeases \ {l0}
  BY <1>4, <1>5
<1>8. calls' = [calls EXCEPT ![l0.req] = @ + 1]
  BY <1>2
<1>9. PICK l \in HeldLeases : l = l0
  BY <1>6
<1>10. HeldLeases' = HeldLeases \ {l} /\ calls' = [calls EXCEPT ![l.req] = @ + 1]
  BY <1>7, <1>8, <1>9
<1>11. Lease!Answer(l)
  BY <1>10, Zenon DEF Lease!Answer, HeldLeases
<1> QED
  BY <1>11, Zenon DEF Lease!Next, HeldLeases

-----------------------------------------------------------------------------
(* A peer that repeats and reorders its replies.                           *)

(* The peer was sent what each element in use holds, and no id twice with  *)
(* the same magic.                                                         *)
History ==
    /\ \A e \in echo : e.req <= made
    /\ \A s \in Slots \cap used_list :
          [sid |-> s, magic |-> ob_sessions[s].magic, req |-> ob_sessions[s].data] \in echo
    /\ \A e, f \in echo : e.sid = f.sid /\ e.magic = f.magic => e = f

PeerInv == TableInv /\ echo \subseteq Echoes /\ History

LEMMA PeerInitInv == PeerInit => PeerInv
<1> SUFFICES ASSUME PeerInit PROVE PeerInv
  OBVIOUS
<1>1. TableInv /\ echo = {} /\ used_list = {}
  BY TableInit DEF PeerInit, SessionInit
<1> QED
  BY <1>1 DEF PeerInv, History

LEMMA MakeRequestInv ==
    ASSUME PeerInv, NEW magic \in Magics, MakeRequest(magic)
    PROVE  PeerInv'
<1> DEFINE sid == find_free_sid
           sent == [sid |-> sid, magic |-> magic, req |-> made + 1]
<1> USE DEF PeerInv
<1>1. make_new_session(made + 1, magic) /\ ~overrun /\ made < MaxRequests
      /\ MagicFresh(sid, magic)
  BY DEF MakeRequest
<1>2. sid \in Nat /\ sid \notin used_list /\ used_list' = used_list \cup {sid}
  BY <1>1, NewSessionKeepsPool DEF TableInv
<1>3. /\ made \in Nat /\ made' = made + 1 /\ made' \in 1 .. MaxRequests
      /\ \A s \in Slots : ob_sessions'[s] =
              IF s = sid THEN [magic |-> magic, data |-> made + 1] ELSE ob_sessions[s]
  BY <1>1, ConstantFacts DEF make_new_session, TableInv, SessionTypeOK
<1>4. echo' = IF sid \in Slots THEN echo \cup {sent} ELSE echo
  BY DEF MakeRequest
<1>5. TableInv'
  BY <1>1, NewSessionTable
<1>6. echo' \subseteq Echoes
  <2>1. sid \in Slots => sent \in Echoes
    BY <1>3 DEF Echoes, Requests
  <2> QED
    BY <1>4, <2>1
<1>7. History'
  <2>1. \A e \in echo' : e \in echo \/ (e = sent /\ sid \in Slots)
    BY <1>4
  <2>2. \A e \in echo : e.req \in Nat /\ e.req <= made
    BY DEF History, Echoes, Requests
  <2>3. \A e \in echo' : e.req <= made'
    BY <1>3, <2>1, <2>2
  <2>4. \A s \in Slots \cap used_list' :
          [sid |-> s, magic |-> ob_sessions'[s].magic, req |-> ob_sessions'[s].data] \in echo'
    <3> TAKE s \in Slots \cap used_list'
    <3>1. CASE s = sid
      <4>1. ob_sessions'[s].magic = magic /\ ob_sessions'[s].data = made + 1
        BY <1>3, <3>1
      <4> QED
        BY <1>4, <3>1, <4>1
    <3>2. CASE s # sid
      <4>1. s \in used_list /\ ob_sessions'[s] = ob_sessions[s]
        BY <1>2, <1>3, <3>2
      <4> QED
        BY <1>4, <4>1 DEF History
    <3> QED
      BY <3>1, <3>2
  <2>5. \A e, f \in echo' : e.sid = f.sid /\ e.magic = f.magic => e = f
    <3>1. \A e \in echo : e.sid = sid => e.magic # magic
      BY <1>1 DEF MagicFresh
    <3> QED
      BY <2>1, <3>1 DEF History
  <2> QED
    BY <2>3, <2>4, <2>5 DEF History
<1> QED
  BY <1>5, <1>6, <1>7

(* A session whose magic matches is in use, and is that of the request the *)
(* reply is about.                                                         *)
LEMMA MatchIsCurrent ==
    ASSUME PeerInv, NEW e \in echo, Matches(e.sid, e.magic)
    PROVE  /\ e.sid \in Slots \cap used_list
           /\ ob_sessions[e.sid].data = e.req
           /\ calls[e.req] = 0
<1> USE DEF PeerInv, TableInv
<1>1. e \in Echoes /\ e.sid \in Slots /\ e.magic \in Magics /\ e.magic # 0
  BY ConstantFacts DEF Echoes
<1>2. ob_sessions[e.sid].magic = e.magic
  BY DEF Matches
<1>3. e.sid \in used_list
  BY <1>1, <1>2 DEF Table
<1> DEFINE f == [sid |-> e.sid, magic |-> ob_sessions[e.sid].magic, req |-> ob_sessions[e.sid].data]
<1>4. f \in echo
  BY <1>1, <1>3 DEF History
<1>5. f.sid = e.sid /\ f.magic = e.magic /\ f.req = ob_sessions[e.sid].data
  BY <1>2
<1>6. e = f
  BY <1>4, <1>5 DEF History
<1>7. ob_sessions[e.sid].data = e.req
  BY <1>5, <1>6
<1> QED
  BY <1>1, <1>3, <1>7 DEF Table

LEMMA PeerStutter ==
    ASSUME PeerInv, UNCHANGED peerVars
    PROVE  PeerInv'
<1>1. UNCHANGED sessionVars
  BY DEF peerVars
<1>2. UNCHANGED <<used_list, ob_sessions, made, echo>>
  BY DEF peerVars, sessionVars
<1>3. TableInv'
  BY <1>1, TableStutter DEF PeerInv
<1> QED
  BY <1>2, <1>3 DEF PeerInv, History

LEMMA StdReplyInv ==
    ASSUME PeerInv, NEW e \in echo, StdReply(e)
    PROVE  PeerInv'
<1> USE DEF PeerInv
<1>1. CASE ~Matches(e.sid, e.magic)
  <2>1. UNCHANGED peerVars
    BY <1>1, Zenon DEF StdReply, handle_std_reply, peerVars
  <2> QED
    BY <2>1, PeerStutter
<1>2. CASE Matches(e.sid, e.magic)
  <2>1. e.sid \in Slots \cap used_list /\ ob_sessions[e.sid].data = e.req
    BY <1>2, MatchIsCurrent
  <2>2. handle_std_reply(e.sid, e.magic) /\ ~overrun /\ echo' = echo
    BY DEF StdReply
  <2>3. TableInv'
    BY <1>2, <2>1, <2>2, ReplyTable
  <2>4. /\ ob_sessions' = [ob_sessions EXCEPT ![e.sid] = [@ EXCEPT !.magic = 0]]
        /\ used_list' = used_list \ {e.sid}
        /\ made' = made
    BY <1>2, <2>2, Zenon DEF handle_std_reply, Invalidated
  <2>5. \A s \in Slots \cap used_list' :
           s \in used_list /\ ob_sessions'[s] = ob_sessions[s]
    BY <2>1, <2>4 DEF TableInv, SessionTypeOK
  <2>6. History'
    BY <2>2, <2>4, <2>5 DEF History
  <2> QED
    BY <2>2, <2>3, <2>6
<1> QED
  BY <1>1, <1>2

LEMMA PeerNextInv == PeerInv /\ [PeerNext]_peerVars => PeerInv'
BY MakeRequestInv, StdReplyInv, PeerStutter DEF PeerNext

THEOREM PeerInvariant == PeerSpec => []PeerInv
<1>1. PeerInit => PeerInv
  BY PeerInitInv
<1>2. PeerInv /\ [PeerNext]_peerVars => PeerInv'
  BY PeerNextInv
<1> QED
  BY <1>1, <1>2, PTL DEF PeerSpec

-----------------------------------------------------------------------------
(* What it implies.                                                        *)

(* Every variable of the session table keeps its type.                     *)
THEOREM PeerTypeCorrect == PeerSpec => []PeerTypeOK
<1>1. PeerInv => PeerTypeOK
  BY DEF PeerInv, TableInv, PeerTypeOK
<1> QED
  BY <1>1, PeerInvariant, PTL

(* However a peer repeats and reorders its replies, no session id is lost  *)
(* and none is held twice.                                                 *)
THEOREM SidsAreConserved == PeerSpec => []SidsConserved
<1>1. PeerInv => SidsConserved
  BY DEF PeerInv, TableInv
<1> QED
  BY <1>1, PeerInvariant, PTL

(* A reply that is let through is for the request that holds the id now.   *)
THEOREM RepliesReachTheirRequest == PeerSpec => []NoForeignReply
<1>1. PeerInv => NoForeignReply
  BY MatchIsCurrent DEF NoForeignReply
<1> QED
  BY <1>1, PeerInvariant, PTL

(* ob_sessions is written past its end only with every element in use.     *)
THEOREM OverrunNeedsFullTable == PeerSpec => []OverrunOnlyWhenFull
<1>1. PeerInv => OverrunOnlyWhenFull
  BY DEF PeerInv, TableInv, Capacity
<1> QED
  BY <1>1, PeerInvariant, PTL

LEMMA PeerRefines ==
    PeerInv /\ [PeerNext]_peerVars => [Lease!Next]_<<HeldLeases, calls>>
<1> SUFFICES ASSUME PeerInv, [PeerNext]_peerVars
             PROVE  Lease!Next \/ UNCHANGED <<HeldLeases, calls>>
  OBVIOUS
<1> USE DEF PeerInv
<1>1. CASE UNCHANGED peerVars
  BY <1>1 DEF peerVars, sessionVars, HeldLeases
<1>2. ASSUME NEW magic \in Magics, MakeRequest(magic)
      PROVE  Lease!Next \/ UNCHANGED <<HeldLeases, calls>>
  BY <1>2, LeaseNewSession DEF MakeRequest
<1>3. ASSUME NEW e \in echo, StdReply(e)
      PROVE  Lease!Next \/ UNCHANGED <<HeldLeases, calls>>
  <2>1. CASE ~Matches(e.sid, e.magic)
    <3>1. UNCHANGED sessionVars
      BY <1>3, <2>1, Zenon DEF StdReply, handle_std_reply
    <3> QED
      BY <3>1 DEF sessionVars, HeldLeases
  <2>2. CASE Matches(e.sid, e.magic)
    <3>1. e.sid \in Slots \cap used_list
      BY <2>2, MatchIsCurrent
    <3>2. handle_std_reply(e.sid, e.magic)
      BY <1>3 DEF StdReply
    <3> QED
      BY <2>2, <3>1, <3>2, LeaseReply
  <2> QED
    BY <2>1, <2>2
<1> QED
  BY <1>1, <1>2, <1>3 DEF PeerNext

(* The session table keeps the promise of SessionLease: an outstanding     *)
(* request holds an id of its own, and its callback runs at most once,     *)
(* when it gives the id up.                                                *)
THEOREM TableImplementsLease == PeerSpec => LeaseSpec
<1>1. PeerInit => Lease!Init
  BY LeaseInit DEF PeerInit
<1>2. PeerInv /\ [PeerNext]_peerVars => [Lease!Next]_<<HeldLeases, calls>>
  BY PeerRefines
<1> QED
  BY <1>1, <1>2, PeerInvariant, PTL DEF PeerSpec, LeaseSpec, Lease!Spec, HeldLeases

-----------------------------------------------------------------------------
(* The agent with its connections and servers.                             *)
(*                                                                         *)
(* Sequences in which no element occurs twice, and their elements.         *)

EachOnce(seq) == \A i, j \in 1 .. Len(seq) : seq[i] = seq[j] => i = j

LEMMA InToSet == ASSUME NEW S, NEW seq \in Seq(S), NEW i \in 1 .. Len(seq) PROVE seq[i] \in ToSet(seq)
BY DEF ToSet

LEMMA AppendOnce ==
    ASSUME NEW S, NEW seq \in Seq(S), NEW e \in S, EachOnce(seq), e \notin ToSet(seq)
    PROVE  /\ Append(seq, e) \in Seq(S)
           /\ EachOnce(Append(seq, e))
           /\ ToSet(Append(seq, e)) = ToSet(seq) \cup {e}
<1>1. /\ Append(seq, e) \in Seq(S) /\ Len(seq) \in Nat
      /\ Len(Append(seq, e)) = Len(seq) + 1
      /\ \A i \in 1 .. Len(seq) : Append(seq, e)[i] = seq[i]
      /\ Append(seq, e)[Len(seq) + 1] = e
  BY AppendProperties, LenProperties
<1>2. 1 .. Len(seq) + 1 = (1 .. Len(seq)) \cup {Len(seq) + 1}
  BY <1>1
<1>3. \A i \in 1 .. Len(seq) : seq[i] # e
  BY DEF ToSet
<1>4. EachOnce(Append(seq, e))
  BY <1>1, <1>2, <1>3 DEF EachOnce
<1>5. ToSet(Append(seq, e)) = ToSet(seq) \cup {e}
  BY <1>1, <1>2 DEF ToSet
<1> QED
  BY <1>1, <1>4, <1>5

LEMMA TailOnce ==
    ASSUME NEW S, NEW seq \in Seq(S), seq # << >>, EachOnce(seq)
    PROVE  /\ Head(seq) \in S /\ Tail(seq) \in Seq(S)
           /\ EachOnce(Tail(seq))
           /\ Head(seq) \notin ToSet(Tail(seq))
           /\ ToSet(seq) = {Head(seq)} \cup ToSet(Tail(seq))
<1>1. /\ Tail(seq) \in Seq(S) /\ Len(seq) \in Nat /\ Len(seq) > 0
      /\ Len(Tail(seq)) = Len(seq) - 1
      /\ Head(seq) = seq[1] /\ Head(seq) \in S
      /\ \A i \in 1 .. Len(Tail(seq)) : Tail(seq)[i] = seq[i + 1]
  BY HeadTailProperties, LenProperties, EmptySeq, ElementOfSeq
<1>2. \A i \in 1 .. Len(Tail(seq)) : i + 1 \in 1 .. Len(seq) /\ i + 1 # 1
  BY <1>1
<1>3. EachOnce(Tail(seq))
  <2> SUFFICES ASSUME NEW i \in 1 .. Len(Tail(seq)), NEW j \in 1 .. Len(Tail(seq)),
                      Tail(seq)[i] = Tail(seq)[j]
               PROVE  i = j
    BY DEF EachOnce
  <2>1. i + 1 = j + 1
    BY <1>1, <1>2 DEF EachOnce
  <2> QED
    BY <1>1, <2>1
<1>4. \A i \in 1 .. Len(Tail(seq)) : Tail(seq)[i] # Head(seq)
  <2>1. 1 \in 1 .. Len(seq)
    BY <1>1
  <2> QED
    BY <1>1, <1>2, <2>1 DEF EachOnce
<1>5. \A i \in 1 .. Len(Tail(seq)) : Tail(seq)[i] \in ToSet(Tail(seq))
  BY <1>1, InToSet
<1>6. ToSet(seq) \subseteq {Head(seq)} \cup ToSet(Tail(seq))
  <2> SUFFICES ASSUME NEW i \in 1 .. Len(seq)
               PROVE  seq[i] \in {Head(seq)} \cup ToSet(Tail(seq))
    BY DEF ToSet
  <2>1. i # 1 => i - 1 \in 1 .. Len(Tail(seq)) /\ Tail(seq)[i - 1] = seq[i]
    BY <1>1
  <2> QED
    BY <1>1, <1>5, <2>1
<1>7. {Head(seq)} \cup ToSet(Tail(seq)) \subseteq ToSet(seq)
  <2>1. 1 \in 1 .. Len(seq)
    BY <1>1
  <2> QED
    BY <1>1, <1>2, <2>1 DEF ToSet
<1>8. Head(seq) \notin ToSet(Tail(seq))
  BY <1>1, <1>4 DEF ToSet
<1> QED
  BY <1>1, <1>3, <1>6, <1>7, <1>8

LEMMA SplitOnce ==
    ASSUME NEW S, NEW seq \in Seq(S), EachOnce(seq), NEW k \in 0 .. Len(seq)
    PROVE  LET kept == SubSeq(seq, 1, k)
               rest == SubSeq(seq, k + 1, Len(seq))
           IN  /\ kept \in Seq(S)
               /\ EachOnce(kept)
               /\ ToSet(kept) \cup ToSet(rest) = ToSet(seq)
               /\ ToSet(kept) \cap ToSet(rest) = {}
<1> DEFINE kept == SubSeq(seq, 1, k)
           rest == SubSeq(seq, k + 1, Len(seq))
<1>1. Len(seq) \in Nat /\ k \in Nat /\ k <= Len(seq) /\ \A i \in 1 .. Len(seq) : seq[i] \in S
  BY LenProperties, ElementOfSeq
<1>2. \A i \in 1 .. k : seq[i] \in S
  BY <1>1
<1>3. \A i \in k + 1 .. Len(seq) : seq[i] \in S
  BY <1>1
<1>4. /\ kept \in Seq(S)
      /\ Len(kept) = k
      /\ \A i \in 1 .. k : kept[i] = seq[i]
  <2>1. /\ kept \in Seq(S)
        /\ Len(kept) = IF 1 <= k THEN k - 1 + 1 ELSE 0
        /\ \A i \in 1 .. k - 1 + 1 : kept[i] = seq[1 + i - 1]
    BY <1>1, <1>2, SubSeqProperties
  <2> QED
    BY <1>1, <2>1
<1>5. /\ rest \in Seq(S)
      /\ Len(rest) = Len(seq) - k
      /\ \A i \in 1 .. Len(seq) - k : rest[i] = seq[k + i]
  <2>1. /\ rest \in Seq(S)
        /\ Len(rest) = IF k + 1 <= Len(seq) THEN Len(seq) - (k + 1) + 1 ELSE 0
        /\ \A i \in 1 .. Len(seq) - (k + 1) + 1 : rest[i] = seq[k + 1 + i - 1]
    BY <1>1, <1>3, SubSeqProperties
  <2> QED
    BY <1>1, <2>1
<1> HIDE DEF kept, rest
<1>6. ToSet(kept) = {seq[i] : i \in 1 .. k}
  BY <1>4 DEF ToSet
<1>7. ToSet(rest) = {seq[i] : i \in k + 1 .. Len(seq)}
  <2>1. \A i \in k + 1 .. Len(seq) : i - k \in 1 .. Len(seq) - k /\ rest[i - k] = seq[i]
    BY <1>1, <1>5
  <2>2. \A i \in 1 .. Len(seq) - k : k + i \in k + 1 .. Len(seq) /\ rest[i] = seq[k + i]
    BY <1>1, <1>5
  <2>3. ToSet(rest) = {rest[i] : i \in 1 .. Len(seq) - k}
    BY <1>5 DEF ToSet
  <2>4. {rest[i] : i \in 1 .. Len(seq) - k} \subseteq {seq[i] : i \in k + 1 .. Len(seq)}
    BY <2>2
  <2>5. {seq[i] : i \in k + 1 .. Len(seq)} \subseteq {rest[i] : i \in 1 .. Len(seq) - k}
    BY <2>1
  <2> QED
    BY <2>3, <2>4, <2>5
<1>8. ToSet(seq) = {seq[i] : i \in 1 .. Len(seq)}
  BY DEF ToSet
<1>9. 1 .. Len(seq) = (1 .. k) \cup (k + 1 .. Len(seq)) /\ (1 .. k) \cap (k + 1 .. Len(seq)) = {}
  BY <1>1
<1>10. ToSet(kept) \cup ToSet(rest) = ToSet(seq)
  BY <1>6, <1>7, <1>8, <1>9
<1>11. ToSet(kept) \cap ToSet(rest) = {}
  BY <1>6, <1>7, <1>9 DEF EachOnce
<1>12. EachOnce(kept)
  BY <1>1, <1>4 DEF EachOnce
<1> QED
  BY <1>4, <1>10, <1>11, <1>12 DEF kept, rest

-----------------------------------------------------------------------------
(* The inductive invariant.                                                *)

(* A message is in one place at most: the requests on their way, the       *)
(* timers and the replies on their way of a server have none in common.    *)
Separate(requests, pending, replies) ==
    /\ EachOnce(requests) /\ EachOnce(replies)
    /\ ToSet(requests) \cap pending = {}
    /\ ToSet(requests) \cap ToSet(replies) = {}
    /\ pending \cap ToSet(replies) = {}

Apart ==
    /\ \A s \in Servers : /\ Separate(toServer[s], timers[s], toClient[s])
                          /\ Traffic(s) \cap lost = {}
    /\ \A s, t \in Servers : s # t => Traffic(s) \cap Traffic(t) = {}

(* A burst in progress has a request left to make, and every message is    *)
(* about a request that was made.                                          *)
Made ==
    /\ burst > 0 => made < MaxRequests
    /\ \A m \in Outstanding : m.req <= made

RpcInv == TypeOK /\ TableInv /\ Apart /\ Made /\ PoolMatchesTraffic

(* What Outstanding holds besides the traffic of s and what was lost.      *)
Elsewhere(s) == UNION {Traffic(t) : t \in Servers \ {s}}

(* A step that touches the traffic of one server, and brings in new        *)
(* messages only.                                                          *)
LEMMA OneServer ==
    ASSUME Apart, NEW s \in Servers, NEW new,
           \A t \in Servers \ {s} : /\ toServer'[t] = toServer[t]
                                    /\ toClient'[t] = toClient[t]
                                    /\ timers'[t] = timers[t],
           Separate(toServer'[s], timers'[s], toClient'[s]),
           Traffic(s)' \cap lost' = {},
           Traffic(s)' \cup lost' \subseteq Traffic(s) \cup lost \cup new,
           new \cap Outstanding = {}
    PROVE  /\ Apart'
           /\ Outstanding = Traffic(s) \cup lost \cup Elsewhere(s)
           /\ Outstanding' = Traffic(s)' \cup lost' \cup Elsewhere(s)
           /\ Traffic(s) \cap Elsewhere(s) = {}
<1>1. \A t \in Servers \ {s} : Traffic(t)' = Traffic(t)
  BY Zenon DEF Traffic
<1>2. Elsewhere(s)' = Elsewhere(s)
  BY <1>1 DEF Elsewhere
<1>3. Outstanding = Traffic(s) \cup lost \cup Elsewhere(s)
  BY DEF Outstanding, Elsewhere
<1>4. Outstanding' = Traffic(s)' \cup lost' \cup Elsewhere(s)'
  BY DEF Outstanding, Elsewhere
<1>5. \A t \in Servers \ {s} : /\ Traffic(t) \cap Traffic(s) = {}
                               /\ Traffic(t) \cap lost = {}
                               /\ Traffic(t) \cap new = {}
  <2>1. \A t \in Servers : Traffic(t) \subseteq Outstanding
    BY DEF Outstanding
  <2> QED
    BY <2>1 DEF Apart
<1>6. \A t \in Servers \ {s} : Traffic(t) \cap (Traffic(s)' \cup lost') = {}
  BY <1>5
<1>7. \A t \in Servers \ {s} : Separate(toServer'[t], timers'[t], toClient'[t])
  BY Zenon DEF Apart
<1>8. \A t \in Servers : /\ Separate(toServer'[t], timers'[t], toClient'[t])
                         /\ Traffic(t)' \cap lost' = {}
  <2> SUFFICES ASSUME NEW t \in Servers
               PROVE  /\ Separate(toServer'[t], timers'[t], toClient'[t])
                      /\ Traffic(t)' \cap lost' = {}
    OBVIOUS
  <2>1. CASE t = s
    BY <2>1
  <2>2. CASE t # s
    BY <1>1, <1>6, <1>7, <2>2
  <2> QED
    BY <2>1, <2>2
<1>9. \A t, u \in Servers : t # u => Traffic(t)' \cap Traffic(u)' = {}
  <2> SUFFICES ASSUME NEW t \in Servers, NEW u \in Servers, t # u
               PROVE  Traffic(t)' \cap Traffic(u)' = {}
    OBVIOUS
  <2>1. CASE t = s
    BY <1>1, <1>6, <2>1
  <2>2. CASE u = s
    BY <1>1, <1>6, <2>2
  <2>3. CASE t # s /\ u # s
    BY <1>1, <2>3 DEF Apart
  <2> QED
    BY <2>1, <2>2, <2>3
<1>10. Apart'
  BY <1>8, <1>9 DEF Apart
<1>11. Traffic(s) \cap Elsewhere(s) = {}
  BY <1>5 DEF Elsewhere
<1> QED
  BY <1>2, <1>3, <1>4, <1>10, <1>11

-----------------------------------------------------------------------------
LEMMA RpcConstants == Burst \in Nat /\ Burst > 0
BY AgentAssumption

LEMMA RpcInitInv == Init => RpcInv
<1> SUFFICES ASSUME Init PROVE RpcInv
  OBVIOUS
<1>1. TableInv
  BY TableInit DEF Init
<1>2. << >> \in Seq(Messages) /\ << >> \in Seq(Servers) /\ Len(<< >>) = 0 /\ ToSet(<< >>) = {}
  BY EmptySeq DEF ToSet
<1>3. TypeOK
  <2>1. /\ link \in [Servers -> {"none", "up", "broken"}]
        /\ toServer \in [Servers -> Seq(Messages)]
        /\ toClient \in [Servers -> Seq(Messages)]
        /\ lost \subseteq Messages
    BY <1>2 DEF Init, LinkInit
  <2>2. /\ timer1Listener \in {"connect", "ping"}
        /\ conn \in [Servers -> {"none", "connecting", "open", "failed", "closed"}]
        /\ gconnections \in Seq(Servers)
        /\ target \in Servers
        /\ burst \in 0 .. Burst
    BY <1>2, RpcConstants DEF Init, AgentInit
  <2>3. crashed \in BOOLEAN
    BY Zenon DEF Init, AgentInit
  <2>4. up \in [Servers -> BOOLEAN]
    BY Zenon DEF Init, ServerInit
  <2>5. /\ sconn \in [Servers -> {"open", "closed"}]
        /\ timers \in [Servers -> SUBSET Messages]
    BY DEF Init, ServerInit
  <2> QED
    BY <1>1, <2>1, <2>2, <2>3, <2>4, <2>5, Zenon DEF TypeOK, TableInv
<1>4. \A s \in Servers : toServer[s] = << >> /\ toClient[s] = << >> /\ timers[s] = {}
  BY DEF Init, LinkInit, ServerInit
<1>5. \A s \in Servers : Traffic(s) = {}
  BY <1>2, <1>4 DEF Traffic
<1>6. Outstanding = {}
  BY <1>5 DEF Outstanding, Init, LinkInit
<1>7. Apart
  <2>1. \A s \in Servers : Separate(toServer[s], timers[s], toClient[s])
    BY <1>2, <1>4 DEF Separate, EachOnce
  <2> QED
    BY <1>5, <2>1 DEF Apart
<1>8. Made
  BY <1>6 DEF Made, Init, AgentInit
<1>9. PoolMatchesTraffic
  BY <1>6 DEF PoolMatchesTraffic, Init, SessionInit
<1> QED
  BY <1>1, <1>3, <1>7, <1>8, <1>9 DEF RpcInv

(* A running agent has ids in use for elements of the vector only.         *)
LEMMA UsedAreSlots ==
    ASSUME TableInv, ~overrun
    PROVE  used_list \subseteq Slots
<1>1. used_list \subseteq 0 .. (current_max_sid - 1)
  BY DEF TableInv, SidsConserved, Pool
<1>2. current_max_sid \in Nat /\ current_max_sid <= MaxSessions
  BY DEF TableInv, SessionTypeOK, Capacity
<1> QED
  BY <1>1, <1>2, ConstantFacts DEF Slots

(* A step that moves messages from place to place, or none.                *)
LEMMA MoveKeepsInv ==
    ASSUME RpcInv, UNCHANGED sessionVars, Running' => Running,
           burst' > 0 => made < MaxRequests,
           TypeOK', Apart', Outstanding' = Outstanding
    PROVE  RpcInv'
<1>1. UNCHANGED <<used_list, ob_sessions, made, calls>>
  BY DEF sessionVars
<1>2. TableInv'
  BY TableStutter DEF RpcInv
<1>3. Made'
  BY <1>1 DEF RpcInv, Made
<1>4. PoolMatchesTraffic'
  BY <1>1 DEF RpcInv, PoolMatchesTraffic
<1> QED
  BY <1>2, <1>3, <1>4 DEF RpcInv

(* A step that moves no message.                                           *)
LEMMA QuietKeepsInv ==
    ASSUME RpcInv, UNCHANGED <<sessionVars, toServer, toClient, lost, timers>>,
           Running' => Running, burst' > 0 => made < MaxRequests, TypeOK'
    PROVE  RpcInv'
<1>1. UNCHANGED <<toServer, toClient, lost, timers>>
  OBVIOUS
<1>2. \A s \in Servers : Traffic(s)' = Traffic(s)
  BY <1>1 DEF Traffic
<1>3. Outstanding' = Outstanding
  BY <1>1, <1>2 DEF Outstanding
<1>4. Apart'
  BY <1>1, <1>2 DEF RpcInv, Apart
<1> QED
  BY <1>3, <1>4, MoveKeepsInv

-----------------------------------------------------------------------------
(* The steps that move messages.                                           *)

LEMMA RequestReadInv ==
    ASSUME RpcInv, NEW s \in Servers, handle_delayed_response_req(s),
           UNCHANGED <<sessionVars, agentVars>>
    PROVE  RpcInv'
<1> DEFINE q == toServer[s]
           m == Head(q)
<1>1. /\ q \in Seq(Messages) /\ q # << >> /\ timers[s] \subseteq Messages
      /\ Separate(q, timers[s], toClient[s])
      /\ Traffic(s) \cap lost = {}
  BY DEF handle_delayed_response_req, RpcInv, TypeOK, Apart
<1>2. /\ m \in Messages /\ Tail(q) \in Seq(Messages)
      /\ EachOnce(Tail(q))
      /\ m \notin ToSet(Tail(q))
      /\ ToSet(q) = {m} \cup ToSet(Tail(q))
  BY <1>1, TailOnce DEF Separate
<1>3. /\ timers' = [timers EXCEPT ![s] = timers[s] \cup {m}]
      /\ toServer' = [toServer EXCEPT ![s] = Tail(q)]
      /\ UNCHANGED <<link, toClient, lost, up, sconn>>
  BY Zenon DEF handle_delayed_response_req, Started
<1> HIDE DEF m, q
<1>4. /\ toServer'[s] = Tail(q) /\ timers'[s] = timers[s] \cup {m} /\ toClient'[s] = toClient[s]
      /\ \A t \in Servers \ {s} : /\ toServer'[t] = toServer[t]
                                  /\ toClient'[t] = toClient[t]
                                  /\ timers'[t] = timers[t]
  BY <1>3 DEF RpcInv, TypeOK
<1>5. Separate(toServer'[s], timers'[s], toClient'[s])
  BY <1>1, <1>2, <1>4 DEF Separate
<1>6. Traffic(s) = ToSet(q) \cup timers[s] \cup ToSet(toClient[s])
  BY DEF Traffic, q
<1>7. Traffic(s)' = ToSet(Tail(q)) \cup (timers[s] \cup {m}) \cup ToSet(toClient[s])
  BY <1>4 DEF Traffic
<1>8. Traffic(s)' = Traffic(s) /\ lost' = lost
  BY <1>2, <1>3, <1>6, <1>7
<1>9. Apart' /\ Outstanding' = Outstanding
  <2> DEFINE new == {}
  <2>1. /\ Traffic(s)' \cap lost' = {}
        /\ Traffic(s)' \cup lost' \subseteq Traffic(s) \cup lost \cup new
        /\ new \cap Outstanding = {}
    BY <1>1, <1>8
  <2> HIDE DEF new
  <2> QED
    BY <1>4, <1>5, <1>8, <2>1, OneServer DEF RpcInv
<1>10. TypeOK'
  <2>1. UNCHANGED <<free_list, used_list, current_max_sid, ob_sessions, overrun, made, calls>>
    BY DEF sessionVars
  <2>2. SessionTypeOK'
    BY <2>1 DEF RpcInv, TypeOK, SessionTypeOK
  <2>3. /\ toServer' \in [Servers -> Seq(Messages)]
        /\ timers' \in [Servers -> SUBSET Messages]
    BY <1>1, <1>2, <1>3 DEF RpcInv, TypeOK
  <2> QED
    BY <1>3, <2>2, <2>3 DEF RpcInv, TypeOK, agentVars
<1>11. (Running' => Running) /\ (burst' > 0 => made < MaxRequests)
  BY DEF RpcInv, Made, Running, sessionVars, agentVars
<1> QED
  BY <1>9, <1>10, <1>11, MoveKeepsInv

LEMMA ReplySentInv ==
    ASSUME RpcInv, NEW s \in Servers, NEW m \in timers[s], delayed_response_cb(s, m),
           UNCHANGED <<sessionVars, agentVars>>
    PROVE  RpcInv'
<1> DEFINE q == toClient[s]
<1>1. /\ q \in Seq(Messages) /\ m \in Messages /\ timers[s] \subseteq Messages
      /\ Separate(toServer[s], timers[s], q)
      /\ Traffic(s) \cap lost = {}
  BY DEF RpcInv, TypeOK, Apart
<1>2. /\ timers' = [timers EXCEPT ![s] = timers[s] \ {m}]
      /\ UNCHANGED <<link, toServer, up, sconn>>
      /\ \/ toClient' = [toClient EXCEPT ![s] = Append(q, m)] /\ lost' = lost
         \/ toClient' = toClient /\ lost' = lost \cup {m}
  BY Zenon DEF delayed_response_cb, WriteToClient, Expired
<1>3. /\ timers'[s] = timers[s] \ {m} /\ toServer'[s] = toServer[s]
      /\ \A t \in Servers \ {s} : /\ toServer'[t] = toServer[t]
                                  /\ toClient'[t] = toClient[t]
                                  /\ timers'[t] = timers[t]
  BY <1>2 DEF RpcInv, TypeOK
<1>4. /\ Append(q, m) \in Seq(Messages)
      /\ EachOnce(Append(q, m))
      /\ ToSet(Append(q, m)) = ToSet(q) \cup {m}
  BY <1>1, AppendOnce DEF Separate
<1>5. Traffic(s) = ToSet(toServer[s]) \cup timers[s] \cup ToSet(q)
  BY DEF Traffic
<1>6. Traffic(s)' = ToSet(toServer[s]) \cup (timers[s] \ {m}) \cup ToSet(toClient'[s])
  BY <1>3 DEF Traffic
<1> HIDE DEF q
<1>7. /\ Separate(toServer'[s], timers'[s], toClient'[s])
      /\ Traffic(s)' \cap lost' = {}
      /\ Traffic(s)' \cup lost' = Traffic(s) \cup lost
      /\ toClient' \in [Servers -> Seq(Messages)]
      /\ lost' \subseteq Messages
  <2>1. CASE toClient' = [toClient EXCEPT ![s] = Append(q, m)] /\ lost' = lost
    <3>1. toClient'[s] = Append(q, m)
      BY <2>1 DEF RpcInv, TypeOK
    <3>2. Traffic(s)' = Traffic(s)
      BY <1>1, <1>4, <1>5, <1>6, <3>1
    <3>3. Separate(toServer'[s], timers'[s], toClient'[s])
      BY <1>1, <1>3, <1>4, <3>1 DEF Separate
    <3>4. toClient' \in [Servers -> Seq(Messages)] /\ lost' \subseteq Messages
      BY <1>4, <2>1 DEF RpcInv, TypeOK
    <3> QED
      BY <1>1, <2>1, <3>2, <3>3, <3>4
  <2>2. CASE toClient' = toClient /\ lost' = lost \cup {m}
    <3>1. toClient'[s] = q
      BY <2>2 DEF q
    <3>2. m \notin ToSet(toServer[s]) /\ m \notin ToSet(q)
      BY <1>1 DEF Separate
    <3>3. Separate(toServer'[s], timers'[s], toClient'[s])
      BY <1>1, <1>3, <3>1 DEF Separate
    <3>4. toClient' \in [Servers -> Seq(Messages)] /\ lost' \subseteq Messages
      BY <1>1, <2>2 DEF RpcInv, TypeOK
    <3>5. Traffic(s)' = Traffic(s) \ {m} /\ m \in Traffic(s)
      BY <1>5, <1>6, <3>1, <3>2
    <3> QED
      BY <1>1, <2>2, <3>3, <3>4, <3>5
  <2> QED
    BY <1>2, <2>1, <2>2
<1>8. Apart' /\ Outstanding' = Outstanding
  <2> DEFINE new == {}
  <2>1. /\ Traffic(s)' \cup lost' \subseteq Traffic(s) \cup lost \cup new
        /\ new \cap Outstanding = {}
    BY <1>7
  <2> HIDE DEF new
  <2>2. /\ Apart'
        /\ Outstanding = Traffic(s) \cup lost \cup Elsewhere(s)
        /\ Outstanding' = Traffic(s)' \cup lost' \cup Elsewhere(s)
    BY <1>3, <1>7, <2>1, OneServer DEF RpcInv
  <2> QED
    BY <1>7, <2>2
<1>9. TypeOK'
  <2>1. UNCHANGED <<free_list, used_list, current_max_sid, ob_sessions, overrun, made, calls>>
    BY DEF sessionVars
  <2>2. SessionTypeOK'
    BY <2>1 DEF RpcInv, TypeOK, SessionTypeOK
  <2>3. timers' \in [Servers -> SUBSET Messages]
    BY <1>1, <1>2 DEF RpcInv, TypeOK
  <2> QED
    BY <1>2, <1>7, <2>2, <2>3 DEF RpcInv, TypeOK, agentVars
<1>10. (Running' => Running) /\ (burst' > 0 => made < MaxRequests)
  BY DEF RpcInv, Made, Running, sessionVars, agentVars
<1> QED
  BY <1>8, <1>9, <1>10, MoveKeepsInv

(* A connection breaks, and its server may forget timers with it.          *)
LEMMA CutMoves ==
    ASSUME RpcInv, NEW s \in Servers, NEW kept \in SUBSET timers[s],
           NEW i \in 0 .. Len(toServer[s]), NEW j \in 0 .. Len(toClient[s]),
           Cut(s, i, j),
           timers' = [timers EXCEPT ![s] = kept],
           lost' = lost \cup (timers[s] \ kept) \cup CutOff(s, i, j)
    PROVE  /\ Apart'
           /\ Outstanding' = Outstanding
           /\ toServer' \in [Servers -> Seq(Messages)]
           /\ toClient' \in [Servers -> Seq(Messages)]
           /\ timers' \in [Servers -> SUBSET Messages]
           /\ lost' \subseteq Messages
<1> DEFINE q == toServer[s]
           r == toClient[s]
           qKept == SubSeq(q, 1, i)
           qGone == SubSeq(q, i + 1, Len(q))
           rKept == SubSeq(r, 1, j)
           rGone == SubSeq(r, j + 1, Len(r))
<1>1. /\ q \in Seq(Messages) /\ r \in Seq(Messages) /\ timers[s] \subseteq Messages
      /\ Separate(q, timers[s], r)
      /\ Traffic(s) \cap lost = {}
      /\ lost \subseteq Messages
  BY DEF RpcInv, TypeOK, Apart
<1>2. EachOnce(q) /\ EachOnce(r)
  BY <1>1 DEF Separate
<1>3. /\ qKept \in Seq(Messages) /\ EachOnce(qKept)
      /\ ToSet(qKept) \cup ToSet(qGone) = ToSet(q)
      /\ ToSet(qKept) \cap ToSet(qGone) = {}
  BY <1>1, <1>2, SplitOnce, Zenon
<1>4. /\ rKept \in Seq(Messages) /\ EachOnce(rKept)
      /\ ToSet(rKept) \cup ToSet(rGone) = ToSet(r)
      /\ ToSet(rKept) \cap ToSet(rGone) = {}
  BY <1>1, <1>2, SplitOnce, Zenon
<1>5. /\ toServer' = [toServer EXCEPT ![s] = qKept]
      /\ toClient' = [toClient EXCEPT ![s] = rKept]
  BY Zenon DEF Cut
<1>6. CutOff(s, i, j) = ToSet(qGone) \cup ToSet(rGone)
  BY Zenon DEF CutOff
<1>7. Traffic(s) = ToSet(q) \cup timers[s] \cup ToSet(r)
  BY DEF Traffic
<1> HIDE DEF q, r, qKept, qGone, rKept, rGone
<1>8. /\ toServer'[s] = qKept /\ toClient'[s] = rKept /\ timers'[s] = kept
      /\ \A t \in Servers \ {s} : /\ toServer'[t] = toServer[t]
                                  /\ toClient'[t] = toClient[t]
                                  /\ timers'[t] = timers[t]
  BY <1>5 DEF RpcInv, TypeOK
<1>9. Traffic(s)' = ToSet(qKept) \cup kept \cup ToSet(rKept)
  BY <1>8 DEF Traffic
<1>10. lost' = lost \cup (timers[s] \ kept) \cup ToSet(qGone) \cup ToSet(rGone)
  BY <1>6
<1>11. Separate(toServer'[s], timers'[s], toClient'[s])
  BY <1>1, <1>3, <1>4, <1>8 DEF Separate
<1>12. Traffic(s)' \cup lost' = Traffic(s) \cup lost
  BY <1>3, <1>4, <1>7, <1>9, <1>10
<1>13. Traffic(s)' \cap lost' = {}
  <2>1. /\ ToSet(q) \cap timers[s] = {}
        /\ ToSet(q) \cap ToSet(r) = {}
        /\ timers[s] \cap ToSet(r) = {}
    BY <1>1 DEF Separate
  <2>2. Traffic(s)' \cap lost = {}
    BY <1>1, <1>3, <1>4, <1>7, <1>9
  <2>3. Traffic(s)' \cap (timers[s] \ kept) = {}
    BY <1>3, <1>4, <1>9, <2>1
  <2>4. Traffic(s)' \cap ToSet(qGone) = {}
    BY <1>3, <1>4, <1>9, <2>1
  <2>5. Traffic(s)' \cap ToSet(rGone) = {}
    BY <1>3, <1>4, <1>9, <2>1
  <2> QED
    BY <1>10, <2>2, <2>3, <2>4, <2>5
<1>14. Apart' /\ Outstanding' = Outstanding
  <2> DEFINE new == {}
  <2>1. /\ Traffic(s)' \cup lost' \subseteq Traffic(s) \cup lost \cup new
        /\ new \cap Outstanding = {}
    BY <1>12
  <2> HIDE DEF new
  <2>2. /\ Apart'
        /\ Outstanding = Traffic(s) \cup lost \cup Elsewhere(s)
        /\ Outstanding' = Traffic(s)' \cup lost' \cup Elsewhere(s)
    BY <1>8, <1>11, <1>13, <2>1, OneServer DEF RpcInv
  <2> QED
    BY <1>12, <2>2
<1>15. /\ toServer' \in [Servers -> Seq(Messages)]
       /\ toClient' \in [Servers -> Seq(Messages)]
       /\ timers' \in [Servers -> SUBSET Messages]
  BY <1>1, <1>3, <1>4, <1>5 DEF RpcInv, TypeOK
<1>16. lost' \subseteq Messages
  <2>1. ToSet(q) \subseteq Messages /\ ToSet(r) \subseteq Messages
    BY <1>1, ElementOfSeq DEF ToSet
  <2> QED
    BY <1>1, <1>3, <1>4, <1>10, <2>1
<1> QED
  BY <1>14, <1>15, <1>16

LEMMA BreakInv ==
    ASSUME RpcInv, NEW s \in Servers, LinkBreaks(s)
    PROVE  RpcInv'
<1>1. PICK i \in 0 .. Len(toServer[s]) : \E j \in 0 .. Len(toClient[s]) :
          Cut(s, i, j) /\ lost' = lost \cup CutOff(s, i, j)
  BY Zenon DEF LinkBreaks, Break
<1>2. PICK j \in 0 .. Len(toClient[s]) : Cut(s, i, j) /\ lost' = lost \cup CutOff(s, i, j)
  BY <1>1
<1>3. UNCHANGED <<sessionVars, agentVars, serverVars>>
      /\ link' = [link EXCEPT ![s] = "broken"]
  BY DEF LinkBreaks, Break
<1>4. UNCHANGED <<up, sconn, timers>>
  BY <1>3 DEF serverVars
<1>5. /\ timers' = [timers EXCEPT ![s] = timers[s]]
      /\ lost' = lost \cup (timers[s] \ timers[s]) \cup CutOff(s, i, j)
  BY <1>2, <1>4 DEF RpcInv, TypeOK
<1>6. /\ Apart'
      /\ Outstanding' = Outstanding
      /\ toServer' \in [Servers -> Seq(Messages)]
      /\ toClient' \in [Servers -> Seq(Messages)]
      /\ timers' \in [Servers -> SUBSET Messages]
      /\ lost' \subseteq Messages
  <2> DEFINE kept == timers[s]
  <2>1. kept \in SUBSET timers[s]
    OBVIOUS
  <2>2. timers' = [timers EXCEPT ![s] = kept] /\ lost' = lost \cup (timers[s] \ kept) \cup CutOff(s, i, j)
    BY <1>5
  <2> HIDE DEF kept
  <2> QED
    BY <1>2, <2>1, <2>2, CutMoves
<1>7. TypeOK'
  <2>1. UNCHANGED <<free_list, used_list, current_max_sid, ob_sessions, overrun, made, calls>>
    BY <1>3 DEF sessionVars
  <2>2. SessionTypeOK'
    BY <2>1 DEF RpcInv, TypeOK, SessionTypeOK
  <2> QED
    BY <1>3, <1>4, <1>6, <2>2 DEF RpcInv, TypeOK, agentVars
<1>8. (Running' => Running) /\ (burst' > 0 => made < MaxRequests)
  BY <1>3 DEF RpcInv, Made, Running, sessionVars, agentVars
<1> QED
  BY <1>3, <1>6, <1>7, <1>8, MoveKeepsInv

LEMMA ServerExitInv ==
    ASSUME RpcInv, NEW s \in Servers, ServerExit(s), UNCHANGED <<sessionVars, agentVars>>
    PROVE  RpcInv'
<1>1. PICK j \in 0 .. Len(toClient[s]) :
          Cut(s, 0, j) /\ lost' = lost \cup timers[s] \cup CutOff(s, 0, j)
  BY Zenon DEF ServerExit
<1>2. /\ timers' = [timers EXCEPT ![s] = {}]
      /\ up' = [up EXCEPT ![s] = FALSE]
      /\ link' = [link EXCEPT ![s] = IF link[s] = "up" THEN "broken" ELSE link[s]]
      /\ sconn' = sconn
  BY Zenon DEF ServerExit
<1>3. 0 \in 0 .. Len(toServer[s])
  BY LenProperties DEF RpcInv, TypeOK
<1>4. /\ Apart'
      /\ Outstanding' = Outstanding
      /\ toServer' \in [Servers -> Seq(Messages)]
      /\ toClient' \in [Servers -> Seq(Messages)]
      /\ timers' \in [Servers -> SUBSET Messages]
      /\ lost' \subseteq Messages
  <2> DEFINE kept == {}
  <2>1. kept \in SUBSET timers[s]
    OBVIOUS
  <2>2. timers' = [timers EXCEPT ![s] = kept] /\ lost' = lost \cup (timers[s] \ kept) \cup CutOff(s, 0, j)
    BY <1>1, <1>2
  <2> HIDE DEF kept
  <2> QED
    BY <1>1, <1>3, <2>1, <2>2, CutMoves
<1>5. TypeOK'
  <2>1. UNCHANGED <<free_list, used_list, current_max_sid, ob_sessions, overrun, made, calls>>
    BY DEF sessionVars
  <2>2. SessionTypeOK'
    BY <2>1 DEF RpcInv, TypeOK, SessionTypeOK
  <2>3. up' \in [Servers -> BOOLEAN]
    BY <1>2 DEF RpcInv, TypeOK
  <2>4. link' \in [Servers -> {"none", "up", "broken"}]
    BY <1>2 DEF RpcInv, TypeOK
  <2> QED
    BY <1>2, <1>4, <2>2, <2>3, <2>4 DEF RpcInv, TypeOK, agentVars
<1>6. (Running' => Running) /\ (burst' > 0 => made < MaxRequests)
  BY DEF RpcInv, Made, Running, sessionVars, agentVars
<1> QED
  BY <1>4, <1>5, <1>6, MoveKeepsInv

-----------------------------------------------------------------------------
(* The two steps that use the session table.                               *)

LEMMA OutstandingTyped == TypeOK => Outstanding \subseteq Messages
<1> SUFFICES ASSUME TypeOK PROVE Outstanding \subseteq Messages
  OBVIOUS
<1>1. \A t \in Servers : /\ toServer[t] \in Seq(Messages) /\ toClient[t] \in Seq(Messages)
                         /\ timers[t] \subseteq Messages
  BY DEF TypeOK
<1>2. \A t \in Servers : Traffic(t) \subseteq Messages
  BY <1>1, ElementOfSeq DEF Traffic, ToSet
<1> QED
  BY <1>2 DEF Outstanding, TypeOK

(* A request is made and written: it is outstanding from now on.           *)
LEMMA SendRequestInv ==
    ASSUME RpcInv, NEW magic \in Magics, SendRequest(magic), UNCHANGED serverVars
    PROVE  RpcInv'
<1> DEFINE s == target
           sid == find_free_sid
           m == [sid |-> sid, magic |-> magic, req |-> made + 1]
           q == toServer[s]
<1>1. /\ Running /\ burst > 0 /\ made < MaxRequests /\ ~overrun
      /\ make_new_session(made + 1, magic)
      /\ WriteToServer(target, m)
      /\ burst' = IF made + 1 = MaxRequests THEN 0 ELSE burst - 1
      /\ UNCHANGED <<link, toClient, timer1Listener, conn, gconnections, target, crashed>>
      /\ UNCHANGED <<up, sconn, timers>>
  BY DEF SendRequest, Running, Request, AfterBurst, RpcInv, Made, serverVars
<1>2. TableInv'
  BY <1>1, NewSessionTable DEF RpcInv
<1>3. sid \in Nat /\ sid \notin used_list /\ used_list' = used_list \cup {sid}
  BY <1>1, NewSessionKeepsPool DEF RpcInv, TableInv
<1>4. /\ made \in Nat /\ made' = made + 1 /\ made + 1 \in Requests
      /\ calls' = calls /\ overrun' = (sid \notin Slots)
      /\ \A t \in Slots : ob_sessions'[t] =
              IF t = sid THEN [magic |-> magic, data |-> made + 1] ELSE ob_sessions[t]
  BY <1>1, ConstantFacts DEF make_new_session, RpcInv, TableInv, SessionTypeOK, Requests
<1>5. /\ m \in Messages /\ s \in Servers /\ q \in Seq(Messages)
      /\ Separate(q, timers[s], toClient[s])
      /\ Traffic(s) \cap lost = {}
      /\ lost \subseteq Messages
  BY <1>3, <1>4 DEF Messages, RpcInv, TypeOK, Apart
<1>6. \A n \in Outstanding : n.req # made + 1
  <2>1. Outstanding \subseteq Messages
    BY OutstandingTyped DEF RpcInv
  <2>2. \A n \in Outstanding : n.req \in Nat /\ n.req <= made
    BY <2>1 DEF RpcInv, Made, Messages, Requests
  <2> QED
    BY <1>4, <2>2
<1>7. m \notin Outstanding
  BY <1>6
<1>8. \/ toServer' = [toServer EXCEPT ![s] = Append(q, m)] /\ lost' = lost
      \/ toServer' = toServer /\ lost' = lost \cup {m}
  BY <1>1, Zenon DEF WriteToServer
<1>9. Traffic(s) = ToSet(q) \cup timers[s] \cup ToSet(toClient[s]) /\ Traffic(s) \subseteq Outstanding
  BY <1>5 DEF Traffic, Outstanding
<1> HIDE DEF m, q, s, sid
<1>10. /\ timers'[s] = timers[s] /\ toClient'[s] = toClient[s]
       /\ \A t \in Servers \ {s} : /\ toServer'[t] = toServer[t]
                                   /\ toClient'[t] = toClient[t]
                                   /\ timers'[t] = timers[t]
  BY <1>1, <1>8 DEF RpcInv, TypeOK
<1>11. s' = s
  BY <1>1 DEF s
<1>12. PICK t0 \in Servers : t0 = s
  BY <1>5
<1>13. Traffic(t0)' = ToSet(toServer'[t0]) \cup timers[t0] \cup ToSet(toClient[t0])
  BY <1>1 DEF Traffic
<1>14. /\ Append(q, m) \in Seq(Messages)
       /\ EachOnce(Append(q, m))
       /\ ToSet(Append(q, m)) = ToSet(q) \cup {m}
  BY <1>5, <1>7, <1>9, AppendOnce DEF Separate
<1>15. /\ Separate(toServer'[t0], timers'[t0], toClient'[t0])
       /\ Traffic(t0)' \cap lost' = {}
       /\ Traffic(t0)' \cup lost' = Traffic(t0) \cup lost \cup {m}
       /\ toServer' \in [Servers -> Seq(Messages)]
       /\ lost' \subseteq Messages
  <2>1. CASE toServer' = [toServer EXCEPT ![s] = Append(q, m)] /\ lost' = lost
    <3>1. toServer'[t0] = Append(q, m)
      BY <1>12, <2>1 DEF RpcInv, TypeOK
    <3>2. Traffic(t0)' = Traffic(t0) \cup {m}
      BY <1>9, <1>12, <1>13, <1>14, <3>1
    <3>3. Separate(toServer'[t0], timers'[t0], toClient'[t0])
      BY <1>5, <1>7, <1>9, <1>10, <1>12, <1>14, <3>1 DEF Separate
    <3>4. m \notin lost
      BY <1>7 DEF Outstanding
    <3>5. toServer' \in [Servers -> Seq(Messages)] /\ lost' \subseteq Messages
      BY <1>5, <1>14, <2>1 DEF RpcInv, TypeOK
    <3> QED
      BY <1>5, <1>12, <2>1, <3>2, <3>3, <3>4, <3>5
  <2>2. CASE toServer' = toServer /\ lost' = lost \cup {m}
    <3>1. toServer'[t0] = q
      BY <1>12, <2>2 DEF q
    <3>2. Traffic(t0)' = Traffic(t0)
      BY <1>9, <1>12, <1>13, <3>1
    <3>3. Separate(toServer'[t0], timers'[t0], toClient'[t0])
      BY <1>5, <1>10, <1>12, <3>1
    <3>4. toServer' \in [Servers -> Seq(Messages)] /\ lost' \subseteq Messages
      BY <1>5, <2>2 DEF RpcInv, TypeOK
    <3> QED
      BY <1>5, <1>7, <1>9, <1>12, <2>2, <3>2, <3>3, <3>4
  <2> QED
    BY <1>8, <2>1, <2>2
<1>16. Apart' /\ Outstanding' = Outstanding \cup {m}
  <2> DEFINE new == {m}
  <2>1. /\ Traffic(t0)' \cup lost' \subseteq Traffic(t0) \cup lost \cup new
        /\ new \cap Outstanding = {}
    BY <1>7, <1>15
  <2> HIDE DEF new
  <2>2. \A t \in Servers \ {t0} : /\ toServer'[t] = toServer[t]
                                  /\ toClient'[t] = toClient[t]
                                  /\ timers'[t] = timers[t]
    BY <1>10, <1>12
  <2>3. /\ Apart'
        /\ Outstanding = Traffic(t0) \cup lost \cup Elsewhere(t0)
        /\ Outstanding' = Traffic(t0)' \cup lost' \cup Elsewhere(t0)
    BY <1>15, <2>1, <2>2, OneServer DEF RpcInv
  <2> QED
    BY <1>15, <2>3
<1>17. m.sid = sid /\ m.magic = magic /\ m.req = made + 1
  BY DEF m
<1>18. Made'
  <2>1. burst' > 0 => made' < MaxRequests
    BY <1>1, <1>4, ConstantFacts, RpcConstants DEF RpcInv, TypeOK
  <2>2. \A n \in Outstanding : n.req <= made'
    <3>1. Outstanding \subseteq Messages
      BY OutstandingTyped DEF RpcInv
    <3>2. \A n \in Outstanding : n.req \in Nat /\ n.req <= made
      BY <3>1 DEF RpcInv, Made, Messages, Requests
    <3> QED
      BY <1>4, <3>2
  <2> QED
    BY <1>4, <1>16, <1>17, <2>1, <2>2 DEF Made
<1>19. PoolMatchesTraffic'
  <2> SUFFICES ASSUME Running'
               PROVE  /\ used_list' = {n.sid : n \in Outstanding'}
                      /\ \A n \in Outstanding' :
                            ob_sessions'[n.sid] = [magic |-> n.magic, data |-> n.req]
                      /\ \A r \in 1 .. made' :
                            calls'[r] = IF \E n \in Outstanding' : n.req = r THEN 0 ELSE 1
    BY DEF PoolMatchesTraffic
  <2>1. sid \in Slots
    BY <1>4 DEF Running
  <2>2. /\ used_list = {n.sid : n \in Outstanding}
        /\ \A n \in Outstanding : ob_sessions[n.sid] = [magic |-> n.magic, data |-> n.req]
        /\ \A r \in 1 .. made : calls[r] = IF \E n \in Outstanding : n.req = r THEN 0 ELSE 1
    BY <1>1 DEF RpcInv, PoolMatchesTraffic
  <2>3. used_list \subseteq Slots
    BY <1>1, UsedAreSlots DEF RpcInv
  <2>4. used_list' = {n.sid : n \in Outstanding'}
    BY <1>3, <1>16, <1>17, <2>2
  <2>5. \A n \in Outstanding' : ob_sessions'[n.sid] = [magic |-> n.magic, data |-> n.req]
    <3>1. \A n \in Outstanding : n.sid \in Slots /\ n.sid # sid
      BY <1>3, <2>2, <2>3
    <3> QED
      BY <1>4, <1>16, <1>17, <2>1, <2>2, <3>1
  <2>6. \A r \in 1 .. made' : calls'[r] = IF \E n \in Outstanding' : n.req = r THEN 0 ELSE 1
    <3> SUFFICES ASSUME NEW r \in 1 .. made'
                 PROVE  calls'[r] = IF \E n \in Outstanding' : n.req = r THEN 0 ELSE 1
      OBVIOUS
    <3>1. CASE r = made + 1
      <4>1. calls[r] = 0
        BY <1>4, <3>1 DEF RpcInv, TableInv, Table
      <4>2. \E n \in Outstanding' : n.req = r
        BY <1>16, <1>17, <3>1
      <4> QED
        BY <1>4, <4>1, <4>2
    <3>2. CASE r # made + 1
      <4>1. r \in 1 .. made
        BY <1>4, <3>2
      <4>2. (\E n \in Outstanding' : n.req = r) <=> (\E n \in Outstanding : n.req = r)
        BY <1>16, <1>17, <3>2
      <4> QED
        BY <1>4, <2>2, <4>1, <4>2
    <3> QED
      BY <3>1, <3>2
  <2> QED
    BY <2>4, <2>5, <2>6
<1>20. TypeOK'
  <2>1. SessionTypeOK'
    BY <1>2 DEF TableInv
  <2>2. burst' \in 0 .. Burst
    BY <1>1, RpcConstants DEF RpcInv, TypeOK
  <2> QED
    BY <1>1, <1>15, <2>1, <2>2 DEF RpcInv, TypeOK
<1> QED
  BY <1>2, <1>16, <1>18, <1>19, <1>20 DEF RpcInv

(* An outstanding request of a running agent holds its id, alone.          *)
LEMMA OutstandingHoldsItsId ==
    ASSUME RpcInv, Running, NEW m \in Outstanding
    PROVE  /\ m \in Messages
           /\ m.sid \in Slots \cap used_list
           /\ Matches(m.sid, m.magic)
           /\ ob_sessions[m.sid].data = m.req
           /\ m.req \in 1 .. made
           /\ calls[m.req] = 0
           /\ \A n \in Outstanding : n # m => n.sid # m.sid /\ n.req # m.req
<1>1. /\ used_list = {n.sid : n \in Outstanding}
      /\ \A n \in Outstanding : ob_sessions[n.sid] = [magic |-> n.magic, data |-> n.req]
  BY DEF RpcInv, PoolMatchesTraffic
<1>2. used_list \subseteq Slots
  BY UsedAreSlots DEF RpcInv, Running
<1>3. Outstanding \subseteq Messages
  BY OutstandingTyped DEF RpcInv
<1>4. \A n \in Outstanding : /\ n.sid \in Slots \cap used_list
                             /\ ob_sessions[n.sid].data = n.req
                             /\ ob_sessions[n.sid].magic = n.magic
  <2> SUFFICES ASSUME NEW n \in Outstanding
               PROVE  /\ n.sid \in Slots \cap used_list
                      /\ ob_sessions[n.sid].data = n.req
                      /\ ob_sessions[n.sid].magic = n.magic
    OBVIOUS
  <2>1. n.sid \in used_list
    BY <1>1
  <2>2. ob_sessions[n.sid] = [magic |-> n.magic, data |-> n.req]
    BY <1>1
  <2> QED
    BY <1>2, <2>1, <2>2
<1>5. \A n \in Outstanding : n.sid = m.sid => n = m
  BY <1>3, <1>4 DEF Messages
<1>6. \A n \in Outstanding : n.req = m.req => n.sid = m.sid
  BY <1>4 DEF RpcInv, TableInv, Table
<1>7. m.req \in 1 .. made /\ calls[m.req] = 0
  BY <1>4 DEF RpcInv, TableInv, Table
<1> QED
  BY <1>3, <1>4, <1>5, <1>6, <1>7 DEF Matches

(* A reply is read: the request it answers is outstanding no more.         *)
LEMMA OnStdReplyInv ==
    ASSUME RpcInv, NEW s \in Servers, OnStdReply(s), UNCHANGED serverVars
    PROVE  RpcInv'
<1> DEFINE q == toClient[s]
           m == Head(q)
<1>1. /\ Running /\ ~overrun /\ q # << >>
      /\ handle_std_reply(m.sid, m.magic)
      /\ toClient' = [toClient EXCEPT ![s] = Tail(q)]
      /\ UNCHANGED <<link, toServer, lost>>
      /\ UNCHANGED <<timer1Listener, conn, gconnections, target, burst, crashed>>
      /\ UNCHANGED <<up, sconn, timers>>
  BY Zenon DEF OnStdReply, InLoop, Running, agentVars, serverVars
<1>2. /\ q \in Seq(Messages)
      /\ Separate(toServer[s], timers[s], q)
      /\ Traffic(s) \cap lost = {}
  BY DEF RpcInv, TypeOK, Apart
<1>3. /\ m \in Messages /\ Tail(q) \in Seq(Messages)
      /\ EachOnce(Tail(q))
      /\ m \notin ToSet(Tail(q))
      /\ ToSet(q) = {m} \cup ToSet(Tail(q))
  BY <1>1, <1>2, TailOnce DEF Separate
<1>4. Traffic(s) = ToSet(toServer[s]) \cup timers[s] \cup ToSet(q) /\ Traffic(s) \subseteq Outstanding
  BY DEF Traffic, Outstanding
<1> HIDE DEF m, q
<1>5. m \in Outstanding
  BY <1>3, <1>4
<1>6. /\ m.sid \in Slots \cap used_list
      /\ Matches(m.sid, m.magic)
      /\ ob_sessions[m.sid].data = m.req
      /\ m.req \in 1 .. made
      /\ calls[m.req] = 0
      /\ \A n \in Outstanding : n # m => n.sid # m.sid /\ n.req # m.req
  BY <1>1, <1>5, OutstandingHoldsItsId
<1>7. PICK s0 \in Slots \cap used_list : s0 = m.sid
  BY <1>6
<1>8. PICK magic \in Magics : magic = m.magic
  BY <1>3 DEF Messages
<1>9. handle_std_reply(s0, magic) /\ Matches(s0, magic)
  BY <1>1, <1>6, <1>7, <1>8
<1>10. TableInv'
  BY <1>1, <1>9, ReplyTable DEF RpcInv
<1>11. /\ ob_sessions' = [ob_sessions EXCEPT ![s0] = [@ EXCEPT !.magic = 0]]
       /\ calls' = [calls EXCEPT ![ob_sessions[s0].data] = @ + 1]
       /\ used_list' = used_list \ {s0}
       /\ UNCHANGED <<overrun, made>>
  BY <1>9, Zenon DEF handle_std_reply, Invalidated
<1>12. /\ toClient'[s] = Tail(q) /\ toServer'[s] = toServer[s] /\ timers'[s] = timers[s]
       /\ \A t \in Servers \ {s} : /\ toServer'[t] = toServer[t]
                                   /\ toClient'[t] = toClient[t]
                                   /\ timers'[t] = timers[t]
  BY <1>1 DEF RpcInv, TypeOK
<1>13. Separate(toServer'[s], timers'[s], toClient'[s])
  BY <1>2, <1>3, <1>12 DEF Separate
<1>14. Traffic(s)' = Traffic(s) \ {m} /\ m \in Traffic(s)
  <2>1. Traffic(s)' = ToSet(toServer[s]) \cup timers[s] \cup ToSet(Tail(q))
    BY <1>12 DEF Traffic
  <2>2. m \notin ToSet(toServer[s]) /\ m \notin timers[s]
    BY <1>2, <1>3 DEF Separate
  <2> QED
    BY <1>3, <1>4, <2>1, <2>2
<1>15. Apart' /\ Outstanding' = Outstanding \ {m}
  <2> DEFINE new == {}
  <2>1. /\ Traffic(s)' \cap lost' = {}
        /\ Traffic(s)' \cup lost' \subseteq Traffic(s) \cup lost \cup new
        /\ new \cap Outstanding = {}
    BY <1>1, <1>2, <1>14
  <2> HIDE DEF new
  <2>2. /\ Apart'
        /\ Outstanding = Traffic(s) \cup lost \cup Elsewhere(s)
        /\ Outstanding' = Traffic(s)' \cup lost' \cup Elsewhere(s)
        /\ Traffic(s) \cap Elsewhere(s) = {}
    BY <1>12, <1>13, <2>1, OneServer DEF RpcInv
  <2> QED
    BY <1>1, <1>2, <1>14, <2>2
<1>16. Made'
  BY <1>1, <1>11, <1>15 DEF RpcInv, Made
<1>17. PoolMatchesTraffic'
  <2>1. /\ used_list = {n.sid : n \in Outstanding}
        /\ \A n \in Outstanding : ob_sessions[n.sid] = [magic |-> n.magic, data |-> n.req]
        /\ \A r \in 1 .. made : calls[r] = IF \E n \in Outstanding : n.req = r THEN 0 ELSE 1
    BY <1>1 DEF RpcInv, PoolMatchesTraffic
  <2>2. used_list' = {n.sid : n \in Outstanding'}
    BY <1>6, <1>7, <1>11, <1>15, <2>1
  <2>3. \A n \in Outstanding' : ob_sessions'[n.sid] = [magic |-> n.magic, data |-> n.req]
    <3>1. \A t \in Slots : t # s0 => ob_sessions'[t] = ob_sessions[t]
      BY <1>11 DEF RpcInv, TableInv, SessionTypeOK
    <3>2. \A n \in Outstanding : n.sid \in Slots
      BY <1>1, <2>1, UsedAreSlots DEF RpcInv
    <3> QED
      BY <1>6, <1>7, <1>15, <2>1, <3>1, <3>2
  <2>4. \A r \in 1 .. made : calls'[r] = IF \E n \in Outstanding' : n.req = r THEN 0 ELSE 1
    <3>1. \A r \in 1 .. made : r \in Requests
      BY ConstantFacts DEF RpcInv, TableInv, SessionTypeOK, Requests
    <3>2. calls \in [Requests -> Nat]
      BY DEF RpcInv, TableInv, SessionTypeOK
    <3> SUFFICES ASSUME NEW r \in 1 .. made
                 PROVE  calls'[r] = IF \E n \in Outstanding' : n.req = r THEN 0 ELSE 1
      OBVIOUS
    <3>3. CASE r = m.req
      <4>1. calls'[r] = 1
        BY <1>6, <1>7, <1>11, <3>1, <3>2, <3>3
      <4>2. ~ \E n \in Outstanding' : n.req = r
        BY <1>6, <1>15, <3>3
      <4> QED
        BY <4>1, <4>2
    <3>4. CASE r # m.req
      <4>1. calls'[r] = calls[r]
        BY <1>6, <1>7, <1>11, <3>1, <3>2, <3>4
      <4>2. (\E n \in Outstanding' : n.req = r) <=> (\E n \in Outstanding : n.req = r)
        BY <1>15, <3>4
      <4> QED
        BY <2>1, <4>1, <4>2
    <3> QED
      BY <3>3, <3>4
  <2> QED
    BY <1>11, <2>2, <2>3, <2>4 DEF PoolMatchesTraffic
<1>18. TypeOK'
  <2>1. SessionTypeOK'
    BY <1>10 DEF TableInv
  <2>2. toClient' \in [Servers -> Seq(Messages)]
    BY <1>1, <1>3 DEF RpcInv, TypeOK
  <2> QED
    BY <1>1, <2>1, <2>2 DEF RpcInv, TypeOK
<1> QED
  BY <1>10, <1>15, <1>16, <1>17, <1>18 DEF RpcInv

-----------------------------------------------------------------------------
(* The steps that only change how the agent and its connections stand.     *)

LEMMA SessionTypeKept ==
    ASSUME SessionTypeOK, UNCHANGED sessionVars
    PROVE  SessionTypeOK'
BY DEF SessionTypeOK, sessionVars

LEMMA ConnectInv ==
    ASSUME RpcInv, NEW s \in Servers, Connect(s)
    PROVE  RpcInv'
<1>1. /\ conn' = [conn EXCEPT ![s] = "open"]
      /\ gconnections' = Append(gconnections, s)
      /\ link' = [link EXCEPT ![s] = "up"]
      /\ UNCHANGED sessionVars
      /\ UNCHANGED <<toServer, toClient, lost, timer1Listener, target, burst, crashed, up, sconn, timers>>
  BY DEF Connect, OnClientConnect, serverVars
<1>2. gconnections' \in Seq(Servers)
  BY <1>1, AppendProperties DEF RpcInv, TypeOK
<1>3. TypeOK'
  BY <1>1, <1>2, SessionTypeKept DEF RpcInv, TypeOK
<1>4. (Running' => Running) /\ (burst' > 0 => made < MaxRequests)
  BY <1>1 DEF RpcInv, Made, Running, sessionVars
<1> QED
  BY <1>1, <1>3, <1>4, QuietKeepsInv

LEMMA AgentQuietInv ==
    ASSUME RpcInv, UNCHANGED serverVars,
           \/ ConnectTimer \/ PingTimer \/ PingUnconnected
           \/ \E s \in Servers : OnConnectFailed(s) \/ OnEof(s)
    PROVE  RpcInv'
<1>1. UNCHANGED <<up, sconn, timers>>
  BY DEF serverVars
<1>2. UNCHANGED sessionVars /\ UNCHANGED <<link, toServer, toClient, lost, gconnections>>
  BY DEF ConnectTimer, PingTimer, PingUnconnected, OnConnectFailed, OnEof, linkVars
<1>3. CASE ConnectTimer
  <2>1. /\ timer1Listener' = "ping"
        /\ conn' = [s \in Servers |-> "connecting"]
        /\ UNCHANGED <<target, burst, crashed>>
    BY <1>3 DEF ConnectTimer, start_all_client_connections
  <2>2. TypeOK'
    BY <1>1, <1>2, <2>1, SessionTypeKept DEF RpcInv, TypeOK
  <2>3. (Running' => Running) /\ (burst' > 0 => made < MaxRequests)
    BY <1>2, <2>1 DEF RpcInv, Made, Running, sessionVars
  <2> QED
    BY <1>1, <1>2, <2>2, <2>3, QuietKeepsInv
<1>4. CASE PingTimer
  <2>1. /\ target' = get_service_monitor_connection
        /\ burst' = Burst /\ made < MaxRequests
        /\ gconnections # << >>
        /\ UNCHANGED <<timer1Listener, conn, crashed>>
    BY <1>4 DEF PingTimer, Testable
  <2>2. target' \in Servers
    <3>1. \A i \in 1 .. Len(gconnections) : gconnections[i] \in Servers
      BY ElementOfSeq DEF RpcInv, TypeOK
    <3>2. Len(gconnections) \in Nat /\ Len(gconnections) > 0
      BY <2>1, LenProperties, EmptySeq DEF RpcInv, TypeOK
    <3>3. Last(gconnections) \in Servers
      BY <3>1, <3>2 DEF Last
    <3>4. Monitor \in ToSet(gconnections) => Monitor \in Servers
      BY <3>1 DEF ToSet, RpcInv, TypeOK
    <3> QED
      BY <2>1, <3>3, <3>4 DEF get_service_monitor_connection
  <2>3. TypeOK'
    BY <1>1, <1>2, <2>1, <2>2, RpcConstants, SessionTypeKept DEF RpcInv, TypeOK
  <2>4. (Running' => Running) /\ (burst' > 0 => made < MaxRequests)
    BY <1>2, <2>1 DEF RpcInv, Made, Running, sessionVars
  <2> QED
    BY <1>1, <1>2, <2>3, <2>4, QuietKeepsInv
<1>5. CASE PingUnconnected
  <2>1. /\ crashed' = TRUE
        /\ UNCHANGED <<timer1Listener, conn, target, burst>>
    BY <1>5 DEF PingUnconnected
  <2>2. crashed' \in BOOLEAN
    BY <2>1, Zenon
  <2>3. TypeOK'
    BY <1>1, <1>2, <2>1, <2>2, SessionTypeKept DEF RpcInv, TypeOK
  <2>4. (Running' => Running) /\ (burst' > 0 => made < MaxRequests)
    BY <1>2, <2>1 DEF RpcInv, Made, Running, sessionVars
  <2> QED
    BY <1>1, <1>2, <2>3, <2>4, QuietKeepsInv
<1>6. ASSUME NEW s \in Servers, OnConnectFailed(s) \/ OnEof(s)
      PROVE  RpcInv'
  <2>1. /\ conn' = [conn EXCEPT ![s] = "failed"] \/ conn' = [conn EXCEPT ![s] = "closed"]
        /\ UNCHANGED <<timer1Listener, target, burst, crashed>>
    BY <1>6 DEF OnConnectFailed, OnEof, AfterEof
  <2>2. TypeOK'
    BY <1>1, <1>2, <2>1, SessionTypeKept DEF RpcInv, TypeOK
  <2>3. (Running' => Running) /\ (burst' > 0 => made < MaxRequests)
    BY <1>2, <2>1 DEF RpcInv, Made, Running, sessionVars
  <2> QED
    BY <1>1, <1>2, <2>2, <2>3, QuietKeepsInv
<1> QED
  BY <1>3, <1>4, <1>5, <1>6

LEMMA ServerEofInv ==
    ASSUME RpcInv, NEW s \in Servers, ServerEof(s), UNCHANGED <<sessionVars, agentVars>>
    PROVE  RpcInv'
<1>1. /\ sconn' = [sconn EXCEPT ![s] = "closed"]
      /\ UNCHANGED sessionVars
      /\ UNCHANGED <<link, toServer, toClient, lost, up, timers>>
      /\ UNCHANGED <<timer1Listener, conn, gconnections, target, burst, crashed>>
  BY DEF ServerEof, linkVars, agentVars
<1>2. TypeOK'
  BY <1>1, SessionTypeKept DEF RpcInv, TypeOK
<1>3. (Running' => Running) /\ (burst' > 0 => made < MaxRequests)
  BY <1>1 DEF RpcInv, Made, Running, sessionVars
<1> QED
  BY <1>1, <1>2, <1>3, QuietKeepsInv

LEMMA RpcStutter ==
    ASSUME RpcInv, UNCHANGED vars
    PROVE  RpcInv'
<1>1. UNCHANGED sessionVars
  BY DEF vars
<1>2. /\ UNCHANGED <<link, toServer, toClient, lost>>
      /\ UNCHANGED <<timer1Listener, conn, gconnections, target, burst, crashed>>
      /\ UNCHANGED <<up, sconn, timers>>
  BY DEF vars, linkVars, agentVars, serverVars
<1>3. TypeOK'
  BY <1>1, <1>2, SessionTypeKept DEF RpcInv, TypeOK
<1>4. (Running' => Running) /\ (burst' > 0 => made < MaxRequests)
  BY <1>1, <1>2 DEF RpcInv, Made, Running, sessionVars
<1> QED
  BY <1>1, <1>2, <1>3, <1>4, QuietKeepsInv

LEMMA RpcNextInv == RpcInv /\ [Next]_vars => RpcInv'
<1> SUFFICES ASSUME RpcInv, [Next]_vars PROVE RpcInv'
  OBVIOUS
<1>1. CASE UNCHANGED vars
  BY <1>1, RpcStutter
<1>2. ASSUME NEW s \in Servers, Connect(s) \/ LinkBreaks(s) PROVE RpcInv'
  BY <1>2, ConnectInv, BreakInv
<1>3. CASE AgentStep
  <2>1. UNCHANGED serverVars
    BY <1>3 DEF AgentStep
  <2>2. ASSUME NEW magic \in Magics, SendRequest(magic) PROVE RpcInv'
    BY <2>1, <2>2, SendRequestInv
  <2>3. ASSUME NEW s \in Servers, OnStdReply(s) PROVE RpcInv'
    BY <2>1, <2>3, OnStdReplyInv
  <2>4. CASE \/ ConnectTimer \/ PingTimer \/ PingUnconnected
             \/ \E s \in Servers : OnConnectFailed(s) \/ OnEof(s)
    BY <2>1, <2>4, AgentQuietInv
  <2> QED
    BY <1>3, <2>2, <2>3, <2>4 DEF AgentStep
<1>4. CASE ServerStep
  <2>1. UNCHANGED <<sessionVars, agentVars>>
    BY <1>4 DEF ServerStep
  <2>2. ASSUME NEW s \in Servers,
               \/ handle_delayed_response_req(s)
               \/ \E m \in timers[s] : delayed_response_cb(s, m)
               \/ ServerEof(s)
               \/ ServerExit(s)
        PROVE  RpcInv'
    BY <2>1, <2>2, RequestReadInv, ReplySentInv, ServerEofInv, ServerExitInv
  <2> QED
    BY <1>4, <2>2 DEF ServerStep, ServerNext
<1> QED
  BY <1>1, <1>2, <1>3, <1>4 DEF Next

(* The table, the connections, the timers and what was lost agree, in      *)
(* every reachable state of the agent and its servers.                     *)
THEOREM RpcInvariant == Spec => []RpcInv
<1>1. Init => RpcInv
  BY RpcInitInv
<1>2. RpcInv /\ [Next]_vars => RpcInv'
  BY RpcNextInv
<1> QED
  BY <1>1, <1>2, PTL DEF Spec

(* Every variable of the agent, of the connections and of the servers      *)
(* keeps its type.                                                         *)
THEOREM TypeCorrect == Spec => []TypeOK
<1>1. RpcInv => TypeOK
  BY DEF RpcInv
<1> QED
  BY <1>1, RpcInvariant, PTL

(* The ids in use are those of the requests that are on their way, in a    *)
(* timer, on their way back or lost; each holds its own request, and every *)
(* other request that was made has had its callback run exactly once.      *)
THEOREM PoolFollowsTraffic == Spec => []PoolMatchesTraffic
<1>1. RpcInv => PoolMatchesTraffic
  BY DEF RpcInv
<1> QED
  BY <1>1, RpcInvariant, PTL

LEMMA RpcRefines ==
    RpcInv /\ [Next]_vars => [Lease!Next]_<<HeldLeases, calls>>
<1> SUFFICES ASSUME RpcInv, [Next]_vars
             PROVE  Lease!Next \/ UNCHANGED <<HeldLeases, calls>>
  OBVIOUS
<1>1. ASSUME NEW magic \in Magics, SendRequest(magic)
      PROVE  Lease!Next \/ UNCHANGED <<HeldLeases, calls>>
  <2>1. made < MaxRequests /\ make_new_session(made + 1, magic)
    BY <1>1 DEF SendRequest, RpcInv, Made
  <2> QED
    BY <2>1, LeaseNewSession DEF RpcInv
<1>2. ASSUME NEW s \in Servers, OnStdReply(s)
      PROVE  Lease!Next \/ UNCHANGED <<HeldLeases, calls>>
  <2> DEFINE m == Head(toClient[s])
  <2>1. Running /\ toClient[s] # << >> /\ handle_std_reply(m.sid, m.magic)
    BY <1>2 DEF OnStdReply, InLoop
  <2>2. m \in Outstanding
    <3>1. toClient[s] \in Seq(Messages) /\ EachOnce(toClient[s])
      BY DEF RpcInv, TypeOK, Apart, Separate
    <3>2. m \in ToSet(toClient[s])
      BY <2>1, <3>1, TailOnce
    <3> QED
      BY <3>2 DEF Outstanding, Traffic
  <2> HIDE DEF m
  <2>3. m.sid \in Slots \cap used_list /\ Matches(m.sid, m.magic)
    BY <2>1, <2>2, OutstandingHoldsItsId
  <2> QED
    BY <2>1, <2>3, LeaseReply DEF RpcInv
<1>3. ASSUME UNCHANGED sessionVars
      PROVE  Lease!Next \/ UNCHANGED <<HeldLeases, calls>>
  BY <1>3 DEF sessionVars, HeldLeases
<1>4. \/ UNCHANGED sessionVars
      \/ \E magic \in Magics : SendRequest(magic)
      \/ \E s \in Servers : OnStdReply(s)
  BY DEF Next, vars, Connect, OnClientConnect, LinkBreaks, AgentStep, ServerStep,
         ConnectTimer, OnConnectFailed, PingTimer, PingUnconnected, OnEof
<1> QED
  BY <1>1, <1>2, <1>3, <1>4

(* The agent with its servers keeps the promise of SessionLease too.       *)
THEOREM AgentImplementsLease == Spec => LeaseSpec
<1>1. Init => Lease!Init
  BY LeaseInit DEF Init
<1>2. RpcInv /\ [Next]_vars => [Lease!Next]_<<HeldLeases, calls>>
  BY RpcRefines
<1> QED
  BY <1>1, <1>2, RpcInvariant, PTL DEF Spec, LeaseSpec, Lease!Spec, HeldLeases
=============================================================================
