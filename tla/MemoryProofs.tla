---------------------------- MODULE MemoryProofs ----------------------------
(***************************************************************************)
(* Theorems about what a server keeps in memory: LoopHandles for any       *)
(* connections and timers, WriteQueue for messages and rooms of any size,  *)
(* InProgress for tables of any size and any users.                        *)
(***************************************************************************)
EXTENDS MCMemory, FiniteSetTheorems, SequenceTheorems, TLAPS

-----------------------------------------------------------------------------
(* The handles of the loop.                                                *)

(* A handle that was open is in memory, also when its client has gone. *)
Kept ==
    \A c \in Conns : /\ conn[c] = "open" \/ c \in ended => c \in memory
                     /\ c \in ended => conn[c] # "none"

(* A timer that runs is in memory, and was started by a connection that    *)
(* was open.                                                               *)
PendingHold ==
    \A t \in Pending : t \in memory /\ (conn[timer[t]] = "open" \/ timer[t] \in ended)

HandlesInv == TypeOK /\ Kept /\ PendingHold /\ OnlyThoseAreMissed

-----------------------------------------------------------------------------
LEMMA HandlesInitInv == Init => HandlesInv
BY HandlesAssumption
   DEF Init, HandlesInv, TypeOK, Kept, PendingHold, OnlyThoseAreMissed, Pending

LEMMA NewInv == ASSUME NEW c \in Conns PROVE HandlesInv /\ onNewConnection(c) => HandlesInv'
<1> SUFFICES ASSUME HandlesInv, onNewConnection(c) PROVE HandlesInv'
  OBVIOUS
<1> USE HandlesAssumption DEF HandlesInv
<1>1. /\ conn[c] = "none" /\ known' = known \cup {c} /\ UNCHANGED <<timer, ended>>
      /\ corrupted' \in BOOLEAN
      /\ \/ conn' = [conn EXCEPT ![c] = "open"] /\ memory' = memory \cup {c}
         \/ conn' = [conn EXCEPT ![c] = "closing"] /\ memory' = memory
  BY DEF onNewConnection, ListIsUsed
<1>2. TypeOK'
  BY <1>1 DEF TypeOK
<1>3. c \notin ended /\ \A t \in Timers : timer[t] # c
  BY <1>1 DEF Kept, PendingHold, Pending
<1>4. \A d \in Conns \ {c} : conn'[d] = conn[d]
  BY <1>1 DEF TypeOK
<1>5. conn'[c] \in {"open", "closing"} /\ (conn'[c] = "open" => c \in memory')
  BY <1>1 DEF TypeOK
<1>6. memory \subseteq memory'
  BY <1>1
<1>7. Kept'
  BY <1>1, <1>3, <1>4, <1>5, <1>6 DEF Kept
<1>8. PendingHold'
  BY <1>1, <1>3, <1>4, <1>6 DEF PendingHold, Pending
<1>9. OnlyThoseAreMissed'
  BY <1>1, <1>3, <1>4, <1>5, <1>6 DEF OnlyThoseAreMissed, Pending
<1> QED
  BY <1>2, <1>7, <1>8, <1>9

LEMMA ClientGoesInv == ASSUME NEW c \in Conns PROVE HandlesInv /\ ClientGoes(c) => HandlesInv'
<1> SUFFICES ASSUME HandlesInv, ClientGoes(c) PROVE HandlesInv'
  OBVIOUS
<1> USE DEF HandlesInv, ClientGoes
<1>1. TypeOK' /\ Kept' /\ PendingHold'
  BY DEF TypeOK, Kept, PendingHold, Pending
<1>2. OnlyThoseAreMissed'
  BY HandlesAssumption DEF OnlyThoseAreMissed, Pending
<1> QED
  BY <1>1, <1>2

LEMMA EofInv == ASSUME NEW c \in Conns PROVE HandlesInv /\ Eof(c) => HandlesInv'
<1> SUFFICES ASSUME HandlesInv, Eof(c) PROVE HandlesInv'
  OBVIOUS
<1> USE HandlesAssumption DEF HandlesInv
<1>1. /\ c \in ended /\ conn' = [conn EXCEPT ![c] = "closing"]
      /\ UNCHANGED <<timer, ended, memory, known, corrupted>>
  BY DEF Eof, AfterEof, AfterUvClose
<1>2. \A d \in Conns \ {c} : conn'[d] = conn[d]
  BY <1>1 DEF TypeOK
<1>3. TypeOK' /\ conn'[c] = "closing" /\ c \in memory
  BY <1>1 DEF TypeOK, Kept
<1>4. Kept'
  BY <1>1, <1>2, <1>3 DEF Kept
<1>5. PendingHold'
  BY <1>1, <1>2 DEF PendingHold, Pending
<1>6. OnlyThoseAreMissed'
  BY <1>1, <1>2, <1>3 DEF OnlyThoseAreMissed, Pending
<1> QED
  BY <1>3, <1>4, <1>5, <1>6

LEMMA FinishInv == ASSUME NEW c \in Conns PROVE HandlesInv /\ FinishClose(c) => HandlesInv'
<1> SUFFICES ASSUME HandlesInv, FinishClose(c) PROVE HandlesInv'
  OBVIOUS
<1> USE HandlesAssumption DEF HandlesInv
<1>1. /\ conn[c] = "closing" /\ conn' = [conn EXCEPT ![c] = "closed"]
      /\ known' = known \ {c} /\ corrupted' \in BOOLEAN
      /\ UNCHANGED <<timer, ended, memory>>
  BY DEF FinishClose, Forgotten, AfterCloseCb, ListIsUsed
<1>2. \A d \in Conns \ {c} : conn'[d] = conn[d]
  BY <1>1 DEF TypeOK
<1>3. TypeOK' /\ conn'[c] = "closed"
  BY <1>1 DEF TypeOK
<1>4. Kept'
  BY <1>1, <1>2, <1>3 DEF Kept
<1>5. PendingHold'
  BY <1>1, <1>2 DEF PendingHold, Pending
<1>6. OnlyThoseAreMissed'
  BY <1>1, <1>2 DEF OnlyThoseAreMissed, Pending
<1> QED
  BY <1>3, <1>4, <1>5, <1>6

LEMMA StartInv ==
    ASSUME NEW t \in Timers, NEW c \in Conns PROVE HandlesInv /\ start_new_timer(t, c) => HandlesInv'
<1> SUFFICES ASSUME HandlesInv, start_new_timer(t, c) PROVE HandlesInv'
  OBVIOUS
<1> USE HandlesAssumption DEF HandlesInv
<1>1. /\ conn[c] = "open" /\ timer' = [timer EXCEPT ![t] = c]
      /\ memory' = memory \cup {t} /\ known' = known \cup {t}
      /\ corrupted' \in BOOLEAN /\ UNCHANGED <<conn, ended>>
  BY DEF start_new_timer, ListIsUsed
<1>2. timer'[t] = c /\ \A u \in Timers \ {t} : timer'[u] = timer[u]
  BY <1>1 DEF TypeOK
<1>3. TypeOK'
  BY <1>1, <1>2 DEF TypeOK
<1>4. Kept'
  BY <1>1 DEF Kept
<1>5. PendingHold'
  BY <1>1, <1>2 DEF PendingHold, Pending
<1>6. OnlyThoseAreMissed'
  BY <1>1, <1>2 DEF OnlyThoseAreMissed, Pending
<1> QED
  BY <1>3, <1>4, <1>5, <1>6

LEMMA ReplyInv == ASSUME NEW t \in Timers PROVE HandlesInv /\ delayed_response_cb(t) => HandlesInv'
<1> SUFFICES ASSUME HandlesInv, delayed_response_cb(t) PROVE HandlesInv'
  OBVIOUS
<1> USE HandlesAssumption DEF HandlesInv
<1>1. /\ timer' = [timer EXCEPT ![t] = t] /\ memory' = memory \ {t}
      /\ corrupted' \in BOOLEAN /\ UNCHANGED <<conn, ended, known>>
  BY DEF delayed_response_cb, Expired
<1>2. timer'[t] = t /\ \A u \in Timers \ {t} : timer'[u] = timer[u]
  BY <1>1 DEF TypeOK
<1>3. TypeOK'
  BY <1>1, <1>2 DEF TypeOK
<1>4. Kept'
  BY <1>1 DEF Kept
<1>5. Pending' = Pending \ {t}
  BY <1>2 DEF Pending
<1>6. PendingHold'
  BY <1>1, <1>2, <1>5 DEF PendingHold, Pending
<1>7. OnlyThoseAreMissed'
  BY <1>1, <1>2, <1>5 DEF OnlyThoseAreMissed, Pending
<1> QED
  BY <1>3, <1>4, <1>6, <1>7

-----------------------------------------------------------------------------
LEMMA HandlesNextInv == HandlesInv /\ [Next]_vars => HandlesInv'
<1> SUFFICES ASSUME HandlesInv, [Next]_vars PROVE HandlesInv'
  OBVIOUS
<1>1. ASSUME NEW c \in Conns,
             onNewConnection(c) \/ ClientGoes(c) \/ Eof(c) \/ FinishClose(c)
      PROVE  HandlesInv'
  BY <1>1, NewInv, ClientGoesInv, EofInv, FinishInv
<1>2. ASSUME NEW t \in Timers, NEW c \in Conns, start_new_timer(t, c) PROVE HandlesInv'
  BY <1>2, StartInv
<1>3. ASSUME NEW t \in Timers, delayed_response_cb(t) PROVE HandlesInv'
  BY <1>3, ReplyInv
<1>4. CASE UNCHANGED vars
  BY <1>4 DEF vars, HandlesInv, TypeOK, Kept, PendingHold, OnlyThoseAreMissed, Pending
<1> QED
  BY <1>1, <1>2, <1>3, <1>4 DEF Next

LEMMA HandlesInvariance == Spec => []HandlesInv
BY HandlesInitInv, HandlesNextInv, PTL DEF Spec

(* The variables keep their types.                                         *)
THEOREM TypeCorrect == Spec => []TypeOK
<1>1. HandlesInv => TypeOK
  BY DEF HandlesInv
<1> QED
  BY <1>1, HandlesInvariance, PTL

(* However late a timer expires, and whatever became of its connection,    *)
(* send_a_std_reply writes to a handle that is in memory.                  *)
THEOREM LateRepliesAreHarmless == Spec => []RepliesFindTheirHandle
<1>1. HandlesInv => RepliesFindTheirHandle
  BY DEF HandlesInv, Kept, PendingHold, RepliesFindTheirHandle, Pending
<1> QED
  BY <1>1, HandlesInvariance, PTL

(* libuv misses no other memory than that of timers that have replied and  *)
(* of connections that could not be accepted.                              *)
THEOREM OnlyKnownPlacesHarm == Spec => []OnlyThoseAreMissed
<1>1. HandlesInv => OnlyThoseAreMissed
  BY DEF HandlesInv
<1> QED
  BY <1>1, HandlesInvariance, PTL

-----------------------------------------------------------------------------
(* The messages of a connection.                                           *)

Places(s, n) == {i \in 1 .. Len(s) : s[i] = n}

(* The units a, of w messages of which those in d were deferred, are as    *)
(* they should be: of another there are as many as C allows.               *)
Right(a, w, d, C) ==
    /\ \A i \in 1 .. Len(a) : a[i] <= w
    /\ \A n \in (1 .. w) \ d : Cardinality(Places(a, n)) \in C
    /\ \A i, j \in 1 .. Len(a) : i < j /\ a[i] # 0 /\ a[j] # 0 => a[i] <= a[j]
    /\ d = {} => \A i \in 1 .. Len(a) : a[i] # 0

WritesTyped ==
    /\ left \in Nat /\ written \in Nat
    /\ queue \in Seq([of : Nat, done : Nat])
    /\ socket \in Seq(Nat) /\ Len(socket) <= Room /\ got \in Seq(Nat)
    /\ deferred \subseteq 1 .. written

(* Units of no message come from libuv's queue only, and what is in it was *)
(* deferred.                                                               *)
WritesInv ==
    /\ WritesTyped
    /\ Right(Writes!Arriving, written, deferred, Writes!Whole)
    /\ deferred = {} => queue = << >>

LEMMA WriteParameters == Units \in Nat /\ Units > 0 /\ Room \in Nat /\ Room > 0 /\ Burst \in Nat
BY WritesAssumption DEF Writes!Parameters

LEMMA Lengthened ==
    ASSUME NEW s \in Seq(Nat), NEW k \in Nat, NEW v \in Nat
    PROVE  LET t == s \o [i \in 1 .. k |-> v]
           IN  /\ t \in Seq(Nat) /\ Len(s) \in Nat /\ Len(t) = Len(s) + k
               /\ \A i \in 1 .. Len(s) : t[i] = s[i]
               /\ \A i \in Len(s) + 1 .. Len(s) + k : t[i] = v
<1> DEFINE r == [i \in 1 .. k |-> v]
           t == s \o r
<1>1. r \in Seq(Nat) /\ Len(r) = k /\ Len(s) \in Nat
  BY LenProperties, IsASeq
<1>2. \A i \in 1 .. k : r[i] = v
  OBVIOUS
<1> HIDE DEF r
<1>3. /\ t \in Seq(Nat) /\ Len(t) = Len(s) + k
      /\ \A i \in 1 .. Len(s) + k : t[i] = IF i <= Len(s) THEN s[i] ELSE r[i - Len(s)]
  BY <1>1, ConcatProperties
<1> HIDE DEF t
<1>4. \A i \in Len(s) + 1 .. Len(s) + k : i \in 1 .. Len(s) + k /\ ~(i <= Len(s)) /\ i - Len(s) \in 1 .. k
  BY <1>1
<1>5. \A i \in 1 .. Len(s) : i \in 1 .. Len(s) + k /\ i <= Len(s)
  BY <1>1
<1>6. /\ t \in Seq(Nat) /\ Len(s) \in Nat /\ Len(t) = Len(s) + k
      /\ \A i \in 1 .. Len(s) : t[i] = s[i]
      /\ \A i \in Len(s) + 1 .. Len(s) + k : t[i] = v
  BY <1>1, <1>2, <1>3, <1>4, <1>5
<1> QED
  BY <1>6 DEF t, r

(* Units that memory has another use for, when some message was deferred. *)
LEMMA SpoiltUnits ==
    ASSUME NEW a \in Seq(Nat), NEW w \in Nat, NEW d, NEW C, d # {}, Right(a, w, d, C),
           NEW b \in Seq(Nat), NEW k \in Nat, Len(b) = Len(a) + k,
           \A i \in 1 .. Len(a) : b[i] = a[i],
           \A i \in Len(a) + 1 .. Len(a) + k : b[i] = 0
    PROVE  Right(b, w, d, C)
<1>1. /\ Len(a) \in Nat
      /\ \A i \in 1 .. Len(a) : a[i] \in Nat
      /\ \A i \in 1 .. Len(b) : i \in 1 .. Len(a) \/ i \in Len(a) + 1 .. Len(a) + k
      /\ \A i \in 1 .. Len(a) : i \in 1 .. Len(b)
  BY LenProperties, ElementOfSeq
<1>2. \A i \in 1 .. Len(b) : b[i] # 0 => i \in 1 .. Len(a) /\ b[i] = a[i]
  BY <1>1
<1>3. \A i \in 1 .. Len(b) : b[i] <= w
  <2>1. (\A i \in 1 .. Len(a) : a[i] <= w) /\ 0 <= w
    BY DEF Right
  <2> QED
    BY <1>1, <2>1
<1>4. ASSUME NEW n \in (1 .. w) \ d PROVE Cardinality(Places(b, n)) \in C
  <2>1. Places(b, n) = Places(a, n)
    BY <1>1, <1>2 DEF Places
  <2> QED
    BY <2>1 DEF Right
<1>5. \A i, j \in 1 .. Len(b) : i < j /\ b[i] # 0 /\ b[j] # 0 => b[i] <= b[j]
  BY <1>2 DEF Right
<1> QED
  BY <1>3, <1>4, <1>5 DEF Right

(* Units of the next message: all, none or, if it is deferred, some. *)
LEMMA NextMessage ==
    ASSUME NEW a \in Seq(Nat), NEW w \in Nat, NEW d, NEW e, NEW C, Right(a, w, d, C),
           NEW b \in Seq(Nat), NEW k \in Nat, Len(b) = Len(a) + k,
           \A i \in 1 .. Len(a) : b[i] = a[i],
           \A i \in Len(a) + 1 .. Len(a) + k : b[i] = w + 1,
           (e = d /\ k \in C) \/ e = d \cup {w + 1}
    PROVE  Right(b, w + 1, e, C)
<1>1. /\ Len(a) \in Nat
      /\ \A i \in 1 .. Len(a) : a[i] \in Nat
      /\ \A i \in 1 .. Len(b) : i \in 1 .. Len(a) \/ i \in Len(a) + 1 .. Len(a) + k
      /\ \A i \in 1 .. Len(a) : i \in 1 .. Len(b) /\ \A j \in Len(a) + 1 .. Len(a) + k : i < j
      /\ \A i \in Len(a) + 1 .. Len(a) + k : i \in 1 .. Len(b)
  BY LenProperties, ElementOfSeq
<1>2. \A i \in 1 .. Len(b) : IF i \in 1 .. Len(a) THEN b[i] = a[i] /\ a[i] \in Nat /\ a[i] <= w
                                                  ELSE b[i] = w + 1
  BY <1>1 DEF Right
<1>3. \A i \in 1 .. Len(b) : b[i] <= w + 1
  <2>1. w + 1 <= w + 1 /\ \A n \in Nat : n <= w => n <= w + 1
    OBVIOUS
  <2> QED
    BY <1>2, <2>1
<1>4. ASSUME NEW n \in (1 .. w + 1) \ e PROVE Cardinality(Places(b, n)) \in C
  <2>1. CASE n \in 1 .. w
    <3>1. Places(b, n) = Places(a, n)
      BY <1>1, <1>2, <2>1 DEF Places
    <3> QED
      BY <1>4, <2>1, <3>1 DEF Right
  <2>2. CASE n = w + 1
    <3>1. Places(b, n) = Len(a) + 1 .. Len(a) + k
      <4>1. \A i \in 1 .. Len(b) : b[i] = n => i \notin 1 .. Len(a)
        BY <1>2, <2>2
      <4>2. \A i \in Len(a) + 1 .. Len(a) + k : i \in 1 .. Len(b) /\ b[i] = n
        BY <1>1, <2>2
      <4> QED
        BY <1>1, <4>1, <4>2, Zenon DEF Places
    <3>2. Cardinality(Len(a) + 1 .. Len(a) + k) = k
      BY <1>1, FS_Interval
    <3>3. k \in C
      BY <1>4, <2>2
    <3> QED
      BY <3>1, <3>2, <3>3
  <2> QED
    BY <2>1, <2>2
<1>5. \A i, j \in 1 .. Len(b) : i < j /\ b[i] # 0 /\ b[j] # 0 => b[i] <= b[j]
  <2> SUFFICES ASSUME NEW i \in 1 .. Len(b), NEW j \in 1 .. Len(b), i < j, b[i] # 0, b[j] # 0
               PROVE  b[i] <= b[j]
    OBVIOUS
  <2>1. CASE j \in 1 .. Len(a)
    <3>1. i \in 1 .. Len(a)
      BY <1>1, <2>1
    <3> QED
      BY <1>2, <2>1, <3>1 DEF Right
  <2>2. CASE j \notin 1 .. Len(a)
    <3>1. b[j] = w + 1
      BY <1>2, <2>2
    <3> QED
      BY <1>3, <3>1
  <2> QED
    BY <2>1, <2>2
<1>6. e = {} => \A i \in 1 .. Len(b) : b[i] # 0
  <2>1. e = {} => d = {}
    OBVIOUS
  <2>2. e = {} => \A i \in 1 .. Len(a) : a[i] # 0
    BY <2>1 DEF Right
  <2>3. w + 1 # 0
    OBVIOUS
  <2> QED
    BY <1>2, <2>2, <2>3
<1> QED
  BY <1>3, <1>4, <1>5, <1>6 DEF Right

LEMMA ShiftConcat ==
    ASSUME NEW S, NEW a \in Seq(S), NEW b \in Seq(S), b # << >>
    PROVE  Append(a, Head(b)) \o Tail(b) = a \o b
<1> DEFINE c == Append(a, Head(b)) \o Tail(b)
           d == a \o b
<1>1. /\ Len(a) \in Nat /\ Len(b) \in Nat /\ Len(b) > 0
      /\ Head(b) = b[1] /\ Head(b) \in S
      /\ Tail(b) \in Seq(S) /\ Len(Tail(b)) = Len(b) - 1
      /\ \A i \in 1 .. Len(Tail(b)) : Tail(b)[i] = b[i + 1]
  BY HeadTailProperties, LenProperties, EmptySeq, ElementOfSeq
<1>2. /\ Append(a, Head(b)) \in Seq(S) /\ Len(Append(a, Head(b))) = Len(a) + 1
      /\ \A i \in 1 .. Len(a) : Append(a, Head(b))[i] = a[i]
      /\ Append(a, Head(b))[Len(a) + 1] = b[1]
  BY <1>1, AppendProperties
<1>3. /\ c \in Seq(S) /\ Len(c) = Len(a) + 1 + (Len(b) - 1)
      /\ \A i \in 1 .. Len(a) + 1 + (Len(b) - 1) :
            c[i] = IF i <= Len(a) + 1 THEN Append(a, Head(b))[i] ELSE Tail(b)[i - (Len(a) + 1)]
  BY <1>1, <1>2, ConcatProperties
<1>4. /\ d \in Seq(S) /\ Len(d) = Len(a) + Len(b)
      /\ \A i \in 1 .. Len(a) + Len(b) : d[i] = IF i <= Len(a) THEN a[i] ELSE b[i - Len(a)]
  BY <1>1, ConcatProperties
<1> HIDE DEF c, d
<1>5. Len(c) = Len(d)
  BY <1>1, <1>3, <1>4
<1>6. \A i \in 1 .. Len(c) : c[i] = d[i]
  <2> SUFFICES ASSUME NEW i \in 1 .. Len(c) PROVE c[i] = d[i]
    OBVIOUS
  <2>0. i \in 1 .. Len(a) + Len(b) /\ i \in 1 .. Len(a) + 1 + (Len(b) - 1)
    BY <1>1, <1>3
  <2>1. CASE i <= Len(a)
    <3>1. i \in 1 .. Len(a) /\ i <= Len(a) + 1
      BY <1>1, <2>0, <2>1
    <3>2. c[i] = Append(a, Head(b))[i] /\ Append(a, Head(b))[i] = a[i]
      BY <1>2, <1>3, <2>0, <3>1
    <3>3. d[i] = a[i]
      BY <1>4, <2>0, <2>1
    <3> QED
      BY <3>2, <3>3
  <2>2. CASE i = Len(a) + 1
    <3>1. i <= Len(a) + 1 /\ ~(i <= Len(a)) /\ i - Len(a) = 1
      BY <1>1, <2>2
    <3>2. c[i] = Append(a, Head(b))[i]
      BY <1>3, <2>0, <3>1
    <3>3. d[i] = b[i - Len(a)]
      BY <1>4, <2>0, <3>1
    <3> QED
      BY <1>2, <2>2, <3>1, <3>2, <3>3
  <2>3. CASE i > Len(a) + 1
    <3>1. i - (Len(a) + 1) \in 1 .. Len(Tail(b)) /\ i - (Len(a) + 1) + 1 = i - Len(a)
      BY <1>1, <1>3, <2>3
    <3>2. Tail(b)[i - (Len(a) + 1)] = b[i - Len(a)]
      BY <1>1, <3>1
    <3>3. c[i] = Tail(b)[i - (Len(a) + 1)] /\ d[i] = b[i - Len(a)]
      BY <1>1, <1>3, <1>4, <2>3
    <3> QED
      BY <3>2, <3>3
  <2> QED
    BY <1>1, <1>3, <2>1, <2>2, <2>3
<1> QED
  BY <1>3, <1>4, <1>5, <1>6, SeqEqual DEF c, d

LEMMA ConcatAppend ==
    ASSUME NEW S, NEW a \in Seq(S), NEW b \in Seq(S), NEW e \in S
    PROVE  a \o Append(b, e) = Append(a \o b, e)
<1>1. <<e>> \in Seq(S)
  OBVIOUS
<1>2. Append(b, e) = b \o <<e>>
  BY AppendIsConcat
<1>3. a \o (b \o <<e>>) = (a \o b) \o <<e>>
  BY <1>1, ConcatAssociative
<1>4. a \o b \in Seq(S)
  BY ConcatProperties
<1>5. Append(a \o b, e) = (a \o b) \o <<e>>
  BY <1>4, AppendIsConcat
<1> QED
  BY <1>2, <1>3, <1>5, Zenon

LEMMA HeadTailConcat ==
    ASSUME NEW S, NEW a \in Seq(S), NEW b \in Seq(S), a # << >>
    PROVE  a \o b # << >> /\ Head(a \o b) = Head(a) /\ Tail(a \o b) = Tail(a) \o b
<1> DEFINE c == a \o b
           t == Tail(a) \o b
<1>1. Len(a) \in Nat /\ Len(b) \in Nat /\ Len(a) > 0
  BY EmptySeq, LenProperties
<1>2. /\ c \in Seq(S) /\ Len(c) = Len(a) + Len(b)
      /\ \A i \in 1 .. Len(a) + Len(b) : c[i] = IF i <= Len(a) THEN a[i] ELSE b[i - Len(a)]
  BY ConcatProperties
<1>3. /\ Head(a) = a[1] /\ Tail(a) \in Seq(S) /\ Len(Tail(a)) = Len(a) - 1
      /\ \A i \in 1 .. Len(a) - 1 : Tail(a)[i] = a[i + 1]
  BY HeadTailProperties
<1>4. /\ t \in Seq(S) /\ Len(t) = Len(a) - 1 + Len(b)
      /\ \A i \in 1 .. Len(a) - 1 + Len(b) :
            t[i] = IF i <= Len(a) - 1 THEN Tail(a)[i] ELSE b[i - (Len(a) - 1)]
  BY <1>3, ConcatProperties
<1> HIDE DEF c, t
<1>5. c # << >>
  BY <1>1, <1>2, EmptySeq
<1>6. /\ Head(c) = c[1] /\ Tail(c) \in Seq(S) /\ Len(Tail(c)) = Len(c) - 1
      /\ \A i \in 1 .. Len(c) - 1 : Tail(c)[i] = c[i + 1]
  BY <1>2, <1>5, HeadTailProperties
<1>7. c[1] = a[1]
  BY <1>1, <1>2
<1>8. \A i \in 1 .. Len(c) - 1 : Tail(c)[i] = t[i]
  <2> SUFFICES ASSUME NEW i \in 1 .. Len(c) - 1 PROVE Tail(c)[i] = t[i]
    OBVIOUS
  <2>1. i + 1 \in 1 .. Len(a) + Len(b) /\ i \in 1 .. Len(a) - 1 + Len(b)
    BY <1>1, <1>2
  <2>2. Tail(c)[i] = IF i + 1 <= Len(a) THEN a[i + 1] ELSE b[i + 1 - Len(a)]
    BY <1>2, <1>6, <2>1
  <2>3. t[i] = IF i <= Len(a) - 1 THEN Tail(a)[i] ELSE b[i - (Len(a) - 1)]
    BY <1>4, <2>1
  <2>4. CASE i <= Len(a) - 1
    <3>1. i + 1 <= Len(a) /\ i \in 1 .. Len(a) - 1
      BY <1>1, <1>2, <2>4
    <3> QED
      BY <1>3, <2>2, <2>3, <2>4, <3>1
  <2>5. CASE ~(i <= Len(a) - 1)
    <3>1. ~(i + 1 <= Len(a)) /\ i + 1 - Len(a) = i - (Len(a) - 1)
      BY <1>1, <1>2, <2>5
    <3> QED
      BY <2>2, <2>3, <2>5, <3>1
  <2> QED
    BY <2>4, <2>5
<1>9. Tail(c) = t
  BY <1>1, <1>2, <1>4, <1>6, <1>8, SeqEqual
<1> QED
  BY <1>3, <1>5, <1>6, <1>7, <1>9 DEF c, t

-----------------------------------------------------------------------------
LEMMA WritesInitInv == Writes!Init => WritesInv
<1> SUFFICES ASSUME Writes!Init PROVE WritesInv
  OBVIOUS
<1>1. /\ left = 0 /\ written = 0 /\ queue = << >> /\ socket = << >> /\ got = << >>
      /\ deferred = {}
  BY DEF Writes!Init
<1>2. << >> \in Seq(Nat) /\ << >> \in Seq([of : Nat, done : Nat]) /\ Len(<< >>) = 0
      /\ << >> \o << >> = << >>
  BY EmptySeq, ConcatEmptySeq
<1>3. 1 .. 0 = {}
  OBVIOUS
<1>4. WritesTyped
  BY <1>1, <1>2, WriteParameters DEF WritesTyped
<1>5. Writes!Arriving = << >>
  BY <1>1, <1>2 DEF Writes!Arriving
<1>6. Right(<< >>, 0, {}, Writes!Whole)
  BY <1>2, <1>3 DEF Right
<1> QED
  BY <1>1, <1>4, <1>5, <1>6 DEF WritesInv

\* The units on the way, and how much room they leave.
LEMMA SocketTyped ==
    ASSUME WritesTyped
    PROVE  /\ Writes!Arriving \in Seq(Nat) /\ Writes!Space \in Nat
           /\ Len(socket) \in Nat /\ Writes!Space = Room - Len(socket)
<1>1. socket \in Seq(Nat) /\ got \in Seq(Nat) /\ Len(socket) \in Nat /\ Len(socket) <= Room
  BY LenProperties DEF WritesTyped
<1>2. Writes!Arriving \in Seq(Nat)
  BY <1>1, ConcatProperties DEF Writes!Arriving
<1> QED
  BY <1>1, <1>2, WriteParameters DEF Writes!Space

(* The socket takes k units of v: so many more arrive. *)
LEMMA SocketTakes ==
    ASSUME WritesTyped, NEW k \in Nat, NEW v \in Nat, k <= Writes!Space,
           socket' = socket \o [i \in 1 .. k |-> v], got' = got
    PROVE  /\ socket' \in Seq(Nat) /\ Len(socket') <= Room
           /\ Writes!Arriving' \in Seq(Nat)
           /\ Len(Writes!Arriving') = Len(Writes!Arriving) + k
           /\ \A i \in 1 .. Len(Writes!Arriving) : Writes!Arriving'[i] = Writes!Arriving[i]
           /\ \A i \in Len(Writes!Arriving) + 1 .. Len(Writes!Arriving) + k :
                 Writes!Arriving'[i] = v
<1> DEFINE r == [i \in 1 .. k |-> v]
<1>1. socket \in Seq(Nat) /\ got \in Seq(Nat) /\ r \in Seq(Nat)
  BY IsASeq DEF WritesTyped
<1>2. socket' \in Seq(Nat) /\ Len(socket') = Len(socket) + k
  BY <1>1, Lengthened
<1>3. Len(socket') <= Room
  BY <1>2, SocketTyped, WriteParameters
<1>4. Writes!Arriving' = got \o (socket \o r)
  BY DEF Writes!Arriving
<1>5. got \o (socket \o r) = (got \o socket) \o r
  BY <1>1, ConcatAssociative
<1>6. Writes!Arriving' = Writes!Arriving \o r
  BY <1>4, <1>5 DEF Writes!Arriving
<1>7. Writes!Arriving \in Seq(Nat)
  BY SocketTyped
<1> QED
  BY <1>2, <1>3, <1>6, <1>7, Lengthened

LEMMA WriteInv == WritesInv /\ Writes!Write => WritesInv'
<1> SUFFICES ASSUME WritesInv, Writes!Write PROVE WritesInv'
  OBVIOUS
<1> DEFINE a == Writes!Arriving
           w == written
           k == Writes!Fits
<1>1. WritesTyped /\ Right(a, w, deferred, Writes!Whole) /\ (deferred = {} => queue = << >>)
  BY DEF WritesInv
<1>2. w \in Nat /\ left \in Nat /\ left > 0 /\ left' = left - 1 /\ written' = w + 1 /\ got' = got
      /\ Writes!Whole' = Writes!Whole
  BY <1>1 DEF Writes!Write, Writes!Whole, WritesTyped
<1>3. left' \in Nat /\ written' \in Nat /\ 1 .. w \subseteq 1 .. written' /\ w + 1 \in 1 .. written'
  BY <1>2
<1>4. k \in Nat /\ k <= Writes!Space
  BY <1>1, SocketTyped, WriteParameters DEF Writes!Fits, Writes!Lesser
<1>5. a \in Seq(Nat)
  BY <1>1, SocketTyped
<1>6. CASE up
  <2>1. /\ socket' = socket \o [i \in 1 .. k |-> w + 1]
        /\ \/ /\ k = Units /\ queue' = queue /\ deferred' = deferred
           \/ /\ queue' = Append(queue, [of |-> w + 1, done |-> k])
              /\ deferred' = deferred \cup {w + 1}
    BY <1>6 DEF Writes!Write, Writes!Bytes
  <2>2. /\ socket' \in Seq(Nat) /\ Len(socket') <= Room
        /\ a' \in Seq(Nat)
        /\ Len(a') = Len(a) + k
        /\ \A i \in 1 .. Len(a) : a'[i] = a[i]
        /\ \A i \in Len(a) + 1 .. Len(a) + k : a'[i] = w + 1
    <3>1. w + 1 \in Nat
      BY <1>2
    <3> HIDE DEF k
    <3> QED
      BY <1>1, <1>2, <1>4, <2>1, <3>1, SocketTakes
  <2>3. (deferred' = deferred /\ k \in Writes!Whole) \/ deferred' = deferred \cup {w + 1}
    BY <1>6, <2>1 DEF Writes!Whole
  <2>4. Right(a', w + 1, deferred', Writes!Whole')
    <3> HIDE DEF a, k
    <3> QED
      BY <1>1, <1>2, <1>4, <1>5, <2>2, <2>3, NextMessage DEF a
  <2>5. queue' \in Seq([of : Nat, done : Nat])
    <3>1. queue \in Seq([of : Nat, done : Nat])
      BY <1>1 DEF WritesTyped
    <3>2. [of |-> w + 1, done |-> k] \in [of : Nat, done : Nat]
      BY <1>2, <1>4
    <3>3. Append(queue, [of |-> w + 1, done |-> k]) \in Seq([of : Nat, done : Nat])
      <4> DEFINE Q == [of : Nat, done : Nat]
                 m == [of |-> w + 1, done |-> k]
      <4>1. queue \in Seq(Q) /\ m \in Q
        BY <3>1, <3>2
      <4> HIDE DEF Q, m
      <4>2. Append(queue, m) \in Seq(Q)
        BY <4>1, AppendProperties
      <4> QED
        BY <4>2 DEF Q, m
    <3> QED
      BY <2>1, <3>1, <3>3, Zenon
  <2>6. WritesTyped'
    <3>1. deferred' \subseteq 1 .. written'
      BY <1>1, <1>3, <2>1 DEF WritesTyped
    <3> QED
      BY <1>1, <1>2, <1>3, <2>2, <2>5, <3>1 DEF WritesTyped
  <2>7. deferred' = {} => queue' = << >>
    BY <1>1, <2>1
  <2> QED
    BY <1>2, <2>4, <2>6, <2>7 DEF WritesInv
<1>7. CASE ~up
  <2>1. UNCHANGED <<queue, socket, deferred>>
    BY <1>7 DEF Writes!Write
  <2>2. a' = a
    BY <1>2, <2>1 DEF Writes!Arriving
  <2>3. WritesTyped'
    <3>1. deferred' \subseteq 1 .. written'
      BY <1>1, <1>3, <2>1 DEF WritesTyped
    <3> QED
      BY <1>1, <1>2, <1>3, <2>1, <3>1 DEF WritesTyped
  <2>4. Right(a, w + 1, deferred, Writes!Whole')
    <3>1. Len(a) \in Nat
      BY <1>5, LenProperties
    <3>2. Len(a) = Len(a) + 0 /\ (\A i \in Len(a) + 1 .. Len(a) + 0 : a[i] = w + 1) /\ 0 \in Nat
      BY <3>1
    <3>3. 0 \in Writes!Whole
      BY <1>7 DEF Writes!Whole
    <3> HIDE DEF a
    <3> QED
      BY <1>1, <1>2, <1>5, <3>2, <3>3, NextMessage
  <2> QED
    BY <1>1, <1>2, <2>1, <2>2, <2>3, <2>4 DEF WritesInv
<1> QED
  BY <1>6, <1>7

(* The loop writes what was deferred. *)
LEMMA FlushInv == WritesInv /\ Writes!uv__write => WritesInv'
<1> SUFFICES ASSUME WritesInv, Writes!uv__write PROVE WritesInv'
  OBVIOUS
<1> DEFINE a == Writes!Arriving
           head == Head(queue)
           k == Writes!Lesser(Units - head.done, Writes!Space)
<1>1. WritesTyped /\ Right(a, written, deferred, Writes!Whole) /\ (deferred = {} => queue = << >>)
  BY DEF WritesInv
<1>2. /\ queue # << >> /\ k > 0 /\ socket' = socket \o [i \in 1 .. k |-> 0]
      /\ \/ queue' = Tail(queue)
         \/ queue' = << [head EXCEPT !.done = @ + k] >> \o Tail(queue)
      /\ UNCHANGED <<left, written, got, deferred>>
      /\ Writes!Whole' = Writes!Whole
  BY DEF Writes!uv__write, Writes!Whole
<1>3. /\ head \in [of : Nat, done : Nat]
      /\ Tail(queue) \in Seq([of : Nat, done : Nat])
  BY <1>1, <1>2, HeadTailProperties DEF WritesTyped
<1>4. k \in Nat /\ k <= Writes!Space
  <2>1. head.done \in Nat
    BY <1>3
  <2> HIDE DEF head
  <2> QED
    BY <1>1, <1>2, <2>1, SocketTyped, WriteParameters DEF Writes!Lesser
<1>5. a \in Seq(Nat)
  BY <1>1, SocketTyped
<1> HIDE DEF k
<1>6. /\ socket' \in Seq(Nat) /\ Len(socket') <= Room
      /\ a' \in Seq(Nat)
      /\ Len(a') = Len(a) + k
      /\ \A i \in 1 .. Len(a) : a'[i] = a[i]
      /\ \A i \in Len(a) + 1 .. Len(a) + k : a'[i] = 0
  BY <1>1, <1>2, <1>4, SocketTakes
<1>7. queue' \in Seq([of : Nat, done : Nat])
  <2> DEFINE h == [head EXCEPT !.done = @ + k]
  <2>1. h \in [of : Nat, done : Nat]
    BY <1>3, <1>4
  <2> HIDE DEF h
  <2>2. <<h>> \in Seq([of : Nat, done : Nat])
    BY <2>1
  <2>3. <<h>> \o Tail(queue) \in Seq([of : Nat, done : Nat])
    BY <1>3, <2>2, ConcatProperties
  <2> QED
    BY <1>2, <1>3, <2>3 DEF h
<1>8. WritesTyped'
  BY <1>1, <1>2, <1>6, <1>7 DEF WritesTyped
<1>9. deferred # {} /\ written \in Nat
  BY <1>1, <1>2 DEF WritesTyped
<1>10. Right(a', written, deferred, Writes!Whole')
  <2> HIDE DEF a
  <2> QED
    BY <1>1, <1>2, <1>4, <1>5, <1>6, <1>9, SpoiltUnits DEF a
<1> QED
  BY <1>2, <1>8, <1>9, <1>10 DEF WritesInv

LEMMA PeerReadsInv == WritesInv /\ Writes!PeerReads => WritesInv'
<1> SUFFICES ASSUME WritesInv, Writes!PeerReads PROVE WritesInv'
  OBVIOUS
<1>1. /\ socket # << >> /\ got' = Append(got, Head(socket)) /\ socket' = Tail(socket)
      /\ UNCHANGED <<left, written, queue, deferred>>
      /\ Writes!Whole' = Writes!Whole
  BY DEF Writes!PeerReads, Writes!Whole
<1>2. WritesTyped /\ socket \in Seq(Nat) /\ got \in Seq(Nat) /\ Len(socket) \in Nat /\ Len(socket) <= Room
  BY LenProperties DEF WritesInv, WritesTyped
<1>3. /\ Head(socket) \in Nat /\ Tail(socket) \in Seq(Nat) /\ Len(Tail(socket)) = Len(socket) - 1
  BY <1>1, <1>2, HeadTailProperties
<1>4. got' \in Seq(Nat)
  BY <1>1, <1>2, <1>3, AppendProperties
<1>5. WritesTyped'
  BY <1>1, <1>2, <1>3, <1>4, WriteParameters DEF WritesTyped
<1>6. Writes!Arriving' = Writes!Arriving
  <2>1. Append(got, Head(socket)) \o Tail(socket) = got \o socket
    BY <1>1, <1>2, ShiftConcat
  <2> QED
    BY <1>1, <2>1 DEF Writes!Arriving
<1> QED
  BY <1>1, <1>5, <1>6 DEF WritesInv

(* Steps that touch neither the socket nor what was read from it. *)
LEMMA OtherWritesInv ==
    /\ WritesInv
    /\ \/ Writes!StartBurst \/ Writes!StartReply \/ Writes!WriteCallback \/ Writes!Close
       \/ UNCHANGED Writes!vars
    => WritesInv'
<1> SUFFICES ASSUME WritesInv,
                    \/ Writes!StartBurst \/ Writes!StartReply \/ Writes!WriteCallback
                    \/ Writes!Close \/ UNCHANGED Writes!vars
             PROVE  WritesInv'
  OBVIOUS
<1>1. /\ UNCHANGED <<written, socket, got, deferred>>
      /\ left' \in {left, 1, Burst}
      /\ queue' \in {queue, << >>}
  BY DEF Writes!StartBurst, Writes!StartReply, Writes!WriteCallback, Writes!Close, Writes!vars
<1>2. WritesTyped'
  <2>1. left' \in Nat /\ queue' \in Seq([of : Nat, done : Nat])
    <3>1. left \in Nat /\ queue \in Seq([of : Nat, done : Nat]) /\ Burst \in Nat
      BY WriteParameters DEF WritesInv, WritesTyped
    <3>2. << >> \in Seq([of : Nat, done : Nat])
      BY EmptySeq
    <3>3. left' = left \/ left' = 1 \/ left' = Burst
      BY <1>1
    <3>4. queue' = queue \/ queue' = << >>
      BY <1>1
    <3>5. 1 \in Nat
      OBVIOUS
    <3> QED
      BY <3>1, <3>2, <3>3, <3>4, <3>5, Zenon
  <2> QED
    BY <1>1, <2>1 DEF WritesInv, WritesTyped
<1>3. Writes!Whole \subseteq Writes!Whole'
  BY DEF Writes!StartBurst, Writes!StartReply, Writes!WriteCallback, Writes!Close, Writes!vars,
         Writes!Whole
<1>4. Right(Writes!Arriving, written, deferred, Writes!Whole')
  BY <1>3 DEF WritesInv, Right
<1>5. Writes!Arriving' = Writes!Arriving
  BY <1>1 DEF Writes!Arriving
<1> QED
  BY <1>1, <1>2, <1>4, <1>5 DEF WritesInv

LEMMA WritesInvariance == Writes!Spec => []WritesInv
<1>1. WritesInv /\ [Writes!Next]_(Writes!vars) => WritesInv'
  BY WriteInv, FlushInv, PeerReadsInv, OtherWritesInv DEF Writes!Next
<1> QED
  BY <1>1, WritesInitInv, PTL DEF Writes!Spec

LEMMA CardinalityThere == \A S : Writes!Cardinality(S) = Cardinality(S)
BY DEF Writes!Cardinality, Cardinality

(* Whatever the sizes of messages and of the room the socket has, a        *)
(* message that did not wait arrives whole, or not at all if the handle    *)
(* was closed, and no other message comes between its units; what arrives  *)
(* is spoilt only if some message had to wait.                             *)
THEOREM OnlyDeferredAreSpoilt == Writes!Spec => []OnlyDeferredIsSpoilt
<1>1. WritesInv => OnlyDeferredIsSpoilt
  <2> SUFFICES ASSUME WritesInv PROVE OnlyDeferredIsSpoilt
    OBVIOUS
  <2>1. Right(Writes!Arriving, written, deferred, Writes!Whole) /\ written \in Nat
    BY DEF WritesInv, WritesTyped
  <2>2. \A n \in Writes!Ids \ deferred : n <= written => n \in (1 .. written) \ deferred
    BY <2>1 DEF Writes!Ids
  <2>3. \A n \in Writes!Ids \ deferred : n <= written =>
           Cardinality({i \in 1 .. Len(Writes!Arriving) : Writes!Arriving[i] = n}) \in Writes!Whole
    BY <2>1, <2>2 DEF Right, Places
  <2>4. \A i, j \in 1 .. Len(Writes!Arriving) :
           i < j /\ 0 \notin {Writes!Arriving[i], Writes!Arriving[j]}
             => Writes!Arriving[i] <= Writes!Arriving[j]
    BY <2>1 DEF Right
  <2>5. deferred = {} => 0 \notin Writes!ToSet(Writes!Arriving)
    BY <2>1 DEF Right, Writes!ToSet
  <2> QED
    BY <2>3, <2>4, <2>5, CardinalityThere DEF OnlyDeferredIsSpoilt, Writes!OnlyDeferredIsSpoilt
<1> QED
  BY <1>1, WritesInvariance, PTL


-----------------------------------------------------------------------------
(* The requests of a connection.                                           *)

Entries == [of : Writes!Ids, done : 0 .. Units - 1]

Of(q) == [i \in 1 .. Len(q) |-> q[i].of]

(* The messages of a queue as it grows and shrinks. *)
LEMMA OfTyped ==
    ASSUME NEW q \in Seq(Entries)
    PROVE  /\ Of(q) \in Seq(Writes!Ids) /\ Len(Of(q)) = Len(q) /\ Len(q) \in Nat
           /\ \A i \in 1 .. Len(q) : Of(q)[i] = q[i].of
<1>1. \A i \in 1 .. Len(q) : q[i].of \in Writes!Ids
  <2>1. \A i \in 1 .. Len(q) : q[i] \in Entries
    BY ElementOfSeq
  <2> QED
    BY <2>1 DEF Entries
<1>2. Len(q) \in Nat
  BY LenProperties
<1> QED
  BY <1>1, <1>2 DEF Of

LEMMA OfAppended ==
    ASSUME NEW q \in Seq(Entries), NEW e \in Entries
    PROVE  Of(Append(q, e)) = Append(Of(q), e.of)
<1> DEFINE r == Of(Append(q, e))
           s == Append(Of(q), e.of)
<1>1. e.of \in Writes!Ids
  BY DEF Entries
<1>2. /\ Append(q, e) \in Seq(Entries) /\ Len(Append(q, e)) = Len(q) + 1
      /\ Append(q, e)[Len(q) + 1] = e /\ \A i \in 1 .. Len(q) : Append(q, e)[i] = q[i]
  BY AppendProperties
<1>3. /\ Of(q) \in Seq(Writes!Ids) /\ Len(Of(q)) = Len(q) /\ Len(q) \in Nat
      /\ \A i \in 1 .. Len(q) : Of(q)[i] = q[i].of
  BY OfTyped
<1>4. /\ r \in Seq(Writes!Ids) /\ Len(r) = Len(q) + 1
      /\ \A i \in 1 .. Len(q) + 1 : r[i] = Append(q, e)[i].of
  BY <1>2, OfTyped
<1>5. /\ s \in Seq(Writes!Ids) /\ Len(s) = Len(q) + 1 /\ s[Len(q) + 1] = e.of
      /\ \A i \in 1 .. Len(q) : s[i] = Of(q)[i]
  BY <1>1, <1>3, AppendProperties
<1> HIDE DEF r, s
<1>6. \A i \in 1 .. Len(q) + 1 : i \in 1 .. Len(q) \/ i = Len(q) + 1
  BY <1>3
<1>7. \A i \in 1 .. Len(q) + 1 : r[i] = s[i]
  BY <1>2, <1>3, <1>4, <1>5, <1>6
<1> QED
  BY <1>4, <1>5, <1>7, SeqEqual DEF r, s

LEMMA OfShortened ==
    ASSUME NEW q \in Seq(Entries), q # << >>
    PROVE  /\ Of(q) # << >> /\ Head(Of(q)) = Head(q).of
           /\ Of(Tail(q)) = Tail(Of(q))
           /\ Head(q) = q[1] /\ Head(q) \in Entries /\ Tail(q) \in Seq(Entries)
<1>1. Len(q) \in Nat /\ Len(q) > 0
  BY EmptySeq, LenProperties
<1>2. /\ Head(q) = q[1] /\ Head(q) \in Entries
      /\ Tail(q) \in Seq(Entries) /\ Len(Tail(q)) = Len(q) - 1
      /\ \A i \in 1 .. Len(Tail(q)) : Tail(q)[i] = q[i + 1]
  BY HeadTailProperties
<1>3. /\ Of(q) \in Seq(Writes!Ids) /\ Len(Of(q)) = Len(q)
      /\ \A i \in 1 .. Len(q) : Of(q)[i] = q[i].of
  BY OfTyped
<1>4. Of(q) # << >>
  BY <1>1, <1>3, EmptySeq
<1>5. /\ Head(Of(q)) = Of(q)[1]
      /\ Tail(Of(q)) \in Seq(Writes!Ids) /\ Len(Tail(Of(q))) = Len(q) - 1
      /\ \A i \in 1 .. Len(q) - 1 : Tail(Of(q))[i] = Of(q)[i + 1]
  BY <1>3, <1>4, HeadTailProperties
<1>6. /\ Of(Tail(q)) \in Seq(Writes!Ids) /\ Len(Of(Tail(q))) = Len(q) - 1
      /\ \A i \in 1 .. Len(q) - 1 : Of(Tail(q))[i] = Tail(q)[i].of
  BY <1>2, OfTyped
<1>7. 1 \in 1 .. Len(q) /\ \A i \in 1 .. Len(q) - 1 : i + 1 \in 1 .. Len(q)
  BY <1>1
<1>8. \A i \in 1 .. Len(q) - 1 : Of(Tail(q))[i] = Tail(Of(q))[i]
  BY <1>2, <1>3, <1>5, <1>6, <1>7
<1>9. Of(Tail(q)) = Tail(Of(q))
  BY <1>5, <1>6, <1>8, SeqEqual
<1> QED
  BY <1>2, <1>3, <1>4, <1>5, <1>7, <1>9

\* Another first entry for the same message.
LEMMA OfContinued ==
    ASSUME NEW q \in Seq(Entries), q # << >>, NEW h \in Entries, h.of = Head(q).of
    PROVE  <<h>> \o Tail(q) \in Seq(Entries) /\ Of(<<h>> \o Tail(q)) = Of(q)
<1> DEFINE r == <<h>> \o Tail(q)
<1>1. Len(q) \in Nat /\ Len(q) > 0
  BY EmptySeq, LenProperties
<1>2. /\ Head(q) = q[1] /\ Tail(q) \in Seq(Entries) /\ Len(Tail(q)) = Len(q) - 1
      /\ \A i \in 1 .. Len(Tail(q)) : Tail(q)[i] = q[i + 1]
  BY HeadTailProperties
<1>3. <<h>> \in Seq(Entries) /\ Len(<<h>>) = 1 /\ <<h>>[1] = h
  OBVIOUS
<1>4. /\ r \in Seq(Entries) /\ Len(r) = 1 + (Len(q) - 1)
      /\ \A i \in 1 .. 1 + (Len(q) - 1) :
            r[i] = IF i <= 1 THEN <<h>>[i] ELSE Tail(q)[i - 1]
  BY <1>2, <1>3, ConcatProperties
<1> HIDE DEF r
<1>5. Len(r) = Len(q) /\ r[1] = h
  BY <1>1, <1>3, <1>4
<1>6. \A i \in 2 .. Len(q) : r[i] = q[i]
  <2> SUFFICES ASSUME NEW i \in 2 .. Len(q) PROVE r[i] = q[i]
    OBVIOUS
  <2>1. i \in 1 .. 1 + (Len(q) - 1) /\ ~(i <= 1) /\ i - 1 \in 1 .. Len(q) - 1 /\ (i - 1) + 1 = i
    BY <1>1
  <2> QED
    BY <1>2, <1>4, <2>1
<1>7. \A i \in 1 .. Len(q) : r[i].of = q[i].of
  <2>1. \A i \in 1 .. Len(q) : i = 1 \/ i \in 2 .. Len(q)
    BY <1>1
  <2> QED
    BY <1>2, <1>5, <1>6, <2>1
<1>8. Of(r) = Of(q)
  BY <1>5, <1>7 DEF Of
<1> QED
  BY <1>4, <1>8 DEF r

(* Of w writes those in d are due in their order, r is in memory, and, as  *)
(* long as u, nothing else is.                                             *)
Called(d, w, r, u) ==
    /\ \A i \in 1 .. Len(d) : d[i] \in r
    /\ \A i, j \in 1 .. Len(d) : i < j => d[i] < d[j]
    /\ \A n \in r : n \in 1 .. w
    /\ u => \A n \in r : \E i \in 1 .. Len(d) : d[i] = n

LEMMA CalledLast ==
    ASSUME NEW w \in Nat, NEW d \in Seq(Nat), NEW r, NEW u, Called(d, w, r, u)
    PROVE  Called(Append(d, w + 1), w + 1, r \cup {w + 1}, u)
<1> DEFINE a == Append(d, w + 1)
<1>1. /\ Len(d) \in Nat /\ Len(a) = Len(d) + 1 /\ a[Len(d) + 1] = w + 1
      /\ \A i \in 1 .. Len(d) : a[i] = d[i]
  BY AppendProperties, LenProperties
<1> HIDE DEF a
<1>2. \A i \in 1 .. Len(a) : i \in 1 .. Len(d) \/ i = Len(d) + 1
  BY <1>1
<1>3. \A i \in 1 .. Len(a) : a[i] \in r \cup {w + 1}
  BY <1>1, <1>2 DEF Called
<1>4. \A i, j \in 1 .. Len(a) : i < j => a[i] < a[j]
  <2> SUFFICES ASSUME NEW i \in 1 .. Len(a), NEW j \in 1 .. Len(a), i < j PROVE a[i] < a[j]
    OBVIOUS
  <2>1. i \in 1 .. Len(d)
    BY <1>1
  <2>2. CASE j \in 1 .. Len(d)
    BY <1>1, <2>1, <2>2 DEF Called
  <2>3. CASE j = Len(d) + 1
    <3>1. d[i] \in 1 .. w
      BY <2>1 DEF Called
    <3> QED
      BY <1>1, <2>1, <2>3, <3>1
  <2> QED
    BY <1>2, <2>2, <2>3
<1>5. \A n \in r \cup {w + 1} : n \in 1 .. w + 1
  BY DEF Called
<1>6. ASSUME u, NEW n \in r \cup {w + 1} PROVE \E i \in 1 .. Len(a) : a[i] = n
  <2>1. CASE n = w + 1
    BY <1>1, <2>1
  <2>2. CASE n \in r
    <3>1. PICK i \in 1 .. Len(d) : d[i] = n
      BY <1>6, <2>2 DEF Called
    <3>2. i \in 1 .. Len(a) /\ a[i] = n
      BY <1>1, <3>1
    <3> QED
      BY <3>2
  <2> QED
    BY <2>1, <2>2
<1> QED
  BY <1>3, <1>4, <1>5, <1>6 DEF Called, a

LEMMA CalledRefused ==
    ASSUME NEW w \in Nat, NEW d, NEW r, Called(d, w, r, FALSE)
    PROVE  Called(d, w + 1, r \cup {w + 1}, FALSE)
BY DEF Called

LEMMA CalledFirst ==
    ASSUME NEW w \in Nat, NEW d \in Seq(Nat), d # << >>, NEW r, NEW u, Called(d, w, r, u)
    PROVE  Called(Tail(d), w, r \ {Head(d)}, u)
<1> DEFINE t == Tail(d)
           h == Head(d)
<1>1. Len(d) \in Nat /\ Len(d) > 0
  BY EmptySeq, LenProperties
<1>2. /\ h = d[1] /\ Len(t) = Len(d) - 1 /\ \A i \in 1 .. Len(t) : t[i] = d[i + 1]
  BY HeadTailProperties
<1> HIDE DEF t, h
<1>3. \A i \in 1 .. Len(t) : i + 1 \in 1 .. Len(d) /\ 1 < i + 1 /\ t[i] = d[i + 1]
  BY <1>1, <1>2
<1>4. /\ 1 \in 1 .. Len(d) /\ \A i \in 1 .. Len(d) : d[i] \in r /\ d[i] \in Nat
      /\ \A i, j \in 1 .. Len(d) : i < j => d[i] < d[j]
  BY <1>1, ElementOfSeq DEF Called
<1>5. \A i \in 1 .. Len(t) : t[i] \in r \ {h}
  <2> SUFFICES ASSUME NEW i \in 1 .. Len(t) PROVE t[i] \in r \ {h}
    OBVIOUS
  <2>1. d[1] < d[i + 1] /\ d[i + 1] \in r /\ d[1] \in Nat /\ d[i + 1] \in Nat
    BY <1>3, <1>4
  <2> QED
    BY <1>2, <1>3, <2>1
<1>6. \A i, j \in 1 .. Len(t) : i < j => t[i] < t[j]
  <2> SUFFICES ASSUME NEW i \in 1 .. Len(t), NEW j \in 1 .. Len(t), i < j PROVE t[i] < t[j]
    OBVIOUS
  <2>1. i + 1 < j + 1
    OBVIOUS
  <2> QED
    BY <1>3, <1>4, <2>1
<1>7. ASSUME u, NEW n \in r \ {h} PROVE \E i \in 1 .. Len(t) : t[i] = n
  <2>1. PICK i \in 1 .. Len(d) : d[i] = n
    BY <1>7 DEF Called
  <2>2. i # 1
    BY <1>2, <1>7, <2>1
  <2>3. i - 1 \in 1 .. Len(t) /\ (i - 1) + 1 = i
    BY <1>1, <1>2, <2>2
  <2>4. t[i - 1] = n
    BY <1>2, <2>1, <2>3
  <2> QED
    BY <2>3, <2>4
<1> QED
  BY <1>5, <1>6, <1>7 DEF Called, t, h

CallsTyped ==
    /\ up \in BOOLEAN /\ written + left <= MaxMessages
    /\ queue \in Seq(Entries) /\ completed \in Seq(Writes!Ids)

(* What is due was written, and its request is in memory.                  *)
CallsInv == CallsTyped /\ Called(Writes!Due, written, requests, up)

LEMMA IdsAreNumbers == Writes!Ids \subseteq Nat /\ MaxMessages \in Nat
BY WritesAssumption DEF Writes!Ids, Writes!Parameters

LEMMA DueIs ==
    ASSUME CallsTyped
    PROVE  /\ Writes!Due = completed \o Of(queue)
           /\ Writes!Due \in Seq(Writes!Ids) /\ Writes!Due \in Seq(Nat)
           /\ completed \in Seq(Writes!Ids) /\ Of(queue) \in Seq(Writes!Ids)
<1>1. Writes!Due = completed \o Of(queue)
  BY DEF Writes!Due, Of
<1>2. completed \in Seq(Writes!Ids) /\ Of(queue) \in Seq(Writes!Ids)
  BY OfTyped DEF CallsTyped
<1>3. Writes!Due \in Seq(Writes!Ids)
  BY <1>1, <1>2, ConcatProperties
<1>4. Writes!Due \in Seq(Nat)
  <2>1. \A S, T : S \subseteq T => Seq(S) \subseteq Seq(T)
    OBVIOUS
  <2> QED
    BY <1>3, <2>1, IdsAreNumbers
<1> QED
  BY <1>1, <1>2, <1>3, <1>4

LEMMA CallsInitInv == Writes!Init => CallsInv
<1> SUFFICES ASSUME Writes!Init PROVE CallsInv
  OBVIOUS
<1>1. /\ up = TRUE /\ left = 0 /\ written = 0 /\ queue = << >> /\ completed = << >>
      /\ requests = {}
  BY DEF Writes!Init
<1>2. << >> \in Seq(Entries) /\ << >> \in Seq(Writes!Ids) /\ Len(<< >>) = 0
  BY EmptySeq
<1>3. CallsTyped
  BY <1>1, <1>2, IdsAreNumbers DEF CallsTyped
<1>4. Of(<< >>) = << >> /\ << >> \o << >> = << >>
  <2>1. Of(<< >>) \in Seq(Writes!Ids) /\ Len(Of(<< >>)) = 0
    BY <1>2, OfTyped
  <2> QED
    BY <1>2, <2>1, EmptySeq, ConcatEmptySeq
<1>5. Writes!Due = << >>
  BY <1>1, <1>3, <1>4, DueIs
<1>6. 1 .. 0 = {}
  OBVIOUS
<1>7. Called(<< >>, 0, {}, TRUE)
  BY <1>2, <1>6 DEF Called
<1> QED
  BY <1>1, <1>3, <1>5, <1>7 DEF CallsInv

(* A write is due last, unless it was refused.                             *)
LEMMA WriteCalls == WritesInv /\ CallsInv /\ Writes!Write => CallsInv'
<1> SUFFICES ASSUME WritesInv, CallsInv, Writes!Write PROVE CallsInv'
  OBVIOUS
<1> DEFINE w == written
           k == Writes!Fits
           e == [of |-> w + 1, done |-> k]
<1>1. /\ w \in Nat /\ left \in Nat /\ left > 0 /\ left' = left - 1 /\ written' = w + 1
      /\ requests' = requests \cup {w + 1} /\ up' = up /\ w + left <= MaxMessages
  BY DEF WritesInv, WritesTyped, CallsInv, CallsTyped, Writes!Write
<1>2. written' + left' <= MaxMessages /\ w + 1 \in Writes!Ids
  BY <1>1, IdsAreNumbers DEF Writes!Ids
<1>3. CallsTyped /\ Called(Writes!Due, w, requests, up) /\ up \in BOOLEAN
  BY DEF CallsInv, CallsTyped
<1>4. /\ Writes!Due = completed \o Of(queue) /\ Writes!Due \in Seq(Nat)
      /\ completed \in Seq(Writes!Ids) /\ Of(queue) \in Seq(Writes!Ids) /\ queue \in Seq(Entries)
  BY <1>3, DueIs DEF CallsTyped
<1>5. CASE up /\ k = Units
  <2>1. completed' = Append(completed, w + 1) /\ queue' = queue
    BY <1>5 DEF Writes!Write
  <2>2. queue = << >>
    BY <1>5, WriteParameters DEF Writes!Fits
  <2>3. CallsTyped'
    BY <1>1, <1>2, <1>3, <1>4, <2>1, AppendProperties DEF CallsTyped
  <2>4. Of(queue) = << >>
    BY <1>4, <2>2, OfTyped, EmptySeq
  <2>5. Writes!Due' = Append(Writes!Due, w + 1)
    <3>1. Append(completed, w + 1) \in Seq(Writes!Ids)
      BY <1>2, <1>4, AppendProperties
    <3>2. Append(completed, w + 1) \o << >> = Append(completed, w + 1) /\ completed \o << >> = completed
      BY <1>4, <3>1, ConcatEmptySeq
    <3>3. Writes!Due' = completed' \o Of(queue)'
      BY DEF Writes!Due, Of
    <3>4. Of(queue)' = Of(queue)
      BY <2>1
    <3> QED
      BY <1>4, <2>1, <2>4, <3>2, <3>3, <3>4
  <2> QED
    BY <1>1, <1>3, <1>4, <2>3, <2>5, CalledLast DEF CallsInv
<1>6. CASE up /\ k # Units
  <2>1. queue' = Append(queue, e) /\ completed' = completed
    BY <1>6 DEF Writes!Write
  <2>2. k \in 0 .. Units - 1
    <3>1. Writes!Space \in Nat
      BY SocketTyped DEF WritesInv
    <3> QED
      BY <1>6, <3>1, WriteParameters DEF Writes!Fits, Writes!Lesser
  <2>3. e \in Entries /\ e.of = w + 1
    BY <1>2, <2>2 DEF Entries
  <2> HIDE DEF e
  <2>4. CallsTyped'
    BY <1>1, <1>2, <1>3, <1>4, <2>1, <2>3, AppendProperties DEF CallsTyped
  <2>5. Writes!Due' = Append(Writes!Due, w + 1)
    <3>1. Of(Append(queue, e)) = Append(Of(queue), w + 1)
      BY <1>4, <2>3, OfAppended
    <3>2. completed \o Append(Of(queue), w + 1) = Append(completed \o Of(queue), w + 1)
      BY <1>2, <1>4, ConcatAppend
    <3>3. Writes!Due' = completed' \o Of(queue')
      BY DEF Writes!Due, Of
    <3> QED
      BY <1>4, <2>1, <3>1, <3>2, <3>3
  <2> QED
    BY <1>1, <1>3, <1>4, <2>4, <2>5, CalledLast DEF CallsInv
<1>7. CASE ~up
  <2>1. UNCHANGED <<queue, completed>>
    BY <1>7 DEF Writes!Write
  <2>2. CallsTyped' /\ Writes!Due' = Writes!Due
    BY <1>1, <1>2, <1>3, <2>1 DEF CallsTyped, Writes!Due
  <2> QED
    BY <1>1, <1>3, <1>7, <2>2, CalledRefused DEF CallsInv
<1> QED
  BY <1>5, <1>6, <1>7

(* What the loop writes is due when it was.                                *)
LEMMA FlushCalls == WritesInv /\ CallsInv /\ Writes!uv__write => CallsInv'
<1> SUFFICES ASSUME WritesInv, CallsInv, Writes!uv__write PROVE CallsInv'
  OBVIOUS
<1> DEFINE head == Head(queue)
           n == Writes!Lesser(Units - head.done, Writes!Space)
           h == [head EXCEPT !.done = @ + n]
<1>1. /\ queue # << >> /\ n > 0 /\ UNCHANGED <<up, left, written, requests>>
      /\ IF head.done + n = Units
         THEN queue' = Tail(queue) /\ completed' = Append(completed, head.of)
         ELSE queue' = <<h>> \o Tail(queue) /\ completed' = completed
  BY DEF Writes!uv__write
<1>2. /\ CallsTyped /\ Called(Writes!Due, written, requests, up) /\ queue \in Seq(Entries)
      /\ completed \in Seq(Writes!Ids) /\ Of(queue) \in Seq(Writes!Ids)
      /\ Writes!Due = completed \o Of(queue)
  BY DueIs DEF CallsInv, CallsTyped
<1>3. /\ head \in Entries /\ Tail(queue) \in Seq(Entries) /\ Of(queue) # << >>
      /\ Head(Of(queue)) = head.of /\ Of(Tail(queue)) = Tail(Of(queue))
  BY <1>1, <1>2, OfShortened
<1>4. CASE head.done + n = Units
  <2>1. queue' = Tail(queue) /\ completed' = Append(completed, head.of)
    BY <1>1, <1>4
  <2>2. head.of \in Writes!Ids
    BY <1>3 DEF Entries
  <2> HIDE DEF head
  <2>3. CallsTyped'
    BY <1>1, <1>2, <1>3, <2>1, <2>2, AppendProperties DEF CallsTyped
  <2>4. Append(completed, Head(Of(queue))) \o Tail(Of(queue)) = completed \o Of(queue)
    BY <1>2, <1>3, ShiftConcat
  <2>5. Writes!Due' = Writes!Due
    <3>1. Writes!Due' = completed' \o Of(queue')
      BY DEF Writes!Due, Of
    <3> QED
      BY <1>2, <1>3, <2>1, <2>4, <3>1
  <2> QED
    BY <1>1, <1>2, <2>3, <2>5 DEF CallsInv
<1>5. CASE head.done + n # Units
  <2>1. queue' = <<h>> \o Tail(queue) /\ completed' = completed
    BY <1>1, <1>5
  <2>2. h \in Entries /\ h.of = head.of
    <3>1. Writes!Space \in Nat /\ head.done \in 0 .. Units - 1
      BY <1>3, SocketTyped DEF WritesInv, Entries
    <3>2. head.done + n \in 0 .. Units - 1
      <4> DEFINE done == head.done
      <4>1. done \in 0 .. Units - 1
        BY <3>1
      <4>2. \A a \in 0 .. Units - 1, s \in Nat :
              LET b == IF Units - a < s THEN Units - a ELSE s
              IN  a + b # Units => a + b \in 0 .. Units - 1
        BY WriteParameters
      <4> QED
        BY <1>5, <3>1, <4>2 DEF Writes!Lesser
    <3> QED
      BY <1>3, <3>2 DEF Entries
  <2> HIDE DEF h, head
  <2>3. <<h>> \o Tail(queue) \in Seq(Entries) /\ Of(<<h>> \o Tail(queue)) = Of(queue)
    BY <1>1, <1>2, <2>2, OfContinued DEF head
  <2>4. CallsTyped'
    BY <1>1, <1>2, <2>1, <2>3 DEF CallsTyped
  <2>5. Writes!Due' = Writes!Due
    <3>1. Writes!Due' = completed' \o Of(queue')
      BY DEF Writes!Due, Of
    <3> QED
      BY <1>2, <2>1, <2>3, <3>1
  <2> QED
    BY <1>1, <1>2, <2>4, <2>5 DEF CallsInv
<1> QED
  BY <1>4, <1>5

(* The callback of the first that is due frees its request, which no other *)
(* has.                                                                    *)
LEMMA CallbackCalls == WritesInv /\ CallsInv /\ Writes!WriteCallback => CallsInv'
<1> SUFFICES ASSUME WritesInv, CallsInv, Writes!WriteCallback PROVE CallsInv'
  OBVIOUS
<1>1. /\ completed # << >> /\ requests' = requests \ {Head(completed)}
      /\ completed' = Tail(completed) /\ UNCHANGED <<up, left, written, queue>>
  BY DEF Writes!WriteCallback, Writes!AfterCallback
<1>2. /\ CallsTyped /\ Called(Writes!Due, written, requests, up) /\ written \in Nat
      /\ completed \in Seq(Writes!Ids) /\ Of(queue) \in Seq(Writes!Ids)
      /\ Writes!Due = completed \o Of(queue) /\ Writes!Due \in Seq(Nat)
  BY DueIs DEF CallsInv, WritesInv, WritesTyped
<1>3. Tail(completed) \in Seq(Writes!Ids) /\ Len(completed) \in Nat /\ Len(completed) > 0
  BY <1>1, <1>2, HeadTailProperties, EmptySeq, LenProperties
<1>4. CallsTyped'
  BY <1>1, <1>2, <1>3 DEF CallsTyped
<1>5. /\ Writes!Due # << >> /\ Head(Writes!Due) = Head(completed)
      /\ Tail(Writes!Due) = Tail(completed) \o Of(queue)
  BY <1>1, <1>2, HeadTailConcat
<1>6. Writes!Due' = Tail(Writes!Due)
  <2>1. Writes!Due' = completed' \o Of(queue')
    BY DEF Writes!Due, Of
  <2> QED
    BY <1>1, <1>5, <2>1
<1> QED
  BY <1>1, <1>2, <1>4, <1>5, <1>6, CalledFirst DEF CallsInv

(* Closing calls back for all that waits, in its order.                    *)
LEMMA CloseCalls == CallsInv /\ Writes!Close => CallsInv'
<1> SUFFICES ASSUME CallsInv, Writes!Close PROVE CallsInv'
  OBVIOUS
<1>1. /\ up' = FALSE /\ queue' = << >> /\ completed' = Writes!Due
      /\ UNCHANGED <<left, written, requests>>
  BY DEF Writes!Close, Writes!Due
<1>2. /\ CallsTyped /\ Called(Writes!Due, written, requests, up)
      /\ Writes!Due \in Seq(Writes!Ids)
  BY DueIs DEF CallsInv
<1>3. << >> \in Seq(Entries)
  BY EmptySeq
<1>4. CallsTyped'
  BY <1>1, <1>2, <1>3 DEF CallsTyped
<1>5. Of(<< >>) = << >>
  BY <1>3, OfTyped, EmptySeq
<1>6. Writes!Due' = Writes!Due
  <2>1. Writes!Due' = completed' \o Of(queue')
    BY DEF Writes!Due, Of
  <2>2. Writes!Due \o << >> = Writes!Due
    BY <1>2, ConcatEmptySeq
  <2> QED
    BY <1>1, <1>5, <2>1, <2>2
<1>7. Called(Writes!Due, written, requests, FALSE)
  BY <1>2 DEF Called
<1> QED
  BY <1>1, <1>4, <1>6, <1>7 DEF CallsInv

\* Steps that neither write nor call back.
LEMMA OtherCalls ==
    /\ WritesInv /\ CallsInv
    /\ Writes!StartBurst \/ Writes!StartReply \/ Writes!PeerReads \/ UNCHANGED Writes!vars
    => CallsInv'
<1> SUFFICES ASSUME WritesInv, CallsInv,
                    Writes!StartBurst \/ Writes!StartReply \/ Writes!PeerReads \/ UNCHANGED Writes!vars
             PROVE  CallsInv'
  OBVIOUS
<1>1. UNCHANGED <<up, written, queue, completed, requests>>
  BY DEF Writes!StartBurst, Writes!StartReply, Writes!PeerReads, Writes!vars
<1>2. written' + left' <= MaxMessages
  <2>1. written \in Nat /\ MaxMessages \in Nat
    BY IdsAreNumbers DEF WritesInv, WritesTyped
  <2>2. CASE Writes!StartBurst
    BY <2>2 DEF Writes!StartBurst
  <2>3. CASE Writes!StartReply
    BY <2>1, <2>3 DEF Writes!StartReply
  <2>4. CASE Writes!PeerReads \/ UNCHANGED Writes!vars
    BY <2>4 DEF Writes!PeerReads, Writes!vars, CallsInv, CallsTyped
  <2> QED
    BY <2>2, <2>3, <2>4
<1>3. CallsTyped'
  BY <1>1, <1>2 DEF CallsInv, CallsTyped
<1> QED
  BY <1>1, <1>3 DEF CallsInv, Writes!Due

LEMMA CallsInvariance == Writes!Spec => [](WritesInv /\ CallsInv)
<1>1. WritesInv /\ CallsInv /\ [Writes!Next]_(Writes!vars) => CallsInv'
  BY WriteCalls, FlushCalls, CallbackCalls, CloseCalls, OtherCalls DEF Writes!Next
<1> QED
  BY <1>1, CallsInitInv, WritesInvariance, PTL DEF Writes!Spec

(* libuv calls back for every write it took once and in the order of the   *)
(* writes, with a request nobody has freed, also when the connection is    *)
(* closed while some wait; while it is open no other request is in memory. *)
THEOREM RequestsAreFreedOnce == Writes!Spec => []Writes!CalledBackOnce
<1>1. WritesInv /\ CallsInv => Writes!CalledBackOnce
  <2> SUFFICES ASSUME WritesInv, CallsInv PROVE Writes!CalledBackOnce
    OBVIOUS
  <2>1. Called(Writes!Due, written, requests, up) /\ Writes!Due \in Seq(Nat)
    BY DueIs DEF CallsInv
  <2>2. \A n : n \in Writes!Waiting <=> \E i \in 1 .. Len(Writes!Due) : Writes!Due[i] = n
    BY <2>1 DEF Writes!Waiting, Writes!ToSet
  <2> HIDE DEF Writes!Waiting
  <2> QED
    BY <2>1, <2>2 DEF Called, Writes!CalledBackOnce
<1> QED
  BY <1>1, CallsInvariance, PTL

(* Every variable of a connection's writes keeps its type.                 *)
THEOREM WritesTypeCorrect == Writes!Spec => []Writes!TypeOK
<1>1. WritesInv /\ CallsInv => Writes!TypeOK
  <2> SUFFICES ASSUME WritesInv, CallsInv PROVE Writes!TypeOK
    OBVIOUS
  <2>1. /\ left \in Nat /\ written \in Nat /\ written + left <= MaxMessages /\ up \in BOOLEAN
        /\ queue \in Seq([of : Writes!Ids, done : 0 .. Units - 1])
        /\ completed \in Seq(Writes!Ids) /\ Len(socket) <= Room
        /\ deferred \subseteq 1 .. written
    BY DEF WritesInv, WritesTyped, CallsInv, CallsTyped, Entries
  <2>2. written \in 0 .. MaxMessages - left /\ 1 .. written \subseteq Writes!Ids
    BY <2>1, IdsAreNumbers DEF Writes!Ids
  <2>3. requests \subseteq Writes!Ids
    BY <2>2 DEF CallsInv, Called
  <2>4. socket \in Seq(Writes!Ids \cup {0}) /\ got \in Seq(Writes!Ids \cup {0})
    <3>1. /\ socket \in Seq(Nat) /\ got \in Seq(Nat) /\ Len(socket) \in Nat /\ Len(got) \in Nat
          /\ \A i \in 1 .. Len(Writes!Arriving) : Writes!Arriving[i] <= written
      BY LenProperties DEF WritesInv, WritesTyped, Right
    <3>2. /\ Len(Writes!Arriving) = Len(got) + Len(socket) /\ Writes!Arriving \in Seq(Nat)
          /\ \A i \in 1 .. Len(got) + Len(socket) :
                Writes!Arriving[i] = IF i <= Len(got) THEN got[i] ELSE socket[i - Len(got)]
      BY <3>1, ConcatProperties DEF Writes!Arriving
    <3>3. \A u \in Nat : u <= written => u \in Writes!Ids \cup {0}
      BY <2>1, <2>2 DEF Writes!Ids
    <3>4. \A i \in 1 .. Len(got) : got[i] \in Writes!Ids \cup {0}
      <4> SUFFICES ASSUME NEW i \in 1 .. Len(got) PROVE got[i] \in Writes!Ids \cup {0}
        OBVIOUS
      <4>1. i \in 1 .. Len(got) + Len(socket) /\ i <= Len(got)
        BY <3>1
      <4>2. Writes!Arriving[i] = got[i] /\ got[i] <= written /\ got[i] \in Nat
        BY <3>1, <3>2, <4>1, ElementOfSeq
      <4> QED
        BY <3>3, <4>2
    <3>5. \A i \in 1 .. Len(socket) : socket[i] \in Writes!Ids \cup {0}
      <4> SUFFICES ASSUME NEW i \in 1 .. Len(socket) PROVE socket[i] \in Writes!Ids \cup {0}
        OBVIOUS
      <4>1. /\ Len(got) + i \in 1 .. Len(got) + Len(socket) /\ ~(Len(got) + i <= Len(got))
            /\ (Len(got) + i) - Len(got) = i
        BY <3>1
      <4>2. Writes!Arriving[Len(got) + i] = socket[i] /\ socket[i] <= written /\ socket[i] \in Nat
        BY <3>1, <3>2, <4>1, ElementOfSeq
      <4> QED
        BY <3>3, <4>2
    <3>6. ASSUME NEW s \in Seq(Nat), NEW T, \A i \in 1 .. Len(s) : s[i] \in T PROVE s \in Seq(T)
      BY <3>6
    <3> QED
      BY <3>1, <3>4, <3>5, <3>6
  <2> QED
    BY <2>1, <2>2, <2>3, <2>4 DEF Writes!TypeOK
<1> QED
  BY <1>1, CallsInvariance, PTL

-----------------------------------------------------------------------------
(* The table of requests in progress.  The properties are inductive with   *)
(* the types: what alloc_slot takes is not in use, so it is held by nobody *)
(* or revoked; and what return_slot frees is revoked or held by nobody.    *)

TableInv == TableTypeOK /\ SharedOnlyIfRevoked /\ RevokedIsHeld /\ InUseIsHeld

LEMMA TableInitInv == TableInit => TableInv
BY DEF TableInit, TableInv, TableTypeOK, SharedOnlyIfRevoked, RevokedIsHeld, InUseIsHeld, Held, Holders

(* A step on one slot i leaves the others as they are. *)
LEMMA OneSlot ==
    ASSUME TableInv, NEW i \in Slots, TableTypeOK',
           \A j \in Slots \ {i} : /\ inuse'[j] = inuse[j] /\ Holders(j)' = Holders(j)
                                  /\ j \in stray' <=> j \in stray
                                  /\ j \in revoked' <=> j \in revoked,
           i \in revoked' => Holders(i)' # {},
           i \in stray' => inuse'[i] /\ Holders(i)' = {},
           inuse'[i] => Holders(i)' # {} \/ i \in stray',
           Holders(i)' # {} /\ i \notin revoked' =>
               inuse'[i] /\ \A u, v \in Holders(i)' : u = v
    PROVE  TableInv'
<1>1. \A j \in Slots : j \in Held' <=> Holders(j)' # {}
  BY DEF Held, Slots
<1>2. \A j \in Slots : j \in Held <=> Holders(j) # {}
  BY DEF Held
<1>3. stray' \subseteq Slots /\ revoked' \subseteq Slots /\ Held' \subseteq Slots
  BY DEF TableTypeOK, Held, Slots
<1>4. SharedOnlyIfRevoked'
  <2> SUFFICES ASSUME NEW j \in Held', j \notin revoked'
               PROVE  inuse'[j] /\ \A u, v \in Holders(j)' : u = v
    BY DEF SharedOnlyIfRevoked
  <2>1. CASE j = i
    BY <1>1, <2>1
  <2>2. CASE j # i
    <3>1. j \in Slots \ {i} /\ j \in Held \ revoked
      BY <1>1, <1>2, <1>3, <2>2
    <3> QED
      BY <3>1 DEF TableInv, SharedOnlyIfRevoked
  <2> QED
    BY <2>1, <2>2
<1>5. RevokedIsHeld'
  BY <1>1, <1>2, <1>3 DEF TableInv, RevokedIsHeld
<1>6. InUseIsHeld'
  <2>1. ASSUME NEW j \in Slots, inuse'[j] PROVE j \in Held' \cup stray'
    <3>1. CASE j = i
      BY <1>1, <2>1, <3>1
    <3>2. CASE j # i
      BY <1>1, <1>2, <2>1, <3>2 DEF TableInv, InUseIsHeld
    <3> QED
      BY <3>1, <3>2
  <2>2. ASSUME NEW j \in stray' PROVE inuse'[j] /\ j \notin Held'
    <3>1. CASE j = i
      BY <1>1, <2>2, <3>1
    <3>2. CASE j # i
      BY <1>1, <1>2, <1>3, <2>2, <3>2 DEF TableInv, InUseIsHeld
    <3> QED
      BY <3>1, <3>2
  <2>3. Slots' = Slots
    BY DEF Slots
  <2> QED
    BY <2>1, <2>2, <2>3 DEF InUseIsHeld
<1> QED
  BY <1>4, <1>5, <1>6 DEF TableInv

LEMMA AllocInv == ASSUME NEW u \in Users PROVE TableInv /\ alloc_slot(u) => TableInv'
<1> SUFFICES ASSUME TableInv, alloc_slot(u) PROVE TableInv'
  OBVIOUS
<1>1. PICK i \in Unused : /\ inuse' = [inuse EXCEPT ![i] = TRUE]
                          /\ held' = [held EXCEPT ![u] = @ \cup {i}]
                          /\ UNCHANGED <<stray, revoked>>
  BY DEF alloc_slot
<1>2. TableTypeOK
  BY DEF TableInv
<1>3. i \in Slots /\ ~inuse[i] /\ i \notin stray
  BY DEF TableInv, InUseIsHeld, Unused
<1>4. held'[u] = held[u] \cup {i} /\ \A v \in Users \ {u} : held'[v] = held[v]
  BY <1>1, <1>2 DEF TableTypeOK
<1>5. Holders(i)' = Holders(i) \cup {u} /\ \A j \in Slots \ {i} : Holders(j)' = Holders(j)
  BY <1>4 DEF Holders
<1>6. TableTypeOK'
  BY <1>1, <1>2, <1>3 DEF TableTypeOK, Slots
<1>7. inuse'[i] /\ \A j \in Slots \ {i} : inuse'[j] = inuse[j]
  BY <1>1, <1>2, <1>3 DEF TableTypeOK
<1>8. i \notin revoked => Holders(i) = {}
  <2>1. i \notin Held \ revoked
    BY <1>3 DEF TableInv, SharedOnlyIfRevoked
  <2> QED
    BY <1>3, <2>1 DEF Held
<1> QED
  BY <1>1, <1>3, <1>5, <1>6, <1>7, <1>8, OneSlot

LEMMA ReturnInv ==
    ASSUME NEW u \in Users, NEW i \in Slots PROVE TableInv /\ return_slot(u, i) => TableInv'
<1> SUFFICES ASSUME TableInv, return_slot(u, i) PROVE TableInv'
  OBVIOUS
<1>1. /\ inuse' = [inuse EXCEPT ![i] = FALSE]
      /\ held' = [held EXCEPT ![u] = @ \ {i}]
      /\ stray' = stray \ {i}
      /\ revoked' = IF Holders(i) \subseteq {u} THEN revoked \ {i} ELSE revoked \cup {i}
  BY DEF return_slot
<1>2. TableTypeOK
  BY DEF TableInv
<1>3. held'[u] = held[u] \ {i} /\ \A v \in Users \ {u} : held'[v] = held[v]
  BY <1>1, <1>2 DEF TableTypeOK
<1>4. Holders(i)' = Holders(i) \ {u} /\ \A j \in Slots \ {i} : Holders(j)' = Holders(j)
  BY <1>3 DEF Holders
<1>5. TableTypeOK'
  BY <1>1, <1>2 DEF TableTypeOK, Slots
<1>6. ~inuse'[i] /\ \A j \in Slots \ {i} : inuse'[j] = inuse[j]
  BY <1>1, <1>2 DEF TableTypeOK
<1>7. i \in revoked' <=> Holders(i)' # {}
  BY <1>1, <1>4
<1>8. \A j \in Slots \ {i} : (j \in stray' <=> j \in stray) /\ (j \in revoked' <=> j \in revoked)
  BY <1>1
<1>9. i \notin stray'
  BY <1>1
<1> QED
  BY <1>4, <1>5, <1>6, <1>7, <1>8, <1>9, OneSlot

LEMMA TableNextInv == TableInv /\ [TableNext]_tableVars => TableInv'
<1> SUFFICES ASSUME TableInv, [TableNext]_tableVars PROVE TableInv'
  OBVIOUS
<1>1. ASSUME NEW u \in Users, alloc_slot(u) PROVE TableInv'
  BY <1>1, AllocInv
<1>2. ASSUME NEW u \in Users, NEW i \in Slots, return_slot(u, i) PROVE TableInv'
  BY <1>2, ReturnInv
<1>3. CASE UNCHANGED tableVars
  BY <1>3 DEF tableVars, TableInv, TableTypeOK, SharedOnlyIfRevoked, RevokedIsHeld, InUseIsHeld,
              Held, Holders, Slots
<1> QED
  BY <1>1, <1>2, <1>3 DEF TableNext, return_outside

LEMMA TableInvariance == TableSpec => []TableInv
BY TableInitInv, TableNextInv, PTL DEF TableSpec

(* Whatever numbers are returned, by their holders or by others, once or   *)
(* again: return_slot and alloc_slot share a slot between two users only   *)
(* once somebody else than its holder returned it, and until all to whom   *)
(* it was given have; no slot is lost but those in use from the start.     *)
(* This is so in a table of any size, whatever its memory held.            *)
THEOREM SlotsAreSharedByWrongReturns == TableSpec => []SlotsAreKept
<1>1. TableInv => SlotsAreKept
  BY DEF TableInv, SlotsAreKept
<1> QED
  BY <1>1, TableInvariance, PTL

(* The variables keep their types.                                         *)
THEOREM TableTypeCorrect == TableSpec => []TableTypeOK
<1>1. TableInv => TableTypeOK
  BY DEF TableInv
<1> QED
  BY <1>1, TableInvariance, PTL
=============================================================================
