---------------------------- MODULE ConfigProofs ----------------------------
(***************************************************************************)
(* Theorems about how programs are configured: LogConfig for any servers   *)
(* and any number of sendings, IniConfig for any file and arguments, and   *)
(* ReadString for any value and sizes of fields and buffers.               *)
(***************************************************************************)
EXTENDS MCConfig, FiniteSetTheorems, SequenceTheorems, WellFoundedInduction, TLAPS

-----------------------------------------------------------------------------
(* Log configurations and publishing.                                      *)

MsgTypes == {"glc_req", "publish_req", "publish_reply"}

(* The types of what PublishedOnceInOrder and ConfigsNeverSettle depend on.*)
LogTyped ==
    /\ link \in [Servers -> {"none", "up", "broken"}]
    /\ toServer \in [Servers -> Seq(Messages)]
    /\ toClient \in [Servers -> Seq(Messages)]
    /\ sends \in Nat
    /\ sentTo \in [Servers -> SUBSET Messages]
    /\ answered \in [Servers -> Seq(Nat)]

(* One connection: the state l of its link, the messages q and r on the    *)
(* way to the server and back, what was sent on it, the publish replies a  *)
(* handled and the number n of sendings so far.                            *)

IsConfig(m)    == m.type = "glc_req"
Configs(sent)  == {m.of : m \in {w \in sent : IsConfig(w)}}
Requests(sent) == {m.of : m \in {w \in sent : ~IsConfig(w)}}

\* The parts of a sending are never in two places.
Distinct(q) == \A i, j \in 1 .. Len(q) : i < j => q[i].of # q[j].of
Apart(q, r) == \A m \in ToSet(q), k \in ToSet(r) : m.of # k.of

\* Requests, or replies, in the order of the sendings.
InTurn(q)      == \A i, j \in 1 .. Len(q) :
                     i < j /\ ~IsConfig(q[i]) /\ ~IsConfig(q[j]) => q[i].of < q[j].of
Before(q, r)   == \A m \in ToSet(q), k \in ToSet(r) :
                     ~IsConfig(m) /\ ~IsConfig(k) => m.of < k.of
Handled(a, q)  == \A n \in ToSet(a), m \in ToSet(q) : ~IsConfig(m) => n < m.of
Increasing(a)  == \A i, j \in 1 .. Len(a) : i < j => a[i] < a[j]

\* Everything on the connection goes back to something sent on it.
Known(q, sent) ==
    \A m \in ToSet(q) : m.of \in IF IsConfig(m) THEN Configs(sent) ELSE Requests(sent)

Kinds(q, r, sent, a, n) ==
    /\ \A m \in ToSet(q) : m.type # "publish_reply"
    /\ \A m \in ToSet(r) : m.type # "publish_req"
    /\ \A w \in sent : w.of <= n /\ w.type # "publish_reply"
    /\ Configs(sent) \cap Requests(sent) = {}
    /\ Known(q, sent) /\ Known(r, sent) /\ ToSet(a) \subseteq Requests(sent)

Order(q, r, a) ==
    /\ Distinct(q) /\ Distinct(r) /\ Apart(q, r)
    /\ InTurn(q) /\ InTurn(r) /\ Before(r, q)
    /\ Handled(a, q) /\ Handled(a, r) /\ Increasing(a)

\* The requests replied to, whether the agent has handled the reply or not.
Replied(r, a) == ToSet(a) \cup Requests(ToSet(r))

NoneSkipped(r, sent, a) ==
    \A n \in Requests(sent), k \in Replied(r, a) : n < k => n \in Replied(r, a)

\* Nothing is lost as long as the connection is up.
Complete(l, q, r, sent, a) ==
    l = "up" =>
        /\ Configs(sent) \subseteq Configs(ToSet(q)) \cup Configs(ToSet(r))
        /\ Requests(sent) \subseteq Requests(ToSet(q)) \cup Replied(r, a)

Connection(l, q, r, sent, a, n) ==
    /\ Kinds(q, r, sent, a, n)
    /\ Order(q, r, a)
    /\ NoneSkipped(r, sent, a)
    /\ Complete(l, q, r, sent, a)
    /\ l = "none" => q = << >> /\ r = << >> /\ sent = {} /\ a = << >>

\* To a program without handlers everything is lost from the start.
Standing(s) == IF s \in Silent /\ link[s] = "up" THEN "broken" ELSE link[s]

LogInv ==
    /\ LogTyped
    /\ \A s \in Servers :
          Connection(Standing(s), toServer[s], toClient[s], sentTo[s], answered[s], sends)
    /\ \A s \in Silent : toClient[s] = << >>

-----------------------------------------------------------------------------
(* Sequences, their elements and their order.                              *)

LEMMA InToSet == ASSUME NEW S, NEW q \in Seq(S), NEW i \in 1 .. Len(q) PROVE q[i] \in ToSet(q)
BY DEF ToSet

LEMMA ToSetTyped == ASSUME NEW S, NEW q \in Seq(S) PROVE ToSet(q) \subseteq S
<1>1. \A i \in 1 .. Len(q) : q[i] \in S
  BY ElementOfSeq
<1> QED
  BY <1>1 DEF ToSet

LEMMA Appended ==
    ASSUME NEW S, NEW q \in Seq(S), NEW e \in S
    PROVE  /\ Append(q, e) \in Seq(S) /\ Len(q) \in Nat /\ Len(Append(q, e)) = Len(q) + 1
           /\ \A i \in 1 .. Len(q) : Append(q, e)[i] = q[i]
           /\ Append(q, e)[Len(q) + 1] = e
           /\ 1 .. Len(Append(q, e)) = (1 .. Len(q)) \cup {Len(q) + 1}
           /\ ToSet(Append(q, e)) = ToSet(q) \cup {e}
<1>1. /\ Append(q, e) \in Seq(S) /\ Len(q) \in Nat
      /\ Len(Append(q, e)) = Len(q) + 1
      /\ \A i \in 1 .. Len(q) : Append(q, e)[i] = q[i]
      /\ Append(q, e)[Len(q) + 1] = e
  BY AppendProperties, LenProperties
<1>2. 1 .. Len(q) + 1 = (1 .. Len(q)) \cup {Len(q) + 1}
  BY <1>1
<1>3. ToSet(Append(q, e)) = ToSet(q) \cup {e}
  BY <1>1, <1>2 DEF ToSet
<1> QED
  BY <1>1, <1>2, <1>3

LEMMA Removed ==
    ASSUME NEW S, NEW q \in Seq(S), q # << >>
    PROVE  /\ Head(q) \in S /\ Head(q) = q[1] /\ 1 \in 1 .. Len(q)
           /\ Tail(q) \in Seq(S) /\ Len(q) \in Nat /\ Len(Tail(q)) = Len(q) - 1
           /\ \A i \in 1 .. Len(Tail(q)) : i + 1 \in 1 .. Len(q) /\ Tail(q)[i] = q[i + 1]
           /\ ToSet(q) = {Head(q)} \cup ToSet(Tail(q))
<1>1. /\ Tail(q) \in Seq(S) /\ Len(q) \in Nat /\ Len(q) > 0
      /\ Len(Tail(q)) = Len(q) - 1
      /\ Head(q) = q[1] /\ Head(q) \in S
      /\ \A i \in 1 .. Len(Tail(q)) : Tail(q)[i] = q[i + 1]
  BY HeadTailProperties, LenProperties, EmptySeq, ElementOfSeq
<1>2. \A i \in 1 .. Len(Tail(q)) : i + 1 \in 1 .. Len(q)
  BY <1>1
<1>3. ToSet(q) \subseteq {Head(q)} \cup ToSet(Tail(q))
  <2> SUFFICES ASSUME NEW i \in 1 .. Len(q) PROVE q[i] \in {Head(q)} \cup ToSet(Tail(q))
    BY DEF ToSet
  <2>1. CASE i = 1
    BY <1>1, <2>1
  <2>2. CASE i # 1
    <3>1. i - 1 \in 1 .. Len(Tail(q)) /\ Tail(q)[i - 1] = q[i]
      BY <1>1, <2>2
    <3>2. Tail(q)[i - 1] \in ToSet(Tail(q))
      BY <1>1, <3>1, InToSet
    <3> QED
      BY <3>1, <3>2
  <2> QED
    BY <2>1, <2>2
<1>4. {Head(q)} \cup ToSet(Tail(q)) \subseteq ToSet(q)
  BY <1>1, <1>2 DEF ToSet
<1> QED
  BY <1>1, <1>2, <1>3, <1>4

LEMMA Shortened ==
    ASSUME NEW S, NEW q \in Seq(S), NEW k \in 0 .. Len(q)
    PROVE  /\ SubSeq(q, 1, k) \in Seq(S) /\ Len(q) \in Nat /\ Len(SubSeq(q, 1, k)) = k
           /\ \A i \in 1 .. k : i \in 1 .. Len(q) /\ SubSeq(q, 1, k)[i] = q[i]
           /\ ToSet(SubSeq(q, 1, k)) \subseteq ToSet(q)
<1>1. Len(q) \in Nat /\ k \in Int /\ \A i \in 1 .. k : i \in 1 .. Len(q) /\ q[i] \in S
  BY LenProperties, ElementOfSeq
<1>2. /\ SubSeq(q, 1, k) \in Seq(S) /\ Len(SubSeq(q, 1, k)) = IF 1 <= k THEN k - 1 + 1 ELSE 0
      /\ \A i \in 1 .. k - 1 + 1 : SubSeq(q, 1, k)[i] = q[1 + i - 1]
  BY <1>1, SubSeqProperties
<1>3. /\ Len(SubSeq(q, 1, k)) = k
      /\ \A i \in 1 .. k : SubSeq(q, 1, k)[i] = q[i]
  BY <1>1, <1>2
<1> QED
  BY <1>1, <1>2, <1>3 DEF ToSet

LEMMA AppendedInOrder ==
    ASSUME NEW q \in Seq(Messages), NEW e \in Messages, Distinct(q), InTurn(q),
           \A m \in ToSet(q) : m.of # e.of /\ (~IsConfig(m) /\ ~IsConfig(e) => m.of < e.of)
    PROVE  Distinct(Append(q, e)) /\ InTurn(Append(q, e))
<1> DEFINE p == Append(q, e)
<1>1. /\ Len(q) \in Nat /\ 1 .. Len(p) = (1 .. Len(q)) \cup {Len(q) + 1}
      /\ \A i \in 1 .. Len(q) : p[i] = q[i]
      /\ p[Len(q) + 1] = e
  BY Appended
<1>2. \A i \in 1 .. Len(q) : q[i].of # e.of /\ (~IsConfig(q[i]) /\ ~IsConfig(e) => q[i].of < e.of)
  BY InToSet
<1> HIDE DEF p
<1>3. Distinct(p)
  BY <1>1, <1>2 DEF Distinct
<1>4. InTurn(p)
  BY <1>1, <1>2 DEF InTurn
<1> QED
  BY <1>3, <1>4 DEF p

LEMMA RemovedInOrder ==
    ASSUME NEW q \in Seq(Messages), q # << >>, Distinct(q), InTurn(q)
    PROVE  /\ Distinct(Tail(q)) /\ InTurn(Tail(q))
           /\ \A m \in ToSet(Tail(q)) :
                 m.of # Head(q).of /\ (~IsConfig(Head(q)) /\ ~IsConfig(m) => Head(q).of < m.of)
<1> DEFINE p == Tail(q)
<1>1. /\ Len(q) \in Nat /\ 1 \in 1 .. Len(q) /\ Head(q) = q[1] /\ Len(p) = Len(q) - 1
      /\ \A i \in 1 .. Len(p) : i + 1 \in 1 .. Len(q) /\ p[i] = q[i + 1]
  BY Removed
<1> HIDE DEF p
<1>2. Distinct(p)
  BY <1>1 DEF Distinct
<1>3. InTurn(p)
  BY <1>1 DEF InTurn
<1>4. \A i \in 1 .. Len(p) : q[1].of # p[i].of /\ (~IsConfig(q[1]) /\ ~IsConfig(p[i]) => q[1].of < p[i].of)
  BY <1>1 DEF Distinct, InTurn
<1> QED
  BY <1>1, <1>2, <1>3, <1>4 DEF p, ToSet

LEMMA ShortenedInOrder ==
    ASSUME NEW q \in Seq(Messages), NEW k \in 0 .. Len(q), Distinct(q), InTurn(q)
    PROVE  /\ Distinct(SubSeq(q, 1, k)) /\ InTurn(SubSeq(q, 1, k))
           /\ \A m \in ToSet(SubSeq(q, 1, k)), e \in ToSet(q) :
                 ~IsConfig(m) /\ ~IsConfig(e) /\ e.of < m.of => e \in ToSet(SubSeq(q, 1, k))
<1> DEFINE p == SubSeq(q, 1, k)
<1>1. /\ p \in Seq(Messages) /\ Len(q) \in Nat /\ Len(p) = k
      /\ \A i \in 1 .. k : i \in 1 .. Len(q) /\ p[i] = q[i]
  BY Shortened
<1> HIDE DEF p
<1>2. Distinct(p) /\ InTurn(p)
  BY <1>1 DEF Distinct, InTurn
<1>3. ASSUME NEW i \in 1 .. Len(p), NEW j \in 1 .. Len(q),
             ~IsConfig(p[i]), ~IsConfig(q[j]), q[j].of < p[i].of
      PROVE  q[j] \in ToSet(p)
  <2>1. i \in 1 .. Len(q) /\ q[i] = p[i] /\ q[i] \in Messages /\ q[j] \in Messages
    BY <1>1, ElementOfSeq
  <2>2. q[i].of \in Nat /\ q[j].of \in Nat
    BY <2>1 DEF Messages
  <2>3. ~(i <= j)
    <3>1. CASE i = j
      BY <1>3, <2>1, <2>2, <3>1
    <3>2. CASE i < j
      <4>1. q[i].of < q[j].of
        BY <1>3, <2>1, <3>2 DEF InTurn
      <4> QED
        BY <1>3, <2>1, <2>2, <4>1
    <3> QED
      BY <3>1, <3>2
  <2>4. j \in 1 .. Len(p) /\ p[j] = q[j]
    BY <1>1, <2>3
  <2> QED
    BY <1>1, <2>4, InToSet
<1> QED
  BY <1>2, <1>3 DEF p, ToSet

-----------------------------------------------------------------------------
(* What the steps do to a connection.                                      *)

LEMMA MessageTyped == \A m \in Messages : m.of \in Nat /\ m.type \in MsgTypes
BY DEF Messages, MsgTypes

(* Elsewhere something was sent, or the connection is made. *)
LEMMA ConnectionKept ==
    ASSUME NEW l, NEW k, NEW q \in Seq(Messages), NEW r \in Seq(Messages),
           NEW sent \in SUBSET Messages, NEW a \in Seq(Nat), NEW n \in Nat, NEW o \in Nat,
           Connection(l, q, r, sent, a, n), n <= o, k = l \/ l = "none"
    PROVE  k # "none" => Connection(k, q, r, sent, a, o)
<1> SUFFICES ASSUME k # "none" PROVE Connection(k, q, r, sent, a, o)
  OBVIOUS
<1>1. Kinds(q, r, sent, a, o)
  <2>1. \A w \in sent : w.of <= o
    <3>1. \A w \in sent : w.of <= n /\ w.of \in Nat
      BY MessageTyped DEF Connection, Kinds
    <3> QED
      BY <3>1
  <2> QED
    BY <2>1 DEF Connection, Kinds
<1>2. Complete(k, q, r, sent, a)
  <2>1. CASE k = l
    BY <2>1 DEF Connection
  <2>2. CASE l = "none"
    BY <2>2 DEF Connection, Complete, Configs, Requests
  <2> QED
    BY <2>1, <2>2
<1> QED
  BY <1>1, <1>2 DEF Connection

LEMMA ConfigsOfUnion == \A A, B : Configs(A \cup B) = Configs(A) \cup Configs(B)
BY DEF Configs

LEMMA RequestsOfUnion == \A A, B : Requests(A \cup B) = Requests(A) \cup Requests(B)
BY DEF Requests

LEMMA OfOne ==
    ASSUME NEW m
    PROVE  /\ Configs({m}) = IF IsConfig(m) THEN {m.of} ELSE {}
           /\ Requests({m}) = IF IsConfig(m) THEN {} ELSE {m.of}
BY DEF Configs, Requests

(* Something new is sent on it. *)
LEMMA ConnectionSends ==
    ASSUME NEW l \in {"up", "broken"}, NEW q \in Seq(Messages), NEW r \in Seq(Messages),
           NEW sent \in SUBSET Messages, NEW a \in Seq(Nat), NEW n \in Nat, NEW m \in Messages,
           Connection(l, q, r, sent, a, n), m.of = n + 1, m.type # "publish_reply"
    PROVE  Connection(l, Append(q, m), r, sent \cup {m}, a, n + 1)
<1> DEFINE p == Append(q, m)
           e == sent \cup {m}
<1>1. p \in Seq(Messages) /\ ToSet(p) = ToSet(q) \cup {m}
  BY Appended
<1>2. /\ Configs(e) = Configs(sent) \cup Configs({m})
      /\ Requests(e) = Requests(sent) \cup Requests({m})
      /\ Configs(ToSet(p)) = Configs(ToSet(q)) \cup Configs({m})
      /\ Requests(ToSet(p)) = Requests(ToSet(q)) \cup Requests({m})
  BY <1>1, ConfigsOfUnion, RequestsOfUnion
<1>0. \/ IsConfig(m) /\ Configs({m}) = {n + 1} /\ Requests({m}) = {}
      \/ ~IsConfig(m) /\ Configs({m}) = {} /\ Requests({m}) = {n + 1}
  BY OfOne
<1>3. /\ Kinds(q, r, sent, a, n) /\ Order(q, r, a)
      /\ NoneSkipped(r, sent, a) /\ Complete(l, q, r, sent, a)
  BY DEF Connection
<1>4. \A x \in Configs(sent) \cup Requests(sent) : x \in Nat /\ x < n + 1
  <2>1. \A w \in sent : w.of \in Nat /\ w.of < n + 1
    <3>1. \A w \in sent : w.of \in Nat /\ w.of <= n
      BY <1>3, MessageTyped DEF Kinds
    <3> QED
      BY <3>1
  <2> QED
    BY <2>1 DEF Configs, Requests
<1>5. \A x \in ToSet(q) \cup ToSet(r) : x.of \in Nat /\ x.of < n + 1
  <2>1. \A x \in ToSet(q) \cup ToSet(r) : x.of \in Configs(sent) \cup Requests(sent)
    BY <1>3 DEF Kinds, Known
  <2> QED
    BY <1>4, <2>1
<1>6. \A x \in ToSet(a) : x \in Nat /\ x < n + 1
  BY <1>3, <1>4 DEF Kinds
<1> HIDE DEF p, e
<1>7. Kinds(p, r, e, a, n + 1)
  <2>1. \A w \in e : w.of <= n + 1 /\ w.type # "publish_reply"
    <3>1. \A w \in sent : w.of \in Nat /\ w.of <= n /\ w.type # "publish_reply"
      BY <1>3, MessageTyped DEF Kinds
    <3> QED
      BY <3>1 DEF e
  <2>2. Configs(e) \cap Requests(e) = {}
    <3>1. n + 1 \notin Configs(sent) \cup Requests(sent)
      BY <1>4
    <3> QED
      BY <1>0, <1>2, <1>3, <3>1 DEF Kinds
  <2>3. Known(p, e)
    BY <1>0, <1>1, <1>2, <1>3 DEF Kinds, Known
  <2>4. Known(r, e) /\ ToSet(a) \subseteq Requests(e)
    BY <1>2, <1>3 DEF Kinds, Known
  <2> QED
    BY <1>1, <1>3, <2>1, <2>2, <2>3, <2>4 DEF Kinds
<1>8. Order(p, r, a)
  <2>1. Distinct(p) /\ InTurn(p)
    <3>1. \A x \in ToSet(q) : x.of # m.of /\ x.of < m.of
      BY <1>5
    <3> QED
      BY <1>3, <3>1, AppendedInOrder DEF Order, p
  <2>2. Apart(p, r)
    <3>1. \A x \in ToSet(r) : m.of # x.of
      BY <1>5
    <3> QED
      BY <1>1, <1>3, <3>1 DEF Order, Apart
  <2>3. Before(r, p)
    <3>1. \A x \in ToSet(r) : x.of < m.of
      BY <1>5
    <3> QED
      BY <1>1, <1>3, <3>1 DEF Order, Before
  <2>4. Handled(a, p)
    <3>1. \A x \in ToSet(a) : x < m.of
      BY <1>6
    <3> QED
      BY <1>1, <1>3, <3>1 DEF Order, Handled
  <2> QED
    BY <1>3, <2>1, <2>2, <2>3, <2>4 DEF Order
<1>9. NoneSkipped(r, e, a)
  <2> SUFFICES ASSUME NEW x \in Requests(e), NEW k \in Replied(r, a), x < k
               PROVE  x \in Replied(r, a)
    BY DEF NoneSkipped
  <2>1. k \in Nat /\ k < n + 1
    <3>1. Requests(ToSet(r)) \subseteq Requests(sent)
      BY <1>3 DEF Kinds, Known, Requests
    <3> QED
      BY <1>3, <1>4, <3>1 DEF Replied, Kinds
  <2>2. x # n + 1
    BY <2>1
  <2>3. x \in Requests(sent)
    BY <1>0, <1>2, <2>2
  <2> QED
    BY <1>3, <2>3 DEF NoneSkipped
<1>10. Complete(l, p, r, e, a)
  BY <1>2, <1>3 DEF Complete
<1> QED
  BY <1>7, <1>8, <1>9, <1>10 DEF Connection, p, e

(* The server handles the first of its messages and answers. *)
LEMMA ConnectionAnswers ==
    ASSUME NEW q \in Seq(Messages), NEW r \in Seq(Messages),
           NEW sent \in SUBSET Messages, NEW a \in Seq(Nat), NEW n \in Nat, NEW k \in Messages,
           Connection("up", q, r, sent, a, n), q # << >>,
           k.of = Head(q).of, IsConfig(k) <=> IsConfig(Head(q)), k.type # "publish_req"
    PROVE  Connection("up", Tail(q), Append(r, k), sent, a, n)
<1> DEFINE m == Head(q)
           t == Tail(q)
           p == Append(r, k)
<1>1. /\ m \in Messages /\ t \in Seq(Messages) /\ ToSet(q) = {m} \cup ToSet(t)
      /\ p \in Seq(Messages) /\ ToSet(p) = ToSet(r) \cup {k}
  BY Removed, Appended
<1>2. /\ Kinds(q, r, sent, a, n) /\ Order(q, r, a)
      /\ NoneSkipped(r, sent, a) /\ Complete("up", q, r, sent, a)
  BY DEF Connection
<1>3. /\ Distinct(t) /\ InTurn(t)
      /\ \A x \in ToSet(t) : m.of # x.of /\ (~IsConfig(m) /\ ~IsConfig(x) => m.of < x.of)
  BY <1>2, RemovedInOrder DEF Order
<1>4. k.of = m.of /\ (IsConfig(k) <=> IsConfig(m))
  OBVIOUS
<1>5. m.of \in Nat /\ \A x \in ToSet(t) \cup ToSet(r) : x \in Messages /\ x.of \in Nat
  BY <1>1, ToSetTyped, MessageTyped
<1>6. \A x \in ToSet(r) : x.of # k.of /\ (~IsConfig(x) /\ ~IsConfig(k) => x.of < k.of)
  BY <1>1, <1>2, <1>4 DEF Order, Apart, Before
<1>7. Distinct(p) /\ InTurn(p)
  BY <1>2, <1>6, AppendedInOrder DEF Order
<1>8. /\ Configs(ToSet(q)) \cup Configs(ToSet(r)) = Configs(ToSet(t)) \cup Configs(ToSet(p))
      /\ Requests(ToSet(q)) = Requests(ToSet(t)) \cup Requests({m})
      /\ Replied(p, a) = Replied(r, a) \cup Requests({m})
  <2>1. Configs({k}) = Configs({m}) /\ Requests({k}) = Requests({m})
    BY <1>4, OfOne
  <2>2. /\ Configs(ToSet(q)) = Configs({m}) \cup Configs(ToSet(t))
        /\ Requests(ToSet(q)) = Requests({m}) \cup Requests(ToSet(t))
        /\ Configs(ToSet(p)) = Configs(ToSet(r)) \cup Configs({k})
        /\ Requests(ToSet(p)) = Requests(ToSet(r)) \cup Requests({k})
    BY <1>1, ConfigsOfUnion, RequestsOfUnion
  <2> QED
    BY <2>1, <2>2 DEF Replied
<1>9. \/ IsConfig(m) /\ Requests({m}) = {}
      \/ ~IsConfig(m) /\ Requests({m}) = {m.of}
  BY OfOne
<1> HIDE DEF m, t, p
<1>10. Kinds(t, p, sent, a, n)
  <2>1. Known(t, sent) /\ Known(p, sent)
    BY <1>1, <1>2, <1>4 DEF Kinds, Known
  <2> QED
    BY <1>1, <1>2, <2>1 DEF Kinds
<1>11. Order(t, p, a)
  <2>1. Apart(t, p)
    BY <1>1, <1>2, <1>3, <1>4 DEF Order, Apart
  <2>2. Before(p, t)
    BY <1>1, <1>2, <1>3, <1>4 DEF Order, Before
  <2>3. Handled(a, t) /\ Handled(a, p)
    BY <1>1, <1>2, <1>4 DEF Order, Handled
  <2> QED
    BY <1>2, <1>3, <1>7, <2>1, <2>2, <2>3 DEF Order
<1>12. NoneSkipped(p, sent, a)
  <2> SUFFICES ASSUME NEW x \in Requests(sent), NEW y \in Replied(p, a), x < y
               PROVE  x \in Replied(p, a)
    BY DEF NoneSkipped
  <2>1. CASE y \in Replied(r, a)
    BY <1>2, <1>8, <2>1 DEF NoneSkipped
  <2>2. CASE y \notin Replied(r, a)
    <3>1. ~IsConfig(m) /\ y = m.of
      BY <1>8, <1>9, <2>2
    <3>2. \A z \in Requests(ToSet(t)) : z \in Nat /\ m.of < z
      BY <1>3, <1>5, <3>1 DEF Requests
    <3>3. x \in Requests(ToSet(t)) \cup Requests({m}) \cup Replied(r, a)
      BY <1>2, <1>8 DEF Complete
    <3>4. x \notin Requests(ToSet(t))
      BY <1>5, <3>1, <3>2
    <3> QED
      BY <1>8, <3>3, <3>4
  <2> QED
    BY <2>1, <2>2
<1>13. Complete("up", t, p, sent, a)
  BY <1>2, <1>8 DEF Complete
<1> QED
  BY <1>10, <1>11, <1>12, <1>13 DEF Connection, m, t, p

(* The agent answers a configuration. *)
LEMMA ConnectionAnswersBack ==
    ASSUME NEW q \in Seq(Messages), NEW r \in Seq(Messages),
           NEW sent \in SUBSET Messages, NEW a \in Seq(Nat), NEW n \in Nat, NEW k \in Messages,
           Connection("up", q, r, sent, a, n), r # << >>,
           k.of = Head(r).of, IsConfig(k), IsConfig(Head(r))
    PROVE  Connection("up", Append(q, k), Tail(r), sent, a, n)
<1> DEFINE m == Head(r)
           t == Tail(r)
           p == Append(q, k)
<1>1. /\ m \in Messages /\ t \in Seq(Messages) /\ ToSet(r) = {m} \cup ToSet(t)
      /\ p \in Seq(Messages) /\ ToSet(p) = ToSet(q) \cup {k}
  BY Removed, Appended
<1>2. /\ Kinds(q, r, sent, a, n) /\ Order(q, r, a)
      /\ NoneSkipped(r, sent, a) /\ Complete("up", q, r, sent, a)
  BY DEF Connection
<1>3. Distinct(t) /\ InTurn(t) /\ \A x \in ToSet(t) : m.of # x.of
  BY <1>2, RemovedInOrder DEF Order
<1>4. k.of = m.of /\ IsConfig(k) /\ IsConfig(m)
  OBVIOUS
<1>5. \A x \in ToSet(q) : x.of # k.of
  BY <1>1, <1>2, <1>4 DEF Order, Apart
<1>6. Distinct(p) /\ InTurn(p)
  BY <1>2, <1>4, <1>5, AppendedInOrder DEF Order
<1>7. /\ Configs(ToSet(q)) \cup Configs(ToSet(r)) = Configs(ToSet(p)) \cup Configs(ToSet(t))
      /\ Requests(ToSet(p)) = Requests(ToSet(q))
      /\ Replied(t, a) = Replied(r, a)
  <2>1. Configs({k}) = Configs({m}) /\ Requests({k}) = {} /\ Requests({m}) = {}
    BY <1>4, OfOne
  <2>2. /\ Configs(ToSet(r)) = Configs({m}) \cup Configs(ToSet(t))
        /\ Requests(ToSet(r)) = Requests({m}) \cup Requests(ToSet(t))
        /\ Configs(ToSet(p)) = Configs(ToSet(q)) \cup Configs({k})
        /\ Requests(ToSet(p)) = Requests(ToSet(q)) \cup Requests({k})
    BY <1>1, ConfigsOfUnion, RequestsOfUnion
  <2> QED
    BY <2>1, <2>2 DEF Replied
<1> HIDE DEF m, t, p
<1>8. Kinds(p, t, sent, a, n)
  <2>1. Known(t, sent) /\ Known(p, sent)
    BY <1>1, <1>2, <1>4 DEF Kinds, Known
  <2>2. k.type # "publish_reply"
    BY <1>4 DEF IsConfig
  <2> QED
    BY <1>1, <1>2, <2>1, <2>2 DEF Kinds
<1>9. Order(p, t, a)
  <2>1. Apart(p, t) /\ Before(t, p)
    BY <1>1, <1>2, <1>3, <1>4 DEF Order, Apart, Before
  <2>2. Handled(a, t) /\ Handled(a, p)
    BY <1>1, <1>2, <1>4 DEF Order, Handled
  <2> QED
    BY <1>2, <1>3, <1>6, <2>1, <2>2 DEF Order
<1>10. NoneSkipped(t, sent, a)
  BY <1>2, <1>7 DEF NoneSkipped
<1>11. Complete("up", p, t, sent, a)
  BY <1>2, <1>7 DEF Complete
<1> QED
  BY <1>8, <1>9, <1>10, <1>11 DEF Connection, m, t, p

(* The agent handles a publish reply. *)
LEMMA ConnectionReplied ==
    ASSUME NEW l, NEW q \in Seq(Messages), NEW r \in Seq(Messages),
           NEW sent \in SUBSET Messages, NEW a \in Seq(Nat), NEW n \in Nat,
           Connection(l, q, r, sent, a, n), r # << >>, ~IsConfig(Head(r))
    PROVE  Connection(l, q, Tail(r), sent, Append(a, Head(r).of), n)
<1> DEFINE m == Head(r)
           t == Tail(r)
           b == Append(a, m.of)
<1>1. m \in Messages /\ t \in Seq(Messages) /\ ToSet(r) = {m} \cup ToSet(t)
  BY Removed
<1>2. m.of \in Nat
  BY <1>1, MessageTyped
<1>3. /\ b \in Seq(Nat) /\ ToSet(b) = ToSet(a) \cup {m.of} /\ Len(a) \in Nat
      /\ 1 .. Len(b) = (1 .. Len(a)) \cup {Len(a) + 1}
      /\ \A i \in 1 .. Len(a) : b[i] = a[i]
      /\ b[Len(a) + 1] = m.of
  <2> DEFINE e == m.of
  <2>1. e \in Nat
    BY <1>2
  <2> HIDE DEF e
  <2>2. /\ Append(a, e) \in Seq(Nat) /\ ToSet(Append(a, e)) = ToSet(a) \cup {e} /\ Len(a) \in Nat
        /\ 1 .. Len(Append(a, e)) = (1 .. Len(a)) \cup {Len(a) + 1}
        /\ \A i \in 1 .. Len(a) : Append(a, e)[i] = a[i]
        /\ Append(a, e)[Len(a) + 1] = e
    BY <2>1, Appended
  <2> QED
    BY <2>2 DEF e
<1>4. /\ Kinds(q, r, sent, a, n) /\ Order(q, r, a) /\ l # "none"
      /\ NoneSkipped(r, sent, a) /\ Complete(l, q, r, sent, a)
  BY DEF Connection
<1>5. /\ Distinct(t) /\ InTurn(t)
      /\ \A x \in ToSet(t) : m.of # x.of /\ (~IsConfig(m) /\ ~IsConfig(x) => m.of < x.of)
  BY <1>4, RemovedInOrder DEF Order
<1>6. ~IsConfig(m)
  OBVIOUS
<1>7. Configs(ToSet(t)) = Configs(ToSet(r)) /\ Replied(t, b) = Replied(r, a)
  <2>1. Configs({m}) = {} /\ Requests({m}) = {m.of}
    BY <1>6, OfOne
  <2>2. /\ Configs(ToSet(r)) = Configs({m}) \cup Configs(ToSet(t))
        /\ Requests(ToSet(r)) = Requests({m}) \cup Requests(ToSet(t))
    BY <1>1, ConfigsOfUnion, RequestsOfUnion
  <2> QED
    BY <1>3, <2>1, <2>2 DEF Replied
<1>8. \A i \in 1 .. Len(a) : a[i] < m.of
  <2>1. \A i \in 1 .. Len(a) : a[i] \in ToSet(a)
    BY InToSet
  <2> QED
    BY <1>1, <1>4, <1>6, <2>1 DEF Order, Handled
<1> HIDE DEF m, t, b
<1>9. Kinds(q, t, sent, b, n)
  BY <1>1, <1>3, <1>4, <1>6 DEF Kinds, Known
<1>10. Order(q, t, b)
  <2>1. Apart(q, t) /\ Before(t, q)
    BY <1>1, <1>4 DEF Order, Apart, Before
  <2>2. Handled(b, q)
    BY <1>1, <1>3, <1>4, <1>6 DEF Order, Handled, Before
  <2>3. Handled(b, t)
    BY <1>1, <1>3, <1>4, <1>5, <1>6 DEF Order, Handled
  <2>4. Increasing(b)
    <3> SUFFICES ASSUME NEW i \in 1 .. Len(b), NEW j \in 1 .. Len(b), i < j PROVE b[i] < b[j]
      BY DEF Increasing
    <3>0. i \in (1 .. Len(a)) \cup {Len(a) + 1} /\ j \in (1 .. Len(a)) \cup {Len(a) + 1}
      BY <1>3, Zenon
    <3>1. i \in 1 .. Len(a)
      BY <1>3, <3>0
    <3>2. CASE j \in 1 .. Len(a)
      BY <1>3, <1>4, <3>1, <3>2 DEF Order, Increasing
    <3>3. CASE j = Len(a) + 1
      BY <1>3, <1>8, <3>1, <3>3
    <3> QED
      BY <3>0, <3>2, <3>3
  <2> QED
    BY <1>4, <1>5, <2>1, <2>2, <2>3, <2>4 DEF Order
<1>11. NoneSkipped(t, sent, b)
  BY <1>4, <1>7 DEF NoneSkipped
<1>12. Complete(l, q, t, sent, b)
  BY <1>4, <1>7 DEF Complete
<1> QED
  BY <1>4, <1>9, <1>10, <1>11, <1>12 DEF Connection, m, t, b

(* The connection is broken and less arrives, or what is answered is lost. *)
LEMMA ConnectionLoses ==
    ASSUME NEW l, NEW q \in Seq(Messages), NEW r \in Seq(Messages),
           NEW p \in Seq(Messages), NEW t \in Seq(Messages),
           NEW sent \in SUBSET Messages, NEW a \in Seq(Nat), NEW n \in Nat,
           Connection(l, q, r, sent, a, n),
           ToSet(p) \subseteq ToSet(q), Distinct(p), InTurn(p),
           ToSet(t) \subseteq ToSet(r), Distinct(t), InTurn(t),
           NoneSkipped(t, sent, a)
    PROVE  Connection("broken", p, t, sent, a, n)
<1>1. Kinds(p, t, sent, a, n)
  BY DEF Connection, Kinds, Known
<1>2. Order(p, t, a)
  BY DEF Connection, Order, Apart, Before, Handled
<1>3. Complete("broken", p, t, sent, a)
  BY DEF Complete
<1> QED
  BY <1>1, <1>2, <1>3 DEF Connection

LEMMA ConnectionBreaks ==
    ASSUME NEW l, NEW q \in Seq(Messages), NEW r \in Seq(Messages),
           NEW sent \in SUBSET Messages, NEW a \in Seq(Nat), NEW n \in Nat,
           Connection(l, q, r, sent, a, n), NEW i \in 0 .. Len(q), NEW j \in 0 .. Len(r)
    PROVE  Connection("broken", SubSeq(q, 1, i), SubSeq(r, 1, j), sent, a, n)
<1> DEFINE p == SubSeq(q, 1, i)
           t == SubSeq(r, 1, j)
<1>1. /\ p \in Seq(Messages) /\ ToSet(p) \subseteq ToSet(q)
      /\ t \in Seq(Messages) /\ ToSet(t) \subseteq ToSet(r)
  BY Shortened
<1>2. /\ Distinct(q) /\ InTurn(q) /\ Distinct(r) /\ InTurn(r)
      /\ NoneSkipped(r, sent, a) /\ Handled(a, r)
  BY DEF Connection, Order
<1>3. /\ Distinct(p) /\ InTurn(p) /\ Distinct(t) /\ InTurn(t)
      /\ \A m \in ToSet(t), e \in ToSet(r) :
            ~IsConfig(m) /\ ~IsConfig(e) /\ e.of < m.of => e \in ToSet(t)
  BY <1>2, ShortenedInOrder
<1>4. /\ \A m \in ToSet(r) : m.of \in Nat
      /\ \A x \in ToSet(a) : x \in Nat
  BY ToSetTyped, MessageTyped
<1> HIDE DEF p, t
<1>5. NoneSkipped(t, sent, a)
  <2> SUFFICES ASSUME NEW x \in Requests(sent), NEW y \in Replied(t, a), x < y
               PROVE  x \in Replied(t, a)
    BY DEF NoneSkipped
  <2>1. Requests(ToSet(t)) \subseteq Requests(ToSet(r))
    BY <1>1 DEF Requests
  <2>2. x \in Replied(r, a)
    BY <1>2, <2>1 DEF NoneSkipped, Replied
  <2>3. CASE x \in ToSet(a)
    BY <2>3 DEF Replied
  <2>4. CASE x \in Requests(ToSet(r))
    <3>1. PICK e \in ToSet(r) : ~IsConfig(e) /\ x = e.of
      BY <2>4 DEF Requests
    <3>2. y \notin ToSet(a)
      <4>1. SUFFICES ASSUME y \in ToSet(a) PROVE FALSE
        OBVIOUS
      <4>2. y < e.of
        BY <1>2, <3>1, <4>1 DEF Handled
      <4> QED
        BY <1>4, <3>1, <4>1, <4>2
    <3>3. PICK m \in ToSet(t) : ~IsConfig(m) /\ y = m.of
      BY <3>2 DEF Replied, Requests
    <3>4. e \in ToSet(t)
      BY <1>3, <3>1, <3>3
    <3> QED
      BY <3>1, <3>4 DEF Replied, Requests
  <2> QED
    BY <2>2, <2>3, <2>4 DEF Replied
<1> QED
  BY <1>1, <1>3, <1>5, ConnectionLoses DEF p, t

LEMMA ConnectionDrops ==
    ASSUME NEW q \in Seq(Messages), NEW r \in Seq(Messages),
           NEW sent \in SUBSET Messages, NEW a \in Seq(Nat), NEW n \in Nat,
           Connection("broken", q, r, sent, a, n)
    PROVE  /\ q # << >> => Connection("broken", Tail(q), r, sent, a, n)
           /\ r # << >> /\ IsConfig(Head(r)) => Connection("broken", q, Tail(r), sent, a, n)
<1>1. Distinct(q) /\ InTurn(q) /\ Distinct(r) /\ InTurn(r) /\ NoneSkipped(r, sent, a)
  BY DEF Connection, Order
<1>2. ASSUME q # << >> PROVE Connection("broken", Tail(q), r, sent, a, n)
  <2>1. Tail(q) \in Seq(Messages) /\ ToSet(Tail(q)) \subseteq ToSet(q)
    BY <1>2, Removed
  <2>2. Distinct(Tail(q)) /\ InTurn(Tail(q))
    BY <1>1, <1>2, RemovedInOrder
  <2> QED
    BY <1>1, <2>1, <2>2, ConnectionLoses
<1>3. ASSUME r # << >>, IsConfig(Head(r)) PROVE Connection("broken", q, Tail(r), sent, a, n)
  <2>1. Tail(r) \in Seq(Messages) /\ ToSet(r) = {Head(r)} \cup ToSet(Tail(r))
    BY <1>3, Removed
  <2>2. Distinct(Tail(r)) /\ InTurn(Tail(r))
    BY <1>1, <1>3, RemovedInOrder
  <2>3. Requests(ToSet(r)) = Requests(ToSet(Tail(r)))
    <3>1. Requests(ToSet(r)) = Requests({Head(r)}) \cup Requests(ToSet(Tail(r)))
      BY <2>1, RequestsOfUnion
    <3>2. Requests({Head(r)}) = {}
      BY <1>3, OfOne
    <3> QED
      BY <3>1, <3>2
  <2>4. NoneSkipped(Tail(r), sent, a)
    BY <1>1, <2>3 DEF NoneSkipped, Replied
  <2> QED
    BY <1>1, <2>1, <2>2, <2>4, ConnectionLoses
<1> QED
  BY <1>2, <1>3

-----------------------------------------------------------------------------
(* The steps of LogConfig.                                                 *)

LEMMA ServersTyped ==
    ASSUME LogInv, NEW s \in Servers
    PROVE  /\ link[s] \in {"none", "up", "broken"}
           /\ toServer[s] \in Seq(Messages) /\ toClient[s] \in Seq(Messages)
           /\ sentTo[s] \in SUBSET Messages /\ answered[s] \in Seq(Nat) /\ sends \in Nat
           /\ Connection(Standing(s), toServer[s], toClient[s], sentTo[s], answered[s], sends)
BY DEF LogInv, LogTyped

\* Where there are handlers the state of a connection is that of its link.
LEMMA ServersStand ==
    ASSUME LogInv, NEW s \in Servers
    PROVE  /\ s \notin Silent => Standing(s) = link[s]
           /\ link[s] = "none" => Standing(s) = "none"
           /\ link[s] = "broken" => Standing(s) = "broken"
           /\ link[s] = "up" => Standing(s) \in {"up", "broken"}
           /\ s \in Silent => toClient[s] = << >> /\ (link[s] # "none" => Standing(s) = "broken")
BY DEF LogInv, LogTyped, Standing

LEMMA LogInit == Init => LogInv
<1> SUFFICES ASSUME Init PROVE LogInv
  OBVIOUS
<1>1. << >> \in Seq(Messages) /\ << >> \in Seq(Nat) /\ ToSet(<< >>) = {} /\ Len(<< >>) = 0
  BY EmptySeq DEF ToSet
<1>2. LogTyped
  BY <1>1 DEF Init, LinkInit, LogTyped
<1>3. Connection("none", << >>, << >>, {}, << >>, 0)
  <2>1. Kinds(<< >>, << >>, {}, << >>, 0)
    BY <1>1 DEF Kinds, Known, Configs, Requests
  <2>2. Order(<< >>, << >>, << >>)
    BY <1>1 DEF Order, Distinct, Apart, InTurn, Before, Handled, Increasing
  <2>3. NoneSkipped(<< >>, {}, << >>)
    BY DEF NoneSkipped, Requests
  <2> QED
    BY <2>1, <2>2, <2>3 DEF Connection, Complete
<1> QED
  BY <1>2, <1>3, LogConfigAssumption DEF Init, LinkInit, LogInv, Standing

LEMMA ConnectInv == ASSUME NEW s \in Servers PROVE LogInv /\ Connect(s) => LogInv'
<1> SUFFICES ASSUME LogInv, Connect(s) PROVE LogInv'
  OBVIOUS
<1>1. /\ link[s] = "none" /\ link' = [link EXCEPT ![s] = "up"]
      /\ UNCHANGED <<toServer, toClient, sends, sentTo, answered>>
  BY DEF Connect
<1>2. LogTyped'
  BY <1>1 DEF LogInv, LogTyped
<1>3. ASSUME NEW t \in Servers
      PROVE  Connection(Standing(t), toServer[t], toClient[t], sentTo[t], answered[t], sends)'
  <2>1. CASE t = s
    <3>1. \A l \in {"up", "broken"} :
            Connection(l, toServer[s], toClient[s], sentTo[s], answered[s], sends)
      <4>1. sends <= sends /\ Standing(s) = "none"
        BY <1>1, ServersTyped, ServersStand
      <4> QED
        BY <4>1, ServersTyped, ConnectionKept
    <3>2. Standing(s)' \in {"up", "broken"}
      BY <1>1 DEF Standing, LogInv, LogTyped
    <3> QED
      BY <1>1, <2>1, <3>1, <3>2
  <2>2. CASE t # s
    <3>1. Standing(t)' = Standing(t)
      BY <1>1, <2>2 DEF Standing, LogInv, LogTyped
    <3> QED
      BY <1>1, <3>1, ServersTyped
  <2> QED
    BY <2>1, <2>2
<1> QED
  BY <1>1, <1>2, <1>3 DEF LogInv

LEMMA SendToAllInv ==
    ASSUME NEW m \in Messages, m.of = sends + 1, m.type # "publish_reply"
    PROVE  LogInv /\ SendToAll(m) => LogInv'
<1> SUFFICES ASSUME LogInv, SendToAll(m) PROVE LogInv'
  OBVIOUS
<1> DEFINE up == {s \in Servers : link[s] = "up"}
<1>1. /\ sends' = sends + 1
      /\ toServer' = [s \in Servers |-> IF s \in up THEN Append(toServer[s], m) ELSE toServer[s]]
      /\ sentTo' = [s \in Servers |-> IF s \in up THEN sentTo[s] \cup {m} ELSE sentTo[s]]
      /\ UNCHANGED <<link, toClient, answered>>
  BY DEF SendToAll
<1>2. LogTyped'
  <2>1. \A s \in Servers : Append(toServer[s], m) \in Seq(Messages)
    BY ServersTyped, Appended
  <2> QED
    BY <1>1, <2>1 DEF LogInv, LogTyped
<1>3. ASSUME NEW t \in Servers
      PROVE  Connection(Standing(t), toServer[t], toClient[t], sentTo[t], answered[t], sends)'
  <2>0. Standing(t)' = Standing(t)
    BY <1>1 DEF Standing
  <2>1. CASE link[t] = "up"
    <3>1. Connection(Standing(t), Append(toServer[t], m), toClient[t], sentTo[t] \cup {m},
                     answered[t], sends + 1)
      BY <2>1, ServersTyped, ServersStand, ConnectionSends
    <3> QED
      BY <1>1, <2>0, <2>1, <3>1
  <2>2. CASE link[t] = "broken"
    <3>1. sends \in Nat /\ sends + 1 \in Nat /\ sends <= sends + 1
      BY ServersTyped
    <3>2. Connection("broken", toServer[t], toClient[t], sentTo[t], answered[t], sends + 1)
      BY <2>2, <3>1, ServersTyped, ServersStand, ConnectionKept
    <3> QED
      BY <1>1, <2>0, <2>2, <3>2, ServersStand
  <2>3. CASE link[t] = "none"
    <3>1. Connection("none", toServer[t], toClient[t], sentTo[t], answered[t], sends + 1)
      BY <2>3, ServersTyped, ServersStand DEF Connection, Kinds, Known, Complete
    <3> QED
      BY <1>1, <2>0, <2>3, <3>1, ServersStand
  <2> QED
    BY <2>1, <2>2, <2>3, ServersTyped
<1> QED
  BY <1>1, <1>2, <1>3 DEF LogInv

LEMMA SendInv == LogInv /\ (sample_global_log_config \/ periodic_publish) => LogInv'
<1> SUFFICES ASSUME LogInv, sample_global_log_config \/ periodic_publish PROVE LogInv'
  OBVIOUS
<1>1. sends \in Nat
  BY DEF LogInv, LogTyped
<1>2. CASE sample_global_log_config
  <2> DEFINE m == Message("glc_req", LS_DEBUG)
  <2>1. m \in Messages /\ m.of = sends + 1 /\ m.type # "publish_reply"
    BY <1>1 DEF Message, Messages, Severities
  <2>2. SendToAll(m)
    BY <1>2 DEF sample_global_log_config
  <2> HIDE DEF m
  <2> QED
    BY <2>1, <2>2, SendToAllInv
<1>3. CASE periodic_publish
  <2> DEFINE m == Message("publish_req", 0)
  <2>1. m \in Messages /\ m.of = sends + 1 /\ m.type # "publish_reply"
    BY <1>1 DEF Message, Messages, Severities
  <2>2. SendToAll(m)
    BY <1>3 DEF periodic_publish
  <2> HIDE DEF m
  <2> QED
    BY <2>1, <2>2, SendToAllInv
<1> QED
  BY <1>2, <1>3

(* What is answered goes back to the same sending. *)
LEMMA RepliesTyped ==
    ASSUME NEW m \in Messages
    PROVE  /\ m.type = "publish_reply" => Replies(m) = << >>
           /\ m.type # "publish_reply" =>
                \E k \in Messages :
                   /\ Replies(m) = << k >> /\ k.of = m.of
                   /\ IsConfig(k) <=> IsConfig(m)
                   /\ k.type # "publish_req"
<1>1. m.type \in MsgTypes
  BY MessageTyped
<1>2. CASE m.type = "publish_reply"
  BY <1>2 DEF Replies
<1>3. CASE m.type = "glc_req"
  <2> DEFINE k == GlcReply(m)
  <2>1. k \in Messages /\ k.of = m.of /\ k.type = "glc_req"
    BY <1>3 DEF GlcReply, Messages, Severities
  <2>2. Replies(m) = << k >>
    BY <1>3 DEF Replies
  <2> HIDE DEF k
  <2> QED
    BY <1>3, <2>1, <2>2 DEF IsConfig
<1>4. CASE m.type = "publish_req"
  <2> DEFINE k == [m EXCEPT !.type = "publish_reply"]
  <2>1. k \in Messages /\ k.of = m.of /\ k.type = "publish_reply"
    BY <1>4 DEF Messages
  <2>2. Replies(m) = << k >>
    BY <1>4 DEF Replies, PublishReply
  <2> HIDE DEF k
  <2> QED
    BY <1>4, <2>1, <2>2 DEF IsConfig
<1> QED
  BY <1>1, <1>2, <1>3, <1>4 DEF MsgTypes

LEMMA Added ==
    ASSUME NEW q \in Seq(Messages), NEW k \in Messages
    PROVE  q \o << k >> = Append(q, k) /\ q \o << >> = q
BY AppendIsConcat, ConcatEmptySeq

(* A step on one connection. *)
LEMMA OneConnection ==
    ASSUME LogInv, NEW s \in Servers, LogTyped', UNCHANGED <<sends, sentTo>>,
           \A t \in Servers \ {s} : /\ link'[t] = link[t] /\ answered'[t] = answered[t]
                                   /\ toServer'[t] = toServer[t] /\ toClient'[t] = toClient[t],
           Connection(Standing(s)', toServer'[s], toClient'[s], sentTo[s], answered'[s], sends),
           s \in Silent => toClient'[s] = << >>
    PROVE  LogInv'
<1>1. ASSUME NEW t \in Servers
      PROVE  Connection(Standing(t), toServer[t], toClient[t], sentTo[t], answered[t], sends)'
  <2>1. CASE t = s
    BY <2>1
  <2>2. CASE t # s
    <3>1. Standing(t)' = Standing(t)
      BY <2>2 DEF Standing
    <3> QED
      BY <2>2, <3>1, ServersTyped
  <2> QED
    BY <2>1, <2>2
<1>2. \A t \in Silent : toClient'[t] = << >>
  BY LogConfigAssumption DEF LogInv
<1> QED
  BY <1>1, <1>2 DEF LogInv

(* Nothing can be handled before the connection is made. *)
LEMMA NothingBefore ==
    ASSUME LogInv, NEW s \in Servers, link[s] = "none"
    PROVE  toServer[s] = << >> /\ toClient[s] = << >>
BY ServersTyped, ServersStand DEF Connection

LEMMA HandledByServerInv == ASSUME NEW s \in Servers PROVE LogInv /\ HandledByServer(s) => LogInv'
<1> SUFFICES ASSUME LogInv, HandledByServer(s) PROVE LogInv'
  OBVIOUS
<1> DEFINE m == Head(toServer[s])
           t == IF link[s] = "up" THEN Replies(m) ELSE << >>
<1>0. s \notin Silent /\ Standing(s) = link[s] /\ Standing(s)' = link'[s]
  BY ServersStand DEF HandledByServer, Standing
<1>1. /\ toServer[s] # << >>
      /\ toServer' = [toServer EXCEPT ![s] = Tail(toServer[s])]
      /\ toClient' = [toClient EXCEPT ![s] = toClient[s] \o t]
      /\ UNCHANGED <<link, sends, sentTo, answered>>
  BY DEF HandledByServer
<1>2. /\ m \in Messages /\ Tail(toServer[s]) \in Seq(Messages)
      /\ toServer[s] \in Seq(Messages) /\ toClient[s] \in Seq(Messages)
      /\ ToSet(toServer[s]) = {m} \cup ToSet(Tail(toServer[s]))
  BY <1>1, ServersTyped, Removed
<1>3. /\ \A x \in Servers \ {s} : toServer'[x] = toServer[x] /\ toClient'[x] = toClient[x]
      /\ toServer'[s] = Tail(toServer[s]) /\ toClient'[s] = toClient[s] \o t
  BY <1>1 DEF LogInv, LogTyped
<1>4. m.type # "publish_reply"
  BY <1>2, ServersTyped DEF Connection, Kinds
<1>5. CASE link[s] = "up"
  <2>1. PICK k \in Messages : /\ Replies(m) = << k >> /\ k.of = m.of
                              /\ IsConfig(k) <=> IsConfig(m)
                              /\ k.type # "publish_req"
    BY <1>2, <1>4, RepliesTyped
  <2>2. Connection("up", Tail(toServer[s]), Append(toClient[s], k), sentTo[s], answered[s], sends)
    BY <1>1, <1>5, <2>1, <1>0, ServersTyped, ConnectionAnswers
  <2>3. toClient[s] \o t = Append(toClient[s], k) /\ Append(toClient[s], k) \in Seq(Messages)
    <3>1. t = << k >>
      BY <1>5, <2>1
    <3> HIDE DEF t, m
    <3> QED
      BY <1>2, <3>1, Added, Appended
  <2> HIDE DEF t, m
  <2>4. LogTyped'
    BY <1>1, <1>2, <2>3 DEF LogInv, LogTyped
  <2>5. Connection(link'[s], toServer'[s], toClient'[s], sentTo[s], answered'[s], sends)
    BY <1>1, <1>3, <1>5, <2>2, <2>3
  <2> QED
    BY <1>1, <1>3, <1>0, <2>4, <2>5, OneConnection
<1>6. CASE link[s] = "broken"
  <2>1. Connection("broken", Tail(toServer[s]), toClient[s], sentTo[s], answered[s], sends)
    BY <1>1, <1>6, <1>0, ServersTyped, ConnectionDrops
  <2>2. toClient[s] \o t = toClient[s]
    BY <1>2, <1>6, Added
  <2> HIDE DEF t, m
  <2>3. LogTyped'
    BY <1>1, <1>2, <2>2 DEF LogInv, LogTyped
  <2>4. Connection(link'[s], toServer'[s], toClient'[s], sentTo[s], answered'[s], sends)
    BY <1>1, <1>3, <1>6, <2>1, <2>2
  <2> QED
    BY <1>1, <1>3, <1>0, <2>3, <2>4, OneConnection
<1> QED
  BY <1>1, <1>5, <1>6, ServersTyped, NothingBefore

LEMMA SkippedByServerInv == ASSUME NEW s \in Servers PROVE LogInv /\ SkippedByServer(s) => LogInv'
<1> SUFFICES ASSUME LogInv, SkippedByServer(s) PROVE LogInv'
  OBVIOUS
<1>1. /\ s \in Silent /\ toServer[s] # << >>
      /\ toServer' = [toServer EXCEPT ![s] = Tail(toServer[s])]
      /\ UNCHANGED <<link, toClient, sends, sentTo, answered>>
  BY DEF SkippedByServer
<1>2. Tail(toServer[s]) \in Seq(Messages)
  BY <1>1, ServersTyped, Removed
<1>3. Standing(s) = "broken" /\ Standing(s)' = Standing(s) /\ toClient'[s] = << >>
  BY <1>1, ServersStand, NothingBefore DEF Standing
<1>4. Connection("broken", Tail(toServer[s]), toClient[s], sentTo[s], answered[s], sends)
  BY <1>1, <1>3, ServersTyped, ConnectionDrops
<1>5. LogTyped'
  BY <1>1, <1>2 DEF LogInv, LogTyped
<1>6. /\ \A x \in Servers \ {s} : toServer'[x] = toServer[x]
      /\ toServer'[s] = Tail(toServer[s])
  BY <1>1 DEF LogInv, LogTyped
<1> QED
  BY <1>1, <1>3, <1>4, <1>5, <1>6, OneConnection

LEMMA HandledByAgentInv == ASSUME NEW s \in Servers PROVE LogInv /\ HandledByAgent(s) => LogInv'
<1> SUFFICES ASSUME LogInv, HandledByAgent(s) PROVE LogInv'
  OBVIOUS
<1> DEFINE m == Head(toClient[s])
           t == IF link[s] = "up" THEN Replies(m) ELSE << >>
           b == IF m.type = "publish_reply" THEN Append(answered[s], m.of) ELSE answered[s]
<1>1. /\ toClient[s] # << >>
      /\ toClient' = [toClient EXCEPT ![s] = Tail(toClient[s])]
      /\ toServer' = [toServer EXCEPT ![s] = toServer[s] \o t]
      /\ answered' = [answered EXCEPT ![s] = b]
      /\ UNCHANGED <<link, sends, sentTo>>
  BY DEF HandledByAgent
<1>0. s \notin Silent /\ Standing(s) = link[s] /\ Standing(s)' = link'[s]
  BY <1>1, ServersStand DEF Standing
<1>2. /\ m \in Messages /\ Tail(toClient[s]) \in Seq(Messages)
      /\ toServer[s] \in Seq(Messages) /\ toClient[s] \in Seq(Messages)
      /\ answered[s] \in Seq(Nat)
      /\ ToSet(toClient[s]) = {m} \cup ToSet(Tail(toClient[s]))
  BY <1>1, ServersTyped, Removed
<1>3. link[s] \in {"up", "broken"}
  BY <1>1, ServersTyped, NothingBefore
<1>4. m.type \in MsgTypes /\ m.type # "publish_req"
  BY <1>2, ServersTyped, MessageTyped DEF Connection, Kinds
<1>5. /\ \A x \in Servers \ {s} : /\ toServer'[x] = toServer[x] /\ toClient'[x] = toClient[x]
                                 /\ answered'[x] = answered[x]
      /\ toServer'[s] = toServer[s] \o t /\ toClient'[s] = Tail(toClient[s]) /\ answered'[s] = b
  BY <1>1 DEF LogInv, LogTyped
<1>6. CASE m.type = "publish_reply"
  <2>1. Connection(link[s], toServer[s], Tail(toClient[s]), sentTo[s], Append(answered[s], m.of), sends)
    BY <1>1, <1>6, <1>0, ServersTyped, ConnectionReplied DEF IsConfig
  <2>2. t = << >> /\ b = Append(answered[s], m.of)
    BY <1>2, <1>6, RepliesTyped
  <2>3. toServer[s] \o t = toServer[s]
    BY <1>2, <2>2, Added
  <2>4. Append(answered[s], m.of) \in Seq(Nat)
    <3>1. m.of \in Nat
      BY <1>2, MessageTyped
    <3> QED
      BY <1>2, <3>1, AppendProperties
  <2> HIDE DEF t, b, m
  <2>5. LogTyped'
    BY <1>1, <1>2, <2>2, <2>3, <2>4 DEF LogInv, LogTyped
  <2>6. Connection(link'[s], toServer'[s], toClient'[s], sentTo[s], answered'[s], sends)
    BY <1>1, <1>5, <2>1, <2>2, <2>3
  <2> QED
    BY <1>1, <1>5, <1>0, <2>5, <2>6, OneConnection
<1>7. CASE m.type = "glc_req" /\ link[s] = "up"
  <2>1. PICK k \in Messages : /\ Replies(m) = << k >> /\ k.of = m.of
                              /\ IsConfig(k) <=> IsConfig(m)
    BY <1>2, <1>7, RepliesTyped
  <2>2. Connection("up", Append(toServer[s], k), Tail(toClient[s]), sentTo[s], answered[s], sends)
    BY <1>1, <1>7, <2>1, <1>0, ServersTyped, ConnectionAnswersBack DEF IsConfig
  <2>3. toServer[s] \o t = Append(toServer[s], k) /\ Append(toServer[s], k) \in Seq(Messages)
    <3>1. t = << k >>
      BY <1>7, <2>1
    <3> HIDE DEF t, m
    <3> QED
      BY <1>2, <3>1, Added, Appended
  <2>4. b = answered[s]
    BY <1>7
  <2> HIDE DEF t, b, m
  <2>5. LogTyped'
    BY <1>1, <1>2, <2>3, <2>4 DEF LogInv, LogTyped
  <2>6. Connection(link'[s], toServer'[s], toClient'[s], sentTo[s], answered'[s], sends)
    BY <1>1, <1>7, <1>5, <2>2, <2>3, <2>4
  <2> QED
    BY <1>1, <1>5, <1>0, <2>5, <2>6, OneConnection
<1>8. CASE m.type = "glc_req" /\ link[s] = "broken"
  <2>1. Connection("broken", toServer[s], Tail(toClient[s]), sentTo[s], answered[s], sends)
    BY <1>1, <1>8, <1>0, ServersTyped, ConnectionDrops DEF IsConfig
  <2>2. toServer[s] \o t = toServer[s] /\ b = answered[s]
    BY <1>2, <1>8, Added
  <2> HIDE DEF t, b, m
  <2>3. LogTyped'
    BY <1>1, <1>2, <2>2 DEF LogInv, LogTyped
  <2>4. Connection(link'[s], toServer'[s], toClient'[s], sentTo[s], answered'[s], sends)
    BY <1>1, <1>8, <1>5, <2>1, <2>2
  <2> QED
    BY <1>1, <1>5, <1>0, <2>3, <2>4, OneConnection
<1> QED
  BY <1>3, <1>4, <1>6, <1>7, <1>8 DEF MsgTypes

LEMMA BreakInv == ASSUME NEW s \in Servers PROVE LogInv /\ BreakLink(s) => LogInv'
<1> SUFFICES ASSUME LogInv, BreakLink(s) PROVE LogInv'
  OBVIOUS
<1>1. PICK i \in 0 .. Len(toServer[s]) : \E j \in 0 .. Len(toClient[s]) : Cut(s, i, j)
  BY DEF BreakLink, Break
<1>2. PICK j \in 0 .. Len(toClient[s]) : Cut(s, i, j)
  BY <1>1
<1> DEFINE q == SubSeq(toServer[s], 1, i)
           r == SubSeq(toClient[s], 1, j)
<1>3. /\ link[s] = "up" /\ link' = [link EXCEPT ![s] = "broken"]
      /\ toServer' = [toServer EXCEPT ![s] = q]
      /\ toClient' = [toClient EXCEPT ![s] = r]
      /\ UNCHANGED <<sends, sentTo, answered>>
  BY <1>2 DEF BreakLink, Break, Cut
<1>4. Connection("broken", q, r, sentTo[s], answered[s], sends)
  BY <1>3, ServersTyped, ConnectionBreaks
<1>5. q \in Seq(Messages) /\ r \in Seq(Messages)
  BY ServersTyped, Shortened
<1> HIDE DEF q, r
<1>6. LogTyped'
  BY <1>3, <1>5 DEF LogInv, LogTyped
<1>7. /\ \A x \in Servers \ {s} : /\ toServer'[x] = toServer[x] /\ toClient'[x] = toClient[x]
                                 /\ link'[x] = link[x]
      /\ toServer'[s] = q /\ toClient'[s] = r /\ link'[s] = "broken"
  BY <1>3 DEF LogInv, LogTyped
<1>8. Standing(s)' = "broken"
  BY <1>7 DEF Standing
<1>9. s \in Silent => r = << >>
  <2>1. s \in Silent => toClient[s] = << >> /\ j = 0
    BY EmptySeq, ServersStand
  <2>2. SubSeq(<< >>, 1, 0) = << >>
    BY SubSeqEmpty
  <2> QED
    BY <2>1, <2>2 DEF r
<1> QED
  BY <1>3, <1>4, <1>6, <1>7, <1>8, <1>9, OneConnection

LEMMA LogNextInv == LogInv /\ [Next]_vars => LogInv'
<1> SUFFICES ASSUME LogInv, [Next]_vars PROVE LogInv'
  OBVIOUS
<1>1. ASSUME NEW s \in Servers, Connect(s) PROVE LogInv'
  BY <1>1, ConnectInv
<1>2. ASSUME NEW s \in Servers, HandledByServer(s) PROVE LogInv'
  BY <1>2, HandledByServerInv
<1>3. ASSUME NEW s \in Servers, HandledByAgent(s) PROVE LogInv'
  BY <1>3, HandledByAgentInv
<1>4. ASSUME NEW s \in Servers, BreakLink(s) PROVE LogInv'
  BY <1>4, BreakInv
<1>5. CASE UNCHANGED vars
  BY <1>5 DEF vars, linkVars, LogInv, LogTyped, Standing
<1>6. ASSUME NEW s \in Servers, SkippedByServer(s) PROVE LogInv'
  BY <1>6, SkippedByServerInv
<1> QED
  BY <1>1, <1>2, <1>3, <1>4, <1>5, <1>6, SendInv DEF Next

LEMMA LogInvariance == Spec => []LogInv
BY LogInit, LogNextInv, PTL DEF Spec

-----------------------------------------------------------------------------
(* What goes back to a sending is in one place, or in none. *)
LEMMA OnePlace ==
    ASSUME NEW q \in Seq(Messages), Distinct(q), NEW n
    PROVE  /\ (\E m \in ToSet(q) : m.of = n) => Cardinality(Places(q, n)) = 1
           /\ (\A m \in ToSet(q) : m.of # n) => Cardinality(Places(q, n)) = 0
<1>1. Len(q) \in Nat
  BY LenProperties
<1>2. ASSUME NEW m \in ToSet(q), m.of = n PROVE Cardinality(Places(q, n)) = 1
  <2>1. PICK i \in 1 .. Len(q) : q[i].of = n
    BY <1>2 DEF ToSet
  <2>2. ASSUME NEW j \in 1 .. Len(q), q[j].of = n PROVE j = i
    <3>1. ~(j < i) /\ ~(i < j)
      BY <2>1, <2>2 DEF Distinct
    <3> QED
      BY <1>1, <3>1
  <2>3. Places(q, n) = {i}
    BY <2>1, <2>2 DEF Places
  <2> QED
    BY <2>3, FS_Singleton
<1>3. ASSUME \A m \in ToSet(q) : m.of # n PROVE Cardinality(Places(q, n)) = 0
  <2>1. Places(q, n) = {}
    BY <1>3, InToSet DEF Places
  <2> QED
    BY <2>1, FS_EmptySet
<1> QED
  BY <1>2, <1>3

(* On a connection that is up, of each sending there is exactly one thing  *)
(* under way, or, if it has been replied to, nothing.                      *)
LEMMA UnderWayOnce ==
    ASSUME LogInv, NEW s \in Servers \ Silent, link[s] = "up", NEW n,
           n \in Configs(sentTo[s]) \/ n \in Requests(sentTo[s])
    PROVE  UnderWay(s, n) = IF n \in ToSet(answered[s]) THEN 0 ELSE 1
<1> DEFINE q == toServer[s]
           r == toClient[s]
           a == answered[s]
<1>1. /\ q \in Seq(Messages) /\ r \in Seq(Messages) /\ a \in Seq(Nat)
      /\ Kinds(q, r, sentTo[s], a, sends) /\ Order(q, r, a)
      /\ Complete("up", q, r, sentTo[s], a)
  BY ServersTyped, ServersStand DEF Connection
<1>2. /\ \A m \in ToSet(q) \cup ToSet(r) : m.of \in Nat
      /\ \A x \in ToSet(a) : x \in Nat
  BY <1>1, ToSetTyped, MessageTyped
<1> HIDE DEF q, r, a
<1>3. CASE n \in ToSet(a)
  <2>1. n \in Requests(sentTo[s])
    BY <1>1, <1>3 DEF Kinds
  <2>2. \A m \in ToSet(q) \cup ToSet(r) : m.of # n
    <3> SUFFICES ASSUME NEW m \in ToSet(q) \cup ToSet(r), m.of = n PROVE FALSE
      OBVIOUS
    <3>1. ~IsConfig(m)
      BY <1>1, <2>1 DEF Kinds, Known
    <3>2. n < m.of
      BY <1>1, <1>3, <3>1 DEF Order, Handled
    <3> QED
      BY <1>2, <3>2
  <2>3. Cardinality(Places(q, n)) = 0 /\ Cardinality(Places(r, n)) = 0
    BY <1>1, <2>2, OnePlace DEF Order
  <2> QED
    BY <1>3, <2>3 DEF UnderWay, q, r, a
<1>4. CASE n \notin ToSet(a)
  <2>1. \E m \in ToSet(q) \cup ToSet(r) : m.of = n
    BY <1>1, <1>4 DEF Complete, Configs, Requests, Replied
  <2>2. CASE \E m \in ToSet(q) : m.of = n
    <3>1. \A m \in ToSet(r) : m.of # n
      BY <1>1, <2>2 DEF Order, Apart
    <3>2. Cardinality(Places(q, n)) = 1 /\ Cardinality(Places(r, n)) = 0
      BY <1>1, <2>2, <3>1, OnePlace DEF Order
    <3> QED
      BY <1>4, <3>2 DEF UnderWay, q, r, a
  <2>3. CASE \E m \in ToSet(r) : m.of = n
    <3>1. \A m \in ToSet(q) : m.of # n
      BY <1>1, <2>3 DEF Order, Apart
    <3>2. Cardinality(Places(q, n)) = 0 /\ Cardinality(Places(r, n)) = 1
      BY <1>1, <2>3, <3>1, OnePlace DEF Order
    <3> QED
      BY <1>4, <3>2 DEF UnderWay, q, r, a
  <2> QED
    BY <2>1, <2>2, <2>3
<1> QED
  BY <1>3, <1>4

(* What was sent, by its type and by what it is. *)
LEMMA SentKinds ==
    ASSUME LogInv, NEW s \in Servers
    PROVE  /\ {m.of : m \in Sent(s, "publish_req")} = Requests(sentTo[s])
           /\ {m.of : m \in Sent(s, "glc_req")} = Configs(sentTo[s])
<1>1. \A m \in sentTo[s] : m.type \in MsgTypes /\ m.type # "publish_reply"
  BY ServersTyped, MessageTyped DEF Connection, Kinds
<1>2. Sent(s, "publish_req") = {w \in sentTo[s] : ~IsConfig(w)}
  BY <1>1 DEF Sent, IsConfig, MsgTypes
<1>3. Sent(s, "glc_req") = {w \in sentTo[s] : IsConfig(w)}
  BY DEF Sent, IsConfig
<1> QED
  BY <1>2, <1>3 DEF Requests, Configs

LEMMA InOrderSuffices == LogInv => PublishedOnceInOrder
<1> SUFFICES ASSUME LogInv, NEW s \in Servers
             PROVE  LET requests == {m.of : m \in Sent(s, "publish_req")}
                        replies  == ToSet(answered[s])
                    IN  /\ \A i, j \in 1 .. Len(answered[s]) : i < j => answered[s][i] < answered[s][j]
                        /\ replies \subseteq requests
                        /\ \A n \in requests, a \in replies : n < a => n \in replies
                        /\ link[s] = "up" /\ s \notin Silent =>
                              \A n \in requests : UnderWay(s, n) = IF n \in replies THEN 0 ELSE 1
  BY DEF PublishedOnceInOrder
<1> DEFINE requests == {m.of : m \in Sent(s, "publish_req")}
           replies  == ToSet(answered[s])
<1>1. requests = Requests(sentTo[s])
  BY SentKinds
<1>2. /\ toClient[s] \in Seq(Messages) /\ answered[s] \in Seq(Nat)
      /\ Kinds(toServer[s], toClient[s], sentTo[s], answered[s], sends)
      /\ Order(toServer[s], toClient[s], answered[s])
      /\ NoneSkipped(toClient[s], sentTo[s], answered[s])
  BY ServersTyped DEF Connection
<1> HIDE DEF requests
<1>3. \A i, j \in 1 .. Len(answered[s]) : i < j => answered[s][i] < answered[s][j]
  BY <1>2 DEF Order, Increasing
<1>4. replies \subseteq requests
  BY <1>1, <1>2 DEF Kinds
<1>5. ASSUME NEW n \in requests, NEW a \in replies, n < a PROVE n \in replies
  <2>1. n \in Replied(toClient[s], answered[s])
    BY <1>1, <1>2, <1>5 DEF NoneSkipped, Replied
  <2>2. ASSUME NEW m \in ToSet(toClient[s]), ~IsConfig(m), n = m.of PROVE FALSE
    <3>1. a < m.of
      BY <1>2, <2>2 DEF Order, Handled
    <3>2. a \in Nat /\ m.of \in Nat
      BY <1>2, ToSetTyped, MessageTyped
    <3> QED
      BY <1>5, <2>2, <3>1, <3>2
  <2> QED
    BY <2>1, <2>2 DEF Replied, Requests
<1>6. ASSUME link[s] = "up", s \notin Silent, NEW n \in requests
      PROVE  UnderWay(s, n) = IF n \in replies THEN 0 ELSE 1
  BY <1>1, <1>6, UnderWayOnce
<1> QED
  BY <1>3, <1>4, <1>5, <1>6 DEF requests

LEMMA NeverSettleSuffices == LogInv => ConfigsNeverSettle
<1> SUFFICES ASSUME LogInv, NEW s \in Servers \ Silent, link[s] = "up", NEW m \in Sent(s, "glc_req")
             PROVE  UnderWay(s, m.of) = 1
  BY DEF ConfigsNeverSettle
<1>1. m.of \in Configs(sentTo[s])
  BY SentKinds
<1>2. m.of \notin ToSet(answered[s])
  BY <1>1, ServersTyped DEF Connection, Kinds
<1>3. \A n : n \in Configs(sentTo[s]) => UnderWay(s, n) = IF n \in ToSet(answered[s]) THEN 0 ELSE 1
  BY UnderWayOnce
<1> QED
  BY <1>1, <1>2, <1>3

(* What was lost is messages, and the levels are those that are sent.      *)
LogRest == lost \subseteq Messages /\ LL_C \in [Programs -> Severities]

LEMMA SeverityTyped ==
    ASSUME NEW m \in Messages, NEW level \in Severities
    PROVE  Severity(level, m) \in Severities
BY DEF Severity, Messages

LEMMA RepliesAreMessages == ASSUME NEW m \in Messages PROVE ToSet(Replies(m)) \subseteq Messages
<1>1. ToSet(<< >>) = {} /\ \A k : ToSet(<< k >>) = {k}
  BY DEF ToSet
<1>2. CASE m.type = "publish_reply"
  <2>1. Replies(m) = << >>
    BY <1>2, RepliesTyped
  <2> QED
    BY <1>1, <2>1
<1>3. CASE m.type # "publish_reply"
  <2>1. PICK k \in Messages : Replies(m) = << k >>
    BY <1>3, RepliesTyped
  <2> QED
    BY <1>1, <2>1
<1> QED
  BY <1>2, <1>3

(* A message that is handled at an end sets its level and may be answered. *)
LEMMA HandledRest ==
    ASSUME LogRest, NEW m \in Messages, NEW p,
           LL_C' = [LL_C EXCEPT ![p] = Severity(@, m)],
           lost' = lost \/ lost' = lost \cup ToSet(Replies(m))
    PROVE  LogRest'
<1>1. LL_C' \in [Programs -> Severities]
  <2>1. ASSUME p \in Programs PROVE Severity(LL_C[p], m) \in Severities
    BY <2>1, SeverityTyped DEF LogRest
  <2> QED
    BY <2>1 DEF LogRest
<1>2. lost' \subseteq Messages
  BY RepliesAreMessages DEF LogRest
<1> QED
  BY <1>1, <1>2 DEF LogRest

LEMMA LogRestStep == LogInv /\ LogRest /\ [Next]_vars => LogRest'
<1> SUFFICES ASSUME LogInv, LogRest, [Next]_vars PROVE LogRest'
  OBVIOUS
<1>1. ASSUME NEW s \in Servers, Connect(s) PROVE LogRest'
  BY <1>1 DEF Connect, LogRest, Programs
<1>2. ASSUME NEW m \in Messages, SendToAll(m) PROVE LogRest'
  BY <1>2 DEF SendToAll, LogRest, Programs
<1>3. CASE sample_global_log_config
  <2>1. Message("glc_req", LS_DEBUG) \in Messages
    BY DEF Message, Messages, Severities, LogInv, LogTyped
  <2> QED
    BY <1>2, <1>3, <2>1 DEF sample_global_log_config
<1>4. CASE periodic_publish
  <2>1. Message("publish_req", 0) \in Messages
    BY DEF Message, Messages, LogInv, LogTyped
  <2> QED
    BY <1>2, <1>4, <2>1 DEF periodic_publish
<1>5. ASSUME NEW s \in Servers, HandledByServer(s) PROVE LogRest'
  <2>1. Head(toServer[s]) \in Messages
    BY <1>5, ServersTyped, Removed DEF HandledByServer
  <2>2. /\ LL_C' = [LL_C EXCEPT ![Program(s)] = Severity(@, Head(toServer[s]))]
        /\ lost' = lost \/ lost' = lost \cup ToSet(Replies(Head(toServer[s])))
    BY <1>5 DEF HandledByServer
  <2> QED
    BY <2>1, <2>2, HandledRest
<1>6. ASSUME NEW s \in Servers, HandledByAgent(s) PROVE LogRest'
  <2>1. Head(toClient[s]) \in Messages
    BY <1>6, ServersTyped, Removed DEF HandledByAgent
  <2>2. /\ LL_C' = [LL_C EXCEPT ![Agent] = Severity(@, Head(toClient[s]))]
        /\ lost' = lost \/ lost' = lost \cup ToSet(Replies(Head(toClient[s])))
    BY <1>6 DEF HandledByAgent
  <2> QED
    BY <2>1, <2>2, HandledRest
<1>7. ASSUME NEW s \in Servers, BreakLink(s) PROVE LogRest'
  <2>1. PICK i \in 0 .. Len(toServer[s]), j \in 0 .. Len(toClient[s]) :
          lost' = lost \cup CutOff(s, i, j)
    BY <1>7 DEF BreakLink, Break
  <2>2. ASSUME NEW q \in Seq(Messages), NEW k \in 0 .. Len(q)
        PROVE  ToSet(SubSeq(q, k + 1, Len(q))) \subseteq Messages
    <3>1. Len(q) \in Nat
      BY LenProperties
    <3>2. \A x \in k + 1 .. Len(q) : q[x] \in Messages
      <4>1. \A x \in k + 1 .. Len(q) : x \in 1 .. Len(q)
        BY <3>1
      <4> QED
        BY <4>1, ElementOfSeq
    <3>3. k + 1 \in Int /\ Len(q) \in Int
      BY <3>1
    <3>4. SubSeq(q, k + 1, Len(q)) \in Seq(Messages)
      BY <3>2, <3>3, SubSeqProperties
    <3> QED
      BY <3>4, ToSetTyped
  <2>3. CutOff(s, i, j) \subseteq Messages
    BY <2>2, ServersTyped DEF CutOff
  <2>4. LL_C' = LL_C
    BY <1>7 DEF BreakLink
  <2> QED
    BY <2>1, <2>3, <2>4 DEF LogRest, Programs
<1>8. CASE UNCHANGED vars
  BY <1>8 DEF vars, linkVars, LogRest, Programs
<1>9. ASSUME NEW s \in Servers, SkippedByServer(s) PROVE LogRest'
  BY <1>9 DEF SkippedByServer, LogRest, Programs
<1> QED
  BY <1>1, <1>3, <1>4, <1>5, <1>6, <1>7, <1>8, <1>9 DEF Next

(* Every variable of the agent's and the servers' logging and publishing   *)
(* keeps its type.                                                         *)
THEOREM TypeCorrect == Spec => []TypeOK
<1>1. Init => LogRest
  BY DEF Init, LinkInit, LogRest, Severities
<1>2. LogInv /\ LogRest => TypeOK
  BY DEF LogInv, LogTyped, LogRest, TypeOK
<1> QED
  BY <1>1, <1>2, LogInvariance, LogRestStep, PTL DEF Spec

(* Whatever else goes both ways on a connection and wherever it breaks:    *)
(* publish requests are answered in their turn, each once and none left    *)
(* out.                                                                    *)
THEOREM PublishedInTurn == Spec => []PublishedOnceInOrder
BY InOrderSuffices, LogInvariance, PTL

(* On a connection that is up, to a program with handlers, a configuration *)
(* or the answer to it is under way for ever, and only one.                *)
THEOREM ConfigsGoOn == Spec => []ConfigsNeverSettle
BY NeverSettleSuffices, LogInvariance, PTL

-----------------------------------------------------------------------------
(* The configuration file of cfgagent and ca_log.                          *)

(* The headers read so far, those that are broken included. *)
Headers == {j \in 1 .. Len(file) : file[j].kind \in {"section", "open"} /\ j \notin calls}

(* The section is that of the last header that is not broken; as long as   *)
(* there is no error none is.                                              *)
SectionIsLast ==
    /\ section # "" =>
         \E j \in Headers : /\ file[j].kind = "section" /\ file[j].name = section
                            /\ \A k \in Headers : file[k].kind = "section" => k <= j
    /\ error = 0 => \A j \in Headers : file[j].kind = "section"

IniInv == Ini!TypeOK /\ SectionIsLast /\ OwnPortIsListed /\ ServersUnderTheirHeader

LEMMA IniParameters ==
    /\ App \in Names /\ "" \in Values /\ "text" \in Values /\ Number[""] = 0
    /\ Number \in [Values -> Nat] /\ Short \in [Values -> Values]
    /\ Pieces \subseteq Ini!PieceTypes
BY IniAssumption DEF Ini!Parameters

LEMMA PieceTyped ==
    ASSUME NEW p \in Pieces
    PROVE  /\ p.kind \in {"section", "open"} => p.name \in Ini!Sections
           /\ p.kind = "pair" => p.name \in Names /\ p.value \in Values
           /\ p.kind = "text" => p.value \in Values
BY IniParameters DEF Ini!PieceTypes

(* What is in the configuration, and where. *)
LEMMA ConfigurationTyped ==
    ASSUME Ini!TypeOK
    PROVE  /\ gconfig.my_default_port \in Values /\ gconfig.app_id \in Values
           /\ gconfig.default_host \in Values
           /\ gconfig.app_server_ports \in Seq(Ini!Entries)
           /\ Len(gconfig.app_server_ports) \in Nat /\ Len(file) \in Nat
<1>1. file \in Seq(Pieces) /\ gconfig.app_server_ports \in Seq(Ini!Entries)
  BY DEF Ini!TypeOK, Ini!Configurations
<1> QED
  BY <1>1, LenProperties DEF Ini!TypeOK, Ini!Configurations

(* handler: nothing is listed, or one more server, by cfgagent, in a       *)
(* section of servers.                                                     *)
LEMMA HandlerLists ==
    ASSUME Ini!TypeOK, NEW nm \in Names, NEW v \in Values
    PROVE  LET h == Ini!Handled(nm, v)
           IN  /\ h \in Ini!Configurations
               /\ \/ /\ h.app_server_ports = gconfig.app_server_ports
                     /\ prog = "cfgagent" => h.my_default_port = gconfig.my_default_port
                  \/ /\ section = "default_port" /\ prog = "cfgagent"
                     /\ h.app_server_ports = Append(gconfig.app_server_ports, Ini!Entry(nm, v))
                     /\ h.my_default_port = IF nm = App THEN Short[v] ELSE gconfig.my_default_port
<1> DEFINE h == Ini!Handled(nm, v)
           e == Ini!Entry(nm, v)
<1>1. gconfig \in Ini!Configurations /\ Short[v] \in Values
  BY IniParameters DEF Ini!TypeOK
<1>2. e \in Ini!Entries
  <2>1. Len(file) + 1 \in Nat /\ gconfig.default_host \in Values /\ Number[v] \in Nat
    <3>1. Len(file) \in Nat /\ gconfig.default_host \in Values
      BY ConfigurationTyped
    <3>2. Number[v] \in Nat
      BY IniParameters
    <3> QED
      BY <3>1, <3>2
  <2> QED
    BY <2>1 DEF Ini!Entry, Ini!Entries
<1>3. Append(gconfig.app_server_ports, e) \in Seq(Ini!Entries)
  BY <1>2, ConfigurationTyped, AppendProperties
<1>4. CASE ~Ini!Known(nm)
  <2>1. h = gconfig
    BY <1>4 DEF Ini!Handled
  <2> QED
    BY <1>1, <2>1
<1>5. CASE Ini!Known(nm) /\ section = "default"
  <2>1. h = [gconfig EXCEPT !.default_host = v]
    BY <1>5 DEF Ini!Handled
  <2> QED
    BY <1>1, <2>1 DEF Ini!Configurations
<1>6. CASE Ini!Known(nm) /\ section = "app_id"
  <2>1. h = [gconfig EXCEPT !.app_id = Short[v]]
    BY <1>6 DEF Ini!Handled
  <2> QED
    BY <1>1, <2>1 DEF Ini!Configurations
<1>7. CASE Ini!Known(nm) /\ section = "default_port" /\ prog = "ca_log"
  <2>1. h = [gconfig EXCEPT !.my_default_port = Short[v]]
    BY <1>7 DEF Ini!Handled
  <2> QED
    BY <1>1, <1>7, <2>1 DEF Ini!Configurations
<1>8. CASE Ini!Known(nm) /\ section = "default_port" /\ prog = "cfgagent" /\ ~Ini!Valid(Number[v])
  <2>1. h = gconfig
    BY <1>8 DEF Ini!Handled
  <2> QED
    BY <1>1, <2>1
<1>9. CASE Ini!Known(nm) /\ section = "default_port" /\ prog = "cfgagent" /\ Ini!Valid(Number[v])
  <2> DEFINE entries == Append(gconfig.app_server_ports, e)
             mine    == IF nm = App THEN Short[v] ELSE gconfig.my_default_port
  <2>1. h = [gconfig EXCEPT !.app_server_ports = entries, !.my_default_port = mine]
    BY <1>9 DEF Ini!Handled, Ini!Taken
  <2>2. entries \in Seq(Ini!Entries) /\ mine \in Values
    BY <1>1, <1>3, ConfigurationTyped
  <2> HIDE DEF entries, mine, h
  <2>3. h \in Ini!Configurations /\ h.app_server_ports = entries /\ h.my_default_port = mine
    BY <1>1, <2>1, <2>2 DEF Ini!Configurations
  <2> QED
    BY <1>9, <2>3 DEF entries, mine, h
<1>10. section \in {"default", "app_id", "default_port"} \/ ~Ini!Known(nm)
  BY DEF Ini!Known
<1> QED
  BY <1>4, <1>5, <1>6, <1>7, <1>8, <1>9, <1>10 DEF Ini!TypeOK

LEMMA IniInit == Ini!Init => IniInv
<1> SUFFICES ASSUME Ini!Init PROVE IniInv
  OBVIOUS
<1>1. << >> \in Seq(Pieces) /\ << >> \in Seq(Ini!Entries) /\ Len(<< >>) = 0
  BY EmptySeq
<1>2. /\ file = << >> /\ calls = {} /\ section = "" /\ prev_name = "" /\ lineno = 0 /\ error = 0
      /\ pc = "args" /\ prog \in {"cfgagent", "ca_log"}
      /\ gconfig = [default_host |-> "", app_id |-> "", my_default_port |-> "",
                    app_server_ports |-> << >>]
  BY DEF Ini!Init
<1>3. /\ gconfig.app_server_ports = << >> /\ gconfig.my_default_port = ""
      /\ 1 .. Len(gconfig.app_server_ports) = {} /\ 1 .. Len(file) = {}
  <2>1. gconfig.app_server_ports = << >> /\ gconfig.my_default_port = ""
    BY <1>2, Zenon
  <2>2. 1 .. 0 = {}
    OBVIOUS
  <2> QED
    BY <1>1, <1>2, <2>1, <2>2, Zenon
<1>4. Ini!TypeOK
  <2>1. gconfig \in Ini!Configurations
    BY <1>1, <1>2, IniParameters DEF Ini!Configurations
  <2>2. defaultPort = 7000 /\ listening = -1
    BY Zenon DEF Ini!Init
  <2>3. defaultPort \in Nat /\ listening \in Nat \cup {-1}
    BY <2>2
  <2> QED
    BY <1>1, <1>2, <1>3, <2>1, <2>3 DEF Ini!TypeOK
<1>5. SectionIsLast
  BY <1>2, <1>3 DEF SectionIsLast, Headers
<1>6. OwnPortIsListed
  BY <1>2, <1>3 DEF OwnPortIsListed, Ini!OwnPortIsListed
<1>7. ServersUnderTheirHeader
  BY <1>3 DEF ServersUnderTheirHeader, Ini!ServersUnderTheirHeader
<1> QED
  BY <1>4, <1>5, <1>6, <1>7 DEF IniInv

(* Steps that read no line. *)
LEMMA IniOtherInv ==
    IniInv /\ ((\E x \in Args : Ini!Arguments(x)) \/ Ini!OpenFile \/ Ini!EndOfFile) => IniInv'
<1> SUFFICES ASSUME IniInv,
                    (\E x \in Args : Ini!Arguments(x)) \/ Ini!OpenFile \/ Ini!EndOfFile
             PROVE  IniInv'
  OBVIOUS
<1>1. /\ UNCHANGED <<prog, file, section, prev_name, lineno, error, gconfig, calls>>
      /\ pc' \in {"open", "parse", "start", "exit"}
  BY DEF Ini!Arguments, Ini!OpenFile, Ini!EndOfFile, Ini!parseVars
<1>2. Ini!TypeOK' /\ SectionIsLast'
  <2>1. defaultPort' \in Nat /\ listening' \in Nat \cup {-1}
    <3>1. CASE \E x \in Args : Ini!Arguments(x)
      <4>1. PICK x \in Args : Ini!Arguments(x)
        BY <3>1
      <4>2. x \in Nat
        BY IniAssumption DEF Ini!Parameters
      <4>3. Ini!Stored(x) \in Nat
        BY <4>2 DEF Ini!Stored
      <4> QED
        BY <4>1, <4>3 DEF Ini!Arguments, IniInv, Ini!TypeOK
    <3>2. CASE Ini!OpenFile \/ Ini!EndOfFile
      BY <3>2 DEF Ini!OpenFile, Ini!EndOfFile, IniInv, Ini!TypeOK
    <3> QED
      BY <3>1, <3>2
  <2> QED
    BY <1>1, <2>1 DEF IniInv, Ini!TypeOK, SectionIsLast, Headers
<1>3. OwnPortIsListed'
  BY <1>1 DEF IniInv, OwnPortIsListed, Ini!OwnPortIsListed, Ini!Cut
<1>4. ServersUnderTheirHeader'
  BY <1>1 DEF IniInv, ServersUnderTheirHeader, Ini!ServersUnderTheirHeader, Ini!HeadersBefore
<1> QED
  BY <1>2, <1>3, <1>4 DEF IniInv

LEMMA StartInv == IniInv /\ Ini!Start => IniInv'
<1> SUFFICES ASSUME IniInv, Ini!Start PROVE IniInv'
  OBVIOUS
<1>1. /\ UNCHANGED <<prog, file, section, prev_name, lineno, error, gconfig, calls>>
      /\ pc' = "run"
      /\ prog = "cfgagent" =>
            /\ defaultPort' = Number[gconfig.my_default_port]
            /\ listening' \in {Number[gconfig.my_default_port], -1}
  BY DEF Ini!Start, Ini!parseVars, Ini!PortToUse
<1>2. Ini!TypeOK' /\ SectionIsLast'
  <2>1. Number[gconfig.my_default_port] \in Nat
    <3>1. gconfig.my_default_port \in Values
      BY DEF IniInv, Ini!TypeOK, Ini!Configurations
    <3> QED
      BY <3>1, IniParameters
  <2>2. defaultPort' \in Nat /\ listening' \in Nat \cup {-1}
    BY <2>1 DEF Ini!Start, Ini!PortToUse, IniInv, Ini!TypeOK
  <2> QED
    BY <1>1, <2>2 DEF IniInv, Ini!TypeOK, SectionIsLast, Headers
<1>3. OwnPortIsListed'
  BY <1>1 DEF IniInv, OwnPortIsListed, Ini!OwnPortIsListed, Ini!Cut
<1>4. ServersUnderTheirHeader'
  BY <1>1 DEF IniInv, ServersUnderTheirHeader, Ini!ServersUnderTheirHeader, Ini!HeadersBefore
<1> QED
  BY <1>2, <1>3, <1>4 DEF IniInv

(* One more piece: what is above an earlier one stays. *)
LEMMA PieceAdded ==
    ASSUME Ini!TypeOK, NEW p \in Pieces, file' = Append(file, p),
           calls' = calls \/ calls' = calls \cup {Len(file) + 1}
    PROVE  /\ file' \in Seq(Pieces) /\ Len(file) \in Nat /\ Len(file') = Len(file) + 1
           /\ \A j \in 1 .. Len(file) : file'[j] = file[j] /\ (j \in calls' <=> j \in calls)
           /\ file'[Len(file) + 1] = p
           /\ calls' \subseteq 1 .. Len(file')
           /\ Headers' = Headers \cup
                {j \in {Len(file) + 1} : p.kind \in {"section", "open"} /\ j \notin calls'}
           /\ \A i \in 1 .. Len(file) + 1 : Ini!HeadersBefore(i)' = Ini!HeadersBefore(i)
           /\ Ini!HeadersBefore(Len(file) + 1) = Headers
           /\ Len(file) + 1 \notin Headers
<1> DEFINE n == Len(file)
<1>1. file \in Seq(Pieces) /\ calls \subseteq 1 .. n
  BY DEF Ini!TypeOK
<1>2. /\ file' \in Seq(Pieces) /\ n \in Nat /\ Len(file') = n + 1
      /\ \A j \in 1 .. n : file'[j] = file[j]
      /\ file'[n + 1] = p
      /\ 1 .. Len(file') = (1 .. n) \cup {n + 1}
  <2>1. /\ Append(file, p) \in Seq(Pieces) /\ n \in Nat /\ Len(Append(file, p)) = n + 1
        /\ \A j \in 1 .. n : Append(file, p)[j] = file[j]
        /\ Append(file, p)[n + 1] = p
        /\ 1 .. Len(Append(file, p)) = (1 .. n) \cup {n + 1}
    BY <1>1, Appended
  <2> QED
    BY <2>1, Zenon
<1> HIDE DEF n
<1>3. (\A j \in 1 .. n : j \in calls' <=> j \in calls) /\ calls' \subseteq 1 .. Len(file')
  <2>1. calls' = calls \/ calls' = calls \cup {n + 1}
    BY DEF n
  <2>2. n + 1 \notin 1 .. n
    BY <1>2
  <2>3. \A j \in 1 .. n : j \in calls' <=> j \in calls
    BY <2>1, <2>2
  <2>4. calls' \subseteq (1 .. n) \cup {n + 1}
    BY <1>1, <2>1
  <2> QED
    BY <1>2, <2>3, <2>4, Zenon
<1>4. Headers' = Headers \cup {j \in {n + 1} : p.kind \in {"section", "open"} /\ j \notin calls'}
  BY <1>2, <1>3 DEF Headers, n
<1>5. ASSUME NEW i \in 1 .. n + 1 PROVE Ini!HeadersBefore(i)' = Ini!HeadersBefore(i)
  <2>1. \A j \in 1 .. i - 1 : j \in 1 .. n
    BY <1>2
  <2> QED
    BY <1>2, <1>3, <2>1 DEF Ini!HeadersBefore
<1>6. Ini!HeadersBefore(n + 1) = Headers
  <2>1. 1 .. (n + 1) - 1 = 1 .. n
    BY <1>2
  <2> QED
    BY <2>1 DEF Ini!HeadersBefore, Headers, n
<1>7. n + 1 \notin Headers
  BY <1>2 DEF Headers, n
<1> QED
  BY <1>2, <1>3, <1>4, <1>5, <1>6, <1>7 DEF n

(* A server that is listed before stays under its header. *)
UnderItsHeader(i) ==
    LET heads == Ini!HeadersBefore(gconfig.app_server_ports[i].from)
        Right(j) == file[j].kind = "section" /\ file[j].name = "default_port"
    IN  /\ \E j \in heads : Right(j)
        /\ error = 0 => \A j \in heads : Right(j) \/ \E k \in heads : k > j

LEMMA StaysUnderItsHeader ==
    ASSUME Ini!TypeOK, NEW p \in Pieces, file' = Append(file, p),
           calls' = calls \/ calls' = calls \cup {Len(file) + 1},
           error' = 0 => error = 0,
           NEW i \in 1 .. Len(gconfig.app_server_ports), UnderItsHeader(i),
           gconfig'.app_server_ports[i] = gconfig.app_server_ports[i]
    PROVE  UnderItsHeader(i)'
<1> DEFINE f == gconfig.app_server_ports[i].from
           heads == Ini!HeadersBefore(f)
<1>1. f \in 1 .. Len(file)
  BY DEF Ini!TypeOK
<1>2. f \in 1 .. Len(file) + 1 /\ Len(file) \in Nat
  BY <1>1, ConfigurationTyped
<1>3. gconfig'.app_server_ports[i].from = f
  OBVIOUS
<1>4. heads' = heads
  <2>1. \A j \in 1 .. f - 1 : j \in 1 .. Len(file)
    BY <1>1, <1>2
  <2>2. \A j \in 1 .. f - 1 : file'[j] = file[j] /\ (j \in calls' <=> j \in calls)
    BY <2>1, PieceAdded
  <2> HIDE DEF f
  <2>3. f' = f
    BY <1>3 DEF f
  <2> QED
    BY <2>2, <2>3 DEF Ini!HeadersBefore
<1>5. \A j \in heads : file'[j] = file[j]
  <2>1. \A j \in heads : j \in 1 .. Len(file)
    BY <1>1, <1>2 DEF Ini!HeadersBefore
  <2> QED
    BY <2>1, PieceAdded
<1> QED
  BY <1>4, <1>5 DEF UnderItsHeader

LEMMA OneMore ==
    \A n \in Nat : /\ n + 1 \notin 1 .. n /\ n + 1 \in 1 .. n + 1
                   /\ 1 .. (n + 1) - 1 = 1 .. n /\ 1 .. n + 1 = (1 .. n) \cup {n + 1}
                   /\ \A k \in 1 .. n : k \in 1 .. n + 1 /\ k \in Nat /\ n + 1 > k /\ k <= n + 1
                   /\ n + 1 <= n + 1
OBVIOUS

LEMMA NextNat == \A k \in Nat : k + 1 \in Nat /\ k + 1 # 0
OBVIOUS

LEMMA FirstErrorIs ==
    \A b \in BOOLEAN, e, k \in Nat :
       LET f == IF b /\ e = 0 THEN k + 1 ELSE e
       IN  f \in Nat /\ k + 1 \in Nat /\ (f = 0 => e = 0 /\ ~b)
OBVIOUS

LEMMA HeaderByEntry == ServersUnderTheirHeader <=>
                         \A i \in 1 .. Len(gconfig.app_server_ports) : UnderItsHeader(i)
BY DEF ServersUnderTheirHeader, Ini!ServersUnderTheirHeader, UnderItsHeader

(* The first error is the one that is kept. *)
LEMMA ErrorKept ==
    ASSUME Ini!TypeOK, lineno' = lineno + 1
    PROVE  /\ lineno' \in Nat
           /\ \A b \in BOOLEAN : /\ Ini!FirstError(error, b) \in Nat
                                 /\ Ini!FirstError(error, b) = 0 => error = 0 /\ ~b
<1>1. lineno \in Nat /\ error \in Nat
  BY DEF Ini!TypeOK
<1> QED
  BY <1>1, FirstErrorIs DEF Ini!FirstError

(* A piece that handler is called for is no header. *)
LEMMA HandlerInv ==
    ASSUME IniInv, pc = "parse", NEW p \in Pieces, NEW nm \in Names, NEW v \in Values,
           file' = Append(file, p), lineno' = lineno + 1,
           Ini!handler(p, nm, v), prev_name' \in Names,
           UNCHANGED <<section, prog, pc, defaultPort, listening>>
    PROVE  IniInv'
<1> DEFINE n     == Len(file)
           g     == gconfig
           ports == gconfig.app_server_ports
           e     == Ini!Entry(nm, v)
<1>1. /\ gconfig' = Ini!Handled(nm, v) /\ calls' = calls \cup {n + 1}
      /\ error' = Ini!FirstError(error, ~Ini!Known(nm))
  BY DEF Ini!handler
<1>2. Ini!TypeOK /\ SectionIsLast /\ OwnPortIsListed /\ ServersUnderTheirHeader
  BY DEF IniInv
<1>3. /\ gconfig' \in Ini!Configurations
      /\ \/ /\ gconfig'.app_server_ports = ports
            /\ prog = "cfgagent" => gconfig'.my_default_port = gconfig.my_default_port
         \/ /\ section = "default_port" /\ prog = "cfgagent"
            /\ gconfig'.app_server_ports = Append(ports, e)
            /\ gconfig'.my_default_port = IF nm = App THEN Short[v] ELSE gconfig.my_default_port
  BY <1>1, <1>2, HandlerLists
<1>4. /\ file' \in Seq(Pieces) /\ n \in Nat /\ Len(file') = n + 1
      /\ \A j \in 1 .. n : file'[j] = file[j] /\ (j \in calls' <=> j \in calls)
      /\ calls' \subseteq 1 .. Len(file')
      /\ Headers' = Headers
      /\ \A i \in 1 .. n + 1 : Ini!HeadersBefore(i)' = Ini!HeadersBefore(i)
      /\ Ini!HeadersBefore(n + 1) = Headers
  <2>1. {j \in {n + 1} : p.kind \in {"section", "open"} /\ j \notin calls'} = {}
    BY <1>1
  <2> QED
    BY <1>1, <1>2, <2>1, PieceAdded
<1>5. ports \in Seq(Ini!Entries) /\ Len(ports) \in Nat
  BY <1>2, ConfigurationTyped
<1>6. e \in Ini!Entries /\ e.from = n + 1 /\ e.port = Number[v] /\ e.app_name = nm
  <2>1. Len(file) + 1 \in Nat /\ gconfig.default_host \in Values
    BY <1>2, ConfigurationTyped
  <2>2. Number[v] \in Nat
    BY IniParameters
  <2> QED
    BY <2>1, <2>2 DEF Ini!Entry, Ini!Entries
<1>7. error' \in Nat /\ (error' = 0 => error = 0) /\ lineno' \in Nat
  BY <1>1, <1>2, ErrorKept
<1> HIDE DEF e
<1>8. LET s == Append(ports, e)
      IN  /\ Len(s) = Len(ports) + 1 /\ 1 .. Len(s) = (1 .. Len(ports)) \cup {Len(ports) + 1}
          /\ \A i \in 1 .. Len(ports) : s[i] = ports[i]
          /\ s[Len(ports) + 1] = e
  BY <1>5, <1>6, Appended
<1>9. /\ \A i \in 1 .. Len(ports) : gconfig'.app_server_ports[i] = ports[i]
      /\ \/ /\ Len(gconfig'.app_server_ports) = Len(ports)
            /\ 1 .. Len(gconfig'.app_server_ports) = 1 .. Len(ports)
            /\ prog = "cfgagent" => gconfig'.my_default_port = gconfig.my_default_port
         \/ /\ section = "default_port" /\ prog = "cfgagent"
            /\ 1 .. Len(gconfig'.app_server_ports) = (1 .. Len(ports)) \cup {Len(ports) + 1}
            /\ gconfig'.app_server_ports[Len(ports) + 1] = e
            /\ gconfig'.my_default_port = IF nm = App THEN Short[v] ELSE gconfig.my_default_port
  BY <1>3, <1>8, Zenon
<1>10. Ini!TypeOK'
  <2>1. \A i \in 1 .. Len(ports) : ports[i].from \in 1 .. n
    BY <1>2 DEF Ini!TypeOK
  <2>2. \A i \in 1 .. Len(gconfig'.app_server_ports) : gconfig'.app_server_ports[i].from \in 1 .. n + 1
    <3> HIDE DEF n, ports
    <3>0. n \in Nat
      BY <1>4 DEF n
    <3>1. \A k : k \in 1 .. n \/ k = n + 1 => k \in 1 .. n + 1
      BY <3>0
    <3> QED
      BY <1>6, <1>9, <2>1, <3>1
  <2> QED
    BY <1>2, <1>3, <1>4, <1>7, <2>2 DEF Ini!TypeOK
<1>11. SectionIsLast'
  <2>1. \A j \in Headers : file'[j] = file[j]
    BY <1>4 DEF Headers
  <2> QED
    BY <1>2, <1>4, <1>7, <2>1 DEF SectionIsLast
<1>12. ServersUnderTheirHeader'
  <2>1. \A i \in 1 .. Len(ports) : UnderItsHeader(i)'
    BY <1>1, <1>2, <1>7, <1>9, HeaderByEntry, StaysUnderItsHeader
  <2>2. ASSUME section = "default_port", gconfig'.app_server_ports[Len(ports) + 1] = e,
               NEW i, i = Len(ports) + 1
        PROVE  UnderItsHeader(i)'
    <3>2. PICK j \in Headers : /\ file[j].kind = "section" /\ file[j].name = "default_port"
                               /\ \A k \in Headers : file[k].kind = "section" => k <= j
      BY <1>2, <2>2 DEF SectionIsLast
    <3>3. \A k \in Headers : file'[k] = file[k] /\ k \in Nat
      BY <1>4 DEF Headers
    <3>4. ASSUME error' = 0, NEW k \in Headers PROVE k = j \/ j > k
      <4>1. file[k].kind = "section"
        BY <1>2, <1>7, <3>4 DEF SectionIsLast
      <4> QED
        BY <3>2, <3>3, <4>1
    <3>5. gconfig'.app_server_ports[i].from = n + 1
      BY <1>6, <2>2
    <3>6. /\ \E h \in Headers : file'[h].kind = "section" /\ file'[h].name = "default_port"
          /\ error' = 0 => \A k \in Headers :
                              \/ file'[k].kind = "section" /\ file'[k].name = "default_port"
                              \/ \E h \in Headers : h > k
      BY <3>2, <3>3, <3>4
    <3>7. Ini!HeadersBefore(gconfig.app_server_ports[i].from)' = Headers
      <4> HIDE DEF n, ports, e
      <4>1. Ini!HeadersBefore(gconfig.app_server_ports[i].from)'
              = {h \in 1 .. gconfig'.app_server_ports[i].from - 1 :
                    file'[h].kind \in {"section", "open"} /\ h \notin calls'}
        BY DEF Ini!HeadersBefore
      <4>2. Headers' = {h \in 1 .. n + 1 :
                          file'[h].kind \in {"section", "open"} /\ h \notin calls'}
        BY <1>4 DEF Headers
      <4>3. Headers' = Headers /\ n + 1 \notin Headers
        BY <1>1, <1>2, <1>4, PieceAdded DEF n
      <4>4. 1 .. (n + 1) - 1 = 1 .. n /\ 1 .. n + 1 = (1 .. n) \cup {n + 1}
        <5>1. n \in Nat
          BY <1>4 DEF n
        <5> QED
          BY <5>1, OneMore
      <4>5. Headers' = {h \in 1 .. n : file'[h].kind \in {"section", "open"} /\ h \notin calls'}
        BY <4>2, <4>3, <4>4
      <4>6. 1 .. gconfig'.app_server_ports[i].from - 1 = 1 .. n
        BY <3>5, <4>4
      <4> QED
        BY <4>1, <4>3, <4>5, <4>6
    <3> QED
      BY <3>6, <3>7 DEF UnderItsHeader
  <2>3. \A i \in 1 .. Len(gconfig'.app_server_ports) : UnderItsHeader(i)'
    BY <1>9, <2>1, <2>2
  <2> QED
    BY <2>3 DEF ServersUnderTheirHeader, Ini!ServersUnderTheirHeader, UnderItsHeader
<1>13. OwnPortIsListed'
  <2> SUFFICES ASSUME prog = "cfgagent"
               PROVE  LET servers == gconfig'.app_server_ports
                          mine    == gconfig'.my_default_port
                          own     == {i \in 1 .. Len(servers) : servers[i].app_name = App}
                      IN  /\ own = {} => mine = ""
                          /\ \A i \in own : \/ \E j \in own : j > i
                                            \/ Number[mine] = servers[i].port
                                            \/ Ini!Cut(mine, servers[i].port)
    BY DEF OwnPortIsListed, Ini!OwnPortIsListed, Ini!Cut
  <2> DEFINE own == {i \in 1 .. Len(ports) : ports[i].app_name = App}
             Mine(i) == Number[gconfig.my_default_port] = ports[i].port
                          \/ Ini!Cut(gconfig.my_default_port, ports[i].port)
  <2>1. /\ own = {} => gconfig.my_default_port = ""
        /\ \A i \in own : (\E j \in own : j > i) \/ Mine(i)
    BY <1>2 DEF OwnPortIsListed, Ini!OwnPortIsListed
  <2> DEFINE new == {i \in 1 .. Len(gconfig'.app_server_ports) : gconfig'.app_server_ports[i].app_name = App}
             New(i) == Number[gconfig'.my_default_port] = gconfig'.app_server_ports[i].port
                         \/ Ini!Cut(gconfig'.my_default_port, gconfig'.app_server_ports[i].port)
  <2>2. (new = {} => gconfig'.my_default_port = "") /\ \A i \in new : (\E j \in new : j > i) \/ New(i)
    <3>1. CASE /\ 1 .. Len(gconfig'.app_server_ports) = 1 .. Len(ports)
               /\ gconfig'.my_default_port = gconfig.my_default_port
      <4>1. new = own
        BY <1>9, <3>1
      <4>2. \A i \in own : New(i) <=> Mine(i)
        BY <1>9, <3>1
      <4> HIDE DEF new, own, New, Mine
      <4> QED
        BY <2>1, <3>1, <4>1, <4>2
    <3>2. CASE /\ 1 .. Len(gconfig'.app_server_ports) = (1 .. Len(ports)) \cup {Len(ports) + 1}
               /\ gconfig'.app_server_ports[Len(ports) + 1] = e
               /\ gconfig'.my_default_port = IF nm = App THEN Short[v] ELSE gconfig.my_default_port
      <4>1. new = own \cup {i \in {Len(ports) + 1} : nm = App}
        BY <1>6, <1>9, <3>2
      <4>2. CASE nm # App
        <5>1. new = own /\ gconfig'.my_default_port = gconfig.my_default_port
          BY <3>2, <4>1, <4>2
        <5>2. \A i \in own : New(i) <=> Mine(i)
          BY <1>9, <3>2, <4>2
        <5> HIDE DEF new, own, New, Mine
        <5> QED
          BY <2>1, <5>1, <5>2
      <4>3. CASE nm = App
        <5>1. new = own \cup {Len(ports) + 1} /\ \A i \in own : Len(ports) + 1 > i
          BY <1>5, <4>1, <4>3
        <5>2. New(Len(ports) + 1)
          <6>1. gconfig'.my_default_port = Short[v] /\ gconfig'.app_server_ports[Len(ports) + 1].port = Number[v]
            BY <1>6, <3>2, <4>3
          <6>2. CASE Short[v] = v
            BY <6>1, <6>2
          <6>3. CASE Short[v] # v
            BY <6>1, <6>3 DEF Ini!Cut
          <6> QED
            BY <6>2, <6>3
        <5> HIDE DEF new, own, New, Mine
        <5> QED
          BY <5>1, <5>2
      <4> QED
        BY <4>2, <4>3
    <3> QED
      BY <1>9, <3>1, <3>2
  <2> QED
    BY <2>2
<1> QED
  BY <1>10, <1>11, <1>12, <1>13 DEF IniInv

(* A piece that handler is not called for lists no server. *)
LEMMA OtherPieceInv ==
    ASSUME IniInv, pc = "parse", NEW p \in Pieces,
           file' = Append(file, p), lineno' = lineno + 1,
           section' = IF Ini!IsSection(p) THEN p.name ELSE section,
           prev_name' = IF Ini!IsSection(p) THEN "" ELSE prev_name,
           error' = Ini!FirstError(error, p.kind \in {"open", "text"}),
           UNCHANGED <<gconfig, calls, prog, pc, defaultPort, listening>>
    PROVE  IniInv'
<1> DEFINE n == Len(file)
<1>1. Ini!TypeOK /\ SectionIsLast /\ OwnPortIsListed /\ ServersUnderTheirHeader
  BY DEF IniInv
<1>2. error' \in Nat /\ (error' = 0 => error = 0 /\ p.kind # "open") /\ lineno' \in Nat
  <2>1. lineno \in Nat /\ error \in Nat
    BY <1>1 DEF Ini!TypeOK
  <2>2. error' = IF p.kind \in {"open", "text"} /\ error = 0 THEN lineno + 1 ELSE error
    BY DEF Ini!FirstError
  <2>3. lineno' \in Nat /\ lineno + 1 \in Nat /\ lineno + 1 # 0
    BY <2>1, NextNat, Zenon
  <2>4. CASE p.kind \in {"open", "text"} /\ error = 0
    <3>1. error' = lineno + 1
      BY <2>2, <2>4, Zenon
    <3> QED
      BY <2>3, <3>1, Zenon
  <2>5. CASE ~(p.kind \in {"open", "text"} /\ error = 0)
    <3>1. error' = error
      BY <2>2, <2>5, Zenon
    <3>2. error = 0 => p.kind # "open"
      BY <2>5
    <3> QED
      BY <2>1, <2>3, <3>1, <3>2, Zenon
  <2> QED
    BY <2>4, <2>5, Zenon
<1>3. /\ file' \in Seq(Pieces) /\ n \in Nat /\ Len(file') = n + 1
      /\ \A j \in 1 .. n : file'[j] = file[j]
      /\ file'[n + 1] = p
      /\ Headers' = Headers \cup {j \in {n + 1} : p.kind \in {"section", "open"} /\ j \notin calls'}
      /\ n + 1 \notin calls
  <2>1. n + 1 \notin calls
    <3>1. n \in Nat /\ calls \subseteq 1 .. n
      BY <1>1, ConfigurationTyped DEF Ini!TypeOK
    <3> HIDE DEF n
    <3> QED
      BY <3>1, OneMore
  <2> QED
    BY <1>1, <2>1, PieceAdded
<1>4. \A j \in Headers : file'[j] = file[j] /\ j \in Nat /\ n + 1 > j
  <2>1. \A j \in Headers : j \in 1 .. n
    BY DEF Headers
  <2> HIDE DEF n
  <2> QED
    BY <1>3, <2>1, OneMore
<1>5. Ini!TypeOK'
  <2>1. section' \in Ini!Sections \cup {""} /\ prev_name' \in Names \cup {""}
    BY <1>1, PieceTyped DEF Ini!TypeOK, Ini!IsSection
  <2>2. \A k : k \in 1 .. n => k \in 1 .. Len(file')
    <3> HIDE DEF n
    <3> QED
      BY <1>3, OneMore
  <2>3. calls' \subseteq 1 .. Len(file')
    BY <1>1, <2>2 DEF Ini!TypeOK
  <2>4. \A i \in 1 .. Len(gconfig'.app_server_ports) :
           gconfig'.app_server_ports[i].from \in 1 .. Len(file')
    BY <1>1, <2>2 DEF Ini!TypeOK
  <2> QED
    BY <1>1, <1>2, <1>3, <2>1, <2>3, <2>4 DEF Ini!TypeOK
<1>6. SectionIsLast'
  <2> HIDE DEF n
  <2>1. CASE Ini!IsSection(p)
    <3>1. Headers' = Headers \cup {n + 1} /\ section' = p.name /\ p.kind = "section"
      BY <1>3, <2>1 DEF Ini!IsSection
    <3>2. \E j \in Headers' : /\ file'[j].kind = "section" /\ file'[j].name = section'
                              /\ \A k \in Headers' : file'[k].kind = "section" => k <= j
      <4>1. \A k \in Headers' : k <= n + 1
        <5>1. n + 1 <= n + 1 /\ \A k \in 1 .. n : k <= n + 1
          BY <1>3, OneMore
        <5>2. \A k \in Headers : k \in 1 .. n
          BY DEF Headers, n
        <5> QED
          BY <3>1, <5>1, <5>2
      <4>2. file'[n + 1].kind = "section" /\ file'[n + 1].name = section' /\ n + 1 \in Headers'
        BY <1>3, <3>1
      <4> QED
        BY <4>1, <4>2, Zenon
    <3>3. error' = 0 => \A j \in Headers' : file'[j].kind = "section"
      BY <1>1, <1>2, <1>3, <1>4, <3>1 DEF SectionIsLast
    <3> QED
      BY <3>2, <3>3 DEF SectionIsLast
  <2>2. CASE p.kind = "open"
    <3>1. Headers' = Headers \cup {n + 1} /\ section' = section /\ error' # 0
      BY <1>2, <1>3, <2>2 DEF Ini!IsSection
    <3>2. section # "" =>
            \E j \in Headers' : /\ file'[j].kind = "section" /\ file'[j].name = section
                                /\ \A k \in Headers' : file'[k].kind = "section" => k <= j
      BY <1>1, <1>3, <1>4, <2>2, <3>1 DEF SectionIsLast
    <3> QED
      BY <3>1, <3>2 DEF SectionIsLast
  <2>3. CASE p.kind \notin {"section", "open"}
    <3>1. Headers' = Headers /\ section' = section
      BY <1>3, <2>3 DEF Ini!IsSection
    <3> QED
      BY <1>1, <1>2, <1>4, <3>1 DEF SectionIsLast
  <2> QED
    BY <2>1, <2>2, <2>3 DEF Ini!IsSection
<1>7. OwnPortIsListed'
  BY <1>1 DEF OwnPortIsListed, Ini!OwnPortIsListed, Ini!Cut
<1>8. ServersUnderTheirHeader'
  <2>1. \A i \in 1 .. Len(gconfig.app_server_ports) : UnderItsHeader(i)'
    BY <1>1, <1>2, HeaderByEntry, StaysUnderItsHeader
  <2> QED
    BY <2>1 DEF ServersUnderTheirHeader, Ini!ServersUnderTheirHeader, UnderItsHeader
<1> QED
  BY <1>5, <1>6, <1>7, <1>8 DEF IniInv

LEMMA ReadPieceInv ==
    ASSUME IniInv, NEW p \in Pieces, Ini!ReadPiece(p)
    PROVE  IniInv'
<1>1. /\ pc = "parse" /\ file' = Append(file, p) /\ lineno' = lineno + 1
      /\ UNCHANGED <<prog, pc, defaultPort, listening>>
  BY DEF Ini!ReadPiece
<1>2. CASE Ini!Continues(p)
  <2> DEFINE v == IF p.kind = "text" THEN p.value ELSE "text"
  <2>1. Ini!handler(p, prev_name, v) /\ UNCHANGED <<section, prev_name>>
    BY <1>2 DEF Ini!ReadPiece
  <2>2. prev_name \in Names /\ v \in Values
    BY <1>2, IniParameters, PieceTyped DEF IniInv, Ini!TypeOK, Ini!Continues
  <2> HIDE DEF v
  <2>3. prev_name' \in Names /\ UNCHANGED section
    BY <2>1, <2>2
  <2> QED
    BY <1>1, <2>1, <2>2, <2>3, HandlerInv
<1>3. CASE ~Ini!Continues(p) /\ p.kind = "pair"
  <2>1. Ini!handler(p, p.name, p.value) /\ prev_name' = p.name /\ UNCHANGED section
    BY <1>3 DEF Ini!ReadPiece
  <2>2. p.name \in Names /\ p.value \in Values
    BY <1>3, PieceTyped
  <2> QED
    BY <1>1, <2>1, <2>2, HandlerInv
<1>4. CASE ~Ini!Continues(p) /\ p.kind # "pair"
  <2>1. /\ section' = IF Ini!IsSection(p) THEN p.name ELSE section
        /\ prev_name' = IF Ini!IsSection(p) THEN "" ELSE prev_name
        /\ error' = Ini!FirstError(error, p.kind \in {"open", "text"})
        /\ UNCHANGED <<gconfig, calls>>
    BY <1>4 DEF Ini!ReadPiece
  <2> QED
    BY <1>1, <2>1, OtherPieceInv
<1> QED
  BY <1>2, <1>3, <1>4

LEMMA IniNextInv == IniInv /\ [Ini!Next]_(Ini!vars) => IniInv'
<1>1. IniInv /\ UNCHANGED Ini!vars => IniInv'
  <2> SUFFICES ASSUME IniInv, UNCHANGED Ini!vars PROVE IniInv'
    OBVIOUS
  <2>1. UNCHANGED <<prog, pc, file, section, prev_name, lineno, error, gconfig, calls,
                    defaultPort, listening>>
    BY DEF Ini!vars, Ini!parseVars
  <2> QED
    BY <2>1 DEF IniInv, Ini!TypeOK, SectionIsLast, Headers, OwnPortIsListed, Ini!OwnPortIsListed,
                Ini!Cut, ServersUnderTheirHeader, Ini!ServersUnderTheirHeader, Ini!HeadersBefore
<1> QED
  BY <1>1, IniOtherInv, StartInv, ReadPieceInv DEF Ini!Next

(* What is true of the start-up after every step. *)
LEMMA IniInvariant == Ini!Spec => []IniInv
<1> QED
  BY IniInit, IniNextInv, PTL DEF Ini!Spec

(* Every variable of the start-up keeps its type. *)
THEOREM IniTypeCorrect == Ini!Spec => []Ini!TypeOK
<1>1. IniInv => Ini!TypeOK
  BY DEF IniInv
<1> QED
  BY <1>1, IniInvariant, PTL

(* Once cfgagent has read a file, whatever it holds, the port it will      *)
(* listen on, or listens on, is that of its own last entry in the list of  *)
(* servers, or what 7 characters of it say, and none without an entry.     *)
THEOREM AgentListensOnItsPort == Ini!Spec => []OwnPortIsListed
<1> QED
  BY IniInvariant, PTL DEF IniInv

(* Every server in the list comes from a line below a header of the        *)
(* section of servers; unless ini_parse reports an error, no other header  *)
(* is between them.                                                        *)
THEOREM ServersAreUnderTheirHeader == Ini!Spec => []ServersUnderTheirHeader
<1> QED
  BY IniInvariant, PTL DEF IniInv

-----------------------------------------------------------------------------
(* The strings of the service monitor's file.                              *)

LEMMA SmallestNumber == ASSUME NEW T \in SUBSET Nat, T # {} PROVE \E x \in T : \A y \in T : x <= y
<1> DEFINE R == {ss \in Nat \X Nat : ss[1] < ss[2]}
<1>1. IsWellFoundedOn(R, Nat)
  BY NatLessThanWellFounded, Zenon DEF OpToRel
<1> HIDE DEF R
<1>2. \E x \in T : \A y \in T : ~(<<y, x>> \in R)
  BY <1>1, WFMin
<1>3. \A x, y \in Nat : y < x => <<y, x>> \in R
  BY DEF R
<1>4. \A x, y \in Nat : y < x \/ x <= y
  OBVIOUS
<1> QED
  BY <1>2, <1>3, <1>4

LEMMA MinIs ==
    ASSUME NEW S \in SUBSET Nat, NEW m \in S, \A y \in S : m <= y
    PROVE  Xml!Min(S) = m
<1> DEFINE x == Xml!Min(S)
<1>1. x \in S /\ \A y \in S : x <= y
  BY DEF Xml!Min
<1>2. x <= m /\ m <= x /\ x \in Nat /\ m \in Nat
  BY <1>1
<1> HIDE DEF x
<1> QED
  BY <1>2 DEF x

LEMMA MaxIs ==
    ASSUME NEW S \in SUBSET Nat, NEW m \in S, \A y \in S : y <= m
    PROVE  Xml!Max(S) = m
<1> DEFINE x == Xml!Max(S)
<1>1. x \in S /\ \A y \in S : y <= x
  BY DEF Xml!Max
<1>2. x <= m /\ m <= x /\ x \in Nat /\ m \in Nat
  BY <1>1
<1> HIDE DEF x
<1> QED
  BY <1>2 DEF x

\* What is not empty has a smallest and, up to n, a largest number.
LEMMA MinThere ==
    ASSUME NEW S \in SUBSET Nat, S # {}
    PROVE  Xml!Min(S) \in S /\ \A y \in S : Xml!Min(S) <= y
<1>1. PICK m \in S : \A y \in S : m <= y
  BY SmallestNumber
<1>2. Xml!Min(S) = m
  BY <1>1, MinIs
<1> QED
  BY <1>1, <1>2

LEMMA MaxThere ==
    ASSUME NEW n \in Nat, NEW S \in SUBSET (0 .. n), S # {}
    PROVE  Xml!Max(S) \in S /\ \A y \in S : y <= Xml!Max(S)
<1> DEFINE T == {k \in 0 .. n : n - k \in S}
<1>1. T \in SUBSET Nat
  OBVIOUS
<1>2. T # {}
  <2>1. PICK y \in S : TRUE
    OBVIOUS
  <2>2. n - y \in 0 .. n /\ n - (n - y) = y
    BY <2>1
  <2> QED
    BY <2>2
<1>3. PICK k \in T : \A y \in T : k <= y
  BY <1>1, <1>2, SmallestNumber
<1>4. n - k \in S
  BY <1>3
<1>5. \A y \in S : y <= n - k
  <2> TAKE y \in S
  <2>1. n - y \in 0 .. n /\ n - (n - y) = y /\ y \in 0 .. n
    OBVIOUS
  <2>2. k <= n - y
    BY <1>3, <2>1
  <2> QED
    BY <2>1, <2>2
<1>6. Xml!Max(S) = n - k
  <2>1. S \in SUBSET Nat
    OBVIOUS
  <2> QED
    BY <1>4, <1>5, <2>1, MaxIs
<1> QED
  BY <1>4, <1>5, <1>6

(* Characters of strings, and of memory.                                   *)
Chars  == Xml!Chars \cup {"?"}
Memory == Chars \cup {"0"}

LEMMA NoEndInChars == "0" \notin Chars /\ Xml!Chars \subseteq Chars /\ Chars \subseteq Memory
BY DEF Chars, Memory, Xml!Chars, Xml!Blank

(* A string of n characters before its end. *)
LEMMA StringOfIs ==
    ASSUME NEW s \in Seq(Memory), NEW n \in Nat, n < Len(s), s[n + 1] = "0",
           \A i \in 1 .. n : s[i] # "0"
    PROVE  Xml!StringOf(s) = SubSeq(s, 1, n)
<1> DEFINE ends == {i \in 1 .. Len(s) : s[i] = "0"}
<1>1. Len(s) \in Nat
  BY LenProperties
<1>2. n + 1 \in ends
  BY <1>1
<1>3. \A y \in ends : n + 1 <= y
  <2> TAKE y \in ends
  <2>1. y \in 1 .. Len(s) /\ s[y] = "0"
    OBVIOUS
  <2>2. y \notin 1 .. n
    BY <2>1
  <2> QED
    BY <1>1, <2>1, <2>2
<1>4. ends \in SUBSET Nat
  OBVIOUS
<1>5. ends # {} /\ Xml!Min(ends) - 1 = n
  <2>1. Xml!Min(ends) = n + 1
    <3> HIDE DEF ends
    <3> QED
      BY <1>2, <1>3, <1>4, MinIs
  <2> QED
    BY <1>2, <2>1
<1> QED
  BY <1>5 DEF Xml!StringOf

(* The first n characters of s. *)
LEMMA FirstOnes ==
    ASSUME NEW S, NEW s \in Seq(S), NEW n \in Nat, n <= Len(s)
    PROVE  /\ SubSeq(s, 1, n) \in Seq(S) /\ Len(SubSeq(s, 1, n)) = n
           /\ \A i \in 1 .. n : SubSeq(s, 1, n)[i] = s[i]
<1>1. Len(s) \in Nat
  BY LenProperties
<1>2. \A i \in 1 .. n : s[i] \in S
  <2>1. \A i \in 1 .. n : i \in 1 .. Len(s)
    BY <1>1
  <2> QED
    BY <2>1, ElementOfSeq
<1>3. /\ SubSeq(s, 1, n) \in Seq(S)
      /\ Len(SubSeq(s, 1, n)) = IF 1 <= n THEN n - 1 + 1 ELSE 0
      /\ \A i \in 1 .. n - 1 + 1 : SubSeq(s, 1, n)[i] = s[1 + i - 1]
  <2>1. 1 \in Int /\ n \in Int
    OBVIOUS
  <2> HIDE <1>1
  <2> QED
    BY <1>2, <2>1, SubSeqProperties
<1>4. n - 1 + 1 = n /\ (IF 1 <= n THEN n - 1 + 1 ELSE 0) = n
  OBVIOUS
<1>5. \A i \in 1 .. n : 1 + i - 1 = i
  OBVIOUS
<1> QED
  BY <1>3, <1>4, <1>5

LEMMA SameStart ==
    ASSUME NEW S, NEW s \in Seq(S), NEW t \in Seq(S), NEW n \in Nat,
           n <= Len(s), n <= Len(t), \A i \in 1 .. n : s[i] = t[i]
    PROVE  SubSeq(s, 1, n) = SubSeq(t, 1, n)
<1>1. /\ SubSeq(s, 1, n) \in Seq(S) /\ Len(SubSeq(s, 1, n)) = n
      /\ \A i \in 1 .. n : SubSeq(s, 1, n)[i] = s[i]
  BY FirstOnes
<1>2. /\ SubSeq(t, 1, n) \in Seq(S) /\ Len(SubSeq(t, 1, n)) = n
      /\ \A i \in 1 .. n : SubSeq(t, 1, n)[i] = t[i]
  BY FirstOnes
<1>3. \A i \in 1 .. n : SubSeq(s, 1, n)[i] = SubSeq(t, 1, n)[i]
  BY <1>1, <1>2
<1> HIDE <1>1, <1>2
<1> QED
  <2>1. SubSeq(s, 1, n) \in Seq(S) /\ SubSeq(t, 1, n) \in Seq(S)
    BY <1>1, <1>2
  <2>2. Len(SubSeq(s, 1, n)) = n /\ Len(SubSeq(t, 1, n)) = n
    BY <1>1, <1>2
  <2> QED
    BY <1>3, <2>1, <2>2, SeqEqual

\* A field that w was copied into, whose last place is z.
LEMMA FieldTyped ==
    ASSUME NEW N \in Nat, NEW w \in Seq(Chars), NEW z \in Memory
    PROVE  [i \in 1 .. N |-> IF i = N THEN z ELSE IF i <= Len(w) THEN w[i] ELSE "0"]
               \in [1 .. N -> Memory]
<1>1. Len(w) \in Nat /\ \A i \in 1 .. Len(w) : w[i] \in Memory
  BY ElementOfSeq, LenProperties, NoEndInChars
<1>2. \A i \in 1 .. N : i <= Len(w) => i \in 1 .. Len(w)
  BY <1>1
<1>3. "0" \in Memory
  BY DEF Memory
<1> QED
  BY <1>1, <1>2, <1>3

\* A field that w was copied into holds what fits of it, if it has an end.
LEMMA FieldRead ==
    ASSUME NEW N \in Nat, N >= 2, NEW w \in Seq(Chars), NEW z \in Memory, NEW f,
           f = [i \in 1 .. N |-> IF i = N THEN z ELSE IF i <= Len(w) THEN w[i] ELSE "0"],
           Len(w) < N - 1 \/ z = "0"
    PROVE  Xml!StringOf(f) = Xml!Start(w, N - 1)
<1> DEFINE n == IF Len(w) <= N - 1 THEN Len(w) ELSE N - 1
<1>1. Len(w) \in Nat
  BY LenProperties
<1>2. /\ n \in Nat /\ n < N /\ n <= Len(w) /\ n + 1 \in 1 .. N
      /\ (n + 1 = N /\ z = "0") \/ (n + 1 # N /\ ~(n + 1 <= Len(w)))
  BY <1>1
<1>3. \A i \in 1 .. n : i \in 1 .. N /\ i # N /\ i <= Len(w) /\ i \in 1 .. Len(w)
  BY <1>1, <1>2
<1>4. \A i \in 1 .. Len(w) : w[i] \in Chars /\ w[i] \in Memory /\ w[i] # "0"
  BY ElementOfSeq, NoEndInChars
<1>5. f \in Seq(Memory) /\ Len(f) = N
  <2>1. f \in [1 .. N -> Memory]
    BY FieldTyped
  <2> QED
    BY <2>1
<1>6. \A i \in 1 .. n : f[i] = w[i]
  BY <1>3
<1>7. f[n + 1] = "0"
  BY <1>2
<1> HIDE DEF n
<1>8. Xml!StringOf(f) = SubSeq(f, 1, n)
  <2>1. \A i \in 1 .. n : f[i] # "0"
    BY <1>3, <1>4, <1>6
  <2> QED
    BY <1>2, <1>5, <1>7, <2>1, StringOfIs
<1>9. SubSeq(f, 1, n) = SubSeq(w, 1, n)
  <2>1. w \in Seq(Memory)
    <3>1. w \in [1 .. Len(w) -> Memory]
      BY <1>4, LenProperties
    <3> QED
      BY <1>1, <3>1
  <2>2. n <= Len(f) /\ n <= Len(w)
    BY <1>1, <1>2, <1>5
  <2> QED
    BY <1>2, <1>5, <1>6, <2>1, <2>2, SameStart
<1>10. CASE Len(w) <= N - 1
  <2>1. n = Len(w)
    BY <1>10 DEF n
  <2> QED
    BY <1>8, <1>9, <1>10, <2>1, SubSeqFull DEF Xml!Start
<1>11. CASE ~(Len(w) <= N - 1)
  <2>1. n = N - 1
    BY <1>11 DEF n
  <2> QED
    BY <1>8, <1>9, <1>11, <2>1 DEF Xml!Start
<1> QED
  BY <1>10, <1>11

\* Without one it begins with that.
LEMMA FieldBegins ==
    ASSUME NEW N \in Nat, N >= 2, NEW w \in Seq(Chars), NEW z \in Memory, NEW f,
           f = [i \in 1 .. N |-> IF i = N THEN z ELSE IF i <= Len(w) THEN w[i] ELSE "0"],
           ~(Len(w) < N - 1), z # "0"
    PROVE  Xml!Start(Xml!StringOf(f), N - 1) = Xml!Start(w, N - 1)
<1>1. Len(w) \in Nat
  BY LenProperties
<1>2. f \in [1 .. N -> Memory]
  BY FieldTyped
<1>3. f \in Seq(Memory) /\ Len(f) = N
  BY <1>2
<1>4. \A i \in 1 .. Len(w) : w[i] \in Memory /\ w[i] # "0"
  BY ElementOfSeq, NoEndInChars
<1>5. \A i \in 1 .. N : i # N => i \in 1 .. Len(w) /\ i <= Len(w)
  BY <1>1
<1>6. \A i \in 1 .. N : f[i] # "0"
  BY <1>4, <1>5
<1>7. Xml!StringOf(f) = f
  BY <1>3, <1>6 DEF Xml!StringOf
<1>8. Xml!Start(f, N - 1) = SubSeq(f, 1, N - 1)
  BY <1>3 DEF Xml!Start
<1>9. w \in Seq(Memory)
  <2>1. w \in [1 .. Len(w) -> Memory]
    BY <1>4, LenProperties
  <2> QED
    BY <1>1, <2>1
<1>10. SubSeq(f, 1, N - 1) = SubSeq(w, 1, N - 1)
  <2>1. \A i \in 1 .. N - 1 : i \in 1 .. N /\ i # N
    OBVIOUS
  <2>2. \A i \in 1 .. N - 1 : f[i] = w[i]
    BY <1>5, <2>1
  <2>3. N - 1 \in Nat /\ N - 1 <= Len(f) /\ N - 1 <= Len(w)
    BY <1>1, <1>3
  <2> HIDE <1>5, <1>6
  <2> QED
    BY <1>3, <1>9, <2>2, <2>3, SameStart
<1>11. Xml!Start(w, N - 1) = SubSeq(w, 1, N - 1)
  <2>1. CASE Len(w) <= N - 1
    <3>1. Len(w) = N - 1
      BY <1>1, <2>1
    <3> QED
      BY <2>1, <3>1, SubSeqFull DEF Xml!Start
  <2>2. CASE ~(Len(w) <= N - 1)
    BY <2>2 DEF Xml!Start
  <2> QED
    BY <2>1, <2>2
<1> QED
  BY <1>7, <1>8, <1>10, <1>11

(* trimwhitespace takes the words of a string: Min and Max of what is not  *)
(* blank, if anything is.                                                  *)
Solid(s) == {i \in 1 .. Len(s) : s[i] # Xml!Blank}

LEMMA MinOfMore ==
    ASSUME NEW T \in SUBSET Nat, NEW m \in T, \A y \in T : m <= y, NEW n \in Nat, m <= n
    PROVE  Xml!Min(T \cup {n}) = m
<1>1. T \cup {n} \in SUBSET Nat /\ m \in T \cup {n} /\ \A y \in T \cup {n} : m <= y
  OBVIOUS
<1> QED
  BY <1>1, MinIs

LEMMA MaxOfMore ==
    ASSUME NEW T \in SUBSET Nat, NEW m \in T, \A y \in T : y <= m
    PROVE  Xml!Max(T \cup {0}) = m
<1>1. T \cup {0} \in SUBSET Nat /\ m \in T \cup {0} /\ \A y \in T \cup {0} : y <= m
  OBVIOUS
<1> QED
  BY <1>1, MaxIs

LEMMA Kept ==
    ASSUME NEW s \in Seq(Chars), Solid(s) # {}
    PROVE  /\ Xml!FirstKept(s) = Xml!Min(Solid(s)) /\ Xml!LastKept(s) = Xml!Max(Solid(s))
           /\ Xml!Min(Solid(s)) \in Solid(s) /\ \A y \in Solid(s) : Xml!Min(Solid(s)) <= y
           /\ Xml!Max(Solid(s)) \in Solid(s) /\ \A y \in Solid(s) : y <= Xml!Max(Solid(s))
<1> DEFINE T == Solid(s)
<1>1. Len(s) \in Nat
  BY LenProperties
<1>2. T \in SUBSET Nat /\ T \in SUBSET (0 .. Len(s)) /\ \A y \in T : y \in 1 .. Len(s)
  BY <1>1 DEF Solid
<1>3. /\ Xml!FirstKept(s) = Xml!Min(T \cup {Len(s) + 1})
      /\ Xml!LastKept(s) = Xml!Max(T \cup {0})
  BY DEF Xml!FirstKept, Xml!LastKept, Solid
<1>4. T # {}
  OBVIOUS
<1> HIDE DEF T
<1>5. Xml!Min(T) \in T /\ \A y \in T : Xml!Min(T) <= y
  BY <1>2, <1>4, MinThere
<1>6. Xml!Max(T) \in T /\ \A y \in T : y <= Xml!Max(T)
  BY <1>1, <1>2, <1>4, MaxThere
<1>7. Xml!Min(T \cup {Len(s) + 1}) = Xml!Min(T)
  <2>1. Xml!Min(T) \in 1 .. Len(s)
    BY <1>2, <1>5
  <2>2. Len(s) + 1 \in Nat /\ Xml!Min(T) <= Len(s) + 1
    BY <1>1, <2>1
  <2> QED
    BY <1>2, <1>5, <2>2, MinOfMore
<1>8. Xml!Max(T \cup {0}) = Xml!Max(T)
  BY <1>2, <1>6, MaxOfMore
<1> QED
  BY <1>3, <1>5, <1>6, <1>7, <1>8 DEF T

LEMMA TrimTakesWords == ASSUME NEW s \in Seq(Chars) PROVE Xml!trimwhitespace(s) = Xml!Words(s)
<1>1. Len(s) \in Nat
  BY LenProperties
<1>2. CASE Solid(s) = {}
  <2>1. Xml!FirstKept(s) = Xml!Min({Len(s) + 1}) /\ Xml!LastKept(s) = Xml!Max({0})
    <3>1. Solid(s) \cup {Len(s) + 1} = {Len(s) + 1} /\ Solid(s) \cup {0} = {0}
      BY <1>2
    <3> QED
      BY <3>1 DEF Xml!FirstKept, Xml!LastKept, Solid
  <2>2. Xml!Min({Len(s) + 1}) = Len(s) + 1 /\ Xml!Max({0}) = 0
    BY <1>1, MinIs, MaxIs
  <2>3. SubSeq(s, Len(s) + 1, 0) = << >>
    <3>1. Len(s) + 1 \in Int /\ 0 \in Int /\ 0 < Len(s) + 1
      BY <1>1
    <3> QED
      BY <3>1, SubSeqEmpty
  <2>4. Xml!Words(s) = << >>
    BY <1>2 DEF Xml!Words, Solid
  <2> QED
    BY <2>1, <2>2, <2>3, <2>4 DEF Xml!trimwhitespace
<1>3. CASE Solid(s) # {}
  <2>1. Xml!FirstKept(s) = Xml!Min(Solid(s)) /\ Xml!LastKept(s) = Xml!Max(Solid(s))
    BY <1>3, Kept
  <2>2. Xml!Words(s) = SubSeq(s, Xml!Min(Solid(s)), Xml!Max(Solid(s)))
    BY <1>3 DEF Xml!Words, Solid
  <2> QED
    BY <2>1, <2>2 DEF Xml!trimwhitespace
<1> QED
  BY <1>2, <1>3

LEMMA WordsTyped == ASSUME NEW s \in Seq(Chars) PROVE Xml!Words(s) \in Seq(Chars)
<1>1. CASE Solid(s) = {}
  <2>1. Xml!Words(s) = << >>
    BY <1>1 DEF Xml!Words, Solid
  <2> QED
    BY <2>1, EmptySeq
<1>2. CASE Solid(s) # {}
  <2> DEFINE a == Xml!Min(Solid(s))
             b == Xml!Max(Solid(s))
  <2>1. Xml!Words(s) = SubSeq(s, a, b)
    BY <1>2 DEF Xml!Words, Solid
  <2>2. a \in Solid(s) /\ b \in Solid(s)
    BY <1>2, Kept
  <2> HIDE DEF a, b
  <2>3. a \in 1 .. Len(s) /\ b \in 1 .. Len(s) /\ Len(s) \in Nat
    BY <2>2, LenProperties DEF Solid
  <2>4. \A i \in a .. b : s[i] \in Chars
    <3>1. \A i \in a .. b : i \in 1 .. Len(s)
      BY <2>3
    <3> QED
      BY <3>1, ElementOfSeq
  <2>5. a \in Int /\ b \in Int
    BY <2>3
  <2> QED
    BY <2>1, <2>4, <2>5, SubSeqProperties
<1> QED
  BY <1>1, <1>2

(* What is read of a string that begins with a character other than a      *)
(* blank: it goes up to the last such character.                           *)
LEMMA WordsFromStart ==
    ASSUME NEW s \in Seq(Chars), NEW k \in 1 .. Len(s), s[1] # Xml!Blank,
           s[k] # Xml!Blank, \A i \in 1 .. Len(s) : s[i] # Xml!Blank => i <= k
    PROVE  Xml!Words(s) = SubSeq(s, 1, k)
<1>1. Len(s) \in Nat /\ k \in Nat /\ 1 \in 1 .. Len(s)
  BY LenProperties
<1>2. Solid(s) \in SUBSET Nat /\ 1 \in Solid(s) /\ k \in Solid(s)
  BY <1>1 DEF Solid
<1>3. (\A y \in Solid(s) : 1 <= y) /\ (\A y \in Solid(s) : y <= k)
  BY <1>1 DEF Solid
<1>4. Xml!Min(Solid(s)) = 1 /\ Xml!Max(Solid(s)) = k
  BY <1>2, <1>3, MinIs, MaxIs
<1> QED
  BY <1>2, <1>4 DEF Xml!Words, Solid

(* The string that a buffer of size c and more begins with.                *)
LEMMA StringWithin ==
    ASSUME NEW m \in Seq(Memory), NEW c \in Nat, c <= Len(m), \A i \in 1 .. c : m[i] # "0"
    PROVE  /\ Xml!StringOf(m) \in Seq(Chars) /\ c <= Len(Xml!StringOf(m))
           /\ \A i \in 1 .. c : Xml!StringOf(m)[i] = m[i]
<1> DEFINE ends == {i \in 1 .. Len(m) : m[i] = "0"}
<1>1. Len(m) \in Nat
  BY LenProperties
<1>2. \A i \in 1 .. Len(m) : i \notin ends => m[i] \in Chars
  BY ElementOfSeq DEF Memory
<1>3. CASE ends = {}
  <2>1. \A i \in 1 .. Len(m) : m[i] \in Chars
    BY <1>2, <1>3
  <2>2. m \in [1 .. Len(m) -> Chars]
    BY <2>1, LenProperties
  <2>3. m \in Seq(Chars)
    BY <1>1, <2>2
  <2>4. Xml!StringOf(m) = m
    BY <1>3 DEF Xml!StringOf
  <2> QED
    BY <2>3, <2>4
<1>4. CASE ends # {}
  <2> DEFINE e == Xml!Min(ends)
  <2>1. ends \in SUBSET Nat
    OBVIOUS
  <2>2. e \in ends /\ \A y \in ends : e <= y
    <3> HIDE DEF ends
    <3> QED
      BY <1>4, <2>1, MinThere
  <2>3. Xml!StringOf(m) = SubSeq(m, 1, e - 1)
    BY <1>4 DEF Xml!StringOf
  <2>4. e \in 1 .. Len(m) /\ m[e] = "0"
    BY <2>2
  <2> HIDE DEF e
  <2>5. e - 1 \in Nat /\ e - 1 <= Len(m) /\ c <= e - 1
    BY <1>1, <2>4
  <2>6. \A i \in 1 .. e - 1 : m[i] \in Chars
    <3> TAKE i \in 1 .. e - 1
    <3>1. i \in 1 .. Len(m) /\ ~(e <= i)
      BY <1>1, <2>4
    <3> QED
      BY <1>2, <2>2, <3>1
  <2>7. /\ Len(SubSeq(m, 1, e - 1)) = e - 1
        /\ \A i \in 1 .. e - 1 : SubSeq(m, 1, e - 1)[i] = m[i]
    BY <2>5, FirstOnes
  <2>8. SubSeq(m, 1, e - 1) \in Seq(Chars)
    <3>1. 1 \in Int /\ e - 1 \in Int
      BY <2>5
    <3> QED
      BY <2>6, <3>1, SubSeqProperties
  <2>9. \A i \in 1 .. c : i \in 1 .. e - 1
    BY <2>5
  <2> QED
    BY <2>3, <2>5, <2>7, <2>8, <2>9
<1> QED
  BY <1>3, <1>4

\* A buffer whose share c takes v with its end.
LEMMA ShortBuffer ==
    ASSUME NEW m \in Seq(Memory), NEW v \in Seq(Chars), NEW c \in Nat, c < Len(m), Len(v) < c,
           \A i \in 1 .. c : m[i] = IF i <= Len(v) THEN v[i] ELSE "0"
    PROVE  Xml!StringOf(m) = v
<1>1. Len(m) \in Nat /\ Len(v) \in Nat
  BY LenProperties
<1>2. Len(v) + 1 \in 1 .. c /\ ~(Len(v) + 1 <= Len(v)) /\ Len(v) < Len(m) /\ Len(v) <= Len(m)
  BY <1>1
<1>3. \A i \in 1 .. Len(v) : i \in 1 .. c /\ i <= Len(v)
  BY <1>1
<1>4. m[Len(v) + 1] = "0" /\ \A i \in 1 .. Len(v) : m[i] = v[i]
  BY <1>2, <1>3
<1>5. \A i \in 1 .. Len(v) : v[i] # "0" /\ v[i] \in Memory
  BY ElementOfSeq, NoEndInChars
<1>6. Xml!StringOf(m) = SubSeq(m, 1, Len(v))
  <2>1. \A i \in 1 .. Len(v) : m[i] # "0"
    BY <1>4, <1>5
  <2> QED
    BY <1>1, <1>2, <1>4, <2>1, StringOfIs
<1>7. v \in Seq(Memory)
  <2>1. v \in [1 .. Len(v) -> Memory]
    BY <1>5, LenProperties
  <2> QED
    BY <1>1, <2>1
<1>8. SubSeq(m, 1, Len(v)) = SubSeq(v, 1, Len(v))
  <2>1. Len(v) <= Len(v)
    BY <1>1
  <2> QED
    BY <1>1, <1>2, <1>4, <1>7, <2>1, SameStart
<1> QED
  BY <1>6, <1>8, SubSeqFull

(* A longer value v: what is read of the string t agrees with it in the    *)
(* first n characters, and n fit the field.                                *)
LEMMA LongValue ==
    ASSUME NEW t \in Seq(Chars), NEW v \in Seq(Chars), NEW n \in Nat,
           1 <= n, n <= Len(t), n <= Len(v), \A i \in 1 .. n : t[i] = v[i], v[1] # Xml!Blank
    PROVE  Xml!Start(Xml!Words(t), n) \in {Xml!Start(v, n), Xml!Words(Xml!Start(v, n))}
<1> DEFINE u == SubSeq(v, 1, n)
           k == Xml!Max(Solid(t))
<1>1. Len(t) \in Nat /\ Len(v) \in Nat /\ 1 \in 1 .. n /\ 1 \in 1 .. Len(t)
  BY LenProperties
<1>2. Xml!Start(v, n) = u
  <2>1. CASE Len(v) <= n
    <3>1. Len(v) = n
      BY <1>1, <2>1
    <3> QED
      BY <2>1, <3>1, SubSeqFull DEF Xml!Start
  <2>2. CASE ~(Len(v) <= n)
    BY <2>2 DEF Xml!Start
  <2> QED
    BY <2>1, <2>2
<1>3. u \in Seq(Chars) /\ Len(u) = n /\ \A i \in 1 .. n : u[i] = v[i]
  BY FirstOnes
<1>4. 1 \in Solid(t)
  BY <1>1 DEF Solid
<1>5. k \in Solid(t) /\ \A y \in Solid(t) : y <= k
  BY <1>4, Kept
<1> HIDE DEF k, u
<1>6. k \in 1 .. Len(t) /\ t[k] # Xml!Blank /\ t[1] # Xml!Blank /\ k \in Nat /\ k <= Len(t)
  BY <1>1, <1>4, <1>5 DEF Solid
<1>7. \A i \in 1 .. Len(t) : t[i] # Xml!Blank => i <= k
  BY <1>5 DEF Solid
<1>8. Xml!Words(t) = SubSeq(t, 1, k)
  BY <1>6, <1>7, WordsFromStart
<1> DEFINE w == SubSeq(t, 1, k)
<1>9. w \in Seq(Chars) /\ Len(w) = k /\ \A i \in 1 .. k : w[i] = t[i]
  BY <1>6, FirstOnes
<1>10. SubSeq(t, 1, n) = u
  BY SameStart DEF u
<1>11. CASE n < k
  <2>1. \A i \in 1 .. n : i \in 1 .. k
    BY <1>6, <1>11
  <2>2. n <= k
    BY <1>6, <1>11
  <2> HIDE DEF w
  <2>3. SubSeq(w, 1, n) = SubSeq(t, 1, n)
    BY <1>9, <2>1, <2>2, SameStart
  <2>4. ~(Len(w) <= n)
    BY <1>6, <1>9, <1>11
  <2>5. Xml!Start(w, n) = SubSeq(w, 1, n)
    BY <2>4 DEF Xml!Start
  <2> QED
    BY <1>2, <1>8, <1>10, <2>3, <2>5 DEF w
<1>12. CASE n = k
  <2>1. Len(w) <= n
    BY <1>6, <1>9, <1>12
  <2>2. Xml!Start(w, n) = w
    BY <2>1 DEF Xml!Start
  <2> QED
    BY <1>2, <1>8, <1>10, <1>12, <2>2
<1>13. CASE k < n
  <2>1. k \in 1 .. n /\ k <= n /\ \A i \in 1 .. k : i \in 1 .. n
    BY <1>6, <1>13
  <2>2. Xml!Start(w, n) = w
    <3>1. Len(w) <= n
      BY <1>9, <2>1
    <3> QED
      BY <3>1 DEF Xml!Start
  <2>3. u[1] # Xml!Blank /\ u[k] # Xml!Blank
    BY <1>1, <1>3, <1>6, <2>1
  <2>4. \A i \in 1 .. n : i \in 1 .. Len(t)
    BY <1>1
  <2>5. \A i \in 1 .. n : u[i] # Xml!Blank => i <= k
    BY <1>3, <1>7, <2>4
  <2>6. Xml!Words(u) = SubSeq(u, 1, k)
    BY <1>3, <2>1, <2>3, <2>5, WordsFromStart
  <2>7. \A i \in 1 .. k : u[i] = t[i]
    BY <1>3, <2>1
  <2>8. SubSeq(u, 1, k) = SubSeq(t, 1, k)
    BY <1>3, <1>6, <2>1, <2>7, SameStart
  <2> QED
    BY <1>2, <1>8, <2>2, <2>6, <2>8
<1>14. n < k \/ n = k \/ k < n
  BY <1>6
<1> QED
  BY <1>11, <1>12, <1>13, <1>14

\* A string ends before the first "0".
LEMMA StringEnds ==
    ASSUME NEW m \in Seq(Memory), NEW j \in 1 .. Len(m), m[j] = "0"
    PROVE  Len(Xml!StringOf(m)) < j
<1> DEFINE ends == {i \in 1 .. Len(m) : m[i] = "0"}
           e == Xml!Min(ends)
<1>1. Len(m) \in Nat
  BY LenProperties
<1>2. j \in ends /\ ends \in SUBSET Nat
  OBVIOUS
<1>3. e \in ends /\ e <= j
  <2> HIDE DEF ends
  <2> QED
    BY <1>2, MinThere
<1>4. Xml!StringOf(m) = SubSeq(m, 1, e - 1)
  BY <1>2 DEF Xml!StringOf
<1>5. e \in Nat /\ e - 1 \in Nat /\ e - 1 <= Len(m) /\ j \in Nat
  BY <1>1, <1>3
<1> HIDE DEF e, ends
<1>6. Len(SubSeq(m, 1, e - 1)) = e - 1
  BY <1>5, FirstOnes
<1> QED
  BY <1>3, <1>4, <1>5, <1>6

\* The last character that is not a blank is in the string.
LEMMA LastKeptIn ==
    ASSUME NEW s \in Seq(Chars)
    PROVE  Xml!LastKept(s) \in 0 .. Len(s)
<1>1. Len(s) \in Nat
  BY LenProperties
<1>2. CASE Solid(s) = {}
  <2>1. Xml!LastKept(s) = Xml!Max({0})
    <3>1. Solid(s) \cup {0} = {0}
      BY <1>2
    <3> QED
      BY <3>1 DEF Xml!LastKept, Solid
  <2>2. Xml!Max({0}) = 0
    BY MaxIs
  <2> QED
    BY <1>1, <2>1, <2>2
<1>3. CASE Solid(s) # {}
  <2>1. Xml!LastKept(s) \in Solid(s)
    BY <1>3, Kept
  <2> QED
    BY <1>1, <2>1 DEF Solid
<1> QED
  BY <1>2, <1>3

(* The memory is as it was until the string is read; then it has the value *)
(* in it with a new end, and the field has the words of the string there.  *)
Copy ==
    [i \in 1 .. Xml!StackSize |-> IF i > Xml!Copied THEN before[i]
                                  ELSE IF i <= Len(value) THEN value[i] ELSE "0"]

Filled(w) ==
    [i \in 1 .. size |-> IF i = size THEN str[size] ELSE IF i <= Len(w) THEN w[i] ELSE "0"]

XmlInv ==
    /\ which \in {"element", "attribute"}
    /\ size \in FieldSizes
    /\ there \in BOOLEAN
    /\ value \in Seq(Xml!Chars)
    /\ stack \in [1 .. Xml!StackSize -> Memory]
    /\ before \in [1 .. Xml!StackSize -> Memory]
    /\ str \in [1 .. size -> Memory]
    /\ done \in BOOLEAN
    /\ ~done \/ ~there => stack = before
    /\ done /\ there => /\ stack = Xml!Terminated(Copy)
                        /\ str = Filled(Xml!Words(Xml!StringOf(Copy)))
    /\ done /\ ~there => str[1] = "0"

LEMMA CopiedBound ==
    ASSUME XmlInv
    PROVE  /\ Xml!Copied \in Nat /\ size \in Nat /\ size >= 2 /\ BufferSize \in Nat
           /\ size - 1 \in Nat /\ 1 <= size - 1 /\ size - 1 <= Xml!Copied
           /\ Xml!Copied < BufferSize /\ Xml!StackSize \in Nat /\ BufferSize < Xml!StackSize
<1>1. size \in 2 .. BufferSize /\ BufferSize \in Nat /\ Beyond \in Nat \ {0}
  BY ReadStringAssumption DEF Xml!Parameters, XmlInv
<1>2. Xml!Copied = size - 1 \/ Xml!Copied = BufferSize - 1
  BY DEF Xml!Copied
<1>3. Xml!StackSize = BufferSize + Beyond
  BY DEF Xml!StackSize
<1> HIDE DEF XmlInv
<1> QED
  BY <1>1, <1>2, <1>3

LEMMA CopyTyped ==
    ASSUME XmlInv
    PROVE  /\ value \in Seq(Chars) /\ Len(value) \in Nat
           /\ Copy \in [1 .. Xml!StackSize -> Memory]
           /\ Copy \in Seq(Memory) /\ Len(Copy) = Xml!StackSize
           /\ \A i \in 1 .. Xml!Copied :
                 Copy[i] = IF i <= Len(value) THEN value[i] ELSE "0"
           /\ \A i \in 1 .. Xml!StackSize : i > Xml!Copied => Copy[i] = before[i]
<1> DEFINE c == Xml!Copied
           n == Xml!StackSize
<1>1. c \in Nat /\ n \in Nat /\ c < n
  <2>1. c \in Nat /\ n \in Nat /\ c < BufferSize /\ BufferSize < n /\ BufferSize \in Nat
    BY CopiedBound
  <2> HIDE DEF c, n
  <2> QED
    BY <2>1
<1>2. Len(value) \in Nat /\ \A i \in 1 .. Len(value) : value[i] \in Chars
  BY ElementOfSeq, LenProperties, NoEndInChars DEF XmlInv
<1>3. value \in Seq(Chars)
  <2>1. value \in [1 .. Len(value) -> Chars]
    BY <1>2, LenProperties DEF XmlInv
  <2> QED
    BY <1>2, <2>1
<1>4. Copy = [i \in 1 .. n |-> IF i > c THEN before[i]
                               ELSE IF i <= Len(value) THEN value[i] ELSE "0"]
  BY DEF Copy
<1>5. \A i \in 1 .. n : before[i] \in Memory
  BY DEF XmlInv
<1> HIDE DEF c, n, XmlInv
<1>6. \A i \in 1 .. n : Copy[i] \in Memory
  <2> TAKE i \in 1 .. n
  <2>1. CASE i > c
    BY <1>4, <1>5, <2>1
  <2>2. CASE ~(i > c) /\ i <= Len(value)
    <3>1. i \in 1 .. Len(value) /\ Copy[i] = value[i]
      BY <1>2, <1>4, <2>2
    <3> QED
      BY <1>2, <3>1, NoEndInChars
  <2>3. CASE ~(i > c) /\ ~(i <= Len(value))
    BY <1>4, <2>3 DEF Memory
  <2> QED
    BY <2>1, <2>2, <2>3
<1>7. Copy \in [1 .. n -> Memory]
  BY <1>4, <1>6
<1>8. Copy \in Seq(Memory) /\ Len(Copy) = n
  BY <1>1, <1>7
<1>9. \A i \in 1 .. c : i \in 1 .. n /\ ~(i > c)
  BY <1>1
<1>10. \A i \in 1 .. c : Copy[i] = IF i <= Len(value) THEN value[i] ELSE "0"
  BY <1>4, <1>9
<1>11. \A i \in 1 .. n : i > c => Copy[i] = before[i]
  BY <1>4
<1> QED
  BY <1>2, <1>3, <1>7, <1>8, <1>10, <1>11 DEF c, n

\* The string in the buffer is one of characters, whatever the value.
LEMMA StringTyped == ASSUME XmlInv PROVE Xml!StringOf(Copy) \in Seq(Chars)
<1>1. Copy \in Seq(Memory) /\ Len(Copy) \in Nat
  BY CopyTyped, LenProperties
<1>2. 0 \in Nat /\ 0 <= Len(Copy) /\ \A i \in 1 .. 0 : Copy[i] # "0"
  BY <1>1
<1> QED
  BY <1>1, <1>2, StringWithin

LEMMA XmlInvInit == ASSUME Xml!Init PROVE XmlInv
<1>1. value \in Seq(Xml!Chars)
  <2>1. CASE ~there
    BY <2>1, EmptySeq DEF Xml!Init
  <2>2. CASE there
    <3>1. PICK len \in 0 .. MaxLen : value \in [1 .. len -> Xml!Chars]
      BY <2>2 DEF Xml!Init, Xml!Texts
    <3>2. len \in Nat
      BY <3>1, ReadStringAssumption DEF Xml!Parameters
    <3> QED
      BY <3>1, <3>2
  <2> QED
    BY <2>1, <2>2
<1>2. stack \in [1 .. Xml!StackSize -> Memory] /\ before = stack
  <2>1. Xml!Places = Memory
    BY DEF Xml!Places, Memory, Chars
  <2>2. stack \in Stacks /\ before = stack
    BY DEF Xml!Init
  <2> QED
    BY <2>1, <2>2, ReadStringAssumption DEF Xml!Parameters
<1>3. str \in [1 .. size -> Memory]
  <2>1. PICK ch \in {"0", "?"} : str = [i \in 1 .. size |-> ch]
    BY DEF Xml!Init
  <2>2. ch \in Memory
    BY DEF Memory, Chars
  <2> QED
    BY <2>1, <2>2
<1> QED
  BY <1>1, <1>2, <1>3 DEF XmlInv, Xml!Init

\* The new end is one of memory too.
LEMMA TerminatedTyped ==
    ASSUME NEW n \in Nat, NEW m \in [1 .. n -> Memory]
    PROVE  Xml!Terminated(m) \in [1 .. n -> Memory]
<1>1. m \in Seq(Memory) /\ Len(m) = n
  OBVIOUS
<1>2. "0" \in Memory
  BY DEF Memory
<1> QED
  BY <1>1, <1>2 DEF Xml!Terminated

LEMMA ReadStringInv == ASSUME XmlInv, Xml!read_string PROVE XmlInv'
<1> DEFINE w == Xml!Words(Xml!StringOf(Copy))
<1>1. /\ ~done /\ there /\ done' = TRUE /\ UNCHANGED <<which, size, there, value, before>>
      /\ stack' = Xml!Terminated(Xml!Buffered)
      /\ str' = Xml!Field(Xml!trimwhitespace(Xml!StringOf(Xml!Buffered)))
  BY DEF Xml!read_string
<1>2. Xml!Buffered = Copy
  BY <1>1 DEF XmlInv, Xml!Buffered, Copy
<1>3. w \in Seq(Chars) /\ Xml!trimwhitespace(Xml!StringOf(Copy)) = w
  BY StringTyped, TrimTakesWords, WordsTyped
<1>4. str' = Filled(w)
  <2>1. str' = Xml!Field(w)
    BY <1>1, <1>2, <1>3
  <2> HIDE DEF w
  <2> QED
    BY <2>1 DEF Xml!Field, Filled
<1>5. Xml!StackSize \in Nat /\ size \in Nat /\ size >= 2
  BY CopiedBound
<1>6. stack' \in [1 .. Xml!StackSize -> Memory]
  BY <1>1, <1>2, <1>5, CopyTyped, TerminatedTyped
<1>7. size \in 1 .. size /\ str[size] \in Memory
  BY <1>5 DEF XmlInv
<1>8. str' \in [1 .. size -> Memory]
  <2> HIDE DEF w
  <2> QED
    BY <1>3, <1>4, <1>5, <1>7, FieldTyped DEF Filled
<1>9. Copy' = Copy
  BY <1>1 DEF Copy, Xml!StackSize, Xml!Copied
<1>10. str'[size] = str[size]
  BY <1>4, <1>7 DEF Filled
<1>11. str' = Filled(w)'
  <2>1. w' = w
    BY <1>9 DEF Xml!Words, Xml!StringOf
  <2> HIDE DEF w
  <2> QED
    BY <1>1, <1>4, <1>10, <2>1 DEF Filled
<1>12. stack' = Xml!Terminated(Copy)'
  <2>1. Xml!Terminated(Copy)' = Xml!Terminated(Copy)
    BY <1>9 DEF Xml!Terminated, Xml!LastKept, Xml!StringOf
  <2> QED
    BY <1>1, <1>2, <2>1
<1> QED
  BY <1>1, <1>6, <1>8, <1>11, <1>12 DEF XmlInv, Xml!StackSize

LEMMA ReadAbsentInv == ASSUME XmlInv, Xml!read_absent PROVE XmlInv'
<1>1. /\ ~done /\ ~there /\ done' = TRUE /\ str' = [str EXCEPT ![1] = "0"]
      /\ UNCHANGED <<which, size, there, value, stack, before>>
  BY DEF Xml!read_absent
<1>2. 1 \in 1 .. size /\ "0" \in Memory
  BY CopiedBound DEF Memory
<1>3. str' \in [1 .. size -> Memory] /\ str'[1] = "0"
  BY <1>1, <1>2 DEF XmlInv
<1> QED
  BY <1>1, <1>3 DEF XmlInv, Xml!StackSize

LEMMA XmlInvStep == ASSUME XmlInv, [Xml!Next]_(Xml!vars) PROVE XmlInv'
<1>1. CASE Xml!read_string
  BY <1>1, ReadStringInv
<1>2. CASE Xml!read_absent
  BY <1>2, ReadAbsentInv
<1>3. CASE UNCHANGED Xml!vars
  <2>1. UNCHANGED <<which, size, there, value, stack, before, str, done>>
    BY <1>3 DEF Xml!vars
  <2>2. Copy' = Copy
    BY <2>1 DEF Copy, Xml!StackSize, Xml!Copied
  <2>3. Xml!Terminated(Copy)' = Xml!Terminated(Copy)
    BY <2>2 DEF Xml!Terminated, Xml!LastKept, Xml!StringOf
  <2>4. Xml!Words(Xml!StringOf(Copy))' = Xml!Words(Xml!StringOf(Copy))
    BY <2>2 DEF Xml!Words, Xml!StringOf
  <2>5. Filled(Xml!Words(Xml!StringOf(Copy)))' = Filled(Xml!Words(Xml!StringOf(Copy)))
    BY <2>1, <2>4 DEF Filled
  <2> QED
    BY <2>1, <2>3, <2>5 DEF XmlInv, Xml!StackSize
<1> QED
  BY <1>1, <1>2, <1>3 DEF Xml!Next

LEMMA XmlInvariant == Xml!Spec => []XmlInv
<1>1. Xml!Init => XmlInv
  BY XmlInvInit
<1>2. XmlInv /\ [Xml!Next]_(Xml!vars) => XmlInv'
  BY XmlInvStep
<1> QED
  BY <1>1, <1>2, PTL DEF Xml!Spec

(* Every variable of the reading of a string keeps its type. *)
LEMMA XmlTypeCorrect == Xml!Spec => []Xml!TypeOK
<1>1. Xml!Places = Memory
  BY DEF Xml!Places, Memory, Chars
<1>2. XmlInv => Xml!TypeOK
  BY <1>1 DEF XmlInv, Xml!TypeOK
<1> QED
  BY <1>2, XmlInvariant, PTL

\* What the field reads as, once it holds what fits of w.
LEMMA FieldReads ==
    ASSUME XmlInv, NEW w \in Seq(Chars), str = Filled(w)
    PROVE  Xml!Reads(Xml!Start(w, size - 1))
<1>1. size \in Nat /\ size >= 2 /\ size - 1 \in Nat
  BY CopiedBound
<1>2. str[size] \in Memory
  <2>1. size \in 1 .. size
    BY <1>1
  <2> QED
    BY <2>1 DEF XmlInv
<1>3. str = [i \in 1 .. size |-> IF i = size THEN str[size]
                                 ELSE IF i <= Len(w) THEN w[i] ELSE "0"]
  BY DEF Filled
<1>4. Len(w) \in Nat
  BY LenProperties
<1> HIDE DEF XmlInv
<1>5. CASE Len(w) < size - 1 \/ str[size] = "0"
  <2>1. Xml!StringOf(str) = Xml!Start(w, size - 1)
    BY <1>1, <1>2, <1>3, <1>5, FieldRead
  <2>2. Len(w) < size - 1 => Xml!Start(w, size - 1) = w
    BY <1>1, <1>4 DEF Xml!Start
  <2> QED
    BY <1>5, <2>1, <2>2 DEF Xml!Reads
<1>6. CASE ~(Len(w) < size - 1) /\ str[size] # "0"
  <2>1. Xml!Start(Xml!StringOf(str), size - 1) = Xml!Start(w, size - 1)
    BY <1>1, <1>2, <1>3, <1>6, FieldBegins
  <2>2. ~(Len(Xml!Start(w, size - 1)) < size - 1)
    <3>1. CASE Len(w) <= size - 1
      BY <1>6, <3>1 DEF Xml!Start
    <3>2. CASE ~(Len(w) <= size - 1)
      <4>1. size - 1 <= Len(w)
        BY <1>1, <1>4, <3>2
      <4>2. Len(SubSeq(w, 1, size - 1)) = size - 1
        BY <1>1, <4>1, FirstOnes
      <4> QED
        BY <1>1, <3>2, <4>2 DEF Xml!Start
    <3> QED
      BY <3>1, <3>2
  <2> QED
    BY <1>6, <2>1, <2>2 DEF Xml!Reads
<1> QED
  BY <1>5, <1>6

LEMMA ReadsAsMeant ==
    ASSUME XmlInv PROVE Xml!ShortIsRead /\ Xml!JunkOnlyAfterBlanks
<1> SUFFICES ASSUME done, there PROVE
        /\ Len(value) < Xml!Copied => Xml!Reads(Xml!Start(Xml!Words(value), size - 1))
        /\ Len(value) >= Xml!Copied /\ value[1] # Xml!Blank =>
              \/ Xml!Reads(Xml!Start(value, size - 1))
              \/ Xml!Reads(Xml!Words(Xml!Start(value, size - 1)))
  BY DEF Xml!ShortIsRead, Xml!JunkOnlyAfterBlanks
<1> DEFINE t == Xml!StringOf(Copy)
           c == Xml!Copied
<1>1. t \in Seq(Chars) /\ Xml!Words(t) \in Seq(Chars)
  BY StringTyped, WordsTyped
<1>2. Xml!Reads(Xml!Start(Xml!Words(t), size - 1))
  <2>1. str = Filled(Xml!Words(t))
    BY DEF XmlInv
  <2> HIDE DEF t
  <2> QED
    BY <1>1, <2>1, FieldReads
<1>3. c \in Nat /\ size - 1 \in Nat /\ 1 <= size - 1 /\ size - 1 <= c /\ c < Xml!StackSize
  <2>1. /\ c \in Nat /\ size - 1 \in Nat /\ 1 <= size - 1 /\ size - 1 <= c
        /\ c < BufferSize /\ BufferSize < Xml!StackSize /\ BufferSize \in Nat /\ Xml!StackSize \in Nat
    BY CopiedBound
  <2> HIDE DEF c
  <2> QED
    BY <2>1
<1>4. /\ value \in Seq(Chars) /\ Len(value) \in Nat
      /\ Copy \in Seq(Memory) /\ Len(Copy) = Xml!StackSize
      /\ \A i \in 1 .. c : Copy[i] = IF i <= Len(value) THEN value[i] ELSE "0"
  BY CopyTyped
<1> HIDE DEF c, XmlInv
<1>5. CASE Len(value) < c
  <2>1. t = value
    BY <1>3, <1>4, <1>5, ShortBuffer
  <2>2. ~(Len(value) >= c)
    BY <1>3, <1>4, <1>5
  <2> HIDE DEF t
  <2> QED
    BY <1>2, <2>1, <2>2 DEF c
<1>6. CASE Len(value) >= c /\ value[1] # Xml!Blank
  <2>1. \A i \in 1 .. c : i <= Len(value) /\ i \in 1 .. Len(value)
    BY <1>3, <1>4, <1>6
  <2>2. \A i \in 1 .. c : Copy[i] = value[i] /\ value[i] # "0"
    BY <1>4, <2>1, ElementOfSeq, NoEndInChars
  <2>3. c <= Len(Copy)
    <3>1. Len(Copy) \in Nat
      BY <1>4, LenProperties
    <3> QED
      BY <1>3, <1>4, <3>1
  <2>4. c <= Len(t) /\ \A i \in 1 .. c : t[i] = Copy[i]
    BY <1>3, <1>4, <2>2, <2>3, StringWithin
  <2> HIDE DEF t
  <2>5. Len(t) \in Nat
    BY <1>1, LenProperties
  <2>6. \A i \in 1 .. size - 1 : i \in 1 .. c
    BY <1>3
  <2>7. size - 1 <= Len(t) /\ size - 1 <= Len(value) /\ \A i \in 1 .. size - 1 : t[i] = value[i]
    BY <1>3, <1>4, <1>6, <2>2, <2>4, <2>5, <2>6
  <2>8. Xml!Start(Xml!Words(t), size - 1) \in
            {Xml!Start(value, size - 1), Xml!Words(Xml!Start(value, size - 1))}
    BY <1>1, <1>3, <1>4, <1>6, <2>7, LongValue
  <2>9. ~(Len(value) < c)
    BY <1>3, <1>4, <1>6
  <2> QED
    BY <1>2, <2>8, <2>9 DEF c
<1> QED
  BY <1>3, <1>4, <1>5, <1>6 DEF c

LEMMA WritesInside == ASSUME XmlInv PROVE Xml!WrittenBehindOnlyUnended
<1> SUFFICES ASSUME done, NEW i \in BufferSize + 1 .. Xml!StackSize, stack[i] # before[i]
             PROVE  /\ ~(Len(value) < Xml!Copied)
                    /\ \A j \in Xml!Copied + 1 .. BufferSize : before[j] # "0"
  <2>1. Len(value) \in Nat /\ Xml!Copied \in Nat
    BY CopiedBound, CopyTyped
  <2>2. ~(Len(value) < Xml!Copied) => Len(value) >= Xml!Copied
    BY <2>1
  <2> QED
    BY <2>2 DEF Xml!WrittenBehindOnlyUnended
<1> DEFINE t == Xml!StringOf(Copy)
           c == Xml!Copied
           n == Xml!StackSize
<1>1. c \in Nat /\ BufferSize \in Nat /\ n \in Nat /\ 1 <= c /\ c < BufferSize /\ BufferSize < n
  <2>1. /\ c \in Nat /\ BufferSize \in Nat /\ n \in Nat /\ c < BufferSize /\ BufferSize < n
        /\ size - 1 \in Nat /\ 1 <= size - 1 /\ size - 1 <= c
    BY CopiedBound
  <2> HIDE DEF c, n
  <2> QED
    BY <2>1
<1>2. /\ Len(value) \in Nat /\ Copy \in Seq(Memory) /\ Len(Copy) = n
      /\ \A k \in 1 .. c : Copy[k] = IF k <= Len(value) THEN value[k] ELSE "0"
      /\ \A k \in 1 .. n : k > c => Copy[k] = before[k]
  BY CopyTyped
<1>3. stack = Xml!Terminated(Copy)
  BY DEF XmlInv
<1>4. t \in Seq(Chars)
  BY StringTyped
<1> HIDE DEF XmlInv, c, n
<1>5. i \in 1 .. n /\ i > c /\ i - 1 >= BufferSize
  <2>1. i \in BufferSize + 1 .. n
    BY DEF n
  <2> QED
    BY <1>1, <2>1
<1>6. Xml!LastKept(t) = i - 1
  <2>1. Copy[i] = before[i]
    BY <1>2, <1>5
  <2>2. stack[i] = IF Xml!LastKept(t) = i - 1 /\ i > 1 THEN "0" ELSE Copy[i]
    BY <1>2, <1>3, <1>5 DEF Xml!Terminated
  <2> HIDE DEF t
  <2> QED
    BY <2>1, <2>2
<1>7. Len(t) \in Nat /\ BufferSize <= Len(t)
  <2>1. Xml!LastKept(t) \in 0 .. Len(t) /\ Len(t) \in Nat
    BY <1>4, LastKeptIn, LenProperties
  <2> HIDE DEF t
  <2> QED
    BY <1>1, <1>5, <1>6, <2>1
<1>8. \A j \in 1 .. n : j <= BufferSize => Copy[j] # "0"
  <2> SUFFICES ASSUME NEW j \in 1 .. n, j <= BufferSize, Copy[j] = "0" PROVE FALSE
    OBVIOUS
  <2>1. Len(t) < j
    BY <1>2, StringEnds
  <2> HIDE DEF t
  <2> QED
    BY <1>1, <1>7, <2>1
<1>9. ~(Len(value) < c)
  <2> SUFFICES ASSUME Len(value) < c PROVE FALSE
    OBVIOUS
  <2>1. /\ Len(value) + 1 \in 1 .. c /\ ~(Len(value) + 1 <= Len(value))
        /\ Len(value) + 1 \in 1 .. n /\ Len(value) + 1 <= BufferSize
    BY <1>1, <1>2
  <2> QED
    BY <1>2, <1>8, <2>1
<1>10. \A j \in c + 1 .. BufferSize : before[j] # "0"
  <2> TAKE j \in c + 1 .. BufferSize
  <2>1. j \in 1 .. n /\ j > c /\ j <= BufferSize
    BY <1>1
  <2> QED
    BY <1>2, <1>8, <2>1
<1> QED
  BY <1>9, <1>10 DEF c

LEMMA EmptyIfAbsent == ASSUME XmlInv PROVE Xml!AbsentIsEmpty
<1> SUFFICES ASSUME done, ~there PROVE Xml!StringOf(str) = << >>
  BY DEF Xml!AbsentIsEmpty
<1>1. size \in Nat /\ size >= 2
  BY CopiedBound
<1>2. str \in [1 .. size -> Memory] /\ str[1] = "0"
  BY DEF XmlInv
<1>3. str \in Seq(Memory) /\ Len(str) = size
  BY <1>1, <1>2
<1>4. Xml!StringOf(str) = SubSeq(str, 1, 0)
  <2>1. 0 \in Nat /\ 0 < Len(str) /\ 0 + 1 = 1 /\ \A i \in 1 .. 0 : str[i] # "0"
    BY <1>1, <1>3
  <2> QED
    BY <1>2, <1>3, <2>1, StringOfIs
<1>5. 1 \in Int /\ 0 \in Int /\ 0 < 1
  OBVIOUS
<1> QED
  BY <1>4, <1>5, SubSeqEmpty

(* For any value and any sizes of field and buffer, the longest field as   *)
(* long as the buffer: values that fit with their end are read as they are *)
(* meant; what the stack held before gets into the copied part of a field  *)
(* only after blanks in front of a longer value; a field that was zeroed   *)
(* ends; and trimwhitespace writes behind the buffer only when that has no *)
(* end of its own.                                                         *)
THEOREM StringsReadAsMeant == Xml!Spec => []StringsAreRead
<1>1. XmlInv => StringsAreRead
  BY ReadsAsMeant, WritesInside, EmptyIfAbsent DEF StringsAreRead
<1> QED
  BY <1>1, XmlInvariant, PTL
=============================================================================
