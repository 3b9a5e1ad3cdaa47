---------------------------- MODULE SocketsProofs ----------------------------
(***************************************************************************)
(* Theorems about the programs that talk over plain sockets: LogSocket,    *)
(* for any number of senders, receivers and messages and sockets of any    *)
(* size, and EvEcho, for any clients, lines and sizes of buffers.          *)
(***************************************************************************)
EXTENDS MCSockets, SequenceTheorems, TLAPS

-----------------------------------------------------------------------------
(* The log sockets.                                                        *)

(* A sender in sendto has a message left to send. *)
SendsTheNext == \A s \in Senders : tx[s].to # None => tx[s].i < Count

(* What was received from a socket or waits there, as a set. *)
Has(r) == ToSet(received[r]) \cup ToSet(queue[r])

(* NothingElseIsMissed, with the streams of the receivers as sets. *)
Accounted ==
    \A s \in Senders : \A n \in 1 .. tx[s].i :
        Message(s, n) \in refused \cup lost \/ \E r \in Receivers : Message(s, n) \in Has(r)

(* The messages of a sender stand in a sequence in the order of their      *)
(* numbers.                                                                *)
InOrder(seq) ==
    \A i, j \in 1 .. Len(seq) :
        i < j /\ seq[i].from = seq[j].from => seq[i].n < seq[j].n

(* Every socket keeps the order; what is in it was sent, and is in no      *)
(* other.                                                                  *)
Ordered ==
    /\ \A r \in Receivers : InOrder(Stream(r))
    /\ \A r \in Receivers : \A m \in Has(r) : m.n <= tx[m.from].i
    /\ \A q, r \in Receivers : q # r => Has(q) \cap Has(r) = {}

IInv == TypeOK /\ SendsTheNext /\ Accounted /\ Ordered

-----------------------------------------------------------------------------
LEMMA ConstantFacts ==
    /\ Count \in Nat /\ Total \in Nat /\ QueueLen \in Nat
    /\ Count > 0 /\ Total > 0 /\ QueueLen > 0 /\ None \notin Receivers
BY LogAssumption

(* Sets of the elements of sequences. *)
LEMMA ToSetAppend ==
    ASSUME NEW S, NEW seq \in Seq(S), NEW e \in S
    PROVE  /\ Append(seq, e) \in Seq(S) /\ Len(Append(seq, e)) = Len(seq) + 1
           /\ ToSet(Append(seq, e)) = ToSet(seq) \cup {e}
<1>1. /\ Append(seq, e) \in Seq(S) /\ Len(seq) \in Nat
      /\ Len(Append(seq, e)) = Len(seq) + 1
      /\ \A i \in 1 .. Len(seq) : Append(seq, e)[i] = seq[i]
      /\ Append(seq, e)[Len(seq) + 1] = e
  BY AppendProperties, LenProperties
<1>2. 1 .. Len(seq) + 1 = (1 .. Len(seq)) \cup {Len(seq) + 1}
  BY <1>1
<1> QED
  BY <1>1, <1>2 DEF ToSet

LEMMA InToSet == ASSUME NEW S, NEW seq \in Seq(S), NEW i \in 1 .. Len(seq) PROVE seq[i] \in ToSet(seq)
BY DEF ToSet

LEMMA ToSetTail ==
    ASSUME NEW S, NEW seq \in Seq(S), seq # << >>
    PROVE  /\ Head(seq) \in S /\ Tail(seq) \in Seq(S) /\ Len(Tail(seq)) = Len(seq) - 1
           /\ ToSet(seq) = {Head(seq)} \cup ToSet(Tail(seq))
<1>1. /\ Tail(seq) \in Seq(S) /\ Len(seq) \in Nat /\ Len(seq) > 0
      /\ Len(Tail(seq)) = Len(seq) - 1
      /\ Head(seq) = seq[1] /\ Head(seq) \in S
      /\ \A i \in 1 .. Len(Tail(seq)) : Tail(seq)[i] = seq[i + 1]
  BY HeadTailProperties, LenProperties, EmptySeq, ElementOfSeq
<1>2. ToSet(seq) \subseteq {Head(seq)} \cup ToSet(Tail(seq))
  <2> SUFFICES ASSUME NEW i \in 1 .. Len(seq) PROVE seq[i] \in {Head(seq)} \cup ToSet(Tail(seq))
    BY DEF ToSet
  <2>1. CASE i = 1
    BY <1>1, <2>1
  <2>2. CASE i # 1
    <3>1. i - 1 \in 1 .. Len(Tail(seq)) /\ Tail(seq)[i - 1] = seq[i]
      BY <1>1, <2>2
    <3>2. Tail(seq)[i - 1] \in ToSet(Tail(seq))
      BY <1>1, <3>1, InToSet
    <3> QED
      BY <3>1, <3>2
  <2> QED
    BY <2>1, <2>2
<1>3. {Head(seq)} \cup ToSet(Tail(seq)) \subseteq ToSet(seq)
  <2>1. \A i \in 1 .. Len(Tail(seq)) : i + 1 \in 1 .. Len(seq)
    BY <1>1
  <2> QED
    BY <1>1, <2>1 DEF ToSet
<1> QED
  BY <1>1, <1>2, <1>3

LEMMA ToSetConcat ==
    ASSUME NEW S, NEW a \in Seq(S), NEW b \in Seq(S)
    PROVE  ToSet(a \o b) = ToSet(a) \cup ToSet(b)
<1>1. /\ Len(a) \in Nat /\ Len(b) \in Nat /\ Len(a \o b) = Len(a) + Len(b)
      /\ \A i \in 1 .. Len(a) + Len(b) :
            (a \o b)[i] = IF i <= Len(a) THEN a[i] ELSE b[i - Len(a)]
  BY LenProperties, ConcatProperties
<1>2. ToSet(a \o b) \subseteq ToSet(a) \cup ToSet(b)
  BY <1>1 DEF ToSet
<1>3. ToSet(a) \subseteq ToSet(a \o b)
  BY <1>1 DEF ToSet
<1>4. ToSet(b) \subseteq ToSet(a \o b)
  <2> SUFFICES ASSUME NEW i \in 1 .. Len(b) PROVE b[i] \in ToSet(a \o b)
    BY DEF ToSet
  <2>1. Len(a) + i \in 1 .. Len(a \o b) /\ (a \o b)[Len(a) + i] = b[i]
    BY <1>1
  <2> QED
    BY <2>1 DEF ToSet
<1> QED
  BY <1>2, <1>3, <1>4

(* One more message, later than all that are there of its sender.          *)
LEMMA AppendInOrder ==
    ASSUME NEW S, NEW seq \in Seq(S), NEW m \in S, InOrder(seq),
           \A e \in ToSet(seq) : e.from = m.from => e.n < m.n
    PROVE  InOrder(Append(seq, m))
<1>1. /\ Len(seq) \in Nat /\ Len(Append(seq, m)) = Len(seq) + 1
      /\ \A i \in 1 .. Len(seq) : Append(seq, m)[i] = seq[i]
      /\ Append(seq, m)[Len(seq) + 1] = m
  BY AppendProperties, LenProperties
<1>2. \A i \in 1 .. Len(seq) : seq[i].from = m.from => seq[i].n < m.n
  BY InToSet
<1>3. 1 .. Len(seq) + 1 = (1 .. Len(seq)) \cup {Len(seq) + 1}
  BY <1>1
<1> QED
  BY <1>1, <1>2, <1>3 DEF InOrder

LEMMA PrefixInOrder ==
    ASSUME NEW S, NEW a \in Seq(S), NEW b \in Seq(S), InOrder(a \o b)
    PROVE  InOrder(a)
<1> DEFINE c == a \o b
<1>1. /\ Len(a) \in Nat /\ Len(b) \in Nat /\ Len(c) = Len(a) + Len(b)
      /\ \A i \in 1 .. Len(a) + Len(b) : c[i] = IF i <= Len(a) THEN a[i] ELSE b[i - Len(a)]
  BY LenProperties, ConcatProperties
<1>2. InOrder(c)
  OBVIOUS
<1> HIDE DEF c
<1>3. \A i \in 1 .. Len(a) : i \in 1 .. Len(c) /\ c[i] = a[i]
  BY <1>1
<1> QED
  BY <1>2, <1>3 DEF InOrder

LEMMA ConcatAppend ==
    ASSUME NEW S, NEW a \in Seq(S), NEW b \in Seq(S), NEW e \in S
    PROVE  a \o Append(b, e) = Append(a \o b, e)
<1>1. <<e>> \in Seq(S)
  OBVIOUS
<1>2. Append(b, e) = b \o <<e>>
  BY AppendIsConcat
<1>3. a \o (b \o <<e>>) = (a \o b) \o <<e>>
  BY <1>1, ConcatAssociative
<1>4. a \o b \in Seq(S)
  BY ConcatProperties
<1>5. Append(a \o b, e) = (a \o b) \o <<e>>
  BY <1>4, AppendIsConcat
<1> QED
  BY <1>2, <1>3, <1>5, Zenon

(* What is received leaves the front of a queue for the end of what was    *)
(* received: together they stay as they were.                              *)
LEMMA ShiftConcat ==
    ASSUME NEW S, NEW a \in Seq(S), NEW b \in Seq(S), b # << >>
    PROVE  Append(a, Head(b)) \o Tail(b) = a \o b
<1> DEFINE c == Append(a, Head(b)) \o Tail(b)
           d == a \o b
<1>1. /\ Len(a) \in Nat /\ Len(b) \in Nat /\ Len(b) > 0
      /\ Head(b) = b[1] /\ Head(b) \in S
      /\ Tail(b) \in Seq(S) /\ Len(Tail(b)) = Len(b) - 1
      /\ \A i \in 1 .. Len(Tail(b)) : Tail(b)[i] = b[i + 1]
  BY HeadTailProperties, LenProperties, EmptySeq, ElementOfSeq
<1>2. /\ Append(a, Head(b)) \in Seq(S) /\ Len(Append(a, Head(b))) = Len(a) + 1
      /\ \A i \in 1 .. Len(a) : Append(a, Head(b))[i] = a[i]
      /\ Append(a, Head(b))[Len(a) + 1] = b[1]
  BY <1>1, AppendProperties
<1>3. /\ c \in Seq(S) /\ Len(c) = Len(a) + 1 + (Len(b) - 1)
      /\ \A i \in 1 .. Len(a) + 1 + (Len(b) - 1) :
            c[i] = IF i <= Len(a) + 1 THEN Append(a, Head(b))[i] ELSE Tail(b)[i - (Len(a) + 1)]
  BY <1>1, <1>2, ConcatProperties
<1>4. /\ d \in Seq(S) /\ Len(d) = Len(a) + Len(b)
      /\ \A i \in 1 .. Len(a) + Len(b) : d[i] = IF i <= Len(a) THEN a[i] ELSE b[i - Len(a)]
  BY <1>1, ConcatProperties
<1> HIDE DEF c, d
<1>5. Len(c) = Len(d)
  BY <1>1, <1>3, <1>4
<1>6. \A i \in 1 .. Len(c) : c[i] = d[i]
  <2> SUFFICES ASSUME NEW i \in 1 .. Len(c) PROVE c[i] = d[i]
    OBVIOUS
  <2>0. i \in 1 .. Len(a) + Len(b) /\ i \in 1 .. Len(a) + 1 + (Len(b) - 1)
    BY <1>1, <1>3
  <2>1. CASE i <= Len(a)
    <3>1. i \in 1 .. Len(a) /\ i <= Len(a) + 1
      BY <1>1, <2>0, <2>1
    <3>2. c[i] = Append(a, Head(b))[i] /\ Append(a, Head(b))[i] = a[i]
      BY <1>2, <1>3, <2>0, <3>1
    <3>3. d[i] = a[i]
      BY <1>4, <2>0, <2>1
    <3> QED
      BY <3>2, <3>3
  <2>2. CASE i = Len(a) + 1
    <3>1. i <= Len(a) + 1 /\ ~(i <= Len(a)) /\ i - Len(a) = 1
      BY <1>1, <2>2
    <3>2. c[i] = Append(a, Head(b))[i]
      BY <1>3, <2>0, <3>1
    <3>3. d[i] = b[i - Len(a)]
      BY <1>4, <2>0, <3>1
    <3> QED
      BY <1>2, <2>2, <3>1, <3>2, <3>3
  <2>3. CASE i > Len(a) + 1
    <3>1. i - (Len(a) + 1) \in 1 .. Len(Tail(b)) /\ i - (Len(a) + 1) + 1 = i - Len(a)
      BY <1>1, <1>3, <2>3
    <3>2. Tail(b)[i - (Len(a) + 1)] = b[i - Len(a)]
      BY <1>1, <3>1
    <3>3. c[i] = Tail(b)[i - (Len(a) + 1)] /\ d[i] = b[i - Len(a)]
      BY <1>1, <1>3, <1>4, <2>3
    <3> QED
      BY <3>2, <3>3
  <2> QED
    BY <1>1, <1>3, <2>1, <2>2, <2>3
<1> QED
  BY <1>3, <1>4, <1>5, <1>6, SeqEqual DEF c, d

(* The streams of the receivers, as sets and as they grow.                 *)
LEMMA StreamTyped ==
    ASSUME TypeOK, NEW r \in Receivers
    PROVE  /\ received[r] \in Seq(Messages) /\ queue[r] \in Seq(Messages)
           /\ Stream(r) \in Seq(Messages) /\ ToSet(Stream(r)) = Has(r)
           /\ Has(r) \subseteq Messages
<1>1. received[r] \in Seq(Messages) /\ queue[r] \in Seq(Messages)
  BY DEF TypeOK
<1>2. Stream(r) \in Seq(Messages) /\ ToSet(Stream(r)) = Has(r)
  BY <1>1, ConcatProperties, ToSetConcat DEF Stream, Has
<1>3. Has(r) \subseteq Messages
  <2>1. \A i \in 1 .. Len(received[r]) : received[r][i] \in Messages
    BY <1>1, ElementOfSeq
  <2>2. \A i \in 1 .. Len(queue[r]) : queue[r][i] \in Messages
    BY <1>1, ElementOfSeq
  <2>3. ToSet(received[r]) \subseteq Messages
    BY <1>1, <2>1 DEF ToSet
  <2>4. ToSet(queue[r]) \subseteq Messages
    BY <1>1, <2>2 DEF ToSet
  <2> QED
    BY <2>3, <2>4 DEF Has
<1> QED
  BY <1>1, <1>2, <1>3

LEMMA OrderedSuffices == IInv => OnceAndInOrder
<1> SUFFICES ASSUME IInv PROVE OnceAndInOrder
  OBVIOUS
<1>1. \A r \in Receivers : ToSet(Stream(r)) = Has(r)
  BY StreamTyped DEF IInv
<1> QED
  BY <1>1 DEF IInv, Ordered, InOrder, OnceAndInOrder

LEMMA AccountedSuffices == IInv => NothingElseIsMissed
<1> SUFFICES ASSUME IInv PROVE NothingElseIsMissed
  OBVIOUS
<1>1. \A r \in Receivers : received[r] \in Seq(Messages) /\ queue[r] \in Seq(Messages)
  BY DEF IInv, TypeOK
<1>2. \A r \in Receivers : ToSet(Stream(r)) = Has(r)
  BY <1>1, ToSetConcat DEF Stream, Has
<1> QED
  BY <1>2 DEF IInv, Accounted, NothingElseIsMissed

-----------------------------------------------------------------------------
LEMMA InitInv == Init => IInv
<1> SUFFICES ASSUME Init PROVE IInv
  OBVIOUS
<1>1. << >> \in Seq(Messages) /\ Len(<< >>) = 0
  BY EmptySeq
<1>2. TypeOK
  BY <1>1, ConstantFacts DEF Init, TypeOK
<1>3. \A s \in Senders : tx[s].i = 0 /\ tx[s].to = None
  BY DEF Init
<1>4. SendsTheNext /\ Accounted
  BY <1>3 DEF SendsTheNext, Accounted
<1>5. Ordered
  <2>1. \A r \in Receivers : received[r] = << >> /\ queue[r] = << >>
    BY DEF Init
  <2>2. << >> \o << >> = << >>
    BY <1>1, ConcatEmptySeq
  <2>3. \A r \in Receivers : InOrder(Stream(r))
    <3>1. InOrder(<< >>)
      BY <1>1 DEF InOrder
    <3>2. \A r \in Receivers : Stream(r) = << >>
      BY <2>1, <2>2 DEF Stream
    <3> QED
      BY <3>1, <3>2
  <2>4. ToSet(<< >>) = {}
    BY <1>1 DEF ToSet
  <2>5. \A r \in Receivers : Has(r) = {}
    BY <2>1, <2>4 DEF Has
  <2> QED
    BY <2>3, <2>5 DEF Ordered
<1> QED
  BY <1>2, <1>4, <1>5 DEF IInv

(* Receivers that start change neither sockets nor senders. *)
LEMMA StartInv ==
    ASSUME NEW r \in Receivers PROVE IInv /\ (Unlink(r) \/ Bind(r)) => IInv'
<1> SUFFICES ASSUME IInv, Unlink(r) \/ Bind(r) PROVE IInv'
  OBVIOUS
<1>1. TypeOK'
  BY DEF IInv, TypeOK, Unlink, Bind
<1>2. UNCHANGED <<queue, received, tx, refused, lost>>
  BY DEF Unlink, Bind
<1>3. SendsTheNext' /\ Accounted' /\ Ordered'
  BY <1>2 DEF IInv, SendsTheNext, Accounted, Has, Ordered, Stream
<1> QED
  BY <1>1, <1>3 DEF IInv

LEMMA ReceiveInv == ASSUME NEW r \in Receivers PROVE IInv /\ logrx(r) => IInv'
<1> SUFFICES ASSUME IInv, logrx(r) PROVE IInv'
  OBVIOUS
<1>1. /\ queue[r] # << >> /\ Len(received[r]) < Total
      /\ received' = [received EXCEPT ![r] = Append(@, Head(queue[r]))]
      /\ queue' = [queue EXCEPT ![r] = Tail(@)]
      /\ UNCHANGED <<name, rx, tx, refused, lost>>
  BY DEF logrx, Reads
<1>2. received[r] \in Seq(Messages) /\ queue[r] \in Seq(Messages) /\ Len(queue[r]) <= QueueLen
      /\ Len(received[r]) \in Nat /\ Len(queue[r]) \in Nat
  BY LenProperties DEF IInv, TypeOK
<1>3. /\ Tail(queue[r]) \in Seq(Messages) /\ Len(Tail(queue[r])) = Len(queue[r]) - 1
      /\ Append(received[r], Head(queue[r])) \in Seq(Messages)
      /\ Len(Append(received[r], Head(queue[r]))) = Len(received[r]) + 1
      /\ ToSet(queue[r]) = {Head(queue[r])} \cup ToSet(Tail(queue[r]))
      /\ ToSet(Append(received[r], Head(queue[r]))) = ToSet(received[r]) \cup {Head(queue[r])}
  BY <1>1, <1>2, ToSetTail, ToSetAppend
<1>4. received'[r] = Append(received[r], Head(queue[r])) /\ queue'[r] = Tail(queue[r])
      /\ \A q \in Receivers \ {r} : received'[q] = received[q] /\ queue'[q] = queue[q]
  BY <1>1 DEF IInv, TypeOK
<1>5. TypeOK'
  <2>1. received' \in [Receivers -> Seq(Messages)] /\ queue' \in [Receivers -> Seq(Messages)]
    BY <1>1, <1>3 DEF IInv, TypeOK
  <2>2. \A q \in Receivers : Len(queue'[q]) <= QueueLen /\ Len(received'[q]) <= Total
    BY <1>1, <1>2, <1>3, <1>4, ConstantFacts DEF IInv, TypeOK
  <2> QED
    BY <1>1, <2>1, <2>2 DEF IInv, TypeOK
<1>6. \A q \in Receivers : Has(q)' = Has(q)
  BY <1>3, <1>4 DEF Has
<1>7. SendsTheNext' /\ Accounted'
  BY <1>1, <1>6 DEF IInv, SendsTheNext, Accounted
<1>8. Ordered'
  <2>1. \A q \in Receivers \ {r} : Stream(q)' = Stream(q)
    BY <1>4 DEF Stream
  <2>2. Append(received[r], Head(queue[r])) \o Tail(queue[r]) = received[r] \o queue[r]
    BY <1>1, <1>2, ShiftConcat
  <2>3. Stream(r)' = Stream(r)
    BY <1>4, <2>2 DEF Stream
  <2> QED
    BY <1>1, <1>6, <2>1, <2>3 DEF IInv, Ordered
<1> QED
  BY <1>5, <1>7, <1>8 DEF IInv

(* What a socket that is closed holds is lost from then on. *)
LEMMA CloseInv == ASSUME NEW r \in Receivers PROVE IInv /\ CloseSocket(r) => IInv'
<1> SUFFICES ASSUME IInv, CloseSocket(r) PROVE IInv'
  OBVIOUS
<1>1. /\ rx' = [rx EXCEPT ![r] = "ended"]
      /\ lost' = lost \cup ToSet(queue[r])
      /\ queue' = [queue EXCEPT ![r] = << >>]
      /\ UNCHANGED <<name, received, tx, refused>>
  BY DEF CloseSocket
<1>2. queue[r] \in Seq(Messages) /\ << >> \in Seq(Messages) /\ Len(<< >>) = 0
  BY EmptySeq DEF IInv, TypeOK
<1>3. ToSet(queue[r]) \subseteq Messages
  <2>1. \A i \in 1 .. Len(queue[r]) : queue[r][i] \in Messages
    BY <1>2, ElementOfSeq
  <2> QED
    BY <1>2, <2>1 DEF ToSet
<1>4. queue'[r] = << >> /\ \A q \in Receivers \ {r} : queue'[q] = queue[q]
  BY <1>1 DEF IInv, TypeOK
<1>5. TypeOK'
  <2>1. queue' \in [Receivers -> Seq(Messages)] /\ rx' \in [Receivers -> {"down", "unlinked", "open", "ended"}]
    BY <1>1, <1>2 DEF IInv, TypeOK
  <2>2. \A q \in Receivers : Len(queue'[q]) <= QueueLen
    <3>1. \A q \in Receivers : Len(queue[q]) <= QueueLen
      BY DEF IInv, TypeOK
    <3>2. Len(queue'[r]) <= QueueLen
      BY <1>2, <1>4, ConstantFacts
    <3> QED
      BY <1>4, <3>1, <3>2
  <2> QED
    BY <1>1, <1>3, <2>1, <2>2 DEF IInv, TypeOK
<1>6. \A q \in Receivers : Has(q) \subseteq Has(q)' \cup lost'
  BY <1>1, <1>4 DEF Has
<1>7. SendsTheNext'
  BY <1>1 DEF IInv, SendsTheNext
<1>8. Accounted'
  BY <1>1, <1>6 DEF IInv, Accounted
<1>9. Ordered'
  <2>1. \A q \in Receivers : Has(q)' \subseteq Has(q)
    <3>1. ToSet(<< >>) = {}
      BY <1>2 DEF ToSet
    <3> QED
      BY <1>1, <1>4, <3>1 DEF Has
  <2>2. received[r] \in Seq(Messages) /\ Stream(r)' = received[r]
    BY <1>1, <1>4, ConcatEmptySeq DEF Stream, IInv, TypeOK
  <2>3. InOrder(received[r])
    <3>1. InOrder(received[r] \o queue[r])
      BY DEF IInv, Ordered, Stream
    <3> QED
      BY <1>2, <2>2, <3>1, PrefixInOrder
  <2>4. \A q \in Receivers \ {r} : Stream(q)' = Stream(q)
    BY <1>1, <1>4 DEF Stream
  <2>5. \A q \in Receivers : InOrder(Stream(q)')
    BY <2>2, <2>3, <2>4 DEF IInv, Ordered
  <2> QED
    BY <1>1, <2>1, <2>5 DEF IInv, Ordered
<1> QED
  BY <1>5, <1>7, <1>8, <1>9 DEF IInv

LEMMA LookUpInv ==
    ASSUME NEW s \in Senders PROVE IInv /\ (LookUp(s) \/ LookUpAgain(s)) => IInv'
<1> SUFFICES ASSUME IInv, LookUp(s) \/ LookUpAgain(s) PROVE IInv'
  OBVIOUS
<1>1. UNCHANGED <<name, rx, queue, received, lost>>
  BY DEF LookUp, LookUpAgain
<1>2. tx[s].i \in 0 .. Count /\ tx[s].to \in Receivers \cup {None}
  BY DEF IInv, TypeOK
<1>3. tx[s].i < Count
  BY DEF LookUp, LookUpAgain, Sending, IInv, SendsTheNext
<1>4. \/ /\ tx' = [tx EXCEPT ![s] = [i |-> tx[s].i, to |-> tx'[s].to]]
         /\ tx'[s].to \in Receivers \cup {None} /\ refused' = refused
      \/ /\ tx' = [tx EXCEPT ![s] = [i |-> tx[s].i + 1, to |-> None]]
         /\ refused' = refused \cup {Message(s, tx[s].i + 1)}
  BY ConstantFacts DEF LookUp, LookUpAgain, IsOpen, AfterRefused, IInv, TypeOK
<1>5. Message(s, tx[s].i + 1) \in Messages
  BY <1>2, <1>3, ConstantFacts DEF Message, Messages
<1>6. TypeOK'
  <2>1. tx' \in [Senders -> [i : 0 .. Count, to : Receivers \cup {None}]]
    <3>1. /\ [i |-> tx[s].i, to |-> tx'[s].to] \in [i : 0 .. Count, to : Receivers \cup {None}]
             \/ tx'[s].to \notin Receivers \cup {None}
          /\ [i |-> tx[s].i + 1, to |-> None] \in [i : 0 .. Count, to : Receivers \cup {None}]
      BY <1>2, <1>3, ConstantFacts
    <3> QED
      BY <1>4, <3>1 DEF IInv, TypeOK
  <2> QED
    BY <1>1, <1>4, <1>5, <2>1 DEF IInv, TypeOK
<1>7. SendsTheNext'
  <2>1. \A u \in Senders \ {s} : tx'[u] = tx[u]
    BY <1>4 DEF IInv, TypeOK
  <2>2. tx'[s].to # None => tx'[s].i = tx[s].i
    BY <1>4 DEF IInv, TypeOK
  <2> QED
    BY <1>3, <2>1, <2>2 DEF IInv, SendsTheNext
<1>8. Accounted'
  <2> SUFFICES ASSUME NEW u \in Senders, NEW n \in 1 .. tx'[u].i
               PROVE  \/ Message(u, n) \in refused' \cup lost
                      \/ \E r \in Receivers : Message(u, n) \in Has(r)
    BY <1>1 DEF Accounted, Has
  <2>1. CASE n \in 1 .. tx[u].i
    BY <1>4, <2>1 DEF IInv, Accounted
  <2>2. CASE n \notin 1 .. tx[u].i
    <3>1. u = s /\ n = tx[s].i + 1 /\ refused' = refused \cup {Message(s, tx[s].i + 1)}
      BY <1>2, <1>4, <2>2 DEF IInv, TypeOK
    <3> QED
      BY <3>1
  <2> QED
    BY <2>1, <2>2
<1>9. Ordered'
  <2>1. \A q \in Receivers : Stream(q)' = Stream(q) /\ Has(q)' = Has(q)
    BY <1>1 DEF Stream, Has
  <2>2. \A u \in Senders : tx[u].i \in Nat /\ tx'[u].i \in Nat /\ tx[u].i <= tx'[u].i
    <3> SUFFICES ASSUME NEW u \in Senders
                 PROVE  tx[u].i \in Nat /\ tx'[u].i \in Nat /\ tx[u].i <= tx'[u].i
      OBVIOUS
    <3>1. tx[u].i \in 0 .. Count
      BY DEF IInv, TypeOK
    <3>2. u # s => tx'[u] = tx[u]
      BY <1>4 DEF IInv, TypeOK
    <3>3. tx'[s].i = tx[s].i \/ tx'[s].i = tx[s].i + 1
      BY <1>4 DEF IInv, TypeOK
    <3> QED
      BY <1>2, <3>1, <3>2, <3>3, ConstantFacts
  <2>3. \A q \in Receivers : \A m \in Has(q) : m.n <= tx'[m.from].i
    <3> SUFFICES ASSUME NEW q \in Receivers, NEW m \in Has(q) PROVE m.n <= tx'[m.from].i
      OBVIOUS
    <3>1. m \in Messages
      BY StreamTyped DEF IInv
    <3>2. m.from \in Senders /\ m.n \in Nat /\ m.n <= tx[m.from].i
      BY <3>1, ConstantFacts DEF Messages, IInv, Ordered
    <3> QED
      BY <2>2, <3>2
  <2> QED
    BY <2>1, <2>3 DEF IInv, Ordered
<1> QED
  BY <1>6, <1>7, <1>8, <1>9 DEF IInv

LEMMA QueueInv == ASSUME NEW s \in Senders PROVE IInv /\ Queue(s) => IInv'
<1> SUFFICES ASSUME IInv, Queue(s) PROVE IInv'
  OBVIOUS
<1>a. PICK r \in Receivers : r = tx[s].to
  BY DEF Queue, IsOpen
<1>b. PICK m : m = Message(s, tx[s].i + 1)
  OBVIOUS
<1>0. r = tx[s].to /\ m = Message(s, tx[s].i + 1)
  BY <1>a, <1>b
<1>1. /\ Len(queue[r]) < QueueLen /\ tx[s].to # None
      /\ queue' = [queue EXCEPT ![r] = Append(@, m)]
      /\ tx' = [tx EXCEPT ![s] = [i |-> tx[s].i + 1, to |-> None]]
      /\ UNCHANGED <<name, rx, received, refused, lost>>
  BY <1>0, ConstantFacts DEF Queue, AfterSent
<1>2. tx[s].i \in 0 .. Count /\ tx[s].i < Count
  BY <1>1, ConstantFacts DEF IInv, TypeOK, SendsTheNext
<1>3. m \in Messages
  BY <1>0, <1>2, ConstantFacts DEF Message, Messages
<1>4. /\ Append(queue[r], m) \in Seq(Messages)
      /\ Len(Append(queue[r], m)) = Len(queue[r]) + 1
      /\ ToSet(Append(queue[r], m)) = ToSet(queue[r]) \cup {m}
      /\ Len(queue[r]) \in Nat
  BY <1>1, <1>3, ToSetAppend, LenProperties DEF IInv, TypeOK
<1>5. queue'[r] = Append(queue[r], m) /\ \A q \in Receivers \ {r} : queue'[q] = queue[q]
  BY <1>1 DEF IInv, TypeOK
<1>6. TypeOK'
  <2>1. queue' \in [Receivers -> Seq(Messages)]
    BY <1>1, <1>4 DEF IInv, TypeOK
  <2>2. \A q \in Receivers : Len(queue'[q]) <= QueueLen
    BY <1>1, <1>4, <1>5, ConstantFacts DEF IInv, TypeOK
  <2>3. tx' \in [Senders -> [i : 0 .. Count, to : Receivers \cup {None}]]
    BY <1>1, <1>2, ConstantFacts DEF IInv, TypeOK
  <2> QED
    BY <1>1, <2>1, <2>2, <2>3 DEF IInv, TypeOK
<1>7. SendsTheNext'
  BY <1>1 DEF IInv, SendsTheNext, TypeOK
<1>8. \A q \in Receivers : Has(q) \subseteq Has(q)'
  BY <1>1, <1>4, <1>5 DEF Has
<1>9. m \in Has(r)'
  BY <1>4, <1>5 DEF Has
<1>10. Accounted'
  <2> SUFFICES ASSUME NEW u \in Senders, NEW n \in 1 .. tx'[u].i
               PROVE  \/ Message(u, n) \in refused \cup lost
                      \/ \E q \in Receivers : Message(u, n) \in Has(q)'
    BY <1>1 DEF Accounted
  <2>1. CASE n \in 1 .. tx[u].i
    BY <1>8, <2>1 DEF IInv, Accounted
  <2>2. CASE n \notin 1 .. tx[u].i
    <3>1. u = s /\ n = tx[s].i + 1
      BY <1>1, <1>2, <2>2 DEF IInv, TypeOK
    <3> QED
      BY <1>0, <1>9, <3>1
  <2> QED
    BY <2>1, <2>2
<1>11. Ordered'
  <2>1. m.from = s /\ m.n = tx[s].i + 1
    BY <1>0 DEF Message
  <2>2. \A q \in Receivers : \A e \in Has(q) :
           e \in Messages /\ e.n <= tx[e.from].i /\ (e.from = s => e.n < m.n)
    <3> SUFFICES ASSUME NEW q \in Receivers, NEW e \in Has(q)
                 PROVE  e \in Messages /\ e.n <= tx[e.from].i /\ (e.from = s => e.n < m.n)
      OBVIOUS
    <3>1. e \in Messages /\ e.n <= tx[e.from].i
      BY StreamTyped DEF IInv, Ordered
    <3> QED
      BY <1>2, <2>1, <3>1, ConstantFacts DEF Messages
  <2>3. Has(r)' = Has(r) \cup {m} /\ \A q \in Receivers \ {r} : Has(q)' = Has(q)
    BY <1>1, <1>4, <1>5 DEF Has
  <2>4. Stream(r)' = Append(Stream(r), m) /\ \A q \in Receivers \ {r} : Stream(q)' = Stream(q)
    <3>1. received[r] \in Seq(Messages) /\ queue[r] \in Seq(Messages)
      BY StreamTyped DEF IInv
    <3>2. received[r] \o Append(queue[r], m) = Append(received[r] \o queue[r], m)
      <4>1. \A a, b \in Seq(Messages) : a \o Append(b, m) = Append(a \o b, m)
        BY <1>3, ConcatAppend
      <4> QED
        BY <3>1, <4>1, Zenon
    <3> QED
      BY <1>1, <1>5, <3>2 DEF Stream
  <2>5. InOrder(Append(Stream(r), m))
    BY <1>3, <2>1, <2>2, StreamTyped, AppendInOrder DEF IInv, Ordered
  <2>6. \A q \in Receivers : InOrder(Stream(q)')
    BY <2>4, <2>5 DEF IInv, Ordered
  <2>7. \A u \in Senders : tx[u].i \in Nat /\ tx'[u].i \in Nat /\ tx[u].i <= tx'[u].i
    BY <1>1, <1>2, <1>6 DEF IInv, TypeOK
  <2>8. tx'[s].i = tx[s].i + 1
    BY <1>1 DEF IInv, TypeOK
  <2>9. \A q \in Receivers : \A e \in Has(q)' : e.n <= tx'[e.from].i
    <3> SUFFICES ASSUME NEW q \in Receivers, NEW e \in Has(q)' PROVE e.n <= tx'[e.from].i
      OBVIOUS
    <3>1. e \in Has(q) \/ e = m
      BY <2>3
    <3>2. CASE e \in Has(q)
      <4>1. e.from \in Senders /\ e.n \in Nat /\ e.n <= tx[e.from].i
        BY <2>2, <3>2, ConstantFacts DEF Messages
      <4> QED
        BY <2>7, <4>1
    <3>3. CASE e = m
      BY <1>2, <2>1, <2>8, <3>3
    <3> QED
      BY <3>1, <3>2, <3>3
  <2>10. \A q \in Receivers : m \notin Has(q)
    <3> SUFFICES ASSUME NEW q \in Receivers, m \in Has(q) PROVE FALSE
      OBVIOUS
    <3>1. m.n < m.n
      BY <2>1, <2>2
    <3> QED
      BY <1>2, <2>1, <3>1
  <2>11. \A q, p \in Receivers : q # p => Has(q)' \cap Has(p)' = {}
    <3> SUFFICES ASSUME NEW q \in Receivers, NEW p \in Receivers, q # p
                 PROVE  Has(q)' \cap Has(p)' = {}
      OBVIOUS
    <3>1. Has(q) \cap Has(p) = {}
      BY DEF IInv, Ordered
    <3> QED
      BY <2>3, <2>10, <3>1
  <2> QED
    BY <2>6, <2>9, <2>11 DEF Ordered
<1> QED
  BY <1>6, <1>7, <1>10, <1>11 DEF IInv

-----------------------------------------------------------------------------
LEMMA NextInv == IInv /\ [Next]_vars => IInv'
<1> SUFFICES ASSUME IInv, [Next]_vars PROVE IInv'
  OBVIOUS
<1>1. ASSUME NEW r \in Receivers, Unlink(r) \/ Bind(r) PROVE IInv'
  BY <1>1, StartInv
<1>2. ASSUME NEW r \in Receivers, logrx(r) PROVE IInv'
  BY <1>2, ReceiveInv
<1>3. ASSUME NEW r \in Receivers, LastReceived(r) \/ CloseSocket(r) PROVE IInv'
  BY <1>3, CloseInv DEF LastReceived
<1>4. ASSUME NEW s \in Senders, LookUp(s) \/ LookUpAgain(s) PROVE IInv'
  BY <1>4, LookUpInv
<1>5. ASSUME NEW s \in Senders, Queue(s) PROVE IInv'
  BY <1>5, QueueInv
<1>6. CASE UNCHANGED vars
  BY <1>6 DEF vars, IInv, TypeOK, SendsTheNext, Accounted, Has, Ordered, Stream
<1> QED
  BY <1>1, <1>2, <1>3, <1>4, <1>5, <1>6 DEF Next

LEMMA Invariance == Spec => []IInv
BY InitInv, NextInv, PTL DEF Spec

(* The variables keep their types; no socket holds more than it may, and   *)
(* no receiver takes more than Total messages.                             *)
THEOREM TypeCorrect == Spec => []TypeOK
<1>1. IInv => TypeOK
  BY DEF IInv
<1> QED
  BY <1>1, Invariance, PTL

(* Whoever takes the name from whom, and whenever a receiver is killed: a  *)
(* message logtx was called for was refused, is lost with a socket that    *)
(* was closed, or is received or still in a socket.                        *)
THEOREM MissedOnlyByRefusalOrEnd == Spec => []NothingElseIsMissed
BY AccountedSuffices, Invariance, PTL

(* Receivers that take the name from each other and go never make a        *)
(* message be received twice, or before an earlier one of its sender.      *)
THEOREM ReceivedOnceInOrder == Spec => []OnceAndInOrder
BY OrderedSuffices, Invariance, PTL

-----------------------------------------------------------------------------
(* The echo server and its clients.                                        *)

Bytes == {"x", "q"}

EchoTyped ==
    /\ client \in [Clients -> {"new", "gets", "recv", "ended"}]
    /\ end \in [Clients -> {"none", "open", "closed", "reset"}]
    /\ toServer \in [Clients -> Seq(Bytes)] /\ toClient \in [Clients -> Seq(Bytes)]
    /\ sent \in [Clients -> Seq(Bytes)] /\ got \in [Clients -> Seq(Bytes)]
    /\ server \in Clients \cup {"loop", "dead"} /\ unsent \in Seq(Bytes)

(* Before a client connects nobody has heard of it. *)
NewIsUntouched ==
    \A c \in Clients : client[c] = "new" =>
        /\ end[c] = "none" /\ server # c
        /\ sent[c] = << >> /\ got[c] = << >> /\ toServer[c] = << >> /\ toClient[c] = << >>

EchoInv == EchoTyped /\ NewIsUntouched /\ EchoInOrder

(* EchoInOrder of one client. *)
Echoed(c) == end[c] = "open" /\ server # "dead"
               => sent[c] = got[c] \o toClient[c] \o Echo!Echoing(c) \o toServer[c]

LEMMA EchoedByAll == EchoInOrder <=> \A c \in Clients : Echoed(c)
BY DEF EchoInOrder, Echo!EchoInOrder, Echoed

LEMMA LinesAreBytes == ASSUME NEW line \in Lines PROVE line \in Seq(Bytes)
BY EchoAssumption DEF Echo!Parameters, Bytes

(* A read or a write cuts a sequence in two that together are the whole.   *)
LEMMA Cut ==
    ASSUME NEW S, NEW s \in Seq(S), NEW n \in 0 .. Len(s)
    PROVE  /\ Echo!First(s, n) \in Seq(S) /\ Echo!After(s, n) \in Seq(S)
           /\ Echo!First(s, n) \o Echo!After(s, n) = s
<1>1. Len(s) \in Nat /\ \A i \in 1 .. Len(s) : s[i] \in S
  BY LenProperties, ElementOfSeq
<1>2. Echo!First(s, n) \in Seq(S)
  BY <1>1, SubSeqProperties DEF Echo!First
<1>3. Echo!After(s, n) \in Seq(S)
  <2>1. n + 1 \in Int /\ \A i \in n + 1 .. Len(s) : s[i] \in S
    BY <1>1
  <2> QED
    BY <1>1, <2>1, SubSeqProperties DEF Echo!After
<1>4. SubSeq(s, 1, n) \o SubSeq(s, n + 1, Len(s)) = SubSeq(s, 1, Len(s))
  <2>1. 1 \in 1 .. Len(s) + 1 /\ n \in 1 - 1 .. Len(s) /\ Len(s) \in n .. Len(s)
    BY <1>1
  <2> QED
    BY <2>1, ConcatAdjacentSubSeq
<1>5. SubSeq(s, 1, Len(s)) = s
  BY SubSeqFull
<1> QED
  BY <1>2, <1>3, <1>4, <1>5 DEF Echo!First, Echo!After

(* Concatenation of sequences, for the steps that follow. *)
LEMMA Regroup == \A a, b, c \in Seq(Bytes) : (a \o b) \o c = a \o (b \o c)
BY ConcatAssociative

(* What the steps do to the text of a client: it is received in pieces, .. *)
LEMMA MovedToTheFront ==
    \A g, t \in Seq(Bytes) : \A n \in 0 .. Len(t) :
      (g \o Echo!First(t, n)) \o Echo!After(t, n) = g \o t
<1> SUFFICES ASSUME NEW g \in Seq(Bytes), NEW t \in Seq(Bytes), NEW n \in 0 .. Len(t)
             PROVE  (g \o Echo!First(t, n)) \o Echo!After(t, n) = g \o t
  OBVIOUS
<1> DEFINE f == Echo!First(t, n)
           a == Echo!After(t, n)
<1>1. f \in Seq(Bytes) /\ a \in Seq(Bytes)
  BY Cut
<1>2. f \o a = t
  BY Cut
<1> HIDE DEF f, a
<1>3. (g \o f) \o a = g \o (f \o a)
  BY <1>1, Regroup, Zenon
<1>4. (g \o f) \o a = g \o t
  BY <1>2, <1>3, Zenon
<1> QED
  BY <1>4, Zenon DEF f, a

(* ... read by the server in pieces, which had nothing unsent, ...         *)
LEMMA TakenByTheServer ==
    \A g, t, s \in Seq(Bytes) : \A n \in 0 .. Len(s) :
      g \o t \o Echo!First(s, n) \o Echo!After(s, n) = g \o t \o << >> \o s
<1> SUFFICES ASSUME NEW g \in Seq(Bytes), NEW t \in Seq(Bytes), NEW s \in Seq(Bytes), NEW n \in 0 .. Len(s)
             PROVE  g \o t \o Echo!First(s, n) \o Echo!After(s, n) = g \o t \o << >> \o s
  OBVIOUS
<1> DEFINE f == Echo!First(s, n)
           a == Echo!After(s, n)
           h == g \o t
<1>1. f \in Seq(Bytes) /\ a \in Seq(Bytes)
  BY Cut
<1>2. f \o a = s
  BY Cut
<1>3. h \in Seq(Bytes)
  BY ConcatProperties
<1> HIDE DEF f, a, h
<1>4. (h \o f) \o a = h \o (f \o a)
  BY <1>1, <1>3, Regroup, Zenon
<1>5. h \o << >> = h
  BY <1>3, ConcatEmptySeq
<1>6. (h \o f) \o a = (h \o << >>) \o s
  BY <1>2, <1>4, <1>5, Zenon
<1> QED
  BY <1>6, Zenon DEF f, a, h

(* ... and sent back in pieces.                                            *)
LEMMA SentBack ==
    \A g, t, u \in Seq(Bytes) : \A n \in 0 .. Len(u) :
      g \o (t \o Echo!First(u, n)) \o Echo!After(u, n) = g \o t \o u
<1> SUFFICES ASSUME NEW g \in Seq(Bytes), NEW t \in Seq(Bytes), NEW u \in Seq(Bytes), NEW n \in 0 .. Len(u)
             PROVE  g \o (t \o Echo!First(u, n)) \o Echo!After(u, n) = g \o t \o u
  OBVIOUS
<1> DEFINE f == Echo!First(u, n)
           a == Echo!After(u, n)
           h == g \o t
<1>1. f \in Seq(Bytes) /\ a \in Seq(Bytes)
  BY Cut
<1>2. f \o a = u
  BY Cut
<1>3. h \in Seq(Bytes)
  BY ConcatProperties
<1> HIDE DEF f, a
<1>4. g \o (t \o f) = h \o f
  BY <1>1, Regroup, Zenon
<1> HIDE DEF h
<1>5. (h \o f) \o a = h \o (f \o a)
  BY <1>1, <1>3, Regroup, Zenon
<1>6. (g \o (t \o f)) \o a = h \o u
  BY <1>2, <1>4, <1>5, Zenon
<1> QED
  BY <1>6, Zenon DEF f, a, h

LEMMA EchoInit == Echo!Init => EchoInv
<1> SUFFICES ASSUME Echo!Init PROVE EchoInv
  OBVIOUS
<1>1. << >> \in Seq(Bytes)
  BY EmptySeq
<1>2. EchoTyped
  BY <1>1 DEF Echo!Init, EchoTyped
<1>3. NewIsUntouched
  BY EchoAssumption DEF Echo!Init, NewIsUntouched, Echo!Parameters
<1>4. EchoInOrder
  BY DEF Echo!Init, EchoInOrder, Echo!EchoInOrder
<1> QED
  BY <1>2, <1>3, <1>4 DEF EchoInv

(* A client that connects has sent and got nothing. *)
LEMMA ConnectInv == ASSUME NEW c \in Clients PROVE EchoInv /\ Echo!Connect(c) => EchoInv'
<1> SUFFICES ASSUME EchoInv, Echo!Connect(c) PROVE EchoInv'
  OBVIOUS
<1>1. /\ client[c] = "new"
      /\ UNCHANGED <<sent, got, server, unsent, toServer, toClient>>
      /\ \/ end' = [end EXCEPT ![c] = "open"] /\ client' = [client EXCEPT ![c] = "gets"]
         \/ client' = [client EXCEPT ![c] = "ended"] /\ UNCHANGED end
  BY DEF Echo!Connect, Echo!serverVars
<1>2. EchoTyped'
  BY <1>1 DEF EchoInv, EchoTyped
<1>3. NewIsUntouched'
  BY <1>1 DEF EchoInv, EchoTyped, NewIsUntouched
<1>4. \A d \in Clients : Echoed(d)'
  <2> SUFFICES ASSUME NEW d \in Clients PROVE Echoed(d)'
    OBVIOUS
  <2>1. Echo!Echoing(d)' = Echo!Echoing(d)
    BY <1>1 DEF Echo!Echoing
  <2>2. CASE d # c
    <3>1. end'[d] = end[d]
      BY <1>1, <2>2 DEF EchoInv, EchoTyped
    <3> QED
      BY <1>1, <2>1, <3>1, EchoedByAll DEF EchoInv, Echoed
  <2>3. CASE d = c
    <3>1. /\ sent[c] = << >> /\ got[c] = << >> /\ toServer[c] = << >> /\ toClient[c] = << >>
          /\ Echo!Echoing(c) = << >>
      BY <1>1 DEF EchoInv, NewIsUntouched, Echo!Echoing
    <3>2. << >> \o << >> = << >>
      BY EmptySeq, ConcatEmptySeq
    <3> QED
      BY <1>1, <2>1, <2>3, <3>1, <3>2 DEF Echoed
  <2> QED
    BY <2>2, <2>3
<1>5. EchoInOrder'
  BY <1>4 DEF EchoInOrder, Echo!EchoInOrder, Echoed
<1> QED
  BY <1>2, <1>3, <1>5 DEF EchoInv

(* Steps that leave the text of every client that is still connected where *)
(* it is, and let no client be new again or get text before it connects.   *)
LEMMA Elsewhere ==
    ASSUME EchoInv, EchoTyped', NewIsUntouched',
           UNCHANGED <<sent, got, toServer, toClient>>,
           \A d \in Clients : end'[d] = "open" => end[d] = "open",
           \A d \in Clients : server' # "dead" /\ end'[d] = "open"
                                => server # "dead" /\ Echo!Echoing(d)' = Echo!Echoing(d)
    PROVE  EchoInv'
<1>1. \A d \in Clients : Echoed(d)'
  BY EchoedByAll DEF EchoInv, Echoed
<1>2. EchoInOrder'
  BY <1>1 DEF EchoInOrder, Echo!EchoInOrder, Echoed
<1> QED
  BY <1>2 DEF EchoInv

LEMMA KillInv == ASSUME NEW c \in Clients PROVE EchoInv /\ Echo!Kill(c) => EchoInv'
<1> SUFFICES ASSUME EchoInv, Echo!Kill(c) PROVE EchoInv'
  OBVIOUS
<1>1. /\ client' = [client EXCEPT ![c] = "ended"]
      /\ end' = [end EXCEPT ![c] = IF toClient[c] = << >> THEN "closed" ELSE "reset"]
      /\ UNCHANGED <<sent, got, server, unsent, toServer, toClient>>
  BY DEF Echo!Kill, Echo!Closed, Echo!serverVars
<1>2. EchoTyped'
  BY <1>1 DEF EchoInv, EchoTyped
<1>3. NewIsUntouched'
  BY <1>1 DEF EchoInv, EchoTyped, NewIsUntouched
<1>4. \A d \in Clients : end'[d] = "open" => end[d] = "open"
  BY <1>1 DEF EchoInv, EchoTyped
<1>5. \A d \in Clients : Echo!Echoing(d)' = Echo!Echoing(d)
  BY <1>1 DEF Echo!Echoing
<1> QED
  BY <1>1, <1>2, <1>3, <1>4, <1>5, Elsewhere

LEMMA WatcherInv ==
    EchoInv /\ (Echo!accept_cb \/ \E c \in Clients : Echo!ReadEnd(c)) => EchoInv'
<1> SUFFICES ASSUME EchoInv, Echo!accept_cb \/ \E c \in Clients : Echo!ReadEnd(c) PROVE EchoInv'
  OBVIOUS
<1>1. UNCHANGED <<client, end, sent, got, server, unsent, toServer, toClient>>
  BY DEF Echo!accept_cb, Echo!ReadEnd, Echo!clientVars
<1> QED
  BY <1>1 DEF EchoInv, EchoTyped, NewIsUntouched, EchoInOrder, Echo!EchoInOrder, Echo!Echoing

(* Nobody is there to get what the server sends. *)
LEMMA SendToNobodyInv == ASSUME NEW c \in Clients PROVE EchoInv /\ Echo!SendToNobody(c) => EchoInv'
<1> SUFFICES ASSUME EchoInv, Echo!SendToNobody(c) PROVE EchoInv'
  OBVIOUS
<1>1. /\ server = c /\ end[c] # "open"
      /\ end' = [end EXCEPT ![c] = "reset"]
      /\ unsent' = << >> /\ server' \in {"loop", "dead"}
      /\ UNCHANGED <<client, sent, got, toServer, toClient>>
  BY DEF Echo!SendToNobody, Echo!clientVars
<1>2. "loop" \notin Clients /\ "dead" \notin Clients
  BY EchoAssumption DEF Echo!Parameters
<1>3. EchoTyped'
  BY <1>1, EmptySeq DEF EchoInv, EchoTyped
<1>4. client[c] # "new"
  BY <1>1 DEF EchoInv, NewIsUntouched
<1>5. NewIsUntouched'
  BY <1>1, <1>2, <1>4 DEF EchoInv, EchoTyped, NewIsUntouched
<1>6. \A d \in Clients : end'[d] = "open" => end[d] = "open" /\ d # c
  BY <1>1 DEF EchoInv, EchoTyped
<1>7. \A d \in Clients : d # c => Echo!Echoing(d)' = Echo!Echoing(d)
  BY <1>1, <1>2 DEF Echo!Echoing
<1>8. server # "dead"
  BY <1>1, <1>2
<1> QED
  BY <1>1, <1>3, <1>5, <1>6, <1>7, <1>8, Elsewhere

(* A step that sees to the text of one client and leaves that of the       *)
(* others.                                                                 *)
LEMMA OneClient ==
    ASSUME EchoInv, NEW c \in Clients, EchoTyped', NewIsUntouched', Echoed(c)',
           \A d \in Clients \ {c} :
              /\ sent'[d] = sent[d] /\ got'[d] = got[d] /\ end'[d] = end[d]
              /\ toServer'[d] = toServer[d] /\ toClient'[d] = toClient[d]
              /\ Echo!Echoing(d)' = Echo!Echoing(d),
           server' # "dead" => server # "dead"
    PROVE  EchoInv'
<1>1. \A d \in Clients \ {c} : Echoed(d)'
  BY EchoedByAll DEF EchoInv, Echoed
<1>2. EchoInOrder'
  BY <1>1 DEF EchoInOrder, Echo!EchoInOrder, Echoed
<1> QED
  BY <1>2 DEF EchoInv

(* The text of a client, as sequences. *)
LEMMA TextTyped ==
    ASSUME EchoInv, NEW c \in Clients
    PROVE  /\ sent[c] \in Seq(Bytes) /\ got[c] \in Seq(Bytes)
           /\ toServer[c] \in Seq(Bytes) /\ toClient[c] \in Seq(Bytes)
           /\ unsent \in Seq(Bytes) /\ Echo!Echoing(c) \in Seq(Bytes)
           /\ Len(toServer[c]) \in Nat /\ Len(toClient[c]) \in Nat /\ Len(unsent) \in Nat
<1>1. /\ sent[c] \in Seq(Bytes) /\ got[c] \in Seq(Bytes)
      /\ toServer[c] \in Seq(Bytes) /\ toClient[c] \in Seq(Bytes)
      /\ unsent \in Seq(Bytes) /\ << >> \in Seq(Bytes)
  BY EmptySeq DEF EchoInv, EchoTyped
<1>2. Echo!Echoing(c) \in Seq(Bytes)
  BY <1>1 DEF Echo!Echoing
<1> QED
  BY <1>1, <1>2, LenProperties

LEMMA TypeInv ==
    ASSUME NEW c \in Clients, NEW line \in Seq(Bytes) PROVE EchoInv /\ Echo!Type(c, line) => EchoInv'
<1> SUFFICES ASSUME EchoInv, Echo!Type(c, line) PROVE EchoInv'
  OBVIOUS
<1>1. client[c] = "gets" /\ UNCHANGED <<got, server, unsent, toClient>>
  BY DEF Echo!Type, Echo!serverVars
<1>2. \A d \in Clients : Echo!Echoing(d)' = Echo!Echoing(d)
  BY <1>1 DEF Echo!Echoing
<1>3. CASE /\ client' = [client EXCEPT ![c] = "recv"]
           /\ toServer' = [toServer EXCEPT ![c] = @ \o line]
           /\ sent' = [sent EXCEPT ![c] = @ \o line]
           /\ UNCHANGED end
  <2>1. line \in Seq(Bytes)
    OBVIOUS
  <2>2. toServer[c] \o line \in Seq(Bytes) /\ sent[c] \o line \in Seq(Bytes)
    BY <2>1, TextTyped, ConcatProperties
  <2>3. EchoTyped'
    BY <1>1, <1>3, <2>2 DEF EchoInv, EchoTyped
  <2>4. NewIsUntouched'
    BY <1>1, <1>3 DEF EchoInv, EchoTyped, NewIsUntouched
  <2>5. /\ sent'[c] = sent[c] \o line /\ toServer'[c] = toServer[c] \o line
        /\ got'[c] = got[c] /\ toClient'[c] = toClient[c] /\ end'[c] = end[c]
    BY <1>1, <1>3 DEF EchoInv, EchoTyped
  <2>6. Echoed(c)'
    <3> SUFFICES ASSUME end'[c] = "open", server' # "dead"
                 PROVE  sent'[c] = got'[c] \o toClient'[c] \o Echo!Echoing(c)' \o toServer'[c]
      BY DEF Echoed
    <3>1. sent[c] = got[c] \o toClient[c] \o Echo!Echoing(c) \o toServer[c]
      BY <1>1, <2>5, EchoedByAll DEF EchoInv, Echoed
    <3> DEFINE before == got[c] \o toClient[c] \o Echo!Echoing(c)
    <3>2. toServer[c] \in Seq(Bytes) /\ before \in Seq(Bytes)
      BY TextTyped, ConcatProperties
    <3> HIDE DEF before
    <3>3. (before \o toServer[c]) \o line = before \o (toServer[c] \o line)
      BY <2>1, <3>2, Regroup, Zenon
    <3> QED
      BY <1>2, <2>5, <3>1, <3>3, Zenon DEF before
  <2> QED
    BY <1>1, <1>2, <1>3, <2>3, <2>4, <2>6, OneClient DEF EchoInv, EchoTyped
<1>4. CASE /\ client' = [client EXCEPT ![c] = "ended"]
           /\ end' = [end EXCEPT ![c] = IF toClient[c] = << >> THEN "closed" ELSE "reset"]
           /\ UNCHANGED <<toServer, sent>>
  <2>1. EchoTyped'
    BY <1>1, <1>4 DEF EchoInv, EchoTyped
  <2>2. NewIsUntouched'
    BY <1>1, <1>4 DEF EchoInv, EchoTyped, NewIsUntouched
  <2>3. \A d \in Clients : end'[d] = "open" => end[d] = "open"
    BY <1>4 DEF EchoInv, EchoTyped
  <2> QED
    BY <1>1, <1>2, <1>4, <2>1, <2>2, <2>3, Elsewhere
<1> QED
  BY <1>3, <1>4 DEF Echo!Type, Echo!Closed

LEMMA ReceiveTextInv ==
    ASSUME NEW c \in Clients, NEW n \in 0 .. BufferSize
    PROVE  EchoInv /\ Echo!Receive(c, n) => EchoInv'
<1> SUFFICES ASSUME EchoInv, Echo!Receive(c, n) PROVE EchoInv'
  OBVIOUS
<1>1. /\ client[c] = "recv" /\ n <= Len(toClient[c])
      /\ toClient' = [toClient EXCEPT ![c] = Echo!After(@, n)]
      /\ got' = [got EXCEPT ![c] = @ \o Echo!First(toClient[c], n)]
      /\ UNCHANGED <<sent, server, unsent, toServer>>
  BY DEF Echo!Receive, Echo!serverVars
<1>2. \/ /\ client' = [client EXCEPT ![c] = "ended"]
         /\ \/ end' = [end EXCEPT ![c] = "closed"]
            \/ end' = [end EXCEPT ![c] = "reset"]
      \/ client' = [client EXCEPT ![c] = "gets"] /\ UNCHANGED end
  BY DEF Echo!Receive
<1>3. n \in 0 .. Len(toClient[c])
  BY <1>1, TextTyped
<1>4. Echo!First(toClient[c], n) \in Seq(Bytes) /\ Echo!After(toClient[c], n) \in Seq(Bytes)
  BY <1>3, TextTyped, Cut
<1>5. got[c] \o Echo!First(toClient[c], n) \in Seq(Bytes)
  BY <1>4, TextTyped, ConcatProperties
<1>6. EchoTyped'
  BY <1>1, <1>2, <1>4, <1>5 DEF EchoInv, EchoTyped
<1>7. NewIsUntouched'
  BY <1>1, <1>2 DEF EchoInv, EchoTyped, NewIsUntouched
<1>8. /\ toClient'[c] = Echo!After(toClient[c], n)
      /\ got'[c] = got[c] \o Echo!First(toClient[c], n)
      /\ end'[c] = "open" => end[c] = "open"
      /\ \A d \in Clients : Echo!Echoing(d)' = Echo!Echoing(d)
  BY <1>1, <1>2 DEF EchoInv, EchoTyped, Echo!Echoing
<1>9. Echoed(c)'
  <2> SUFFICES ASSUME end'[c] = "open", server' # "dead"
               PROVE  sent'[c] = got'[c] \o toClient'[c] \o Echo!Echoing(c)' \o toServer'[c]
    BY DEF Echoed
  <2>1. sent[c] = got[c] \o toClient[c] \o Echo!Echoing(c) \o toServer[c]
    BY <1>1, <1>8, EchoedByAll DEF EchoInv, Echoed
  <2>2. (got[c] \o Echo!First(toClient[c], n)) \o Echo!After(toClient[c], n)
           = got[c] \o toClient[c]
    <3>1. got[c] \in Seq(Bytes) /\ toClient[c] \in Seq(Bytes)
      BY TextTyped
    <3> QED
      BY <1>3, <3>1, MovedToTheFront, Zenon
  <2> QED
    BY <1>1, <1>8, <2>1, <2>2, Zenon
<1> QED
  BY <1>1, <1>2, <1>6, <1>7, <1>8, <1>9, OneClient DEF EchoInv, EchoTyped

LEMMA ReadInv ==
    ASSUME NEW c \in Clients, NEW n \in 1 .. BufferSize
    PROVE  EchoInv /\ Echo!Read(c, n) => EchoInv'
<1> SUFFICES ASSUME EchoInv, Echo!Read(c, n) PROVE EchoInv'
  OBVIOUS
<1>1. /\ server = "loop" /\ n <= Len(toServer[c])
      /\ toServer' = [toServer EXCEPT ![c] = Echo!After(@, n)]
      /\ server' = c /\ unsent' = Echo!First(toServer[c], n)
      /\ UNCHANGED <<client, end, sent, got, toClient>>
  BY DEF Echo!Read, Echo!Echo, Echo!clientVars
<1>2. "loop" \notin Clients /\ "dead" \notin Clients /\ BufferSize \in Nat
  BY EchoAssumption DEF Echo!Parameters
<1>3. n \in 0 .. Len(toServer[c]) /\ n > 0
  BY <1>1, <1>2, TextTyped
<1>4. Echo!First(toServer[c], n) \in Seq(Bytes) /\ Echo!After(toServer[c], n) \in Seq(Bytes)
  BY <1>3, TextTyped, Cut
<1>5. EchoTyped'
  BY <1>1, <1>4 DEF EchoInv, EchoTyped
<1>6. toServer[c] # << >>
  BY <1>3, EmptySeq
<1>7. NewIsUntouched'
  BY <1>1, <1>6 DEF EchoInv, EchoTyped, NewIsUntouched
<1>8. /\ toServer'[c] = Echo!After(toServer[c], n)
      /\ \A d \in Clients : Echo!Echoing(d) = << >>
      /\ Echo!Echoing(c)' = Echo!First(toServer[c], n)
      /\ \A d \in Clients \ {c} : Echo!Echoing(d)' = << >>
  BY <1>1, <1>2 DEF EchoInv, EchoTyped, Echo!Echoing
<1>9. Echoed(c)'
  <2> SUFFICES ASSUME end'[c] = "open", server' # "dead"
               PROVE  sent'[c] = got'[c] \o toClient'[c] \o Echo!Echoing(c)' \o toServer'[c]
    BY DEF Echoed
  <2>1. sent[c] = got[c] \o toClient[c] \o << >> \o toServer[c]
    BY <1>1, <1>8, EchoedByAll DEF EchoInv, Echoed
  <2>2. got[c] \o toClient[c] \o Echo!First(toServer[c], n) \o Echo!After(toServer[c], n)
           = got[c] \o toClient[c] \o << >> \o toServer[c]
    <3>1. got[c] \in Seq(Bytes) /\ toClient[c] \in Seq(Bytes) /\ toServer[c] \in Seq(Bytes)
      BY TextTyped
    <3> QED
      BY <1>3, <3>1, TakenByTheServer, Zenon
  <2> QED
    BY <1>1, <1>8, <2>1, <2>2, Zenon
<1> QED
  BY <1>1, <1>2, <1>5, <1>7, <1>8, <1>9, OneClient DEF EchoInv, EchoTyped

LEMMA SendInv ==
    ASSUME NEW c \in Clients, NEW n \in 1 .. BufferSize
    PROVE  EchoInv /\ Echo!Send(c, n) => EchoInv'
<1> SUFFICES ASSUME EchoInv, Echo!Send(c, n) PROVE EchoInv'
  OBVIOUS
<1>1. /\ server = c /\ n \in 1 .. Len(unsent)
      /\ toClient' = [toClient EXCEPT ![c] = @ \o Echo!First(unsent, n)]
      /\ unsent' = Echo!After(unsent, n)
      /\ server' = IF unsent' = << >> THEN "loop" ELSE c
      /\ UNCHANGED <<client, end, sent, got, toServer>>
  BY DEF Echo!Send, Echo!Unsent, Echo!clientVars
<1>2. "loop" \notin Clients /\ "dead" \notin Clients
  BY EchoAssumption DEF Echo!Parameters
<1>3. n \in 0 .. Len(unsent)
  BY <1>1, TextTyped
<1>4. Echo!First(unsent, n) \in Seq(Bytes) /\ Echo!After(unsent, n) \in Seq(Bytes)
  BY <1>3, TextTyped, Cut
<1>5. toClient[c] \o Echo!First(unsent, n) \in Seq(Bytes)
  BY <1>4, TextTyped, ConcatProperties
<1>6. EchoTyped'
  BY <1>1, <1>4, <1>5 DEF EchoInv, EchoTyped
<1>7. NewIsUntouched'
  BY <1>1, <1>2 DEF EchoInv, EchoTyped, NewIsUntouched
<1>8. /\ toClient'[c] = toClient[c] \o Echo!First(unsent, n)
      /\ Echo!Echoing(c) = unsent
      /\ Echo!Echoing(c)' = Echo!After(unsent, n)
      /\ \A d \in Clients \ {c} : Echo!Echoing(d)' = Echo!Echoing(d)
  BY <1>1, <1>2 DEF EchoInv, EchoTyped, Echo!Echoing
<1>9. Echoed(c)'
  <2> SUFFICES ASSUME end'[c] = "open", server' # "dead"
               PROVE  sent'[c] = got'[c] \o toClient'[c] \o Echo!Echoing(c)' \o toServer'[c]
    BY DEF Echoed
  <2>1. sent[c] = got[c] \o toClient[c] \o unsent \o toServer[c]
    BY <1>1, <1>2, <1>8, EchoedByAll DEF EchoInv, Echoed
  <2>2. got[c] \o (toClient[c] \o Echo!First(unsent, n)) \o Echo!After(unsent, n)
           = got[c] \o toClient[c] \o unsent
    <3>1. got[c] \in Seq(Bytes) /\ toClient[c] \in Seq(Bytes) /\ unsent \in Seq(Bytes)
      BY TextTyped
    <3>2. \A u \in Seq(Bytes) : \A k \in 0 .. Len(u) :
            got[c] \o (toClient[c] \o Echo!First(u, k)) \o Echo!After(u, k)
              = got[c] \o toClient[c] \o u
      BY <3>1, SentBack, Zenon
    <3> QED
      BY <1>3, <3>1, <3>2, Zenon
  <2> QED
    BY <1>1, <1>8, <2>1, <2>2, Zenon
<1> QED
  BY <1>1, <1>2, <1>6, <1>7, <1>8, <1>9, OneClient DEF EchoInv, EchoTyped

(* The rest of the types: what a client keeps and what has a capacity.     *)
EchoRest ==
    /\ buffer \in [Clients -> [Echo!Units -> {"x", "q", "0"}]]
    /\ typed \in 0 .. MaxLines
    /\ \A c \in Clients : Len(toClient[c]) <= Capacity
    /\ backlog \in Seq(Clients) /\ Len(backlog) <= Backlog
    /\ watchers \subseteq Clients /\ sockets \in 0 .. MaxSockets

LEMMA EchoParameters ==
    /\ BufferSize \in Nat /\ Backlog \in Nat /\ MaxSockets \in Nat /\ Capacity \in Nat
    /\ MaxLines \in Nat
BY EchoAssumption DEF Echo!Parameters

LEMMA BufferTyped ==
    ASSUME NEW buf \in [Echo!Units -> {"x", "q", "0"}], NEW s \in Seq({"x", "q", "0"})
    PROVE  Echo!Over(buf, s) \in [Echo!Units -> {"x", "q", "0"}]
<1>1. \A i \in Echo!Units : i <= Len(s) => s[i] \in {"x", "q", "0"}
  <2> SUFFICES ASSUME NEW i \in Echo!Units, i <= Len(s) PROVE s[i] \in {"x", "q", "0"}
    OBVIOUS
  <2>1. i \in 1 .. Len(s)
    BY EchoParameters, LenProperties DEF Echo!Units
  <2> QED
    BY <2>1, ElementOfSeq
<1> QED
  BY <1>1 DEF Echo!Over, Echo!Units

\* Text fits where strings do.
LEMMA TextIsString == ASSUME NEW s \in Seq(Bytes) PROVE s \in Seq({"x", "q", "0"})
BY DEF Bytes

(* What a client sends again at the end of its input is text: it stands    *)
(* before the first terminator of its buffer.                              *)
LEMMA TypedAgain ==
    ASSUME EchoRest, NEW c \in Clients, Echo!TypeAgain(c)
    PROVE  \E line \in Seq(Bytes) : Echo!Type(c, line)
<1>1. PICK n \in 0 .. BufferSize :
        (\A i \in 1 .. n : buffer[c][i] # "0") /\ Echo!Type(c, Echo!First(buffer[c], n))
  BY DEF Echo!TypeAgain
<1>2. n \in Nat /\ n <= BufferSize /\ buffer[c] \in [1 .. BufferSize -> {"x", "q", "0"}]
  BY EchoParameters DEF EchoRest, Echo!Units
<1>3. \A i \in 1 .. n : buffer[c][i] \in Bytes
  <2> SUFFICES ASSUME NEW i \in 1 .. n PROVE buffer[c][i] \in Bytes
    OBVIOUS
  <2>1. i \in 1 .. BufferSize
    BY <1>2, EchoParameters
  <2> QED
    BY <1>1, <1>2, <2>1 DEF Bytes
<1>4. Echo!First(buffer[c], n) = [i \in 1 .. n |-> buffer[c][i]]
  BY <1>2 DEF Echo!First
<1>5. [i \in 1 .. n |-> buffer[c][i]] \in Seq(Bytes)
  BY <1>2, <1>3
<1> QED
  BY <1>1, <1>4, <1>5

LEMMA EchoRestInit == Echo!Init => EchoRest
<1> SUFFICES ASSUME Echo!Init PROVE EchoRest
  OBVIOUS
<1>1. /\ buffer = [c \in Clients |-> [i \in 1 .. BufferSize |-> "0"]]
      /\ typed = 0 /\ toClient = [c \in Clients |-> << >>] /\ backlog = << >>
      /\ watchers = {} /\ sockets = 0
  BY DEF Echo!Init
<1>2. << >> \in Seq(Clients) /\ Len(<< >>) = 0
  BY EmptySeq
<1>3. buffer \in [Clients -> [Echo!Units -> {"x", "q", "0"}]]
  BY <1>1 DEF Echo!Units
<1> QED
  BY <1>1, <1>2, <1>3, EchoParameters DEF EchoRest

LEMMA EchoRestStep == EchoInv /\ EchoRest /\ [Echo!Next]_(Echo!vars) => EchoRest'
<1> SUFFICES ASSUME EchoInv, EchoRest, [Echo!Next]_(Echo!vars) PROVE EchoRest'
  OBVIOUS
<1>1. ASSUME NEW c \in Clients, Echo!Connect(c) PROVE EchoRest'
  <2>1. UNCHANGED <<buffer, typed, toClient, watchers, sockets>>
    BY <1>1 DEF Echo!Connect, Echo!serverVars
  <2>2. backlog' = backlog \/ (Len(backlog) < Backlog /\ backlog' = Append(backlog, c))
    BY <1>1 DEF Echo!Connect
  <2>3. backlog' \in Seq(Clients) /\ Len(backlog') <= Backlog
    <3>1. backlog \in Seq(Clients) /\ Len(backlog) \in Nat /\ Len(backlog) <= Backlog
      BY LenProperties DEF EchoRest
    <3>2. Append(backlog, c) \in Seq(Clients) /\ Len(Append(backlog, c)) = Len(backlog) + 1
      BY <3>1, AppendProperties
    <3> QED
      BY <2>2, <3>1, <3>2, EchoParameters
  <2> QED
    BY <2>1, <2>3 DEF EchoRest
<1>11. ASSUME NEW c \in Clients, NEW line \in Seq(Bytes), Echo!Type(c, line) PROVE EchoRest'
  <2>1. /\ typed < MaxLines /\ typed' = typed + 1
        /\ buffer' = [buffer EXCEPT ![c] = Echo!Over(@, Append(line, "0"))]
        /\ UNCHANGED <<toClient, backlog, watchers, sockets>>
    BY <1>11 DEF Echo!Type, Echo!serverVars
  <2>2. Append(line, "0") \in Seq({"x", "q", "0"})
    <3>1. line \in Seq({"x", "q", "0"})
      BY TextIsString
    <3> QED
      BY <3>1, AppendProperties
  <2>3. buffer[c] \in [Echo!Units -> {"x", "q", "0"}]
    BY DEF EchoRest
  <2>4. Echo!Over(buffer[c], Append(line, "0")) \in [Echo!Units -> {"x", "q", "0"}]
    BY <2>2, <2>3, BufferTyped
  <2>5. typed' \in 0 .. MaxLines
    BY <2>1, EchoParameters DEF EchoRest
  <2> QED
    BY <2>1, <2>4, <2>5 DEF EchoRest
<1>2. ASSUME NEW c \in Clients, NEW line \in Lines, Echo!Type(c, line) PROVE EchoRest'
  BY <1>2, <1>11, LinesAreBytes
<1>12. ASSUME NEW c \in Clients, Echo!TypeAgain(c) PROVE EchoRest'
  <2>1. PICK line \in Seq(Bytes) : Echo!Type(c, line)
    BY <1>12, TypedAgain
  <2> QED
    BY <2>1, <1>11
<1>3. ASSUME NEW c \in Clients, NEW n \in 0 .. BufferSize, Echo!Receive(c, n) PROVE EchoRest'
  <2> DEFINE s == Echo!First(toClient[c], n)
             t == Echo!After(toClient[c], n)
  <2>1. /\ n <= Len(toClient[c])
        /\ buffer' = [buffer EXCEPT ![c] = Echo!Over(@, s)]
        /\ toClient' = [toClient EXCEPT ![c] = t]
        /\ UNCHANGED <<typed, backlog, watchers, sockets>>
    BY <1>3 DEF Echo!Receive, Echo!serverVars
  <2>2. toClient[c] \in Seq(Bytes) /\ Len(toClient[c]) \in Nat /\ n \in 0 .. Len(toClient[c])
    BY <2>1, TextTyped
  <2>3. s \in Seq({"x", "q", "0"})
    BY <2>2, Cut, TextIsString
  <2>4. Len(t) <= Len(toClient[c])
    <3>1. n + 1 \in Int
      OBVIOUS
    <3>2. Len(t) = IF n + 1 > Len(toClient[c]) THEN 0 ELSE Len(toClient[c]) - (n + 1) + 1
      BY <2>2 DEF Echo!After
    <3> QED
      BY <2>2, <3>2
  <2>5. buffer[c] \in [Echo!Units -> {"x", "q", "0"}]
    BY DEF EchoRest
  <2>6. Echo!Over(buffer[c], s) \in [Echo!Units -> {"x", "q", "0"}]
    BY <2>3, <2>5, BufferTyped
  <2>7. Len(t) <= Capacity
    <3>1. Len(t) \in Nat /\ Len(toClient[c]) <= Capacity
      BY <2>2, Cut, LenProperties DEF EchoRest
    <3> QED
      BY <2>2, <2>4, <3>1, EchoParameters
  <2> HIDE DEF s, t
  <2>8. \A d \in Clients : Len(toClient'[d]) <= Capacity
    BY <2>1, <2>7 DEF EchoRest, EchoInv, EchoTyped
  <2> QED
    BY <2>1, <2>6, <2>8 DEF EchoRest
<1>4. ASSUME NEW c \in Clients, Echo!Kill(c) PROVE EchoRest'
  BY <1>4 DEF Echo!Kill, Echo!serverVars, EchoRest
<1>5. CASE Echo!accept_cb
  <2>1. /\ backlog # << >> /\ sockets < MaxSockets
        /\ backlog' = Tail(backlog) /\ sockets' = sockets + 1
        /\ watchers' = watchers \cup {Head(backlog)}
        /\ UNCHANGED <<buffer, typed, toClient>>
    BY <1>5 DEF Echo!accept_cb, Echo!clientVars
  <2>2. /\ backlog \in Seq(Clients) /\ Len(backlog) \in Nat /\ Len(backlog) <= Backlog
    BY LenProperties DEF EchoRest
  <2>3. Head(backlog) \in Clients /\ Tail(backlog) \in Seq(Clients) /\ Len(Tail(backlog)) = Len(backlog) - 1
    BY <2>1, <2>2, HeadTailProperties
  <2>4. Len(backlog') <= Backlog
    BY <2>1, <2>2, <2>3, EchoParameters
  <2>5. sockets' \in 0 .. MaxSockets
    BY <2>1, EchoParameters DEF EchoRest
  <2> QED
    BY <2>1, <2>3, <2>4, <2>5 DEF EchoRest
<1>6. ASSUME NEW c \in Clients, NEW n \in 1 .. BufferSize, Echo!Read(c, n) PROVE EchoRest'
  BY <1>6 DEF Echo!Read, Echo!clientVars, EchoRest
<1>7. ASSUME NEW c \in Clients, Echo!ReadEnd(c) PROVE EchoRest'
  BY <1>7 DEF Echo!ReadEnd, Echo!clientVars, EchoRest
<1>8. ASSUME NEW c \in Clients, NEW n \in 1 .. BufferSize, Echo!Send(c, n) PROVE EchoRest'
  <2> DEFINE s == Echo!First(unsent, n)
  <2>1. /\ n \in 1 .. Len(unsent) /\ Len(toClient[c]) + n <= Capacity
        /\ toClient' = [toClient EXCEPT ![c] = @ \o s]
        /\ UNCHANGED <<buffer, typed, backlog, watchers, sockets>>
    BY <1>8 DEF Echo!Send, Echo!clientVars
  <2>2. unsent \in Seq(Bytes) /\ Len(unsent) \in Nat /\ toClient[c] \in Seq(Bytes)
    BY TextTyped
  <2>3. s \in Seq(Bytes) /\ Len(s) = n
    <3>1. n \in 0 .. Len(unsent)
      BY <2>1, <2>2
    <3>2. s \in Seq(Bytes)
      BY <2>2, <3>1, Cut
    <3> QED
      BY <2>1, <2>2, <3>2 DEF Echo!First
  <2> HIDE DEF s
  <2>4. Len(toClient[c] \o s) = Len(toClient[c]) + n
    BY <2>2, <2>3, ConcatProperties
  <2>5. \A d \in Clients : Len(toClient'[d]) <= Capacity
    BY <2>1, <2>4 DEF EchoRest, EchoInv, EchoTyped
  <2> QED
    BY <2>1, <2>5 DEF EchoRest
<1>9. ASSUME NEW c \in Clients, Echo!SendToNobody(c) PROVE EchoRest'
  BY <1>9 DEF Echo!SendToNobody, Echo!clientVars, EchoRest
<1>10. CASE UNCHANGED Echo!vars
  BY <1>10 DEF Echo!vars, Echo!clientVars, Echo!serverVars, EchoRest
<1> QED
  BY <1>1, <1>2, <1>3, <1>4, <1>5, <1>6, <1>7, <1>8, <1>9, <1>10, <1>12 DEF Echo!Next, Echo!Units

LEMMA EchoNextInv == EchoInv /\ EchoRest /\ [Echo!Next]_(Echo!vars) => EchoInv'
<1> SUFFICES ASSUME EchoInv, EchoRest, [Echo!Next]_(Echo!vars) PROVE EchoInv'
  OBVIOUS
<1>1. ASSUME NEW c \in Clients, Echo!Connect(c) PROVE EchoInv'
  BY <1>1, ConnectInv
<1>2. ASSUME NEW c \in Clients, NEW line \in Lines, Echo!Type(c, line) PROVE EchoInv'
  BY <1>2, TypeInv, LinesAreBytes
<1>10. ASSUME NEW c \in Clients, Echo!TypeAgain(c) PROVE EchoInv'
  <2>1. PICK line \in Seq(Bytes) : Echo!Type(c, line)
    BY <1>10, TypedAgain
  <2> QED
    BY <2>1, TypeInv
<1>3. ASSUME NEW c \in Clients, NEW n \in 0 .. BufferSize, Echo!Receive(c, n) PROVE EchoInv'
  BY <1>3, ReceiveTextInv
<1>4. ASSUME NEW c \in Clients, Echo!Kill(c) PROVE EchoInv'
  BY <1>4, KillInv
<1>5. ASSUME Echo!accept_cb \/ \E c \in Clients : Echo!ReadEnd(c) PROVE EchoInv'
  BY <1>5, WatcherInv
<1>6. ASSUME NEW c \in Clients, NEW n \in 1 .. BufferSize, Echo!Read(c, n) PROVE EchoInv'
  BY <1>6, ReadInv
<1>7. ASSUME NEW c \in Clients, NEW n \in 1 .. BufferSize, Echo!Send(c, n) PROVE EchoInv'
  BY <1>7, SendInv
<1>8. ASSUME NEW c \in Clients, Echo!SendToNobody(c) PROVE EchoInv'
  BY <1>8, SendToNobodyInv
<1>9. CASE UNCHANGED Echo!vars
  BY <1>9 DEF Echo!vars, Echo!clientVars, Echo!serverVars, EchoInv, EchoTyped, NewIsUntouched,
              EchoInOrder, Echo!EchoInOrder, Echo!Echoing
<1> QED
  BY <1>1, <1>2, <1>3, <1>4, <1>5, <1>6, <1>7, <1>8, <1>9, <1>10 DEF Echo!Next, Echo!Units

(* However reads and writes cut the text up, whoever is served in between  *)
(* and whoever ends meanwhile: what a client that is connected has sent is *)
(* what it got back, what is on its way back, what the server holds of it  *)
(* and what is on its way there, in this order.                            *)
THEOREM TextComesBackInOrder == Echo!Spec => []EchoInOrder
<1>1. EchoInv => EchoInOrder
  BY DEF EchoInv
<1> QED
  BY <1>1, EchoInit, EchoNextInv, EchoRestInit, EchoRestStep, PTL DEF Echo!Spec

(* Every variable of the echo server and its clients keeps its type, and   *)
(* no queue is longer than its capacity.                                   *)
THEOREM EchoTypeCorrect == Echo!Spec => []Echo!TypeOK
<1>1. EchoInv /\ EchoRest => Echo!TypeOK
  BY DEF EchoInv, EchoTyped, EchoRest, Bytes, Echo!TypeOK, Echo!Text
<1> QED
  BY <1>1, EchoInit, EchoNextInv, EchoRestInit, EchoRestStep, PTL DEF Echo!Spec
=============================================================================
