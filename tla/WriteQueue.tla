----------------------------- MODULE WriteQueue -----------------------------
(***************************************************************************)
(* The memory behind what a program writes to a connection: the requests   *)
(* and the bytes that delayed_response_test of src/cfgagent and the        *)
(* handlers and send_a_std_reply of src/appcmn1 pass to uv_write.  A       *)
(* request is allocated for each message; the bytes are in an object that  *)
(* ends with the function.  libuv keeps a pointer to them: what the socket *)
(* does not take at once it reads later, when the memory has another use.  *)
(*                                                                         *)
(* A message is Units units.  A unit on the way is its message, or 0 for   *)
(* whatever the memory held by then.                                       *)
(***************************************************************************)
EXTENDS Integers, Sequences, FiniteSets, SequencesExt

CONSTANTS
    Burst,       \* messages of delayed_response_test: 3
    Units,       \* units of a message
    Room,        \* units the socket takes before the peer reads
    MaxMessages  \* bound: messages written

\* What the constants have to be.
Parameters ==
    /\ {Burst, Units, Room} \subseteq Nat \ {0}
    /\ MaxMessages \in Nat

VARIABLES
    up,         \* the handle is open
    left,       \* messages the running callback still writes
    written,    \* messages so far
    queue,      \* libuv's write_queue: [of, done], done in units
    completed,  \* requests whose callback is due
    requests,   \* uv_write_t in memory
    socket,     \* units the peer has not read
    got,        \* units it has read
    deferred    \* history: messages that were not written at once

vars == <<up, left, written, queue, completed, requests, socket, got, deferred>>
-----------------------------------------------------------------------------
(* Plausible errors, for mutation of the definitions that follow.          *)
Bytes_Unset(n)           == 0
AfterCallback_Kept(n)    == requests
-----------------------------------------------------------------------------
Init ==
    /\ up = TRUE /\ left = 0 /\ written = 0
    /\ queue = << >> /\ completed = << >> /\ requests = {}
    /\ socket = << >> /\ got = << >> /\ deferred = {}

Space    == Room - Len(socket)
Lesser(a, b) == IF a < b THEN a ELSE b

(* A callback that writes: the burst if the handle is active; a reply, to  *)
(* a request received or when its timer expires, without looking.          *)
StartBurst ==
    /\ left = 0 /\ up /\ written + Burst <= MaxMessages
    /\ left' = Burst
    /\ UNCHANGED <<up, written, queue, completed, requests, socket, got, deferred>>

StartReply ==
    /\ left = 0 /\ written < MaxMessages
    /\ left' = 1
    /\ UNCHANGED <<up, written, queue, completed, requests, socket, got, deferred>>

\* Units written at once: none if others wait.
Fits == IF queue = << >> THEN Lesser(Units, Space) ELSE 0

\* What make_msg returns: the message, while its object is there.
Bytes(n) == n

(* malloc of the request and uv_write.  On a closed handle it fails, which *)
(* only a reply can meet: nobody frees the request then.                   *)
Write ==
    LET n == written + 1
    IN  /\ left > 0
        /\ left' = left - 1
        /\ written' = n
        /\ requests' = requests \cup {n}
        /\ IF up
           THEN /\ socket' = socket \o [i \in 1 .. Fits |-> Bytes(n)]
                /\ IF Fits = Units
                   THEN completed' = Append(completed, n) /\ UNCHANGED <<queue, deferred>>
                   ELSE /\ queue' = Append(queue, [of |-> n, done |-> Fits])
                        /\ deferred' = deferred \cup {n}
                        /\ UNCHANGED completed
           ELSE UNCHANGED <<queue, completed, socket, deferred>>
        /\ UNCHANGED <<up, got>>

(* The loop: no callback runs, so nothing written is in its object now.    *)
uv__write ==
    LET head == Head(queue)
        n    == Lesser(Units - head.done, Space)
    IN  /\ left = 0 /\ queue # << >> /\ n > 0
        /\ socket' = socket \o [i \in 1 .. n |-> 0]
        /\ IF head.done + n = Units
           THEN queue' = Tail(queue) /\ completed' = Append(completed, head.of)
           ELSE queue' = << [head EXCEPT !.done = @ + n] >> \o Tail(queue) /\ UNCHANGED completed
        /\ UNCHANGED <<up, left, written, requests, got, deferred>>

\* on_write_end and on_rpc_response_end, with or without an error.
AfterCallback(n) == requests \ {n}

WriteCallback ==
    /\ left = 0 /\ completed # << >>
    /\ requests' = AfterCallback(Head(completed))
    /\ completed' = Tail(completed)
    /\ UNCHANGED <<up, left, written, queue, socket, got, deferred>>

PeerReads ==
    /\ socket # << >>
    /\ got' = Append(got, Head(socket))
    /\ socket' = Tail(socket)
    /\ UNCHANGED <<up, left, written, queue, completed, requests, deferred>>

(* readData at the end of the stream: uv_close, and the callbacks of what  *)
(* was still to be written.                                                *)
Close ==
    /\ left = 0 /\ up
    /\ up' = FALSE
    /\ queue' = << >>
    /\ completed' = completed \o [i \in 1 .. Len(queue) |-> queue[i].of]
    /\ UNCHANGED <<left, written, requests, socket, got, deferred>>

Next == StartBurst \/ StartReply \/ Write \/ uv__write \/ WriteCallback \/ PeerReads \/ Close

(* A callback goes on, the loop does what is due, and the peer reads.      *)
Fairness == WF_vars(Write) /\ WF_vars(uv__write) /\ WF_vars(WriteCallback) /\ WF_vars(PeerReads)

Spec == Init /\ [][Next]_vars /\ Fairness

-----------------------------------------------------------------------------
Ids == 1 .. MaxMessages

(* Every variable has its type.  What libuv has queued it has not written. *)
TypeOK ==
    /\ up \in BOOLEAN
    /\ left \in Nat /\ written \in 0 .. MaxMessages - left
    /\ queue \in Seq([of : Ids, done : 0 .. Units - 1])
    /\ completed \in Seq(Ids) /\ requests \subseteq Ids /\ deferred \subseteq Ids
    /\ socket \in Seq(Ids \cup {0}) /\ Len(socket) <= Room
    /\ got \in Seq(Ids \cup {0})

Arriving == got \o socket

\* The requests libuv calls back for, in the order in which it will.
Due == completed \o [i \in 1 .. Len(queue) |-> queue[i].of]

Waiting == ToSet(Due)

\* How many units there are of a message that did not wait.
Whole == IF up THEN {Units} ELSE {0, Units}

(* What is sent is right but for messages that were deferred: of any other *)
(* all units arrive, one after the other, also after deferred ones - or    *)
(* none, if the handle has been closed.  As long as every message found    *)
(* room, the peer gets what was written.                                   *)
OnlyDeferredIsSpoilt ==
    /\ \A n \in Ids \ deferred :
          n <= written => Cardinality({i \in 1 .. Len(Arriving) : Arriving[i] = n}) \in Whole
    /\ \A i, j \in 1 .. Len(Arriving) :
          i < j /\ 0 \notin {Arriving[i], Arriving[j]} => Arriving[i] <= Arriving[j]
    /\ deferred = {} => 0 \notin ToSet(Arriving)

(* A callback is called for each write once, in the order of the writes    *)
(* and with a request that nobody has freed, also when the connection is   *)
(* closed with writes outstanding; and while it is open no other request   *)
(* is in memory.                                                           *)
CalledBackOnce ==
    /\ \A i, j \in 1 .. Len(Due) : i < j => Due[i] < Due[j]
    /\ Waiting \subseteq requests
    /\ up => requests \subseteq Waiting

(* Every request libuv took is freed, also those of a peer that has gone.  *)
TakenIsFreed == \A n \in Ids : n \in Waiting ~> n \notin requests
=============================================================================
