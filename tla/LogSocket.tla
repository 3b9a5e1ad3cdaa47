------------------------------ MODULE LogSocket ------------------------------
(***************************************************************************)
(* The log sockets: src/logtx sends messages, src/logrx receives them,     *)
(* over datagram sockets of src/af_unix_wrapper.  A sender looks up        *)
(* LOG_SOCK_NAME for every message; a receiver removes the name, whoever   *)
(* has it, and binds its own socket to it.  Receivers come and go: the one *)
(* that had the name before keeps its socket, and what is queued there.    *)
(*                                                                         *)
(* Both programs use messages of the same length, so a message is one      *)
(* datagram and the loops of logtx and logrx take one turn for it.  A      *)
(* message is its sender and its number.                                   *)
(***************************************************************************)
EXTENDS Integers, Sequences, SequencesExt

CONSTANTS
    Senders,    \* logtx processes
    Receivers,  \* logrx processes; a restart is another one
    None,       \* no socket
    Count,      \* messages of a sender: 10
    Total,      \* messages of a receiver: 10000
    QueueLen    \* datagrams a socket holds before sendto blocks

ASSUME LogAssumption ==
    /\ {Count, Total, QueueLen} \subseteq Nat \ {0}
    /\ None \notin Receivers

VARIABLES
    name,      \* the socket LOG_SOCK_NAME leads to, open or not
    rx,        \* a receiver: "down", "unlinked", "open", "ended"
    queue,     \* the datagrams in its socket
    received,  \* the messages it has received
    tx,        \* a sender: [i, to], in main's loop and in sendto
    refused,   \* history: messages logtx returned -1 for
    lost       \* history: messages in a socket that was closed

vars == <<name, rx, queue, received, tx, refused, lost>>

Message(s, n) == [from |-> s, n |-> n]

-----------------------------------------------------------------------------
(* Plausible errors, for mutation of the definitions that follow.          *)
Sent_Again(i)    == i
Sent_Twice(i)    == i + 2
Refused_Again(i) == i
Reads_Named(r)   == rx[r] = "open" /\ name = r
-----------------------------------------------------------------------------
Init ==
    /\ name = None
    /\ rx = [r \in Receivers |-> "down"]
    /\ queue = [r \in Receivers |-> << >>]
    /\ received = [r \in Receivers |-> << >>]
    /\ tx = [s \in Senders |-> [i |-> 0, to |-> None]]
    /\ refused = {} /\ lost = {}

(* main of logrx: unlink, then log_open, whose bind fails if the name is   *)
(* there again.                                                            *)
Unlink(r) ==
    /\ rx[r] = "down"
    /\ rx' = [rx EXCEPT ![r] = "unlinked"]
    /\ name' = None
    /\ UNCHANGED <<queue, received, tx, refused, lost>>

Bind(r) ==
    /\ rx[r] = "unlinked"
    /\ IF name = None THEN name' = r /\ rx' = [rx EXCEPT ![r] = "open"]
       ELSE rx' = [rx EXCEPT ![r] = "ended"] /\ UNCHANGED name
    /\ UNCHANGED <<queue, received, tx, refused, lost>>

Reads(r) == rx[r] = "open" /\ Len(received[r]) < Total

\* One turn of main's loop: logrx.
logrx(r) ==
    /\ Reads(r)
    /\ queue[r] # << >>
    /\ received' = [received EXCEPT ![r] = Append(@, Head(queue[r]))]
    /\ queue' = [queue EXCEPT ![r] = Tail(@)]
    /\ UNCHANGED <<name, rx, tx, refused, lost>>

(* The socket is closed, by log_close after the last message or because    *)
(* the process is killed; what it holds is lost, its name stays.           *)
CloseSocket(r) ==
    /\ rx[r] = "open"
    /\ rx' = [rx EXCEPT ![r] = "ended"]
    /\ lost' = lost \cup ToSet(queue[r])
    /\ queue' = [queue EXCEPT ![r] = << >>]
    /\ UNCHANGED <<name, received, tx, refused>>

LastReceived(r) == Len(received[r]) = Total /\ CloseSocket(r)

-----------------------------------------------------------------------------
Sending(s) == tx[s].i < Count
IsOpen(r)  == r \in Receivers /\ rx[r] = "open"

(* What logtx returns is not looked at: main goes on to the next message.  *)
AfterSent(i)    == i + 1
AfterRefused(i) == i + 1

\* sendto looks the name up: ENOENT, ECONNREFUSED, or a socket to queue at.
LookUp(s) ==
    /\ Sending(s) /\ tx[s].to = None
    /\ IF IsOpen(name)
       THEN tx' = [tx EXCEPT ![s].to = name] /\ UNCHANGED refused
       ELSE /\ tx' = [tx EXCEPT ![s].i = AfterRefused(@)]
            /\ refused' = refused \cup {Message(s, tx[s].i + 1)}
    /\ UNCHANGED <<name, rx, queue, received, lost>>

\* It waits there for room, even when the name leads elsewhere by now, ...
Queue(s) ==
    LET r == tx[s].to
    IN  /\ IsOpen(r)
        /\ Len(queue[r]) < QueueLen
        /\ queue' = [queue EXCEPT ![r] = Append(@, Message(s, tx[s].i + 1))]
        /\ tx' = [tx EXCEPT ![s] = [i |-> AfterSent(@.i), to |-> None]]
        /\ UNCHANGED <<name, rx, received, refused, lost>>

\* ... and looks the name up again if the socket is closed meanwhile.
LookUpAgain(s) ==
    /\ tx[s].to # None /\ ~IsOpen(tx[s].to)
    /\ tx' = [tx EXCEPT ![s].to = None]
    /\ UNCHANGED <<name, rx, queue, received, refused, lost>>

logtx(s) == LookUp(s) \/ Queue(s) \/ LookUpAgain(s)

Next ==
    \/ \E r \in Receivers : Unlink(r) \/ Bind(r) \/ logrx(r) \/ LastReceived(r)
    \/ \E r \in Receivers : CloseSocket(r)
    \/ \E s \in Senders : LookUp(s) \/ Queue(s) \/ LookUpAgain(s)

(* Processes that can go on do so; nothing makes a receiver start or be    *)
(* killed.                                                                 *)
Fairness ==
    /\ \A s \in Senders : WF_vars(logtx(s))
    /\ \A r \in Receivers : WF_vars(Bind(r)) /\ WF_vars(logrx(r)) /\ WF_vars(LastReceived(r))

Spec == Init /\ [][Next]_vars /\ Fairness

-----------------------------------------------------------------------------
Messages == [from : Senders, n : 1 .. Count]

(* Every variable has its type. *)
TypeOK ==
    /\ name \in Receivers \cup {None}
    /\ rx \in [Receivers -> {"down", "unlinked", "open", "ended"}]
    /\ queue \in [Receivers -> Seq(Messages)]
    /\ \A r \in Receivers : Len(queue[r]) <= QueueLen
    /\ received \in [Receivers -> Seq(Messages)]
    /\ \A r \in Receivers : Len(received[r]) <= Total
    /\ tx \in [Senders -> [i : 0 .. Count, to : Receivers \cup {None}]]
    /\ refused \subseteq Messages /\ lost \subseteq Messages

(* What a receiver got and will get, oldest first. *)
Stream(r) == received[r] \o queue[r]

(* Receivers that come, take the name and go make a message be missed, but *)
(* never be doubled or change places: a receiver has the messages of each  *)
(* sender in the order they were sent, and no two receivers have the same. *)
OnceAndInOrder ==
    /\ \A r \in Receivers : \A i, j \in 1 .. Len(Stream(r)) :
          i < j /\ Stream(r)[i].from = Stream(r)[j].from => Stream(r)[i].n < Stream(r)[j].n
    /\ \A q, r \in Receivers : q # r => ToSet(Stream(q)) \cap ToSet(Stream(r)) = {}

(* A message is missed for one of two reasons: there was no receiver when  *)
(* it was sent, or its receiver was gone before reading it.                *)
NothingElseIsMissed ==
    \A s \in Senders : \A n \in 1 .. tx[s].i :
        \/ Message(s, n) \in refused \cup lost
        \/ \E r \in Receivers : Message(s, n) \in ToSet(Stream(r))

(* No sender is blocked for ever, not even by the full socket of a         *)
(* receiver that another has taken the name from.                          *)
SendersFinish == \A s \in Senders : <>(tx[s].i = Count)

(* A message that is queued is received, unless its receiver goes first,   *)
(* also when the receiver has lost its name.                               *)
QueuedIsReceived ==
    \A r \in Receivers, m \in Messages :
        m \in ToSet(queue[r]) ~> m \in ToSet(received[r]) \/ rx[r] = "ended"
=============================================================================
