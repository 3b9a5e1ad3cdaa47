------------------------------- MODULE EvEcho -------------------------------
(***************************************************************************)
(* The echo server of src/proto_ev_server1, one libev loop, and its        *)
(* clients, src/proto_ev_client1, which send a line and wait for text.     *)
(* TCP keeps the order of bytes and nothing else: what one side sends at   *)
(* once the other may get in pieces.  A byte is a unit, "x" or "q"; the    *)
(* terminator of a string in a client's buffer is "0".  The server's count *)
(* of its clients is printed and not used, and left out.                   *)
(***************************************************************************)
EXTENDS Integers, Sequences, SequencesExt

CONSTANTS
    Clients,     \* the client processes
    Lines,       \* what a user may type
    BufferSize,  \* BUFFER_SIZE of both programs
    Backlog,     \* connections that wait for accept before connect blocks
    MaxSockets,  \* descriptors the server may have for clients
    Capacity,    \* units the socket of a client holds before send blocks
    MaxLines     \* bound: lines typed in one behaviour, for all clients

\* What the constants have to be.
Parameters ==
    /\ {BufferSize, Backlog, MaxSockets, Capacity} \subseteq Nat \ {0}
    /\ MaxLines \in Nat
    /\ \A line \in Lines : line \in Seq({"x", "q"}) /\ Len(line) < BufferSize
    /\ "loop" \notin Clients /\ "dead" \notin Clients    \* see `server'

VARIABLES
    client,         \* "new", "gets", "recv", "ended"
    buffer,         \* the buffer of a client
    typed,          \* lines so far
    end,            \* a client's end: "none", "open", "closed", "reset"
    toServer,       \* units under way
    toClient,
    backlog,        \* connections that wait for accept
    server,         \* "loop", or the client its send is for, or "dead"
    unsent,         \* what that send has left
    watchers,       \* the clients with a watcher
    sockets,        \* descriptors taken: none is ever closed
    sent, got       \* history: units a client sent and received

clientVars == <<client, buffer, typed, sent, got>>
serverVars == <<server, unsent, watchers, sockets>>
vars       == <<clientVars, serverVars, end, toServer, toClient, backlog>>

-----------------------------------------------------------------------------
(* Plausible errors, for mutation of the definitions that follow.          *)
Echo_Terminated(chunk) == Append(chunk, "0")
Unsent_Once(rest, n)   == << >>
AtEnd_Clean(c)         == toServer[c] = << >> /\ end[c] = "closed"
-----------------------------------------------------------------------------
Init ==
    /\ client = [c \in Clients |-> "new"]
    /\ buffer = [c \in Clients |-> [i \in 1 .. BufferSize |-> "0"]]
    /\ typed = 0
    /\ end = [c \in Clients |-> "none"]
    /\ toServer = [c \in Clients |-> << >>] /\ toClient = [c \in Clients |-> << >>]
    /\ backlog = << >>
    /\ server = "loop" /\ unsent = << >>
    /\ watchers = {} /\ sockets = 0
    /\ sent = [c \in Clients |-> << >>] /\ got = [c \in Clients |-> << >>]

First(s, n) == SubSeq(s, 1, n)
After(s, n) == SubSeq(s, n + 1, Len(s))

\* What is written at the start of a buffer.
Over(buf, s) == [i \in 1 .. BufferSize |-> IF i <= Len(s) THEN s[i] ELSE buf[i]]
IsQ(buf)     == buf[1] = "q" /\ buf[2] = "0"

(* The socket of a client that ends: its peer gets an error if there was   *)
(* something it had not read.                                              *)
Closed(c) == end' = [end EXCEPT ![c] = IF toClient[c] = << >> THEN "closed" ELSE "reset"]

-----------------------------------------------------------------------------
Connect(c) ==
    /\ client[c] = "new"
    /\ \/ /\ server # "dead" /\ Len(backlog) < Backlog
          /\ backlog' = Append(backlog, c)
          /\ end' = [end EXCEPT ![c] = "open"]
          /\ client' = [client EXCEPT ![c] = "gets"]
       \/ /\ server = "dead"
          /\ client' = [client EXCEPT ![c] = "ended"]
          /\ UNCHANGED <<backlog, end>>
    /\ UNCHANGED <<buffer, typed, sent, got, serverVars, toServer, toClient>>

(* gets and send.  Once the server is gone a send is lost, or ends the     *)
(* client by SIGPIPE.                                                      *)
Type(c, line) ==
    /\ client[c] = "gets" /\ typed < MaxLines
    /\ typed' = typed + 1
    /\ buffer' = [buffer EXCEPT ![c] = Over(@, Append(line, "0"))]
    /\ \/ /\ client' = [client EXCEPT ![c] = "recv"]
          /\ toServer' = [toServer EXCEPT ![c] = @ \o line]
          /\ sent' = [sent EXCEPT ![c] = @ \o line]
          /\ UNCHANGED end
       \/ /\ server = "dead" /\ line # << >>
          /\ client' = [client EXCEPT ![c] = "ended"]
          /\ Closed(c)
          /\ UNCHANGED <<toServer, sent>>
    /\ UNCHANGED <<got, serverVars, toClient, backlog>>

\* At the end of its input gets leaves the buffer, whose text is sent again.
\* (What may follow a buffer without a terminator is left out.)
TypeAgain(c) ==
    \E n \in 0 .. BufferSize :
        /\ \A i \in 1 .. n : buffer[c][i] # "0"
        /\ n < BufferSize => buffer[c][n + 1] = "0"
        /\ Type(c, First(buffer[c], n))

\* recv of n units, 0 if the server is gone, and the test of the loop.
Receive(c, n) ==
    /\ client[c] = "recv"
    /\ n <= Len(toClient[c]) /\ n <= BufferSize
    /\ n = 0 => server = "dead" /\ toClient[c] = << >>
    /\ buffer' = [buffer EXCEPT ![c] = Over(@, First(toClient[c], n))]
    /\ toClient' = [toClient EXCEPT ![c] = After(@, n)]
    /\ got' = [got EXCEPT ![c] = @ \o First(toClient[c], n)]
    /\ IF IsQ(buffer'[c])
       THEN /\ client' = [client EXCEPT ![c] = "ended"]
            /\ end' = [end EXCEPT ![c] = IF toClient'[c] = << >> THEN "closed" ELSE "reset"]
       ELSE client' = [client EXCEPT ![c] = "gets"] /\ UNCHANGED end
    /\ UNCHANGED <<typed, sent, serverVars, toServer, backlog>>

\* A signal.
Kill(c) ==
    /\ client[c] \in {"gets", "recv"}
    /\ client' = [client EXCEPT ![c] = "ended"]
    /\ Closed(c)
    /\ UNCHANGED <<buffer, typed, sent, got, serverVars, toServer, toClient, backlog>>

-----------------------------------------------------------------------------
(* Without a descriptor accept fails: the connection stays in the backlog, *)
(* and libev calls accept_cb again and again.                              *)
accept_cb ==
    /\ server = "loop"
    /\ backlog # << >> /\ sockets < MaxSockets
    /\ backlog' = Tail(backlog)
    /\ sockets' = sockets + 1
    /\ watchers' = watchers \cup {Head(backlog)}
    /\ UNCHANGED <<clientVars, server, unsent, end, toServer, toClient>>

\* read_cb on data, up to its send of what was received.
Echo(chunk) == chunk

Read(c, n) ==
    /\ server = "loop" /\ c \in watchers
    /\ n \in 1 .. BufferSize /\ n <= Len(toServer[c])
    /\ toServer' = [toServer EXCEPT ![c] = After(@, n)]
    /\ server' = c
    /\ unsent' = Echo(First(toServer[c], n))
    /\ UNCHANGED <<clientVars, watchers, sockets, end, toClient, backlog>>

AtEnd(c) == toServer[c] = << >> /\ end[c] # "open"

\* read_cb at the end of the stream.  recv may return -1 before: ignored.
ReadEnd(c) ==
    /\ server = "loop" /\ c \in watchers
    /\ AtEnd(c)
    /\ watchers' = watchers \ {c}
    /\ UNCHANGED <<clientVars, server, unsent, sockets, end, toServer, toClient, backlog>>

(* send blocks until all is sent; nothing else runs meanwhile. *)
Unsent(rest, n) == After(rest, n)

Send(c, n) ==
    /\ server = c /\ end[c] = "open"
    /\ n \in 1 .. Len(unsent) /\ Len(toClient[c]) + n <= Capacity
    /\ toClient' = [toClient EXCEPT ![c] = @ \o First(unsent, n)]
    /\ unsent' = Unsent(unsent, n)
    /\ server' = IF unsent' = << >> THEN "loop" ELSE c
    /\ UNCHANGED <<clientVars, watchers, sockets, end, toServer, backlog>>

(* The client is gone: the first send is answered with a reset, a later    *)
(* one fails, with or without SIGPIPE, which nobody handles.               *)
SendToNobody(c) ==
    /\ server = c /\ end[c] # "open"
    /\ end' = [end EXCEPT ![c] = "reset"]
    /\ unsent' = << >>
    /\ server' \in IF end[c] = "reset" THEN {"loop", "dead"} ELSE {"loop"}
    /\ UNCHANGED <<clientVars, watchers, sockets, toServer, toClient, backlog>>

Units == 1 .. BufferSize

Next ==
    \/ \E c \in Clients : Connect(c)
    \/ \E c \in Clients : \E line \in Lines : Type(c, line)
    \/ \E c \in Clients : TypeAgain(c)
    \/ \E c \in Clients : \E n \in 0 .. BufferSize : Receive(c, n)
    \/ \E c \in Clients : Kill(c)
    \/ accept_cb
    \/ \E c \in Clients : \E n \in Units : Read(c, n)
    \/ \E c \in Clients : ReadEnd(c)
    \/ \E c \in Clients : \E n \in Units : Send(c, n)
    \/ \E c \in Clients : SendToNobody(c)

(* The loop serves every watcher, recv and send return when they can.      *)
(* Nobody has to type, or to kill a client.                                *)
Fairness ==
    /\ SF_vars(accept_cb)
    /\ \A c \in Clients :
          /\ WF_vars(\E n \in 0 .. BufferSize : Receive(c, n))
          /\ SF_vars(ReadEnd(c) \/ \E n \in Units : Read(c, n))
          /\ WF_vars(\E n \in Units : Send(c, n))
          /\ WF_vars(SendToNobody(c))

Spec == Init /\ [][Next]_vars /\ Fairness

-----------------------------------------------------------------------------
Text == Seq({"x", "q"})

(* Every variable has its type, and no queue is longer than its capacity.  *)
TypeOK ==
    /\ client \in [Clients -> {"new", "gets", "recv", "ended"}]
    /\ buffer \in [Clients -> [Units -> {"x", "q", "0"}]]
    /\ typed \in 0 .. MaxLines
    /\ end \in [Clients -> {"none", "open", "closed", "reset"}]
    /\ {toServer, toClient, sent, got} \subseteq [Clients -> Text]
    /\ \A c \in Clients : Len(toClient[c]) <= Capacity
    /\ backlog \in Seq(Clients) /\ Len(backlog) <= Backlog
    /\ server \in Clients \cup {"loop", "dead"} /\ unsent \in Text
    /\ watchers \subseteq Clients /\ sockets \in 0 .. MaxSockets

(* What the server has of a client and has not sent back yet.              *)
Echoing(c) == IF server = c THEN unsent ELSE << >>

(* However reads and writes cut the text up, and whatever the other        *)
(* clients do, a client gets back what it sent: all of it is received, on  *)
(* its way back, in the server, or on its way there, in this order.        *)
EchoInOrder ==
    \A c \in Clients :
        end[c] = "open" /\ server # "dead"
          => sent[c] = got[c] \o toClient[c] \o Echoing(c) \o toServer[c]

(* Everybody waits for one client that does not read, a user at its prompt.*)
Blocked == \E c \in Clients : server = c /\ client[c] = "gets" /\ Len(toClient[c]) = Capacity

Turned(c) == sockets = MaxSockets /\ c \in ToSet(backlog)

(* A client that waits and has text outstanding gets some, or learns that  *)
(* the server is gone.  The ways out are known: the server waits in send   *)
(* for another client, or has no descriptor left to accept this one.  A    *)
(* client that sent an empty line and has nothing outstanding is not meant:*)
(* it waits for ever, and the server for it.                               *)
WaitingIsAnswered ==
    \A c \in Clients :
        client[c] = "recv" /\ Len(got[c]) < Len(sent[c])
          ~> client[c] # "recv" \/ Blocked \/ Turned(c)

(* The watcher of a client that has ended is stopped in the end.           *)
EndedIsForgotten ==
    \A c \in Clients :
        client[c] = "ended" /\ c \in watchers ~> c \notin watchers \/ server = "dead" \/ Blocked
=============================================================================
