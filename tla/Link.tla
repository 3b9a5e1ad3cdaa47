-------------------------------- MODULE Link --------------------------------
(***************************************************************************)
(* The TCP connection from the configuration agent to each of its servers, *)
(* as the callbacks of libuv show it to the two ends: what is written      *)
(* arrives whole and in order until the connection breaks; then a prefix   *)
(* of what was on its way still arrives, and the rest is lost.  Neither    *)
(* end is told when it happens: the reader sees the end of the stream once *)
(* it has read what arrived, and a write succeeds all the same.            *)
(*                                                                         *)
(* A message is [sid, magic, req]: the session_id and random_id of its     *)
(* header and, for the properties only, the number of the request it is    *)
(* about.  Framing says when messages arrive whole.                        *)
(***************************************************************************)
EXTENDS Integers, Sequences, SequencesExt

CONSTANT Servers   \* the entries of app_server_ports

VARIABLES
    link,      \* "none", "up" or "broken"
    toServer,  \* requests on their way to each server
    toClient,  \* replies on their way back
    lost       \* history: requests and replies nobody will ever see

linkVars == <<link, toServer, toClient, lost>>

LinkInit ==
    /\ link = [s \in Servers |-> "none"]
    /\ toServer = [s \in Servers |-> << >>]
    /\ toClient = [s \in Servers |-> << >>]
    /\ lost = {}

\* uv_write of a request, or of a reply, on an open handle.
WriteToServer(s, m) ==
    IF link[s] = "up"
    THEN toServer' = [toServer EXCEPT ![s] = Append(@, m)] /\ UNCHANGED lost
    ELSE lost' = lost \cup {m} /\ UNCHANGED toServer

WriteToClient(s, m) ==
    IF link[s] = "up"
    THEN toClient' = [toClient EXCEPT ![s] = Append(@, m)] /\ UNCHANGED lost
    ELSE lost' = lost \cup {m} /\ UNCHANGED toClient

\* Only the first `requests' and the first `replies' messages still arrive.
Cut(s, requests, replies) ==
    /\ toServer' = [toServer EXCEPT ![s] = SubSeq(@, 1, requests)]
    /\ toClient' = [toClient EXCEPT ![s] = SubSeq(@, 1, replies)]

CutOff(s, requests, replies) ==
    ToSet(SubSeq(toServer[s], requests + 1, Len(toServer[s])))
        \cup ToSet(SubSeq(toClient[s], replies + 1, Len(toClient[s])))

Break(s) ==
    /\ link[s] = "up"
    /\ link' = [link EXCEPT ![s] = "broken"]
    /\ \E i \in 0 .. Len(toServer[s]), j \in 0 .. Len(toClient[s]) :
          Cut(s, i, j) /\ lost' = lost \cup CutOff(s, i, j)

=============================================================================
