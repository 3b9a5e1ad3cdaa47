------------------------------ MODULE MCSockets ------------------------------
(***************************************************************************)
(* Instance for TLC of the programs that talk over plain sockets: the log  *)
(* sockets or, in other behaviours, the echo server and its clients.  The  *)
(* two have nothing in common; `part' says which of them runs.             *)
(***************************************************************************)
EXTENDS LogSocket

CONSTANTS Clients, Lines, BufferSize, Backlog, MaxSockets, Capacity, MaxLines

MCLines == {<< >>, <<"q">>, <<"x", "x", "x">>}

VARIABLES
    part,
    client, buffer, typed, end, toServer, toClient, backlog,
    server, unsent, watchers, sockets, sent, got

echoVars == <<client, buffer, typed, end, toServer, toClient, backlog,
              server, unsent, watchers, sockets, sent, got>>

Echo == INSTANCE EvEcho

ASSUME EchoAssumption == Echo!Parameters

LogRuns  == part = "log"
EchoRuns == part = "echo"

SocketsInit == part \in {"log", "echo"} /\ Init /\ Echo!Init

LogStep  == LogRuns /\ Next /\ UNCHANGED <<part, echoVars>>
EchoStep == EchoRuns /\ Echo!Next /\ UNCHANGED <<part, vars>>

SocketsNext == LogStep \/ EchoStep

(* Fairness of LogSocket when it runs.  Nothing the echo server has to do  *)
(* is enabled as long as it is idle.                                       *)
LogFairness ==
    /\ \A s \in Senders : WF_vars(LogRuns /\ logtx(s))
    /\ \A r \in Receivers : WF_vars(Bind(r)) /\ WF_vars(logrx(r)) /\ WF_vars(LastReceived(r))

SocketsSpec ==
    /\ SocketsInit /\ [][SocketsNext]_<<part, vars, echoVars>>
    /\ LogFairness /\ Echo!Fairness

-----------------------------------------------------------------------------
(* EvEcho: a client gets back what it sent, in order.                      *)
EchoInOrder == Echo!EchoInOrder

(* EvEcho: a client that waits for its text gets some, unless the server   *)
(* is blocked by another or has no descriptor left.                        *)
WaitingIsAnswered == Echo!WaitingIsAnswered

(* EvEcho: the watcher of a client that has ended is stopped.              *)
EndedIsForgotten == Echo!EndedIsForgotten

(* LogSocket: no sender is blocked for ever.                               *)
AllSendersFinish == LogRuns => SendersFinish
=============================================================================
