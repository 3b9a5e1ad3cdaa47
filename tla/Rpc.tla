-------------------------------- MODULE Rpc --------------------------------
(***************************************************************************)
(* The configuration agent, its connections and its servers together.      *)
(* Any connection may break and any server may end at any moment.          *)
(***************************************************************************)
EXTENDS CfgAgent, DelayedReply

vars == <<sessionVars, linkVars, agentVars, serverVars>>

Init == SessionInit /\ LinkInit /\ AgentInit /\ ServerInit

\* A connection is made to a server that runs.
Connect(s) == up[s] /\ OnClientConnect(s) /\ UNCHANGED serverVars

AgentStep ==
    /\ \/ ConnectTimer
       \/ \E s \in Servers : OnConnectFailed(s)
       \/ PingTimer
       \/ PingUnconnected
       \/ \E magic \in Magics : SendRequest(magic)
       \/ \E s \in Servers : OnStdReply(s) \/ OnEof(s)
    /\ UNCHANGED serverVars

ServerStep == ServerNext /\ UNCHANGED <<sessionVars, agentVars>>

LinkBreaks(s) == Break(s) /\ UNCHANGED <<sessionVars, agentVars, serverVars>>

Next ==
    \/ \E s \in Servers : Connect(s) \/ LinkBreaks(s)
    \/ AgentStep
    \/ ServerStep

(* Both event loops run what is due: a callback comes to its end, a stream *)
(* that can be read or has ended is read, a timer expires.  Nothing makes  *)
(* a connection be made, break, or a server end.                           *)
AgentFairness ==
    /\ WF_vars(\E magic \in Magics : SendRequest(magic) /\ UNCHANGED serverVars)
    /\ \A s \in Servers : /\ WF_vars(OnStdReply(s) /\ UNCHANGED serverVars)
                          /\ WF_vars(OnEof(s) /\ UNCHANGED serverVars)

ServerFairness ==
    \A s \in Servers :
        /\ WF_vars(handle_delayed_response_req(s) /\ UNCHANGED <<sessionVars, agentVars>>)
        /\ \A r \in Requests :
              WF_vars(\E m \in timers[s] : /\ m.req = r /\ delayed_response_cb(s, m)
                                           /\ UNCHANGED <<sessionVars, agentVars>>)

Spec == Init /\ [][Next]_vars /\ AgentFairness /\ ServerFairness

-----------------------------------------------------------------------------
Messages == [sid : Nat, magic : Magics, req : Requests]

(* Every variable has its type. *)
TypeOK ==
    /\ SessionTypeOK
    /\ link \in [Servers -> {"none", "up", "broken"}]
    /\ toServer \in [Servers -> Seq(Messages)]
    /\ toClient \in [Servers -> Seq(Messages)]
    /\ lost \subseteq Messages
    /\ timer1Listener \in {"connect", "ping"}
    /\ conn \in [Servers -> {"none", "connecting", "open", "failed", "closed"}]
    /\ gconnections \in Seq(Servers)
    /\ target \in Servers
    /\ burst \in 0 .. Burst
    /\ crashed \in BOOLEAN
    /\ up \in [Servers -> BOOLEAN]
    /\ sconn \in [Servers -> {"open", "closed"}]
    /\ timers \in [Servers -> SUBSET Messages]

(* Where a request that has no answer is: on its way to a server, in a     *)
(* timer there, on its way back, or lost with a connection or a server.    *)
Traffic(s) == ToSet(toServer[s]) \cup timers[s] \cup ToSet(toClient[s])

Outstanding == lost \cup UNION {Traffic(s) : s \in Servers}

(* The session table and the traffic agree at every moment, for all orders *)
(* of timers, replies and broken connections: the ids in use are those of  *)
(* the requests without an answer, each holds the magic and the data of    *)
(* its request, so no reply of a server is ever unknown, and a request has *)
(* either had its callback run once or is outstanding.                     *)
PoolMatchesTraffic ==
    Running =>
        /\ used_list = {m.sid : m \in Outstanding}
        /\ \A m \in Outstanding : ob_sessions[m.sid] = [magic |-> m.magic, data |-> m.req]
        /\ \A r \in 1 .. made : calls[r] = IF \E m \in Outstanding : m.req = r THEN 0 ELSE 1

LostReqs == {m.req : m \in lost}

(* Every request is settled: its callback runs, unless it was lost with a  *)
(* connection or a server, or the agent is gone.                           *)
EveryRequestSettles ==
    \A r \in Requests : made >= r ~> calls[r] = 1 \/ r \in LostReqs \/ ~Running

(* The agent notices every broken connection, and uses it no more.         *)
BreakNoticed ==
    \A s \in Servers :
        conn[s] = "open" /\ link[s] = "broken" ~> conn[s] = "closed" \/ ~Running

(* What delayed_response_test takes for granted of the connection it gets: *)
(* it is the service monitor's, or the test is not done.                   *)
OnlyMonitorIsAsked == burst > 0 => target = Monitor

(* What the header's timestamp is there for, and what handle_std_reply     *)
(* says of a reply without a session: the session of a request that gets   *)
(* no reply is timed out, and its id is free again.                        *)
LostSessionsExpire ==
    \A r \in Requests :
        r \in LostReqs ~> \/ ~Running
                          \/ \A m \in lost : m.req = r => m.sid \notin used_list
=============================================================================
