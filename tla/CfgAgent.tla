------------------------------ MODULE CfgAgent ------------------------------
(***************************************************************************)
(* The configuration agent, src/cfgagent/cfgagent_main.cpp: the first      *)
(* expiry of its timer connects to every configured server, every later    *)
(* one sends a burst of delayed-response requests to the connection it     *)
(* takes for the service monitor's.  The agent is one event loop, so its   *)
(* callbacks exclude each other: the steps of a burst are one callback.    *)
(***************************************************************************)
EXTENDS Session, Link

CONSTANTS
    Monitor,  \* the server with port 8124; need not be configured
    Burst     \* requests in one burst: 3

ASSUME AgentAssumption == Burst \in Nat \ {0}

VARIABLES
    timer1Listener,  \* "connect": myTimer1Listener, "ping": myTimer1Listener2
    conn,            \* the handle of each connection
    gconnections,    \* the connections made, in the order they completed
    target,          \* the connection of the current burst
    burst,           \* requests it still has to send
    crashed          \* the agent used a pointer nobody set

agentVars == <<timer1Listener, conn, gconnections, target, burst, crashed>>

AgentInit ==
    /\ timer1Listener = "connect"
    /\ conn = [s \in Servers |-> "none"]
    /\ gconnections = << >>
    /\ target \in Servers
    /\ burst = 0
    /\ crashed = FALSE

Running == ~overrun /\ ~crashed
InLoop  == Running /\ burst = 0    \* no callback is running
-----------------------------------------------------------------------------
(* Plausible errors, for mutation of the definitions that follow. *)

AfterEof_Return == "open"
-----------------------------------------------------------------------------
\* A connection request goes to every configured server.
start_all_client_connections == [s \in Servers |-> "connecting"]

\* myTimer1Listener; it runs once.
ConnectTimer ==
    /\ InLoop
    /\ timer1Listener = "connect"
    /\ timer1Listener' = "ping"
    /\ conn' = start_all_client_connections
    /\ UNCHANGED <<sessionVars, linkVars, gconnections, target, burst, crashed>>

\* on_client_connect, with readClientConnections.
OnClientConnect(s) ==
    /\ InLoop
    /\ conn[s] = "connecting"
    /\ conn' = [conn EXCEPT ![s] = "open"]
    /\ gconnections' = Append(gconnections, s)
    /\ link' = [link EXCEPT ![s] = "up"]
    /\ UNCHANGED <<sessionVars, toServer, toClient, lost,
                   timer1Listener, target, burst, crashed>>

\* on_client_connect with status -1: nothing will try again.
OnConnectFailed(s) ==
    /\ InLoop
    /\ conn[s] = "connecting"
    /\ conn' = [conn EXCEPT ![s] = "failed"]
    /\ UNCHANGED <<sessionVars, linkVars, timer1Listener, gconnections, target, burst, crashed>>

(* The last connection when none is to the monitor's port. *)
get_service_monitor_connection ==
    IF Monitor \in ToSet(gconnections) THEN Monitor ELSE Last(gconnections)

(* The start of delayed_response_test: no test if the handle is not active. *)
Testable == gconnections # << >> /\ conn[get_service_monitor_connection] = "open"

\* myTimer1Listener2, the timer's callback from then on.
PingTimer ==
    /\ InLoop
    /\ timer1Listener = "ping"
    /\ made < MaxRequests
    /\ Testable
    /\ target' = get_service_monitor_connection
    /\ burst' = Burst
    /\ UNCHANGED <<sessionVars, linkVars, timer1Listener, conn, gconnections, crashed>>

(* With no connection at all, get_service_monitor_connection returns a      *)
(* variable it never set: null, and the test is skipped, or anything.       *)
PingUnconnected ==
    /\ InLoop
    /\ timer1Listener = "ping"
    /\ gconnections = << >>
    /\ crashed' = TRUE
    /\ UNCHANGED <<sessionVars, linkVars, timer1Listener, conn, gconnections, target, burst>>

Request(sid, magic) == [sid |-> sid, magic |-> magic, req |-> made + 1]
AfterBurst          == burst - 1

(* One turn of the loop of delayed_response_test.  uv_write cannot fail:    *)
(* the handle was found active in this same callback.                       *)
SendRequest(magic) ==
    /\ Running
    /\ burst > 0
    /\ make_new_session(made + 1, magic)
    /\ WriteToServer(target, Request(find_free_sid, magic))
    /\ burst' = IF made + 1 = MaxRequests THEN 0 ELSE AfterBurst
    /\ UNCHANGED <<link, toClient, timer1Listener, conn, gconnections, target, crashed>>

\* readData, process_msg and handle_std_reply for one reply.
OnStdReply(s) ==
    /\ InLoop
    /\ conn[s] = "open"
    /\ toClient[s] # << >>
    /\ handle_std_reply(Head(toClient[s]).sid, Head(toClient[s]).magic)
    /\ toClient' = [toClient EXCEPT ![s] = Tail(@)]
    /\ UNCHANGED <<link, toServer, lost, agentVars>>

EndOfStream(s) == link[s] = "broken" /\ toClient[s] = << >>

\* What readData leaves of a handle with nread -1: uv_close.
AfterEof == "closed"

\* readData with nread -1.  The connection stays in gconnections.
OnEof(s) ==
    /\ InLoop
    /\ conn[s] = "open"
    /\ EndOfStream(s)
    /\ conn' = [conn EXCEPT ![s] = AfterEof]
    /\ UNCHANGED <<sessionVars, linkVars, timer1Listener, gconnections, target, burst, crashed>>

=============================================================================
