------------------------------ MODULE LogConfig ------------------------------
(***************************************************************************)
(* The log configuration and the publishing of src/appcmn1: what           *)
(* sample_global_log_config and periodic_publish of src/cfgagent send over *)
(* the agent's connections, and what the handlers of src/appcmn1 answer.   *)
(* The agent and the service monitor register all handlers, for both ends  *)
(* of a connection; ca_log, to which the agent connects too, has none.     *)
(* (Both senders are there to be tried: at this commit no call of them is  *)
(* compiled.)                                                              *)
(*                                                                         *)
(* A message is [type, level, of]: its payload_type, the log_level of a    *)
(* configuration and, for the properties only, which sending it goes back  *)
(* to.  What make_msg wrote can always be parsed.                          *)
(***************************************************************************)
EXTENDS Link, FiniteSets

CONSTANTS
    Agent,    \* the configuration agent
    Self,     \* the entry of app_server_ports that is the agent's own port
    Silent,   \* those of programs without handlers: of ca_log
    MaxSends  \* bound: calls of the two senders

ASSUME LogConfigAssumption ==
    /\ Agent \notin Servers
    /\ Silent \subseteq Servers \ {Self}
    /\ MaxSends \in Nat

VARIABLES
    LL_C,      \* the severity each program logs up to
    sends,     \* calls so far
    sentTo,    \* history: what was sent on each connection, a set
    answered   \* history: publish replies handled on each connection

vars == <<linkVars, LL_C, sends, sentTo, answered>>

LS_CRITICAL == 2
LS_DEBUG    == 7

Programs == {Agent} \cup (Servers \ {Self})

\* The agent connects to itself as well.
Program(s) == IF s = Self THEN Agent ELSE s

Message(type, level) == [type |-> type, level |-> level, of |-> sends + 1]
-----------------------------------------------------------------------------
(* Plausible errors, for mutation of the definitions that follow.          *)
GlcReply_Typed(m)       == [m EXCEPT !.type = "glc_reply", !.level = LS_CRITICAL]
GlcReply_Echoed(m)      == m
PublishReply_Twice(m)   == [i \in 1 .. 2 |-> [m EXCEPT !.type = "publish_reply"]]
-----------------------------------------------------------------------------
Init ==
    /\ LinkInit
    /\ LL_C = [p \in Programs |-> LS_DEBUG]
    /\ sends = 0
    /\ sentTo = [s \in Servers |-> {}]
    /\ answered = [s \in Servers |-> << >>]

\* on_client_connect: the connection is in gconnections from now on.
Connect(s) ==
    /\ link[s] = "none"
    /\ link' = [link EXCEPT ![s] = "up"]
    /\ UNCHANGED <<toServer, toClient, lost, LL_C, sends, sentTo, answered>>

gconnections == {s \in Servers : link[s] # "none"}

\* The same message to every connection; on a closed one uv_write fails.
SendToAll(m) ==
    LET up == {s \in Servers : link[s] = "up"}
    IN  /\ sends < MaxSends
        /\ sends' = sends + 1
        /\ toServer' = [s \in Servers |-> IF s \in up THEN Append(toServer[s], m) ELSE toServer[s]]
        /\ sentTo' = [s \in Servers |-> IF s \in up THEN sentTo[s] \cup {m} ELSE sentTo[s]]
        /\ lost' = lost \cup (IF gconnections \subseteq up THEN {} ELSE {m})
        /\ UNCHANGED <<link, toClient, LL_C, answered>>

sample_global_log_config == gconnections # {} /\ SendToAll(Message("glc_req", LS_DEBUG))
periodic_publish         == gconnections # {} /\ SendToAll(Message("publish_req", 0))

(* handle_glc_req answers with another A1_GlobalLogConfig, whose           *)
(* constructor gives it the type of a request.                             *)
GlcReply(m) == [m EXCEPT !.level = LS_CRITICAL]

\* handle_publish_req.
PublishReply(m) == << [m EXCEPT !.type = "publish_reply"] >>

\* What is written back: nothing by handle_glc_reply and handle_publish_reply.
Replies(m) ==
    CASE m.type = "glc_req"     -> << GlcReply(m) >>
      [] m.type = "publish_req" -> PublishReply(m)
      [] OTHER                  -> << >>

\* set_global_log_severity, by handle_glc_req alone.
Severity(level, m) == IF m.type = "glc_req" THEN m.level ELSE level

\* process_msg for one message, at the end of the connection it was sent to ...
HandledByServer(s) ==
    /\ s \notin Silent /\ toServer[s] # << >>
    /\ LET m == Head(toServer[s])
       IN  /\ LL_C' = [LL_C EXCEPT ![Program(s)] = Severity(@, m)]
           /\ toServer' = [toServer EXCEPT ![s] = Tail(@)]
           /\ toClient' = [toClient EXCEPT ![s] = @ \o IF link[s] = "up" THEN Replies(m) ELSE << >>]
           /\ lost' = lost \cup (IF link[s] = "up" THEN {} ELSE ToSet(Replies(m)))
    /\ UNCHANGED <<link, sends, sentTo, answered>>

\* ... which skips it if no handler is registered ...
SkippedByServer(s) ==
    /\ s \in Silent /\ toServer[s] # << >>
    /\ toServer' = [toServer EXCEPT ![s] = Tail(@)]
    /\ UNCHANGED <<link, toClient, lost, LL_C, sends, sentTo, answered>>

\* ... and at the agent's.
HandledByAgent(s) ==
    /\ toClient[s] # << >>
    /\ LET m == Head(toClient[s])
       IN  /\ LL_C' = [LL_C EXCEPT ![Agent] = Severity(@, m)]
           /\ toClient' = [toClient EXCEPT ![s] = Tail(@)]
           /\ toServer' = [toServer EXCEPT ![s] = @ \o IF link[s] = "up" THEN Replies(m) ELSE << >>]
           /\ lost' = lost \cup (IF link[s] = "up" THEN {} ELSE ToSet(Replies(m)))
           /\ answered' = [answered EXCEPT ![s] = IF m.type = "publish_reply" THEN Append(@, m.of) ELSE @]
    /\ UNCHANGED <<link, sends, sentTo>>

BreakLink(s) == Break(s) /\ UNCHANGED <<LL_C, sends, sentTo, answered>>

Next ==
    \/ \E s \in Servers : Connect(s)
    \/ sample_global_log_config
    \/ periodic_publish
    \/ \E s \in Servers : HandledByServer(s)
    \/ \E s \in Servers : SkippedByServer(s)
    \/ \E s \in Servers : HandledByAgent(s)
    \/ \E s \in Servers : BreakLink(s)

(* What has arrived is read.  No connection has to be made, or to break.   *)
Fairness ==
    \A s \in Servers : /\ WF_vars(HandledByServer(s)) /\ WF_vars(SkippedByServer(s))
                       /\ WF_vars(HandledByAgent(s))

Spec == Init /\ [][Next]_vars /\ Fairness

-----------------------------------------------------------------------------
Severities == {LS_CRITICAL, LS_DEBUG}

Messages ==
    [type : {"glc_req"}, level : Severities, of : Nat]
        \cup [type : {"publish_req", "publish_reply"}, level : {0}, of : Nat]

(* Every variable has its type. *)
TypeOK ==
    /\ link \in [Servers -> {"none", "up", "broken"}]
    /\ toServer \in [Servers -> Seq(Messages)]
    /\ toClient \in [Servers -> Seq(Messages)]
    /\ lost \subseteq Messages
    /\ LL_C \in [Programs -> Severities]
    /\ sends \in Nat
    /\ sentTo \in [Servers -> SUBSET Messages]
    /\ answered \in [Servers -> Seq(Nat)]

Sent(s, type) == {m \in sentTo[s] : m.type = type}

\* Where in a sequence of messages those that go back to sending n are.
Places(seq, n) == {i \in 1 .. Len(seq) : seq[i].of = n}

\* What goes back to sending n, counted on both ways of a connection.
UnderWay(s, n) == Cardinality(Places(toServer[s], n)) + Cardinality(Places(toClient[s], n))

(* Whatever else is on the connection, a publish request is answered once  *)
(* and in its turn: the replies so far are to the first of the requests,   *)
(* in the order they were sent, and on an unbroken connection to a program *)
(* with handlers each request is answered or under way, never both and     *)
(* never twice.                                                            *)
PublishedOnceInOrder ==
    \A s \in Servers :
        LET requests == {m.of : m \in Sent(s, "publish_req")}
            replies  == ToSet(answered[s])
        IN  /\ \A i, j \in 1 .. Len(answered[s]) : i < j => answered[s][i] < answered[s][j]
            /\ replies \subseteq requests
            /\ \A n \in requests, a \in replies : n < a => n \in replies
            /\ link[s] = "up" /\ s \notin Silent =>
                  \A n \in requests : UnderWay(s, n) = IF n \in replies THEN 0 ELSE 1

(* A configuration never leaves the connection it was sent on: the answer  *)
(* to it is a configuration too, which the other program answers in turn,  *)
(* and so on.  There is always exactly one for each that was sent, unless  *)
(* it went to a program without handlers.                                  *)
ConfigsNeverSettle ==
    \A s \in Servers \ Silent : link[s] = "up" =>
        \A m \in Sent(s, "glc_req") : UnderWay(s, m.of) = 1

(* The level that was sent does not last: at both ends it becomes that of  *)
(* the answer, LS_CRITICAL, whatever was asked for.                        *)
LevelBecomesCritical ==
    \A s \in Servers \ Silent :
        Sent(s, "glc_req") # {} /\ link[s] = "up"
          ~> \/ link[s] # "up"
             \/ LL_C[Program(s)] = LS_CRITICAL /\ LL_C[Agent] = LS_CRITICAL
=============================================================================
