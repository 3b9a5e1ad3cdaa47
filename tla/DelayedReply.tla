---------------------------- MODULE DelayedReply ----------------------------
(***************************************************************************)
(* The server's side of a delayed-response request, src/appcmn1/           *)
(* pbcommon.cpp in any program that calls register_all_cbs: every request  *)
(* starts a timer of one to ten seconds that holds its session_id, its     *)
(* random_id and the connection, and the timer's callback sends the reply. *)
(* The delays are drawn by rand(), so timers expire in any order.          *)
(***************************************************************************)
EXTENDS Link

VARIABLES
    up,      \* the server process runs
    sconn,   \* its end of the connection: "open" until uv_close
    timers   \* the reply_session_data of its timers: a set of messages

serverVars == <<up, sconn, timers>>

ServerInit ==
    /\ up = [s \in Servers |-> TRUE]
    /\ sconn = [s \in Servers |-> "open"]
    /\ timers = [s \in Servers |-> {}]

-----------------------------------------------------------------------------
(* Plausible errors, for mutation of the definitions that follow. *)

Started_Single(pending, m)  == {m}
Expired_Kept(pending, m)    == pending
-----------------------------------------------------------------------------
(* start_new_timer, and a timer that has called its callback. *)
Started(pending, m) == pending \cup {m}
Expired(pending, m) == pending \ {m}

handle_delayed_response_req(s) ==
    /\ up[s] /\ sconn[s] = "open"
    /\ toServer[s] # << >>
    /\ timers' = [timers EXCEPT ![s] = Started(@, Head(toServer[s]))]
    /\ toServer' = [toServer EXCEPT ![s] = Tail(@)]
    /\ UNCHANGED <<link, toClient, lost, up, sconn>>

(* delayed_response_cb with send_a_std_reply: on a handle that was closed   *)
(* since, uv_write fails and nobody looks.                                  *)
delayed_response_cb(s, m) ==
    /\ up[s]
    /\ m \in timers[s]
    /\ timers' = [timers EXCEPT ![s] = Expired(@, m)]
    /\ IF sconn[s] = "open"
       THEN WriteToClient(s, m)
       ELSE lost' = lost \cup {m} /\ UNCHANGED toClient
    /\ UNCHANGED <<link, toServer, up, sconn>>

\* readData with nread -1.  The timers of the connection stay.
ServerEof(s) ==
    /\ up[s] /\ sconn[s] = "open"
    /\ link[s] = "broken"
    /\ toServer[s] = << >>
    /\ sconn' = [sconn EXCEPT ![s] = "closed"]
    /\ UNCHANGED <<linkVars, up, timers>>

(* The process ends: its timers and what it had not read are gone, and the  *)
(* connection breaks.  Service monitor starts no process a second time.     *)
ServerExit(s) ==
    /\ up[s]
    /\ up' = [up EXCEPT ![s] = FALSE]
    /\ timers' = [timers EXCEPT ![s] = {}]
    /\ link' = [link EXCEPT ![s] = IF @ = "up" THEN "broken" ELSE @]
    /\ \E j \in 0 .. Len(toClient[s]) :
          Cut(s, 0, j) /\ lost' = lost \cup timers[s] \cup CutOff(s, 0, j)
    /\ UNCHANGED sconn

ServerNext ==
    \E s \in Servers :
        \/ handle_delayed_response_req(s)
        \/ \E m \in timers[s] : delayed_response_cb(s, m)
        \/ ServerEof(s)
        \/ ServerExit(s)

=============================================================================
