----------------------------- MODULE PitchCatch -----------------------------
(***************************************************************************)
(* Pitch and catch, src/blogsender/main.c and src/blogserver/main.c: a     *)
(* throughput test over UNIX stream sockets.  Catch listens on a name and  *)
(* forks a child for every connection; a pitch and its child exchange a    *)
(* bullet, then the data goes one way, then a bullet comes back.  Both     *)
(* sides use the same two loops, send_data and recv_data, over sockets     *)
(* that block.                                                             *)
(*                                                                         *)
(* What the bytes are does not matter to the programs, only how many they  *)
(* still expect, so a direction of a connection is the number of units     *)
(* under way.                                                              *)
(***************************************************************************)
EXTENDS Integers, Sequences, SequencesExt

CONSTANTS
    Pitches,    \* the pitch processes
    Sizes,      \* what a pitch may be told to send: units of data
    Bullet,     \* units of a struct bullet
    BufSize,    \* BUFSIZE
    Capacity,   \* units a socket holds before send blocks
    Backlog,    \* connections that wait for accept before connect blocks
    MaxFaults   \* bound: signals and failed forks in one behaviour

ASSUME PitchCatchAssumption ==
    /\ Sizes \subseteq Nat
    /\ {Bullet, BufSize, Capacity, Backlog} \subseteq Nat \ {0}
    /\ MaxFaults \in Nat

VARIABLES
    bytes,    \* of each pitch, and in its bullet
    proc,     \* each process: [state, call, buflen, more]
    socket,   \* its end of the connection: [end, input]
    backlog,  \* connections that were not accepted yet
    parent,   \* the catch process that accepts is up
    name,     \* SOCKNAME exists
    faults    \* signals and failed forks so far

vars == <<bytes, proc, socket, backlog, parent, name, faults>>

Sides == {"pitch", "catch"}
Peer  == [pitch |-> "catch", catch |-> "pitch"]

-----------------------------------------------------------------------------
(* Plausible errors, for mutation of the definitions that follow.          *)
Dialogue_Hasty     == [pitch |-> <<"send", "recv", "send", "recv">>,
                       catch |-> <<"recv", "recv", "send", "send">>]
Rest_Once(s, n)    == 0
Exited_Ignored(s)  == s
-----------------------------------------------------------------------------
(* The dialogue: the third call is made in a loop until all the data has   *)
(* gone, the others move a bullet once.                                    *)
Dialogue == [pitch |-> <<"send", "recv", "send", "recv">>,
             catch |-> <<"recv", "send", "recv", "send">>]
Data     == 3

(* The size of the next block of data when i are left: sendsize, recvsize. *)
Chunk(i) == IF BufSize < i THEN BufSize ELSE i

(* A process at the start of its k-th call, and at its end. *)
Calling(k, size) == [state |-> "run", call |-> k, buflen |-> size, more |-> 0]
Done             == [state |-> "done", call |-> 5, buflen |-> 0, more |-> 0]

Block(left) == [Calling(Data, Chunk(left)) EXCEPT !.more = left - Chunk(left)]

AtCall(k, total) ==
    CASE k = 5                 -> Done
      [] k = Data /\ total = 0 -> Calling(k + 1, Bullet)
      [] k = Data /\ total > 0 -> Block(total)
      [] OTHER                 -> Calling(k, Bullet)

(* What is left of the call after n units of it. *)
Rest(s, n) == s.buflen - n

Moved(s, n, total) ==
    IF Rest(s, n) > 0 THEN [s EXCEPT !.buflen = Rest(s, n)]
    ELSE IF s.more > 0 THEN Block(s.more)
    ELSE AtCall(s.call + 1, total)

(* exit(0) after perror, and the end by a signal. *)
Exited(s) == [s EXCEPT !.state = "failed"]
Killed(s) == [s EXCEPT !.state = "failed"]

(* The kernel closes the ends of a process that ends; its peer gets an     *)
(* error, not the end of the stream, if there was input nobody read.       *)
Closed(end) == [end |-> IF end.input > 0 THEN "reset" ELSE "closed", input |-> 0]
Open        == [end |-> "open", input |-> 0]

Init ==
    /\ bytes \in [Pitches -> Sizes]
    /\ proc = [side \in Sides |-> [p \in Pitches |->
                  [state |-> "none", call |-> 0, buflen |-> 0, more |-> 0]]]
    /\ socket = [side \in Sides |-> [p \in Pitches |-> [end |-> "none", input |-> 0]]]
    /\ backlog = << >>
    /\ parent = TRUE
    /\ name = TRUE
    /\ faults = 0

Running(side, p) == proc[side][p].state = "run"

(* Each child has the listening socket too: close(s) is commented out. *)
Listening == parent \/ \E p \in Pitches : Running("catch", p)

(* When nobody has the listening socket any more, what waits is reset. *)
Settle(sockets) ==
    IF Listening'
    THEN socket' = sockets /\ UNCHANGED backlog
    ELSE /\ backlog' = << >>
         /\ socket' = [sockets EXCEPT !["catch"] = [p \in Pitches |->
               IF p \in ToSet(backlog) THEN [end |-> "reset", input |-> 0] ELSE @[p]]]

-----------------------------------------------------------------------------
\* connect of a pitch.  It blocks while the backlog is full.
Connect(p) ==
    /\ proc["pitch"][p].state = "none"
    /\ name /\ Listening
    /\ Len(backlog) < Backlog
    /\ backlog' = Append(backlog, p)
    /\ proc' = [proc EXCEPT !["pitch"][p] = AtCall(1, bytes[p])]
    /\ socket' = [socket EXCEPT !["pitch"][p] = Open, !["catch"][p] = Open]
    /\ UNCHANGED <<bytes, parent, name, faults>>

ConnectFails(p) ==
    /\ proc["pitch"][p].state = "none"
    /\ ~name \/ ~Listening
    /\ proc' = [proc EXCEPT !["pitch"][p] = Exited(@)]
    /\ UNCHANGED <<bytes, socket, backlog, parent, name, faults>>

\* accept, fork, and close(ns) in the parent.
Accept ==
    /\ parent
    /\ backlog # << >>
    /\ backlog' = Tail(backlog)
    /\ proc' = [proc EXCEPT !["catch"][Head(backlog)] = AtCall(1, bytes[Head(backlog)])]
    /\ UNCHANGED <<bytes, socket, parent, name, faults>>

\* fork returns -1, which is taken for the parent's side of it.
ForkFails ==
    /\ parent
    /\ backlog # << >>
    /\ faults < MaxFaults
    /\ faults' = faults + 1
    /\ backlog' = Tail(backlog)
    /\ socket' = [socket EXCEPT !["catch"][Head(backlog)] = Closed(@)]
    /\ UNCHANGED <<bytes, proc, parent, name>>

-----------------------------------------------------------------------------
In(side, p, op) == Running(side, p) /\ Dialogue[side][proc[side][p].call] = op

(* A process that moved n units; after the last it closes its end. *)
Advance(side, p, n, sockets) ==
    /\ proc' = [proc EXCEPT ![side][p] = Moved(@, n, bytes[p])]
    /\ UNCHANGED <<bytes, parent, name, faults>>
    /\ Settle(IF proc'[side][p].state = "done"
              THEN [sockets EXCEPT ![side][p] = Closed(@)] ELSE sockets)

(* One turn of send_data, whose send takes n units; the last send of catch *)
(* is not in a loop, but a send that blocks takes them all.                *)
Send(side, p, n) ==
    /\ In(side, p, "send")
    /\ n <= proc[side][p].buflen
    /\ socket[Peer[side]][p].end = "open"
    /\ socket[Peer[side]][p].input + n <= Capacity
    /\ Advance(side, p, n, [socket EXCEPT ![Peer[side]][p].input = @ + n])

(* One turn of recv_data. *)
Recv(side, p, n) ==
    /\ In(side, p, "recv")
    /\ n <= proc[side][p].buflen
    /\ n <= socket[side][p].input
    /\ Advance(side, p, n, [socket EXCEPT ![side][p].input = @ - n])

(* send or recv returns -1: EPIPE, SIGPIPE being ignored, or ECONNRESET. *)
Fails(side, p) ==
    /\ \/ In(side, p, "send") /\ socket[Peer[side]][p].end # "open"
       \/ /\ In(side, p, "recv") /\ socket[side][p].input = 0
          /\ socket[Peer[side]][p].end = "reset"
    /\ proc' = [proc EXCEPT ![side][p] = Exited(@)]
    /\ UNCHANGED <<bytes, parent, name, faults>>
    /\ Settle([socket EXCEPT ![side][p] = Closed(@)])

(* recv returns 0: nothing changes, and recv_data calls it again. *)
Spins(side, p) ==
    /\ In(side, p, "recv") /\ socket[side][p].input = 0
    /\ socket[Peer[side]][p].end = "closed"

(* SIGINT: a pitch ends; the handler a child of catch has from its parent  *)
(* removes the name of the listening socket, in the child as well.         *)
Signal(side, p) ==
    /\ Running(side, p)
    /\ faults < MaxFaults
    /\ faults' = faults + 1
    /\ name' = (name /\ side = "pitch")
    /\ proc' = [proc EXCEPT ![side][p] = Killed(@)]
    /\ UNCHANGED <<bytes, parent>>
    /\ Settle([socket EXCEPT ![side][p] = Closed(@)])

SignalParent ==
    /\ parent
    /\ faults < MaxFaults
    /\ faults' = faults + 1
    /\ name' = FALSE
    /\ parent' = FALSE
    /\ UNCHANGED <<bytes, proc>>
    /\ Settle(socket)

Units == 1 .. Capacity

Next ==
    \/ \E p \in Pitches : Connect(p) \/ ConnectFails(p)
    \/ Accept
    \/ ForkFails
    \/ \E side \in Sides, p \in Pitches, n \in Units : Send(side, p, n)
    \/ \E side \in Sides, p \in Pitches, n \in Units : Recv(side, p, n)
    \/ \E side \in Sides, p \in Pitches : Fails(side, p)
    \/ \E side \in Sides, p \in Pitches : Signal(side, p)
    \/ SignalParent

(* A process goes on when its system call returns; signals and failing     *)
(* forks need not happen.                                                  *)
Fairness ==
    /\ WF_vars(Accept)
    /\ \A p \in Pitches : SF_vars(Connect(p)) /\ WF_vars(ConnectFails(p))
    /\ \A side \in Sides, p \in Pitches :
          /\ WF_vars(\E n \in Units : Send(side, p, n))
          /\ WF_vars(\E n \in Units : Recv(side, p, n))
          /\ WF_vars(Fails(side, p))

Spec == Init /\ [][Next]_vars /\ Fairness

-----------------------------------------------------------------------------
(* Every variable has its type. *)
TypeOK ==
    /\ bytes \in [Pitches -> Sizes]
    /\ proc \in [Sides -> [Pitches -> [state : {"none", "run", "done", "failed"},
                                       call : 0 .. 5, buflen : Nat, more : Nat]]]
    /\ socket \in [Sides -> [Pitches -> [end : {"none", "open", "closed", "reset"},
                                         input : 0 .. Capacity]]]
    /\ backlog \in Seq(Pitches) /\ Len(backlog) <= Backlog
    /\ parent \in BOOLEAN /\ name \in BOOLEAN
    /\ faults \in 0 .. MaxFaults

Size(p, call) == IF call = Data THEN bytes[p] ELSE Bullet

(* What a process will still move in the calls of one kind. *)
Remaining(side, p, op) ==
    LET s       == proc[side][p]
        Of(k)   == IF Dialogue[side][k] # op \/ k < s.call THEN 0
                   ELSE IF k = s.call THEN s.buflen + s.more ELSE Size(p, k)
    IN  Of(1) + Of(2) + Of(3) + Of(4)

Alive(side, p) == proc[side][p].state # "failed"

(* The two programs agree on how much there is to say, however send and    *)
(* recv cut it up: what one will still send, with what is under way, is    *)
(* what the other will still receive.                                      *)
InStep ==
    \A side \in Sides, p \in Pitches :
        proc["pitch"][p].state # "none" /\ Alive(side, p) /\ Alive(Peer[side], p)
          /\ socket[Peer[side]][p].end # "reset"
        => Remaining(side, p, "send") + socket[Peer[side]][p].input
             = Remaining(Peer[side], p, "recv")

Waits(side, p) ==
    \/ In(side, p, "recv") /\ socket[side][p].input = 0
    \/ In(side, p, "send") /\ socket[Peer[side]][p].input = Capacity

(* The two ends of a connection never wait for each other. *)
NeverBothWait ==
    \A p \in Pitches : ~(Waits("pitch", p) /\ Waits("catch", p))

(* Which call of a transfer can go on: connect, accept, send or recv.      *)
CanGoOn(p) ==
    \/ proc["pitch"][p].state = "none" /\ name /\ Listening /\ Len(backlog) < Backlog
    \/ parent /\ backlog # << >>
    \/ \E side \in Sides :
          /\ Running(side, p) /\ ~Waits(side, p)
          /\ In(side, p, "send") => socket[Peer[side]][p].end = "open"

(* As long as nothing is killed and no fork fails no other call fails      *)
(* either, nobody reads at the end of a stream, and a transfer that is not *)
(* complete can go on.                                                     *)
CleanNeverStuck ==
    faults = 0 =>
        /\ \A side \in Sides, p \in Pitches : Alive(side, p) /\ ~Spins(side, p)
        /\ \A p \in Pitches :
              \/ proc["pitch"][p].state = "done" /\ proc["catch"][p].state = "done"
              \/ CanGoOn(p)

(* As long as nothing is killed and no fork fails, every transfer ends, on *)
(* both sides.                                                             *)
TransfersComplete ==
    \A p \in Pitches : faults = 0 ~> faults > 0 \/ /\ proc["pitch"][p].state = "done"
                                                   /\ proc["catch"][p].state = "done"

(* Whatever is killed and whichever fork fails, a process that runs ends,  *)
(* unless some process is in the one loop without an end: recv_data at the *)
(* end of the stream.  What waits in the backlog of a catch that was       *)
(* killed may wait for a child that is in that loop.                       *)
HangsComeFromRecvZero ==
    \A side \in Sides, p \in Pitches :
        Running(side, p) ~> \/ ~Running(side, p)
                            \/ \E s \in Sides, q \in Pitches : Spins(s, q)
=============================================================================
