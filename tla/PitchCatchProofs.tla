-------------------------- MODULE PitchCatchProofs --------------------------
(***************************************************************************)
(* Theorems about PitchCatch, for any number of pitches, any sizes of the  *)
(* data, of a bullet, of a block and of a socket.                          *)
(*                                                                         *)
(* A transfer is two processes and two sockets, and a step changes one     *)
(* transfer; closing the listening socket resets others that nobody has    *)
(* accepted.  So the lemmas are about the values of one transfer.          *)
(***************************************************************************)
EXTENDS PitchCatch, SequenceTheorems, TLAPS

ProcType == [state : {"none", "run", "done", "failed"}, call : 0 .. 5, buflen : Nat, more : Nat]
EndType  == [end : {"none", "open", "closed", "reset"}, input : 0 .. Capacity]

(* What a process will still move in its calls 1 and 3, and 2 and 4, if    *)
(* there are b units of data.                                              *)
Left(s, k, size) == IF s.call < k THEN size ELSE IF s.call = k THEN s.buflen + s.more ELSE 0
Odd(s, b)        == Left(s, 1, Bullet) + Left(s, 3, b)
Even(s, b)       == Left(s, 2, Bullet) + Left(s, 4, Bullet)

Shape(s) ==
    /\ s \in ProcType
    /\ s.state = "none" => s.call = 0
    /\ s.state = "run"  => s.call \in 1 .. 4 /\ s.buflen > 0 /\ (s.call # 3 => s.more = 0)
    /\ s.state = "done" => s.call = 5

(* The processes a and c of pitch and catch, their sockets, and the data.  *)
Sound(a, c, sa, sc, b) ==
    /\ Shape(a) /\ Shape(c) /\ sa \in EndType /\ sc \in EndType /\ b \in Nat
    /\ a.state = "none" => c.state = "none"
    /\ a.state = "run" => sa.end = "open"
    /\ c.state = "run" => sc.end = "open"
    /\ a.state \notin {"none", "failed"} /\ c.state # "failed"
         => /\ sc.end # "reset" => Odd(a, b) + sc.input = Odd(c, b)
            /\ sa.end # "reset" => Even(c, b) + sa.input = Even(a, b)

SoundOf(p) == Sound(proc["pitch"][p], proc["catch"][p], socket["pitch"][p], socket["catch"][p], bytes[p])

(* What waits in the backlog is there once, and not accepted. *)
Waiting(p) ==
    proc["catch"][p].state = "none" /\ proc["pitch"][p].state # "none" /\ socket["catch"][p].end = "open"

Queued ==
    /\ \A i, j \in 1 .. Len(backlog) : backlog[i] = backlog[j] => i = j
    /\ \A i \in 1 .. Len(backlog) : Waiting(backlog[i])

IInv == TypeOK /\ Queued /\ \A p \in Pitches : SoundOf(p)

-----------------------------------------------------------------------------
LEMMA ConstantFacts ==
    /\ Bullet \in Nat /\ BufSize \in Nat /\ Capacity \in Nat /\ Backlog \in Nat /\ MaxFaults \in Nat
    /\ Bullet > 0 /\ BufSize > 0 /\ Capacity > 0 /\ Backlog > 0 /\ Sizes \subseteq Nat
BY PitchCatchAssumption

(* Remaining, in terms of the calls of a process. *)
LEMMA RemainingIs ==
    ASSUME TypeOK, NEW p \in Pitches
    PROVE  /\ Remaining("pitch", p, "send") = Odd(proc["pitch"][p], bytes[p])
           /\ Remaining("pitch", p, "recv") = Even(proc["pitch"][p], bytes[p])
           /\ Remaining("catch", p, "recv") = Odd(proc["catch"][p], bytes[p])
           /\ Remaining("catch", p, "send") = Even(proc["catch"][p], bytes[p])
<1>1. /\ proc["pitch"][p] \in ProcType /\ proc["catch"][p] \in ProcType /\ bytes[p] \in Nat
  BY ConstantFacts DEF TypeOK, ProcType, Sides
<1>2. /\ Dialogue["pitch"][1] = "send" /\ Dialogue["pitch"][2] = "recv"
      /\ Dialogue["pitch"][3] = "send" /\ Dialogue["pitch"][4] = "recv"
      /\ Dialogue["catch"][1] = "recv" /\ Dialogue["catch"][2] = "send"
      /\ Dialogue["catch"][3] = "recv" /\ Dialogue["catch"][4] = "send"
  BY DEF Dialogue
<1>3. /\ Size(p, 1) = Bullet /\ Size(p, 2) = Bullet /\ Size(p, 3) = bytes[p] /\ Size(p, 4) = Bullet
  BY DEF Size, Data
<1>4. Remaining("pitch", p, "send") = Odd(proc["pitch"][p], bytes[p])
  BY <1>1, <1>2, <1>3, ConstantFacts DEF Remaining, Odd, Left, ProcType
<1>5. Remaining("pitch", p, "recv") = Even(proc["pitch"][p], bytes[p])
  BY <1>1, <1>2, <1>3, ConstantFacts DEF Remaining, Even, Left, ProcType
<1>6. Remaining("catch", p, "recv") = Odd(proc["catch"][p], bytes[p])
  BY <1>1, <1>2, <1>3, ConstantFacts DEF Remaining, Odd, Left, ProcType
<1>7. Remaining("catch", p, "send") = Even(proc["catch"][p], bytes[p])
  BY <1>1, <1>2, <1>3, ConstantFacts DEF Remaining, Even, Left, ProcType
<1> QED
  BY <1>4, <1>5, <1>6, <1>7

-----------------------------------------------------------------------------
(* The calls of a process. *)
LEMMA BlockFacts ==
    ASSUME NEW left \in Nat, left > 0
    PROVE  /\ Block(left) \in ProcType /\ Block(left).state = "run" /\ Block(left).call = 3
           /\ Block(left).buflen > 0 /\ Block(left).buflen + Block(left).more = left
<1>1. Chunk(left) \in Nat /\ Chunk(left) > 0 /\ Chunk(left) <= left
  BY ConstantFacts DEF Chunk
<1>2. Block(left) = [state |-> "run", call |-> 3, buflen |-> Chunk(left), more |-> left - Chunk(left)]
  BY DEF Block, Calling, Data
<1> QED
  BY <1>1, <1>2 DEF ProcType

LEMMA AtCallFacts ==
    ASSUME NEW k \in 1 .. 5, NEW b \in Nat
    PROVE  /\ Shape(AtCall(k, b)) /\ AtCall(k, b).state \in {"run", "done"}
           /\ Odd(AtCall(k, b), b)  = (IF k <= 1 THEN Bullet ELSE 0) + (IF k <= 3 THEN b ELSE 0)
           /\ Even(AtCall(k, b), b) = (IF k <= 2 THEN Bullet ELSE 0) + (IF k <= 4 THEN Bullet ELSE 0)
<1> USE ConstantFacts
<1>1. CASE k = 5
  <2>1. AtCall(k, b) = [state |-> "done", call |-> 5, buflen |-> 0, more |-> 0]
    BY <1>1 DEF AtCall, Done, Data
  <2> QED
    BY <1>1, <2>1 DEF Shape, ProcType, Odd, Even, Left
<1>2. CASE k = 3 /\ b = 0
  <2>1. AtCall(k, b) = [state |-> "run", call |-> 4, buflen |-> Bullet, more |-> 0]
    BY <1>2 DEF AtCall, Calling, Data
  <2> QED
    BY <1>2, <2>1 DEF Shape, ProcType, Odd, Even, Left
<1>3. CASE k = 3 /\ b > 0
  <2>1. AtCall(k, b) = Block(b)
    BY <1>3 DEF AtCall, Data
  <2> QED
    BY <1>3, <2>1, BlockFacts DEF Shape, ProcType, Odd, Even, Left
<1>4. CASE k \in {1, 2, 4}
  <2>1. AtCall(k, b) = [state |-> "run", call |-> k, buflen |-> Bullet, more |-> 0]
    BY <1>4 DEF AtCall, Calling, Data
  <2> QED
    BY <1>4, <2>1 DEF Shape, ProcType, Odd, Even, Left
<1> QED
  BY <1>1, <1>2, <1>3, <1>4

LEMMA MovedFacts ==
    ASSUME NEW s, Shape(s), s.state = "run", NEW n \in Nat, n <= s.buflen, NEW b \in Nat
    PROVE  LET t == Moved(s, n, b)
           IN  /\ Shape(t) /\ t.state \in {"run", "done"}
               /\ Odd(t, b)  = IF s.call \in {1, 3} THEN Odd(s, b) - n ELSE Odd(s, b)
               /\ Even(t, b) = IF s.call \in {2, 4} THEN Even(s, b) - n ELSE Even(s, b)
<1> USE ConstantFacts
<1>1. /\ s \in ProcType /\ s.call \in 1 .. 4 /\ s.buflen \in Nat /\ s.more \in Nat
      /\ s.buflen > 0 /\ (s.call # 3 => s.more = 0)
  BY DEF Shape, ProcType
<1>2. CASE s.buflen - n > 0
  <2>1. Moved(s, n, b) = [s EXCEPT !.buflen = s.buflen - n]
    BY <1>2 DEF Moved, Rest
  <2>2. Moved(s, n, b) = [state |-> "run", call |-> s.call, buflen |-> s.buflen - n, more |-> s.more]
    BY <1>1, <2>1 DEF ProcType
  <2> QED
    BY <1>1, <1>2, <2>2 DEF Shape, ProcType, Odd, Even, Left
<1>3. CASE s.buflen = n /\ s.more > 0
  <2>1. Moved(s, n, b) = Block(s.more) /\ s.call = 3
    BY <1>1, <1>3 DEF Moved, Rest
  <2> QED
    BY <1>1, <1>3, <2>1, BlockFacts DEF Shape, ProcType, Odd, Even, Left
<1>4. CASE s.buflen = n /\ s.more = 0
  <2>1. Moved(s, n, b) = AtCall(s.call + 1, b) /\ s.call + 1 \in 1 .. 5
    BY <1>1, <1>4 DEF Moved, Rest
  <2>2. /\ Odd(s, b) = (IF s.call = 1 THEN n + b ELSE IF s.call = 2 THEN b ELSE IF s.call = 3 THEN n ELSE 0)
        /\ Even(s, b) = (IF s.call = 1 THEN Bullet + Bullet ELSE IF s.call = 2 THEN n + Bullet
                         ELSE IF s.call = 3 THEN Bullet ELSE n)
    BY <1>1, <1>4 DEF Odd, Even, Left
  <2> QED
    BY <1>1, <1>4, <2>1, <2>2, AtCallFacts
<1> QED
  BY <1>1, <1>2, <1>3, <1>4

LEMMA SumTypes ==
    ASSUME NEW s, Shape(s), NEW b \in Nat
    PROVE  Odd(s, b) \in Nat /\ Even(s, b) \in Nat
BY ConstantFacts DEF Shape, ProcType, Odd, Even, Left

-----------------------------------------------------------------------------
(* The sockets. *)
LEMMA ClosedFacts ==
    ASSUME NEW e \in EndType
    PROVE  /\ Closed(e) \in EndType /\ Closed(e).input = 0
           /\ Closed(e).end # "reset" => e.input = 0
BY ConstantFacts DEF Closed, EndType

LEMMA InputFacts ==
    ASSUME NEW e \in EndType, NEW i \in 0 .. Capacity
    PROVE  LET f == [e EXCEPT !.input = i] IN f \in EndType /\ f.end = e.end /\ f.input = i
BY DEF EndType

(* What becomes of a socket when its process has moved to t. *)
After(t, e) == IF t.state = "done" THEN Closed(e) ELSE e

LEMMA AfterFacts ==
    ASSUME NEW e \in EndType, NEW t
    PROVE  /\ After(t, e) \in EndType
           /\ t.state # "done" => After(t, e) = e
           /\ After(t, e).end # "reset" /\ t.state = "done" => e.input = 0 /\ After(t, e).input = 0
BY ClosedFacts DEF After

-----------------------------------------------------------------------------
(* One transfer: what each kind of step does to it. *)
LEMMA PitchSends ==
    ASSUME NEW a, NEW c, NEW sa, NEW sc, NEW b, Sound(a, c, sa, sc, b),
           a.state = "run", a.call \in {1, 3}, NEW n \in Nat, n <= a.buflen,
           sc.end = "open", sc.input + n <= Capacity
    PROVE  LET t == Moved(a, n, b)
           IN  Sound(t, c, After(t, sa), [sc EXCEPT !.input = sc.input + n], b)
<1> DEFINE t == Moved(a, n, b)
<1> DEFINE sd == [sc EXCEPT !.input = sc.input + n]
<1>1. /\ Shape(t) /\ t.state \in {"run", "done"}
      /\ Odd(t, b) = Odd(a, b) - n /\ Even(t, b) = Even(a, b)
  BY MovedFacts DEF Sound
<1>2. sc.input \in Nat /\ sc.input + n \in 0 .. Capacity
  BY ConstantFacts DEF Sound, EndType
<1>3. sd \in EndType /\ sd.end = "open" /\ sd.input = sc.input + n
  BY <1>2, InputFacts DEF Sound
<1>4. /\ After(t, sa) \in EndType
      /\ t.state # "done" => After(t, sa) = sa
      /\ After(t, sa).end # "reset" /\ t.state = "done" => sa.input = 0 /\ After(t, sa).input = 0
  BY AfterFacts DEF Sound
<1>5. /\ Odd(a, b) \in Nat /\ Even(a, b) \in Nat /\ Odd(c, b) \in Nat /\ Even(c, b) \in Nat
  BY SumTypes DEF Sound
<1> HIDE DEF t, sd
<1>6. Sound(t, c, After(t, sa), sd, b)
  BY <1>1, <1>2, <1>3, <1>4, <1>5 DEF Sound
<1> QED
  BY <1>6 DEF t, sd

LEMMA PitchReceives ==
    ASSUME NEW a, NEW c, NEW sa, NEW sc, NEW b, Sound(a, c, sa, sc, b),
           a.state = "run", a.call \in {2, 4}, NEW n \in Nat, n <= a.buflen, n <= sa.input
    PROVE  LET t == Moved(a, n, b)
           IN  Sound(t, c, After(t, [sa EXCEPT !.input = sa.input - n]), sc, b)
<1> DEFINE t == Moved(a, n, b)
<1> DEFINE sd == [sa EXCEPT !.input = sa.input - n]
<1>1. /\ Shape(t) /\ t.state \in {"run", "done"}
      /\ Odd(t, b) = Odd(a, b) /\ Even(t, b) = Even(a, b) - n
  BY MovedFacts DEF Sound
<1>2. sa.input \in Nat /\ sa.input - n \in 0 .. Capacity
  BY ConstantFacts DEF Sound, EndType
<1>3. sd \in EndType /\ sd.end = sa.end /\ sd.input = sa.input - n
  BY <1>2, InputFacts DEF Sound
<1>4. /\ After(t, sd) \in EndType
      /\ t.state # "done" => After(t, sd) = sd
      /\ After(t, sd).end # "reset" /\ t.state = "done" => sd.input = 0 /\ After(t, sd).input = 0
  BY <1>3, AfterFacts
<1>5. /\ Odd(a, b) \in Nat /\ Even(a, b) \in Nat /\ Odd(c, b) \in Nat /\ Even(c, b) \in Nat
  BY SumTypes DEF Sound
<1> HIDE DEF t, sd
<1>6. Sound(t, c, After(t, sd), sc, b)
  BY <1>1, <1>2, <1>3, <1>4, <1>5 DEF Sound
<1> QED
  BY <1>6 DEF t, sd

LEMMA CatchSends ==
    ASSUME NEW a, NEW c, NEW sa, NEW sc, NEW b, Sound(a, c, sa, sc, b),
           c.state = "run", c.call \in {2, 4}, NEW n \in Nat, n <= c.buflen,
           sa.end = "open", sa.input + n <= Capacity
    PROVE  LET t == Moved(c, n, b)
           IN  Sound(a, t, [sa EXCEPT !.input = sa.input + n], After(t, sc), b)
<1> DEFINE t == Moved(c, n, b)
<1> DEFINE sd == [sa EXCEPT !.input = sa.input + n]
<1>1. /\ Shape(t) /\ t.state \in {"run", "done"}
      /\ Odd(t, b) = Odd(c, b) /\ Even(t, b) = Even(c, b) - n
  BY MovedFacts DEF Sound
<1>2. sa.input \in Nat /\ sa.input + n \in 0 .. Capacity
  BY ConstantFacts DEF Sound, EndType
<1>3. sd \in EndType /\ sd.end = "open" /\ sd.input = sa.input + n
  BY <1>2, InputFacts DEF Sound
<1>4. /\ After(t, sc) \in EndType
      /\ t.state # "done" => After(t, sc) = sc
      /\ After(t, sc).end # "reset" /\ t.state = "done" => sc.input = 0 /\ After(t, sc).input = 0
  BY AfterFacts DEF Sound
<1>5. /\ Odd(a, b) \in Nat /\ Even(a, b) \in Nat /\ Odd(c, b) \in Nat /\ Even(c, b) \in Nat
  BY SumTypes DEF Sound
<1> HIDE DEF t, sd
<1>6. Sound(a, t, sd, After(t, sc), b)
  BY <1>1, <1>2, <1>3, <1>4, <1>5 DEF Sound
<1> QED
  BY <1>6 DEF t, sd

LEMMA CatchReceives ==
    ASSUME NEW a, NEW c, NEW sa, NEW sc, NEW b, Sound(a, c, sa, sc, b),
           c.state = "run", c.call \in {1, 3}, NEW n \in Nat, n <= c.buflen, n <= sc.input
    PROVE  LET t == Moved(c, n, b)
           IN  Sound(a, t, sa, After(t, [sc EXCEPT !.input = sc.input - n]), b)
<1> DEFINE t == Moved(c, n, b)
<1> DEFINE sd == [sc EXCEPT !.input = sc.input - n]
<1>1. /\ Shape(t) /\ t.state \in {"run", "done"}
      /\ Odd(t, b) = Odd(c, b) - n /\ Even(t, b) = Even(c, b)
  BY MovedFacts DEF Sound
<1>2. sc.input \in Nat /\ sc.input - n \in 0 .. Capacity
  BY ConstantFacts DEF Sound, EndType
<1>3. sd \in EndType /\ sd.end = sc.end /\ sd.input = sc.input - n
  BY <1>2, InputFacts DEF Sound
<1>4. /\ After(t, sd) \in EndType
      /\ t.state # "done" => After(t, sd) = sd
      /\ After(t, sd).end # "reset" /\ t.state = "done" => sd.input = 0 /\ After(t, sd).input = 0
  BY <1>3, AfterFacts
<1>5. /\ Odd(a, b) \in Nat /\ Even(a, b) \in Nat /\ Odd(c, b) \in Nat /\ Even(c, b) \in Nat
  BY SumTypes DEF Sound
<1> HIDE DEF t, sd
<1>6. Sound(a, t, sa, After(t, sd), b)
  BY <1>1, <1>2, <1>3, <1>4, <1>5 DEF Sound
<1> QED
  BY <1>6 DEF t, sd

(* Connecting and accepting. *)
LEMMA Connects ==
    ASSUME NEW a, NEW c, NEW sa, NEW sc, NEW b, Sound(a, c, sa, sc, b), a.state = "none"
    PROVE  Sound(AtCall(1, b), c, Open, Open, b) /\ AtCall(1, b).state # "none"
<1>1. b \in Nat /\ Shape(c) /\ c.state = "none" /\ c.call = 0
  BY DEF Sound, Shape
<1>2. /\ Shape(AtCall(1, b)) /\ AtCall(1, b).state \in {"run", "done"}
      /\ Odd(AtCall(1, b), b) = Bullet + b /\ Even(AtCall(1, b), b) = Bullet + Bullet
  BY <1>1, AtCallFacts
<1>3. Odd(c, b) = Bullet + b /\ Even(c, b) = Bullet + Bullet
  BY <1>1 DEF Odd, Even, Left
<1>4. Open \in EndType /\ Open.end = "open" /\ Open.input = 0
  BY ConstantFacts DEF Open, EndType
<1> QED
  BY <1>1, <1>2, <1>3, <1>4, ConstantFacts DEF Sound

LEMMA Accepted ==
    ASSUME NEW a, NEW c, NEW sa, NEW sc, NEW b, Sound(a, c, sa, sc, b),
           a.state # "none", c.state = "none", sc.end = "open"
    PROVE  Sound(a, AtCall(1, b), sa, sc, b)
<1>1. b \in Nat /\ Shape(c) /\ c.call = 0
  BY DEF Sound, Shape
<1>2. /\ Shape(AtCall(1, b)) /\ AtCall(1, b).state \in {"run", "done"}
      /\ Odd(AtCall(1, b), b) = Bullet + b /\ Even(AtCall(1, b), b) = Bullet + Bullet
  BY <1>1, AtCallFacts
<1>3. Odd(c, b) = Bullet + b /\ Even(c, b) = Bullet + Bullet
  BY <1>1 DEF Odd, Even, Left
<1> QED
  BY <1>1, <1>2, <1>3 DEF Sound

(* Failing. *)
LEMMA ExitedFacts ==
    ASSUME NEW s, Shape(s)
    PROVE  /\ Shape(Exited(s)) /\ Exited(s).state = "failed"
           /\ Shape(Killed(s)) /\ Killed(s).state = "failed"
BY DEF Shape, ProcType, Exited, Killed

LEMMA PitchEnds ==
    ASSUME NEW a, NEW c, NEW sa, NEW sc, NEW b, Sound(a, c, sa, sc, b),
           a.state = "run" \/ (a.state = "none" /\ c.state = "none"),
           NEW t, Shape(t), t.state = "failed", NEW sd \in EndType
    PROVE  Sound(t, c, sd, sc, b)
BY DEF Sound

LEMMA CatchEnds ==
    ASSUME NEW a, NEW c, NEW sa, NEW sc, NEW b, Sound(a, c, sa, sc, b), c.state = "run",
           NEW t, Shape(t), t.state = "failed", NEW sd \in EndType
    PROVE  Sound(a, t, sa, sd, b)
BY DEF Sound

(* The socket of a transfer nobody has accepted is closed or reset. *)
LEMMA NotAccepted ==
    ASSUME NEW a, NEW c, NEW sa, NEW sc, NEW b, Sound(a, c, sa, sc, b), c.state = "none"
    PROVE  /\ Sound(a, c, sa, [end |-> "reset", input |-> 0], b)
           /\ sc.end = "open" => Sound(a, c, sa, Closed(sc), b)
<1>1. [end |-> "reset", input |-> 0] \in EndType
  BY ConstantFacts DEF EndType
<1>2. Closed(sc) \in EndType /\ Closed(sc).input = 0 /\ (Closed(sc).end # "reset" => sc.input = 0)
  BY ClosedFacts DEF Sound
<1>3. Sound(a, c, sa, [end |-> "reset", input |-> 0], b)
  BY <1>1 DEF Sound
<1>4. sc.end = "open" => Sound(a, c, sa, Closed(sc), b)
  BY <1>2 DEF Sound
<1> QED
  BY <1>3, <1>4

-----------------------------------------------------------------------------
(* Closing sockets, and the listening socket with them: the pitches' ends  *)
(* are as given, and the others too unless they waited in the backlog,     *)
(* which is then gone.                                                     *)
SocketsType == [Sides -> [Pitches -> EndType]]

LEMMA BacklogFacts ==
    ASSUME IInv, NEW i \in 1 .. Len(backlog)
    PROVE  backlog[i] \in Pitches /\ Waiting(backlog[i])
<1>1. backlog[i] \in Pitches
  BY ElementOfSeq DEF IInv, TypeOK
<1> QED
  BY <1>1 DEF IInv, Queued

LEMMA InBacklog ==
    ASSUME IInv, NEW p \in ToSet(backlog)
    PROVE  Waiting(p) /\ \E i \in 1 .. Len(backlog) : p = backlog[i]
<1>1. backlog \in Seq(Pitches)
  BY DEF IInv, TypeOK
<1>2. PICK i \in 1 .. Len(backlog) : p = backlog[i]
  BY <1>1 DEF ToSet
<1> QED
  BY <1>2, BacklogFacts

Reset == [end |-> "reset", input |-> 0]

LEMMA SettleFacts ==
    ASSUME NEW S \in SocketsType, Settle(S)
    PROVE  /\ socket' \in SocketsType
           /\ \A p \in Pitches : socket'["pitch"][p] = S["pitch"][p]
           /\ \/ backlog' = backlog /\ socket' = S
              \/ /\ backlog' = << >>
                 /\ \A p \in Pitches :
                       socket'["catch"][p] = IF p \in ToSet(backlog) THEN Reset ELSE S["catch"][p]
<1>1. Reset \in EndType
  BY ConstantFacts DEF Reset, EndType
<1>2. CASE socket' = S /\ UNCHANGED backlog
  BY <1>2 DEF SocketsType, Sides
<1>3. CASE /\ backlog' = << >>
           /\ socket' = [S EXCEPT !["catch"] = [p \in Pitches |->
                            IF p \in ToSet(backlog) THEN Reset ELSE S["catch"][p]]]
  <2>1. [p \in Pitches |-> IF p \in ToSet(backlog) THEN Reset ELSE S["catch"][p]] \in [Pitches -> EndType]
    BY <1>1 DEF SocketsType, Sides
  <2>2. socket' \in SocketsType
    BY <1>3, <2>1 DEF SocketsType, Sides
  <2>3. \A p \in Pitches : socket'["pitch"][p] = S["pitch"][p]
    BY <1>3 DEF SocketsType, Sides
  <2>4. \A p \in Pitches :
           socket'["catch"][p] = IF p \in ToSet(backlog) THEN Reset ELSE S["catch"][p]
    BY <1>3 DEF SocketsType, Sides
  <2> QED
    BY <1>3, <2>2, <2>3, <2>4
<1> QED
  BY <1>2, <1>3 DEF Settle, Reset

(* A step that changes one process of one transfer, which is running, and  *)
(* that transfer's sockets, and then settles.                              *)
LEMMA StepInv ==
    ASSUME IInv, NEW side \in Sides, NEW p \in Pitches, NEW t, NEW S \in SocketsType,
           Running(side, p), t.state # "none",
           proc' = [proc EXCEPT ![side][p] = t], UNCHANGED bytes,
           parent' \in BOOLEAN, name' \in BOOLEAN, faults' \in 0 .. MaxFaults,
           \A q \in Pitches \ {p} : \A x \in Sides : S[x][q] = socket[x][q],
           Sound(IF side = "pitch" THEN t ELSE proc["pitch"][p],
                 IF side = "catch" THEN t ELSE proc["catch"][p],
                 S["pitch"][p], S["catch"][p], bytes[p]),
           ~Waiting(p) \/ S["catch"][p].end = "open",
           Settle(S)
    PROVE  IInv'
<1> DEFINE a(q) == IF side = "pitch" /\ q = p THEN t ELSE proc["pitch"][q]
<1> DEFINE c(q) == IF side = "catch" /\ q = p THEN t ELSE proc["catch"][q]
<1>1. /\ proc \in [Sides -> [Pitches -> ProcType]] /\ bytes \in [Pitches -> Sizes]
      /\ backlog \in Seq(Pitches) /\ Len(backlog) <= Backlog
  BY DEF IInv, TypeOK, ProcType
<1>2. \A q \in Pitches : proc'["pitch"][q] = a(q) /\ proc'["catch"][q] = c(q)
  BY <1>1 DEF Sides
<1>3. /\ socket' \in SocketsType
      /\ \A q \in Pitches : socket'["pitch"][q] = S["pitch"][q]
      /\ \/ backlog' = backlog /\ socket' = S
         \/ /\ backlog' = << >>
            /\ \A q \in Pitches :
                  socket'["catch"][q] = IF q \in ToSet(backlog) THEN Reset ELSE S["catch"][q]
  BY SettleFacts
<1>4. ASSUME NEW q \in Pitches
      PROVE  Sound(a(q), c(q), S["pitch"][q], S["catch"][q], bytes[q])
  BY DEF IInv, SoundOf, Sides
<1>5. ASSUME NEW q \in ToSet(backlog), q \in Pitches PROVE c(q).state = "none"
  BY <1>5, InBacklog DEF Waiting, Running
<1>6. \A q \in Pitches : SoundOf(q)'
  <2> SUFFICES ASSUME NEW q \in Pitches
               PROVE  Sound(a(q), c(q), S["pitch"][q], socket'["catch"][q], bytes[q])
    BY <1>2, <1>3 DEF SoundOf
  <2> HIDE DEF a, c
  <2>1. CASE socket'["catch"][q] = S["catch"][q]
    BY <1>4, <2>1
  <2>2. CASE q \in ToSet(backlog) /\ socket'["catch"][q] = Reset
    BY <1>4, <1>5, <2>2, NotAccepted DEF Reset
  <2> QED
    BY <1>3, <2>1, <2>2
<1>7. Queued'
  <2>1. CASE backlog' = << >>
    BY <2>1, EmptySeq DEF Queued
  <2>2. CASE backlog' = backlog /\ socket' = S
    <3>1. ASSUME NEW i \in 1 .. Len(backlog) PROVE Waiting(backlog[i])'
      <4>1. backlog[i] \in Pitches /\ Waiting(backlog[i])
        BY BacklogFacts
      <4>2. proc'["catch"][backlog[i]].state = "none" /\ proc'["pitch"][backlog[i]].state # "none"
        BY <1>2, <4>1 DEF Waiting, Running
      <4>3. S["catch"][backlog[i]].end = "open"
        BY <4>1 DEF Waiting, Sides
      <4> QED
        BY <2>2, <4>2, <4>3 DEF Waiting
    <3> QED
      BY <2>2, <3>1 DEF IInv, Queued
  <2> QED
    BY <1>3, <2>1, <2>2
<1>8. TypeOK'
  <2>1. t \in ProcType
    BY <1>4 DEF Sound, Shape, Sides
  <2>2. proc' \in [Sides -> [Pitches -> ProcType]]
    BY <1>1, <2>1
  <2>3. backlog' \in Seq(Pitches) /\ Len(backlog') <= Backlog
    <3>1. << >> \in Seq(Pitches) /\ Len(<< >>) = 0
      BY EmptySeq
    <3>2. 0 <= Backlog
      BY ConstantFacts
    <3> QED
      BY <1>1, <1>3, <3>1, <3>2
  <2> QED
    BY <1>1, <1>3, <2>2, <2>3 DEF TypeOK, ProcType, SocketsType, EndType
<1> QED
  BY <1>6, <1>7, <1>8 DEF IInv

-----------------------------------------------------------------------------
(* What Advance does, once it is known which sockets it is given. *)
LEMMA AdvanceFacts ==
    ASSUME IInv, NEW side \in Sides, NEW p \in Pitches, NEW n, NEW sockets \in SocketsType,
           Advance(side, p, n, sockets)
    PROVE  LET t == Moved(proc[side][p], n, bytes[p])
               S == IF t.state = "done" THEN [sockets EXCEPT ![side][p] = Closed(@)] ELSE sockets
           IN  /\ proc' = [proc EXCEPT ![side][p] = t]
               /\ UNCHANGED <<bytes, parent, name, faults>>
               /\ Settle(S) /\ S \in SocketsType
               /\ S[side][p] = After(t, sockets[side][p])
               /\ \A x \in Sides, q \in Pitches : x # side \/ q # p => S[x][q] = sockets[x][q]
<1> DEFINE t == Moved(proc[side][p], n, bytes[p])
<1> DEFINE S == IF t.state = "done" THEN [sockets EXCEPT ![side][p] = Closed(@)] ELSE sockets
<1>1. proc' = [proc EXCEPT ![side][p] = t] /\ UNCHANGED <<bytes, parent, name, faults>>
  BY DEF Advance
<1>2. proc'[side][p] = t
  BY <1>1 DEF IInv, TypeOK
<1>3. Settle(S)
  BY <1>2 DEF Advance
<1>4. Closed(sockets[side][p]) \in EndType
  BY ClosedFacts DEF SocketsType
<1> HIDE DEF t
<1>5. S \in SocketsType
  BY <1>4 DEF SocketsType
<1>6. S[side][p] = After(t, sockets[side][p])
  BY DEF SocketsType, After
<1>7. \A x \in Sides, q \in Pitches : x # side \/ q # p => S[x][q] = sockets[x][q]
  BY DEF SocketsType
<1> QED
  BY <1>1, <1>3, <1>5, <1>6, <1>7 DEF t

LEMMA Calls ==
    ASSUME IInv, NEW p \in Pitches
    PROVE  /\ In("pitch", p, "send") => Running("pitch", p) /\ proc["pitch"][p].call \in {1, 3}
           /\ In("pitch", p, "recv") => Running("pitch", p) /\ proc["pitch"][p].call \in {2, 4}
           /\ In("catch", p, "send") => Running("catch", p) /\ proc["catch"][p].call \in {2, 4}
           /\ In("catch", p, "recv") => Running("catch", p) /\ proc["catch"][p].call \in {1, 3}
<1>1. Running("pitch", p) => proc["pitch"][p].call \in 1 .. 4
  BY DEF IInv, SoundOf, Sound, Shape, Running
<1>2. Running("catch", p) => proc["catch"][p].call \in 1 .. 4
  BY DEF IInv, SoundOf, Sound, Shape, Running
<1>3. /\ Dialogue["pitch"][1] = "send" /\ Dialogue["pitch"][2] = "recv"
      /\ Dialogue["pitch"][3] = "send" /\ Dialogue["pitch"][4] = "recv"
      /\ Dialogue["catch"][1] = "recv" /\ Dialogue["catch"][2] = "send"
      /\ Dialogue["catch"][3] = "recv" /\ Dialogue["catch"][4] = "send"
  BY DEF Dialogue
<1> QED
  BY <1>1, <1>2, <1>3 DEF In

LEMMA SendInv ==
    ASSUME IInv, NEW side \in Sides, NEW p \in Pitches, NEW n \in Units, Send(side, p, n)
    PROVE  IInv'
<1> DEFINE sockets == [socket EXCEPT ![Peer[side]][p].input = @ + n]
<1> DEFINE t == Moved(proc[side][p], n, bytes[p])
<1> DEFINE S == IF t.state = "done" THEN [sockets EXCEPT ![side][p] = Closed(@)] ELSE sockets
<1>1. /\ In(side, p, "send") /\ n <= proc[side][p].buflen
      /\ socket[Peer[side]][p].end = "open" /\ socket[Peer[side]][p].input + n <= Capacity
      /\ Advance(side, p, n, sockets)
  BY DEF Send
<1>2. n \in Nat /\ Peer[side] \in Sides /\ Peer[side] # side
  BY ConstantFacts DEF Units, Peer, Sides
<1>3. socket \in SocketsType /\ SoundOf(p) /\ parent \in BOOLEAN /\ name \in BOOLEAN /\ faults \in 0 .. MaxFaults
  BY DEF IInv, TypeOK, SocketsType, EndType
<1>4. [socket[Peer[side]][p] EXCEPT !.input = socket[Peer[side]][p].input + n] \in EndType
      /\ [socket[Peer[side]][p] EXCEPT !.input = socket[Peer[side]][p].input + n].end = "open"
  <2>1. socket[Peer[side]][p] \in EndType
    BY <1>2, <1>3 DEF SocketsType
  <2>2. socket[Peer[side]][p].input + n \in 0 .. Capacity
    BY <1>1, <1>2, <2>1, ConstantFacts DEF EndType
  <2> QED
    BY <1>1, <2>1, <2>2, InputFacts
<1>5. /\ sockets \in SocketsType
      /\ sockets[Peer[side]][p] = [socket[Peer[side]][p] EXCEPT !.input = socket[Peer[side]][p].input + n]
      /\ \A x \in Sides, q \in Pitches : x # Peer[side] \/ q # p => sockets[x][q] = socket[x][q]
  BY <1>2, <1>3, <1>4 DEF SocketsType
<1> HIDE DEF sockets
<1>6. /\ proc' = [proc EXCEPT ![side][p] = t]
      /\ UNCHANGED <<bytes, parent, name, faults>>
      /\ Settle(S) /\ S \in SocketsType
      /\ S[side][p] = After(t, sockets[side][p])
      /\ \A x \in Sides, q \in Pitches : x # side \/ q # p => S[x][q] = sockets[x][q]
  BY <1>1, <1>5, AdvanceFacts
<1>7. S[side][p] = After(t, socket[side][p]) /\ S[Peer[side]][p] = sockets[Peer[side]][p]
      /\ \A q \in Pitches \ {p} : \A x \in Sides : S[x][q] = socket[x][q]
  BY <1>2, <1>5, <1>6
<1> HIDE DEF S
<1>8. Running(side, p) /\ t.state # "none"
  <2>1. Running(side, p) /\ Shape(proc[side][p]) /\ bytes[p] \in Nat
    BY <1>1, <1>3 DEF In, SoundOf, Sound, Sides
  <2> QED
    BY <1>1, <1>2, <2>1, MovedFacts DEF Running
<1>9. CASE side = "pitch"
  <2>1. proc["pitch"][p].call \in {1, 3}
    BY <1>1, <1>9, Calls
  <2>2. Sound(t, proc["catch"][p], S["pitch"][p], S["catch"][p], bytes[p])
    BY <1>1, <1>2, <1>3, <1>5, <1>7, <1>8, <1>9, <2>1, PitchSends DEF SoundOf, Running, Peer
  <2>3. S["catch"][p].end = "open"
    BY <1>4, <1>5, <1>7, <1>9 DEF Peer
  <2> QED
    BY <1>3, <1>6, <1>7, <1>8, <1>9, <2>2, <2>3, StepInv
<1>10. CASE side = "catch"
  <2>1. proc["catch"][p].call \in {2, 4}
    BY <1>1, <1>10, Calls
  <2>2. Sound(proc["pitch"][p], t, S["pitch"][p], S["catch"][p], bytes[p])
    BY <1>1, <1>2, <1>3, <1>5, <1>7, <1>8, <1>10, <2>1, CatchSends DEF SoundOf, Running, Peer
  <2>3. ~Waiting(p)
    BY <1>8, <1>10 DEF Waiting, Running
  <2> QED
    BY <1>3, <1>6, <1>7, <1>8, <1>10, <2>2, <2>3, StepInv
<1> QED
  BY <1>9, <1>10 DEF Sides

LEMMA RecvInv ==
    ASSUME IInv, NEW side \in Sides, NEW p \in Pitches, NEW n \in Units, Recv(side, p, n)
    PROVE  IInv'
<1> DEFINE sockets == [socket EXCEPT ![side][p].input = @ - n]
<1> DEFINE t == Moved(proc[side][p], n, bytes[p])
<1> DEFINE S == IF t.state = "done" THEN [sockets EXCEPT ![side][p] = Closed(@)] ELSE sockets
<1>1. /\ In(side, p, "recv") /\ n <= proc[side][p].buflen /\ n <= socket[side][p].input
      /\ Advance(side, p, n, sockets)
  BY DEF Recv
<1>2. n \in Nat
  BY ConstantFacts DEF Units
<1>3. socket \in SocketsType /\ SoundOf(p) /\ parent \in BOOLEAN /\ name \in BOOLEAN /\ faults \in 0 .. MaxFaults
  BY DEF IInv, TypeOK, SocketsType, EndType
<1>4. [socket[side][p] EXCEPT !.input = socket[side][p].input - n] \in EndType
  <2>1. socket[side][p] \in EndType
    BY <1>3 DEF SocketsType
  <2>2. socket[side][p].input - n \in 0 .. Capacity
    BY <1>1, <1>2, <2>1, ConstantFacts DEF EndType
  <2> QED
    BY <2>1, <2>2, InputFacts
<1>5. /\ sockets \in SocketsType
      /\ sockets[side][p] = [socket[side][p] EXCEPT !.input = socket[side][p].input - n]
      /\ \A x \in Sides, q \in Pitches : x # side \/ q # p => sockets[x][q] = socket[x][q]
  BY <1>3, <1>4 DEF SocketsType
<1> HIDE DEF sockets
<1>6. /\ proc' = [proc EXCEPT ![side][p] = t]
      /\ UNCHANGED <<bytes, parent, name, faults>>
      /\ Settle(S) /\ S \in SocketsType
      /\ S[side][p] = After(t, sockets[side][p])
      /\ \A x \in Sides, q \in Pitches : x # side \/ q # p => S[x][q] = sockets[x][q]
  BY <1>1, <1>5, AdvanceFacts
<1>7. \A x \in Sides, q \in Pitches : x # side \/ q # p => S[x][q] = socket[x][q]
  BY <1>5, <1>6
<1> HIDE DEF S
<1>8. Running(side, p) /\ t.state # "none"
  <2>1. Running(side, p) /\ Shape(proc[side][p]) /\ bytes[p] \in Nat
    BY <1>1, <1>3 DEF In, SoundOf, Sound, Sides
  <2> QED
    BY <1>1, <1>2, <2>1, MovedFacts DEF Running
<1>9. CASE side = "pitch"
  <2>1. proc["pitch"][p].call \in {2, 4}
    BY <1>1, <1>9, Calls
  <2>2. S["catch"][p] = socket["catch"][p]
    BY <1>7, <1>9 DEF Sides
  <2>3. Sound(t, proc["catch"][p], S["pitch"][p], S["catch"][p], bytes[p])
    BY <1>1, <1>2, <1>3, <1>5, <1>6, <1>8, <1>9, <2>1, <2>2, PitchReceives DEF SoundOf, Running
  <2>4. ~Waiting(p) \/ S["catch"][p].end = "open"
    BY <2>2 DEF Waiting
  <2> QED
    BY <1>3, <1>6, <1>7, <1>8, <1>9, <2>3, <2>4, StepInv
<1>10. CASE side = "catch"
  <2>1. proc["catch"][p].call \in {1, 3}
    BY <1>1, <1>10, Calls
  <2>2. S["pitch"][p] = socket["pitch"][p]
    BY <1>7, <1>10 DEF Sides
  <2>3. Sound(proc["pitch"][p], t, S["pitch"][p], S["catch"][p], bytes[p])
    BY <1>1, <1>2, <1>3, <1>5, <1>6, <1>8, <1>10, <2>1, <2>2, CatchReceives DEF SoundOf, Running
  <2>4. ~Waiting(p)
    BY <1>8, <1>10 DEF Waiting, Running
  <2> QED
    BY <1>3, <1>6, <1>7, <1>8, <1>10, <2>3, <2>4, StepInv
<1> QED
  BY <1>9, <1>10 DEF Sides

(* The end of a process that runs, by exit or by a signal. *)
LEMMA EndInv ==
    ASSUME IInv, NEW side \in Sides, NEW p \in Pitches, NEW t, Running(side, p),
           t = Exited(proc[side][p]),
           proc' = [proc EXCEPT ![side][p] = t], UNCHANGED <<bytes, parent>>,
           name' \in BOOLEAN, faults' \in 0 .. MaxFaults,
           Settle([socket EXCEPT ![side][p] = Closed(@)])
    PROVE  IInv'
<1> DEFINE S == [socket EXCEPT ![side][p] = Closed(@)]
<1>1. socket \in SocketsType /\ SoundOf(p) /\ parent \in BOOLEAN
  BY DEF IInv, TypeOK, SocketsType, EndType
<1>2. Closed(socket[side][p]) \in EndType
  BY <1>1, ClosedFacts DEF SocketsType
<1>3. /\ S \in SocketsType /\ S[side][p] = Closed(socket[side][p])
      /\ \A x \in Sides, q \in Pitches : x # side \/ q # p => S[x][q] = socket[x][q]
  BY <1>1, <1>2 DEF SocketsType
<1> HIDE DEF S
<1>4. Shape(t) /\ t.state = "failed"
  <2>1. Shape(proc[side][p])
    BY <1>1 DEF SoundOf, Sound, Sides
  <2> QED
    BY <2>1, ExitedFacts
<1>5. CASE side = "pitch"
  <2>1. S["catch"][p] = socket["catch"][p]
    BY <1>3, <1>5 DEF Sides
  <2>2. Sound(t, proc["catch"][p], S["pitch"][p], S["catch"][p], bytes[p])
    BY <1>1, <1>2, <1>3, <1>4, <1>5, <2>1, PitchEnds DEF SoundOf, Running
  <2>3. ~Waiting(p) \/ S["catch"][p].end = "open"
    BY <2>1 DEF Waiting
  <2> QED
    BY <1>1, <1>3, <1>4, <1>5, <2>2, <2>3, StepInv DEF S
<1>6. CASE side = "catch"
  <2>1. S["pitch"][p] = socket["pitch"][p]
    BY <1>3, <1>6 DEF Sides
  <2>2. Sound(proc["pitch"][p], t, S["pitch"][p], S["catch"][p], bytes[p])
    BY <1>1, <1>2, <1>3, <1>4, <1>6, <2>1, CatchEnds DEF SoundOf, Running
  <2>3. ~Waiting(p)
    BY <1>6 DEF Waiting, Running
  <2> QED
    BY <1>1, <1>3, <1>4, <1>6, <2>2, <2>3, StepInv DEF S
<1> QED
  BY <1>5, <1>6 DEF Sides

LEMMA FailsInv ==
    ASSUME IInv, NEW side \in Sides, NEW p \in Pitches, Fails(side, p)
    PROVE  IInv'
<1>1. Running(side, p) /\ name \in BOOLEAN /\ faults \in 0 .. MaxFaults
  BY DEF Fails, In, IInv, TypeOK
<1>2. proc' = [proc EXCEPT ![side][p] = Exited(proc[side][p])]
  BY DEF Fails
<1> QED
  BY <1>1, <1>2, EndInv DEF Fails

LEMMA SignalInv ==
    ASSUME IInv, NEW side \in Sides, NEW p \in Pitches, Signal(side, p)
    PROVE  IInv'
<1>1. faults' \in 0 .. MaxFaults
  BY ConstantFacts DEF Signal, IInv, TypeOK
<1>2. name' \in BOOLEAN
  BY DEF Signal
<1>3. proc' = [proc EXCEPT ![side][p] = Exited(proc[side][p])]
  BY DEF Signal, Killed, Exited
<1> QED
  BY <1>1, <1>2, <1>3, EndInv DEF Signal

LEMMA SignalParentInv ==
    ASSUME IInv, SignalParent
    PROVE  IInv'
<1>1. /\ faults' \in 0 .. MaxFaults /\ name' \in BOOLEAN /\ parent' \in BOOLEAN
      /\ UNCHANGED <<bytes, proc>> /\ Settle(socket)
  <2>1. faults' \in 0 .. MaxFaults
    BY ConstantFacts DEF SignalParent, IInv, TypeOK
  <2> QED
    BY <2>1 DEF SignalParent
<1>2. socket \in SocketsType /\ Backlog >= 0
  BY ConstantFacts DEF IInv, TypeOK, SocketsType, EndType
<1>3. /\ socket' \in SocketsType
      /\ \A q \in Pitches : socket'["pitch"][q] = socket["pitch"][q]
      /\ \/ backlog' = backlog /\ socket' = socket
         \/ /\ backlog' = << >>
            /\ \A q \in Pitches :
                  socket'["catch"][q] = IF q \in ToSet(backlog) THEN Reset ELSE socket["catch"][q]
  BY <1>1, <1>2, SettleFacts
<1>4. ASSUME NEW q \in Pitches PROVE SoundOf(q)'
  <2>1. SoundOf(q)
    BY DEF IInv
  <2>2. CASE socket'["catch"][q] = socket["catch"][q]
    BY <1>1, <1>3, <2>1, <2>2 DEF SoundOf
  <2>3. CASE q \in ToSet(backlog) /\ socket'["catch"][q] = Reset
    <3>1. proc["catch"][q].state = "none"
      BY <2>3, InBacklog DEF Waiting
    <3>2. Sound(proc["pitch"][q], proc["catch"][q], socket["pitch"][q], Reset, bytes[q])
      BY <2>1, <3>1, NotAccepted DEF SoundOf, Reset
    <3> QED
      BY <1>1, <1>3, <2>3, <3>2 DEF SoundOf
  <2> QED
    BY <1>3, <2>2, <2>3
<1>5. Queued'
  <2>1. CASE backlog' = << >>
    BY <2>1, EmptySeq DEF Queued
  <2>2. CASE backlog' = backlog /\ socket' = socket
    BY <1>1, <2>2 DEF IInv, Queued, Waiting
  <2> QED
    BY <1>3, <2>1, <2>2
<1>6. backlog' \in Seq(Pitches) /\ Len(backlog') <= Backlog
  BY <1>2, <1>3, EmptySeq DEF IInv, TypeOK
<1>7. TypeOK'
  BY <1>1, <1>3, <1>6 DEF IInv, TypeOK, SocketsType, EndType
<1> QED
  BY <1>4, <1>5, <1>7 DEF IInv

LEMMA ConnectInv ==
    ASSUME IInv, NEW p \in Pitches, Connect(p)
    PROVE  IInv'
<1> DEFINE t == AtCall(1, bytes[p])
<1>1. /\ proc["pitch"][p].state = "none" /\ Len(backlog) < Backlog
      /\ backlog' = Append(backlog, p)
      /\ proc' = [proc EXCEPT !["pitch"][p] = t]
      /\ socket' = [socket EXCEPT !["pitch"][p] = Open, !["catch"][p] = Open]
      /\ UNCHANGED <<bytes, parent, name, faults>>
  BY DEF Connect
<1>2. /\ proc \in [Sides -> [Pitches -> ProcType]] /\ socket \in SocketsType
      /\ backlog \in Seq(Pitches) /\ SoundOf(p)
  BY DEF IInv, TypeOK, ProcType, SocketsType, EndType
<1>3. Sound(t, proc["catch"][p], Open, Open, bytes[p]) /\ t.state # "none" /\ bytes'[p] = bytes[p]
  BY <1>1, <1>2, Connects DEF SoundOf
<1>4. t \in ProcType /\ proc["catch"][p].state = "none" /\ Open \in EndType /\ Open.end = "open"
  BY <1>1, <1>2, <1>3 DEF SoundOf, Sound, Shape, Open
<1> HIDE DEF t
<1>5. /\ proc' \in [Sides -> [Pitches -> ProcType]] /\ socket' \in SocketsType
      /\ proc'["pitch"][p] = t /\ proc'["catch"] = proc["catch"]
      /\ socket'["pitch"][p] = Open /\ socket'["catch"][p] = Open
      /\ \A q \in Pitches \ {p} :
            /\ proc'["pitch"][q] = proc["pitch"][q]
            /\ socket'["pitch"][q] = socket["pitch"][q] /\ socket'["catch"][q] = socket["catch"][q]
  BY <1>1, <1>2, <1>4 DEF Sides, SocketsType
<1>6. ASSUME NEW q \in Pitches PROVE SoundOf(q)'
  <2>1. CASE q = p
    BY <1>3, <1>5, <2>1 DEF SoundOf
  <2>2. CASE q # p
    <3>1. SoundOf(q)
      BY DEF IInv
    <3> QED
      BY <1>1, <1>5, <2>2, <3>1 DEF SoundOf
  <2> QED
    BY <2>1, <2>2
<1>7. /\ backlog' \in Seq(Pitches) /\ Len(backlog') = Len(backlog) + 1
      /\ \A i \in 1 .. Len(backlog) : backlog'[i] = backlog[i]
      /\ backlog'[Len(backlog) + 1] = p
  BY <1>1, <1>2, AppendProperties
<1>8. \A i \in 1 .. Len(backlog) : backlog[i] \in Pitches /\ backlog[i] # p /\ Waiting(backlog[i])
  BY <1>1, BacklogFacts DEF Waiting
<1>9. Queued'
  <2> DEFINE Waits1(q) == /\ proc'["catch"][q].state = "none" /\ proc'["pitch"][q].state # "none"
                          /\ socket'["catch"][q].end = "open"
  <2>1. Waits1(p)
    BY <1>3, <1>4, <1>5
  <2>2. \A i \in 1 .. Len(backlog) : Waits1(backlog[i])
    BY <1>5, <1>8 DEF Waiting
  <2>3. Len(backlog) \in Nat
    BY <1>2, LenProperties
  <2>4. \A i \in 1 .. Len(backlog') : i \in 1 .. Len(backlog) \/ i = Len(backlog) + 1
    BY <1>7, <2>3
  <2> HIDE DEF Waits1
  <2>5. \A i \in 1 .. Len(backlog') : Waits1(backlog'[i])
    <3> SUFFICES ASSUME NEW i \in 1 .. Len(backlog')
                 PROVE  Waits1(backlog'[i])
      OBVIOUS
    <3>1. CASE i = Len(backlog) + 1
      BY <1>7, <2>1, <3>1
    <3>2. CASE i \in 1 .. Len(backlog)
      BY <1>7, <2>2, <3>2
    <3> QED
      BY <2>4, <3>1, <3>2
  <2>6. \A i, j \in 1 .. Len(backlog') : backlog'[i] = backlog'[j] => i = j
    BY <1>7, <1>8, <2>3, <2>4 DEF IInv, Queued
  <2> QED
    BY <2>5, <2>6 DEF Queued, Waiting, Waits1
<1>10. Len(backlog') <= Backlog
  BY <1>1, <1>2, <1>7, LenProperties, ConstantFacts
<1>11. TypeOK'
  BY <1>1, <1>5, <1>7, <1>10 DEF IInv, TypeOK, ProcType, SocketsType, EndType
<1> QED
  BY <1>6, <1>9, <1>11 DEF IInv

LEMMA ConnectFailsInv ==
    ASSUME IInv, NEW p \in Pitches, ConnectFails(p)
    PROVE  IInv'
<1> DEFINE t == Exited(proc["pitch"][p])
<1>1. /\ proc["pitch"][p].state = "none" /\ proc' = [proc EXCEPT !["pitch"][p] = t]
      /\ UNCHANGED <<bytes, socket, backlog, parent, name, faults>>
  BY DEF ConnectFails
<1>2. /\ proc \in [Sides -> [Pitches -> ProcType]] /\ SoundOf(p) /\ socket["pitch"][p] \in EndType
  BY DEF IInv, TypeOK, ProcType, EndType, Sides
<1>3. Shape(t) /\ t.state = "failed" /\ t \in ProcType
  <2>1. Shape(proc["pitch"][p])
    BY <1>2 DEF SoundOf, Sound
  <2>2. Shape(t) /\ t.state = "failed"
    BY <2>1, ExitedFacts
  <2> QED
    BY <2>2 DEF Shape
<1> HIDE DEF t
<1>4. /\ proc' \in [Sides -> [Pitches -> ProcType]]
      /\ proc'["pitch"][p] = t /\ proc'["catch"] = proc["catch"]
      /\ \A q \in Pitches \ {p} : proc'["pitch"][q] = proc["pitch"][q]
  BY <1>1, <1>2, <1>3 DEF Sides
<1>5. proc["catch"][p].state = "none"
  BY <1>1, <1>2 DEF SoundOf, Sound
<1>6. Sound(t, proc["catch"][p], socket["pitch"][p], socket["catch"][p], bytes[p])
  BY <1>1, <1>2, <1>3, <1>5, PitchEnds DEF SoundOf
<1>7. ASSUME NEW q \in Pitches PROVE SoundOf(q)'
  <2>1. CASE q = p
    BY <1>1, <1>4, <1>6, <2>1 DEF SoundOf
  <2>2. CASE q # p
    <3>1. SoundOf(q)
      BY DEF IInv
    <3> QED
      BY <1>1, <1>4, <2>2, <3>1 DEF SoundOf
  <2> QED
    BY <2>1, <2>2
<1>8. \A i \in 1 .. Len(backlog) : backlog[i] \in Pitches /\ backlog[i] # p /\ Waiting(backlog[i])
  BY <1>1, BacklogFacts DEF Waiting
<1>9. Queued'
  BY <1>1, <1>4, <1>8 DEF IInv, Queued, Waiting
<1>10. TypeOK'
  BY <1>1, <1>4 DEF IInv, TypeOK, ProcType
<1> QED
  BY <1>7, <1>9, <1>10 DEF IInv

(* The head of the backlog leaves it; it is not there a second time. *)
LEMMA BacklogTail ==
    ASSUME IInv, backlog # << >>
    PROVE  /\ Head(backlog) \in Pitches /\ Waiting(Head(backlog))
           /\ Tail(backlog) \in Seq(Pitches) /\ Len(Tail(backlog)) <= Backlog
           /\ \A i \in 1 .. Len(Tail(backlog)) :
                 LET q == Tail(backlog)[i] IN q \in Pitches /\ q # Head(backlog) /\ Waiting(q)
           /\ \A i, j \in 1 .. Len(Tail(backlog)) : Tail(backlog)[i] = Tail(backlog)[j] => i = j
<1>1. backlog \in Seq(Pitches) /\ Len(backlog) \in Nat /\ Len(backlog) > 0 /\ Len(backlog) <= Backlog
  BY EmptySeq, LenProperties DEF IInv, TypeOK
<1>2. /\ Tail(backlog) \in Seq(Pitches) /\ Len(Tail(backlog)) = Len(backlog) - 1
      /\ \A i \in 1 .. Len(Tail(backlog)) : Tail(backlog)[i] = backlog[i + 1]
      /\ Head(backlog) = backlog[1]
  BY <1>1, HeadTailProperties
<1>3. \A i \in 1 .. Len(Tail(backlog)) : i + 1 \in 1 .. Len(backlog) /\ i + 1 # 1
  BY <1>1, <1>2
<1>4. 1 \in 1 .. Len(backlog)
  BY <1>1
<1>5. \A i \in 1 .. Len(backlog) : backlog[i] \in Pitches /\ Waiting(backlog[i])
  BY BacklogFacts
<1>6. \A i, j \in 1 .. Len(backlog) : backlog[i] = backlog[j] => i = j
  BY DEF IInv, Queued
<1>7. \A i \in 1 .. Len(Tail(backlog)) : Tail(backlog)[i] # Head(backlog)
  BY <1>2, <1>3, <1>4, <1>6
<1>8. \A i, j \in 1 .. Len(Tail(backlog)) : Tail(backlog)[i] = Tail(backlog)[j] => i = j
  <2> SUFFICES ASSUME NEW i \in 1 .. Len(Tail(backlog)), NEW j \in 1 .. Len(Tail(backlog)),
                      Tail(backlog)[i] = Tail(backlog)[j]
               PROVE  i = j
    OBVIOUS
  <2>1. i + 1 = j + 1
    BY <1>2, <1>3, <1>6
  <2> QED
    BY <2>1
<1>9. Len(Tail(backlog)) <= Backlog
  BY <1>1, <1>2, ConstantFacts
<1> QED
  BY <1>2, <1>3, <1>4, <1>5, <1>7, <1>8, <1>9

LEMMA AcceptInv ==
    ASSUME IInv, Accept
    PROVE  IInv'
<1> DEFINE p == Head(backlog)
<1> DEFINE t == AtCall(1, bytes[p])
<1>1. /\ backlog # << >> /\ backlog' = Tail(backlog)
      /\ proc' = [proc EXCEPT !["catch"][p] = t]
      /\ UNCHANGED <<bytes, socket, parent, name, faults>>
  BY DEF Accept
<1>2. /\ p \in Pitches /\ Waiting(p)
      /\ backlog' \in Seq(Pitches) /\ Len(backlog') <= Backlog
      /\ \A i \in 1 .. Len(backlog') :
            backlog'[i] \in Pitches /\ backlog'[i] # p /\ Waiting(backlog'[i])
      /\ \A i, j \in 1 .. Len(backlog') : backlog'[i] = backlog'[j] => i = j
  BY <1>1, BacklogTail
<1> HIDE DEF p
<1>3. proc \in [Sides -> [Pitches -> ProcType]] /\ SoundOf(p)
  BY <1>2 DEF IInv, TypeOK, ProcType
<1>4. Sound(proc["pitch"][p], t, socket["pitch"][p], socket["catch"][p], bytes[p])
  BY <1>2, <1>3, Accepted DEF SoundOf, Waiting
<1>5. t \in ProcType
  BY <1>4 DEF Sound, Shape
<1> HIDE DEF t
<1>6. /\ proc' \in [Sides -> [Pitches -> ProcType]]
      /\ proc'["catch"][p] = t /\ proc'["pitch"] = proc["pitch"]
      /\ \A q \in Pitches \ {p} : proc'["catch"][q] = proc["catch"][q]
  BY <1>1, <1>2, <1>3, <1>5 DEF Sides
<1>7. ASSUME NEW q \in Pitches PROVE SoundOf(q)'
  <2>1. CASE q = p
    BY <1>1, <1>4, <1>6, <2>1 DEF SoundOf
  <2>2. CASE q # p
    <3>1. SoundOf(q)
      BY DEF IInv
    <3> QED
      BY <1>1, <1>6, <2>2, <3>1 DEF SoundOf
  <2> QED
    BY <2>1, <2>2
<1>8. Queued'
  BY <1>1, <1>2, <1>6 DEF Queued, Waiting
<1>9. TypeOK'
  BY <1>1, <1>2, <1>6 DEF IInv, TypeOK, ProcType
<1> QED
  BY <1>7, <1>8, <1>9 DEF IInv

LEMMA ForkFailsInv ==
    ASSUME IInv, ForkFails
    PROVE  IInv'
<1> DEFINE p == Head(backlog)
<1> DEFINE e == Closed(socket["catch"][p])
<1>1. /\ backlog # << >> /\ backlog' = Tail(backlog)
      /\ socket' = [socket EXCEPT !["catch"][p] = e]
      /\ UNCHANGED <<bytes, proc, parent, name>>
  BY DEF ForkFails
<1>2. faults' \in 0 .. MaxFaults
  BY ConstantFacts DEF ForkFails, IInv, TypeOK
<1>3. /\ p \in Pitches /\ Waiting(p)
      /\ backlog' \in Seq(Pitches) /\ Len(backlog') <= Backlog
      /\ \A i \in 1 .. Len(backlog') :
            backlog'[i] \in Pitches /\ backlog'[i] # p /\ Waiting(backlog'[i])
      /\ \A i, j \in 1 .. Len(backlog') : backlog'[i] = backlog'[j] => i = j
  BY <1>1, BacklogTail
<1> HIDE DEF p
<1>4. socket \in SocketsType /\ SoundOf(p)
  BY <1>3 DEF IInv, TypeOK, SocketsType, EndType
<1>5. Sound(proc["pitch"][p], proc["catch"][p], socket["pitch"][p], e, bytes[p])
  BY <1>3, <1>4, NotAccepted DEF SoundOf, Waiting
<1>6. e \in EndType
  BY <1>5 DEF Sound
<1> HIDE DEF e
<1>7. /\ socket' \in SocketsType
      /\ socket'["catch"][p] = e /\ socket'["pitch"] = socket["pitch"]
      /\ \A q \in Pitches \ {p} : socket'["catch"][q] = socket["catch"][q]
  BY <1>1, <1>3, <1>4, <1>6 DEF Sides, SocketsType
<1>8. ASSUME NEW q \in Pitches PROVE SoundOf(q)'
  <2>1. CASE q = p
    BY <1>1, <1>5, <1>7, <2>1 DEF SoundOf
  <2>2. CASE q # p
    <3>1. SoundOf(q)
      BY DEF IInv
    <3> QED
      BY <1>1, <1>7, <2>2, <3>1 DEF SoundOf
  <2> QED
    BY <2>1, <2>2
<1>9. Queued'
  BY <1>1, <1>3, <1>7 DEF Queued, Waiting
<1>10. TypeOK'
  BY <1>1, <1>2, <1>3, <1>7 DEF IInv, TypeOK, SocketsType, EndType
<1> QED
  BY <1>8, <1>9, <1>10 DEF IInv

LEMMA InitInv == Init => IInv
<1> SUFFICES ASSUME Init PROVE IInv
  OBVIOUS
<1>1. /\ bytes \in [Pitches -> Sizes] /\ backlog = << >> /\ parent = TRUE /\ name = TRUE /\ faults = 0
      /\ \A p \in Pitches : \A side \in Sides :
            /\ proc[side][p] = [state |-> "none", call |-> 0, buflen |-> 0, more |-> 0]
            /\ socket[side][p] = [end |-> "none", input |-> 0]
  BY DEF Init
<1>2. \A p \in Pitches : SoundOf(p)
  <2> SUFFICES ASSUME NEW p \in Pitches PROVE SoundOf(p)
    OBVIOUS
  <2>1. bytes[p] \in Nat
    BY <1>1, ConstantFacts
  <2> QED
    BY <1>1, <2>1, ConstantFacts DEF SoundOf, Sound, Shape, ProcType, EndType, Sides
<1>3. Queued
  BY <1>1, EmptySeq DEF Queued
<1>4. backlog \in Seq(Pitches) /\ Len(backlog) <= Backlog /\ faults \in 0 .. MaxFaults
  BY <1>1, EmptySeq, ConstantFacts
<1>5. proc \in [Sides -> [Pitches -> ProcType]] /\ socket \in SocketsType
  BY ConstantFacts DEF Init, ProcType, EndType, SocketsType
<1>6. TypeOK
  BY <1>1, <1>4, <1>5 DEF TypeOK, ProcType, EndType, SocketsType
<1> QED
  BY <1>2, <1>3, <1>6 DEF IInv

LEMMA NextInv == IInv /\ [Next]_vars => IInv'
<1> SUFFICES ASSUME IInv, [Next]_vars PROVE IInv'
  OBVIOUS
<1>1. CASE Next
  BY <1>1, ConnectInv, ConnectFailsInv, AcceptInv, ForkFailsInv, SendInv, RecvInv, FailsInv,
     SignalInv, SignalParentInv DEF Next
<1>2. CASE UNCHANGED vars
  BY <1>2 DEF vars, IInv, TypeOK, Queued, Waiting, SoundOf
<1> QED
  BY <1>1, <1>2

LEMMA Invariance == Spec => []IInv
BY InitInv, NextInv, PTL DEF Spec

-----------------------------------------------------------------------------
(* Every variable has its type: no socket holds more than it can, and no   *)
(* more connections wait than the backlog has room for.                    *)
THEOREM TypeCorrect == Spec => []TypeOK
<1>1. IInv => TypeOK
  BY DEF IInv
<1> QED
  BY <1>1, Invariance, PTL

(* What one process will still send, with what is under way, is what the   *)
(* other will still receive, whatever the sizes and wherever send and recv *)
(* cut the data: send_data and recv_data of both programs agree.           *)
THEOREM TransfersStayInStep == Spec => []InStep
<1>1. ASSUME IInv PROVE InStep
  <2> SUFFICES ASSUME NEW p \in Pitches, proc["pitch"][p].state # "none",
                      Alive("pitch", p), Alive("catch", p)
               PROVE  /\ socket["catch"][p].end # "reset" =>
                            Remaining("pitch", p, "send") + socket["catch"][p].input
                              = Remaining("catch", p, "recv")
                      /\ socket["pitch"][p].end # "reset" =>
                            Remaining("catch", p, "send") + socket["pitch"][p].input
                              = Remaining("pitch", p, "recv")
    BY DEF InStep, Sides, Peer, Alive
  <2>1. SoundOf(p)
    BY <1>1 DEF IInv
  <2>2. TypeOK
    BY <1>1 DEF IInv
  <2> QED
    BY <2>1, <2>2, RemainingIs DEF SoundOf, Sound, Alive
<1> QED
  BY <1>1, Invariance, PTL

(* The two ends of a connection never wait for each other: a deadlock of   *)
(* pitch and catch is out of the question, whatever a socket holds.        *)
THEOREM EndsNeverBothWait == Spec => []NeverBothWait
<1>1. ASSUME IInv PROVE NeverBothWait
  <2> SUFFICES ASSUME NEW p \in Pitches, Waits("pitch", p), Waits("catch", p)
               PROVE  FALSE
    BY DEF NeverBothWait
  <2> DEFINE a == proc["pitch"][p]
  <2> DEFINE c == proc["catch"][p]
  <2> DEFINE sa == socket["pitch"][p]
  <2> DEFINE sc == socket["catch"][p]
  <2>1. a.state = "run" /\ c.state = "run" /\ bytes[p] \in Nat /\ Sound(a, c, sa, sc, bytes[p])
    BY <1>1 DEF Waits, In, Running, IInv, SoundOf, Sound
  <2>2. \/ a.call \in {1, 3} /\ sc.input = Capacity
        \/ a.call \in {2, 4} /\ sa.input = 0
    BY <1>1, Calls DEF Waits, Peer
  <2>3. \/ c.call \in {2, 4} /\ sa.input = Capacity
        \/ c.call \in {1, 3} /\ sc.input = 0
    BY <1>1, Calls DEF Waits, Peer
  <2> HIDE DEF a, c, sa, sc
  <2>4. /\ Odd(a, bytes[p]) + sc.input = Odd(c, bytes[p])
        /\ Even(c, bytes[p]) + sa.input = Even(a, bytes[p])
    BY <2>1 DEF Sound
  <2>5. /\ a.buflen \in Nat /\ a.more \in Nat /\ a.buflen > 0
        /\ c.buflen \in Nat /\ c.more \in Nat /\ c.buflen > 0
    BY <2>1 DEF Sound, Shape, ProcType
  <2> QED
    BY <2>1, <2>2, <2>3, <2>4, <2>5, ConstantFacts DEF Odd, Even, Left
<1> QED
  BY <1>1, Invariance, PTL

-----------------------------------------------------------------------------
(* Before the first fault.                                                 *)

(* The sockets of one transfer are open until its processes are done.      *)
Fresh(a, c, sa, sc) ==
    /\ a.state # "failed" /\ c.state # "failed"
    /\ a.state # "none" =>
          /\ sa.end = IF a.state = "done" THEN "closed" ELSE "open"
          /\ sc.end = IF c.state = "done" THEN "closed" ELSE "open"

FreshOf(p) == Fresh(proc["pitch"][p], proc["catch"][p], socket["pitch"][p], socket["catch"][p])

(* Catch is up, and accepts what has connected.                            *)
Clean ==
    faults = 0 =>
        /\ parent /\ name
        /\ \A p \in Pitches : FreshOf(p)
        /\ \A p \in Pitches :
              proc["pitch"][p].state # "none" /\ proc["catch"][p].state = "none"
                => p \in ToSet(backlog)

LEMMA ClosedEmpty == ASSUME NEW e, e.input = 0 PROVE Closed(e).end = "closed"
BY DEF Closed

(* What a process in a call has left, and one that is done.                *)
LEMMA LeftInCall ==
    ASSUME NEW s, Shape(s), NEW b \in Nat
    PROVE  /\ s.state = "run" /\ s.call \in {1, 3} => Odd(s, b) > 0 /\ Even(s, b) > 0
           /\ s.state = "run" /\ s.call \in {2, 4} => Even(s, b) > 0
           /\ s.state = "run" /\ s.call = 4 => Odd(s, b) = 0
           /\ s.state = "done" => Odd(s, b) = 0 /\ Even(s, b) = 0
           /\ s.state \in {"none", "run", "done", "failed"}
           /\ s.state = "run" => s.call \in {1, 3} \/ s.call \in {2, 4}
BY ConstantFacts DEF Shape, ProcType, Odd, Even, Left

(* A pitch or a catch that is done has read everything, so that closing    *)
(* its socket resets nothing.                                              *)
LEMMA PitchStaysFresh ==
    ASSUME NEW a, NEW c, NEW sa, NEW sc, NEW b, Sound(a, c, sa, sc, b), Fresh(a, c, sa, sc),
           a.state = "run", NEW n \in Nat, n <= a.buflen
    PROVE  LET t == Moved(a, n, b)
           IN  /\ a.call \in {1, 3}
                    => Fresh(t, c, After(t, sa), [sc EXCEPT !.input = sc.input + n])
               /\ a.call \in {2, 4} /\ n <= sa.input
                    => Fresh(t, c, After(t, [sa EXCEPT !.input = sa.input - n]), sc)
<1> DEFINE t == Moved(a, n, b)
<1>1. /\ Shape(a) /\ Shape(c) /\ sa \in EndType /\ sc \in EndType /\ b \in Nat
      /\ sa.end = "open" /\ sc.end = (IF c.state = "done" THEN "closed" ELSE "open")
      /\ c.state # "failed"
      /\ Odd(a, b) + sc.input = Odd(c, b) /\ Even(c, b) + sa.input = Even(a, b)
  BY DEF Sound, Fresh
<1>2. /\ Shape(t) /\ t.state \in {"run", "done"}
      /\ Odd(t, b)  = IF a.call \in {1, 3} THEN Odd(a, b) - n ELSE Odd(a, b)
      /\ Even(t, b) = IF a.call \in {2, 4} THEN Even(a, b) - n ELSE Even(a, b)
  BY <1>1, MovedFacts
<1>3. Odd(a, b) \in Nat /\ Even(a, b) \in Nat /\ Odd(c, b) \in Nat /\ Even(c, b) \in Nat
  BY <1>1, SumTypes
<1>4. sa.input \in Nat /\ sc.input \in Nat
  BY <1>1, ConstantFacts DEF EndType
<1> HIDE DEF t
<1>5. ASSUME a.call \in {1, 3}
      PROVE  Fresh(t, c, After(t, sa), [sc EXCEPT !.input = sc.input + n])
  <2>1. Even(a, b) > 0 /\ Even(t, b) = Even(a, b)
    BY <1>1, <1>2, <1>5, LeftInCall
  <2>2. t.state = "run"
    BY <1>1, <1>2, <1>3, <2>1, LeftInCall
  <2>3. [sc EXCEPT !.input = sc.input + n].end = sc.end
    BY <1>1 DEF EndType
  <2> QED
    BY <1>1, <2>2, <2>3 DEF Fresh, After
<1>6. ASSUME a.call \in {2, 4}, n <= sa.input
      PROVE  Fresh(t, c, After(t, [sa EXCEPT !.input = sa.input - n]), sc)
  <2> DEFINE e == [sa EXCEPT !.input = sa.input - n]
  <2>1. e.end = "open" /\ e.input = sa.input - n
    BY <1>1 DEF EndType
  <2> HIDE DEF e
  <2>2. CASE t.state = "run"
    BY <1>1, <2>1, <2>2 DEF Fresh, After, e
  <2>3. CASE t.state = "done"
    <3>1. Even(a, b) - n = 0
      BY <1>1, <1>2, <1>6, <2>3, LeftInCall
    <3>2. e.input = 0
      BY <1>1, <1>3, <1>4, <1>6, <2>1, <3>1
    <3>3. Closed(e).end = "closed"
      BY <3>2, ClosedEmpty
    <3> QED
      BY <1>1, <2>3, <3>3 DEF Fresh, After, e
  <2> QED
    BY <1>2, <2>2, <2>3
<1> QED
  BY <1>5, <1>6 DEF t

LEMMA CatchStaysFresh ==
    ASSUME NEW a, NEW c, NEW sa, NEW sc, NEW b, Sound(a, c, sa, sc, b), Fresh(a, c, sa, sc),
           c.state = "run", NEW n \in Nat, n <= c.buflen
    PROVE  LET t == Moved(c, n, b)
           IN  /\ c.call \in {2, 4}
                    => Fresh(a, t, [sa EXCEPT !.input = sa.input + n], After(t, sc))
               /\ c.call \in {1, 3} /\ n <= sc.input
                    => Fresh(a, t, sa, After(t, [sc EXCEPT !.input = sc.input - n]))
<1> DEFINE t == Moved(c, n, b)
<1>1. /\ Shape(a) /\ Shape(c) /\ sa \in EndType /\ sc \in EndType /\ b \in Nat
      /\ sa.end = (IF a.state = "done" THEN "closed" ELSE "open") /\ sc.end = "open"
      /\ a.state \notin {"none", "failed"}
      /\ Odd(a, b) + sc.input = Odd(c, b) /\ Even(c, b) + sa.input = Even(a, b)
  BY DEF Sound, Fresh
<1>2. /\ Shape(t) /\ t.state \in {"run", "done"}
      /\ Odd(t, b)  = IF c.call \in {1, 3} THEN Odd(c, b) - n ELSE Odd(c, b)
      /\ Even(t, b) = IF c.call \in {2, 4} THEN Even(c, b) - n ELSE Even(c, b)
  BY <1>1, MovedFacts
<1>3. Odd(a, b) \in Nat /\ Even(a, b) \in Nat /\ Odd(c, b) \in Nat /\ Even(c, b) \in Nat
  BY <1>1, SumTypes
<1>4. sa.input \in Nat /\ sc.input \in Nat
  BY <1>1, ConstantFacts DEF EndType
<1> HIDE DEF t
<1>5. ASSUME c.call \in {2, 4}
      PROVE  Fresh(a, t, [sa EXCEPT !.input = sa.input + n], After(t, sc))
  <2>1. [sa EXCEPT !.input = sa.input + n].end = sa.end
    BY <1>1 DEF EndType
  <2>2. CASE t.state = "run"
    BY <1>1, <2>1, <2>2 DEF Fresh, After
  <2>3. CASE t.state = "done"
    <3>1. Odd(c, b) = 0
      <4>1. Odd(t, b) = 0
        BY <1>1, <1>2, <2>3, LeftInCall
      <4> QED
        BY <1>2, <1>5, <4>1
    <3>2. sc.input = 0
      BY <1>1, <1>3, <1>4, <3>1
    <3>3. Closed(sc).end = "closed"
      BY <3>2, ClosedEmpty
    <3> QED
      BY <1>1, <2>1, <2>3, <3>3 DEF Fresh, After
  <2> QED
    BY <1>2, <2>2, <2>3
<1>6. ASSUME c.call \in {1, 3}, n <= sc.input
      PROVE  Fresh(a, t, sa, After(t, [sc EXCEPT !.input = sc.input - n]))
  <2>1. Even(c, b) > 0 /\ Even(t, b) = Even(c, b)
    BY <1>1, <1>2, <1>6, LeftInCall
  <2>2. t.state = "run"
    BY <1>1, <1>2, <1>3, <2>1, LeftInCall
  <2>3. [sc EXCEPT !.input = sc.input - n].end = sc.end
    BY <1>1 DEF EndType
  <2> QED
    BY <1>1, <2>2, <2>3 DEF Fresh, After
<1> QED
  BY <1>5, <1>6 DEF t

(* What a process may meet: while it sends its peer is there, and what it  *)
(* still has to receive is there if the peer is done.                      *)
LEMMA MeetsItsPeer ==
    ASSUME IInv, Clean, faults = 0, NEW p \in Pitches
    PROVE  LET a == proc["pitch"][p]  c == proc["catch"][p] IN
           /\ a.state \in {"none", "run", "done"} /\ c.state \in {"none", "run", "done"}
           /\ In("pitch", p, "send") => socket["catch"][p].end = "open" /\ c.state # "done"
           /\ In("catch", p, "send") => socket["pitch"][p].end = "open" /\ a.state # "done"
           /\ In("pitch", p, "recv") /\ c.state = "done" => socket["pitch"][p].input > 0
           /\ In("catch", p, "recv") /\ a.state = "done" => socket["catch"][p].input > 0
           /\ a.state # "none" => socket["catch"][p].end = IF c.state = "done" THEN "closed" ELSE "open"
           /\ a.state # "none" => socket["pitch"][p].end = IF a.state = "done" THEN "closed" ELSE "open"
           /\ a.state = "none" => c.state = "none"
<1> DEFINE a == proc["pitch"][p]
           c == proc["catch"][p]
           sa == socket["pitch"][p]
           sc == socket["catch"][p]
           b == bytes[p]
<1>1. Sound(a, c, sa, sc, b) /\ Fresh(a, c, sa, sc)
  BY DEF IInv, SoundOf, Clean, FreshOf
<1>2. /\ In("pitch", p, "send") => a.state = "run" /\ a.call \in {1, 3}
      /\ In("pitch", p, "recv") => a.state = "run" /\ a.call \in {2, 4}
      /\ In("catch", p, "send") => c.state = "run" /\ c.call \in {2, 4}
      /\ In("catch", p, "recv") => c.state = "run" /\ c.call \in {1, 3}
  BY Calls DEF Running
<1> HIDE DEF a, c, sa, sc, b
<1>3. /\ Shape(a) /\ Shape(c) /\ b \in Nat /\ sa.input \in Nat /\ sc.input \in Nat
      /\ a.state = "none" => c.state = "none"
      /\ a.state # "none" =>
            /\ sa.end = (IF a.state = "done" THEN "closed" ELSE "open")
            /\ sc.end = (IF c.state = "done" THEN "closed" ELSE "open")
            /\ Odd(a, b) + sc.input = Odd(c, b) /\ Even(c, b) + sa.input = Even(a, b)
      /\ a.state # "failed" /\ c.state # "failed"
  BY <1>1, ConstantFacts DEF Sound, Fresh, EndType
<1>4. Odd(a, b) \in Nat /\ Even(a, b) \in Nat /\ Odd(c, b) \in Nat /\ Even(c, b) \in Nat
  BY <1>3, SumTypes
<1>5. /\ a.state = "run" /\ a.call \in {1, 3} => Odd(a, b) > 0
      /\ a.state = "run" /\ a.call \in {2, 4} => Even(a, b) > 0
      /\ c.state = "run" /\ c.call \in {1, 3} => Odd(c, b) > 0
      /\ c.state = "run" /\ c.call \in {2, 4} => Even(c, b) > 0
      /\ a.state = "done" => Odd(a, b) = 0 /\ Even(a, b) = 0
      /\ c.state = "done" => Odd(c, b) = 0 /\ Even(c, b) = 0
      /\ a.state \in {"none", "run", "done", "failed"} /\ c.state \in {"none", "run", "done", "failed"}
  BY <1>3, LeftInCall
<1>6. c.state # "none" => a.state # "none"
  BY <1>3
<1>7. In("pitch", p, "send") => sc.end = "open" /\ c.state # "done"
  BY <1>2, <1>3, <1>4, <1>5
<1>8. In("catch", p, "send") => sa.end = "open" /\ a.state # "done"
  BY <1>2, <1>3, <1>4, <1>5, <1>6
<1>9. In("pitch", p, "recv") /\ c.state = "done" => sa.input > 0
  BY <1>2, <1>3, <1>4, <1>5, <1>6
<1>10. In("catch", p, "recv") /\ a.state = "done" => sc.input > 0
  BY <1>2, <1>3, <1>4, <1>5, <1>6
<1> QED
  BY <1>3, <1>5, <1>7, <1>8, <1>9, <1>10 DEF a, c, sa, sc

(* Without a fault no call fails, and recv finds no end of a stream.       *)
LEMMA NoCallFails ==
    ASSUME IInv, Clean, faults = 0, NEW p \in Pitches
    PROVE  /\ ~ConnectFails(p)
           /\ \A side \in Sides : ~Fails(side, p) /\ ~Spins(side, p) /\ Alive(side, p)
<1>1. ~ConnectFails(p)
  BY DEF ConnectFails, Listening, Clean
<1>2. ~Fails("pitch", p) /\ ~Spins("pitch", p) /\ Alive("pitch", p)
  <2>1. Peer["pitch"] = "catch"
    BY DEF Peer
  <2>2. In("pitch", p, "recv") => proc["pitch"][p].state # "none"
    BY DEF In, Running
  <2> QED
    BY <2>1, <2>2, MeetsItsPeer DEF Fails, Spins, Alive
<1>3. ~Fails("catch", p) /\ ~Spins("catch", p) /\ Alive("catch", p)
  <2>1. Peer["catch"] = "pitch"
    BY DEF Peer
  <2>2. In("catch", p, "recv") => proc["pitch"][p].state # "none"
    BY MeetsItsPeer DEF In, Running
  <2> QED
    BY <2>1, <2>2, MeetsItsPeer DEF Fails, Spins, Alive
<1> QED
  BY <1>1, <1>2, <1>3 DEF Sides

(* A step of a process of one transfer that leaves it as it should be. *)
LEMMA CleanStep ==
    ASSUME IInv, Clean, faults = 0, NEW side \in Sides, NEW p \in Pitches, NEW n,
           NEW t, t = Moved(proc[side][p], n, bytes[p]), t.state \in {"run", "done"},
           Running(side, p), NEW sockets \in SocketsType, Advance(side, p, n, sockets),
           \A x \in Sides, q \in Pitches \ {p} : sockets[x][q] = socket[x][q],
           side = "pitch" => Fresh(t, proc["catch"][p], After(t, sockets["pitch"][p]), sockets["catch"][p]),
           side = "catch" => Fresh(proc["pitch"][p], t, sockets["pitch"][p], After(t, sockets["catch"][p]))
    PROVE  Clean'
<1> DEFINE S == IF t.state = "done" THEN [sockets EXCEPT ![side][p] = Closed(@)] ELSE sockets
<1>1. /\ proc' = [proc EXCEPT ![side][p] = t]
      /\ UNCHANGED <<bytes, parent, name, faults>>
      /\ Settle(S) /\ S \in SocketsType
      /\ S[side][p] = After(t, sockets[side][p])
      /\ \A x \in Sides, q \in Pitches : x # side \/ q # p => S[x][q] = sockets[x][q]
  BY AdvanceFacts
<1>2. proc \in [Sides -> [Pitches -> ProcType]] /\ parent /\ name
  BY DEF IInv, TypeOK, ProcType, Clean
<1> HIDE DEF S
<1>3. socket' = S /\ backlog' = backlog
  BY <1>1, <1>2 DEF Settle, Listening
<1>4. ASSUME NEW q \in Pitches PROVE FreshOf(q)'
  <2>1. CASE q = p /\ side = "pitch"
    <3>1. /\ proc'["pitch"][p] = t /\ proc'["catch"][p] = proc["catch"][p]
          /\ socket'["pitch"][p] = After(t, sockets["pitch"][p])
          /\ socket'["catch"][p] = sockets["catch"][p]
      BY <1>1, <1>2, <1>3, <2>1 DEF Sides
    <3> QED
      BY <2>1, <3>1 DEF FreshOf
  <2>2. CASE q = p /\ side = "catch"
    <3>1. /\ proc'["catch"][p] = t /\ proc'["pitch"][p] = proc["pitch"][p]
          /\ socket'["catch"][p] = After(t, sockets["catch"][p])
          /\ socket'["pitch"][p] = sockets["pitch"][p]
      BY <1>1, <1>2, <1>3, <2>2 DEF Sides
    <3> QED
      BY <2>2, <3>1 DEF FreshOf
  <2>3. CASE q # p
    <3>1. /\ proc'["catch"][q] = proc["catch"][q] /\ proc'["pitch"][q] = proc["pitch"][q]
          /\ socket'["catch"][q] = socket["catch"][q] /\ socket'["pitch"][q] = socket["pitch"][q]
      BY <1>1, <1>2, <1>3, <2>3 DEF Sides
    <3>2. FreshOf(q)
      BY DEF Clean
    <3> QED
      BY <3>1, <3>2 DEF FreshOf
  <2> QED
    BY <2>1, <2>2, <2>3 DEF Sides
<1>5. ASSUME NEW q \in Pitches, proc'["pitch"][q].state # "none", proc'["catch"][q].state = "none"
      PROVE  q \in ToSet(backlog)'
  <2>1. proc["pitch"][q].state # "none" /\ proc["catch"][q].state = "none"
    BY <1>1, <1>2, <1>5 DEF Sides, Running
  <2> QED
    BY <1>3, <2>1 DEF Clean
<1> QED
  BY <1>1, <1>2, <1>4, <1>5 DEF Clean

(* A turn of send_data or recv_data, without a fault.                      *)
LEMMA SendClean ==
    ASSUME IInv, Clean, faults = 0, NEW side \in Sides, NEW p \in Pitches, NEW n \in Units,
           Send(side, p, n)
    PROVE  Clean'
<1> DEFINE sockets == [socket EXCEPT ![Peer[side]][p].input = @ + n]
           t == Moved(proc[side][p], n, bytes[p])
<1>1. /\ In(side, p, "send") /\ n <= proc[side][p].buflen
      /\ socket[Peer[side]][p].input + n <= Capacity /\ Advance(side, p, n, sockets)
  BY DEF Send
<1>2. n \in Nat /\ Peer[side] \in Sides /\ Peer[side] # side /\ Running(side, p)
  BY <1>1, ConstantFacts DEF Units, Peer, Sides, In
<1>3. socket \in SocketsType /\ SoundOf(p) /\ FreshOf(p)
  BY DEF IInv, TypeOK, SocketsType, EndType, Clean
<1>4. [socket[Peer[side]][p] EXCEPT !.input = socket[Peer[side]][p].input + n] \in EndType
  <2>1. socket[Peer[side]][p] \in EndType
    BY <1>2, <1>3 DEF SocketsType
  <2>2. socket[Peer[side]][p].input + n \in 0 .. Capacity
    BY <1>1, <1>2, <2>1, ConstantFacts DEF EndType
  <2> QED
    BY <2>1, <2>2, InputFacts
<1>5. /\ sockets \in SocketsType
      /\ sockets[Peer[side]][p] = [socket[Peer[side]][p] EXCEPT !.input = socket[Peer[side]][p].input + n]
      /\ \A x \in Sides, q \in Pitches : x # Peer[side] \/ q # p => sockets[x][q] = socket[x][q]
  BY <1>2, <1>3, <1>4 DEF SocketsType
<1> HIDE DEF sockets
<1>6. t.state \in {"run", "done"}
  <2>1. Shape(proc[side][p]) /\ proc[side][p].state = "run" /\ bytes[p] \in Nat
    BY <1>2, <1>3 DEF Running, SoundOf, Sound, Sides
  <2> QED
    BY <1>1, <1>2, <2>1, MovedFacts
<1> HIDE DEF t
<1>7. ASSUME side = "pitch"
      PROVE  Fresh(t, proc["catch"][p], After(t, sockets["pitch"][p]), sockets["catch"][p])
  <2>1. proc["pitch"][p].state = "run" /\ proc["pitch"][p].call \in {1, 3}
    BY <1>1, <1>7, Calls DEF Running
  <2>2. /\ sockets["pitch"][p] = socket["pitch"][p]
        /\ sockets["catch"][p] = [socket["catch"][p] EXCEPT !.input = socket["catch"][p].input + n]
    BY <1>5, <1>7 DEF Peer, Sides
  <2>3. /\ Sound(proc["pitch"][p], proc["catch"][p], socket["pitch"][p], socket["catch"][p], bytes[p])
        /\ Fresh(proc["pitch"][p], proc["catch"][p], socket["pitch"][p], socket["catch"][p])
    BY <1>3 DEF SoundOf, FreshOf
  <2>4. n <= proc["pitch"][p].buflen /\ t = Moved(proc["pitch"][p], n, bytes[p])
    BY <1>1, <1>7 DEF t
  <2> DEFINE u == Moved(proc["pitch"][p], n, bytes[p])
  <2>5. Fresh(u, proc["catch"][p], After(u, socket["pitch"][p]), [socket["catch"][p] EXCEPT !.input = socket["catch"][p].input + n])
    BY <1>2, <2>1, <2>3, <2>4, PitchStaysFresh, Zenon
  <2> HIDE DEF u
  <2> QED
    BY <1>7, <2>2, <2>4, <2>5 DEF u
<1>8. ASSUME side = "catch"
      PROVE  Fresh(proc["pitch"][p], t, sockets["pitch"][p], After(t, sockets["catch"][p]))
  <2>1. proc["catch"][p].state = "run" /\ proc["catch"][p].call \in {2, 4}
    BY <1>1, <1>8, Calls DEF Running
  <2>2. /\ sockets["catch"][p] = socket["catch"][p]
        /\ sockets["pitch"][p] = [socket["pitch"][p] EXCEPT !.input = socket["pitch"][p].input + n]
    BY <1>5, <1>8 DEF Peer, Sides
  <2>3. /\ Sound(proc["pitch"][p], proc["catch"][p], socket["pitch"][p], socket["catch"][p], bytes[p])
        /\ Fresh(proc["pitch"][p], proc["catch"][p], socket["pitch"][p], socket["catch"][p])
    BY <1>3 DEF SoundOf, FreshOf
  <2>4. n <= proc["catch"][p].buflen /\ t = Moved(proc["catch"][p], n, bytes[p])
    BY <1>1, <1>8 DEF t
  <2> DEFINE u == Moved(proc["catch"][p], n, bytes[p])
  <2>5. Fresh(proc["pitch"][p], u, [socket["pitch"][p] EXCEPT !.input = socket["pitch"][p].input + n], After(u, socket["catch"][p]))
    BY <1>2, <2>1, <2>3, <2>4, CatchStaysFresh, Zenon
  <2> HIDE DEF u
  <2> QED
    BY <1>8, <2>2, <2>4, <2>5 DEF u
<1>9. \A x \in Sides, q \in Pitches \ {p} : sockets[x][q] = socket[x][q]
  BY <1>5
<1> QED
  BY <1>1, <1>2, <1>5, <1>6, <1>7, <1>8, <1>9, CleanStep DEF t

LEMMA RecvClean ==
    ASSUME IInv, Clean, faults = 0, NEW side \in Sides, NEW p \in Pitches, NEW n \in Units,
           Recv(side, p, n)
    PROVE  Clean'
<1> DEFINE sockets == [socket EXCEPT ![side][p].input = @ - n]
           t == Moved(proc[side][p], n, bytes[p])
<1>1. /\ In(side, p, "recv") /\ n <= proc[side][p].buflen /\ n <= socket[side][p].input
      /\ Advance(side, p, n, sockets)
  BY DEF Recv
<1>2. n \in Nat /\ Running(side, p)
  BY <1>1, ConstantFacts DEF Units, In
<1>3. socket \in SocketsType /\ SoundOf(p) /\ FreshOf(p)
  BY DEF IInv, TypeOK, SocketsType, EndType, Clean
<1>4. [socket[side][p] EXCEPT !.input = socket[side][p].input - n] \in EndType
  <2>1. socket[side][p] \in EndType
    BY <1>3 DEF SocketsType
  <2>2. socket[side][p].input - n \in 0 .. Capacity
    BY <1>1, <1>2, <2>1, ConstantFacts DEF EndType
  <2> QED
    BY <2>1, <2>2, InputFacts
<1>5. /\ sockets \in SocketsType
      /\ sockets[side][p] = [socket[side][p] EXCEPT !.input = socket[side][p].input - n]
      /\ \A x \in Sides, q \in Pitches : x # side \/ q # p => sockets[x][q] = socket[x][q]
  BY <1>3, <1>4 DEF SocketsType
<1> HIDE DEF sockets
<1>6. t.state \in {"run", "done"}
  <2>1. Shape(proc[side][p]) /\ proc[side][p].state = "run" /\ bytes[p] \in Nat
    BY <1>2, <1>3 DEF Running, SoundOf, Sound, Sides
  <2> QED
    BY <1>1, <1>2, <2>1, MovedFacts
<1> HIDE DEF t
<1>7. ASSUME side = "pitch"
      PROVE  Fresh(t, proc["catch"][p], After(t, sockets["pitch"][p]), sockets["catch"][p])
  <2>1. proc["pitch"][p].state = "run" /\ proc["pitch"][p].call \in {2, 4}
    BY <1>1, <1>7, Calls DEF Running
  <2>2. /\ sockets["catch"][p] = socket["catch"][p]
        /\ sockets["pitch"][p] = [socket["pitch"][p] EXCEPT !.input = socket["pitch"][p].input - n]
    BY <1>5, <1>7 DEF Sides
  <2>3. /\ Sound(proc["pitch"][p], proc["catch"][p], socket["pitch"][p], socket["catch"][p], bytes[p])
        /\ Fresh(proc["pitch"][p], proc["catch"][p], socket["pitch"][p], socket["catch"][p])
    BY <1>3 DEF SoundOf, FreshOf
  <2>4. n <= proc["pitch"][p].buflen /\ t = Moved(proc["pitch"][p], n, bytes[p])
    BY <1>1, <1>7 DEF t
  <2>0. n <= socket["pitch"][p].input
    BY <1>1, <1>7
  <2> DEFINE u == Moved(proc["pitch"][p], n, bytes[p])
  <2>5. Fresh(u, proc["catch"][p], After(u, [socket["pitch"][p] EXCEPT !.input = socket["pitch"][p].input - n]), socket["catch"][p])
    BY <1>2, <2>1, <2>3, <2>4, <2>0, PitchStaysFresh, Zenon
  <2> HIDE DEF u
  <2> QED
    BY <1>7, <2>2, <2>4, <2>5 DEF u
<1>8. ASSUME side = "catch"
      PROVE  Fresh(proc["pitch"][p], t, sockets["pitch"][p], After(t, sockets["catch"][p]))
  <2>1. proc["catch"][p].state = "run" /\ proc["catch"][p].call \in {1, 3}
    BY <1>1, <1>8, Calls DEF Running
  <2>2. /\ sockets["pitch"][p] = socket["pitch"][p]
        /\ sockets["catch"][p] = [socket["catch"][p] EXCEPT !.input = socket["catch"][p].input - n]
    BY <1>5, <1>8 DEF Sides
  <2>3. /\ Sound(proc["pitch"][p], proc["catch"][p], socket["pitch"][p], socket["catch"][p], bytes[p])
        /\ Fresh(proc["pitch"][p], proc["catch"][p], socket["pitch"][p], socket["catch"][p])
    BY <1>3 DEF SoundOf, FreshOf
  <2>4. n <= proc["catch"][p].buflen /\ t = Moved(proc["catch"][p], n, bytes[p])
    BY <1>1, <1>8 DEF t
  <2>0. n <= socket["catch"][p].input
    BY <1>1, <1>8
  <2> DEFINE u == Moved(proc["catch"][p], n, bytes[p])
  <2>5. Fresh(proc["pitch"][p], u, socket["pitch"][p], After(u, [socket["catch"][p] EXCEPT !.input = socket["catch"][p].input - n]))
    BY <1>2, <2>1, <2>3, <2>4, <2>0, CatchStaysFresh, Zenon
  <2> HIDE DEF u
  <2> QED
    BY <1>8, <2>2, <2>4, <2>5 DEF u
<1>9. \A x \in Sides, q \in Pitches \ {p} : sockets[x][q] = socket[x][q]
  BY <1>5
<1> QED
  BY <1>1, <1>2, <1>5, <1>6, <1>7, <1>8, <1>9, CleanStep DEF t

LEMMA ConnectClean ==
    ASSUME IInv, Clean, faults = 0, NEW p \in Pitches, Connect(p)
    PROVE  Clean'
<1> DEFINE t == AtCall(1, bytes[p])
<1>1. /\ proc["pitch"][p].state = "none" /\ backlog' = Append(backlog, p)
      /\ proc' = [proc EXCEPT !["pitch"][p] = t]
      /\ socket' = [socket EXCEPT !["pitch"][p] = Open, !["catch"][p] = Open]
      /\ UNCHANGED <<bytes, parent, name, faults>>
  BY DEF Connect
<1>2. /\ proc \in [Sides -> [Pitches -> ProcType]] /\ socket \in SocketsType
      /\ backlog \in Seq(Pitches) /\ SoundOf(p) /\ parent /\ name
  BY DEF IInv, TypeOK, ProcType, SocketsType, EndType, Clean
<1>3. t.state = "run" /\ proc["catch"][p].state = "none"
  BY <1>1, <1>2 DEF AtCall, Calling, Data, SoundOf, Sound
<1> HIDE DEF t
<1>4. /\ proc'["pitch"][p] = t /\ proc'["catch"] = proc["catch"]
      /\ socket'["pitch"][p] = Open /\ socket'["catch"][p] = Open
      /\ \A q \in Pitches \ {p} :
            /\ proc'["pitch"][q] = proc["pitch"][q]
            /\ socket'["pitch"][q] = socket["pitch"][q] /\ socket'["catch"][q] = socket["catch"][q]
  BY <1>1, <1>2 DEF Sides, SocketsType
<1>5. ASSUME NEW q \in Pitches PROVE FreshOf(q)'
  <2>1. CASE q = p
    BY <1>3, <1>4, <2>1 DEF FreshOf, Fresh, Open
  <2>2. CASE q # p
    <3>1. FreshOf(q)
      BY DEF Clean
    <3> QED
      BY <1>4, <2>2, <3>1 DEF FreshOf
  <2> QED
    BY <2>1, <2>2
<1>6. \A q : q \in ToSet(backlog) \/ q = p => q \in ToSet(backlog)'
  <2>1. /\ Len(backlog) \in Nat /\ Len(backlog') = Len(backlog) + 1 /\ backlog' \in Seq(Pitches)
        /\ \A i \in 1 .. Len(backlog) : backlog'[i] = backlog[i]
        /\ backlog'[Len(backlog) + 1] = p
    BY <1>1, <1>2, AppendProperties, LenProperties
  <2>2. DOMAIN backlog = 1 .. Len(backlog) /\ DOMAIN backlog' = 1 .. Len(backlog')
    BY <1>2, <2>1
  <2>3. /\ Len(backlog) + 1 \in DOMAIN backlog'
        /\ \A i \in DOMAIN backlog : i \in DOMAIN backlog' /\ backlog'[i] = backlog[i]
    BY <2>1, <2>2
  <2> QED
    BY <2>1, <2>3 DEF ToSet
<1>7. ASSUME NEW q \in Pitches, proc'["pitch"][q].state # "none", proc'["catch"][q].state = "none"
      PROVE  q \in ToSet(backlog)'
  <2>1. q # p => proc["pitch"][q].state # "none" /\ proc["catch"][q].state = "none"
    BY <1>4, <1>7
  <2> QED
    BY <1>6, <2>1 DEF Clean
<1> QED
  BY <1>1, <1>2, <1>5, <1>7 DEF Clean

LEMMA AcceptClean ==
    ASSUME IInv, Clean, faults = 0, Accept
    PROVE  Clean'
<1> DEFINE p == Head(backlog)
           t == AtCall(1, bytes[p])
<1>1. /\ backlog # << >> /\ backlog' = Tail(backlog)
      /\ proc' = [proc EXCEPT !["catch"][p] = t]
      /\ UNCHANGED <<bytes, socket, parent, name, faults>>
  BY DEF Accept
<1>2. p \in Pitches /\ Waiting(p) /\ backlog \in Seq(Pitches)
  BY <1>1, BacklogTail DEF IInv, TypeOK
<1>3. \A q \in ToSet(backlog) : q = p \/ q \in ToSet(backlog')
  <2>1. /\ Len(backlog) \in Nat /\ Len(backlog) > 0 /\ Head(backlog) = backlog[1]
        /\ Tail(backlog) \in Seq(Pitches) /\ Len(Tail(backlog)) = Len(backlog) - 1
        /\ \A i \in 1 .. Len(Tail(backlog)) : Tail(backlog)[i] = backlog[i + 1]
    BY <1>1, <1>2, EmptySeq, LenProperties, HeadTailProperties
  <2>2. DOMAIN backlog = 1 .. Len(backlog) /\ DOMAIN Tail(backlog) = 1 .. Len(backlog) - 1
    BY <1>2, <2>1
  <2> SUFFICES ASSUME NEW i \in 1 .. Len(backlog), i # 1
               PROVE  \E j \in 1 .. Len(backlog) - 1 : Tail(backlog)[j] = backlog[i]
    BY <1>1, <2>1, <2>2 DEF ToSet
  <2>3. i - 1 \in 1 .. Len(backlog) - 1 /\ (i - 1) + 1 = i
    BY <2>1
  <2> QED
    BY <2>1, <2>3
<1> HIDE DEF p
<1>4. proc \in [Sides -> [Pitches -> ProcType]] /\ parent /\ name
  BY DEF IInv, TypeOK, ProcType, Clean
<1>5. t.state = "run"
  BY DEF AtCall, Calling, Data
<1> HIDE DEF t
<1>6. /\ proc'["catch"][p] = t /\ proc'["pitch"] = proc["pitch"]
      /\ \A q \in Pitches \ {p} : proc'["catch"][q] = proc["catch"][q]
  BY <1>1, <1>2, <1>4 DEF Sides
<1>7. ASSUME NEW q \in Pitches PROVE FreshOf(q)'
  <2>1. FreshOf(q)
    BY DEF Clean
  <2>2. CASE q = p
    BY <1>1, <1>2, <1>5, <1>6, <2>1, <2>2 DEF FreshOf, Fresh, Waiting
  <2>3. CASE q # p
    BY <1>1, <1>6, <2>1, <2>3 DEF FreshOf
  <2> QED
    BY <2>2, <2>3
<1>8. ASSUME NEW q \in Pitches, proc'["pitch"][q].state # "none", proc'["catch"][q].state = "none"
      PROVE  q \in ToSet(backlog)'
  <2>1. q # p /\ proc["pitch"][q].state # "none" /\ proc["catch"][q].state = "none"
    BY <1>5, <1>6, <1>8
  <2>2. q \in ToSet(backlog)
    BY <2>1 DEF Clean
  <2> QED
    BY <1>3, <2>1, <2>2
<1> QED
  BY <1>1, <1>4, <1>7, <1>8 DEF Clean

LEMMA CleanInit == Init => Clean
<1> SUFFICES ASSUME Init PROVE Clean
  OBVIOUS
<1>1. /\ parent = TRUE /\ name = TRUE
      /\ \A p \in Pitches : \A side \in Sides : proc[side][p].state = "none"
  BY DEF Init
<1> QED
  BY <1>1 DEF Clean, FreshOf, Fresh, Sides

LEMMA CleanNext == IInv /\ Clean /\ [Next]_vars => Clean'
<1> SUFFICES ASSUME IInv, Clean, [Next]_vars, faults' = 0 PROVE Clean'
  BY DEF Clean
<1>1. faults \in Nat
  BY DEF IInv, TypeOK
<1>2. CASE UNCHANGED vars
  BY <1>2 DEF vars, Clean, FreshOf
<1>3. CASE ForkFails \/ SignalParent \/ \E side \in Sides, p \in Pitches : Signal(side, p)
  <2>1. faults' = faults + 1
    BY <1>3 DEF ForkFails, SignalParent, Signal
  <2> QED
    BY <1>1, <2>1
<1>4. ASSUME NEW p \in Pitches, Connect(p) \/ ConnectFails(p) PROVE Clean'
  <2>1. faults = 0
    BY <1>4 DEF Connect, ConnectFails
  <2> QED
    BY <1>4, <2>1, ConnectClean, NoCallFails
<1>5. CASE Accept
  <2>1. faults = 0
    BY <1>5 DEF Accept
  <2> QED
    BY <1>5, <2>1, AcceptClean
<1>6. ASSUME NEW side \in Sides, NEW p \in Pitches, NEW n \in Units,
             Send(side, p, n) \/ Recv(side, p, n)
      PROVE  Clean'
  <2>1. faults = 0
    BY <1>6 DEF Send, Recv, Advance
  <2> QED
    BY <1>6, <2>1, SendClean, RecvClean
<1>7. ASSUME NEW side \in Sides, NEW p \in Pitches, Fails(side, p) PROVE Clean'
  <2>1. faults = 0
    BY <1>7 DEF Fails
  <2> QED
    BY <1>7, <2>1, NoCallFails
<1> QED
  BY <1>2, <1>3, <1>4, <1>5, <1>6, <1>7 DEF Next

(* A transfer that is not complete can go on. *)
LEMMA SomeoneCan ==
    ASSUME IInv, Clean, faults = 0, NEW p \in Pitches, NeverBothWait
    PROVE  \/ proc["pitch"][p].state = "done" /\ proc["catch"][p].state = "done"
           \/ CanGoOn(p)
<1> DEFINE a == proc["pitch"][p]
           c == proc["catch"][p]
<1>1. /\ a.state \in {"none", "run", "done"} /\ c.state \in {"none", "run", "done"}
      /\ a.state = "none" => c.state = "none"
  BY MeetsItsPeer
<1>2. parent /\ name /\ Listening
  BY DEF Clean, Listening
<1>3. backlog \in Seq(Pitches) /\ Len(backlog) \in Nat
  BY LenProperties DEF IInv, TypeOK
<1>4. CASE a.state = "none"
  <2>1. backlog = << >> => Len(backlog) < Backlog
    BY <1>3, EmptySeq, ConstantFacts
  <2> QED
    BY <1>2, <1>4, <2>1 DEF CanGoOn
<1>5. CASE a.state # "none" /\ c.state = "none"
  <2>1. p \in ToSet(backlog)
    BY <1>5 DEF Clean
  <2>2. backlog # << >>
    BY <2>1 DEF ToSet
  <2> QED
    BY <1>2, <2>2 DEF CanGoOn
<1>6. /\ Peer["pitch"] = "catch" /\ Peer["catch"] = "pitch"
      /\ "pitch" \in Sides /\ "catch" \in Sides
  BY DEF Peer, Sides
<1>7. /\ In("pitch", p, "send") => socket["catch"][p].end = "open" /\ c.state # "done"
      /\ In("catch", p, "send") => socket["pitch"][p].end = "open" /\ a.state # "done"
      /\ In("pitch", p, "recv") /\ c.state = "done" => socket["pitch"][p].input > 0
      /\ In("catch", p, "recv") /\ a.state = "done" => socket["catch"][p].input > 0
  BY MeetsItsPeer
<1>8. CASE a.state = "run" /\ c.state = "run"
  <2>1. Running("pitch", p) /\ Running("catch", p) /\ (~Waits("pitch", p) \/ ~Waits("catch", p))
    BY <1>8 DEF NeverBothWait, Running
  <2> QED
    BY <1>6, <1>7, <2>1 DEF CanGoOn
<1>9. CASE a.state = "run" /\ c.state = "done"
  <2>1. ~Waits("pitch", p)
    BY <1>6, <1>7, <1>9 DEF Waits
  <2> QED
    BY <1>6, <1>7, <1>9, <2>1 DEF CanGoOn, Running
<1>10. CASE a.state = "done" /\ c.state = "run"
  <2>1. ~Waits("catch", p)
    BY <1>6, <1>7, <1>10 DEF Waits
  <2> QED
    BY <1>6, <1>7, <1>10, <2>1 DEF CanGoOn, Running
<1> QED
  BY <1>1, <1>4, <1>5, <1>8, <1>9, <1>10

(* As long as nothing is killed and no fork fails no other call of pitch   *)
(* and catch fails, recv never finds the end of a stream, and for each     *)
(* transfer that is not complete some call can go on, whatever the sizes   *)
(* of messages, sockets and the backlog: what TransfersComplete needs      *)
(* besides fairness.                                                       *)
THEOREM CleanTransfersGoOn == Spec => []CleanNeverStuck
<1>1. IInv /\ Clean /\ NeverBothWait => CleanNeverStuck
  <2> SUFFICES ASSUME IInv, Clean, NeverBothWait, faults = 0
               PROVE  /\ \A side \in Sides, p \in Pitches : Alive(side, p) /\ ~Spins(side, p)
                      /\ \A p \in Pitches :
                            \/ proc["pitch"][p].state = "done" /\ proc["catch"][p].state = "done"
                            \/ CanGoOn(p)
    BY DEF CleanNeverStuck
  <2> QED
    BY NoCallFails, SomeoneCan
<1> QED
  BY <1>1, CleanInit, CleanNext, Invariance, EndsNeverBothWait, PTL DEF Spec
=============================================================================
