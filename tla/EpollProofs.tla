----------------------------- MODULE EpollProofs -----------------------------
(***************************************************************************)
(* Theorems about EpollLoop, for tables, batches and descriptors of any    *)
(* number.                                                                 *)
(***************************************************************************)
EXTENDS EpollLoop, SequenceTheorems, TLAPS

(* What epoll watches is open, and watched once. *)
WatchedOnce ==
    /\ \A w \in watch : file[w.fd] = w.file
    /\ \A v, w \in watch : v.file = w.file => v = w

(* The slot of a watched file stays its own, marked by a descriptor that   *)
(* is not 0: addFd takes only slots that are marked free.                  *)
SlotsTaken ==
    ~zero => \A w \in watch : w.fd # 0 /\ fds[w.slot] = w.fd /\ listeners[w.slot] = w.file

(* The slots of the rest of the batch still have the listeners they had    *)
(* when epoll_wait returned, but for those that were freed since.          *)
BatchStands ==
    ~zero => \A i \in 1 .. Len(events) :
        \/ events[i].file \in deleted
        \/ fds[events[i].slot] # 0 /\ listeners[events[i].slot] = events[i].file

NoCallback == at = "loop" => call = NoCall

IInv ==
    /\ TypeOK /\ WatchedOnce /\ SlotsTaken /\ BatchStands
    /\ NoCallback /\ EventsReachTheirListener

-----------------------------------------------------------------------------
LEMMA ConstantFacts ==
    /\ Fds \subseteq Nat /\ MaxSlots \in Nat /\ MaxEvents \in Nat /\ MaxFiles \in Nat
    /\ MaxSlots > 0 /\ MaxEvents > 0 /\ MaxFiles > 0
BY EpollAssumption

LEMMA NoCallType == NoCall \in [listener : Files \cup {0}, file : Files \cup {0}]
BY ConstantFacts DEF NoCall, Files

LEMMA InitInv == Init => IInv
<1> SUFFICES ASSUME Init PROVE IInv
  OBVIOUS
<1>1. TypeOK
  <2>1. 0 \in 0 .. MaxFiles
    BY ConstantFacts
  <2>2. file \in [Fds -> Files \cup {0}] /\ fds \in [Slots -> Fds \cup {0}]
        /\ listeners \in [Slots -> Files \cup {0}]
    BY <2>1 DEF Init
  <2>3. ready \in Seq(Files) /\ events \in Seq([slot : Slots, error : BOOLEAN, file : Files])
    BY EmptySeq DEF Init
  <2>4. opened \in 0 .. MaxFiles /\ call \in [listener : Files \cup {0}, file : Files \cup {0}]
    BY <2>1, NoCallType DEF Init
  <2> QED
    BY <2>2, <2>3, <2>4 DEF Init, TypeOK
<1>2. WatchedOnce /\ SlotsTaken /\ BatchStands /\ NoCallback /\ EventsReachTheirListener
  BY DEF Init, WatchedOnce, SlotsTaken, BatchStands, NoCallback, EventsReachTheirListener
<1> QED
  BY <1>1, <1>2 DEF IInv

-----------------------------------------------------------------------------
(* The lists of files and of events. *)
LEMMA ListedType ==
    ASSUME NEW f \in Files, NEW list \in Seq(Files)
    PROVE  Listed(f, list) \in Seq(Files)
BY AppendProperties DEF Listed

LEMMA RemoveAtType ==
    ASSUME NEW list \in Seq(Files), NEW i \in 1 .. Len(list)
    PROVE  RemoveAt(list, i) \in Seq(Files)
<1>1. Len(list) \in Nat
  BY LenProperties
<1>2. SubSeq(list, 1, i - 1) \in Seq(Files) /\ SubSeq(list, i + 1, Len(list)) \in Seq(Files)
  BY <1>1, SubSeqProperties
<1> QED
  BY <1>2, ConcatProperties DEF RemoveAt

LEMMA UnlistedType ==
    ASSUME TypeOK, NEW fd
    PROVE  Unlisted(fd) \in Seq(Files)
<1> DEFINE places == {i \in 1 .. Len(ready) : ready[i] = file[fd]}
<1>1. ready \in Seq(Files)
  BY DEF TypeOK
<1>2. CASE places = {}
  BY <1>1, <1>2 DEF Unlisted
<1>3. CASE places # {}
  <2>1. (CHOOSE i \in places : TRUE) \in 1 .. Len(ready)
    BY <1>3
  <2> QED
    BY <1>1, <1>3, <2>1, RemoveAtType DEF Unlisted
<1> QED
  BY <1>2, <1>3

LEMMA RequeuedType ==
    ASSUME NEW list \in Seq(Files), NEW n \in 0 .. Len(list)
    PROVE  Requeued(SubSeq(list, 1, n), SubSeq(list, n + 1, Len(list))) \in Seq(Files)
<1>1. Len(list) \in Nat
  BY LenProperties
<1>2. SubSeq(list, 1, n) \in Seq(Files) /\ SubSeq(list, n + 1, Len(list)) \in Seq(Files)
  BY <1>1, SubSeqProperties
<1> QED
  BY <1>2, ConcatProperties DEF Requeued, Interest

-----------------------------------------------------------------------------
(* The world outside, and callbacks that do not touch the table. *)
LEMMA HappensInv == ASSUME NEW f \in Files PROVE IInv /\ Happens(f) => IInv'
<1> SUFFICES ASSUME IInv, Happens(f) PROVE IInv'
  OBVIOUS
<1> USE DEF IInv
<1>1. TypeOK'
  BY ListedType DEF TypeOK, Happens
<1>2. WatchedOnce' /\ SlotsTaken' /\ NoCallback' /\ EventsReachTheirListener'
  BY DEF Happens, WatchedOnce, SlotsTaken, NoCallback, EventsReachTheirListener
<1>3. BatchStands'
  BY DEF Happens, BatchStands
<1> QED
  BY <1>1, <1>2, <1>3

LEMMA OpenInv == IInv /\ Open => IInv'
<1> SUFFICES ASSUME IInv, Open PROVE IInv'
  OBVIOUS
<1> USE DEF IInv
<1>1. PICK fd \in Fds : file[fd] = 0 /\ file' = [file EXCEPT ![fd] = opened + 1]
  BY DEF Open
<1>2. opened + 1 \in Files
  BY ConstantFacts DEF Open, TypeOK, Files
<1>3. TypeOK'
  BY <1>1, <1>2, ConstantFacts DEF TypeOK, Open, Files
<1>4. \A w \in watch : w.fd \in Fds /\ file[w.fd] # 0
  BY ConstantFacts DEF TypeOK, WatchedOnce, Files
<1>5. WatchedOnce'
  BY <1>1, <1>4 DEF WatchedOnce, Open, TypeOK
<1>6. SlotsTaken' /\ NoCallback' /\ EventsReachTheirListener'
  BY DEF Open, SlotsTaken, NoCallback, EventsReachTheirListener
<1>7. BatchStands'
  BY DEF Open, BatchStands
<1> QED
  BY <1>3, <1>5, <1>6, <1>7

LEMMA ReceiveInv == IInv /\ Receive => IInv'
<1> SUFFICES ASSUME IInv, Receive PROVE IInv'
  OBVIOUS
<1> USE DEF IInv
<1>1. TypeOK'
  BY DEF TypeOK, Receive
<1>2. WatchedOnce' /\ SlotsTaken' /\ NoCallback' /\ EventsReachTheirListener'
  BY DEF Receive, WatchedOnce, SlotsTaken, NoCallback, EventsReachTheirListener
<1>3. BatchStands'
  BY DEF Receive, BatchStands
<1> QED
  BY <1>1, <1>2, <1>3

LEMMA ReturnInv == IInv /\ Return => IInv'
<1> SUFFICES ASSUME IInv, Return PROVE IInv'
  OBVIOUS
<1> USE DEF IInv
<1>1. TypeOK'
  BY NoCallType DEF TypeOK, Return
<1>2. WatchedOnce' /\ SlotsTaken' /\ NoCallback' /\ EventsReachTheirListener'
  BY DEF Return, WatchedOnce, SlotsTaken, NoCallback, EventsReachTheirListener
<1>3. BatchStands'
  BY DEF Return, BatchStands
<1> QED
  BY <1>1, <1>2, <1>3

LEMMA ForgetInv == IInv /\ Forget => IInv'
<1> SUFFICES ASSUME IInv, Forget PROVE IInv'
  OBVIOUS
<1> USE DEF IInv
<1>1. TypeOK'
  <2>1. PICK i \in 1 .. Len(ready) : ready' = RemoveAt(ready, i)
    BY DEF Forget
  <2>2. ready' \in Seq(Files)
    BY <2>1, RemoveAtType DEF TypeOK
  <2> QED
    BY <2>2 DEF TypeOK, Forget
<1>2. WatchedOnce' /\ SlotsTaken' /\ NoCallback' /\ EventsReachTheirListener'
  BY DEF Forget, WatchedOnce, SlotsTaken, NoCallback, EventsReachTheirListener
<1>3. BatchStands'
  BY DEF Forget, BatchStands
<1> QED
  BY <1>1, <1>2, <1>3

-----------------------------------------------------------------------------
(* The operations on the table. *)
LEMMA EventTypes ==
    ASSUME TypeOK, NEW i \in 1 .. Len(events)
    PROVE  events[i].slot \in Slots /\ events[i].error \in BOOLEAN /\ events[i].file \in Files
<1>1. events[i] \in [slot : Slots, error : BOOLEAN, file : Files]
  BY ElementOfSeq DEF TypeOK
<1> QED
  BY <1>1

LEMMA addFdInv == ASSUME NEW fd \in Fds PROVE IInv /\ addFd(fd) => IInv'
<1> SUFFICES ASSUME IInv, addFd(fd) PROVE IInv'
  OBVIOUS
<1> USE DEF IInv
<1> DEFINE f == file[fd]
<1>1. f \in Files \cup {0}
  BY ConstantFacts DEF TypeOK
<1>2. \A w \in watch : w.slot \in Slots /\ w.fd \in Fds /\ w.file \in Files
  BY DEF TypeOK
<1>3. UNCHANGED <<file, opened, readable, broken, events, call, at, deleted>>
  BY DEF addFd
<1>4. NoCallback'
  BY <1>3 DEF NoCallback
<1>5. PICK slot \in Usable :
        \/ /\ f # 0 /\ f \notin Watched
           /\ fds' = Used(fds, slot, fd)
           /\ listeners' = Used(listeners, slot, f)
           /\ watch' = watch \cup {[file |-> f, fd |-> fd, slot |-> slot]}
           /\ ready' = IF HasEvents(f) THEN Listed(f, ready) ELSE ready
           /\ zero' = (zero \/ fd = 0)
        \/ /\ f = 0 \/ f \in Watched
           /\ fds' = Freed(fds, slot)
           /\ listeners' = Freed(listeners, slot)
           /\ UNCHANGED <<watch, ready, zero>>
  BY DEF addFd, Token
<1>6. slot \in Slots /\ fds[slot] = 0
  BY <1>5 DEF Usable
<1>7. ~zero => \A w \in watch : w.slot # slot
  BY <1>6 DEF SlotsTaken
<1>8. ~zero => \A i \in 1 .. Len(events) : events[i].file \in deleted \/ events[i].slot # slot
  BY <1>6 DEF BatchStands
<1>9. \A i \in 1 .. Len(events) : events[i].slot \in Slots
  BY EventTypes
<1>10. CASE /\ f # 0 /\ f \notin Watched
            /\ fds' = Used(fds, slot, fd)
            /\ listeners' = Used(listeners, slot, f)
            /\ watch' = watch \cup {[file |-> f, fd |-> fd, slot |-> slot]}
            /\ ready' = IF HasEvents(f) THEN Listed(f, ready) ELSE ready
            /\ zero' = (zero \/ fd = 0)
  <2>1. TypeOK'
    <3>1. ready' \in Seq(Files)
      BY <1>1, <1>10, ListedType DEF TypeOK
    <3>2. watch' \subseteq [file : Files, fd : Fds, slot : Slots]
      BY <1>1, <1>6, <1>10 DEF TypeOK
    <3>3. fds' \in [Slots -> Fds \cup {0}] /\ listeners' \in [Slots -> Files \cup {0}]
      BY <1>1, <1>6, <1>10 DEF TypeOK, Used
    <3>4. zero' \in BOOLEAN
      BY <1>10
    <3> QED
      BY <1>3, <3>1, <3>2, <3>3, <3>4 DEF TypeOK
  <2>2. WatchedOnce'
    BY <1>3, <1>10 DEF WatchedOnce, Watched
  <2>3. SlotsTaken'
    <3> SUFFICES ASSUME ~zero', NEW w \in watch'
                 PROVE  w.fd # 0 /\ fds'[w.slot] = w.fd /\ listeners'[w.slot] = w.file
      BY DEF SlotsTaken
    <3>1. ~zero /\ fd # 0
      BY <1>10
    <3>2. fds'[slot] = fd /\ listeners'[slot] = f
      BY <1>6, <1>10 DEF Used, TypeOK
    <3>3. \A s \in Slots : s # slot => fds'[s] = fds[s] /\ listeners'[s] = listeners[s]
      BY <1>10 DEF Used, TypeOK
    <3>4. CASE w \in watch
      BY <1>2, <1>7, <3>1, <3>3, <3>4 DEF SlotsTaken
    <3>5. CASE w = [file |-> f, fd |-> fd, slot |-> slot]
      BY <3>1, <3>2, <3>5
    <3> QED
      BY <1>10, <3>4, <3>5
  <2>4. BatchStands'
    BY <1>3, <1>6, <1>8, <1>9, <1>10 DEF BatchStands, Used, TypeOK
  <2>5. EventsReachTheirListener'
    BY <1>3, <1>10 DEF EventsReachTheirListener
  <2> QED
    BY <1>4, <2>1, <2>2, <2>3, <2>4, <2>5
<1>11. CASE /\ f = 0 \/ f \in Watched
            /\ fds' = Freed(fds, slot)
            /\ listeners' = Freed(listeners, slot)
            /\ UNCHANGED <<watch, ready, zero>>
  <2>1. TypeOK'
    <3>1. fds' \in [Slots -> Fds \cup {0}] /\ listeners' \in [Slots -> Files \cup {0}]
      BY <1>1, <1>6, <1>11 DEF TypeOK, Freed
    <3> QED
      BY <1>3, <1>11, <3>1 DEF TypeOK
  <2>2. WatchedOnce'
    BY <1>3, <1>11 DEF WatchedOnce
  <2>3. SlotsTaken'
    BY <1>2, <1>6, <1>7, <1>11 DEF SlotsTaken, Freed, TypeOK
  <2>4. BatchStands'
    BY <1>3, <1>6, <1>8, <1>9, <1>11 DEF BatchStands, Freed, TypeOK
  <2>5. EventsReachTheirListener'
    BY <1>3, <1>11 DEF EventsReachTheirListener
  <2> QED
    BY <1>4, <2>1, <2>2, <2>3, <2>4, <2>5
<1> QED
  BY <1>5, <1>10, <1>11

LEMMA deleteInv == ASSUME NEW fd \in Fds PROVE IInv /\ deleteFromEventLoop(fd) => IInv'
<1> SUFFICES ASSUME IInv, deleteFromEventLoop(fd) PROVE IInv'
  OBVIOUS
<1> USE DEF IInv
<1>1. PICK slot \in Slots :
        /\ fds[slot] = fd /\ fds' = Freed(fds, slot) /\ listeners' = Freed(listeners, slot)
        /\ deleted' = deleted \cup ({listeners[slot]} \ {0})
  BY DEF deleteFromEventLoop
<1>2. watch' = {w \in watch : w.fd # fd}
  BY DEF deleteFromEventLoop, Unwatched
<1>3. UNCHANGED <<file, opened, readable, broken, events, call, at, zero>>
      /\ ready' = Unlisted(fd)
  BY DEF deleteFromEventLoop
<1>4. \A w \in watch : w.slot \in Slots /\ w.fd \in Fds /\ w.file \in Files /\ w.file # 0
  BY ConstantFacts DEF TypeOK, Files
<1>5. TypeOK'
  <2>1. fds' \in [Slots -> Fds \cup {0}] /\ listeners' \in [Slots -> Files \cup {0}]
    BY <1>1, ConstantFacts DEF TypeOK, Freed
  <2>2. deleted' \subseteq Files /\ watch' \subseteq [file : Files, fd : Fds, slot : Slots]
    BY <1>1, <1>2 DEF TypeOK
  <2>3. ready' \in Seq(Files)
    BY <1>3, UnlistedType
  <2> QED
    BY <1>3, <2>1, <2>2, <2>3 DEF TypeOK
<1>6. WatchedOnce'
  BY <1>2, <1>3 DEF WatchedOnce
<1>7. SlotsTaken'
  BY <1>1, <1>2, <1>3, <1>4 DEF SlotsTaken, Freed, TypeOK
<1>8. BatchStands'
  <2> SUFFICES ASSUME ~zero, NEW i \in 1 .. Len(events), events[i].file \notin deleted'
               PROVE  fds'[events[i].slot] # 0 /\ listeners'[events[i].slot] = events[i].file
    BY <1>3 DEF BatchStands
  <2>1. fds[events[i].slot] # 0 /\ listeners[events[i].slot] = events[i].file
    BY <1>1 DEF BatchStands
  <2>2. events[i].file \in Files /\ 0 \notin Files
    BY EventTypes, ConstantFacts DEF Files
  <2>3. events[i].slot # slot
    BY <1>1, <2>1, <2>2
  <2> QED
    BY <1>1, <2>1, <2>3, EventTypes DEF Freed, TypeOK
<1>9. NoCallback' /\ EventsReachTheirListener'
  BY <1>1, <1>2, <1>3 DEF NoCallback, EventsReachTheirListener
<1> QED
  BY <1>5, <1>6, <1>7, <1>8, <1>9

LEMMA CloseInv == ASSUME NEW fd \in Fds PROVE IInv /\ Close(fd) => IInv'
<1> SUFFICES ASSUME IInv, Close(fd) PROVE IInv'
  OBVIOUS
<1> USE DEF IInv
<1>1. /\ file' = [file EXCEPT ![fd] = 0]
      /\ watch' = {w \in watch : w.fd # fd}
      /\ ready' = Unlisted(fd)
      /\ UNCHANGED <<opened, fds, listeners, events, call, at, zero, deleted>>
  BY DEF Close
<1>2. TypeOK'
  <2>1. ready' \in Seq(Files)
    BY <1>1, UnlistedType
  <2> QED
    BY <1>1, <2>1 DEF TypeOK, Close
<1>3. \A w \in watch : w.fd \in Fds
  BY DEF TypeOK
<1>4. WatchedOnce'
  BY <1>1, <1>3 DEF WatchedOnce, TypeOK
<1>5. SlotsTaken'
  BY <1>1 DEF SlotsTaken
<1>6. BatchStands'
  BY <1>1 DEF BatchStands
<1>7. NoCallback' /\ EventsReachTheirListener'
  BY <1>1 DEF NoCallback, EventsReachTheirListener
<1> QED
  BY <1>2, <1>4, <1>5, <1>6, <1>7

-----------------------------------------------------------------------------
(* The batches.  An event is made for the slot its file is watched with.   *)
LEMMA EventFacts ==
    ASSUME IInv, NEW f, Pending(f)
    PROVE  /\ Event(f) \in [slot : Slots, error : BOOLEAN, file : Files]
           /\ \E w \in watch : w.file = Event(f).file /\ w.slot = Event(f).slot
<1> DEFINE w == CHOOSE w \in watch : w.file = f
<1>1. w \in watch /\ w.file = f
  BY DEF Pending, Watched
<1>2. w.slot \in Slots /\ f \in Files
  BY <1>1 DEF IInv, TypeOK
<1>3. Event(f).slot = w.slot /\ Event(f).file = f /\ Event(f).error = (f \in broken)
  BY DEF Event
<1>4. Event(f) \in [slot : Slots, error : BOOLEAN, file : Files]
  BY <1>2 DEF Event
<1> QED
  BY <1>1, <1>3, <1>4

LEMMA epoll_waitInv == IInv /\ epoll_wait => IInv'
<1> SUFFICES ASSUME IInv, epoll_wait PROVE IInv'
  OBVIOUS
<1> USE DEF IInv
<1> DEFINE n == IF Len(ready) < MaxEvents THEN Len(ready) ELSE MaxEvents
<1>1. ready \in Seq(Files) /\ Len(ready) \in Nat /\ n \in 0 .. Len(ready)
  BY ConstantFacts, LenProperties DEF TypeOK
<1>2. /\ at = "loop" /\ \A i \in 1 .. Len(ready) : Pending(ready[i])
      /\ events' = [i \in 1 .. n |-> Event(ready[i])]
      /\ ready' = Requeued(SubSeq(ready, 1, n), SubSeq(ready, n + 1, Len(ready)))
      /\ deleted' = {}
      /\ UNCHANGED <<file, opened, readable, broken, watch, fds, listeners, call, at, zero>>
  BY DEF epoll_wait
<1>3. \A i \in 1 .. n : Pending(ready[i])
  BY <1>1, <1>2
<1> HIDE DEF n
<1>4. \A i \in 1 .. n : events'[i] = Event(ready[i])
  BY <1>2
<1>5. TypeOK'
  <2>1. events' \in Seq([slot : Slots, error : BOOLEAN, file : Files])
    BY <1>1, <1>2, <1>3, EventFacts, IsASeq
  <2>2. ready' \in Seq(Files)
    BY <1>1, <1>2, RequeuedType
  <2> QED
    BY <1>2, <2>1, <2>2 DEF TypeOK
<1>6. WatchedOnce' /\ SlotsTaken' /\ NoCallback'
  BY <1>2 DEF WatchedOnce, SlotsTaken, NoCallback
<1>7. BatchStands'
  <2>1. Len(events') = n
    BY <1>1, <1>2
  <2> SUFFICES ASSUME ~zero, NEW i \in 1 .. n
               PROVE  fds[events'[i].slot] # 0 /\ listeners[events'[i].slot] = events'[i].file
    BY <1>2, <2>1 DEF BatchStands
  <2>2. PICK w \in watch : w.file = events'[i].file /\ w.slot = events'[i].slot
    BY <1>3, <1>4, EventFacts
  <2> QED
    BY <2>2 DEF SlotsTaken
<1>8. EventsReachTheirListener'
  BY <1>2 DEF NoCallback, EventsReachTheirListener
<1> QED
  BY <1>5, <1>6, <1>7, <1>8

LEMMA DispatchInv == IInv /\ Dispatch => IInv'
<1> SUFFICES ASSUME IInv, Dispatch PROVE IInv'
  OBVIOUS
<1> USE DEF IInv
<1> DEFINE e == events[1]
<1> DEFINE Ev == [slot : Slots, error : BOOLEAN, file : Files]
<1>1. events \in Seq(Ev) /\ events # << >>
  BY DEF TypeOK, Dispatch
<1>2. /\ Head(events) = e /\ Tail(events) \in Seq(Ev)
      /\ Len(events) \in Nat /\ Len(events) > 0 /\ Len(Tail(events)) = Len(events) - 1
      /\ \A i \in 1 .. Len(Tail(events)) : Tail(events)[i] = events[i + 1]
  BY <1>1, HeadTailProperties, LenProperties, EmptySeq
<1>3. 1 \in 1 .. Len(events) /\ e.slot \in Slots /\ e.file \in Files
  BY <1>2, EventTypes
<1>4. /\ events' = Tail(events)
      /\ UNCHANGED <<file, opened, readable, broken, watch, ready, fds, listeners,
                     zero, deleted>>
      /\ \/ at' = "exit" /\ UNCHANGED call
         \/ /\ call' = [listener |-> listeners[e.slot], file |-> e.file]
            /\ at' \in {"crash", "app"}
  BY <1>2 DEF Dispatch
<1>5. TypeOK'
  <2>1. call' \in [listener : Files \cup {0}, file : Files \cup {0}]
    BY <1>3, <1>4 DEF TypeOK
  <2>2. at' \in {"app", "loop", "exit", "crash"}
    BY <1>4
  <2> QED
    BY <1>2, <1>4, <2>1, <2>2 DEF TypeOK
<1>6. WatchedOnce' /\ SlotsTaken' /\ NoCallback'
  BY <1>4 DEF WatchedOnce, SlotsTaken, NoCallback
<1>7. BatchStands'
  <2> SUFFICES ASSUME ~zero, NEW i \in 1 .. Len(Tail(events))
               PROVE  LET t == Tail(events)[i]
                      IN  \/ t.file \in deleted
                          \/ fds[t.slot] # 0 /\ listeners[t.slot] = t.file
    BY <1>4 DEF BatchStands
  <2>1. i + 1 \in 1 .. Len(events) /\ Tail(events)[i] = events[i + 1]
    BY <1>2
  <2> QED
    BY <2>1 DEF BatchStands
<1>8. EventsReachTheirListener'
  <2>1. CASE UNCHANGED call
    BY <1>4, <2>1 DEF EventsReachTheirListener
  <2>2. CASE call' = [listener |-> listeners[e.slot], file |-> e.file]
    <3>1. \/ zero
          \/ listeners[e.slot] = e.file
          \/ e.file \in deleted
      BY <1>3 DEF BatchStands
    <3> QED
      BY <1>4, <2>2, <3>1 DEF EventsReachTheirListener
  <2> QED
    BY <1>4, <2>1, <2>2
<1> QED
  BY <1>5, <1>6, <1>7, <1>8

-----------------------------------------------------------------------------
LEMMA NextInv == IInv /\ [Next]_vars => IInv'
<1> SUFFICES ASSUME IInv, [Next]_vars PROVE IInv'
  OBVIOUS
<1>1. ASSUME NEW f \in Files, Happens(f) PROVE IInv'
  BY <1>1, HappensInv
<1>2. CASE Open
  BY <1>2, OpenInv
<1>3. ASSUME NEW fd \in Fds, addFd(fd) PROVE IInv'
  BY <1>3, addFdInv
<1>4. ASSUME NEW fd \in Fds, deleteFromEventLoop(fd) PROVE IInv'
  BY <1>4, deleteInv
<1>5. ASSUME NEW fd \in Fds, Close(fd) PROVE IInv'
  BY <1>5, CloseInv
<1>6. CASE Receive
  BY <1>6, ReceiveInv
<1>7. CASE Return
  BY <1>7, ReturnInv
<1>8. CASE Forget
  BY <1>8, ForgetInv
<1>9. CASE epoll_wait
  BY <1>9, epoll_waitInv
<1>10. CASE Dispatch
  BY <1>10, DispatchInv
<1>11. CASE UNCHANGED vars
  BY <1>11 DEF vars, IInv, TypeOK, WatchedOnce, SlotsTaken, BatchStands, NoCallback,
               EventsReachTheirListener
<1> QED
  BY <1>1, <1>2, <1>3, <1>4, <1>5, <1>6, <1>7, <1>8, <1>9, <1>10, <1>11 DEF Next

LEMMA Invariance == Spec => []IInv
BY InitInv, NextInv, PTL DEF Spec

(* Every variable of the loop keeps its type, for tables, batches and      *)
(* descriptors of any number: epoll_wait only ever reports slots that      *)
(* exist, and a free slot is 0.                                            *)
THEOREM TypeCorrect == Spec => []TypeOK
<1>1. IInv => TypeOK
  BY DEF IInv
<1> QED
  BY <1>1, Invariance, PTL

(* The slot of a file that epoll watches is not given to another, nor      *)
(* freed by a failing addFd, until the file is closed or deleted or        *)
(* descriptor 0 is added, which marks its slot as free.                    *)
THEOREM WatchedKeepTheirSlots == Spec => []WatchedInTheirSlots
<1>1. IInv => WatchedInTheirSlots
  BY DEF IInv, SlotsTaken, WatchedInTheirSlots
<1> QED
  BY <1>1, Invariance, PTL

(* run() calls the listener that was added for the file of the event,      *)
(* whatever the callbacks before it in the batch opened, added and closed; *)
(* only freeing its slot can come between, and descriptor 0.               *)
THEOREM EventsFindTheirListener == Spec => []EventsReachTheirListener
<1>1. IInv => EventsReachTheirListener
  BY DEF IInv
<1> QED
  BY <1>1, Invariance, PTL
=============================================================================
