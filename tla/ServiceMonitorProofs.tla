------------------------ MODULE ServiceMonitorProofs ------------------------
(***************************************************************************)
(* StartedInOrder and AllStarted hold for every file, however long, and    *)
(* whatever fails.                                                         *)
(***************************************************************************)
EXTENDS ServiceMonitor, TLAPS

(* The nodes of the list. *)
Listed == {p \in Wanted : p < cursor}

Reading == {"read_pgroups", "read_processes"}

(* The list has the nodes in the order of the file, without a gap. *)
Ordered ==
    /\ head = Nil => Listed = {}
    /\ head # Nil => head \in Listed /\ \A q \in Listed : head <= q
    /\ \A p \in Nodes : next[p] # Nil =>
          /\ p \in Listed /\ next[p] \in Listed /\ p < next[p]
          /\ \A q \in Listed : p < q => next[p] <= q
    /\ \A p \in Listed : next[p] = Nil => \A q \in Listed : q <= p

(* While the list is read, current is its last node. *)
Growing ==
    /\ phase = "read_pgroups" => cursor = 1
    /\ phase = "read_processes" => IsGroup(root)
    /\ phase \in Reading =>
          /\ current = Nil => Listed = {}
          /\ current # Nil => current \in Listed /\ \A q \in Listed : q <= current
          /\ ~failed
    /\ phase \notin Reading /\ ~failed => Listed = Wanted

(* While the list is walked, what stands before current was started. *)
Walked ==
    /\ phase \in Reading \cup {"wait"} => Tried = {}
    /\ phase = "launch" /\ current # Nil =>
          /\ current \in Listed
          /\ \A q \in Listed : q < current => q \in Started
          /\ \A q \in Tried : q < current
    /\ phase = "launch" /\ current = Nil /\ ~failed => Started = Wanted

IInv ==
    /\ TypeOK
    /\ Ordered
    /\ Growing
    /\ Walked
    /\ Tried \subseteq Listed
    /\ StartedInOrder
    /\ AllStarted

-----------------------------------------------------------------------------
LEMMA ConstantFacts == MaxChildren \in Nat /\ Nil \notin Int /\ Nil \notin Nodes
BY ServiceMonitorAssumption DEF Nodes

LEMMA NodesAreInt == \A p \in Nodes : p \in Int
BY ConstantFacts DEF Nodes

LEMMA WantedAreNodes == ASSUME root \in Roots PROVE Wanted \subseteq Nodes
<1>1. IsGroup(root) => Len(root.children) \in Nat /\ Len(root.children) <= MaxChildren
  BY ServiceMonitorAssumption DEF IsGroup
<1> QED
  BY <1>1, ConstantFacts DEF Wanted, Nodes

LEMMA InitInv == Init => IInv
<1> SUFFICES ASSUME Init PROVE IInv
  OBVIOUS
<1>1. TypeOK
  <2>1. 1 \in 1 .. MaxChildren + 1
    BY ConstantFacts
  <2> QED
    BY <2>1 DEF Init, TypeOK
<1>2. Wanted \subseteq Nodes /\ Listed = {} /\ Tried = {}
  BY WantedAreNodes, ConstantFacts DEF Init, Listed, Tried, Nodes
<1>3. Ordered /\ Growing /\ Walked
  BY <1>2 DEF Init, Ordered, Growing, Walked, Reading
<1>4. Tried \subseteq Listed /\ StartedInOrder /\ AllStarted
  BY <1>2 DEF Init, StartedInOrder, AllStarted
<1> QED
  BY <1>1, <1>3, <1>4 DEF IInv

(* What a step that leaves the list and its processes alone preserves.     *)
LEMMA Unmoved ==
    ASSUME UNCHANGED <<root, cursor>>
    PROVE  Wanted' = Wanted /\ Listed' = Listed
BY DEF Wanted, Listed

LEMMA UnmovedList ==
    ASSUME UNCHANGED <<root, cursor, head, next>>
    PROVE  Ordered' = Ordered
BY Unmoved DEF Ordered

LEMMA UnmovedChildren ==
    ASSUME UNCHANGED child
    PROVE  Tried' = Tried /\ Started' = Started
BY DEF Tried, Started

(* The steps of reading. *)
LEMMA ReadPgroupInv == IInv /\ ReadPgroup => IInv'
<1> SUFFICES ASSUME IInv, ReadPgroup PROVE IInv'
  OBVIOUS
<1> USE DEF IInv
<1>1. Wanted' = Wanted /\ Listed' = Listed /\ Tried' = Tried /\ Started' = Started /\ Ordered'
  BY Unmoved, UnmovedList, UnmovedChildren DEF ReadPgroup
<1>2. TypeOK'
  BY DEF TypeOK, ReadPgroup
<1>3. ~IsGroup(root) => Wanted = {}
  BY DEF Wanted
<1>4. Growing'
  <2>1. CASE IsGroup(root)
    BY <1>1, <2>1 DEF Growing, Reading, ReadPgroup
  <2>2. CASE ~IsGroup(root)
    BY <1>1, <1>3, <2>2 DEF Growing, Reading, ReadPgroup, Listed
  <2> QED
    BY <2>1, <2>2
<1>5. Walked'
  BY <1>1 DEF Walked, Reading, ReadPgroup
<1>6. (Tried \subseteq Listed)' /\ StartedInOrder' /\ AllStarted'
  BY <1>1 DEF StartedInOrder, AllStarted, ReadPgroup
<1> QED
  BY <1>1, <1>2, <1>4, <1>5, <1>6

LEMMA MallocFailsInv == IInv /\ MallocFails => IInv'
<1> SUFFICES ASSUME IInv, MallocFails PROVE IInv'
  OBVIOUS
<1> USE DEF IInv
<1>1. Wanted' = Wanted /\ Listed' = Listed /\ Tried' = Tried /\ Started' = Started /\ Ordered'
  BY Unmoved, UnmovedList, UnmovedChildren DEF MallocFails
<1>2. TypeOK'
  BY DEF TypeOK, MallocFails
<1>3. Growing'
  BY DEF Growing, Reading, MallocFails
<1>4. Walked'
  BY <1>1 DEF Walked, Reading, MallocFails
<1>5. (Tried \subseteq Listed)' /\ StartedInOrder' /\ AllStarted'
  BY <1>1 DEF StartedInOrder, AllStarted, MallocFails
<1> QED
  BY <1>1, <1>2, <1>3, <1>4, <1>5

(* The position of the element that is read is past every node listed.     *)
LEMMA CursorFacts ==
    ASSUME TypeOK, IsGroup(root), cursor <= Len(root.children)
    PROVE  /\ cursor \in Nodes
           /\ cursor \notin Listed
           /\ {p \in Wanted : p < cursor + 1} = Listed \cup (Wanted \cap {cursor})
           /\ cursor \in Wanted <=> root.children[cursor] = "process"
<1>1. Len(root.children) \in Nat /\ Len(root.children) <= MaxChildren
  BY ServiceMonitorAssumption DEF TypeOK, IsGroup
<1>2. cursor \in 1 .. MaxChildren + 1
  BY DEF TypeOK
<1>3. Wanted \subseteq Nodes
  BY WantedAreNodes DEF TypeOK
<1>4. cursor \in Nodes
  BY <1>1, <1>2, ConstantFacts DEF Nodes
<1>5. {p \in Wanted : p < cursor + 1} = Listed \cup (Wanted \cap {cursor})
  <2>1. \A p \in Nodes : p < cursor + 1 <=> p < cursor \/ p = cursor
    BY <1>2, ConstantFacts DEF Nodes
  <2>2. ~(cursor < cursor) /\ cursor < cursor + 1
    BY <1>2, ConstantFacts
  <2> QED
    BY <2>1, <2>2, <1>3 DEF Listed
<1> QED
  BY <1>1, <1>2, <1>4, <1>5 DEF Listed, Wanted

LEMMA ReadProcessInv == IInv /\ ReadProcess => IInv'
<1> SUFFICES ASSUME IInv, ReadProcess PROVE IInv'
  OBVIOUS
<1> USE DEF IInv
<1>1. phase = "read_processes" /\ phase' = phase /\ IsGroup(root) /\ ~failed
  BY DEF ReadProcess, Growing, Reading
<1>2. /\ cursor \in Nodes /\ cursor \notin Listed /\ cursor \in Wanted
      /\ Listed' = Listed \cup {cursor}
      /\ Wanted' = Wanted
  BY <1>1, CursorFacts, Unmoved DEF ReadProcess, Listed, Wanted
<1>3. Listed \subseteq Nodes /\ \A p \in Listed : p < cursor
  BY WantedAreNodes DEF TypeOK, Listed
<1>4. Tried' = Tried /\ Started' = Started /\ Tried = {}
  BY <1>1, UnmovedChildren DEF ReadProcess, Walked, Reading
<1>5. head \in Nodes \cup {Nil} /\ current \in Nodes \cup {Nil} /\ next \in [Nodes -> Nodes \cup {Nil}]
  BY DEF TypeOK
<1>6. /\ current = Nil => Listed = {}
      /\ current # Nil => current \in Listed /\ \A q \in Listed : q <= current
  BY <1>1 DEF Growing, Reading
<1>7. next' \in [Nodes -> Nodes \cup {Nil}]
  BY <1>2, <1>5 DEF ReadProcess, Linked
<1>8. TypeOK'
  BY <1>2, <1>5, <1>7, ConstantFacts DEF TypeOK, ReadProcess, HeadWith, Nodes
<1>9. head' # Nil /\ head' \in Listed' /\ \A q \in Listed' : head' <= q
  BY <1>2, <1>3, <1>5, ConstantFacts DEF Ordered, ReadProcess, HeadWith, Nodes
<1>10. ASSUME NEW p \in Nodes, next'[p] # Nil
       PROVE  /\ p \in Listed' /\ next'[p] \in Listed' /\ p < next'[p]
              /\ \A q \in Listed' : p < q => next'[p] <= q
  <2>1. CASE current # Nil /\ p = current
    <3>1. next'[p] = cursor
      BY <2>1, <1>5 DEF ReadProcess, Linked
    <3> QED
      BY <2>1, <3>1, <1>2, <1>3, <1>6 DEF Nodes
  <2>2. CASE current = Nil \/ p # current
    <3>1. next'[p] = next[p]
      BY <2>2, <1>5 DEF ReadProcess, Linked
    <3>2. /\ p \in Listed /\ next[p] \in Listed /\ p < next[p]
          /\ \A q \in Listed : p < q => next[p] <= q
      BY <3>1, <1>10 DEF Ordered
    <3> QED
      BY <3>1, <3>2, <1>2, <1>3, NodesAreInt
  <2> QED
    BY <2>1, <2>2
<1>11. ASSUME NEW p \in Listed', next'[p] = Nil
       PROVE  \A q \in Listed' : q <= p
  <2>1. CASE p = cursor
    <3>1. cursor \in Int /\ \A q \in Listed : q \in Int /\ q < cursor
      BY <1>2, <1>3, NodesAreInt
    <3> QED
      BY <2>1, <3>1, <1>2
  <2>2. CASE p # cursor
    <3>1. p \in Listed /\ p \in Nodes /\ current # Nil
      BY <2>2, <1>2, <1>3, <1>6
    <3>2. p # current
      BY <3>1, <1>2, <1>5, <1>11, ConstantFacts DEF ReadProcess, Linked
    <3>3. next[p] = Nil
      BY <3>1, <3>2, <1>5, <1>11 DEF ReadProcess, Linked
    <3>4. current <= p /\ p <= current
      BY <3>1, <3>3, <1>6 DEF Ordered
    <3> QED
      BY <3>1, <3>2, <3>4, <1>3, <1>6, NodesAreInt
  <2> QED
    BY <2>1, <2>2
<1>12. Ordered'
  BY <1>9, <1>10, <1>11 DEF Ordered
<1>13. Growing'
  BY <1>1, <1>2, <1>3, ConstantFacts DEF Growing, Reading, ReadProcess, Nodes
<1>14. Walked' /\ (Tried \subseteq Listed)' /\ StartedInOrder' /\ AllStarted'
  BY <1>1, <1>4 DEF Walked, StartedInOrder, AllStarted, Reading
<1> QED
  BY <1>8, <1>12, <1>13, <1>14

LEMMA SkipElementInv == IInv /\ SkipElement => IInv'
<1> SUFFICES ASSUME IInv, SkipElement PROVE IInv'
  OBVIOUS
<1> USE DEF IInv
<1>1. phase = "read_processes" /\ phase' = phase /\ IsGroup(root)
  BY DEF SkipElement, Growing, Reading
<1>2. Listed' = Listed /\ Wanted' = Wanted /\ cursor \in Nodes
  BY <1>1, CursorFacts DEF SkipElement, Listed, Wanted
<1>3. Tried' = Tried /\ Started' = Started /\ Tried = {}
  BY <1>1, UnmovedChildren DEF SkipElement, Walked, Reading
<1>4. TypeOK'
  BY <1>2, ConstantFacts DEF TypeOK, SkipElement, Nodes
<1>5. Ordered'
  BY <1>2 DEF Ordered, SkipElement
<1>6. Growing'
  BY <1>1, <1>2 DEF Growing, Reading, SkipElement
<1>7. Walked' /\ (Tried \subseteq Listed)' /\ StartedInOrder' /\ AllStarted'
  BY <1>1, <1>3 DEF Walked, StartedInOrder, AllStarted, Reading
<1> QED
  BY <1>4, <1>5, <1>6, <1>7

LEMMA EndOfProcessesInv == IInv /\ EndOfProcesses => IInv'
<1> SUFFICES ASSUME IInv, EndOfProcesses PROVE IInv'
  OBVIOUS
<1> USE DEF IInv
<1>1. Wanted' = Wanted /\ Listed' = Listed /\ Tried' = Tried /\ Started' = Started /\ Ordered'
  BY Unmoved, UnmovedList, UnmovedChildren DEF EndOfProcesses
<1>2. TypeOK'
  BY DEF TypeOK, EndOfProcesses
<1>3. Listed = Wanted
  <2>1. IsGroup(root)
    BY DEF EndOfProcesses, Growing
  <2>2. Len(root.children) \in Nat /\ cursor \in Nat
    BY <2>1, ServiceMonitorAssumption DEF TypeOK, IsGroup
  <2> QED
    BY <2>1, <2>2 DEF EndOfProcesses, Listed, Wanted
<1>4. Growing'
  BY <1>1, <1>3 DEF Growing, Reading, EndOfProcesses
<1>5. Walked' /\ (Tried \subseteq Listed)' /\ StartedInOrder' /\ AllStarted'
  BY <1>1 DEF Walked, StartedInOrder, AllStarted, Reading, EndOfProcesses
<1> QED
  BY <1>1, <1>2, <1>4, <1>5

-----------------------------------------------------------------------------
(* The steps of the launch. *)
LEMMA Timer1Inv == IInv /\ Timer1 => IInv'
<1> SUFFICES ASSUME IInv, Timer1 PROVE IInv'
  OBVIOUS
<1> USE DEF IInv
<1>1. Wanted' = Wanted /\ Listed' = Listed /\ Tried' = Tried /\ Started' = Started /\ Ordered'
  BY Unmoved, UnmovedList, UnmovedChildren DEF Timer1
<1>2. TypeOK'
  BY DEF TypeOK, Timer1
<1>3. Growing'
  BY <1>1 DEF Growing, Reading, Timer1
<1>4. Tried = {} /\ Started = {}
  BY DEF Walked, Timer1, Tried, Started
<1>5. \A q \in Listed : head # Nil => ~(q < head)
  BY WantedAreNodes, ConstantFacts DEF Ordered, TypeOK, Listed, Nodes
<1>6. head = Nil /\ ~failed => Wanted = {}
  BY DEF Ordered, Growing, Reading, Timer1
<1>7. Walked'
  BY <1>1, <1>4, <1>5, <1>6 DEF Walked, Reading, Timer1, Ordered
<1>8. (Tried \subseteq Listed)' /\ StartedInOrder' /\ AllStarted'
  BY <1>1 DEF StartedInOrder, AllStarted, Timer1
<1> QED
  BY <1>1, <1>2, <1>3, <1>7, <1>8

LEMMA LaunchFacts ==
    ASSUME IInv, phase = "launch", current # Nil
    PROVE  /\ current \in Listed /\ current \in Nodes /\ current \in Wanted
           /\ Listed \subseteq Nodes /\ Wanted \subseteq Nodes
           /\ \A q \in Listed : q < current => q \in Started
           /\ \A q \in Tried : q < current
           /\ \A p \in Wanted : p < current => p \in Listed
           /\ Tried \subseteq Listed /\ Started \subseteq Tried
<1>1. current \in Listed /\ Wanted \subseteq Nodes /\ Listed \subseteq Wanted
  BY WantedAreNodes DEF IInv, TypeOK, Walked, Listed
<1>2. current < cursor /\ cursor \in Int
  BY <1>1 DEF Listed, IInv, TypeOK
<1>3. \A p \in Wanted : p < current => p \in Listed
  BY <1>1, <1>2 DEF Listed, Nodes
<1> QED
  BY <1>1, <1>3 DEF IInv, Walked, Tried, Started

LEMMA SpawnInv == IInv /\ Spawn => IInv'
<1> SUFFICES ASSUME IInv, Spawn PROVE IInv'
  OBVIOUS
<1> USE DEF IInv
<1>1. /\ phase = "launch" /\ current # Nil /\ phase' = phase /\ failed' = failed
      /\ current' = next[current]
      /\ child' = [child EXCEPT ![current] = "runs"]
  BY DEF Spawn
<1>2. Wanted' = Wanted /\ Listed' = Listed /\ Ordered'
  BY Unmoved, UnmovedList DEF Spawn
<1>3. /\ current \in Listed /\ current \in Nodes /\ current \in Wanted
      /\ Listed \subseteq Nodes /\ Wanted \subseteq Nodes
      /\ \A q \in Listed : q < current => q \in Started
      /\ \A q \in Tried : q < current
      /\ \A p \in Wanted : p < current => p \in Listed
      /\ Tried \subseteq Listed /\ Started \subseteq Tried
  BY <1>1, LaunchFacts
<1>4. Tried' = Tried \cup {current} /\ Started' = Started \cup {current}
  BY <1>1, <1>3 DEF Tried, Started, TypeOK
<1>5. TypeOK'
  BY <1>1, <1>3 DEF TypeOK, Spawn
<1>6. Growing'
  BY <1>1, <1>2 DEF Growing, Reading
<1>7. ASSUME next[current] # Nil
      PROVE  /\ next[current] \in Listed
             /\ \A q \in Listed : q < next[current] => q \in Started'
             /\ \A q \in Tried' : q < next[current]
  <2>1. /\ next[current] \in Listed /\ current < next[current]
        /\ \A q \in Listed : current < q => next[current] <= q
    BY <1>3, <1>7 DEF Ordered
  <2>2. current \in Int /\ next[current] \in Int
    BY <2>1, <1>3, NodesAreInt
  <2>3. \A q \in Listed : q < next[current] => q < current \/ q = current
    BY <2>1, <2>2, <1>3, NodesAreInt
  <2>4. \A q \in Tried : q < next[current]
    BY <2>1, <2>2, <1>3, NodesAreInt
  <2> QED
    BY <2>1, <2>3, <2>4, <1>3, <1>4
<1>8. ASSUME next[current] = Nil, ~failed
      PROVE  Started' = Wanted
  <2>1. Listed = Wanted
    BY <1>1, <1>8 DEF Growing, Reading
  <2>2. \A q \in Listed : q < current \/ q = current
    BY <1>3, <1>8 DEF Ordered, Nodes
  <2> QED
    BY <2>1, <2>2, <1>3, <1>4
<1>9. Walked'
  BY <1>1, <1>2, <1>7, <1>8 DEF Walked, Reading
<1>10. (Tried \subseteq Listed)' /\ StartedInOrder' /\ AllStarted'
  BY <1>1, <1>2, <1>3, <1>4 DEF StartedInOrder, AllStarted
<1> QED
  BY <1>2, <1>5, <1>6, <1>9, <1>10

LEMMA SpawnFailsInv == IInv /\ SpawnFails => IInv'
<1> SUFFICES ASSUME IInv, SpawnFails PROVE IInv'
  OBVIOUS
<1> USE DEF IInv
<1>1. /\ phase = "launch" /\ current # Nil /\ phase' = phase
      /\ failed' = TRUE /\ current' = Nil
      /\ child' = [child EXCEPT ![current] = "failed"]
  BY DEF SpawnFails, AfterFailure
<1>2. Wanted' = Wanted /\ Listed' = Listed /\ Ordered'
  BY Unmoved, UnmovedList DEF SpawnFails
<1>3. /\ current \in Listed /\ current \in Nodes /\ current \in Wanted
      /\ Wanted \subseteq Nodes
      /\ \A q \in Listed : q < current => q \in Started
      /\ \A q \in Tried : q < current
      /\ \A p \in Wanted : p < current => p \in Listed
      /\ Tried \subseteq Listed /\ Started \subseteq Tried
  BY <1>1, LaunchFacts
<1>4. current \notin Tried
  BY <1>3 DEF Nodes
<1>5. Tried' = Tried \cup {current} /\ Started' = Started
  BY <1>1, <1>3, <1>4 DEF Tried, Started, TypeOK
<1>6. TypeOK'
  BY <1>1, <1>3 DEF TypeOK, SpawnFails
<1>7. Growing' /\ Walked'
  BY <1>1 DEF Growing, Walked, Reading
<1>8. (Tried \subseteq Listed)' /\ StartedInOrder' /\ AllStarted'
  BY <1>1, <1>2, <1>3, <1>5 DEF StartedInOrder, AllStarted
<1> QED
  BY <1>2, <1>6, <1>7, <1>8

LEMMA EndOfLaunchInv == IInv /\ EndOfLaunch => IInv'
<1> SUFFICES ASSUME IInv, EndOfLaunch PROVE IInv'
  OBVIOUS
<1> USE DEF IInv
<1>1. Wanted' = Wanted /\ Listed' = Listed /\ Tried' = Tried /\ Started' = Started /\ Ordered'
  BY Unmoved, UnmovedList, UnmovedChildren DEF EndOfLaunch
<1>2. TypeOK'
  BY DEF TypeOK, EndOfLaunch
<1>3. Growing' /\ Walked'
  BY <1>1 DEF Growing, Walked, Reading, EndOfLaunch
<1>4. (Tried \subseteq Listed)' /\ StartedInOrder' /\ AllStarted'
  BY <1>1 DEF StartedInOrder, AllStarted, EndOfLaunch, Walked
<1> QED
  BY <1>1, <1>2, <1>3, <1>4

(* The end of a process and its callback leave it among those started.     *)
LEMMA ChildInv == ASSUME IInv, NEW p \in Nodes, ProcessEnds(p) \/ OnExit(p) PROVE IInv'
<1> USE DEF IInv
<1>1. Wanted' = Wanted /\ Listed' = Listed /\ Ordered'
  BY Unmoved, UnmovedList DEF ProcessEnds, OnExit
<1>2. Tried' = Tried /\ Started' = Started
  BY DEF ProcessEnds, OnExit, Tried, Started, TypeOK
<1>3. TypeOK'
  BY DEF TypeOK, ProcessEnds, OnExit
<1>4. UNCHANGED <<phase, cursor, current, failed, root>>
  BY DEF ProcessEnds, OnExit
<1>5. Growing' /\ Walked'
  <2>1. IsGroup(root)' <=> IsGroup(root)
    BY <1>4 DEF IsGroup
  <2> QED
    BY <1>1, <1>2, <1>4, <2>1 DEF Growing, Walked, Reading
<1>6. (Tried \subseteq Listed)' /\ StartedInOrder' /\ AllStarted'
  BY <1>1, <1>2, <1>4 DEF StartedInOrder, AllStarted
<1> QED
  BY <1>1, <1>3, <1>5, <1>6

LEMMA NextInv == IInv /\ [Next]_vars => IInv'
<1> SUFFICES ASSUME IInv, [Next]_vars PROVE IInv'
  OBVIOUS
<1>1. CASE Program
  BY <1>1, ReadPgroupInv, ReadProcessInv, SkipElementInv, EndOfProcessesInv,
     Timer1Inv, SpawnInv, EndOfLaunchInv, ChildInv DEF Program
<1>2. CASE MallocFails
  BY <1>2, MallocFailsInv
<1>3. CASE SpawnFails
  BY <1>3, SpawnFailsInv
<1>4. CASE \E p \in Nodes : ProcessEnds(p)
  BY <1>4, ChildInv
<1>5. CASE UNCHANGED vars
  <2>1. Wanted' = Wanted /\ Listed' = Listed /\ Tried' = Tried /\ Started' = Started /\ Ordered' = Ordered
    BY <1>5, Unmoved, UnmovedList, UnmovedChildren DEF vars
  <2>2. UNCHANGED <<root, phase, cursor, head, current, next, child, failed>>
    BY <1>5 DEF vars
  <2> QED
    BY <2>1, <2>2 DEF IInv, TypeOK, Growing, Walked, StartedInOrder, AllStarted
<1> QED
  BY <1>1, <1>2, <1>3, <1>4, <1>5 DEF Next

THEOREM InductiveInvariant == Spec => []IInv
BY InitInv, NextInv, PTL DEF Spec

(* The variables of the service monitor keep their types.                  *)
THEOREM TypeCorrect == Spec => []TypeOK
<1>1. IInv => TypeOK
  BY DEF IInv
<1> QED
  BY <1>1, InductiveInvariant, PTL

(* launch_processes starts the processes of the file in order and leaves   *)
(* none out before the last one it tries, whatever the file holds.         *)
THEOREM ProcessesStartInOrder == Spec => []StartedInOrder
<1>1. IInv => StartedInOrder
  BY DEF IInv
<1> QED
  BY <1>1, InductiveInvariant, PTL

(* If no malloc and no uv_spawn fails, the whole file has been started     *)
(* when the callback of the timer returns.                                 *)
THEOREM WholeFileStarts == Spec => []AllStarted
<1>1. IInv => AllStarted
  BY DEF IInv
<1> QED
  BY <1>1, InductiveInvariant, PTL
=============================================================================
