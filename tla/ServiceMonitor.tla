--------------------------- MODULE ServiceMonitor ---------------------------
(***************************************************************************)
(* The service monitor, src/service_monitor/service_monitor_main.cpp: it   *)
(* reads a group of processes from an XML file into a linked list, starts  *)
(* them when its timer expires, and is told when one of them ends.         *)
(*                                                                         *)
(* A well-formed file has one root element, and read_pgroups looks at that *)
(* element and its siblings, so there is one group or none.  A node of the *)
(* list is named by the position, among the children of the root, of the   *)
(* element it was read from.                                               *)
(***************************************************************************)
EXTENDS Integers, Sequences

CONSTANTS
    Nil,          \* NULL, also for a missing attribute
    Roots,        \* root elements a file may have; Nil: not well-formed
    MaxChildren   \* the most children any of them has

(* The elements below the root, as far as read_processes tells them apart. *)
Kinds == {"process",      \* with a name and an instance
          "incomplete",   \* a process without one of them
          "other"}        \* anything else

Nodes == 1 .. MaxChildren

ASSUME ServiceMonitorAssumption ==
    /\ MaxChildren \in Nat
    /\ Nil \notin Int
    /\ \A root \in Roots \ {Nil} :
          /\ root.name \in {"process_group", "other"}
          /\ root.group_id \in Int \cup {Nil}
          /\ root.children \in Seq(Kinds) /\ Len(root.children) <= MaxChildren

VARIABLES
    root,      \* the root element
    phase,     \* where the program is
    cursor,    \* cur_node of read_processes
    head,      \* processInfoNodeHead, then pgroup_info_node->processInfoNode
    current,   \* process_cur_node, then cur_node of launch_processes
    next,      \* ProcessInfoNode_t.next
    child,     \* child_req
    failed     \* an allocation or a spawn failed

vars == <<root, phase, cursor, head, current, next, child, failed>>

Init ==
    /\ root \in Roots
    /\ phase = "read_pgroups"
    /\ cursor = 1
    /\ head = Nil /\ current = Nil
    /\ next = [p \in Nodes |-> Nil]
    /\ child = [p \in Nodes |-> "none"]
    /\ failed = FALSE

-----------------------------------------------------------------------------
(* Plausible errors, for mutation of the definitions that follow.          *)
AfterFailure_Next(p) == next[p]
Linked_Forgotten(p)  == next
Linked_Itself(p)     == [next EXCEPT ![p] = p]
-----------------------------------------------------------------------------
(* What read_pgroups takes for a process group. *)
IsGroup(r) ==
    /\ r # Nil
    /\ r.name = "process_group"
    /\ r.group_id # Nil /\ r.group_id >= 1 /\ r.group_id <= 16

\* read_pgroups up to the call of read_processes.
ReadPgroup ==
    /\ phase = "read_pgroups"
    /\ phase' = IF IsGroup(root) THEN "read_processes" ELSE "wait"
    /\ UNCHANGED <<root, cursor, head, current, next, child, failed>>

\* malloc returns NULL: the list read so far is returned.
MallocFails ==
    /\ \/ phase = "read_pgroups" /\ root # Nil /\ root.name = "process_group"
       \/ /\ phase = "read_processes" /\ cursor <= Len(root.children)
          /\ root.children[cursor] # "other"
    /\ phase' = "wait"
    /\ failed' = TRUE
    /\ UNCHANGED <<root, cursor, head, current, next, child>>

(* The list with p at its end. *)
HeadWith(p) == IF head = Nil THEN p ELSE head
Linked(p)   == IF current = Nil THEN next ELSE [next EXCEPT ![current] = p]

\* One turn of the loop of read_processes.
ReadProcess ==
    /\ phase = "read_processes" /\ cursor <= Len(root.children)
    /\ root.children[cursor] = "process"
    /\ head' = HeadWith(cursor)
    /\ next' = Linked(cursor)
    /\ current' = cursor
    /\ cursor' = cursor + 1
    /\ UNCHANGED <<root, phase, child, failed>>

SkipElement ==
    /\ phase = "read_processes" /\ cursor <= Len(root.children)
    /\ root.children[cursor] # "process"
    /\ cursor' = cursor + 1
    /\ UNCHANGED <<root, phase, head, current, next, child, failed>>

EndOfProcesses ==
    /\ phase = "read_processes" /\ cursor > Len(root.children)
    /\ phase' = "wait"
    /\ UNCHANGED <<root, cursor, head, current, next, child, failed>>

-----------------------------------------------------------------------------
\* The timer, which expires once.
Timer1 ==
    /\ phase = "wait"
    /\ phase' = "launch"
    /\ current' = head
    /\ UNCHANGED <<root, cursor, head, next, child, failed>>

\* One turn of the loop of launch_processes: uv_spawn succeeds.
Spawn ==
    /\ phase = "launch" /\ current # Nil
    /\ child' = [child EXCEPT ![current] = "runs"]
    /\ current' = next[current]
    /\ UNCHANGED <<root, phase, cursor, head, next, failed>>

(* Where the loop goes on when p could not be started: nowhere. *)
AfterFailure(p) == Nil

\* uv_spawn fails: the rest of the group is not started.
SpawnFails ==
    /\ phase = "launch" /\ current # Nil
    /\ child' = [child EXCEPT ![current] = "failed"]
    /\ current' = AfterFailure(current)
    /\ failed' = TRUE
    /\ UNCHANGED <<root, phase, cursor, head, next>>

\* The callback of the timer returns to the loop.
EndOfLaunch ==
    /\ phase = "launch" /\ current = Nil
    /\ phase' = "loop"
    /\ UNCHANGED <<root, cursor, head, current, next, child, failed>>

\* A process that was started ends, at any time.
ProcessEnds(p) ==
    /\ child[p] = "runs"
    /\ child' = [child EXCEPT ![p] = "ended"]
    /\ UNCHANGED <<root, phase, cursor, head, current, next, failed>>

\* on_exit, which the loop calls when no other callback runs.
OnExit(p) ==
    /\ phase = "loop"
    /\ child[p] = "ended"
    /\ child' = [child EXCEPT ![p] = "closed"]
    /\ UNCHANGED <<root, phase, cursor, head, current, next, failed>>

Program ==
    \/ ReadPgroup \/ ReadProcess \/ SkipElement \/ EndOfProcesses
    \/ Timer1 \/ Spawn \/ EndOfLaunch
    \/ \E p \in Nodes : OnExit(p)

Next ==
    \/ Program
    \/ MallocFails
    \/ SpawnFails
    \/ \E p \in Nodes : ProcessEnds(p)

(* The program goes on, and its loop calls what is due. *)
Spec == Init /\ [][Next]_vars /\ WF_vars(Program)

-----------------------------------------------------------------------------
(* Every variable has its type. *)
TypeOK ==
    /\ root \in Roots
    /\ phase \in {"read_pgroups", "read_processes", "wait", "launch", "loop"}
    /\ cursor \in 1 .. MaxChildren + 1
    /\ {head, current} \subseteq Nodes \cup {Nil}
    /\ next \in [Nodes -> Nodes \cup {Nil}]
    /\ child \in [Nodes -> {"none", "runs", "ended", "closed", "failed"}]
    /\ failed \in BOOLEAN

(* The processes the file asks for. *)
Wanted == IF IsGroup(root)
          THEN {p \in 1 .. Len(root.children) : root.children[p] = "process"}
          ELSE {}
Tried   == {p \in Nodes : child[p] # "none"}
Started == {p \in Nodes : child[p] \notin {"none", "failed"}}

(* Processes are started in the order of the file and none is left out:    *)
(* what was tried is asked for, and all that stands before it was started. *)
StartedInOrder ==
    /\ Tried \subseteq Wanted
    /\ \A p \in Wanted, q \in Tried : p < q => p \in Started

(* If every allocation and every spawn succeeds, all processes that the    *)
(* file asks for are started before the loop goes on.                      *)
AllStarted == phase = "loop" /\ ~failed => Started = Wanted

(* The launch ends whatever fails, and the end of every process is told.   *)
EveryEndIsTold ==
    /\ <>(phase = "loop")
    /\ \A p \in Nodes : child[p] = "ended" ~> child[p] = "closed"
=============================================================================
