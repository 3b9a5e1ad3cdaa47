------------------------------- MODULE MCMemory -------------------------------
(***************************************************************************)
(* Instance for TLC of what a server keeps in memory: the handles of its   *)
(* loop, the write requests of a connection or the table of requests in    *)
(* progress.  They share no memory; `part' says which of them a behaviour  *)
(* is about.                                                               *)
(***************************************************************************)
EXTENDS LoopHandles, InProgress

CONSTANTS Burst, Units, Room, MaxMessages

VARIABLES
    part,
    up, left, written, queue, completed, requests, socket, got, deferred

writeVars == <<up, left, written, queue, completed, requests, socket, got, deferred>>

Writes == INSTANCE WriteQueue

ASSUME WritesAssumption == Writes!Parameters

\* An idle table is one that held nothing.
MemoryInit ==
    /\ part \in {"handles", "writes", "table"}
    /\ Init /\ Writes!Init /\ TableInit
    /\ part # "table" => stray = {}

HandlesStep == part = "handles" /\ Next /\ UNCHANGED <<part, writeVars, tableVars>>
WritesStep  == part = "writes" /\ Writes!Next /\ UNCHANGED <<part, vars, tableVars>>
TableStep   == part = "table" /\ TableNext /\ UNCHANGED <<part, vars, writeVars>>

MemoryNext == HandlesStep \/ WritesStep \/ TableStep

(* Nothing has to be done for writes while there are none.                 *)
MemorySpec ==
    MemoryInit /\ [][MemoryNext]_<<part, vars, writeVars, tableVars>> /\ Writes!Fairness

-----------------------------------------------------------------------------
(* WriteQueue: only messages that had to wait are sent from memory that    *)
(* has another use.                                                        *)
OnlyDeferredIsSpoilt == Writes!OnlyDeferredIsSpoilt

(* WriteQueue: every request libuv took is freed.                          *)
TakenIsFreed == Writes!TakenIsFreed
=============================================================================
