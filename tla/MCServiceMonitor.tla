-------------------------- MODULE MCServiceMonitor --------------------------
(***************************************************************************)
(* Instance of ServiceMonitor for TLC: all files with up to MaxChildren    *)
(* elements below the root, and group ids on both sides of each limit.     *)
(***************************************************************************)
EXTENDS ServiceMonitor, SequencesExt

MCChildren == SeqOf({"process", "incomplete", "other"}, 3)

MCRoots ==
    {Nil} \cup [name : {"process_group"}, group_id : {Nil, 0, 1, 16, 17},
                   children : MCChildren]
             \cup [name : {"other"}, group_id : {1}, children : MCChildren]
=============================================================================
