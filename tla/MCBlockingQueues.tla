-------------------------- MODULE MCBlockingQueues --------------------------
(***************************************************************************)
(* The two queues whose calls block on a condition variable, side by side: *)
(* a behaviour is one of the ring or one of the list, chosen at the start. *)
(* Nothing sleeps in the list that is not used, so its fairness asks        *)
(* nothing of a behaviour of the ring.                                     *)
(***************************************************************************)
EXTENDS RingBuffer, ThreadSafeQueue

CONSTANTS reader, writer, t1, t2, t3, d1, d2, d3

VARIABLE part

OneReader == {reader}
OneWriter == {writer}
ThreeThreads == {t1, t2, t3}
ThreeBlocks == {d1, d2, d3}

QueuesInit == part \in {"ring", "list"} /\ Init /\ QInit

QueuesNext ==
    /\ UNCHANGED part
    /\ \/ part = "ring" /\ Next /\ UNCHANGED qVars
       \/ part = "list" /\ QNext /\ UNCHANGED vars

QueuesSpec == QueuesInit /\ [][QueuesNext]_<<part, vars, qVars>> /\ QFairness
=============================================================================
