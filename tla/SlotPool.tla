------------------------------ MODULE SlotPool ------------------------------
(***************************************************************************)
(* What comm_que.h promises: two queues of slots, the empty and the full   *)
(* ones.  Get takes the first slot of a queue; Put appends, and the Front  *)
(* variants prepend, the very slot they are given.                         *)
(***************************************************************************)
EXTENDS Integers, Sequences

CONSTANTS Threads, Capacity

VARIABLES emptyQ, fullQ,
          filling, consuming   \* the slot each thread has from a Get, as a set

poolVars == <<emptyQ, fullQ, filling, consuming>>

AllEmpty == [i \in 1 .. Capacity |-> i - 1]

PoolInit ==
    /\ emptyQ = AllEmpty /\ fullQ = <<>>
    /\ filling = [t \in Threads |-> {}]
    /\ consuming = [t \in Threads |-> {}]

PoolGetEmpty(t) ==
    /\ emptyQ # <<>> /\ filling[t] = {} /\ consuming[t] = {}
    /\ filling' = [filling EXCEPT ![t] = {Head(emptyQ)}]
    /\ emptyQ' = Tail(emptyQ)
    /\ UNCHANGED <<fullQ, consuming>>

PoolGetFull(t) ==
    /\ fullQ # <<>> /\ filling[t] = {} /\ consuming[t] = {}
    /\ consuming' = [consuming EXCEPT ![t] = {Head(fullQ)}]
    /\ fullQ' = Tail(fullQ)
    /\ UNCHANGED <<emptyQ, filling>>

PoolPutFull(t) ==
    \E s \in filling[t] :
        /\ fullQ' = Append(fullQ, s)
        /\ filling' = [filling EXCEPT ![t] = {}]
        /\ UNCHANGED <<emptyQ, consuming>>

PoolPutEmpty(t) ==
    \E s \in consuming[t] :
        /\ emptyQ' = Append(emptyQ, s)
        /\ consuming' = [consuming EXCEPT ![t] = {}]
        /\ UNCHANGED <<fullQ, filling>>

PoolPutFullFront(t) ==
    \E s \in consuming[t] :
        /\ fullQ' = <<s>> \o fullQ
        /\ consuming' = [consuming EXCEPT ![t] = {}]
        /\ UNCHANGED <<emptyQ, filling>>

PoolPutEmptyFront(t) ==
    \E s \in filling[t] :
        /\ emptyQ' = <<s>> \o emptyQ
        /\ filling' = [filling EXCEPT ![t] = {}]
        /\ UNCHANGED <<fullQ, consuming>>

PoolClear ==
    /\ \A t \in Threads : filling[t] = {} /\ consuming[t] = {}
    /\ emptyQ' = AllEmpty /\ fullQ' = <<>>
    /\ UNCHANGED <<filling, consuming>>

PoolNext ==
    \/ \E t \in Threads :
          \/ PoolGetEmpty(t) \/ PoolGetFull(t)
          \/ PoolPutFull(t) \/ PoolPutEmpty(t)
          \/ PoolPutFullFront(t) \/ PoolPutEmptyFront(t)
    \/ PoolClear

PoolSpec == PoolInit /\ [][PoolNext]_poolVars
=============================================================================
