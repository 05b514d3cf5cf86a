-------------------------------- MODULE Fifo --------------------------------
(***************************************************************************)
(* A bounded first-in first-out queue whose reader works on an item before *)
(* it releases its place: the promise of msgqueue.h.                       *)
(***************************************************************************)
EXTENDS Integers, Sequences, FiniteSets

CONSTANTS Items, Readers, Capacity

VARIABLES items,    \* sent and not yet received, oldest first
          inHand    \* the item each reader has and has not released, as a set

fifoVars == <<items, inHand>>

FifoInit == items = <<>> /\ inHand = [r \in Readers |-> {}]

FifoSend(b) ==
    /\ Len(items) + Cardinality({r \in Readers : inHand[r] # {}}) < Capacity
    /\ items' = Append(items, b)
    /\ UNCHANGED inHand

FifoReceive(r) ==
    /\ items # <<>> /\ inHand[r] = {}
    /\ inHand' = [inHand EXCEPT ![r] = {Head(items)}]
    /\ items' = Tail(items)

FifoRelease(r) ==
    /\ inHand[r] # {}
    /\ inHand' = [inHand EXCEPT ![r] = {}]
    /\ UNCHANGED items

FifoNext == \/ \E b \in Items : FifoSend(b)
            \/ \E r \in Readers : FifoReceive(r) \/ FifoRelease(r)

FifoSpec == FifoInit /\ [][FifoNext]_fifoVars
=============================================================================
