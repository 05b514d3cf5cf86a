----------------------------- MODULE DurableFifo -----------------------------
(***************************************************************************)
(* A bounded queue that outlives its readers: an element is shown to a     *)
(* reader first, and removed when that reader confirms it.                 *)
(***************************************************************************)
EXTENDS Integers, Sequences

CONSTANTS Readers, Values, Capacity

VARIABLES stored,
          seen    \* the element each reader has been shown and not confirmed, as a set

fifoVars == <<stored, seen>>

FifoInit == stored = <<>> /\ seen = [r \in Readers |-> {}]

FifoStore(v) ==
    /\ Len(stored) < Capacity
    /\ stored' = Append(stored, v)
    /\ UNCHANGED seen

FifoShow(r) ==
    /\ stored # <<>> /\ seen[r] = {}
    /\ seen' = [seen EXCEPT ![r] = {Head(stored)}]
    /\ UNCHANGED stored

FifoConfirm(r) ==
    /\ stored # <<>> /\ seen[r] = {Head(stored)}
    /\ stored' = Tail(stored)
    /\ seen' = [seen EXCEPT ![r] = {}]

FifoAbandon(r) ==
    /\ seen' = [seen EXCEPT ![r] = {}]
    /\ UNCHANGED stored

FifoRenew == stored' = <<>> /\ \A r \in Readers : seen[r] = {} /\ UNCHANGED seen

FifoNext ==
    \/ \E v \in Values : FifoStore(v)
    \/ \E r \in Readers : FifoShow(r) \/ FifoConfirm(r) \/ FifoAbandon(r)
    \/ FifoRenew

FifoSpec == FifoInit /\ [][FifoNext]_fifoVars
=============================================================================
