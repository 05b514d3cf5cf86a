------------------------------ MODULE ByteFifo ------------------------------
(***************************************************************************)
(* What a ring of units promises: the units written and not yet read, in   *)
(* order, at most Limit of them, and calls that return what is stored.     *)
(***************************************************************************)
EXTENDS Integers, Sequences

CONSTANTS Values, Limit

VARIABLES stored,
          last    \* the last call that had an effect or returned data

fifoVars == <<stored, last>>

FifoInit == stored = <<>> /\ last = [op |-> "none", units |-> <<>>]

Returned(op, units) == last' = [op |-> op, units |-> units]

FifoWrite(units) ==
    /\ Len(stored) + Len(units) <= Limit
    /\ stored' = stored \o units
    /\ Returned("write", units)

FifoRead(n) ==
    /\ stored' = SubSeq(stored, n + 1, Len(stored))
    /\ Returned("read", SubSeq(stored, 1, n))

FifoSkip(n) ==
    /\ stored' = SubSeq(stored, n + 1, Len(stored))
    /\ Returned("skip", <<>>)

FifoPeek(n) ==
    /\ UNCHANGED stored
    /\ Returned("peek", SubSeq(stored, 1, n))

FifoReset == stored' = <<>> /\ Returned("reset", <<>>)

FifoNext ==
    \/ \E k \in 0 .. Limit : \E units \in [1 .. k -> Values] : FifoWrite(units)
    \/ \E n \in 0 .. Len(stored) : FifoRead(n) \/ FifoSkip(n) \/ FifoPeek(n)
    \/ FifoReset

FifoSpec == FifoInit /\ [][FifoNext]_fifoVars
=============================================================================
