---------------------------- MODULE MessagePool ----------------------------
(***************************************************************************)
(* What the message functions of ctos.h promise: a few queues, each with a *)
(* fixed stock of elements that are claimed, sent, received in the order   *)
(* they were sent, and released.  Opening and closing a queue are atomic   *)
(* and touch no other queue.                                               *)
(***************************************************************************)
EXTENDS Integers, Sequences, FiniteSets

CONSTANTS Users, Boxes, Stock, MaxOpen

VARIABLES open,     \* the queues that exist
          free,     \* the elements of each queue nobody has
          waiting,  \* the elements sent to it and not yet received
          hand      \* the queue and the element each user holds, as a set

poolVars == <<open, free, waiting, hand>>

PoolInit ==
    /\ open = {} /\ hand = [u \in Users |-> {}]
    /\ free = [b \in Boxes |-> {}] /\ waiting = [b \in Boxes |-> <<>>]

Open(b) ==
    /\ b \notin open /\ Cardinality(open) < MaxOpen
    /\ open' = open \cup {b}
    /\ free' = [free EXCEPT ![b] = Stock]
    /\ UNCHANGED <<waiting, hand>>

Close(b) ==
    /\ b \in open /\ \A u \in Users, e \in Stock : <<b, e>> \notin hand[u]
    /\ open' = open \ {b}
    /\ free' = [free EXCEPT ![b] = {}]
    /\ waiting' = [waiting EXCEPT ![b] = <<>>]
    /\ UNCHANGED hand

TakeFree(u, b) ==
    /\ b \in open /\ hand[u] = {}
    /\ \E e \in free[b] : /\ free' = [free EXCEPT ![b] = @ \ {e}]
                          /\ hand' = [hand EXCEPT ![u] = {<<b, e>>}]
    /\ UNCHANGED <<open, waiting>>

PassOn(u) ==
    /\ \E b \in Boxes, e \in Stock :
          /\ hand[u] = {<<b, e>>}
          /\ waiting' = [waiting EXCEPT ![b] = Append(@, e)]
    /\ hand' = [hand EXCEPT ![u] = {}]
    /\ UNCHANGED <<open, free>>

TakeOldest(u, b) ==
    /\ b \in open /\ hand[u] = {} /\ waiting[b] # <<>>
    /\ hand' = [hand EXCEPT ![u] = {<<b, Head(waiting[b])>>}]
    /\ waiting' = [waiting EXCEPT ![b] = Tail(@)]
    /\ UNCHANGED <<open, free>>

PutBack(u) ==
    /\ \E b \in Boxes, e \in Stock :
          hand[u] = {<<b, e>>} /\ free' = [free EXCEPT ![b] = @ \cup {e}]
    /\ hand' = [hand EXCEPT ![u] = {}]
    /\ UNCHANGED <<open, waiting>>

PoolNext ==
    \/ \E b \in Boxes : Open(b) \/ Close(b)
    \/ \E u \in Users, b \in Boxes : TakeFree(u, b) \/ TakeOldest(u, b)
    \/ \E u \in Users : PassOn(u) \/ PutBack(u)

PoolSpec == PoolInit /\ [][PoolNext]_poolVars
=============================================================================
