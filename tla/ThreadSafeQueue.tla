-------------------------- MODULE ThreadSafeQueue --------------------------
(***************************************************************************)
(* The linked-list queue of src/common/thread_safe_queue.c.  The queue     *)
(* takes over the data it is given (heap blocks) and hands it back to the  *)
(* caller of dequeue or remove_wildcard; clear and destroy free what is    *)
(* left.  Every critical section is one action; a thread in                *)
(* pthread_cond_(timed)wait is between two of them.                        *)
(***************************************************************************)
EXTENDS Integers, Sequences, FiniteSets, SequencesExt

CONSTANTS Users,
          Data      \* heap blocks; each is allocated at most once

VARIABLES items,         \* front .. rear
          is_destroyed,
          freed,         \* queue_destroy has destroyed the mutex and freed the queue
          where,         \* of each thread: outside, waiting on cond, or woken
          timed,         \* the threads whose current wait has a deadline
          taken,         \* what a thread got from the queue, as a set
          heap           \* state of each heap block

qVars == <<items, is_destroyed, freed, where, timed, taken, heap>>

HeapStates == {"unused", "live", "freed", "freed twice"}

QTypeOK ==
    /\ items \in Seq(Data)
    /\ is_destroyed \in BOOLEAN /\ freed \in BOOLEAN
    /\ where \in [Users -> {"out", "wait", "woken"}]
    /\ timed \in SUBSET Users
    /\ taken \in [Users -> SUBSET Data]
    /\ heap \in [Data -> HeapStates]

QInit ==
    /\ items = <<>> /\ is_destroyed = FALSE /\ freed = FALSE
    /\ where = [t \in Users |-> "out"]
    /\ timed = {}
    /\ taken = [t \in Users |-> {}]
    /\ heap = [d \in Data |-> "unused"]

Waiting == {t \in Users : where[t] = "wait"}
Woken == {t \in Users : where[t] = "woken"}
Inside == Waiting \cup Woken

CondSignal == \/ Waiting = {} /\ UNCHANGED where
          \/ \E t \in Waiting : where' = [where EXCEPT ![t] = "woken"]
CondBroadcast == where' = [t \in Users |-> IF where[t] = "wait" THEN "woken" ELSE where[t]]

FreeBlocks(S) ==
    heap' = [d \in Data |-> IF d \notin S THEN heap[d]
                            ELSE IF heap[d] = "live" THEN "freed" ELSE "freed twice"]

(* queue_enqueue, queue_enqueue_timeout: the timeout is not used, the list  *)
(* is unbounded.  On a destroyed queue the call returns -1.                *)
InsertSilent(d) ==   \* fault: cond is not signalled
    /\ ~freed /\ ~is_destroyed
    /\ items' = Append(items, d)
    /\ UNCHANGED where

Insert(d) ==
    /\ ~freed /\ ~is_destroyed
    /\ items' = Append(items, d)
    /\ CondSignal

Enqueue(d) == Insert(d) /\ UNCHANGED <<is_destroyed, freed, timed, taken, heap>>

(***************************************************************************)
(* queue_dequeue, queue_dequeue_timeout.  NULL without waiting (timeout 0, *)
(* or a destroyed queue) changes nothing.                                  *)
(***************************************************************************)
TakeFront(t) ==
    /\ items # <<>> /\ ~is_destroyed
    /\ taken' = [taken EXCEPT ![t] = {Head(items)}]
    /\ items' = Tail(items)
    /\ where' = [where EXCEPT ![t] = "out"]
    /\ timed' = timed \ {t}
    /\ UNCHANGED <<is_destroyed, freed, heap>>

Dequeue(t) == where[t] = "out" /\ ~freed /\ TakeFront(t)

DequeueWaits(t) ==
    /\ where[t] = "out" /\ ~freed
    /\ items = <<>> /\ ~is_destroyed
    /\ where' = [where EXCEPT ![t] = "wait"]
    /\ \E deadline \in BOOLEAN : timed' = IF deadline THEN timed \cup {t} ELSE timed \ {t}
    /\ UNCHANGED <<items, is_destroyed, freed, taken, heap>>

ReturnNull(t) ==
    /\ where' = [where EXCEPT ![t] = "out"]
    /\ timed' = timed \ {t}
    /\ UNCHANGED <<items, is_destroyed, freed, taken, heap>>

ResumesLate(t) ==   \* fault: a thread with a deadline does not look at the list again
    /\ where[t] = "woken" /\ ~freed
    /\ IF t \in timed \/ is_destroyed THEN ReturnNull(t) ELSE TakeFront(t)

DequeueResumes(t) ==
    /\ where[t] = "woken" /\ ~freed
    /\ \/ TakeFront(t)
       \/ /\ items = <<>> /\ ~is_destroyed
          /\ where' = [where EXCEPT ![t] = "wait"]
          /\ UNCHANGED <<items, is_destroyed, freed, timed, taken, heap>>
       \/ is_destroyed /\ ReturnNull(t)

(* A woken thread that gets to run after the free locks a mutex that is no  *)
(* more.  It may return NULL (the lock fails, or is_destroyed still reads   *)
(* true) or never return: no fairness is assumed of this step.             *)
DequeueUsesFreed(t) == where[t] = "woken" /\ freed /\ ReturnNull(t)

DequeueTimesOut(t) == where[t] = "wait" /\ t \in timed /\ ReturnNull(t)

WakesSpuriously(t) ==
    /\ where[t] = "wait"
    /\ where' = [where EXCEPT ![t] = "woken"]
    /\ UNCHANGED <<items, is_destroyed, freed, timed, taken, heap>>

(* queue_remove_wildcard: the matching elements leave the list and belong to*)
(* the caller; the others stay, in their order.                            *)
Keeps(removed) ==
    LET kept == {i \in DOMAIN items : items[i] \notin removed} IN
    \E at \in [1 .. Cardinality(kept) -> kept] :
        /\ \A i, j \in DOMAIN at : i < j => at[i] < at[j]
        /\ items' = [i \in DOMAIN at |-> items[at[i]]]

RemoveWildcard(t, matches) ==
    /\ ~freed
    /\ LET removed == matches \cap ToSet(items) IN
       /\ removed # {}
       /\ taken' = [taken EXCEPT ![t] = removed]
       /\ Keeps(removed)
    /\ CondSignal
    /\ UNCHANGED <<is_destroyed, freed, timed, heap>>

(* queue_clear frees the data, not only the nodes. *)
Clear ==
    /\ ~freed
    /\ items' = <<>>
    /\ FreeBlocks(ToSet(items))
    /\ UNCHANGED <<is_destroyed, freed, where, timed, taken>>

DestroyMarkKeepsData ==   \* fault: the remaining nodes are dropped, not freed
    /\ ~is_destroyed
    /\ is_destroyed' = TRUE
    /\ CondBroadcast
    /\ items' = <<>>
    /\ UNCHANGED <<freed, timed, taken, heap>>

(* queue_destroy: flag, broadcast and clear under the mutex, then the mutex *)
(* and the queue are gone, whoever is still in queue_dequeue.              *)
DestroyMark ==
    /\ ~is_destroyed
    /\ is_destroyed' = TRUE
    /\ CondBroadcast
    /\ items' = <<>>
    /\ FreeBlocks(ToSet(items))
    /\ UNCHANGED <<freed, timed, taken>>

DestroyFree ==
    /\ is_destroyed /\ ~freed
    /\ freed' = TRUE
    /\ UNCHANGED <<items, is_destroyed, where, timed, taken, heap>>

(***************************************************************************)
(* Clients: a thread allocates a block and enqueues it, and frees what it  *)
(* took before it asks for more.  No call begins once the queue is freed.  *)
(***************************************************************************)
Produce(d) ==
    /\ heap[d] = "unused"
    /\ Insert(d)
    /\ heap' = [heap EXCEPT ![d] = "live"]
    /\ UNCHANGED <<is_destroyed, freed, timed, taken>>

Release(t) ==
    /\ taken[t] # {}
    /\ FreeBlocks(taken[t])
    /\ taken' = [taken EXCEPT ![t] = {}]
    /\ UNCHANGED <<items, is_destroyed, freed, where, timed>>

QNext ==
    \/ \E d \in Data : Produce(d)
    \/ \E t \in Users :
          \/ taken[t] = {} /\ (Dequeue(t) \/ DequeueWaits(t))
          \/ DequeueResumes(t) \/ DequeueUsesFreed(t)
          \/ DequeueTimesOut(t) \/ WakesSpuriously(t)
          \/ taken[t] = {} /\ t \notin Inside /\ \E matches \in SUBSET Data : RemoveWildcard(t, matches)
          \/ Release(t)
    \/ items # <<>> /\ Clear
    \/ DestroyMark
    \/ DestroyFree

QSpec == QInit /\ [][QNext]_qVars

(* A thread that has been woken gets the mutex and looks at the list.      *)
QFairness == \A t \in Users : WF_qVars(DequeueResumes(t))
QFairSpec == QSpec /\ QFairness
-----------------------------------------------------------------------------
(* One signal per enqueue is enough, whatever dequeues, times out or removes*)
(* in between: sleeping threads leave no element without a woken thread,    *)
(* and none sleeps on a queue that queue_destroy has marked.               *)
NoLostWakeup == Waiting # {} => ~is_destroyed /\ Len(items) <= Cardinality(Woken)

(* The queue takes over what it is given: a block is live exactly while one *)
(* of the list and the threads has it, and is never freed twice.           *)
Owners(d) == Cardinality({i \in 1 .. Len(items) : items[i] = d})
             + Cardinality({t \in Users : d \in taken[t]})
DataOwnedOnce ==
    \A d \in Data : heap[d] # "freed twice" /\ Owners(d) = IF heap[d] = "live" THEN 1 ELSE 0

(* No element is left behind: while a thread is in queue_dequeue, with or   *)
(* without a deadline, the front element is taken in the end, however many  *)
(* threads time out, overtake or remove.                                   *)
FrontIsTaken ==
    \A d \in Data : (items # <<>> /\ Head(items) = d /\ Inside # {})
                     ~> (d \notin ToSet(items) \/ Inside = {})
=============================================================================
