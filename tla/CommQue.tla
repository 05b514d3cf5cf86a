------------------------------ MODULE CommQue ------------------------------
(***************************************************************************)
(* The slot pool of src/common/comm_que.c: one ring of MaxCount slots, a   *)
(* write cursor that hands out empty slots, a read cursor that hands out   *)
(* full ones, and two counters.  A client takes a slot with GetEmpty or    *)
(* GetFull, works on it outside the mutex, and gives it back with one of   *)
(* the Put operations.                                                     *)
(*                                                                         *)
(* Every critical section of the code is one action.  A thread that blocks *)
(* in pthread_cond_(timed)wait leaves the critical section, so waiting and *)
(* being signalled (woken, mutex not yet re-acquired) are states of the    *)
(* thread, and other threads run in between.                               *)
(***************************************************************************)
EXTENDS Integers, FiniteSets

CONSTANTS Producers,      \* threads that call GetEmpty
          Consumers,      \* threads that call GetFull and PeekFull
          MaxCount,       \* number of slots (maxCount)
          SleepSuffices   \* TRUE: the 5 ms sleep of CommQue_Delete outlasts
                          \* every thread that still has to leave the queue

ASSUME CommQueAssumption ==
    /\ MaxCount \in Nat \ {0}
    /\ IsFiniteSet(Producers) /\ IsFiniteSet(Consumers)
    /\ Producers \cap Consumers = {}
    /\ SleepSuffices \in BOOLEAN

Threads == Producers \cup Consumers
Slots == 0 .. MaxCount - 1
NoSlot == -1

VARIABLES write, read, fullCount, emptyCount, isDestroyed,
          freed,   \* CommQue_Delete has destroyed the mutex and freed the buffer
          pc,      \* where each thread is
          slot,    \* the slot a thread has been handed, or NoSlot
          timed    \* the threads whose current wait has a deadline

que  == <<write, read, fullCount, emptyCount>>
vars == <<write, read, fullCount, emptyCount, isDestroyed, freed, pc, slot, timed>>

PcValues == {"idle", "waitEmpty", "wokenEmpty", "waitFull", "wokenFull",
             "holdEmpty", "holdFull", "peek"}

At(where) == {t \in Threads : pc[t] = where}
HeldEmpty == At("holdEmpty")      \* threads filling a slot
HeldFull  == At("holdFull")       \* threads consuming a slot
InQueue   == At("waitEmpty") \cup At("wokenEmpty") \cup At("waitFull") \cup At("wokenFull")

TypeOK ==
    /\ write \in Slots /\ read \in Slots
    /\ fullCount \in Nat /\ emptyCount \in Nat
    /\ isDestroyed \in BOOLEAN /\ freed \in BOOLEAN
    /\ pc \in [Threads -> PcValues]
    /\ slot \in [Threads -> Slots \cup {NoSlot}]
    /\ timed \in SUBSET Threads

Init ==
    /\ write = 0 /\ read = 0
    /\ fullCount = 0 /\ emptyCount = MaxCount
    /\ isDestroyed = FALSE /\ freed = FALSE
    /\ pc = [t \in Threads |-> "idle"]
    /\ slot = [t \in Threads |-> NoSlot]
    /\ timed = {}

(***************************************************************************)
(* pthread_cond_signal and pthread_cond_broadcast: p is pc with the        *)
(* caller's own move already made.                                         *)
(***************************************************************************)
Signal(p, waiting, woken) ==
    LET W == {t \in Threads : p[t] = waiting}
    IN  \/ W = {} /\ pc' = p
        \/ \E w \in W : pc' = [p EXCEPT ![w] = woken]

Broadcast(p, waiting, woken) ==
    [t \in Threads |-> IF p[t] = waiting THEN woken ELSE p[t]]

(* Blocking in the wait loop, with or without a deadline. *)
Block(t, where, hasDeadline) ==
    /\ pc' = [pc EXCEPT ![t] = where]
    /\ timed' = IF hasDeadline THEN timed \cup {t} ELSE timed \ {t}
    /\ UNCHANGED <<que, isDestroyed, freed, slot>>

(* The call returns NULL: after ETIMEDOUT, or because the queue is destroyed. *)
ReturnNull(t) ==
    /\ pc' = [pc EXCEPT ![t] = "idle"]
    /\ timed' = timed \ {t}
    /\ UNCHANGED <<que, isDestroyed, freed, slot>>

(***************************************************************************)
(* CommQue_GetEmpty.  A NULL returned at once (timeout NONE, or a destroyed*)
(* queue) changes nothing and is a stuttering step.                        *)
(***************************************************************************)
TakeEmpty(t) ==
    /\ emptyCount > 0 /\ ~isDestroyed
    /\ slot' = [slot EXCEPT ![t] = write]
    /\ write' = (write + 1) % MaxCount
    /\ emptyCount' = emptyCount - 1
    /\ pc' = [pc EXCEPT ![t] = "holdEmpty"]
    /\ timed' = timed \ {t}
    /\ UNCHANGED <<read, fullCount, isDestroyed, freed>>

GetEmpty(t) ==
    /\ pc[t] = "idle" /\ ~freed
    /\ \/ TakeEmpty(t)
       \/ /\ emptyCount = 0 /\ ~isDestroyed
          /\ \E hasDeadline \in BOOLEAN : Block(t, "waitEmpty", hasDeadline)

ResumeEmpty(t) ==
    /\ pc[t] = "wokenEmpty" /\ ~freed
    /\ \/ TakeEmpty(t)
       \/ emptyCount = 0 /\ ~isDestroyed /\ Block(t, "waitEmpty", t \in timed)
       \/ isDestroyed /\ ReturnNull(t)

(* CommQue_GetFull, the mirror image on the read cursor. *)
TakeFullFreesSlot(t) ==   \* fault: the slot counts as empty while it is still being read
    /\ fullCount > 0 /\ ~isDestroyed
    /\ slot' = [slot EXCEPT ![t] = read]
    /\ read' = (read + 1) % MaxCount
    /\ fullCount' = fullCount - 1 /\ emptyCount' = emptyCount + 1
    /\ pc' = [pc EXCEPT ![t] = "holdFull"]
    /\ timed' = timed \ {t}
    /\ UNCHANGED <<write, isDestroyed, freed>>

TakeFull(t) ==
    /\ fullCount > 0 /\ ~isDestroyed
    /\ slot' = [slot EXCEPT ![t] = read]
    /\ read' = (read + 1) % MaxCount
    /\ fullCount' = fullCount - 1
    /\ pc' = [pc EXCEPT ![t] = "holdFull"]
    /\ timed' = timed \ {t}
    /\ UNCHANGED <<write, emptyCount, isDestroyed, freed>>

GetFull(t) ==
    /\ pc[t] = "idle" /\ ~freed
    /\ \/ TakeFull(t)
       \/ /\ fullCount = 0 /\ ~isDestroyed
          /\ \E hasDeadline \in BOOLEAN : Block(t, "waitFull", hasDeadline)

ResumeFull(t) ==
    /\ pc[t] = "wokenFull" /\ ~freed
    /\ \/ TakeFull(t)
       \/ fullCount = 0 /\ ~isDestroyed /\ Block(t, "waitFull", t \in timed)
       \/ isDestroyed /\ ReturnNull(t)

(* pthread_cond_timedwait returns ETIMEDOUT: NULL, the counter is not looked at again. *)
WaitTimesOut(t) ==
    /\ pc[t] \in {"waitEmpty", "waitFull"} /\ t \in timed
    /\ ReturnNull(t)

(* POSIX lets a condition wait return without a signal. *)
SpuriousWakeup(t) ==
    /\ \/ pc[t] = "waitEmpty" /\ pc' = [pc EXCEPT ![t] = "wokenEmpty"]
       \/ pc[t] = "waitFull" /\ pc' = [pc EXCEPT ![t] = "wokenFull"]
    /\ UNCHANGED <<que, isDestroyed, freed, slot, timed>>

(***************************************************************************)
(* CommQue_PeekFull: the pointer is used after the mutex is released, until*)
(* the thread is done with it.                                             *)
(***************************************************************************)
PeekFull(t) ==
    /\ pc[t] = "idle" /\ ~freed
    /\ fullCount > 0 /\ ~isDestroyed
    /\ pc' = [pc EXCEPT ![t] = "peek"]
    /\ slot' = [slot EXCEPT ![t] = read]
    /\ UNCHANGED <<que, isDestroyed, freed, timed>>

PeekDone(t) ==
    /\ pc[t] = "peek"
    /\ pc' = [pc EXCEPT ![t] = "idle"]
    /\ slot' = [slot EXCEPT ![t] = NoSlot]
    /\ UNCHANGED <<que, isDestroyed, freed, timed>>

(***************************************************************************)
(* The Put operations.  None of them looks at the element it is given, and *)
(* only the Front variants look at isDestroyed.                            *)
(***************************************************************************)
GiveBack(t, waiting, woken) ==
    /\ Signal([pc EXCEPT ![t] = "idle"], waiting, woken)
    /\ slot' = [slot EXCEPT ![t] = NoSlot]
    /\ UNCHANGED <<isDestroyed, freed, timed>>

PutFullSilent(t) ==   \* fault: cond_full is not signalled
    /\ pc[t] = "holdEmpty" /\ ~freed
    /\ fullCount' = fullCount + 1
    /\ pc' = [pc EXCEPT ![t] = "idle"]
    /\ slot' = [slot EXCEPT ![t] = NoSlot]
    /\ UNCHANGED <<write, read, emptyCount, isDestroyed, freed, timed>>

PutFull(t) ==
    /\ pc[t] = "holdEmpty" /\ ~freed
    /\ fullCount' = fullCount + 1
    /\ GiveBack(t, "waitFull", "wokenFull")
    /\ UNCHANGED <<write, read, emptyCount>>

PutEmpty(t) ==
    /\ pc[t] = "holdFull" /\ ~freed
    /\ emptyCount' = emptyCount + 1
    /\ GiveBack(t, "waitEmpty", "wokenEmpty")
    /\ UNCHANGED <<write, read, fullCount>>

PutFullFrontForgetsRead(t) ==   \* fault: the read cursor stays where it is
    /\ pc[t] \in {"holdEmpty", "holdFull"} /\ ~freed
    /\ fullCount < MaxCount /\ ~isDestroyed
    /\ fullCount' = fullCount + 1
    /\ GiveBack(t, "waitFull", "wokenFull")
    /\ UNCHANGED <<write, read, emptyCount>>

PutFullFront(t) ==
    /\ pc[t] \in {"holdEmpty", "holdFull"} /\ ~freed
    /\ fullCount < MaxCount /\ ~isDestroyed
    /\ read' = (read + MaxCount - 1) % MaxCount
    /\ fullCount' = fullCount + 1
    /\ GiveBack(t, "waitFull", "wokenFull")
    /\ UNCHANGED <<write, emptyCount>>

PutEmptyFrontForgetsWrite(t) ==   \* fault: the write cursor stays where it is
    /\ pc[t] \in {"holdEmpty", "holdFull"} /\ ~freed
    /\ emptyCount < MaxCount /\ ~isDestroyed
    /\ emptyCount' = emptyCount + 1
    /\ GiveBack(t, "waitEmpty", "wokenEmpty")
    /\ UNCHANGED <<write, read, fullCount>>

PutEmptyFront(t) ==
    /\ pc[t] \in {"holdEmpty", "holdFull"} /\ ~freed
    /\ emptyCount < MaxCount /\ ~isDestroyed
    /\ write' = (write + MaxCount - 1) % MaxCount
    /\ emptyCount' = emptyCount + 1
    /\ GiveBack(t, "waitEmpty", "wokenEmpty")
    /\ UNCHANGED <<read, fullCount>>

(* CommQue_Clear: only cond_empty is broadcast. *)
ClearSilent ==   \* fault: cond_empty is not broadcast
    /\ ~freed
    /\ write' = 0 /\ read' = 0
    /\ fullCount' = 0 /\ emptyCount' = MaxCount
    /\ UNCHANGED <<isDestroyed, freed, pc, slot, timed>>

Clear ==
    /\ ~freed
    /\ write' = 0 /\ read' = 0
    /\ fullCount' = 0 /\ emptyCount' = MaxCount
    /\ pc' = Broadcast(pc, "waitEmpty", "wokenEmpty")
    /\ UNCHANGED <<isDestroyed, freed, slot, timed>>

(***************************************************************************)
(* CommQue_Delete: the flag and the two broadcasts are one critical        *)
(* section; after a 5 ms sleep the mutex and the buffer go.                *)
(***************************************************************************)
DeleteMarkHalf ==   \* fault: only the consumers are woken
    /\ ~isDestroyed
    /\ isDestroyed' = TRUE
    /\ pc' = Broadcast(pc, "waitFull", "wokenFull")
    /\ UNCHANGED <<que, freed, slot, timed>>

DeleteMark ==
    /\ ~isDestroyed
    /\ isDestroyed' = TRUE
    /\ pc' = Broadcast(Broadcast(pc, "waitFull", "wokenFull"), "waitEmpty", "wokenEmpty")
    /\ UNCHANGED <<que, freed, slot, timed>>

DeleteFree ==
    /\ isDestroyed /\ ~freed
    /\ SleepSuffices => InQueue = {}
    /\ freed' = TRUE
    /\ UNCHANGED <<que, isDestroyed, pc, slot, timed>>

(***************************************************************************)
(* How clients use the queue.  Producers fill empty slots, consumers       *)
(* release full ones, and the queue is cleared while no slot is out.       *)
(***************************************************************************)
NoSlotOut == \A t \in Threads : slot[t] = NoSlot

GetPutNext ==
    \/ \E t \in Producers : GetEmpty(t) \/ ResumeEmpty(t) \/ PutFull(t)
    \/ \E t \in Consumers : GetFull(t) \/ ResumeFull(t) \/ PutEmpty(t)
    \/ \E t \in Consumers : PeekFull(t) \/ PeekDone(t)
    \/ \E t \in Threads : WaitTimesOut(t) \/ SpuriousWakeup(t)
    \/ NoSlotOut /\ Clear
    \/ DeleteMark \/ DeleteFree

(* The Front operations as an undo: an unused slot goes back to the queue it *)
(* came from.                                                              *)
UndoNext == \/ \E t \in HeldEmpty : PutEmptyFront(t)
            \/ \E t \in HeldFull : PutFullFront(t)

Next == GetPutNext \/ UndoNext
Spec == Init /\ [][Next]_vars

(* A woken thread gets the mutex, a slot that is out comes back, and the    *)
(* consumers keep asking for messages.                                     *)
Fairness ==
    /\ \A t \in Threads : WF_vars(ResumeEmpty(t)) /\ WF_vars(ResumeFull(t))
    /\ \A t \in Producers : SF_vars(PutFull(t))
    /\ \A t \in Consumers : SF_vars(GetFull(t)) /\ SF_vars(PutEmpty(t)) /\ WF_vars(PeekDone(t))

FairSpec == Spec /\ Fairness

(* No Front operation at all.                                              *)
GetPutSpec == Init /\ [][GetPutNext]_vars
-----------------------------------------------------------------------------
(***************************************************************************)
(* Properties.                                                             *)
(***************************************************************************)

(* Every slot is counted exactly once: as full, as empty, or as held by a  *)
(* thread between a Get and its Put (fullCount and emptyCount are changed  *)
(* in different critical sections of different threads).                   *)
SlotConservation ==
    fullCount + emptyCount + Cardinality(HeldEmpty) + Cardinality(HeldFull) = MaxCount

(* The cursors agree with the counters: from read to write lie the full    *)
(* slots and those being filled.  The code never compares them.            *)
CursorsAgree ==
    \E wraps \in {0, MaxCount} : write + wraps = read + fullCount + Cardinality(HeldEmpty)

(* One signal per Put is enough: while a thread sleeps on a condition that *)
(* holds, as many threads as there are slots have been woken for them.     *)
NoLostWakeup ==
    /\ At("waitFull") # {} => fullCount <= Cardinality(At("wokenFull"))
    /\ At("waitEmpty") # {} => emptyCount <= Cardinality(At("wokenEmpty"))

(* No two threads work on the same slot: what GetFull or PeekFull returns  *)
(* is neither being filled by a producer nor read by another consumer.     *)
SlotExclusive ==
    \A t, u \in Threads : t # u /\ slot[t] # NoSlot => slot[t] # slot[u]

(* CommQue_Delete releases every thread blocked in the queue, FOREVER waits *)
(* included; and a producer blocked FOREVER for an empty slot gets one, or  *)
(* the queue is deleted, as long as the consumer keeps taking and releasing. *)
WaitersServed ==
    /\ isDestroyed ~> InQueue = {}
    /\ \A t \in Producers :
            (pc[t] = "waitEmpty" /\ t \notin timed) ~> (t \in HeldEmpty \/ isDestroyed)

(* With one producer and one consumer the ring keeps the promise of the two *)
(* slot queues: each Put enqueues the very slot it was given.              *)
SlotsOf(t, holders) == IF t \in holders THEN {slot[t]} ELSE {}
Pool == INSTANCE SlotPool WITH
            Capacity  <- MaxCount,
            emptyQ    <- [i \in 1 .. emptyCount |-> (write + i - 1) % MaxCount],
            fullQ     <- [i \in 1 .. fullCount |-> (read + i - 1) % MaxCount],
            filling   <- [t \in Threads |-> SlotsOf(t, HeldEmpty)],
            consuming <- [t \in Threads |-> SlotsOf(t, HeldFull)]
ImplementsSlotPool == Pool!PoolSpec
=============================================================================
