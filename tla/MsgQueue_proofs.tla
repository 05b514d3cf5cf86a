------------------------- MODULE MsgQueue_proofs -------------------------
(***************************************************************************)
(* Proofs about MsgQueue for every number of slots and bodies; except for  *)
(* the types, with one sender and one receiver, since two senders can make *)
(* a receiver read a slot that is still being filled.                      *)
(***************************************************************************)
EXTENDS MsgQueue, Sequences, SequenceTheorems, FiniteSetTheorems, TLAPS

Single(s, r) == Senders = {s} /\ Receivers = {r}

Takers == Receivers \cup {Owner}
Holding(t) == IF pc[t] \in {"holdEmpty", "holdFull"} THEN 1 ELSE 0
Nth(j) == (read + j) % MaxMsgs         \* the slot of the j-th full message

(* Where the threads are.  Once msg_queue_destroy has been called the      *)
(* sender is out of the queue, and the receiver either too or asleep on an *)
(* empty queue; so the owner is alone when it takes messages.              *)
Places(s, r) ==
    /\ pc[s] \in {"idle", "waitEmpty", "wokenEmpty", "holdEmpty"}
    /\ pc[r] \in {"idle", "waitFull", "wokenFull", "holdFull"}
    /\ pc[Owner] \in {"idle", "holdFull"}
    /\ pc[Owner] = "holdFull" => destroying /\ pc[r] = "idle"
    /\ destroying => /\ pc[s] = "idle"
                     /\ pc[r] = "idle" \/ (pc[r] \in {"waitFull", "wokenFull"} /\ fullCount = 0)
    /\ isDestroyed => destroying /\ fullCount = 0 /\ pc[Owner] = "idle"
    /\ freed => isDestroyed

(* Behind the read cursor lies the slot that is being read, before the     *)
(* write cursor the one that is being filled, and between them the queue.  *)
Window(s, r) ==
    /\ fullCount + emptyCount + Holding(s) + Holding(r) + Holding(Owner) = MaxMsgs
    /\ write = Nth(fullCount + Holding(s))
    /\ pc[s] = "holdEmpty" => slot[s] = Nth(fullCount)
    /\ \A t \in Takers : pc[t] = "holdFull" => slot[t] = Nth(MaxMsgs - 1)

(* What is in the queue is complete and allocated, and in it once. *)
QueueFilled ==
    /\ \A i \in 0 .. fullCount - 1 : LET m == pool[Nth(i)] IN m.body = m.rest /\ m.body \in live
    /\ \A i, j \in 0 .. fullCount - 1 : pool[Nth(i)].body = pool[Nth(j)].body => i = j

(* The body a sender has is its own, and what it has copied of the message *)
(* is in its slot.                                                         *)
SenderOwns(s) ==
    /\ outgoing[s] = NoBody <=> pc[s] = "idle"
    /\ outgoing[s] # NoBody => /\ outgoing[s] \in live
                               /\ \A i \in 0 .. fullCount - 1 : pool[Nth(i)].body # outgoing[s]
    /\ copied[s] > 0 => pc[s] = "holdEmpty" /\ pool[slot[s]].body = outgoing[s]
    /\ copied[s] = 2 => pool[slot[s]].rest = outgoing[s]

(* So is the body of a message that was received and not yet read. *)
TakerOwns(s) ==
    \A t \in unread :
        /\ pc[t] = "holdFull"
        /\ LET m == pool[slot[t]] IN
           /\ m.body = m.rest /\ m.body \in live /\ m.body # outgoing[s]
           /\ \A i \in 0 .. fullCount - 1 : pool[Nth(i)].body # m.body

(* And no allocated body is without an owner. *)
NothingLeaks(s) ==
    \A b \in live : \/ outgoing[s] = b
                    \/ \E i \in 0 .. fullCount - 1 : pool[Nth(i)].body = b
                    \/ \E t \in unread : pool[slot[t]].body = b

(* The inductive invariant. *)
IInv(s, r) ==
    /\ TypeOK /\ Places(s, r) /\ Window(s, r)
    /\ QueueFilled /\ SenderOwns(s) /\ TakerOwns(s) /\ NothingLeaks(s)
-----------------------------------------------------------------------------
LEMMA Remainder ==
    ASSUME NEW n \in Nat
    PROVE  n % MaxMsgs \in 0 .. MaxMsgs - 1
  BY MsgQueueAssumption DEF MsgQueueAssumption

(* Types.  They need no hypothesis on the number of senders and receivers. *)
LEMMA GetsType ==
    ASSUME Q!TypeOK, NEW t \in Q!Threads,
           Q!GetEmpty(t) \/ Q!ResumeEmpty(t) \/ Q!GetFull(t) \/ Q!TakeFull(t) \/ Q!ResumeFull(t)
    PROVE  Q!TypeOK'
  <1>0. (write + 1) % MaxMsgs \in Q!Slots /\ (read + 1) % MaxMsgs \in Q!Slots
    BY Remainder, MsgQueueAssumption DEF Q!TypeOK, Q!Slots, MsgQueueAssumption
  <1>1. CASE Q!TakeEmpty(t)
    BY <1>0, <1>1 DEF Q!TypeOK, Q!TakeEmpty, Q!PcValues
  <1>2. CASE Q!TakeFull(t)
    BY <1>0, <1>2 DEF Q!TypeOK, Q!TakeFull, Q!PcValues
  <1>3. CASE \E x \in {"waitEmpty", "waitFull"} : \E d : Q!Block(t, x, d)
    BY <1>3 DEF Q!TypeOK, Q!Block, Q!que, Q!PcValues
  <1>4. CASE Q!ReturnNull(t)
    BY <1>4 DEF Q!TypeOK, Q!ReturnNull, Q!que, Q!PcValues
  <1> QED
    BY <1>1, <1>2, <1>3, <1>4 DEF Q!GetEmpty, Q!ResumeEmpty, Q!GetFull, Q!ResumeFull

LEMMA PutsType ==
    ASSUME Q!TypeOK, NEW t \in Q!Threads, Q!PutFull(t) \/ Q!PutEmpty(t)
    PROVE  Q!TypeOK'
  <1>1. ASSUME NEW x, NEW y \in Q!PcValues, Q!Signal([pc EXCEPT ![t] = "idle"], x, y)
        PROVE  pc' \in [Q!Threads -> Q!PcValues]
    BY <1>1 DEF Q!TypeOK, Q!Signal, Q!PcValues
  <1>2. pc' \in [Q!Threads -> Q!PcValues]
    BY <1>1 DEF Q!PutFull, Q!PutEmpty, Q!GiveBack, Q!PcValues
  <1>3. UNCHANGED <<write, read, isDestroyed, freed, timed>> /\ slot' = [slot EXCEPT ![t] = -1]
    BY DEF Q!PutFull, Q!PutEmpty, Q!GiveBack, Q!NoSlot
  <1>4. fullCount' \in Nat /\ emptyCount' \in Nat
    BY DEF Q!TypeOK, Q!PutFull, Q!PutEmpty
  <1> QED
    BY <1>2, <1>3, <1>4 DEF Q!TypeOK, Q!NoSlot

LEMMA OthersType ==
    ASSUME Q!TypeOK,
           \/ \E t \in Q!Threads : Q!WaitTimesOut(t) \/ Q!SpuriousWakeup(t)
           \/ Q!DeleteMark \/ Q!DeleteFree
    PROVE  Q!TypeOK'
  <1>1. ASSUME NEW t \in Q!Threads, Q!WaitTimesOut(t) \/ Q!SpuriousWakeup(t)
        PROVE  Q!TypeOK'
    BY <1>1 DEF Q!TypeOK, Q!WaitTimesOut, Q!SpuriousWakeup, Q!ReturnNull, Q!que, Q!PcValues
  <1>2. CASE Q!DeleteMark
    BY <1>2 DEF Q!TypeOK, Q!DeleteMark, Q!Broadcast, Q!que, Q!PcValues
  <1>3. CASE Q!DeleteFree
    BY <1>3 DEF Q!TypeOK, Q!DeleteFree, Q!que
  <1> QED
    BY <1>1, <1>2, <1>3

LEMMA SendType ==
    ASSUME TypeOK, NEW t \in Senders, SendStep(t)
    PROVE  TypeOK'
  <1>1. Q!TypeOK /\ t \in Q!Threads
    BY DEF TypeOK, Q!Threads
  <1>2. CASE \E b \in Bodies : SendBegins(t, b)
    <2>1. PICK b \in Bodies : SendBegins(t, b)
      BY <1>2
    <2>2. Q!TypeOK'
      BY <1>1, <2>1, GetsType DEF SendBegins
    <2> QED
      BY <2>1, <2>2 DEF TypeOK, SendBegins
  <1>3. CASE SendFails(t)
    <2>1. Q!TypeOK'
      BY <1>1, <1>3, GetsType, OthersType DEF SendFails
    <2> QED
      BY <1>3, <2>1 DEF TypeOK, SendFails
  <1>4. CASE SendResumes(t)
    <2>1. Q!TypeOK'
      BY <1>1, <1>4, GetsType DEF SendResumes
    <2> QED
      BY <1>4, <2>1 DEF TypeOK, SendResumes, msgVars
  <1>5. CASE SendCopies(t)
    <2>1. Q!TypeOK'
      BY <1>1, <1>5 DEF SendCopies, queVars, Q!TypeOK
    <2>2. copied' \in [Senders -> 0 .. 2]
      BY <1>5 DEF TypeOK, SendCopies
    <2>3. pool' \in [Q!Slots -> [body : Bodies \cup {NoBody}, rest : Bodies \cup {NoBody}]]
      BY <1>5 DEF TypeOK, SendCopies
    <2> QED
      BY <1>5, <2>1, <2>2, <2>3 DEF TypeOK, SendCopies
  <1>6. CASE SendPuts(t)
    <2>1. Q!TypeOK'
      BY <1>1, <1>6, PutsType DEF SendPuts
    <2> QED
      BY <1>6, <2>1 DEF TypeOK, SendPuts
  <1> QED
    BY <1>2, <1>3, <1>4, <1>5, <1>6 DEF SendStep

LEMMA ReceiveType ==
    ASSUME TypeOK, NEW t \in Receivers, ReceiveStep(t)
    PROVE  TypeOK'
  <1>1. Q!TypeOK /\ t \in Q!Threads
    BY DEF TypeOK, Q!Threads
  <1>2. CASE ReceiveBegins(t)
    <2>1. Q!TypeOK'
      BY <1>1, <1>2, GetsType DEF ReceiveBegins
    <2> QED
      BY <1>2, <2>1 DEF TypeOK, ReceiveBegins
  <1>3. CASE ReceiveResumes(t)
    <2>1. Q!TypeOK'
      BY <1>1, <1>3, GetsType, OthersType DEF ReceiveResumes
    <2> QED
      BY <1>3, <2>1 DEF TypeOK, ReceiveResumes
  <1>4. CASE Consume(t)
    <2>1. Q!TypeOK'
      BY <1>1, <1>4 DEF Consume, queVars, Q!TypeOK
    <2> QED
      BY <1>4, <2>1 DEF TypeOK, Consume
  <1>5. CASE Release(t)
    <2>1. Q!TypeOK'
      BY <1>1, <1>5, PutsType DEF Release
    <2> QED
      BY <1>5, <2>1 DEF TypeOK, Release, msgVars
  <1> QED
    BY <1>2, <1>3, <1>4, <1>5 DEF ReceiveStep

LEMMA DestroyType ==
    ASSUME TypeOK, DestroyBegins \/ DestroyStep
    PROVE  TypeOK'
  <1>1. Q!TypeOK /\ Owner \in Q!Threads
    BY DEF TypeOK, Q!Threads
  <1>2. CASE DestroyBegins
    <2>1. Q!TypeOK'
      BY <1>1, <1>2 DEF DestroyBegins, queVars, Q!TypeOK
    <2> QED
      BY <1>2, <2>1 DEF TypeOK, DestroyBegins
  <1>3. CASE DrainTakes
    <2>1. Q!TypeOK'
      BY <1>1, <1>3, GetsType DEF DrainTakes
    <2> QED
      BY <1>3, <2>1 DEF TypeOK, DrainTakes
  <1>4. CASE DrainFrees
    <2>1. Q!TypeOK'
      BY <1>1, <1>4 DEF DrainFrees, queVars, Q!TypeOK
    <2>2. pool' \in [Q!Slots -> [body : Bodies \cup {NoBody}, rest : Bodies \cup {NoBody}]]
      BY <1>4 DEF TypeOK, DrainFrees
    <2> QED
      BY <1>4, <2>1, <2>2 DEF TypeOK, DrainFrees
  <1>5. CASE DrainPuts
    <2>1. Q!TypeOK'
      BY <1>1, <1>5, PutsType DEF DrainPuts
    <2> QED
      BY <1>5, <2>1 DEF TypeOK, DrainPuts, msgVars
  <1>6. CASE DestroyDeletes \/ DestroyFrees
    <2>1. Q!TypeOK'
      BY <1>1, <1>6, OthersType DEF DestroyDeletes, DestroyFrees
    <2> QED
      BY <1>6, <2>1 DEF TypeOK, DestroyDeletes, DestroyFrees, msgVars
  <1> QED
    BY <1>2, <1>3, <1>4, <1>5, <1>6 DEF DestroyStep

LEMMA InitType == Init => TypeOK
  <1> SUFFICES ASSUME Init PROVE TypeOK
    OBVIOUS
  <1>1. Q!Init
    BY DEF Init
  <1>2. write \in Q!Slots /\ read \in Q!Slots /\ fullCount \in Nat /\ emptyCount \in Nat
    BY <1>1, MsgQueueAssumption DEF Q!Init, Q!Slots, MsgQueueAssumption
  <1>3. pc \in [Q!Threads -> Q!PcValues] /\ slot \in [Q!Threads -> Q!Slots \cup {Q!NoSlot}]
    BY <1>1 DEF Q!Init, Q!PcValues
  <1>4. Q!TypeOK
    BY <1>1, <1>2, <1>3 DEF Q!Init, Q!TypeOK
  <1>5. BlankMsg \in [body : Bodies \cup {NoBody}, rest : Bodies \cup {NoBody}]
    BY DEF BlankMsg
  <1>6. pool \in [Q!Slots -> [body : Bodies \cup {NoBody}, rest : Bodies \cup {NoBody}]]
    BY <1>5 DEF Init
  <1>7. outgoing \in [Senders -> Bodies \cup {NoBody}] /\ copied \in [Senders -> 0 .. 2]
    BY DEF Init
  <1>8. live \in SUBSET Bodies /\ unread \in SUBSET (Receivers \cup {Owner}) /\ destroying \in BOOLEAN
    BY DEF Init
  <1> QED
    BY <1>4, <1>6, <1>7, <1>8 DEF TypeOK

LEMMA NextType == TypeOK /\ [Next]_vars => TypeOK'
  <1> SUFFICES ASSUME TypeOK, [Next]_vars PROVE TypeOK'
    OBVIOUS
  <1>1. CASE UNCHANGED vars
    BY <1>1 DEF TypeOK, Q!TypeOK, vars, queVars, msgVars
  <1>2. ASSUME NEW t \in Senders \cup Receivers, Q!SpuriousWakeup(t), UNCHANGED msgVars
        PROVE  TypeOK'
    <2>1. Q!TypeOK'
      BY <1>2, OthersType DEF TypeOK, Q!Threads
    <2> QED
      BY <1>2, <2>1 DEF TypeOK, msgVars
  <1> QED
    BY <1>1, <1>2, SendType, ReceiveType, DestroyType DEF Next

(* Every variable keeps its type: the cursors stay inside the ring and the *)
(* counters do not go below zero, with any number of senders and receivers.*)
THEOREM TypeCorrect == Spec => []TypeOK
  BY InitType, NextType, PTL DEF Spec
-----------------------------------------------------------------------------
(* The ring of slots, from the read cursor on. *)
LEMMA Ring ==
    ASSUME TypeOK
    PROVE  /\ \A j \in 0 .. MaxMsgs : Nth(j) \in Q!Slots
           /\ \A i, j \in 0 .. MaxMsgs - 1 : Nth(i) = Nth(j) => i = j
           /\ \A j \in 0 .. MaxMsgs - 1 : (Nth(j) + 1) % MaxMsgs = Nth(j + 1)
           /\ Nth(0) = read /\ Nth(MaxMsgs) = read
  <1>0. MaxMsgs \in Nat \ {0} /\ read \in 0 .. MaxMsgs - 1
    BY MsgQueueAssumption DEF MsgQueueAssumption, TypeOK, Q!TypeOK, Q!Slots
  <1>1. \A k \in 0 .. MaxMsgs - 1 : k % MaxMsgs = k /\ (k + MaxMsgs) % MaxMsgs = k
    BY <1>0
  <1>2. \A j \in 0 .. MaxMsgs : Nth(j) = IF read + j < MaxMsgs THEN read + j ELSE read + j - MaxMsgs
    <2> TAKE j \in 0 .. MaxMsgs
    <2>1. CASE read + j < MaxMsgs
      BY <1>0, <1>1, <2>1 DEF Nth
    <2>2. CASE read + j >= MaxMsgs
      <3>1. (read + j - MaxMsgs) \in 0 .. MaxMsgs - 1 /\ (read + j - MaxMsgs) + MaxMsgs = read + j
        BY <1>0, <2>2
      <3>2. (read + j) % MaxMsgs = read + j - MaxMsgs
        BY <1>1, <3>1
      <3> QED
        BY <1>0, <2>2, <3>2 DEF Nth
    <2> QED
      BY <1>0, <2>1, <2>2
  <1>3. \A k \in 0 .. MaxMsgs - 1 : (k + 1) % MaxMsgs = IF k + 1 < MaxMsgs THEN k + 1 ELSE 0
    <2> TAKE k \in 0 .. MaxMsgs - 1
    <2>1. k + 1 < MaxMsgs => k + 1 \in 0 .. MaxMsgs - 1
      BY <1>0
    <2>2. k + 1 >= MaxMsgs => k + 1 = 0 + MaxMsgs /\ 0 \in 0 .. MaxMsgs - 1
      BY <1>0
    <2> QED
      BY <1>0, <1>1, <2>1, <2>2
  <1>4. \A j \in 0 .. MaxMsgs : Nth(j) \in 0 .. MaxMsgs - 1
    BY <1>0, <1>2
  <1>5. \A i, j \in 0 .. MaxMsgs - 1 : Nth(i) = Nth(j) => i = j
    BY <1>0, <1>2
  <1>6. \A j \in 0 .. MaxMsgs - 1 : (Nth(j) + 1) % MaxMsgs = Nth(j + 1)
    BY <1>0, <1>2, <1>3, <1>4
  <1>7. Nth(0) = read /\ Nth(MaxMsgs) = read
    BY <1>0, <1>2
  <1> QED
    BY <1>4, <1>5, <1>6, <1>7 DEF Q!Slots

LEMMA RingTurns ==
    ASSUME TypeOK, TypeOK', read' = (read + 1) % MaxMsgs
    PROVE  \A j \in 0 .. MaxMsgs - 1 : Nth(j)' = Nth(j + 1)
  <1>0. MaxMsgs \in Nat \ {0} /\ read \in 0 .. MaxMsgs - 1
    BY MsgQueueAssumption DEF MsgQueueAssumption, TypeOK, Q!TypeOK, Q!Slots
  <1>1. \A k \in 0 .. MaxMsgs - 1 : k % MaxMsgs = k /\ (k + MaxMsgs) % MaxMsgs = k
    BY <1>0
  <1>2. \A a, j \in 0 .. MaxMsgs - 1 : (a + j) % MaxMsgs =
            IF a + j < MaxMsgs THEN a + j ELSE a + j - MaxMsgs
    <2> TAKE a, j \in 0 .. MaxMsgs - 1
    <2>1. CASE a + j < MaxMsgs
      BY <1>0, <1>1, <2>1
    <2>2. CASE a + j >= MaxMsgs
      <3>1. (a + j - MaxMsgs) \in 0 .. MaxMsgs - 1 /\ (a + j - MaxMsgs) + MaxMsgs = a + j
        BY <1>0, <2>2
      <3> QED
        BY <1>0, <1>1, <2>2, <3>1
    <2> QED
      BY <1>0, <2>1, <2>2
  <1>3. read' = IF read + 1 < MaxMsgs THEN read + 1 ELSE 0
    <2>1. CASE read + 1 < MaxMsgs
      BY <1>0, <1>1, <2>1
    <2>2. CASE read + 1 >= MaxMsgs
      <3>1. read + 1 = 0 + MaxMsgs /\ 0 \in 0 .. MaxMsgs - 1
        BY <1>0, <2>2
      <3> QED
        BY <1>0, <1>1, <2>2, <3>1
    <2> QED
      BY <1>0, <2>1, <2>2
  <1> TAKE j \in 0 .. MaxMsgs - 1
  <1>4. Nth(j)' = IF read' + j < MaxMsgs THEN read' + j ELSE read' + j - MaxMsgs
    <2>1. read' \in 0 .. MaxMsgs - 1
      BY <1>0, <1>3
    <2>2. (read' + j) % MaxMsgs = IF read' + j < MaxMsgs THEN read' + j ELSE read' + j - MaxMsgs
      BY <1>2, <2>1
    <2> QED
      BY <2>2 DEF Nth
  <1>5. Nth(j + 1) = IF read + (j + 1) < MaxMsgs THEN read + (j + 1) ELSE read + (j + 1) - MaxMsgs
    <2>1. CASE j + 1 < MaxMsgs
      <3> DEFINE i == j + 1
      <3>1. i \in 0 .. MaxMsgs - 1
        BY <1>0, <2>1
      <3>2. (read + i) % MaxMsgs = IF read + i < MaxMsgs THEN read + i ELSE read + i - MaxMsgs
        BY <1>0, <1>2, <3>1
      <3> QED
        BY <3>2 DEF Nth
    <2>2. CASE j + 1 = MaxMsgs
      BY <1>0, <1>1, <2>2 DEF Nth
    <2> QED
      BY <1>0, <2>1, <2>2
  <1> QED
    BY <1>0, <1>3, <1>4, <1>5

LEMMA TheThreads ==
    ASSUME NEW s, NEW r, Single(s, r)
    PROVE  /\ s \in Senders /\ r \in Receivers /\ s # r /\ s # Owner /\ r # Owner
           /\ Q!Threads = {s, r, Owner} /\ Takers = {r, Owner}
  BY MsgQueueAssumption DEF Single, MsgQueueAssumption, Q!Threads, Takers

(* What IInv says of the counters. *)
LEMMA Counters ==
    ASSUME NEW s, NEW r, Single(s, r), IInv(s, r)
    PROVE  /\ MaxMsgs \in Nat \ {0} /\ fullCount \in Nat /\ emptyCount \in Nat
           /\ fullCount + Holding(s) + emptyCount <= MaxMsgs
           /\ \A t \in Takers : pc[t] = "holdFull" => fullCount + Holding(s) + emptyCount < MaxMsgs
           /\ pc[s] = "holdEmpty" => Holding(s) = 1
           /\ pc[s] # "holdEmpty" => Holding(s) = 0
  BY TheThreads, MsgQueueAssumption
     DEF MsgQueueAssumption, IInv, TypeOK, Q!TypeOK, Places, Window, Holding

(* A step that touches no slot, cursor or message. *)
LEMMA QuietKeeps ==
    ASSUME NEW s, NEW r, Single(s, r), IInv(s, r), TypeOK', Places(s, r)',
           UNCHANGED <<write, read, fullCount, emptyCount, slot>>,
           UNCHANGED <<pool, outgoing, copied, live, unread>>,
           \A t \in {s, r, Owner} : \A x \in {"holdEmpty", "holdFull"} : pc'[t] = x <=> pc[t] = x,
           pc'[s] = "idle" <=> pc[s] = "idle"
    PROVE  IInv(s, r)'
  <1>1. \A j : Nth(j)' = Nth(j)
    BY DEF Nth
  <1>2. \A t \in {s, r, Owner} : Holding(t)' = Holding(t)
    BY DEF Holding
  <1>3. Window(s, r)'
    BY <1>1, <1>2, TheThreads DEF IInv, Window
  <1>4. QueueFilled' /\ NothingLeaks(s)'
    BY <1>1 DEF IInv, QueueFilled, NothingLeaks
  <1>5. SenderOwns(s)'
    BY <1>1 DEF IInv, SenderOwns
  <1>6. TakerOwns(s)'
    <2>1. \A t \in unread : t \in {r, Owner}
      BY TheThreads DEF IInv, TypeOK, Takers
    <2> QED
      BY <1>1, <2>1 DEF IInv, TakerOwns
  <1> QED
    BY <1>3, <1>4, <1>5, <1>6 DEF IInv

(***************************************************************************)
(* The sender.                                                             *)
(***************************************************************************)
LEMMA TakeEmptyWindow ==
    ASSUME NEW s, NEW r, Single(s, r), IInv(s, r), TypeOK', Q!TakeEmpty(s), pc[s] # "holdEmpty"
    PROVE  Window(s, r)' /\ \A u \in Takers : slot'[u] = slot[u] /\ pc'[u] = pc[u]
  <1>1. /\ emptyCount > 0 /\ slot' = [slot EXCEPT ![s] = write]
        /\ write' = (write + 1) % MaxMsgs /\ emptyCount' = emptyCount - 1
        /\ pc' = [pc EXCEPT ![s] = "holdEmpty"] /\ UNCHANGED <<read, fullCount>>
    BY DEF Q!TakeEmpty
  <1>2. TypeOK /\ Window(s, r)
    BY DEF IInv
  <1>3. /\ pc'[s] = "holdEmpty" /\ slot'[s] = write
        /\ \A u \in Takers : slot'[u] = slot[u] /\ pc'[u] = pc[u]
    BY <1>1, <1>2, TheThreads DEF TypeOK, Q!TypeOK
  <1>4. Holding(s) = 0 /\ Holding(s)' = 1 /\ \A u \in Takers : Holding(u)' = Holding(u)
    BY <1>3, Counters DEF Holding
  <1>5. \A j : Nth(j)' = Nth(j)
    BY <1>1 DEF Nth
  <1>6. fullCount \in 0 .. MaxMsgs - 1 /\ fullCount + 0 = fullCount
    BY <1>1, <1>4, Counters
  <1>7. write = Nth(fullCount)
    BY <1>2, <1>4, <1>6 DEF Window
  <1>8. write' = Nth(fullCount + 1)
    BY <1>1, <1>2, <1>6, <1>7, Ring
  <1>9. fullCount' + emptyCount' + Holding(s)' + Holding(r)' + Holding(Owner)' = MaxMsgs
    <2>1. fullCount + emptyCount + Holding(s) + Holding(r) + Holding(Owner) = MaxMsgs
      BY <1>2 DEF Window
    <2>2. Holding(r) \in Int /\ Holding(Owner) \in Int
      BY DEF Holding
    <2> QED
      BY <1>1, <1>4, <2>1, <2>2, Counters, TheThreads
  <1>10. \A t \in Takers : pc'[t] = "holdFull" => slot'[t] = Nth(MaxMsgs - 1)
    BY <1>2, <1>3 DEF Window
  <1> QED
    BY <1>1, <1>3, <1>4, <1>5, <1>7, <1>8, <1>9, <1>10 DEF Window

LEMMA SendBeginsKeeps ==
    ASSUME NEW s, NEW r, Single(s, r), IInv(s, r), ~destroying, NEW b \in Bodies, SendBegins(s, b)
    PROVE  IInv(s, r)'
  <1>1. /\ pc[s] = "idle" /\ b \notin live /\ outgoing' = [outgoing EXCEPT ![s] = b]
        /\ live' = live \cup {b} /\ UNCHANGED <<pool, copied, unread, destroying>>
        /\ UNCHANGED <<read, fullCount, isDestroyed, freed>>
        /\ \/ Q!TakeEmpty(s)
           \/ /\ pc' = [pc EXCEPT ![s] = "waitEmpty"] /\ UNCHANGED <<write, emptyCount, slot>>
    BY DEF SendBegins, Q!GetEmpty, Q!TakeEmpty, Q!Block, Q!que
  <1>2. TypeOK /\ TypeOK'
    BY TheThreads, SendType DEF IInv, SendStep
  <1>3. /\ pc'[s] \in {"waitEmpty", "holdEmpty"} /\ pc'[r] = pc[r] /\ pc'[Owner] = pc[Owner]
        /\ \A u \in Takers : slot'[u] = slot[u] /\ pc'[u] = pc[u]
    BY <1>1, <1>2, TheThreads DEF TypeOK, Q!TypeOK, Q!TakeEmpty
  <1>4. outgoing'[s] = b /\ outgoing[s] = NoBody /\ b # NoBody /\ copied[s] = 0
    BY <1>1, <1>2, TheThreads, MsgQueueAssumption
       DEF MsgQueueAssumption, TypeOK, IInv, SenderOwns
  <1>5. Places(s, r)'
    BY <1>1, <1>3 DEF IInv, Places
  <1>6. \A j : Nth(j)' = Nth(j)
    BY <1>1 DEF Nth
  <1>7. Window(s, r)'
    <2>1. CASE Q!TakeEmpty(s)
      BY <1>1, <1>2, <2>1, TakeEmptyWindow
    <2>2. CASE pc' = [pc EXCEPT ![s] = "waitEmpty"] /\ UNCHANGED <<write, emptyCount, slot>>
      <3>1. pc'[s] = "waitEmpty"
        BY <1>2, <2>2, TheThreads DEF TypeOK, Q!TypeOK
      <3>2. \A t \in {s, r, Owner} : Holding(t)' = Holding(t)
        BY <1>1, <1>3, <3>1 DEF Holding
      <3> QED
        BY <1>1, <1>3, <1>6, <2>2, <3>1, <3>2 DEF IInv, Window
    <2> QED
      BY <1>1, <2>1, <2>2
  <1>8. QueueFilled'
    BY <1>1, <1>6 DEF IInv, QueueFilled
  <1>9. SenderOwns(s)'
    BY <1>1, <1>3, <1>4, <1>6 DEF IInv, SenderOwns, QueueFilled
  <1>10. TakerOwns(s)'
    <2>1. \A t \in unread : t \in Takers
      BY <1>2 DEF TypeOK, Takers
    <2> QED
      BY <1>1, <1>3, <1>4, <1>6, <2>1 DEF IInv, TakerOwns
  <1>11. NothingLeaks(s)'
    <2>1. \A t \in unread : t \in Takers
      BY <1>2 DEF TypeOK, Takers
    <2> QED
      BY <1>1, <1>2, <1>3, <1>4, <1>6, <2>1, MsgQueueAssumption
         DEF IInv, NothingLeaks, TypeOK, MsgQueueAssumption
  <1> QED
    BY <1>2, <1>5, <1>7, <1>8, <1>9, <1>10, <1>11 DEF IInv

LEMMA SendFailsKeeps ==
    ASSUME NEW s, NEW r, Single(s, r), IInv(s, r), SendFails(s)
    PROVE  IInv(s, r)'
  <1>1. /\ pc[s] \in {"waitEmpty", "wokenEmpty"} /\ pc' = [pc EXCEPT ![s] = "idle"]
        /\ live' = live \ {outgoing[s]} /\ outgoing' = [outgoing EXCEPT ![s] = NoBody]
        /\ UNCHANGED <<pool, copied, unread, destroying>>
        /\ UNCHANGED <<write, read, fullCount, emptyCount, isDestroyed, freed, slot>>
    BY DEF SendFails, Q!WaitTimesOut, Q!ResumeEmpty, Q!TakeEmpty, Q!ReturnNull, Q!que, IInv, Places
  <1>2. TypeOK /\ TypeOK'
    BY TheThreads, SendType DEF IInv, SendStep
  <1>3. pc'[s] = "idle" /\ \A u \in Takers : pc'[u] = pc[u]
    BY <1>1, <1>2, TheThreads DEF TypeOK, Q!TypeOK
  <1>4. outgoing'[s] = NoBody /\ outgoing[s] # NoBody /\ outgoing[s] \in live /\ copied[s] = 0
    BY <1>1, <1>2, TheThreads DEF TypeOK, IInv, SenderOwns
  <1>5. Places(s, r)'
    BY <1>1, <1>3, TheThreads DEF IInv, Places
  <1>6. \A j : Nth(j)' = Nth(j)
    BY <1>1 DEF Nth
  <1>7. Window(s, r)'
    <2>1. \A t \in {s, r, Owner} : Holding(t)' = Holding(t)
      BY <1>1, <1>3, TheThreads DEF Holding
    <2> QED
      BY <1>1, <1>3, <1>6, <2>1, TheThreads DEF IInv, Window
  <1>8. QueueFilled'
    BY <1>1, <1>4, <1>6 DEF IInv, QueueFilled, SenderOwns
  <1>9. SenderOwns(s)'
    BY <1>1, <1>3, <1>4 DEF IInv, SenderOwns
  <1>10. NoBody \notin live
    BY <1>2, MsgQueueAssumption DEF TypeOK, MsgQueueAssumption
  <1>11. TakerOwns(s)'
    <2>1. \A t \in unread : t \in Takers
      BY <1>2 DEF TypeOK, Takers
    <2> QED
      BY <1>1, <1>3, <1>4, <1>6, <1>10, <2>1 DEF IInv, TakerOwns
  <1>12. NothingLeaks(s)'
    BY <1>1, <1>4, <1>6 DEF IInv, NothingLeaks
  <1> QED
    BY <1>2, <1>5, <1>7, <1>8, <1>9, <1>11, <1>12 DEF IInv

LEMMA SendResumesKeeps ==
    ASSUME NEW s, NEW r, Single(s, r), IInv(s, r), SendResumes(s)
    PROVE  IInv(s, r)'
  <1>1. /\ pc[s] = "wokenEmpty" /\ UNCHANGED <<pool, outgoing, copied, live, unread, destroying>>
        /\ UNCHANGED <<read, fullCount, isDestroyed, freed>>
        /\ \/ Q!TakeEmpty(s)
           \/ /\ pc' = [pc EXCEPT ![s] = "waitEmpty"] /\ UNCHANGED <<write, emptyCount, slot>>
    BY DEF SendResumes, Q!ResumeEmpty, Q!TakeEmpty, Q!Block, Q!que, msgVars
  <1>2. TypeOK /\ TypeOK'
    BY TheThreads, SendType DEF IInv, SendStep
  <1>3. pc'[s] \in {"waitEmpty", "holdEmpty"} /\ \A u \in Takers : pc'[u] = pc[u]
    BY <1>1, <1>2, TheThreads DEF TypeOK, Q!TypeOK, Q!TakeEmpty
  <1>4. Places(s, r)'
    BY <1>1, <1>3, TheThreads DEF IInv, Places
  <1>5. CASE pc' = [pc EXCEPT ![s] = "waitEmpty"] /\ UNCHANGED <<write, emptyCount, slot>>
    <2>1. pc'[s] = "waitEmpty"
      BY <1>2, <1>5, TheThreads DEF TypeOK, Q!TypeOK
    <2> QED
      BY <1>1, <1>2, <1>3, <1>4, <1>5, <2>1, TheThreads, QuietKeeps
  <1>6. CASE Q!TakeEmpty(s)
    <2>1. Window(s, r)' /\ \A u \in Takers : slot'[u] = slot[u]
      BY <1>1, <1>2, <1>6, TakeEmptyWindow
    <2>2. \A j : Nth(j)' = Nth(j)
      BY <1>1 DEF Nth
    <2>3. QueueFilled'
      BY <1>1, <2>2 DEF IInv, QueueFilled
    <2>4. SenderOwns(s)'
      BY <1>1, <1>2, <1>3, <2>2, TheThreads DEF IInv, SenderOwns, TypeOK
    <2>5. TakerOwns(s)' /\ NothingLeaks(s)'
      <3>1. \A t \in unread : t \in Takers
        BY <1>2 DEF TypeOK, Takers
      <3> QED
        BY <1>1, <1>3, <2>1, <2>2, <3>1 DEF IInv, TakerOwns, NothingLeaks
    <2> QED
      BY <1>2, <1>4, <2>1, <2>3, <2>4, <2>5 DEF IInv
  <1> QED
    BY <1>1, <1>5, <1>6

(* The slot being filled is no other thread's, and not in the queue. *)
LEMMA FillsApart ==
    ASSUME NEW s, NEW r, Single(s, r), IInv(s, r), pc[s] = "holdEmpty"
    PROVE  /\ slot[s] = Nth(fullCount) /\ slot[s] \in Q!Slots /\ fullCount < MaxMsgs
           /\ \A i \in 0 .. fullCount - 1 : Nth(i) # slot[s] /\ Nth(i) \in Q!Slots
           /\ \A t \in Takers : pc[t] = "holdFull" => slot[t] # slot[s] /\ slot[t] \in Q!Slots
  <1>1. TypeOK /\ slot[s] = Nth(fullCount)
    BY DEF IInv, Window
  <1>2. fullCount < MaxMsgs /\ fullCount \in Nat /\ MaxMsgs \in Nat \ {0}
    BY Counters
  <1>3. \A i \in 0 .. fullCount - 1 : i \in 0 .. MaxMsgs - 1 /\ i # fullCount
    BY <1>2
  <1>4. fullCount \in 0 .. MaxMsgs - 1 /\ \A j \in 0 .. MaxMsgs - 1 : j \in 0 .. MaxMsgs
    BY <1>2
  <1>5. ASSUME NEW t \in Takers, pc[t] = "holdFull"
        PROVE  slot[t] # slot[s] /\ slot[t] \in Q!Slots
    <2>1. slot[t] = Nth(MaxMsgs - 1) /\ fullCount + 1 < MaxMsgs
      BY <1>5, Counters DEF IInv, Window
    <2>2. MaxMsgs - 1 \in 0 .. MaxMsgs - 1 /\ MaxMsgs - 1 # fullCount
      BY <1>2, <2>1
    <2> QED
      BY <1>1, <1>4, <2>1, <2>2, Ring
  <1> QED
    BY <1>1, <1>2, <1>3, <1>4, <1>5, Ring

LEMMA SendCopiesKeeps ==
    ASSUME NEW s, NEW r, Single(s, r), IInv(s, r), SendCopies(s)
    PROVE  IInv(s, r)'
  <1>1. /\ pc[s] = "holdEmpty" /\ copied[s] < 2 /\ copied' = [copied EXCEPT ![s] = @ + 1]
        /\ pool' = [pool EXCEPT ![slot[s]] = IF copied[s] = 0 THEN [@ EXCEPT !.body = outgoing[s]]
                                                             ELSE [@ EXCEPT !.rest = outgoing[s]]]
        /\ UNCHANGED <<outgoing, live, unread, destroying>>
        /\ UNCHANGED <<write, read, fullCount, emptyCount, isDestroyed, freed, slot, pc>>
    BY DEF SendCopies, Q!HeldEmpty, Q!At, queVars
  <1>2. TypeOK /\ TypeOK'
    BY TheThreads, SendType DEF IInv, SendStep
  <1>3. copied[s] \in 0 .. 2 /\ copied'[s] = copied[s] + 1
    BY <1>1, <1>2, TheThreads DEF TypeOK
  <1>4. /\ copied[s] = 0 => pool'[slot[s]].body = outgoing[s]
        /\ copied[s] # 0 => /\ pool'[slot[s]].rest = outgoing[s]
                            /\ pool'[slot[s]].body = pool[slot[s]].body
    BY <1>1, <1>2, FillsApart DEF TypeOK
  <1>5. \A k \in Q!Slots : k # slot[s] => pool'[k] = pool[k]
    BY <1>1, <1>2 DEF TypeOK
  <1>6. \A j : Nth(j)' = Nth(j)
    BY <1>1 DEF Nth
  <1>7. \A i \in 0 .. fullCount - 1 : pool'[Nth(i)] = pool[Nth(i)]
    BY <1>1, <1>5, FillsApart
  <1>8. \A t \in unread : pc[t] = "holdFull" /\ t \in Takers /\ pool'[slot[t]] = pool[slot[t]]
    <2>1. \A t \in unread : pc[t] = "holdFull" /\ t \in Takers
      BY <1>2 DEF IInv, TypeOK, TakerOwns, Takers
    <2> QED
      BY <1>1, <1>5, <2>1, FillsApart
  <1>9. Places(s, r)' /\ Window(s, r)'
    <2>1. \A t : Holding(t)' = Holding(t)
      BY <1>1 DEF Holding
    <2> QED
      BY <1>1, <1>6, <2>1 DEF IInv, Places, Window
  <1>u. UNCHANGED <<outgoing, live, unread, read, fullCount, slot, pc>>
    BY <1>1
  <1>10. QueueFilled'
    BY <1>u, <1>6, <1>7 DEF IInv, QueueFilled
  <1>11. SenderOwns(s)'
    <2>1. copied[s] # 0 => pool[slot[s]].body = outgoing[s]
      BY <1>3 DEF IInv, SenderOwns
    <2>2. pool'[slot[s]].body = outgoing[s] /\ (copied'[s] = 2 => pool'[slot[s]].rest = outgoing[s])
      BY <1>3, <1>4, <2>1
    <2> QED
      BY <1>1, <1>6, <1>7, <2>2 DEF IInv, SenderOwns
  <1>12. TakerOwns(s)'
    BY <1>u, <1>6, <1>7, <1>8 DEF IInv, TakerOwns
  <1>13. NothingLeaks(s)'
    BY <1>u, <1>6, <1>7, <1>8 DEF IInv, NothingLeaks
  <1> QED
    BY <1>2, <1>9, <1>10, <1>11, <1>12, <1>13 DEF IInv

LEMMA PutFullEffect ==
    ASSUME NEW s, NEW r, Single(s, r), IInv(s, r), Q!PutFull(s)
    PROVE  /\ pc[s] = "holdEmpty" /\ pc'[s] = "idle" /\ fullCount' = fullCount + 1
           /\ UNCHANGED <<write, read, emptyCount, isDestroyed, freed>>
           /\ pc'[Owner] = pc[Owner]
           /\ pc'[r] = pc[r] \/ (pc[r] = "waitFull" /\ pc'[r] = "wokenFull")
           /\ \A u \in Takers : slot'[u] = slot[u]
  <1> DEFINE p == [pc EXCEPT ![s] = "idle"]
             W == {t \in Q!Threads : p[t] = "waitFull"}
  <1>1. /\ pc[s] = "holdEmpty" /\ fullCount' = fullCount + 1 /\ slot' = [slot EXCEPT ![s] = -1]
        /\ UNCHANGED <<write, read, emptyCount, isDestroyed, freed>>
        /\ Q!Signal(p, "waitFull", "wokenFull")
    BY DEF Q!PutFull, Q!GiveBack, Q!NoSlot
  <1>2. TypeOK
    BY DEF IInv
  <1>3. p[s] = "idle" /\ p[r] = pc[r] /\ p[Owner] = pc[Owner]
    BY <1>1, <1>2, TheThreads DEF TypeOK, Q!TypeOK
  <1>4. W \in SUBSET {r} /\ p \in [Q!Threads -> Q!PcValues]
    BY <1>2, <1>3, TheThreads DEF IInv, Places, TypeOK, Q!TypeOK, Q!PcValues
  <1>5. pc' = p \/ (r \in W /\ pc' = [p EXCEPT ![r] = "wokenFull"])
    BY <1>1, <1>4 DEF Q!Signal
  <1>6. /\ pc'[s] = "idle" /\ pc'[Owner] = pc[Owner]
        /\ pc'[r] = pc[r] \/ (pc[r] = "waitFull" /\ pc'[r] = "wokenFull")
    <2> HIDE DEF p
    <2> QED
      BY <1>3, <1>4, <1>5, TheThreads
  <1> QED
    BY <1>1, <1>2, <1>6, TheThreads DEF TypeOK, Q!TypeOK

LEMMA SendPutsKeeps ==
    ASSUME NEW s, NEW r, Single(s, r), IInv(s, r), SendPuts(s)
    PROVE  IInv(s, r)'
  <1>1. /\ copied[s] = 2 /\ outgoing' = [outgoing EXCEPT ![s] = NoBody]
        /\ copied' = [copied EXCEPT ![s] = 0] /\ UNCHANGED <<pool, live, unread, destroying>>
        /\ pc[s] = "holdEmpty" /\ pc'[s] = "idle" /\ fullCount' = fullCount + 1
        /\ UNCHANGED <<write, read, emptyCount, isDestroyed, freed>>
        /\ pc'[Owner] = pc[Owner]
        /\ pc'[r] = pc[r] \/ (pc[r] = "waitFull" /\ pc'[r] = "wokenFull")
        /\ \A u \in Takers : slot'[u] = slot[u]
    BY PutFullEffect DEF SendPuts
  <1>2. TypeOK /\ TypeOK'
    BY TheThreads, SendType DEF IInv, SendStep
  <1>3. outgoing'[s] = NoBody /\ copied'[s] = 0 /\ outgoing[s] # NoBody /\ outgoing[s] \in live
    BY <1>1, <1>2, TheThreads DEF TypeOK, IInv, SenderOwns
  <1>4. fullCount \in Nat /\ fullCount < MaxMsgs /\ slot[s] = Nth(fullCount)
    BY <1>1, Counters, FillsApart
  <1>5. \A j : Nth(j)' = Nth(j)
    BY <1>1 DEF Nth
  <1>6. pool[Nth(fullCount)].body = outgoing[s] /\ pool[Nth(fullCount)].rest = outgoing[s]
    BY <1>1, <1>4 DEF IInv, SenderOwns
  <1>7. \A i \in 0 .. fullCount' - 1 : i = fullCount \/ i \in 0 .. fullCount - 1
    BY <1>1, <1>4
  <1>8. \A i \in 0 .. fullCount - 1 : i \in 0 .. fullCount' - 1 /\ pool[Nth(i)].body # outgoing[s]
    BY <1>1, <1>3, <1>4 DEF IInv, SenderOwns
  <1>9. fullCount \in 0 .. fullCount' - 1
    BY <1>1, <1>4
  <1>10. \A t \in unread : t \in Takers /\ pc[t] = "holdFull" /\ pc'[t] = pc[t]
    <2>1. \A t \in unread : t \in Takers /\ pc[t] = "holdFull"
      BY <1>2 DEF IInv, TypeOK, TakerOwns, Takers
    <2> QED
      BY <1>1, <2>1, TheThreads
  <1>11. Places(s, r)'
    BY <1>1 DEF IInv, Places
  <1>12. Window(s, r)'
    <2>1. Holding(s) = 1 /\ Holding(s)' = 0 /\ Holding(r)' = Holding(r) /\ Holding(Owner)' = Holding(Owner)
      BY <1>1 DEF Holding
    <2>2. Holding(r) \in Int /\ Holding(Owner) \in Int /\ emptyCount \in Nat
      BY Counters DEF Holding
    <2>3. fullCount' + Holding(s)' = fullCount + Holding(s)
      BY <1>1, <1>4, <2>1
    <2>4. fullCount' + emptyCount' + Holding(s)' + Holding(r)' + Holding(Owner)' = MaxMsgs
      BY <1>1, <1>4, <2>1, <2>2 DEF IInv, Window
    <2>5. \A t \in Takers : pc'[t] = "holdFull" => pc[t] = "holdFull" /\ slot'[t] = slot[t]
      BY <1>1, TheThreads
    <2> QED
      BY <1>1, <1>5, <2>3, <2>4, <2>5 DEF IInv, Window
  <1>13. QueueFilled'
    <2>1. \A i \in 0 .. fullCount' - 1 : pool[Nth(i)].body = pool[Nth(i)].rest /\ pool[Nth(i)].body \in live
      BY <1>3, <1>6, <1>7 DEF IInv, QueueFilled
    <2>2. \A i, j \in 0 .. fullCount' - 1 : pool[Nth(i)].body = pool[Nth(j)].body => i = j
      BY <1>6, <1>7, <1>8 DEF IInv, QueueFilled
    <2> QED
      BY <1>1, <1>5, <2>1, <2>2 DEF QueueFilled
  <1>14. SenderOwns(s)'
    BY <1>1, <1>3 DEF SenderOwns
  <1>15. TakerOwns(s)'
    <2>1. NoBody \notin live
      BY <1>2, MsgQueueAssumption DEF TypeOK, MsgQueueAssumption
    <2> QED
      BY <1>1, <1>3, <1>5, <1>6, <1>7, <1>10, <2>1 DEF IInv, TakerOwns
  <1>16. NothingLeaks(s)'
    BY <1>1, <1>3, <1>5, <1>6, <1>8, <1>9, <1>10 DEF IInv, NothingLeaks
  <1> QED
    BY <1>2, <1>11, <1>12, <1>13, <1>14, <1>15, <1>16 DEF IInv

(***************************************************************************)
(* The receiver and the owner, who take full messages.                     *)
(***************************************************************************)
LEMMA OneTaker ==
    ASSUME NEW s, NEW r, Single(s, r), IInv(s, r)
    PROVE  /\ \A t, u \in Takers : pc[t] = "holdFull" /\ pc[u] = "holdFull" => t = u
           /\ \A t \in unread : t \in Takers /\ pc[t] = "holdFull"
  <1>1. \A t, u \in Takers : pc[t] = "holdFull" /\ pc[u] = "holdFull" => t = u
    BY TheThreads DEF IInv, Places
  <1>2. \A t \in unread : t \in Takers /\ pc[t] = "holdFull"
    BY DEF IInv, TypeOK, TakerOwns, Takers
  <1> QED
    BY <1>1, <1>2

LEMMA TakeFullKeeps ==
    ASSUME NEW s, NEW r, Single(s, r), IInv(s, r), TypeOK', Places(s, r)',
           NEW t \in Takers, Q!TakeFull(t), \A u \in Takers : pc[u] # "holdFull",
           unread' = unread \cup {t}, UNCHANGED <<pool, outgoing, copied, live>>
    PROVE  IInv(s, r)'
  <1>1. /\ fullCount > 0 /\ slot' = [slot EXCEPT ![t] = read]
        /\ read' = (read + 1) % MaxMsgs /\ fullCount' = fullCount - 1
        /\ pc' = [pc EXCEPT ![t] = "holdFull"] /\ UNCHANGED <<write, emptyCount>>
    BY DEF Q!TakeFull
  <1>2. TypeOK
    BY DEF IInv
  <1>3. /\ pc'[t] = "holdFull" /\ slot'[t] = read
        /\ \A u \in {s, r, Owner} : u # t => pc'[u] = pc[u] /\ slot'[u] = slot[u]
    BY <1>1, <1>2, TheThreads DEF TypeOK, Q!TypeOK
  <1>4. t # s /\ pc'[s] = pc[s] /\ slot'[s] = slot[s] /\ unread = {} /\ pc[t] # "holdEmpty"
    BY <1>3, TheThreads, OneTaker DEF IInv, Places
  <1>5. /\ MaxMsgs \in Nat \ {0} /\ fullCount \in 1 .. MaxMsgs /\ fullCount + Holding(s) <= MaxMsgs
        /\ Holding(s) \in {0, 1} /\ Holding(s)' = Holding(s)
    BY <1>1, <1>4, Counters DEF Holding
  <1>6. \A j \in 0 .. MaxMsgs - 1 : Nth(j)' = Nth(j + 1)
    BY <1>1, <1>2, RingTurns
  <1>7. Nth(0) = read /\ Nth(MaxMsgs) = read
    BY <1>2, Ring
  <1>8. \A i \in 0 .. fullCount' - 1 : Nth(i)' = Nth(i + 1) /\ i + 1 \in 0 .. fullCount - 1 /\ i + 1 # 0
    BY <1>1, <1>5, <1>6
  <1>9. 0 \in 0 .. fullCount - 1
    BY <1>5
  <1>10. Window(s, r)'
    <2>1. fullCount' + emptyCount' + Holding(s)' + Holding(r)' + Holding(Owner)' = MaxMsgs
      <3>1. Holding(t) = 0 /\ Holding(t)' = 1 /\ \A u \in Takers : u # t => Holding(u)' = Holding(u)
        BY <1>3, <1>4, TheThreads DEF Holding
      <3>2. t = r \/ t = Owner
        BY TheThreads
      <3>3. Holding(r)' + Holding(Owner)' = Holding(r) + Holding(Owner) + 1
        BY <3>1, <3>2, TheThreads DEF Holding
      <3>4. Holding(r) \in Int /\ Holding(Owner) \in Int /\ Holding(r)' \in Int /\ Holding(Owner)' \in Int
        BY DEF Holding
      <3> QED
        BY <1>1, <1>5, <3>3, <3>4, Counters DEF IInv, Window
    <2>2. write' = Nth(fullCount + Holding(s))'
      <3>1. fullCount' + Holding(s)' \in 0 .. MaxMsgs - 1
        BY <1>1, <1>5
      <3>2. (fullCount' + Holding(s)') + 1 = fullCount + Holding(s)
        BY <1>1, <1>5
      <3>3. write = Nth(fullCount + Holding(s))
        BY DEF IInv, Window
      <3>4. \A j \in 0 .. MaxMsgs - 1 : j + 1 = fullCount + Holding(s) => Nth(j)' = write
        BY <1>6, <3>3
      <3>5. Nth(fullCount + Holding(s))' = (read' + (fullCount' + Holding(s)')) % MaxMsgs
        BY DEF Nth
      <3>6. \A j : Nth(j)' = (read' + j) % MaxMsgs
        BY DEF Nth
      <3> QED
        BY <1>1, <3>1, <3>2, <3>4, <3>5, <3>6
    <2>3. pc'[s] = "holdEmpty" => slot'[s] = Nth(fullCount)'
      <3>1. SUFFICES ASSUME pc[s] = "holdEmpty" PROVE slot[s] = (read' + fullCount') % MaxMsgs
        BY <1>4 DEF Nth
      <3>2. fullCount' \in 0 .. MaxMsgs - 1 /\ fullCount' + 1 = fullCount
        BY <1>1, <1>5
      <3>3. \A j \in 0 .. MaxMsgs - 1 : j + 1 = fullCount => (read' + j) % MaxMsgs = Nth(fullCount)
        BY <1>6 DEF Nth
      <3> QED
        BY <3>1, <3>2, <3>3 DEF IInv, Window
    <2>4. slot'[t] = Nth(MaxMsgs - 1)'
      <3>1. MaxMsgs - 1 \in 0 .. MaxMsgs - 1 /\ (MaxMsgs - 1) + 1 = MaxMsgs
        BY <1>5
      <3> QED
        BY <1>3, <1>6, <1>7, <3>1
    <2>5. \A u \in Takers : pc'[u] = "holdFull" => u = t
      BY <1>3, TheThreads
    <2> QED
      BY <2>1, <2>2, <2>3, <2>4, <2>5 DEF Window
  <1> DEFINE head == pool[Nth(0)]
  <1>11. /\ head.body = head.rest /\ head.body \in live
         /\ \A i \in 1 .. fullCount - 1 : pool[Nth(i)].body # head.body
    BY <1>9 DEF IInv, QueueFilled
  <1>12. QueueFilled'
    <2>1. \A i \in 0 .. fullCount' - 1 : pool'[Nth(i)'] = pool[Nth(i + 1)]
      BY <1>8
    <2>2. \A i \in 0 .. fullCount' - 1 : pool'[Nth(i)'].body = pool'[Nth(i)'].rest /\ pool'[Nth(i)'].body \in live'
      BY <1>8, <2>1 DEF IInv, QueueFilled
    <2>3. \A i, j \in 0 .. fullCount' - 1 : pool'[Nth(i)'].body = pool'[Nth(j)'].body => i = j
      <3> TAKE i, j \in 0 .. fullCount' - 1
      <3>1. pool[Nth(i + 1)].body = pool[Nth(j + 1)].body => i + 1 = j + 1
        BY <1>8 DEF IInv, QueueFilled
      <3> QED
        BY <2>1, <3>1
    <2> QED
      BY <2>2, <2>3 DEF QueueFilled
  <1>13. SenderOwns(s)'
    <2>1. outgoing[s] # NoBody => \A i \in 0 .. fullCount' - 1 : pool'[Nth(i)'].body # outgoing[s]
      BY <1>8 DEF IInv, SenderOwns
    <2> QED
      BY <1>4, <2>1 DEF IInv, SenderOwns
  <1>14. TakerOwns(s)'
    <2>1. unread' = {t} /\ pool'[slot'[t]] = head
      BY <1>3, <1>4, <1>7
    <2>2. head.body # outgoing'[s]
      <3>1. NoBody \notin live
        BY <1>2, MsgQueueAssumption DEF TypeOK, MsgQueueAssumption
      <3>2. outgoing[s] # NoBody => head.body # outgoing[s]
        BY <1>9 DEF IInv, SenderOwns
      <3> QED
        BY <1>11, <3>1, <3>2
    <2>3. \A i \in 0 .. fullCount' - 1 : pool'[Nth(i)'].body # head.body
      <3> TAKE i \in 0 .. fullCount' - 1
      <3>1. i + 1 \in 1 .. fullCount - 1
        BY <1>8
      <3> QED
        BY <1>8, <1>11, <3>1
    <2> HIDE DEF head
    <2> QED
      BY <1>3, <1>11, <2>1, <2>2, <2>3 DEF TakerOwns
  <1>15. NothingLeaks(s)'
    <2>1. SUFFICES ASSUME NEW b \in live
                   PROVE  \/ outgoing[s] = b
                          \/ \E i \in 0 .. fullCount' - 1 : pool[Nth(i)'].body = b
                          \/ \E u \in unread' : pool[slot'[u]].body = b
      BY DEF NothingLeaks
    <2>2. outgoing[s] = b \/ \E i \in 0 .. fullCount - 1 : pool[Nth(i)].body = b
      BY <1>4, <2>1 DEF IInv, NothingLeaks
    <2>3. CASE \E i \in 0 .. fullCount - 1 : pool[Nth(i)].body = b
      <3>1. PICK i \in 0 .. fullCount - 1 : pool[Nth(i)].body = b
        BY <2>3
      <3>2. CASE i = 0
        BY <1>3, <1>7, <3>1, <3>2
      <3>3. CASE i # 0
        <4>1. i - 1 \in 0 .. fullCount' - 1 /\ (i - 1) + 1 = i
          BY <1>1, <1>5, <3>3
        <4>2. Nth(i - 1)' = Nth(i)
          BY <1>8, <4>1
        <4> QED
          BY <3>1, <4>1, <4>2
      <3> QED
        BY <3>2, <3>3
    <2> QED
      BY <2>2, <2>3
  <1> QED
    BY <1>10, <1>12, <1>13, <1>14, <1>15 DEF IInv

(* Reading the message: the body goes, and the slot may be cleared. *)
LEMMA ReadKeeps ==
    ASSUME NEW s, NEW r, Single(s, r), IInv(s, r), TypeOK', Places(s, r)',
           NEW t \in unread, live' = live \ {pool[slot[t]].body}, unread' = unread \ {t},
           \A k \in Q!Slots : k # slot[t] => pool'[k] = pool[k],
           UNCHANGED <<write, read, fullCount, emptyCount, slot, pc, outgoing, copied>>
    PROVE  IInv(s, r)'
  <1>1. /\ t \in Takers /\ pc[t] = "holdFull" /\ \A u \in unread : u = t
        /\ slot[t] = Nth(MaxMsgs - 1) /\ TypeOK
    BY OneTaker DEF IInv, Window
  <1>2. MaxMsgs \in Nat \ {0} /\ fullCount \in Nat /\ fullCount < MaxMsgs
    BY <1>1, Counters, TheThreads DEF Holding
  <1>3. \A j : Nth(j)' = Nth(j)
    BY DEF Nth
  <1>4. \A i \in 0 .. fullCount - 1 : pool'[Nth(i)] = pool[Nth(i)]
    <2> TAKE i \in 0 .. fullCount - 1
    <2>1. fullCount + Holding(s) + emptyCount < MaxMsgs /\ Holding(s) \in Nat /\ emptyCount \in Nat
      BY <1>1, Counters DEF Holding
    <2>2. i \in 0 .. MaxMsgs - 1 /\ i \in 0 .. MaxMsgs /\ MaxMsgs - 1 \in 0 .. MaxMsgs - 1 /\ i # MaxMsgs - 1
      BY <1>2, <2>1
    <2> QED
      BY <1>1, <2>2, Ring
  <1>5. pc[s] = "holdEmpty" => pool'[slot[s]] = pool[slot[s]]
    BY <1>1, FillsApart
  <1>6. Window(s, r)'
    <2>1. \A u : Holding(u)' = Holding(u)
      BY DEF Holding
    <2> QED
      BY <1>3, <2>1 DEF IInv, Window
  <1>7. /\ pool[slot[t]].body # outgoing[s]
        /\ \A i \in 0 .. fullCount - 1 : pool[Nth(i)].body # pool[slot[t]].body
    BY DEF IInv, TakerOwns
  <1>8. QueueFilled'
    BY <1>3, <1>4, <1>7 DEF IInv, QueueFilled
  <1>9. SenderOwns(s)'
    BY <1>3, <1>4, <1>5, <1>7 DEF IInv, SenderOwns
  <1>10. TakerOwns(s)'
    BY <1>1 DEF TakerOwns
  <1>11. NothingLeaks(s)'
    BY <1>1, <1>3, <1>4 DEF IInv, NothingLeaks
  <1> QED
    BY <1>6, <1>8, <1>9, <1>10, <1>11 DEF IInv

LEMMA PutEmptyEffect ==
    ASSUME NEW s, NEW r, Single(s, r), IInv(s, r), NEW t \in Takers, Q!PutEmpty(t)
    PROVE  /\ pc[t] = "holdFull" /\ pc'[t] = "idle" /\ emptyCount' = emptyCount + 1
           /\ UNCHANGED <<write, read, fullCount, isDestroyed, freed>>
           /\ \A u \in Takers : u # t => pc'[u] = pc[u]
           /\ pc'[s] = pc[s] \/ (pc[s] = "waitEmpty" /\ pc'[s] = "wokenEmpty")
           /\ \A u \in {s, r, Owner} : u # t => slot'[u] = slot[u]
  <1> DEFINE p == [pc EXCEPT ![t] = "idle"]
             W == {u \in Q!Threads : p[u] = "waitEmpty"}
  <1>1. /\ pc[t] = "holdFull" /\ emptyCount' = emptyCount + 1 /\ slot' = [slot EXCEPT ![t] = -1]
        /\ UNCHANGED <<write, read, fullCount, isDestroyed, freed>>
        /\ Q!Signal(p, "waitEmpty", "wokenEmpty")
    BY DEF Q!PutEmpty, Q!GiveBack, Q!NoSlot
  <1>2. TypeOK
    BY DEF IInv
  <1>3. t # s /\ p[t] = "idle" /\ \A u \in {s, r, Owner} : u # t => p[u] = pc[u]
    BY <1>1, <1>2, TheThreads DEF TypeOK, Q!TypeOK
  <1>4. W \in SUBSET {s} /\ p \in [Q!Threads -> Q!PcValues]
    BY <1>2, <1>3, TheThreads DEF IInv, Places, TypeOK, Q!TypeOK, Q!PcValues
  <1>5. pc' = p \/ (s \in W /\ pc' = [p EXCEPT ![s] = "wokenEmpty"])
    BY <1>1, <1>4 DEF Q!Signal
  <1>6. /\ pc'[t] = "idle" /\ \A u \in Takers : u # t => pc'[u] = pc[u]
        /\ pc'[s] = pc[s] \/ (pc[s] = "waitEmpty" /\ pc'[s] = "wokenEmpty")
    <2> HIDE DEF p
    <2> QED
      BY <1>3, <1>4, <1>5, TheThreads
  <1> QED
    BY <1>1, <1>2, <1>6, TheThreads DEF TypeOK, Q!TypeOK

LEMMA ReleaseKeeps ==
    ASSUME NEW s, NEW r, Single(s, r), IInv(s, r), TypeOK', NEW t \in Takers, t \notin unread,
           Q!PutEmpty(t), UNCHANGED msgVars
    PROVE  IInv(s, r)'
  <1>1. /\ pc[t] = "holdFull" /\ pc'[t] = "idle" /\ emptyCount' = emptyCount + 1
        /\ UNCHANGED <<write, read, fullCount, isDestroyed, freed>>
        /\ \A u \in Takers : u # t => pc'[u] = pc[u]
        /\ pc'[s] = pc[s] \/ (pc[s] = "waitEmpty" /\ pc'[s] = "wokenEmpty")
        /\ \A u \in {s, r, Owner} : u # t => slot'[u] = slot[u]
        /\ UNCHANGED <<pool, outgoing, copied, live, unread, destroying>>
    BY PutEmptyEffect DEF msgVars
  <1>2. unread = {} /\ (t = r \/ t = Owner) /\ t # s
    BY <1>1, OneTaker, TheThreads
  <1>3. \A j : Nth(j)' = Nth(j)
    BY <1>1 DEF Nth
  <1>4. Places(s, r)'
    BY <1>1, <1>2, TheThreads DEF IInv, Places
  <1>5. Window(s, r)'
    <2>1. Holding(t) = 1 /\ Holding(t)' = 0 /\ Holding(s)' = Holding(s)
          /\ \A u \in Takers : u # t => Holding(u)' = Holding(u)
      BY <1>1 DEF Holding
    <2>2. \A u : Holding(u) \in Int /\ Holding(u)' \in Int
      BY DEF Holding
    <2>3. Holding(r)' + Holding(Owner)' + 1 = Holding(r) + Holding(Owner)
      BY <1>2, <2>1, <2>2, TheThreads
    <2>4. fullCount' + emptyCount' + Holding(s)' + Holding(r)' + Holding(Owner)' = MaxMsgs
      BY <1>1, <2>1, <2>2, <2>3, Counters DEF IInv, Window
    <2>5. write' = Nth(fullCount + Holding(s))'
      BY <1>1, <1>3, <2>1 DEF IInv, Window
    <2>6. \A u \in Takers : pc'[u] = "holdFull" => pc[u] = "holdFull" /\ slot'[u] = slot[u]
      BY <1>1, TheThreads
    <2>7. pc'[s] = "holdEmpty" => pc[s] = "holdEmpty" /\ slot'[s] = slot[s]
      BY <1>1, <1>2
    <2> QED
      BY <1>1, <1>3, <2>4, <2>5, <2>6, <2>7 DEF IInv, Window
  <1>6. QueueFilled' /\ TakerOwns(s)' /\ NothingLeaks(s)'
    BY <1>1, <1>2, <1>3 DEF IInv, QueueFilled, TakerOwns, NothingLeaks
  <1>7. SenderOwns(s)'
    BY <1>1, <1>2, <1>3 DEF IInv, SenderOwns
  <1> QED
    BY <1>4, <1>5, <1>6, <1>7 DEF IInv

LEMMA ReceiveKeeps ==
    ASSUME NEW s, NEW r, Single(s, r), IInv(s, r),
           (~destroying /\ ReceiveBegins(r)) \/ ReceiveResumes(r)
    PROVE  IInv(s, r)'
  <1>1. /\ UNCHANGED <<pool, outgoing, copied, live, destroying, isDestroyed, freed>>
        /\ unread' = IF pc'[r] = "holdFull" THEN unread \cup {r} ELSE unread
        /\ pc[r] \in {"idle", "waitFull", "wokenFull"} /\ (pc[r] = "idle" => ~destroying)
        /\ \/ Q!TakeFull(r)
           \/ /\ \/ pc' = [pc EXCEPT ![r] = "idle"]
                 \/ pc' = [pc EXCEPT ![r] = "waitFull"] /\ fullCount = 0
              /\ UNCHANGED <<write, read, fullCount, emptyCount, slot>>
    <2>1. CASE ~destroying /\ ReceiveBegins(r)
      BY <2>1 DEF ReceiveBegins, Q!GetFull, Q!TakeFull, Q!Block, Q!que
    <2>2. CASE ReceiveResumes(r)
      BY <2>2 DEF ReceiveResumes, Q!ResumeFull, Q!WaitTimesOut, Q!ReturnNull, Q!TakeFull, Q!Block,
                  Q!que, IInv, Places
    <2> QED
      BY <2>1, <2>2
  <1>2. TypeOK /\ TypeOK'
    BY ReceiveType, TheThreads DEF IInv, ReceiveStep
  <1>3. pc'[s] = pc[s] /\ pc'[Owner] = pc[Owner]
    BY <1>1, <1>2, TheThreads DEF TypeOK, Q!TypeOK, Q!TakeFull
  <1>4. \A u \in Takers : pc[u] # "holdFull"
    BY <1>1, TheThreads DEF IInv, Places
  <1>5. CASE Q!TakeFull(r)
    <2>1. fullCount > 0 /\ pc'[r] = "holdFull" /\ fullCount' = fullCount - 1 /\ ~isDestroyed
      BY <1>2, <1>5, TheThreads DEF Q!TakeFull, TypeOK, Q!TypeOK
    <2>2. ~destroying
      BY <1>1, <2>1 DEF IInv, Places
    <2>3. Places(s, r)'
      BY <1>1, <1>3, <1>4, <2>1, <2>2, TheThreads DEF IInv, Places
    <2> QED
      BY <1>1, <1>2, <1>4, <1>5, <2>1, <2>3, TakeFullKeeps, TheThreads
  <1>6. CASE /\ \/ pc' = [pc EXCEPT ![r] = "idle"]
                \/ pc' = [pc EXCEPT ![r] = "waitFull"] /\ fullCount = 0
             /\ UNCHANGED <<write, read, fullCount, emptyCount, slot>>
    <2>1. pc'[r] = "idle" \/ (pc'[r] = "waitFull" /\ fullCount = 0)
      BY <1>2, <1>6, TheThreads DEF TypeOK, Q!TypeOK
    <2>2. Places(s, r)'
      BY <1>1, <1>3, <1>4, <1>6, <2>1, TheThreads DEF IInv, Places
    <2> QED
      BY <1>1, <1>2, <1>3, <1>6, <2>1, <2>2, QuietKeeps
  <1> QED
    BY <1>1, <1>5, <1>6

LEMMA ConsumeKeeps ==
    ASSUME NEW s, NEW r, Single(s, r), IInv(s, r), Consume(r)
    PROVE  IInv(s, r)'
  <1>1. /\ r \in unread /\ live' = live \ {pool[slot[r]].body} /\ unread' = unread \ {r}
        /\ UNCHANGED <<write, read, fullCount, emptyCount, isDestroyed, freed, pc, slot>>
        /\ UNCHANGED <<pool, outgoing, copied, destroying>>
    BY DEF Consume, queVars
  <1>2. TypeOK'
    BY ReceiveType, TheThreads DEF IInv, ReceiveStep
  <1>3. Places(s, r)'
    BY <1>1 DEF IInv, Places
  <1> QED
    BY <1>1, <1>2, <1>3, ReadKeeps

LEMMA DrainKeeps ==
    ASSUME NEW s, NEW r, Single(s, r), IInv(s, r), DrainTakes \/ DrainFrees \/ DrainPuts
    PROVE  IInv(s, r)'
  <1>1. TypeOK /\ TypeOK'
    BY DestroyType DEF IInv, DestroyStep
  <1>2. Owner \in Takers
    BY TheThreads
  <1>3. CASE DrainTakes
    <2>1. /\ destroying /\ pc[Owner] = "idle" /\ Q!TakeFull(Owner) /\ unread' = unread \cup {Owner}
          /\ UNCHANGED <<pool, outgoing, copied, live, destroying>>
      BY <1>3 DEF DrainTakes
    <2>2. /\ fullCount > 0 /\ ~isDestroyed /\ fullCount' = fullCount - 1
          /\ UNCHANGED <<isDestroyed, freed>> /\ pc' = [pc EXCEPT ![Owner] = "holdFull"]
      BY <2>1 DEF Q!TakeFull
    <2>3. pc'[Owner] = "holdFull" /\ pc'[s] = pc[s] /\ pc'[r] = pc[r]
      BY <1>1, <2>2, TheThreads DEF TypeOK, Q!TypeOK
    <2>4. pc[r] = "idle" /\ pc[s] = "idle" /\ ~isDestroyed' /\ ~freed'
      BY <2>1, <2>2 DEF IInv, Places
    <2>5. Places(s, r)'
      BY <2>1, <2>3, <2>4 DEF Places
    <2> QED
      BY <1>1, <1>2, <2>1, <2>4, <2>5, TakeFullKeeps, TheThreads
  <1>4. CASE DrainFrees
    <2>1. /\ Owner \in unread /\ live' = live \ {pool[slot[Owner]].body}
          /\ unread' = unread \ {Owner}
          /\ UNCHANGED <<write, read, fullCount, emptyCount, isDestroyed, freed, pc, slot>>
          /\ UNCHANGED <<outgoing, copied, destroying>>
          /\ pool' = [pool EXCEPT ![slot[Owner]].body = NoBody]
      BY <1>4 DEF DrainFrees, queVars
    <2>2. \A k \in Q!Slots : k # slot[Owner] => pool'[k] = pool[k]
      BY <1>1, <2>1 DEF TypeOK
    <2>3. Places(s, r)'
      BY <2>1 DEF IInv, Places
    <2> QED
      BY <1>1, <2>1, <2>2, <2>3, ReadKeeps
  <1>5. CASE DrainPuts
    BY <1>1, <1>2, <1>5, ReleaseKeeps DEF DrainPuts
  <1> QED
    BY <1>3, <1>4, <1>5

LEMMA DestroyKeeps ==
    ASSUME NEW s, NEW r, Single(s, r), IInv(s, r),
           (ClientsQuiet /\ DestroyBegins) \/ DestroyDeletes \/ DestroyFrees
    PROVE  IInv(s, r)'
  <1>1. TypeOK /\ TypeOK'
    BY DestroyType DEF IInv, DestroyStep
  <1>2. CASE ClientsQuiet /\ DestroyBegins
    <2>1. /\ UNCHANGED <<write, read, fullCount, emptyCount, isDestroyed, freed, pc, slot>>
          /\ UNCHANGED <<pool, outgoing, copied, live, unread>> /\ ~destroying /\ destroying'
          /\ pc[s] = "idle" /\ (pc[r] = "idle" \/ (pc[r] = "waitFull" /\ fullCount = 0))
      BY <1>2, TheThreads DEF DestroyBegins, ClientsQuiet, queVars
    <2>2. Places(s, r)'
      BY <2>1 DEF IInv, Places
    <2> QED
      BY <1>1, <2>1, <2>2, QuietKeeps
  <1>3. CASE DestroyDeletes
    <2>1. /\ destroying /\ pc[Owner] = "idle" /\ fullCount = 0 /\ isDestroyed' = TRUE
          /\ UNCHANGED <<write, read, fullCount, emptyCount, freed, slot>>
          /\ UNCHANGED <<pool, outgoing, copied, live, unread, destroying>>
          /\ pc' = Q!Broadcast(Q!Broadcast(pc, "waitFull", "wokenFull"), "waitEmpty", "wokenEmpty")
      BY <1>3 DEF DestroyDeletes, Q!DeleteMark, Q!que, msgVars
    <2>2. /\ pc[s] = "idle"
          /\ pc[r] = "idle" \/ pc[r] \in {"waitFull", "wokenFull"}
      BY <2>1 DEF IInv, Places
    <2>3. /\ pc'[s] = "idle" /\ pc'[Owner] = "idle"
          /\ pc'[r] = IF pc[r] = "waitFull" THEN "wokenFull" ELSE pc[r]
      BY <1>1, <2>1, <2>2, TheThreads DEF TypeOK, Q!TypeOK, Q!Broadcast
    <2>4. Places(s, r)'
      BY <2>1, <2>2, <2>3 DEF IInv, Places
    <2> QED
      BY <1>1, <2>1, <2>2, <2>3, <2>4, QuietKeeps
  <1>4. CASE DestroyFrees
    <2>1. /\ UNCHANGED <<write, read, fullCount, emptyCount, isDestroyed, pc, slot>>
          /\ UNCHANGED <<pool, outgoing, copied, live, unread, destroying>> /\ isDestroyed
      BY <1>4 DEF DestroyFrees, Q!DeleteFree, Q!que, msgVars
    <2>2. Places(s, r)'
      BY <2>1 DEF IInv, Places
    <2> QED
      BY <1>1, <2>1, <2>2, QuietKeeps
  <1> QED
    BY <1>2, <1>3, <1>4

LEMMA SpuriousKeeps ==
    ASSUME NEW s, NEW r, Single(s, r), IInv(s, r), TypeOK',
           NEW t \in {s, r}, Q!SpuriousWakeup(t), UNCHANGED msgVars
    PROVE  IInv(s, r)'
  <1>1. /\ UNCHANGED <<write, read, fullCount, emptyCount, isDestroyed, freed, slot>>
        /\ UNCHANGED <<pool, outgoing, copied, live, unread, destroying>>
        /\ \/ pc[t] = "waitEmpty" /\ pc' = [pc EXCEPT ![t] = "wokenEmpty"]
           \/ pc[t] = "waitFull" /\ pc' = [pc EXCEPT ![t] = "wokenFull"]
    BY DEF Q!SpuriousWakeup, Q!que, msgVars
  <1>2. /\ pc'[t] = IF pc[t] = "waitEmpty" THEN "wokenEmpty" ELSE "wokenFull"
        /\ \A u \in {s, r, Owner} : u # t => pc'[u] = pc[u]
    BY <1>1, TheThreads DEF IInv, TypeOK, Q!TypeOK
  <1>3. Places(s, r)'
    BY <1>1, <1>2, TheThreads DEF IInv, Places
  <1> QED
    BY <1>1, <1>2, <1>3, QuietKeeps

LEMMA InitIInv ==
    ASSUME NEW s, NEW r, Single(s, r), Init
    PROVE  IInv(s, r)
  <1>1. /\ write = 0 /\ read = 0 /\ fullCount = 0 /\ emptyCount = MaxMsgs /\ ~isDestroyed /\ ~freed
        /\ ~destroying /\ unread = {} /\ live = {} /\ outgoing[s] = NoBody /\ copied[s] = 0
        /\ \A t \in {s, r, Owner} : pc[t] = "idle"
    BY TheThreads DEF Init, Q!Init
  <1>2. TypeOK
    BY InitType
  <1>3. \A t \in {s, r, Owner} : Holding(t) = 0
    BY <1>1 DEF Holding
  <1>4. Window(s, r)
    <2>1. write = Nth(0)
      BY <1>1, <1>2, Ring
    <2>2. fullCount + Holding(s) = 0
      BY <1>1, <1>3
    <2>3. fullCount + emptyCount + Holding(s) + Holding(r) + Holding(Owner) = MaxMsgs
      BY <1>1, <1>3, MsgQueueAssumption DEF MsgQueueAssumption
    <2> QED
      BY <1>1, <2>1, <2>2, <2>3, TheThreads DEF Window
  <1> QED
    BY <1>1, <1>2, <1>4
       DEF IInv, Places, QueueFilled, SenderOwns, TakerOwns, NothingLeaks

LEMMA NextIInv ==
    ASSUME NEW s, NEW r, Single(s, r), IInv(s, r), [Next]_vars
    PROVE  IInv(s, r)'
  <1>0. TypeOK'
    BY NextType DEF IInv
  <1>1. CASE UNCHANGED vars
    <2>1. UNCHANGED <<write, read, fullCount, emptyCount, isDestroyed, freed, pc, slot>>
          /\ UNCHANGED <<pool, outgoing, copied, live, unread, destroying>>
      BY <1>1 DEF vars, queVars, msgVars
    <2>2. Places(s, r)'
      BY <2>1 DEF IInv, Places
    <2> QED
      BY <1>0, <2>1, <2>2, QuietKeeps
  <1>2. CASE SendStep(s)
    BY <1>2, SendBeginsKeeps, SendFailsKeeps, SendResumesKeeps, SendCopiesKeeps, SendPutsKeeps
       DEF SendStep
  <1>3. CASE ReceiveStep(r)
    <2>1. CASE Release(r)
      BY <1>0, <2>1, ReleaseKeeps, TheThreads DEF Release
    <2> QED
      BY <1>3, <2>1, ReceiveKeeps, ConsumeKeeps DEF ReceiveStep
  <1>4. CASE (ClientsQuiet /\ DestroyBegins) \/ DestroyStep
    BY <1>4, DrainKeeps, DestroyKeeps DEF DestroyStep
  <1>5. ASSUME NEW t \in Senders \cup Receivers, Q!SpuriousWakeup(t), UNCHANGED msgVars
        PROVE  IInv(s, r)'
    BY <1>0, <1>5, SpuriousKeeps DEF Single
  <1> QED
    BY <1>1, <1>2, <1>3, <1>4, <1>5 DEF Next, Single
-----------------------------------------------------------------------------
(* One sender and one receiver keep the inductive invariant, through waits *)
(* that end late or for nothing and a destroy that finds messages left.    *)
THEOREM Invariance ==
    ASSUME NEW CONSTANT s, NEW CONSTANT r, Single(s, r)
    PROVE  Spec => []IInv(s, r)
  <1>1. Init => IInv(s, r)
    BY InitIInv
  <1>2. IInv(s, r) /\ [Next]_vars => IInv(s, r)'
    BY NextIInv
  <1> QED
    BY <1>1, <1>2, PTL DEF Spec

(* What msg_queue_receive hands out is complete and not freed: with one    *)
(* sender the read cursor never reaches a slot that is still being filled. *)
THEOREM MessagesComplete ==
    ASSUME NEW CONSTANT s, NEW CONSTANT r, Single(s, r)
    PROVE  Spec => []ReceivedMessageFilled
  <1>1. IInv(s, r) => ReceivedMessageFilled
    BY DEF IInv, TakerOwns, ReceivedMessageFilled
  <1> QED
    BY <1>1, Invariance, PTL

(* How many of a set that has at most one element satisfy P. *)
LEMMA CountOne ==
    ASSUME NEW S, \A x, y \in S : x = y
    PROVE  Cardinality(S) = IF S = {} THEN 0 ELSE 1
  <1>1. CASE S = {}
    BY <1>1, FS_EmptySet
  <1>2. CASE S # {}
    <2>1. PICK x \in S : S = {x}
      BY <1>2
    <2> QED
      BY <1>2, <2>1, FS_Singleton
  <1> QED
    BY <1>1, <1>2

LEMMA OwnersCounted ==
    ASSUME NEW s, NEW r, Single(s, r), IInv(s, r)
    PROVE  EveryBodyOwnedOnce
  <1> SUFFICES ASSUME NEW b \in Bodies
               PROVE  BodyOwners(b) = IF b \in live THEN 1 ELSE 0
    BY DEF EveryBodyOwnedOnce
  <1> DEFINE A == {t \in Senders : outgoing[t] = b}
             B == {i \in 0 .. fullCount - 1 : ~freed /\ pool[(read + i) % MaxMsgs].body = b}
             C == {t \in unread : pool[slot[t]].body = b}
  <1>0. /\ b # NoBody /\ fullCount \in Nat
        /\ freed => fullCount = 0
    BY MsgQueueAssumption, Counters DEF MsgQueueAssumption, IInv, Places
  <1>1. Cardinality(A) = IF outgoing[s] = b THEN 1 ELSE 0
    <2>1. (A = {} <=> outgoing[s] # b) /\ \A x, y \in A : x = y
      BY DEF Single
    <2> QED
      BY <2>1, CountOne
  <1>2. \A i \in 0 .. fullCount - 1 : i \in B <=> pool[Nth(i)].body = b
    BY <1>0 DEF Nth
  <1>3. Cardinality(B) = IF \E i \in 0 .. fullCount - 1 : pool[Nth(i)].body = b THEN 1 ELSE 0
    <2>1. \A x, y \in B : x = y
      BY <1>2 DEF IInv, QueueFilled
    <2>2. B = {} <=> ~ \E i \in 0 .. fullCount - 1 : pool[Nth(i)].body = b
      BY <1>2
    <2> HIDE DEF B
    <2> QED
      BY <2>1, <2>2, CountOne
  <1>4. Cardinality(C) = IF \E t \in unread : pool[slot[t]].body = b THEN 1 ELSE 0
    <2>1. \A x, y \in C : x = y
      BY OneTaker
    <2>2. C = {} <=> ~ \E t \in unread : pool[slot[t]].body = b
      OBVIOUS
    <2> HIDE DEF C
    <2> QED
      BY <2>1, <2>2, CountOne
  <1>5. BodyOwners(b) = Cardinality(A) + Cardinality(B) + Cardinality(C)
    BY DEF BodyOwners
  <1>6. b \in live => \/ outgoing[s] = b
                      \/ \E i \in 0 .. fullCount - 1 : pool[Nth(i)].body = b
                      \/ \E t \in unread : pool[slot[t]].body = b
    BY DEF IInv, NothingLeaks
  <1>7. /\ outgoing[s] = b => /\ b \in live
                              /\ ~ \E i \in 0 .. fullCount - 1 : pool[Nth(i)].body = b
                              /\ ~ \E t \in unread : pool[slot[t]].body = b
        /\ (\E i \in 0 .. fullCount - 1 : pool[Nth(i)].body = b) =>
              b \in live /\ ~ \E t \in unread : pool[slot[t]].body = b
        /\ (\E t \in unread : pool[slot[t]].body = b) => b \in live
    BY <1>0 DEF IInv, SenderOwns, QueueFilled, TakerOwns
  <1> HIDE DEF A, B, C
  <1> QED
    BY <1>1, <1>3, <1>4, <1>5, <1>6, <1>7

(* No body is leaked or freed twice, whoever frees it: the sender that gave *)
(* up, the receiver, or msg_queue_destroy.                                 *)
THEOREM BodiesOwnedOnce ==
    ASSUME NEW CONSTANT s, NEW CONSTANT r, Single(s, r)
    PROVE  Spec => []EveryBodyOwnedOnce
  <1>1. IInv(s, r) => EveryBodyOwnedOnce
    BY OwnersCounted
  <1> QED
    BY <1>1, Invariance, PTL
-----------------------------------------------------------------------------
(***************************************************************************)
(* The refinement.  Messages and InHand are what the mapping substitutes   *)
(* for the variables of Fifo.                                              *)
(***************************************************************************)
Messages == [i \in 1 .. fullCount |-> pool[(read + i - 1) % MaxMsgs].body]
InHand == [t \in Receivers \cup {Owner} |-> IF t \in Q!HeldFull THEN {pool[slot[t]].rest} ELSE {}]

LEMMA MessagesAre ==
    ASSUME NEW s, NEW r, Single(s, r), IInv(s, r)
    PROVE  /\ Messages \in Seq(Bodies) /\ Len(Messages) = fullCount
           /\ \A i \in 1 .. fullCount : i - 1 \in 0 .. fullCount - 1 /\ Messages[i] = pool[Nth(i - 1)].body
  <1>1. fullCount \in Nat /\ read \in Int
    BY Counters, MsgQueueAssumption DEF IInv, TypeOK, Q!TypeOK, Q!Slots, MsgQueueAssumption
  <1>2. ASSUME NEW i \in 1 .. fullCount
        PROVE  /\ i - 1 \in 0 .. fullCount - 1 /\ Messages[i] = pool[Nth(i - 1)].body
               /\ pool[(read + i - 1) % MaxMsgs].body \in Bodies
    <2>1. i - 1 \in 0 .. fullCount - 1 /\ read + (i - 1) = read + i - 1
      BY <1>1
    <2>2. pool[Nth(i - 1)].body \in live
      BY <2>1 DEF IInv, QueueFilled
    <2> QED
      BY <2>1, <2>2 DEF Messages, Nth, IInv, TypeOK
  <1>3. \A i \in 1 .. fullCount : pool[(read + i - 1) % MaxMsgs].body \in Bodies
    BY <1>2
  <1>4. Messages \in Seq(Bodies) /\ Len(Messages) = fullCount
    BY <1>1, <1>3 DEF Messages
  <1> QED
    BY <1>2, <1>4

LEMMA HandsAre ==
    ASSUME NEW t \in Takers
    PROVE  /\ InHand[t] = IF pc[t] = "holdFull" THEN {pool[slot[t]].rest} ELSE {}
           /\ InHand'[t] = IF pc'[t] = "holdFull" THEN {pool'[slot'[t]].rest} ELSE {}
  BY DEF InHand, Takers, Q!HeldFull, Q!At, Q!Threads

(* The hands that a step leaves alone. *)
LEMMA HandsChange ==
    ASSUME NEW t \in Takers,
           \A u \in Takers \ {t} : /\ pc'[u] = "holdFull" <=> pc[u] = "holdFull"
                                   /\ pc[u] = "holdFull" => pool'[slot'[u]].rest = pool[slot[u]].rest
    PROVE  InHand' = [InHand EXCEPT ![t] = IF pc'[t] = "holdFull" THEN {pool'[slot'[t]].rest} ELSE {}]
  <1>1. InHand = [u \in Takers |-> InHand[u]] /\ InHand' = [u \in Takers |-> InHand'[u]]
    BY DEF InHand, Takers
  <1>2. \A u \in Takers \ {t} : InHand'[u] = InHand[u]
    <2> TAKE u \in Takers \ {t}
    <2> QED
      BY HandsAre
  <1>3. InHand'[t] = IF pc'[t] = "holdFull" THEN {pool'[slot'[t]].rest} ELSE {}
    BY HandsAre
  <1> QED
    BY <1>1, <1>2, <1>3

(* A step that touches neither a queued message nor one that is in hand. *)
LEMMA FifoStutters ==
    ASSUME NEW s, NEW r, Single(s, r), IInv(s, r), UNCHANGED <<read, fullCount>>,
           \A i \in 0 .. fullCount - 1 : pool'[Nth(i)].body = pool[Nth(i)].body,
           \A t \in Takers : /\ pc'[t] = "holdFull" <=> pc[t] = "holdFull"
                             /\ pc[t] = "holdFull" => pool'[slot'[t]].rest = pool[slot[t]].rest
    PROVE  UNCHANGED QueueIsFifo!fifoVars
  <1>1. Messages' = Messages
    <2>1. Messages' = [i \in 1 .. fullCount |-> pool'[(read + i - 1) % MaxMsgs].body]
      BY DEF Messages
    <2>2. fullCount \in Nat /\ read \in Int
      BY Counters, MsgQueueAssumption DEF IInv, TypeOK, Q!TypeOK, Q!Slots, MsgQueueAssumption
    <2>3. ASSUME NEW i \in 1 .. fullCount
          PROVE  pool'[(read + i - 1) % MaxMsgs].body = pool[(read + i - 1) % MaxMsgs].body
      <3>1. i - 1 \in 0 .. fullCount - 1 /\ read + (i - 1) = read + i - 1
        BY <2>2
      <3> QED
        BY <3>1 DEF Nth
    <2> QED
      BY <2>1, <2>3 DEF Messages
  <1>2. InHand' = InHand
    <2>1. InHand = [u \in Takers |-> InHand[u]] /\ InHand' = [u \in Takers |-> InHand'[u]]
      BY DEF InHand, Takers
    <2>2. \A u \in Takers : InHand'[u] = InHand[u]
      <3> TAKE u \in Takers
      <3> QED
        BY HandsAre
    <2> QED
      BY <2>1, <2>2
  <1> QED
    BY <1>1, <1>2 DEF QueueIsFifo!fifoVars, Messages, InHand

(* msg_queue_send hands the message to the queue at its last step, and the *)
(* counters leave room for it.                                             *)
LEMMA SendPutsRefines ==
    ASSUME NEW s, NEW r, Single(s, r), IInv(s, r), TypeOK', SendPuts(s)
    PROVE  QueueIsFifo!FifoNext
  <1>1. /\ copied[s] = 2 /\ pc[s] = "holdEmpty" /\ fullCount' = fullCount + 1
        /\ UNCHANGED <<pool, read>> /\ pc'[Owner] = pc[Owner]
        /\ pc'[r] = pc[r] \/ (pc[r] = "waitFull" /\ pc'[r] = "wokenFull")
        /\ \A u \in Takers : slot'[u] = slot[u]
    BY PutFullEffect DEF SendPuts
  <1>2. /\ fullCount \in Nat /\ fullCount + 1 <= MaxMsgs /\ MaxMsgs \in Nat
        /\ \A t \in Takers : pc[t] = "holdFull" => fullCount + 1 < MaxMsgs
    BY <1>1, Counters
  <1>3. outgoing[s] \in Bodies /\ pool[Nth(fullCount)].body = outgoing[s]
    <2>1. pool[slot[s]].body = outgoing[s] /\ slot[s] = Nth(fullCount)
      BY <1>1, FillsApart DEF IInv, SenderOwns
    <2>2. outgoing[s] \in live
      BY <1>1 DEF IInv, SenderOwns
    <2> QED
      BY <2>1, <2>2 DEF IInv, TypeOK
  <1>4. Messages \in Seq(Bodies) /\ Len(Messages) = fullCount
        /\ \A i \in 1 .. fullCount : Messages[i] = pool[(read + i - 1) % MaxMsgs].body
    BY MessagesAre DEF Messages
  <1>5. Messages' = Append(Messages, outgoing[s])
    <2>1. Messages' = [i \in 1 .. fullCount + 1 |-> pool[(read + i - 1) % MaxMsgs].body]
      BY <1>1 DEF Messages
    <2>2. Append(Messages, outgoing[s]) = [i \in 1 .. fullCount + 1 |-> Append(Messages, outgoing[s])[i]]
      BY <1>2, <1>3, <1>4
    <2>3. ASSUME NEW i \in 1 .. fullCount + 1
          PROVE  pool[(read + i - 1) % MaxMsgs].body = Append(Messages, outgoing[s])[i]
      <3>1. CASE i = fullCount + 1
        <4>1. read + i - 1 = read + fullCount
          BY <1>2, <3>1, MsgQueueAssumption DEF IInv, TypeOK, Q!TypeOK, Q!Slots, MsgQueueAssumption
        <4> QED
          BY <1>2, <1>3, <1>4, <3>1, <4>1 DEF Nth
      <3>2. CASE i # fullCount + 1
        BY <1>2, <1>3, <1>4, <3>2
      <3> QED
        BY <3>1, <3>2
    <2> QED
      BY <2>1, <2>2, <2>3
  <1>6. InHand' = InHand
    <2>1. InHand = [u \in Takers |-> InHand[u]] /\ InHand' = [u \in Takers |-> InHand'[u]]
      BY DEF InHand, Takers
    <2>2. \A u \in Takers : (pc'[u] = "holdFull" <=> pc[u] = "holdFull") /\ slot'[u] = slot[u]
      BY <1>1, TheThreads
    <2>3. \A u \in Takers : InHand'[u] = InHand[u]
      <3> TAKE u \in Takers
      <3> QED
        BY <1>1, <2>2, HandsAre
    <2> QED
      BY <2>1, <2>3
  <1>7. Len(Messages) + Cardinality({t \in Takers : InHand[t] # {}}) < MaxMsgs
    <2> DEFINE H == {t \in Takers : InHand[t] # {}}
    <2>1. \A t \in H : t \in Takers /\ pc[t] = "holdFull"
      BY HandsAre
    <2>2. Cardinality(H) = IF H = {} THEN 0 ELSE 1
      <3>1. \A x, y \in H : x = y
        BY <2>1, OneTaker
      <3> HIDE DEF H
      <3> QED
        BY <3>1, CountOne
    <2>3. H # {} => fullCount + 1 < MaxMsgs
      BY <1>2, <2>1
    <2> HIDE DEF H
    <2>4. Len(Messages) + Cardinality(H) < MaxMsgs
      BY <1>2, <1>4, <2>2, <2>3
    <2> QED
      BY <2>4 DEF H
  <1>8. PICK b \in Bodies : b = outgoing[s]
    BY <1>3
  <1>9. QueueIsFifo!FifoSend(b)
    BY <1>5, <1>6, <1>7, <1>8 DEF QueueIsFifo!FifoSend, QueueIsFifo!Cardinality, Cardinality, Messages, InHand, Takers
  <1> QED
    BY <1>9 DEF QueueIsFifo!FifoNext

(* Taking a full slot receives the oldest message. *)
LEMMA TakeFullRefines ==
    ASSUME NEW s, NEW r, Single(s, r), IInv(s, r), TypeOK', NEW t \in Takers,
           pc[t] # "holdFull", Q!TakeFull(t), UNCHANGED pool
    PROVE  QueueIsFifo!FifoNext
  <1>1. /\ fullCount > 0 /\ slot' = [slot EXCEPT ![t] = read]
        /\ read' = (read + 1) % MaxMsgs /\ fullCount' = fullCount - 1
        /\ pc' = [pc EXCEPT ![t] = "holdFull"]
    BY DEF Q!TakeFull
  <1>2. TypeOK
    BY DEF IInv
  <1>3. /\ MaxMsgs \in Nat \ {0} /\ fullCount \in 1 .. MaxMsgs /\ read \in 0 .. MaxMsgs - 1
    BY <1>1, <1>2, Counters DEF Holding, TypeOK, Q!TypeOK, Q!Slots
  <1>4. /\ pc'[t] = "holdFull" /\ slot'[t] = read
        /\ \A u \in Takers \ {t} : pc'[u] = pc[u] /\ slot'[u] = slot[u]
    BY <1>1, <1>2, TheThreads DEF TypeOK, Q!TypeOK
  <1>5. Messages \in Seq(Bodies) /\ Len(Messages) = fullCount
        /\ \A i \in 1 .. fullCount : Messages[i] = pool[Nth(i - 1)].body
    BY MessagesAre
  <1>6. Head(Messages) = pool[read].rest /\ Messages # <<>>
    <2>1. 1 \in 1 .. fullCount /\ 1 - 1 = 0 /\ 0 \in 0 .. fullCount - 1
      BY <1>3
    <2>2. pool[Nth(0)].body = pool[Nth(0)].rest /\ Nth(0) = read
      BY <1>2, <2>1, Ring DEF IInv, QueueFilled
    <2>3. Messages[1] = pool[read].rest
      BY <1>5, <2>1, <2>2
    <2> QED
      BY <1>3, <1>5, <2>3
  <1>7. Messages' = Tail(Messages)
    <2>1. Messages' = [i \in 1 .. fullCount - 1 |-> pool[(read' + i - 1) % MaxMsgs].body]
      BY <1>1 DEF Messages
    <2>2. Tail(Messages) \in Seq(Bodies) /\ Len(Tail(Messages)) = fullCount - 1
          /\ \A i \in 1 .. fullCount - 1 : Tail(Messages)[i] = Messages[i + 1]
      BY <1>3, <1>5
    <2>3. Tail(Messages) = [i \in 1 .. fullCount - 1 |-> Tail(Messages)[i]]
      BY <1>3, <2>2, LenProperties
    <2>4. ASSUME NEW i \in 1 .. fullCount - 1
          PROVE  pool[(read' + i - 1) % MaxMsgs].body = Messages[i + 1]
      <3>1. /\ i - 1 \in 0 .. MaxMsgs - 1 /\ read' + (i - 1) = read' + i - 1
            /\ (i - 1) + 1 = i /\ (i + 1) - 1 = i /\ i + 1 \in 1 .. fullCount
        <4>1. read' \in Int
          BY <1>1, <1>3
        <4> QED
          BY <1>3, <4>1
      <3>2. \A j \in 0 .. MaxMsgs - 1 : (read' + j) % MaxMsgs = Nth(j + 1)
        BY <1>1, <1>2, RingTurns DEF Nth
      <3>3. (read' + i - 1) % MaxMsgs = Nth(i)
        BY <3>1, <3>2
      <3> QED
        BY <1>5, <3>1, <3>3
    <2> QED
      BY <2>1, <2>2, <2>3, <2>4
  <1>8. InHand' = [InHand EXCEPT ![t] = {Head(Messages)}] /\ InHand[t] = {}
    BY <1>4, <1>6, HandsChange, HandsAre
  <1>9. QueueIsFifo!FifoReceive(t)
    BY <1>6, <1>7, <1>8 DEF QueueIsFifo!FifoReceive, Messages, InHand
  <1> QED
    BY <1>9 DEF QueueIsFifo!FifoNext, Takers

(* Giving the slot back releases the message. *)
LEMMA PutEmptyRefines ==
    ASSUME NEW s, NEW r, Single(s, r), IInv(s, r), TypeOK', NEW t \in Takers,
           Q!PutEmpty(t), UNCHANGED pool
    PROVE  QueueIsFifo!FifoNext
  <1>1. /\ pc[t] = "holdFull" /\ pc'[t] = "idle" /\ UNCHANGED <<read, fullCount>>
        /\ \A u \in Takers : u # t => pc'[u] = pc[u]
        /\ \A u \in {s, r, Owner} : u # t => slot'[u] = slot[u]
    BY PutEmptyEffect
  <1>2. Messages' = Messages
    BY <1>1 DEF Messages
  <1>3. InHand' = [InHand EXCEPT ![t] = {}] /\ InHand[t] # {}
    <2>1. \A u \in Takers \ {t} : pc'[u] = pc[u] /\ slot'[u] = slot[u]
      BY <1>1, TheThreads
    <2>2. InHand' = [InHand EXCEPT ![t] = IF pc'[t] = "holdFull" THEN {pool'[slot'[t]].rest} ELSE {}]
      BY <2>1, HandsChange
    <2>3. InHand[t] = {pool[slot[t]].rest}
      BY <1>1, HandsAre
    <2> QED
      BY <1>1, <2>2, <2>3
  <1>4. QueueIsFifo!FifoRelease(t)
    BY <1>2, <1>3 DEF QueueIsFifo!FifoRelease, Messages, InHand
  <1> QED
    BY <1>4 DEF QueueIsFifo!FifoNext, Takers

(***************************************************************************)
(* Every step of the queue is one of the abstract queue, or hidden from it.*)
(***************************************************************************)
LEMMA SenderRefines ==
    ASSUME NEW s, NEW r, Single(s, r), IInv(s, r), TypeOK', SendStep(s)
    PROVE  [QueueIsFifo!FifoNext]_(QueueIsFifo!fifoVars)
  <1>0. TypeOK /\ s \notin Takers
    BY TheThreads DEF IInv
  <1>1. CASE SendPuts(s)
    BY <1>1, SendPutsRefines
  <1>2. CASE SendCopies(s)
    <2>1. /\ pc[s] = "holdEmpty" /\ UNCHANGED <<read, fullCount, pc, slot>>
          /\ \A k \in Q!Slots : k # slot[s] => pool'[k] = pool[k]
      BY <1>0, <1>2 DEF SendCopies, Q!HeldEmpty, Q!At, queVars, TypeOK
    <2>2. /\ \A i \in 0 .. fullCount - 1 : pool'[Nth(i)] = pool[Nth(i)]
          /\ \A t \in Takers : pc[t] = "holdFull" => pool'[slot[t]] = pool[slot[t]]
      BY <2>1, FillsApart
    <2> QED
      BY <2>1, <2>2, FifoStutters
  <1>3. CASE (\E b \in Bodies : SendBegins(s, b)) \/ SendFails(s) \/ SendResumes(s)
    <2>1. /\ UNCHANGED <<read, fullCount, pool>>
          /\ \/ pc' = [pc EXCEPT ![s] = "waitEmpty"] /\ slot' = slot
             \/ pc' = [pc EXCEPT ![s] = "idle"] /\ slot' = slot
             \/ pc' = [pc EXCEPT ![s] = "holdEmpty"] /\ slot' = [slot EXCEPT ![s] = write]
      BY <1>3 DEF SendBegins, SendFails, SendResumes, Q!GetEmpty, Q!ResumeEmpty, Q!WaitTimesOut,
                  Q!TakeEmpty, Q!Block, Q!ReturnNull, Q!que, msgVars
    <2>2. \A t \in Takers : pc'[t] = pc[t] /\ slot'[t] = slot[t]
      BY <1>0, <2>1, TheThreads DEF TypeOK, Q!TypeOK
    <2> QED
      BY <2>1, <2>2, FifoStutters
  <1> QED
    BY <1>1, <1>2, <1>3 DEF SendStep

LEMMA ReceiverRefines ==
    ASSUME NEW s, NEW r, Single(s, r), IInv(s, r), TypeOK', ReceiveStep(r)
    PROVE  [QueueIsFifo!FifoNext]_(QueueIsFifo!fifoVars)
  <1>0. TypeOK /\ r \in Takers
    BY TheThreads DEF IInv
  <1>1. CASE ReceiveBegins(r) \/ ReceiveResumes(r)
    <2>1. /\ pc[r] \in {"idle", "waitFull", "wokenFull"} /\ UNCHANGED pool
          /\ \/ Q!TakeFull(r)
             \/ /\ \/ pc' = [pc EXCEPT ![r] = "idle"]
                   \/ pc' = [pc EXCEPT ![r] = "waitFull"]
                /\ UNCHANGED <<read, fullCount, slot>>
      BY <1>1 DEF ReceiveBegins, ReceiveResumes, Q!GetFull, Q!ResumeFull, Q!WaitTimesOut,
                  Q!ReturnNull, Q!Block, Q!que, IInv, Places
    <2>2. CASE Q!TakeFull(r)
      BY <1>0, <2>1, <2>2, TakeFullRefines
    <2>3. CASE /\ \/ pc' = [pc EXCEPT ![r] = "idle"]
                  \/ pc' = [pc EXCEPT ![r] = "waitFull"]
               /\ UNCHANGED <<read, fullCount, slot>>
      <3>1. \A t \in Takers : pc'[t] = "holdFull" <=> pc[t] = "holdFull"
        BY <1>0, <2>1, <2>3, TheThreads DEF TypeOK, Q!TypeOK
      <3> QED
        BY <2>1, <2>3, <3>1, FifoStutters
    <2> QED
      BY <2>1, <2>2, <2>3
  <1>2. CASE Consume(r)
    BY <1>2, FifoStutters DEF Consume, queVars
  <1>3. CASE Release(r)
    BY <1>0, <1>3, PutEmptyRefines DEF Release, msgVars
  <1> QED
    BY <1>1, <1>2, <1>3 DEF ReceiveStep

LEMMA OwnerRefines ==
    ASSUME NEW s, NEW r, Single(s, r), IInv(s, r), TypeOK', DestroyBegins \/ DestroyStep
    PROVE  [QueueIsFifo!FifoNext]_(QueueIsFifo!fifoVars)
  <1>0. TypeOK /\ Owner \in Takers
    BY TheThreads DEF IInv
  <1>1. CASE DrainTakes
    BY <1>0, <1>1, TakeFullRefines DEF DrainTakes
  <1>2. CASE DrainPuts
    BY <1>0, <1>2, PutEmptyRefines DEF DrainPuts, msgVars
  <1>3. CASE DrainFrees
    <2>1. /\ Owner \in unread /\ pc[Owner] = "holdFull"
          /\ UNCHANGED <<read, fullCount, pc, slot>>
          /\ pool' = [pool EXCEPT ![slot[Owner]].body = NoBody]
      BY <1>3 DEF DrainFrees, queVars, IInv, TakerOwns
    <2>2. /\ \A k \in Q!Slots : k # slot[Owner] => pool'[k] = pool[k]
          /\ \A k \in Q!Slots : pool'[k].rest = pool[k].rest
      BY <1>0, <2>1 DEF TypeOK
    <2>3. \A i \in 0 .. fullCount - 1 : Nth(i) \in Q!Slots /\ Nth(i) # slot[Owner]
      <3>1. /\ slot[Owner] = Nth(MaxMsgs - 1) /\ fullCount + 1 <= MaxMsgs
            /\ fullCount \in Nat /\ MaxMsgs \in Nat \ {0}
        BY <1>0, <2>1, Counters DEF IInv, Window, Holding
      <3> TAKE i \in 0 .. fullCount - 1
      <3>2. i \in 0 .. MaxMsgs /\ i \in 0 .. MaxMsgs - 1 /\ MaxMsgs - 1 \in 0 .. MaxMsgs - 1 /\ i # MaxMsgs - 1
        BY <3>1
      <3> QED
        BY <1>0, <3>1, <3>2, Ring
    <2>4. \A t \in Takers : pc[t] = "holdFull" => slot[t] \in Q!Slots
      <3>1. MaxMsgs - 1 \in 0 .. MaxMsgs
        BY Counters
      <3> QED
        BY <1>0, <3>1, Ring DEF IInv, Window
    <2> QED
      BY <2>1, <2>2, <2>3, <2>4, FifoStutters
  <1>4. CASE DestroyBegins \/ DestroyFrees
    BY <1>4, FifoStutters DEF DestroyBegins, DestroyFrees, Q!DeleteFree, Q!que, queVars, msgVars
  <1>5. CASE DestroyDeletes
    <2>1. /\ UNCHANGED <<read, fullCount, pool, slot>>
          /\ pc' = Q!Broadcast(Q!Broadcast(pc, "waitFull", "wokenFull"), "waitEmpty", "wokenEmpty")
      BY <1>5 DEF DestroyDeletes, Q!DeleteMark, Q!que, msgVars
    <2>2. \A t \in Takers : pc'[t] = "holdFull" <=> pc[t] = "holdFull"
      BY <2>1, TheThreads DEF Q!Broadcast
    <2> QED
      BY <2>1, <2>2, FifoStutters
  <1> QED
    BY <1>1, <1>2, <1>3, <1>4, <1>5 DEF DestroyStep

LEMMA StepRefines ==
    ASSUME NEW s, NEW r, Single(s, r), IInv(s, r), TypeOK', [Next]_vars
    PROVE  [QueueIsFifo!FifoNext]_(QueueIsFifo!fifoVars)
  <1>1. CASE UNCHANGED vars
    BY <1>1, FifoStutters DEF vars, queVars, msgVars
  <1>2. ASSUME NEW t \in Senders \cup Receivers, Q!SpuriousWakeup(t), UNCHANGED msgVars
        PROVE  UNCHANGED QueueIsFifo!fifoVars
    <2>1. /\ UNCHANGED <<read, fullCount, pool, slot>>
          /\ \/ pc[t] = "waitEmpty" /\ pc' = [pc EXCEPT ![t] = "wokenEmpty"]
             \/ pc[t] = "waitFull" /\ pc' = [pc EXCEPT ![t] = "wokenFull"]
      BY <1>2 DEF Q!SpuriousWakeup, Q!que, msgVars
    <2>2. \A u \in Takers : pc'[u] = "holdFull" <=> pc[u] = "holdFull"
      BY <2>1, TheThreads DEF IInv, TypeOK, Q!TypeOK
    <2> QED
      BY <2>1, <2>2, FifoStutters
  <1> QED
    BY <1>1, <1>2, SenderRefines, ReceiverRefines, OwnerRefines DEF Next, Single

(* With one sender and one receiver the ring of slots is a bounded FIFO of *)
(* messages: none is lost, repeated or overtaken, the last field of each   *)
(* is the one that was sent, and msg_queue_destroy drains it in order.     *)
THEOREM RefinesFifo ==
    ASSUME NEW CONSTANT s, NEW CONSTANT r, Single(s, r)
    PROVE  Spec => ImplementsFifo
  <1>1. Init => QueueIsFifo!FifoInit
    <2> SUFFICES ASSUME Init PROVE QueueIsFifo!FifoInit
      OBVIOUS
    <2>1. Messages = <<>>
      BY DEF Init, Q!Init, Messages
    <2>2. InHand = [t \in Receivers \cup {Owner} |-> {}]
      BY DEF Init, Q!Init, InHand, Q!HeldFull, Q!At
    <2> QED
      BY <2>1, <2>2 DEF QueueIsFifo!FifoInit, Messages, InHand
  <1>2. IInv(s, r) /\ IInv(s, r)' /\ [Next]_vars => [QueueIsFifo!FifoNext]_(QueueIsFifo!fifoVars)
    BY StepRefines DEF IInv
  <1> QED
    BY <1>1, <1>2, Invariance, PTL DEF Spec, ImplementsFifo, QueueIsFifo!FifoSpec
-----------------------------------------------------------------------------
(***************************************************************************)
(* The slot queue below.  Its theorems hold inside the message queue,      *)
(* because msgqueue.c keeps to the client rules of CommQue; here there may *)
(* be any number of senders and receivers.                                 *)
(***************************************************************************)
SlotQueue == INSTANCE CommQue_proofs WITH
                Producers <- Senders, Consumers <- Receivers \cup {Owner},
                MaxCount <- MaxMsgs, SleepSuffices <- TRUE

LEMMA SameGets ==
    ASSUME NEW t
    PROVE  /\ Q!GetEmpty(t) => SlotQueue!GetEmpty(t)
           /\ Q!ResumeEmpty(t) => SlotQueue!ResumeEmpty(t)
           /\ ~freed /\ pc[t] = "idle" /\ Q!TakeFull(t) => SlotQueue!GetFull(t)
           /\ Q!GetFull(t) => SlotQueue!GetFull(t)
           /\ Q!ResumeFull(t) => SlotQueue!ResumeFull(t)
           /\ Q!WaitTimesOut(t) => SlotQueue!WaitTimesOut(t)
           /\ Q!SpuriousWakeup(t) => SlotQueue!SpuriousWakeup(t)
  BY DEF Q!GetEmpty, Q!TakeEmpty, Q!ResumeEmpty, Q!GetFull, Q!TakeFull, Q!ResumeFull,
         Q!WaitTimesOut, Q!SpuriousWakeup, Q!Block, Q!ReturnNull, Q!que,
         SlotQueue!GetEmpty, SlotQueue!TakeEmpty, SlotQueue!ResumeEmpty, SlotQueue!GetFull,
         SlotQueue!TakeFull, SlotQueue!ResumeFull, SlotQueue!WaitTimesOut,
         SlotQueue!SpuriousWakeup, SlotQueue!Block, SlotQueue!ReturnNull, SlotQueue!que

LEMMA SamePuts ==
    ASSUME NEW t
    PROVE  /\ Q!PutFull(t) => SlotQueue!PutFull(t)
           /\ Q!PutEmpty(t) => SlotQueue!PutEmpty(t)
  BY DEF Q!PutFull, Q!PutEmpty, Q!GiveBack, Q!Signal, Q!Threads, Q!NoSlot,
         SlotQueue!PutFull, SlotQueue!PutEmpty, SlotQueue!GiveBack, SlotQueue!Signal,
         SlotQueue!Threads, SlotQueue!NoSlot

LEMMA SameDelete ==
    /\ Q!DeleteMark => SlotQueue!DeleteMark
    /\ Q!DeleteFree => SlotQueue!DeleteFree
  BY DEF Q!DeleteMark, Q!Broadcast, Q!Threads, Q!DeleteFree, Q!InQueue, Q!At, Q!que,
         SlotQueue!DeleteMark, SlotQueue!Broadcast, SlotQueue!Threads, SlotQueue!DeleteFree,
         SlotQueue!InQueue, SlotQueue!At, SlotQueue!que

FreedAfterDestroyed == freed => isDestroyed

LEMMA StepUsesSlotQueue ==
    ASSUME FreedAfterDestroyed, [Next]_vars
    PROVE  [SlotQueue!Next]_(SlotQueue!vars)
  <1>1. CASE UNCHANGED queVars
    BY <1>1 DEF queVars, SlotQueue!vars, SlotQueue!que
  <1>2. ASSUME NEW t \in Senders, SendStep(t)
        PROVE  SlotQueue!Next \/ UNCHANGED queVars
    <2>1. t \in SlotQueue!Threads
      BY DEF SlotQueue!Threads
    <2>2. \/ Q!GetEmpty(t) \/ Q!ResumeEmpty(t) \/ Q!WaitTimesOut(t) \/ Q!PutFull(t)
          \/ UNCHANGED queVars
      BY <1>2 DEF SendStep, SendBegins, SendFails, SendResumes, SendCopies, SendPuts
    <2> QED
      BY <2>1, <2>2, SameGets, SamePuts DEF SlotQueue!Next, SlotQueue!GetPutNext
  <1>3. ASSUME NEW t \in Receivers, ReceiveStep(t)
        PROVE  SlotQueue!Next \/ UNCHANGED queVars
    <2>1. t \in SlotQueue!Threads
      BY DEF SlotQueue!Threads
    <2>2. \/ Q!GetFull(t) \/ Q!ResumeFull(t) \/ Q!WaitTimesOut(t) \/ Q!PutEmpty(t)
          \/ UNCHANGED queVars
      BY <1>3 DEF ReceiveStep, ReceiveBegins, ReceiveResumes, Consume, Release
    <2> QED
      BY <2>1, <2>2, SameGets, SamePuts DEF SlotQueue!Next, SlotQueue!GetPutNext
  <1>4. ASSUME NEW t \in Senders \cup Receivers, Q!SpuriousWakeup(t)
        PROVE  SlotQueue!Next
    BY <1>4, SameGets DEF SlotQueue!Next, SlotQueue!GetPutNext, SlotQueue!Threads
  <1>5. CASE DestroyBegins
    BY <1>1, <1>5 DEF DestroyBegins
  <1>6. CASE DestroyStep
    <2>1. CASE DrainTakes
      <3>1. ~freed /\ pc[Owner] = "idle" /\ Q!TakeFull(Owner)
        BY <2>1 DEF DrainTakes, Q!TakeFull, FreedAfterDestroyed
      <3> QED
        BY <3>1, SameGets DEF SlotQueue!Next, SlotQueue!GetPutNext
    <2>2. CASE DrainPuts
      BY <2>2, SamePuts DEF DrainPuts, SlotQueue!Next, SlotQueue!GetPutNext
    <2>3. CASE DrainFrees
      BY <1>1, <2>3 DEF DrainFrees
    <2>4. CASE DestroyDeletes \/ DestroyFrees
      BY <2>4, SameDelete DEF DestroyDeletes, DestroyFrees, SlotQueue!Next, SlotQueue!GetPutNext
    <2> QED
      BY <1>6, <2>1, <2>2, <2>3, <2>4 DEF DestroyStep
  <1> QED
    BY <1>1, <1>2, <1>3, <1>4, <1>5, <1>6 DEF Next, vars

LEMMA FreedStep ==
    ASSUME FreedAfterDestroyed, [Next]_vars
    PROVE  FreedAfterDestroyed'
  <1>1. \A t : \/ Q!GetEmpty(t) \/ Q!ResumeEmpty(t) \/ Q!GetFull(t) \/ Q!TakeFull(t)
              \/ Q!ResumeFull(t) \/ Q!WaitTimesOut(t) \/ Q!SpuriousWakeup(t)
              \/ Q!PutFull(t) \/ Q!PutEmpty(t)
              => isDestroyed' = isDestroyed /\ freed' = freed
    BY DEF Q!GetEmpty, Q!TakeEmpty, Q!ResumeEmpty, Q!GetFull, Q!TakeFull, Q!ResumeFull,
                Q!WaitTimesOut, Q!SpuriousWakeup, Q!Block, Q!ReturnNull,
                Q!PutFull, Q!PutEmpty, Q!GiveBack
  <1>2. CASE UNCHANGED queVars
    BY <1>2 DEF queVars, FreedAfterDestroyed
  <1>3. ASSUME NEW t, SendStep(t) \/ ReceiveStep(t)
        PROVE  FreedAfterDestroyed'
    <2>1. \/ Q!GetEmpty(t) \/ Q!ResumeEmpty(t) \/ Q!GetFull(t) \/ Q!ResumeFull(t)
          \/ Q!WaitTimesOut(t) \/ Q!PutFull(t) \/ Q!PutEmpty(t) \/ UNCHANGED queVars
      BY <1>3 DEF SendStep, SendBegins, SendFails, SendResumes, SendCopies, SendPuts,
                  ReceiveStep, ReceiveBegins, ReceiveResumes, Consume, Release
    <2>2. CASE ~ UNCHANGED queVars
      <3>1. isDestroyed' = isDestroyed /\ freed' = freed
        BY <1>1, <2>1, <2>2
      <3> QED
        BY <3>1 DEF FreedAfterDestroyed
    <2> QED
      BY <1>2, <2>2
  <1>4. CASE DestroyBegins \/ DrainTakes \/ DrainFrees \/ DrainPuts
    <2>1. Q!TakeFull(Owner) \/ Q!PutEmpty(Owner) \/ UNCHANGED queVars
      BY <1>4 DEF DestroyBegins, DrainTakes, DrainFrees, DrainPuts
    <2>2. CASE ~ UNCHANGED queVars
      <3>1. isDestroyed' = isDestroyed /\ freed' = freed
        BY <1>1, <2>1, <2>2
      <3> QED
        BY <3>1 DEF FreedAfterDestroyed
    <2> QED
      BY <1>2, <2>2
  <1>5. CASE DestroyDeletes \/ DestroyFrees
    BY <1>5 DEF DestroyDeletes, DestroyFrees, Q!DeleteMark, Q!DeleteFree, FreedAfterDestroyed
  <1>6. ASSUME NEW t, Q!SpuriousWakeup(t)
        PROVE  FreedAfterDestroyed'
    <2>1. isDestroyed' = isDestroyed /\ freed' = freed
      BY <1>1, <1>6
    <2> QED
      BY <2>1 DEF FreedAfterDestroyed
  <1> QED
    BY <1>2, <1>3, <1>4, <1>5, <1>6 DEF Next, DestroyStep, vars

(* Every behaviour of the message queue is, below, one of the slot queue   *)
(* under its client rules: msg_queue_send gives back the slot it was given, *)
(* the drain of msg_queue_destroy never touches a queue that is freed.     *)
THEOREM KeepsSlotQueueRules == Spec => SlotQueue!Spec
  <1>1. Init => FreedAfterDestroyed /\ SlotQueue!Init
    BY DEF Init, Q!Init, Q!Threads, Q!NoSlot, SlotQueue!Init, SlotQueue!Threads, SlotQueue!NoSlot,
           FreedAfterDestroyed
  <1>2. FreedAfterDestroyed /\ [Next]_vars => FreedAfterDestroyed'
    BY FreedStep
  <1>3. FreedAfterDestroyed /\ [Next]_vars => [SlotQueue!Next]_(SlotQueue!vars)
    BY StepUsesSlotQueue
  <1> QED
    BY <1>1, <1>2, <1>3, PTL DEF Spec, SlotQueue!Spec

(* So slots are conserved and no wakeup is lost with any number of senders *)
(* and receivers, also where these get the wrong message.                  *)
THEOREM SlotQueueKeepsFaith ==
    ASSUME IsFiniteSet(Senders), IsFiniteSet(Receivers)
    PROVE  Spec => [](Q!SlotConservation /\ Q!CursorsAgree /\ Q!NoLostWakeup)
  <1>1. SlotQueue!CommQueAssumption
    <2>1. IsFiniteSet(Receivers \cup {Owner})
      BY FS_AddElement
    <2> QED
      BY <2>1, MsgQueueAssumption DEF MsgQueueAssumption, SlotQueue!CommQueAssumption,
                                      SlotQueue!IsFiniteSet, IsFiniteSet
  <1>2. SlotQueue!Spec => /\ []SlotQueue!SlotConservation /\ []SlotQueue!CursorsAgree
                          /\ []SlotQueue!NoLostWakeup
    BY <1>1, SlotQueue!SlotsConserved, SlotQueue!CursorsStayTogether, SlotQueue!WakeupsSuffice, PTL
  <1>3. SlotQueue!SlotConservation /\ SlotQueue!CursorsAgree /\ SlotQueue!NoLostWakeup
        => Q!SlotConservation /\ Q!CursorsAgree /\ Q!NoLostWakeup
    BY DEF SlotQueue!SlotConservation, SlotQueue!CursorsAgree, SlotQueue!NoLostWakeup,
           SlotQueue!HeldEmpty, SlotQueue!HeldFull, SlotQueue!At, SlotQueue!Threads,
           SlotQueue!Cardinality, Q!SlotConservation, Q!CursorsAgree, Q!NoLostWakeup,
           Q!HeldEmpty, Q!HeldFull, Q!At, Q!Threads, Q!Cardinality
  <1> QED
    BY <1>2, <1>3, KeepsSlotQueueRules, PTL
=============================================================================
