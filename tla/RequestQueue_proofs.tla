------------------------- MODULE RequestQueue_proofs -------------------------
(***************************************************************************)
(* Proofs about RequestQueue for every number of clients, workers and      *)
(* requests.                                                               *)
(***************************************************************************)
EXTENDS RequestQueue, FiniteSetTheorems, SequenceTheorems, TLAPS

Queued == Pending!ToSet(items)

(* Who may be where. *)
Roles == /\ \A c \in Clients : pc[c] \in ClientPc
         /\ \A w \in Workers : pc[w] \in WorkerPc

(* Nothing refers to a request before it is allocated. *)
Allocated ==
    /\ \A t \in Clients \cup Workers : ref[t] # NoReq => heap[ref[t]] # "unused"
    /\ \A r \in Queued \cup table : heap[r] # "unused"

(* Until it is completed a request is in one place: with the client that    *)
(* submits it, once in the pending queue, or with one worker.              *)
Placement ==
    /\ \A i, j \in 1 .. Len(items) : items[i] = items[j] => i = j
    /\ \A w \in Workers : /\ taken[w] = IF ref[w] = NoReq THEN {} ELSE {ref[w]}
                          /\ where[w] # "out" => ref[w] = NoReq
                          /\ ref[w] \notin Queued
    /\ \A v, w \in Workers : ref[v] = ref[w] /\ ref[v] # NoReq => v = w
    /\ \A c \in Clients : pc[c] = "added" =>
          /\ ref[c] \notin Queued
          /\ \A w \in Workers : ref[w] # ref[c]
          /\ \A d \in Clients : pc[d] = "added" /\ ref[d] = ref[c] => d = c

(* What destroy finds: nothing is pending, nobody is in a call.            *)
Shutdown ==
    /\ ~cleaning => toVisit = {}
    /\ stage # "open" => /\ rules = "careful" /\ items = <<>> /\ ~cleaning
                         /\ \A t \in Clients \cup Workers : pc[t] = "idle"

(* The table of careful clients owns the requests that are allocated, and   *)
(* whatever refers to a request refers to one of the table.                *)
Memory ==
    rules = "careful" =>
        /\ \A r \in Reqs : r \in table <=> heap[r] = "live"
        /\ \A r \in Reqs : heap[r] # "freed twice"
        /\ \A t \in Clients \cup Workers : ref[t] # NoReq => ref[t] \in table
        /\ Queued \subseteq table
        /\ toVisit \subseteq table

(* With careful clients the status tells where a request is: one that is    *)
(* done is neither pending nor with a worker.                              *)
Progress ==
    rules = "careful" =>
        /\ \A r \in Queued : status[r] = "PENDING"
        /\ \A c \in Clients : pc[c] = "added" => status[ref[c]] = "PENDING"
        /\ \A w \in Workers : /\ pc[w] = "fetched" => status[ref[w]] = "PENDING"
                              /\ pc[w] = "working" => status[ref[w]] = "PROCESSING"

(* A careful cleanup runs alone, and finds every request of the table done. *)
Cleanup ==
    rules = "careful" =>
        /\ cleaning => ClientsIdle /\ \A r \in table : status[r] \in Terminal
        /\ \A c \in Clients : pc[c] # "cancel"
        /\ ~undefined

IInv == TypeOK /\ Roles /\ Allocated /\ Placement /\ Shutdown /\ Memory /\ Progress /\ Cleanup
-----------------------------------------------------------------------------
(* Every step, with the rules it is taken under.                           *)
CallStep(c) == WaitFindsDone(c) \/ WaitBlocks(c) \/ WaitWakes(c) \/ WaitReturnsZero(c)
               \/ WaitTimesOut(c) \/ SpuriousWakeup(c) \/ ReadOnly(c)
ClientStep(c) ==
    \/ \E r \in Reqs : SubmitAdds(c, r)
    \/ SubmitEnqueues(c)
    \/ \E r \in Reqs, call \in {"wait", "cancel", "status"} :
          (call = "cancel" => rules = "any") /\ LookUp(c, r, call)
    \/ CallStep(c)
    \/ rules = "any" /\ Cancel(c)
WorkerStep(w) == \/ FetchDequeues(w) \/ FetchResumes(w) \/ FetchSpurious(w)
                 \/ FetchMarks(w) \/ Complete(w)
CleanupStep(r) ==
    \/ CleanupKeeps(r) \/ CleanupFrees(r)
    \/ rules = "any" /\ CleanupExpires(r)
Steps ==
    \/ \E c \in Clients : ClientStep(c)
    \/ \E w \in Workers : WorkerStep(w)
    \/ \E r \in Reqs : CleanupStep(r)
    \/ (rules = "careful" => AllDone) /\ CleanupBegins
    \/ CleanupEnds
    \/ rules = "careful" /\ \/ Quiet /\ DestroyMarks
                            \/ DestroyClears \/ DestroyCloses \/ DestroyFreesQueue
                            \/ DestroyEmptiesTable
    \/ rules = "any" /\ \E t \in Clients \cup Workers : UsesFreed(t)

LEMMA StepIs ==
    ASSUME [Next]_vars
    PROVE  (Steps \/ UNCHANGED vars) /\ rules' = rules
  <1>1. CASE UNCHANGED vars
    BY <1>1 DEF vars
  <1>2. CASE Next
    <2>1. rules' = rules
      BY <1>2 DEF Next
    <2>2. CASE ServeNext
      BY <2>1, <2>2 DEF ServeNext, Steps, ClientStep, WorkerStep
    <2>3. CASE WaitNext
      BY <2>1, <2>3 DEF WaitNext, Steps, ClientStep, CallStep
    <2>4. CASE CleanupNext
      BY <2>1, <2>4 DEF CleanupNext, Steps, CleanupStep
    <2>5. CASE rules = "careful" /\ CarefulNext
      BY <2>1, <2>5 DEF CarefulNext, Steps
    <2>6. CASE rules = "any" /\ AnyNext
      BY <2>1, <2>6 DEF AnyNext, Steps, ClientStep, CleanupStep
    <2> QED
      BY <1>2, <2>2, <2>3, <2>4, <2>5, <2>6 DEF Next
  <1> QED
    BY <1>1, <1>2

LEMMA QueuedIs ==
    ASSUME TypeOK
    PROVE  /\ Queued = {items[i] : i \in 1 .. Len(items)}
           /\ items \in Seq(Reqs) /\ Len(items) \in Nat
           /\ Queued \subseteq Reqs
  BY DEF TypeOK, Pending!QTypeOK, Queued, Pending!ToSet

(* Taking from the front and adding at the rear of a queue without          *)
(* duplicates.                                                             *)
LEMMA HeadLeaves ==
    ASSUME TypeOK, Placement, items # <<>>
    PROVE  /\ Head(items) \in Queued /\ Head(items) \in Reqs
           /\ Tail(items) \in Seq(Reqs)
           /\ \A i, j \in 1 .. Len(Tail(items)) : Tail(items)[i] = Tail(items)[j] => i = j
           /\ {Tail(items)[i] : i \in 1 .. Len(Tail(items))} = Queued \ {Head(items)}
  <1>1. /\ items \in Seq(Reqs) /\ Len(items) \in Nat /\ Len(items) # 0
        /\ \A x : x \in Queued <=> \E i \in 1 .. Len(items) : x = items[i]
    BY QueuedIs
  <1>2. /\ Tail(items) \in Seq(Reqs) /\ Len(Tail(items)) = Len(items) - 1
        /\ \A i \in 1 .. Len(items) - 1 : Tail(items)[i] = items[i + 1]
        /\ Head(items) = items[1]
    BY <1>1, HeadTailProperties
  <1>3. \A i, j \in 1 .. Len(items) : items[i] = items[j] => i = j
    BY DEF Placement
  <1>4. \A i, j \in 1 .. Len(items) - 1 : Tail(items)[i] = Tail(items)[j] => i = j
    BY <1>1, <1>2, <1>3
  <1>5. ASSUME NEW x
        PROVE  (\E i \in 1 .. Len(items) - 1 : x = Tail(items)[i]) <=> x \in Queued /\ x # Head(items)
    <2>1. ASSUME NEW i \in 1 .. Len(items) - 1, x = Tail(items)[i]
          PROVE  x \in Queued /\ x # Head(items)
      BY <1>1, <1>2, <1>3, <2>1
    <2>2. ASSUME x \in Queued, x # Head(items)
          PROVE  \E i \in 1 .. Len(items) - 1 : x = Tail(items)[i]
      <3>1. PICK k \in 1 .. Len(items) : x = items[k]
        BY <1>1, <2>2
      <3>2. k # 1 /\ k - 1 \in 1 .. Len(items) - 1 /\ (k - 1) + 1 = k
        BY <1>1, <1>2, <2>2, <3>1
      <3> QED
        BY <1>2, <3>1, <3>2
    <2> QED
      BY <2>1, <2>2
  <1>6. Head(items) \in Queued /\ Head(items) \in Reqs
    <2>1. 1 \in 1 .. Len(items)
      BY <1>1
    <2> QED
      BY <1>1, <1>2, <2>1
  <1>7. 1 .. Len(Tail(items)) = 1 .. Len(items) - 1
    BY <1>2
  <1>8. {Tail(items)[i] : i \in 1 .. Len(items) - 1} = Queued \ {Head(items)}
    BY <1>5
  <1> QED
    BY <1>2, <1>4, <1>6, <1>7, <1>8

LEMMA RearEnters ==
    ASSUME TypeOK, Placement, NEW r \in Reqs, r \notin Queued
    PROVE  /\ Append(items, r) \in Seq(Reqs)
           /\ \A i, j \in 1 .. Len(Append(items, r)) :
                 Append(items, r)[i] = Append(items, r)[j] => i = j
           /\ {Append(items, r)[i] : i \in 1 .. Len(Append(items, r))} = Queued \cup {r}
  <1>1. /\ items \in Seq(Reqs) /\ Len(items) \in Nat
        /\ \A x : x \in Queued <=> \E i \in 1 .. Len(items) : x = items[i]
    BY QueuedIs
  <1>2. /\ Append(items, r) \in Seq(Reqs) /\ Len(Append(items, r)) = Len(items) + 1
        /\ \A i \in 1 .. Len(items) : Append(items, r)[i] = items[i]
        /\ Append(items, r)[Len(items) + 1] = r
    BY <1>1
  <1>3. \A i \in 1 .. Len(items) : items[i] # r
    BY <1>1
  <1>4. \A i, j \in 1 .. Len(items) : items[i] = items[j] => i = j
    BY DEF Placement
  <1>5. \A i \in 1 .. Len(items) + 1 : i \in 1 .. Len(items) \/ i = Len(items) + 1
    BY <1>1
  <1>6. \A i, j \in 1 .. Len(items) + 1 : Append(items, r)[i] = Append(items, r)[j] => i = j
    BY <1>2, <1>3, <1>4, <1>5
  <1>7. \A x : (\E i \in 1 .. Len(items) + 1 : x = Append(items, r)[i]) <=> x \in Queued \cup {r}
    <2>1. Len(items) + 1 \in 1 .. Len(items) + 1 /\ 1 .. Len(items) \subseteq 1 .. Len(items) + 1
      BY <1>1
    <2> QED
      BY <1>1, <1>2, <1>5, <2>1
  <1> QED
    BY <1>2, <1>6, <1>7

(* A fetch either takes the front of the queue or leaves the queue alone.   *)
FetchGets(w) ==
    /\ items # <<>> /\ items' = Tail(items)
    /\ pc[w] = "idle" /\ pc' = [pc EXCEPT ![w] = "fetched"]
    /\ ref[w] = NoReq /\ ref' = [ref EXCEPT ![w] = Head(items)]
    /\ taken' = [taken EXCEPT ![w] = {Head(items)}]
    /\ where' = [where EXCEPT ![w] = "out"]
    /\ UNCHANGED <<closed, queueFreed, heap, table, reqVars, cleanVars, lifeVars>>
FetchWaits(w) ==
    /\ ref[w] = NoReq
    /\ \E x \in {"out", "wait", "woken"} : where' = [where EXCEPT ![w] = x]
    /\ UNCHANGED <<items, taken, pc, ref, closed, queueFreed, heap, table, reqVars,
                   cleanVars, lifeVars>>

LEMMA FetchIs ==
    ASSUME TypeOK, Placement, NEW w \in Workers,
           FetchDequeues(w) \/ FetchResumes(w) \/ FetchSpurious(w)
    PROVE  FetchGets(w) \/ FetchWaits(w)
  <1> USE DEF TypeOK, Pending!QTypeOK, Placement
  <1>1. ref[w] = NoReq /\ pc[w] = "idle" /\ taken[w] = {}
    BY DEF FetchDequeues, FetchResumes, FetchSpurious, Pending!DequeueResumes, Pending!WakesSpuriously
  <1>2. ASSUME Pending!TakeFront(w), Took(w),
               UNCHANGED <<table, reqVars, cleanVars, lifeVars>>
        PROVE  FetchGets(w)
    <2>1. taken' = [taken EXCEPT ![w] = {Head(items)}] /\ taken'[w] = {Head(items)}
      BY <1>2 DEF Pending!TakeFront
    <2>2. ref' = [ref EXCEPT ![w] = Head(items)] /\ pc' = [pc EXCEPT ![w] = "fetched"]
      <3>1. (CHOOSE r \in {Head(items)} : TRUE) = Head(items)
        OBVIOUS
      <3> QED
        BY <1>2, <2>1, <3>1 DEF Took
    <2> QED
      BY <1>1, <1>2, <2>1, <2>2 DEF Pending!TakeFront, FetchGets
  <1>3. ASSUME UNCHANGED taken, Took(w)
        PROVE  pc' = pc /\ ref' = ref
    BY <1>1, <1>3 DEF Took
  <1>4. CASE FetchDequeues(w)
    <2>1. CASE Pending!Dequeue(w)
      BY <1>2, <1>4, <2>1 DEF FetchDequeues, Pending!Dequeue
    <2>2. CASE Pending!DequeueWaits(w)
      BY <1>1, <1>3, <1>4, <2>2 DEF FetchDequeues, Pending!DequeueWaits, FetchWaits
    <2> QED
      BY <1>4, <2>1, <2>2 DEF FetchDequeues
  <1>5. CASE FetchResumes(w)
    <2>1. CASE Pending!TakeFront(w)
      BY <1>2, <1>5, <2>1 DEF FetchResumes
    <2>2. CASE ~Pending!TakeFront(w)
      BY <1>1, <1>3, <1>5, <2>2
      DEF FetchResumes, Pending!DequeueResumes, Pending!ReturnNull, FetchWaits
    <2> QED
      BY <2>1, <2>2
  <1>6. CASE FetchSpurious(w)
    BY <1>1, <1>6 DEF FetchSpurious, FetchWaits, Pending!WakesSpuriously, callVars
  <1> QED
    BY <1>4, <1>5, <1>6

LEMMA SameQueue == items' = items => Queued' = Queued
  BY DEF Queued, Pending!ToSet

LEMMA EnqueueIs ==
    ASSUME TypeOK, Placement, NEW c \in Clients, SubmitEnqueues(c)
    PROVE  /\ ref[c] \in Reqs /\ ref[c] \notin Queued
           /\ items' = Append(items, ref[c])
           /\ Queued' = Queued \cup {ref[c]}
           /\ UNCHANGED <<taken, heap>>
           /\ \A w \in Workers : where'[w] # "out" => where[w] # "out"
           /\ where' \in [Workers -> {"out", "wait", "woken"}]
  <1>1. ref[c] \in Reqs /\ ref[c] \notin Queued
    BY DEF SubmitEnqueues, TypeOK, Placement
  <1>2. items' = Append(items, ref[c]) /\ UNCHANGED <<taken, heap>>
    BY DEF SubmitEnqueues, Pending!Enqueue, Pending!Insert
  <1>3. Queued' = {Append(items, ref[c])[i] : i \in 1 .. Len(Append(items, ref[c]))}
    BY <1>1, <1>2, RearEnters DEF Queued, Pending!ToSet
  <1>4. \/ where' = where
        \/ \E t \in Workers : where[t] = "wait" /\ where' = [where EXCEPT ![t] = "woken"]
    BY DEF SubmitEnqueues, Pending!Enqueue, Pending!Insert, Pending!CondSignal, Pending!Waiting
  <1> QED
    BY <1>1, <1>2, <1>3, <1>4, RearEnters DEF TypeOK, Pending!QTypeOK

LEMMA DequeueIs ==
    ASSUME TypeOK, Placement, NEW w \in Workers, FetchGets(w)
    PROVE  /\ Head(items) \in Reqs /\ Head(items) \in Queued
           /\ Queued' = Queued \ {Head(items)}
  <1>0. Tail(items) \in Seq(Reqs) /\ items' = Tail(items)
    BY HeadLeaves DEF FetchGets
  <1>1. Queued' = {Tail(items)[i] : i \in 1 .. Len(Tail(items))}
    <2>1. DOMAIN Tail(items) = 1 .. Len(Tail(items))
      BY <1>0
    <2>2. Queued' = {items'[i] : i \in DOMAIN items'}
      BY DEF Queued, Pending!ToSet
    <2> QED
      BY <1>0, <2>1, <2>2
  <1> QED
    BY <1>1, HeadLeaves DEF FetchGets

(* Nothing is left of a list that is cleared. *)
LEMMA ClearIs == items' = <<>> => Queued' = {} /\ items' \in Seq(Reqs) /\ Len(items') = 0
  <1>1. <<>> \in Seq(Reqs) /\ {<<>>[i] : i \in DOMAIN <<>>} = {} /\ Len(<<>>) = 0
    OBVIOUS
  <1> QED
    BY <1>1 DEF Queued, Pending!ToSet

(* A signal of req_cond wakes at most one thread that waits for r.          *)
Signalled(r, p) ==
    /\ pc' \in [Clients \cup Workers -> ClientPc \cup WorkerPc]
    /\ \A t \in Clients \cup Workers :
          \/ pc'[t] = p[t]
          \/ t \in Clients /\ p[t] = "waiting" /\ ref[t] = r /\ pc'[t] = "woken"

LEMMA SignalIs ==
    ASSUME NEW r, NEW p \in [Clients \cup Workers -> ClientPc \cup WorkerPc], SignalReq(r, p)
    PROVE  Signalled(r, p)
  BY DEF SignalReq, Signalled, ClientPc

LEMMA CompleteIs ==
    ASSUME TypeOK, NEW w \in Workers, Complete(w)
    PROVE  /\ Signalled(ref[w], [pc EXCEPT ![w] = "idle"])
           /\ w \notin Clients
           /\ \E s \in {"COMPLETED", "FAILED"} : status' = [status EXCEPT ![ref[w]] = s]
  <1>1. [pc EXCEPT ![w] = "idle"] \in [Clients \cup Workers -> ClientPc \cup WorkerPc]
    BY DEF TypeOK, WorkerPc
  <1> QED
    BY <1>1, SignalIs, RequestQueueAssumption DEF Complete, RequestQueueAssumption

LEMMA CancelIs ==
    ASSUME TypeOK, NEW c \in Clients, Cancel(c)
    PROVE  Signalled(ref[c], [pc EXCEPT ![c] = "idle"])
  <1>1. [pc EXCEPT ![c] = "idle"] \in [Clients \cup Workers -> ClientPc \cup WorkerPc]
    BY DEF TypeOK, ClientPc
  <1> QED
    BY <1>1, SignalIs DEF Cancel

LEMMA ExpireIs ==
    ASSUME TypeOK, NEW r \in Reqs, CleanupExpires(r)
    PROVE  Signalled(r, pc)
  BY SignalIs DEF CleanupExpires, TypeOK
-----------------------------------------------------------------------------
(* Types.                                                                  *)
LEMMA TypeStep ==
    ASSUME IInv, [Next]_vars
    PROVE  TypeOK'
  <1> USE DEF IInv, At, pendVars, reqVars, callVars, cleanVars, lifeVars
  <1>0. rules' = rules
    BY StepIs
  <1>1. CASE UNCHANGED vars
    BY <1>1, SameQueue, <1>0 DEF vars, queue, TypeOK, Pending!QTypeOK
  <1>2. ASSUME NEW c \in Clients, ClientStep(c) PROVE TypeOK'
    <2>1. ASSUME NEW r \in Reqs, SubmitAdds(c, r)
          PROVE  TypeOK'
      <3>1. /\ bNeedFree' \in [Reqs -> BOOLEAN] /\ r # NoReq
        BY <2>1, RequestQueueAssumption DEF SubmitAdds, TypeOK, RequestQueueAssumption
      <3> QED
        BY <2>1, <1>0, <3>1
        DEF SubmitAdds, TypeOK, Pending!QTypeOK, Pending!HeapStates, Statuses, ClientPc
    <2>2. CASE SubmitEnqueues(c)
      BY <2>2, <1>0, EnqueueIs, RearEnters
      DEF SubmitEnqueues, Pending!Enqueue, Pending!Insert, Done, TypeOK, Pending!QTypeOK,
          Pending!HeapStates, Statuses, Terminal, ClientPc, WorkerPc
    <2>3. ASSUME NEW r \in Reqs, NEW call \in {"wait", "cancel", "status"},
                LookUp(c, r, call), call = "cancel" => rules = "any"
          PROVE  TypeOK'
      BY <2>3, <1>0, RequestQueueAssumption
      DEF LookUp, TypeOK, Pending!QTypeOK, Pending!HeapStates, Statuses, Terminal, ClientPc,
          WorkerPc, RequestQueueAssumption
    <2>4. CASE WaitFindsDone(c)
      BY <2>4, <1>0
      DEF WaitFindsDone, WaitSettles, TypeOK, Pending!QTypeOK, Pending!HeapStates, Statuses,
          Terminal, ClientPc, WorkerPc
    <2>5. CASE WaitBlocks(c)
      BY <2>5, <1>0
      DEF WaitBlocks, TypeOK, Pending!QTypeOK, Pending!HeapStates, Statuses, Terminal,
          ClientPc, WorkerPc
    <2>6. CASE WaitWakes(c)
      BY <2>6, <1>0
      DEF WaitWakes, WaitSettles, TypeOK, Pending!QTypeOK, Pending!HeapStates, Statuses,
          Terminal, ClientPc, WorkerPc
    <2>7. CASE WaitReturnsZero(c)
      BY <2>7, <1>0
      DEF WaitReturnsZero, Done, TypeOK, Pending!QTypeOK, Pending!HeapStates, Statuses,
          Terminal, ClientPc, WorkerPc
    <2>8. CASE WaitTimesOut(c)
      BY <2>8, <1>0
      DEF WaitTimesOut, Done, TypeOK, Pending!QTypeOK, Pending!HeapStates, Statuses,
          Terminal, ClientPc, WorkerPc
    <2>9. CASE ReadOnly(c)
      BY <2>9, <1>0
      DEF ReadOnly, Done, TypeOK, Pending!QTypeOK, Pending!HeapStates, Statuses, Terminal,
          ClientPc, WorkerPc
    <2>10. ASSUME rules = "any", Cancel(c)
          PROVE  TypeOK'
      <3>1. /\ status' \in [Reqs -> Statuses] /\ bNeedFree' \in [Reqs -> BOOLEAN]
            /\ ref' = [ref EXCEPT ![c] = NoReq]
        BY <2>10 DEF Cancel, TypeOK, Statuses, Terminal
      <3>2. /\ pc' \in [Clients \cup Workers -> ClientPc \cup WorkerPc] /\ pc'[c] = "idle"
            /\ \A t \in Clients \cup Workers : t # c => (pc'[t] = "idle" <=> pc[t] = "idle")
        BY <2>10, CancelIs DEF TypeOK, Signalled
      <3> QED
        BY <2>10, <1>0, <3>1, <3>2 DEF Cancel, TypeOK, Pending!QTypeOK
    <2>11. CASE SpuriousWakeup(c)
      BY <2>11, <1>0
      DEF SpuriousWakeup, TypeOK, Pending!QTypeOK, Pending!HeapStates, Statuses, Terminal,
          ClientPc, WorkerPc
    <2> QED
      BY <1>2, <2>1, <2>2, <2>3, <2>4, <2>5, <2>6, <2>7, <2>8, <2>9, <2>10, <2>11
      DEF ClientStep, CallStep
  <1>3. ASSUME NEW w \in Workers, WorkerStep(w) PROVE TypeOK'
    <2>1. CASE FetchGets(w)
      BY <2>1, <1>0, HeadLeaves, RequestQueueAssumption
      DEF FetchGets, TypeOK, Pending!QTypeOK, Pending!HeapStates, Statuses, Terminal,
          ClientPc, WorkerPc, RequestQueueAssumption
    <2>2. CASE FetchWaits(w)
      <3>1. where' \in [Workers -> {"out", "wait", "woken"}]
        BY <2>2 DEF FetchWaits, TypeOK, Pending!QTypeOK
      <3> QED
        BY <2>2, <1>0, <3>1 DEF FetchWaits, TypeOK, Pending!QTypeOK
    <2>3. CASE FetchMarks(w)
      BY <2>3, <1>0
      DEF FetchMarks, TypeOK, Pending!QTypeOK, Pending!HeapStates, Statuses, Terminal,
          ClientPc, WorkerPc
    <2>4. CASE Complete(w)
      <3>1. PICK s \in {"COMPLETED", "FAILED"} : status' = [status EXCEPT ![ref[w]] = s]
        BY <2>4, CompleteIs
      <3>2. status' \in [Reqs -> Statuses]
        BY <3>1 DEF TypeOK, Statuses, Terminal
      <3>3. /\ pc' \in [Clients \cup Workers -> ClientPc \cup WorkerPc] /\ pc'[w] = "idle"
            /\ \A t \in Clients \cup Workers : t # w => (pc'[t] = "idle" <=> pc[t] = "idle")
        BY <2>4, CompleteIs DEF TypeOK, Signalled
      <3> QED
        BY <2>4, <1>0, <3>2, <3>3 DEF Complete, TypeOK, Pending!QTypeOK
    <2> QED
      BY <1>3, <2>1, <2>2, <2>3, <2>4, FetchIs DEF WorkerStep
  <1>4. ASSUME NEW r \in Reqs, CleanupStep(r) PROVE TypeOK'
    <2>1. CASE CleanupKeeps(r)
      BY <2>1, <1>0 DEF CleanupKeeps, TypeOK, Pending!QTypeOK
    <2>2. ASSUME rules = "any", CleanupExpires(r)
          PROVE  TypeOK'
      BY <2>2, <1>0, ExpireIs
      DEF CleanupExpires, Signalled, TypeOK, Pending!QTypeOK, Pending!HeapStates, Statuses,
          Terminal, ClientPc, WorkerPc
    <2>3. CASE CleanupFrees(r)
      BY <2>3, <1>0
      DEF CleanupFrees, Pending!FreeBlocks, TypeOK, Pending!QTypeOK, Pending!HeapStates,
          Statuses, Terminal, ClientPc, WorkerPc
    <2> QED
      BY <1>4, <2>1, <2>2, <2>3 DEF CleanupStep
  <1>5. CASE CleanupBegins
    BY <1>5, <1>0 DEF CleanupBegins, TypeOK, Pending!QTypeOK
  <1>6. CASE CleanupEnds
    BY <1>6, <1>0 DEF CleanupEnds, TypeOK, Pending!QTypeOK
  <1>7. CASE rules = "careful" /\ Quiet /\ DestroyMarks
    BY <1>7, <1>0 DEF DestroyMarks, Quiet, TypeOK, Pending!QTypeOK
  <1>8. CASE rules = "careful" /\ DestroyClears
    BY <1>8, <1>0, ClearIs
    DEF DestroyClears, Pending!Clear, Pending!FreeBlocks, TypeOK, Pending!QTypeOK,
        Pending!HeapStates, Statuses, Terminal, ClientPc, WorkerPc
  <1>9. CASE rules = "careful" /\ DestroyCloses
    BY <1>9, <1>0, ClearIs
    DEF DestroyCloses, Pending!DestroyMark, Pending!FreeBlocks, Pending!CondBroadcast, TypeOK,
        Pending!QTypeOK, Pending!HeapStates, Statuses, Terminal, ClientPc, WorkerPc
  <1>10. CASE rules = "careful" /\ DestroyFreesQueue
    BY <1>10, <1>0 DEF DestroyFreesQueue, Pending!DestroyFree, TypeOK, Pending!QTypeOK
  <1>11. CASE rules = "careful" /\ DestroyEmptiesTable
    BY <1>11, <1>0
    DEF DestroyEmptiesTable, Pending!FreeBlocks, TypeOK, Pending!QTypeOK, Pending!HeapStates,
        Statuses, Terminal, ClientPc, WorkerPc
  <1>12. ASSUME NEW t \in Clients \cup Workers, UsesFreed(t) PROVE TypeOK'
    BY <1>12, <1>0 DEF UsesFreed, TypeOK, Pending!QTypeOK
  <1> QED
    BY StepIs, <1>1, <1>2, <1>3, <1>4, <1>5, <1>6, <1>7, <1>8, <1>9, <1>10, <1>11, <1>12 DEF Steps

(* Who may be where.                                                       *)
LEMMA RolesStep ==
    ASSUME IInv, [Next]_vars
    PROVE  Roles'
  <1> USE DEF IInv, At, pendVars, reqVars, callVars, cleanVars, lifeVars
  <1>1. CASE UNCHANGED vars
    BY <1>1 DEF vars, queue, Roles
  <1>2. ASSUME NEW c \in Clients, ClientStep(c) PROVE Roles'
    <2>1. ASSUME NEW r \in Reqs, SubmitAdds(c, r)
          PROVE  Roles'
      BY <2>1, RequestQueueAssumption
      DEF SubmitAdds, Roles, ClientPc, WorkerPc, TypeOK, RequestQueueAssumption
    <2>2. CASE SubmitEnqueues(c)
      BY <2>2
      DEF SubmitEnqueues, Pending!Enqueue, Pending!Insert, Done, Roles, ClientPc, WorkerPc,
          TypeOK
    <2>3. ASSUME NEW r \in Reqs, NEW call \in {"wait", "cancel", "status"},
                LookUp(c, r, call), call = "cancel" => rules = "any"
          PROVE  Roles'
      BY <2>3, RequestQueueAssumption
      DEF LookUp, Roles, ClientPc, WorkerPc, TypeOK, RequestQueueAssumption
    <2>4. CASE WaitFindsDone(c)
      BY <2>4 DEF WaitFindsDone, WaitSettles, Roles, ClientPc, WorkerPc, TypeOK
    <2>5. CASE WaitBlocks(c)
      BY <2>5 DEF WaitBlocks, Roles, ClientPc, WorkerPc, TypeOK
    <2>6. CASE WaitWakes(c)
      BY <2>6 DEF WaitWakes, WaitSettles, Roles, ClientPc, WorkerPc, TypeOK
    <2>7. CASE WaitReturnsZero(c)
      BY <2>7 DEF WaitReturnsZero, Done, Roles, ClientPc, WorkerPc, TypeOK
    <2>8. CASE WaitTimesOut(c)
      BY <2>8 DEF WaitTimesOut, Done, Roles, ClientPc, WorkerPc, TypeOK
    <2>9. CASE ReadOnly(c)
      BY <2>9 DEF ReadOnly, Done, Roles, ClientPc, WorkerPc, TypeOK
    <2>10. ASSUME rules = "any", Cancel(c)
          PROVE  Roles'
      BY <2>10, CancelIs DEF Cancel, Signalled, Roles, ClientPc, WorkerPc, TypeOK
    <2>11. CASE SpuriousWakeup(c)
      BY <2>11 DEF SpuriousWakeup, Roles, ClientPc, WorkerPc, TypeOK
    <2> QED
      BY <1>2, <2>1, <2>2, <2>3, <2>4, <2>5, <2>6, <2>7, <2>8, <2>9, <2>10, <2>11
      DEF ClientStep, CallStep
  <1>3. ASSUME NEW w \in Workers, WorkerStep(w) PROVE Roles'
    <2>1. CASE FetchGets(w)
      BY <2>1, RequestQueueAssumption
      DEF FetchGets, Roles, ClientPc, WorkerPc, TypeOK, RequestQueueAssumption
    <2>2. CASE FetchWaits(w)
      BY <2>2 DEF FetchWaits, Roles
    <2>3. CASE FetchMarks(w)
      BY <2>3 DEF FetchMarks, Roles, ClientPc, WorkerPc, TypeOK
    <2>4. CASE Complete(w)
      BY <2>4, CompleteIs DEF Complete, Signalled, Roles, ClientPc, WorkerPc, TypeOK
    <2> QED
      BY <1>3, <2>1, <2>2, <2>3, <2>4, FetchIs DEF WorkerStep
  <1>4. ASSUME NEW r \in Reqs, CleanupStep(r) PROVE Roles'
    <2>1. CASE CleanupKeeps(r)
      BY <2>1 DEF CleanupKeeps, Roles
    <2>2. ASSUME rules = "any", CleanupExpires(r)
          PROVE  Roles'
      BY <2>2, ExpireIs DEF CleanupExpires, Signalled, Roles, ClientPc, WorkerPc, TypeOK
    <2>3. CASE CleanupFrees(r)
      BY <2>3 DEF CleanupFrees, Pending!FreeBlocks, Roles
    <2> QED
      BY <1>4, <2>1, <2>2, <2>3 DEF CleanupStep
  <1>5. CASE CleanupBegins
    BY <1>5 DEF CleanupBegins, Roles
  <1>6. CASE CleanupEnds
    BY <1>6 DEF CleanupEnds, Roles
  <1>7. CASE rules = "careful" /\ Quiet /\ DestroyMarks
    BY <1>7 DEF DestroyMarks, Quiet, Roles
  <1>8. CASE rules = "careful" /\ DestroyClears
    BY <1>8 DEF DestroyClears, Pending!Clear, Pending!FreeBlocks, Roles
  <1>9. CASE rules = "careful" /\ DestroyCloses
    BY <1>9
    DEF DestroyCloses, Pending!DestroyMark, Pending!FreeBlocks, Pending!CondBroadcast, Roles
  <1>10. CASE rules = "careful" /\ DestroyFreesQueue
    BY <1>10 DEF DestroyFreesQueue, Pending!DestroyFree, Roles
  <1>11. CASE rules = "careful" /\ DestroyEmptiesTable
    BY <1>11 DEF DestroyEmptiesTable, Pending!FreeBlocks, Roles
  <1>12. ASSUME NEW t \in Clients \cup Workers, UsesFreed(t) PROVE Roles'
    BY <1>12 DEF UsesFreed, Roles
  <1> QED
    BY StepIs, <1>1, <1>2, <1>3, <1>4, <1>5, <1>6, <1>7, <1>8, <1>9, <1>10, <1>11, <1>12 DEF Steps

(* References are to allocated requests.                                  *)
LEMMA AllocatedStep ==
    ASSUME IInv, [Next]_vars
    PROVE  Allocated'
  <1> USE DEF IInv, At, pendVars, reqVars, callVars, cleanVars, lifeVars
  <1>1. CASE UNCHANGED vars
    BY <1>1, SameQueue DEF vars, queue, Allocated
  <1>2. ASSUME NEW c \in Clients, ClientStep(c) PROVE Allocated'
    <2>1. ASSUME NEW r \in Reqs, SubmitAdds(c, r)
          PROVE  Allocated'
      <3>1. /\ r # NoReq /\ ref' = [ref EXCEPT ![c] = r] /\ heap' = [heap EXCEPT ![r] = "live"]
            /\ table' = table \cup {r} /\ Queued' = Queued
        BY <2>1, SameQueue, RequestQueueAssumption DEF SubmitAdds, RequestQueueAssumption
      <3>2. \A x \in Reqs : heap[x] # "unused" => heap'[x] # "unused"
        BY <3>1 DEF TypeOK, Pending!QTypeOK
      <3> QED
        BY <3>1, <3>2, QueuedIs DEF Allocated, TypeOK, Pending!QTypeOK
    <2>2. CASE SubmitEnqueues(c)
      <3>1. /\ ref' = [ref EXCEPT ![c] = NoReq] /\ ref[c] # NoReq
            /\ heap' = heap /\ table' = table /\ Queued' = Queued \cup {ref[c]}
        BY <2>2, EnqueueIs, RequestQueueAssumption
        DEF SubmitEnqueues, Done, RequestQueueAssumption
      <3> QED
        BY <3>1 DEF Allocated, TypeOK
    <2>3. ASSUME NEW r \in Reqs, NEW call \in {"wait", "cancel", "status"},
                LookUp(c, r, call), call = "cancel" => rules = "any"
          PROVE  Allocated'
      BY <2>3, SameQueue DEF LookUp, Allocated
    <2>4. CASE WaitFindsDone(c)
      BY <2>4, SameQueue DEF WaitFindsDone, WaitSettles, Allocated
    <2>5. CASE WaitBlocks(c)
      BY <2>5, SameQueue DEF WaitBlocks, Allocated
    <2>6. CASE WaitWakes(c)
      BY <2>6, SameQueue DEF WaitWakes, WaitSettles, Allocated
    <2>7. CASE WaitReturnsZero(c)
      BY <2>7, SameQueue DEF WaitReturnsZero, Done, Allocated
    <2>8. CASE WaitTimesOut(c)
      BY <2>8, SameQueue DEF WaitTimesOut, Done, Allocated
    <2>9. CASE ReadOnly(c)
      BY <2>9, SameQueue DEF ReadOnly, Done, Allocated
    <2>10. ASSUME rules = "any", Cancel(c)
          PROVE  Allocated'
      BY <2>10, SameQueue DEF Cancel, Signalled, Allocated
    <2>11. CASE SpuriousWakeup(c)
      BY <2>11, SameQueue DEF SpuriousWakeup, Allocated
    <2> QED
      BY <1>2, <2>1, <2>2, <2>3, <2>4, <2>5, <2>6, <2>7, <2>8, <2>9, <2>10, <2>11
      DEF ClientStep, CallStep
  <1>3. ASSUME NEW w \in Workers, WorkerStep(w) PROVE Allocated'
    <2>1. CASE FetchGets(w)
      BY <2>1, SameQueue, DequeueIs
      DEF FetchGets, Allocated, TypeOK, Pending!QTypeOK, Pending!HeapStates
    <2>2. CASE FetchWaits(w)
      BY <2>2, SameQueue DEF FetchWaits, Allocated
    <2>3. CASE FetchMarks(w)
      BY <2>3, SameQueue DEF FetchMarks, Allocated
    <2>4. CASE Complete(w)
      BY <2>4, SameQueue DEF Complete, Signalled, Allocated
    <2> QED
      BY <1>3, <2>1, <2>2, <2>3, <2>4, FetchIs DEF WorkerStep
  <1>4. ASSUME NEW r \in Reqs, CleanupStep(r) PROVE Allocated'
    <2>1. CASE CleanupKeeps(r)
      BY <2>1, SameQueue DEF CleanupKeeps, Allocated
    <2>2. ASSUME rules = "any", CleanupExpires(r)
          PROVE  Allocated'
      BY <2>2, SameQueue DEF CleanupExpires, Signalled, Allocated
    <2>3. CASE CleanupFrees(r)
      BY <2>3, SameQueue, QueuedIs, RequestQueueAssumption
      DEF CleanupFrees, Pending!FreeBlocks, Allocated, TypeOK, Pending!QTypeOK,
          Pending!HeapStates, RequestQueueAssumption
    <2> QED
      BY <1>4, <2>1, <2>2, <2>3 DEF CleanupStep
  <1>5. CASE CleanupBegins
    BY <1>5, SameQueue DEF CleanupBegins, Allocated
  <1>6. CASE CleanupEnds
    BY <1>6, SameQueue DEF CleanupEnds, Allocated
  <1>7. CASE rules = "careful" /\ Quiet /\ DestroyMarks
    BY <1>7, SameQueue DEF DestroyMarks, Quiet, Allocated
  <1>8. CASE rules = "careful" /\ DestroyClears
    BY <1>8, SameQueue, ClearIs
    DEF DestroyClears, Pending!Clear, Pending!FreeBlocks, Allocated, TypeOK, Pending!QTypeOK,
        Pending!HeapStates
  <1>9. CASE rules = "careful" /\ DestroyCloses
    BY <1>9, SameQueue, ClearIs
    DEF DestroyCloses, Pending!DestroyMark, Pending!FreeBlocks, Pending!CondBroadcast,
        Allocated, TypeOK, Pending!QTypeOK, Pending!HeapStates
  <1>10. CASE rules = "careful" /\ DestroyFreesQueue
    BY <1>10, SameQueue DEF DestroyFreesQueue, Pending!DestroyFree, Allocated
  <1>11. CASE rules = "careful" /\ DestroyEmptiesTable
    BY <1>11, SameQueue, QueuedIs, RequestQueueAssumption
    DEF DestroyEmptiesTable, Pending!FreeBlocks, Allocated, TypeOK, Pending!QTypeOK,
        Pending!HeapStates, RequestQueueAssumption
  <1>12. ASSUME NEW t \in Clients \cup Workers, UsesFreed(t) PROVE Allocated'
    BY <1>12, SameQueue DEF UsesFreed, Allocated
  <1> QED
    BY StepIs, <1>1, <1>2, <1>3, <1>4, <1>5, <1>6, <1>7, <1>8, <1>9, <1>10, <1>11, <1>12 DEF Steps

LEMMA PlacementKept ==
    ASSUME Placement, items' = items, Queued' = Queued, taken' = taken, where' = where,
           \A w \in Workers : ref'[w] = ref[w],
           \A d \in Clients : pc'[d] = "added" => pc[d] = "added" /\ ref'[d] = ref[d]
    PROVE  Placement'
  <1>1. \A i, j \in 1 .. Len(items') : items'[i] = items'[j] => i = j
    BY DEF Placement
  <1>2. ASSUME NEW w \in Workers
        PROVE  /\ taken'[w] = IF ref'[w] = NoReq THEN {} ELSE {ref'[w]}
               /\ where'[w] # "out" => ref'[w] = NoReq
               /\ ref'[w] \notin Queued'
    <2>1. ref'[w] = ref[w]
      OBVIOUS
    <2> QED
      BY <2>1 DEF Placement
  <1>3. \A v, w \in Workers : ref'[v] = ref'[w] /\ ref'[v] # NoReq => v = w
    BY DEF Placement
  <1>4. ASSUME NEW c \in Clients, pc'[c] = "added"
        PROVE  /\ ref'[c] \notin Queued'
               /\ \A w \in Workers : ref'[w] # ref'[c]
               /\ \A d \in Clients : pc'[d] = "added" /\ ref'[d] = ref'[c] => d = c
    BY <1>4 DEF Placement
  <1> QED
    BY <1>1, <1>2, <1>3, <1>4 DEF Placement

(* Where a request is until it is completed.                               *)
LEMMA PlacementStep ==
    ASSUME IInv, [Next]_vars
    PROVE  Placement'
  <1> USE DEF IInv, At, pendVars, reqVars, callVars, cleanVars, lifeVars
  <1>1. CASE UNCHANGED vars
    BY <1>1, SameQueue DEF vars, queue, Placement
  <1>2. ASSUME NEW c \in Clients, ClientStep(c) PROVE Placement'
    <2>1. ASSUME NEW r \in Reqs, SubmitAdds(c, r)
          PROVE  Placement'
      BY <2>1, SameQueue, QueuedIs, RequestQueueAssumption
      DEF SubmitAdds, Allocated, Placement, TypeOK, Pending!QTypeOK, RequestQueueAssumption
    <2>2. CASE SubmitEnqueues(c)
      <3>1. /\ ref' = [ref EXCEPT ![c] = NoReq] /\ pc' = [pc EXCEPT ![c] = "idle"]
            /\ c \notin Workers /\ NoReq \notin Reqs
        BY <2>2, RequestQueueAssumption DEF SubmitEnqueues, Done, RequestQueueAssumption
      <3>2. /\ \A d \in Clients : pc'[d] = "added" => pc[d] = "added" /\ ref'[d] = ref[d] /\ d # c
            /\ \A w \in Workers : ref'[w] = ref[w]
        BY <3>1 DEF TypeOK
      <3>3. \A i, j \in 1 .. Len(items') : items'[i] = items'[j] => i = j
        BY <2>2, EnqueueIs, RearEnters
      <3>4. /\ Queued' = Queued \cup {ref[c]} /\ UNCHANGED taken
            /\ \A w \in Workers : where'[w] # "out" => where[w] # "out"
        BY <2>2, EnqueueIs
      <3>5. ASSUME NEW w \in Workers
            PROVE  /\ taken'[w] = IF ref'[w] = NoReq THEN {} ELSE {ref'[w]}
                   /\ where'[w] # "out" => ref'[w] = NoReq
                   /\ ref'[w] \notin Queued'
        <4>1. pc[c] = "added" /\ ref[w] # ref[c]
          BY <2>2 DEF SubmitEnqueues, Placement
        <4> QED
          BY <3>2, <3>4, <4>1 DEF Placement
      <3>6. \A v, w \in Workers : ref'[v] = ref'[w] /\ ref'[v] # NoReq => v = w
        BY <3>2 DEF Placement
      <3>7. ASSUME NEW d \in Clients, pc'[d] = "added"
            PROVE  /\ ref'[d] \notin Queued'
                   /\ \A w \in Workers : ref'[w] # ref'[d]
                   /\ \A e \in Clients : pc'[e] = "added" /\ ref'[e] = ref'[d] => e = d
        <4>1. pc[c] = "added" /\ pc[d] = "added" /\ d # c /\ ref'[d] = ref[d]
          BY <2>2, <3>2, <3>7 DEF SubmitEnqueues
        <4>2. ref[d] # ref[c] /\ ref[d] \notin Queued
          BY <4>1 DEF Placement
        <4> QED
          BY <3>2, <3>4, <4>1, <4>2 DEF Placement
      <3> QED
        BY <3>3, <3>5, <3>6, <3>7 DEF Placement
    <2>3. ASSUME NEW r \in Reqs, NEW call \in {"wait", "cancel", "status"},
                LookUp(c, r, call), call = "cancel" => rules = "any"
          PROVE  Placement'
      BY <2>3, SameQueue, QueuedIs, RequestQueueAssumption
      DEF LookUp, Placement, TypeOK, Pending!QTypeOK, RequestQueueAssumption
    <2>4. CASE WaitFindsDone(c)
      BY <2>4, SameQueue DEF WaitFindsDone, WaitSettles, Placement
    <2>5. CASE WaitBlocks(c)
      BY <2>5, SameQueue DEF WaitBlocks, Placement, TypeOK, Pending!QTypeOK
    <2>6. CASE WaitWakes(c)
      BY <2>6, SameQueue DEF WaitWakes, WaitSettles, Placement, TypeOK, Pending!QTypeOK
    <2>7. CASE WaitReturnsZero(c)
      BY <2>7, SameQueue, QueuedIs, RequestQueueAssumption
      DEF WaitReturnsZero, Done, Placement, TypeOK, Pending!QTypeOK, RequestQueueAssumption
    <2>8. CASE WaitTimesOut(c)
      BY <2>8, SameQueue, QueuedIs, RequestQueueAssumption
      DEF WaitTimesOut, Done, Placement, TypeOK, Pending!QTypeOK, RequestQueueAssumption
    <2>9. CASE ReadOnly(c)
      BY <2>9, SameQueue, QueuedIs, RequestQueueAssumption
      DEF ReadOnly, Done, Placement, TypeOK, Pending!QTypeOK, RequestQueueAssumption
    <2>10. ASSUME rules = "any", Cancel(c)
          PROVE  Placement'
      <3>1. /\ \A d \in Clients : pc'[d] = "added" => pc[d] = "added" /\ ref'[d] = ref[d]
            /\ \A w \in Workers : ref'[w] = ref[w]
            /\ Queued' = Queued /\ items' = items /\ UNCHANGED <<taken, where>>
        BY <2>10, SameQueue, RequestQueueAssumption, CancelIs
        DEF Cancel, Signalled, TypeOK, RequestQueueAssumption
      <3> QED
        BY <3>1, PlacementKept
    <2>11. CASE SpuriousWakeup(c)
      <3>1. /\ \A d \in Clients : pc'[d] = "added" => pc[d] = "added" /\ ref'[d] = ref[d]
            /\ \A w \in Workers : ref'[w] = ref[w]
        BY <2>11 DEF SpuriousWakeup, TypeOK
      <3>2. Queued' = Queued /\ items' = items /\ UNCHANGED <<taken, where>>
        BY <2>11, SameQueue DEF SpuriousWakeup
      <3> QED
        BY <3>1, <3>2, PlacementKept
    <2>12. CASE CallStep(c)
      BY <2>12, <2>2, <2>4, <2>5, <2>6, <2>7, <2>8, <2>9, <2>11 DEF CallStep
    <2>13. CASE \E r \in Reqs : SubmitAdds(c, r)
      BY <2>1, <2>13
    <2>14. CASE \E r \in Reqs, call \in {"wait", "cancel", "status"} :
                  (call = "cancel" => rules = "any") /\ LookUp(c, r, call)
      BY <2>3, <2>14
    <2>15. CASE rules = "any" /\ Cancel(c)
      BY <2>10, <2>15
    <2> QED
      BY <1>2, <2>2, <2>12, <2>13, <2>14, <2>15 DEF ClientStep
  <1>3. ASSUME NEW w \in Workers, WorkerStep(w) PROVE Placement'
    <2>1. CASE FetchGets(w)
      <3> DEFINE r == Head(items)
      <3>1. /\ ref' = [ref EXCEPT ![w] = r] /\ pc' = [pc EXCEPT ![w] = "fetched"]
            /\ taken' = [taken EXCEPT ![w] = {r}] /\ where' = [where EXCEPT ![w] = "out"]
            /\ w \notin Clients /\ r \in Reqs /\ r \in Queued /\ r # NoReq
            /\ Queued' = Queued \ {r}
        BY <2>1, DequeueIs, RequestQueueAssumption DEF FetchGets, RequestQueueAssumption
      <3>2. \A i, j \in 1 .. Len(items') : items'[i] = items'[j] => i = j
        BY <2>1, HeadLeaves DEF FetchGets
      <3> HIDE DEF r
      <3>3. /\ ref'[w] = r /\ taken'[w] = {r} /\ where'[w] = "out"
            /\ \A v \in Workers : v # w => /\ ref'[v] = ref[v] /\ taken'[v] = taken[v]
                                           /\ where'[v] = where[v]
            /\ \A d \in Clients : pc'[d] = pc[d] /\ ref'[d] = ref[d]
        BY <3>1 DEF TypeOK, Pending!QTypeOK
      <3>4. /\ \A v \in Workers : ref[v] # r
            /\ \A d \in Clients : pc[d] = "added" => ref[d] # r
        BY <3>1 DEF Placement
      <3>5. ASSUME NEW v \in Workers
            PROVE  /\ taken'[v] = IF ref'[v] = NoReq THEN {} ELSE {ref'[v]}
                   /\ where'[v] # "out" => ref'[v] = NoReq
                   /\ ref'[v] \notin Queued'
        <4>1. CASE v = w
          BY <3>1, <3>3, <4>1
        <4>2. CASE v # w
          <5>1. /\ taken[v] = IF ref[v] = NoReq THEN {} ELSE {ref[v]}
                /\ where[v] # "out" => ref[v] = NoReq
                /\ ref[v] \notin Queued
            BY DEF Placement
          <5> QED
            BY <3>1, <3>3, <4>2, <5>1
        <4> QED
          BY <4>1, <4>2
      <3>6. \A u, v \in Workers : ref'[u] = ref'[v] /\ ref'[u] # NoReq => u = v
        BY <3>3, <3>4 DEF Placement
      <3>7. ASSUME NEW d \in Clients, pc'[d] = "added"
            PROVE  /\ ref'[d] \notin Queued'
                   /\ \A v \in Workers : ref'[v] # ref'[d]
                   /\ \A e \in Clients : pc'[e] = "added" /\ ref'[e] = ref'[d] => e = d
        BY <3>1, <3>3, <3>4, <3>7 DEF Placement
      <3> QED
        BY <3>2, <3>5, <3>6, <3>7 DEF Placement
    <2>2. CASE FetchWaits(w)
      BY <2>2, SameQueue DEF FetchWaits, Placement
    <2>3. CASE FetchMarks(w)
      BY <2>3, SameQueue DEF FetchMarks, Placement
    <2>4. CASE Complete(w)
      <3>1. /\ \A d \in Clients : pc'[d] = "added" => pc[d] = "added" /\ ref'[d] = ref[d]
            /\ ref' = [ref EXCEPT ![w] = NoReq] /\ taken' = [taken EXCEPT ![w] = {}]
            /\ Queued' = Queued /\ items' = items /\ UNCHANGED where
        BY <2>4, SameQueue, CompleteIs DEF Complete, Signalled, TypeOK
      <3>2. NoReq \notin Queued
        BY QueuedIs, RequestQueueAssumption DEF RequestQueueAssumption
      <3>3. \A d \in Clients : pc[d] = "added" => ref[d] # NoReq
        BY DEF TypeOK
      <3> QED
        BY <3>1, <3>2, <3>3 DEF Placement, TypeOK, Pending!QTypeOK
    <2> QED
      BY <1>3, <2>1, <2>2, <2>3, <2>4, FetchIs DEF WorkerStep
  <1>4. ASSUME NEW r \in Reqs, CleanupStep(r) PROVE Placement'
    <2>1. CASE CleanupKeeps(r)
      BY <2>1, SameQueue DEF CleanupKeeps, Placement
    <2>2. ASSUME rules = "any", CleanupExpires(r)
          PROVE  Placement'
      <3>1. /\ \A d \in Clients : pc'[d] = "added" => pc[d] = "added" /\ ref'[d] = ref[d]
            /\ \A w \in Workers : ref'[w] = ref[w]
            /\ Queued' = Queued /\ items' = items /\ UNCHANGED <<taken, where>>
        BY <2>2, SameQueue, RequestQueueAssumption, ExpireIs
        DEF CleanupExpires, Signalled, TypeOK, RequestQueueAssumption
      <3> QED
        BY <3>1, PlacementKept
    <2>3. CASE CleanupFrees(r)
      BY <2>3, SameQueue DEF CleanupFrees, Pending!FreeBlocks, Placement
    <2> QED
      BY <1>4, <2>1, <2>2, <2>3 DEF CleanupStep
  <1>5. CASE CleanupBegins
    BY <1>5, SameQueue DEF CleanupBegins, Placement
  <1>6. CASE CleanupEnds
    BY <1>6, SameQueue DEF CleanupEnds, Placement
  <1>7. CASE rules = "careful" /\ Quiet /\ DestroyMarks
    BY <1>7, SameQueue DEF DestroyMarks, Quiet, Placement
  <1>8. CASE rules = "careful" /\ DestroyClears
    <2>1. /\ Queued' = {} /\ Len(items') = 0 /\ UNCHANGED <<taken, pc, ref>>
          /\ \A w \in Workers : where'[w] # "out" => where[w] # "out"
      BY <1>8, ClearIs DEF DestroyClears, Pending!Clear
    <2> QED
      BY <2>1 DEF Placement
  <1>9. CASE rules = "careful" /\ DestroyCloses
    <2>1. /\ Queued' = {} /\ Len(items') = 0 /\ UNCHANGED <<taken, pc, ref>>
          /\ \A w \in Workers : where'[w] # "out" => where[w] # "out"
      BY <1>9, ClearIs
      DEF DestroyCloses, Pending!DestroyMark, Pending!CondBroadcast, TypeOK, Pending!QTypeOK
    <2> QED
      BY <2>1 DEF Placement
  <1>10. CASE rules = "careful" /\ DestroyFreesQueue
    BY <1>10, SameQueue DEF DestroyFreesQueue, Pending!DestroyFree, Placement
  <1>11. CASE rules = "careful" /\ DestroyEmptiesTable
    BY <1>11, SameQueue DEF DestroyEmptiesTable, Pending!FreeBlocks, Placement
  <1>12. ASSUME NEW t \in Clients \cup Workers, UsesFreed(t) PROVE Placement'
    BY <1>12, SameQueue DEF UsesFreed, Placement
  <1> QED
    BY StepIs, <1>1, <1>2, <1>3, <1>4, <1>5, <1>6, <1>7, <1>8, <1>9, <1>10, <1>11, <1>12 DEF Steps

(* What destroy finds.                                                     *)
LEMMA ShutdownStep ==
    ASSUME IInv, [Next]_vars
    PROVE  Shutdown'
  <1> USE DEF IInv, At, pendVars, reqVars, callVars, cleanVars, lifeVars
  <1>0. rules' = rules
    BY StepIs
  <1>1. CASE UNCHANGED vars
    BY <1>1, <1>0 DEF vars, queue, Shutdown
  <1>2. ASSUME NEW c \in Clients, ClientStep(c) PROVE Shutdown'
    <2>1. ASSUME NEW r \in Reqs, SubmitAdds(c, r)
          PROVE  Shutdown'
      BY <2>1, <1>0 DEF SubmitAdds, Shutdown
    <2>2. CASE SubmitEnqueues(c)
      BY <2>2, <1>0 DEF SubmitEnqueues, Pending!Enqueue, Pending!Insert, Done, Shutdown
    <2>3. ASSUME NEW r \in Reqs, NEW call \in {"wait", "cancel", "status"},
                LookUp(c, r, call), call = "cancel" => rules = "any"
          PROVE  Shutdown'
      BY <2>3, <1>0 DEF LookUp, Shutdown
    <2>4. CASE WaitFindsDone(c)
      BY <2>4, <1>0 DEF WaitFindsDone, WaitSettles, Shutdown
    <2>5. CASE WaitBlocks(c)
      BY <2>5, <1>0 DEF WaitBlocks, Shutdown
    <2>6. CASE WaitWakes(c)
      BY <2>6, <1>0 DEF WaitWakes, WaitSettles, Shutdown
    <2>7. CASE WaitReturnsZero(c)
      BY <2>7, <1>0 DEF WaitReturnsZero, Done, Shutdown
    <2>8. CASE WaitTimesOut(c)
      BY <2>8, <1>0 DEF WaitTimesOut, Done, Shutdown
    <2>9. CASE ReadOnly(c)
      BY <2>9, <1>0 DEF ReadOnly, Done, Shutdown
    <2>10. ASSUME rules = "any", Cancel(c)
          PROVE  Shutdown'
      BY <2>10, <1>0 DEF Cancel, Signalled, Shutdown
    <2>11. CASE SpuriousWakeup(c)
      BY <2>11, <1>0 DEF SpuriousWakeup, Shutdown
    <2> QED
      BY <1>2, <2>1, <2>2, <2>3, <2>4, <2>5, <2>6, <2>7, <2>8, <2>9, <2>10, <2>11
      DEF ClientStep, CallStep
  <1>3. ASSUME NEW w \in Workers, WorkerStep(w) PROVE Shutdown'
    <2>1. CASE FetchGets(w)
      BY <2>1, <1>0 DEF FetchGets, Shutdown
    <2>2. CASE FetchWaits(w)
      BY <2>2, <1>0 DEF FetchWaits, Shutdown
    <2>3. CASE FetchMarks(w)
      BY <2>3, <1>0 DEF FetchMarks, Shutdown
    <2>4. CASE Complete(w)
      BY <2>4, <1>0 DEF Complete, Signalled, Shutdown
    <2> QED
      BY <1>3, <2>1, <2>2, <2>3, <2>4, FetchIs DEF WorkerStep
  <1>4. ASSUME NEW r \in Reqs, CleanupStep(r) PROVE Shutdown'
    <2>1. CASE CleanupKeeps(r)
      BY <2>1, <1>0 DEF CleanupKeeps, Shutdown
    <2>2. ASSUME rules = "any", CleanupExpires(r)
          PROVE  Shutdown'
      BY <2>2, <1>0 DEF CleanupExpires, Signalled, Shutdown
    <2>3. CASE CleanupFrees(r)
      BY <2>3, <1>0 DEF CleanupFrees, Pending!FreeBlocks, Shutdown
    <2> QED
      BY <1>4, <2>1, <2>2, <2>3 DEF CleanupStep
  <1>5. CASE CleanupBegins
    BY <1>5, <1>0 DEF CleanupBegins, Shutdown
  <1>6. CASE CleanupEnds
    BY <1>6, <1>0 DEF CleanupEnds, Shutdown
  <1>7. CASE rules = "careful" /\ Quiet /\ DestroyMarks
    BY <1>7, <1>0 DEF DestroyMarks, Quiet, AllDone, ClientsIdle, Shutdown
  <1>8. CASE rules = "careful" /\ DestroyClears
    BY <1>8, <1>0 DEF DestroyClears, Pending!Clear, Pending!FreeBlocks, Shutdown
  <1>9. CASE rules = "careful" /\ DestroyCloses
    BY <1>9, <1>0
    DEF DestroyCloses, Pending!DestroyMark, Pending!FreeBlocks, Pending!CondBroadcast, Shutdown
  <1>10. CASE rules = "careful" /\ DestroyFreesQueue
    BY <1>10, <1>0 DEF DestroyFreesQueue, Pending!DestroyFree, Shutdown
  <1>11. CASE rules = "careful" /\ DestroyEmptiesTable
    BY <1>11, <1>0 DEF DestroyEmptiesTable, Pending!FreeBlocks, Shutdown
  <1>12. ASSUME NEW t \in Clients \cup Workers, UsesFreed(t) PROVE Shutdown'
    BY <1>12, <1>0 DEF UsesFreed, Shutdown
  <1> QED
    BY StepIs, <1>1, <1>2, <1>3, <1>4, <1>5, <1>6, <1>7, <1>8, <1>9, <1>10, <1>11, <1>12 DEF Steps

(* The status tells where a request is.                                     *)
LEMMA ProgressStep ==
    ASSUME IInv, [Next]_vars
    PROVE  Progress'
  <1> USE DEF IInv, At, pendVars, reqVars, callVars, cleanVars, lifeVars
  <1>0. rules' = rules
    BY StepIs
  <1>1. CASE UNCHANGED vars
    BY <1>1, SameQueue, <1>0 DEF vars, queue, Progress
  <1>2. ASSUME NEW c \in Clients, ClientStep(c) PROVE Progress'
    <2>1. ASSUME NEW r \in Reqs, SubmitAdds(c, r)
          PROVE  Progress'
      BY <2>1, <1>0, SameQueue DEF SubmitAdds, Allocated, Progress, TypeOK, Statuses, Terminal
    <2>2. CASE SubmitEnqueues(c)
      <3>1. /\ ref' = [ref EXCEPT ![c] = NoReq] /\ pc' = [pc EXCEPT ![c] = "idle"]
            /\ status' = status /\ Queued' = Queued \cup {ref[c]} /\ c \notin Workers
        BY <2>2, EnqueueIs, RequestQueueAssumption
        DEF SubmitEnqueues, Done, RequestQueueAssumption
      <3> QED
        BY <2>2, <1>0, <3>1 DEF SubmitEnqueues, Progress, TypeOK
    <2>3. ASSUME NEW r \in Reqs, NEW call \in {"wait", "cancel", "status"},
                LookUp(c, r, call), call = "cancel" => rules = "any"
          PROVE  Progress'
      BY <2>3, <1>0, SameQueue DEF LookUp, Progress
    <2>4. CASE WaitFindsDone(c)
      BY <2>4, <1>0, SameQueue DEF WaitFindsDone, WaitSettles, Progress
    <2>5. CASE WaitBlocks(c)
      BY <2>5, <1>0, SameQueue DEF WaitBlocks, Progress
    <2>6. CASE WaitWakes(c)
      BY <2>6, <1>0, SameQueue DEF WaitWakes, WaitSettles, Progress
    <2>7. CASE WaitReturnsZero(c)
      BY <2>7, <1>0, SameQueue DEF WaitReturnsZero, Done, Progress, TypeOK, Statuses, Terminal
    <2>8. CASE WaitTimesOut(c)
      BY <2>8, <1>0, SameQueue DEF WaitTimesOut, Done, Progress
    <2>9. CASE ReadOnly(c)
      BY <2>9, <1>0, SameQueue DEF ReadOnly, Done, Progress
    <2>10. ASSUME rules = "any", Cancel(c)
          PROVE  Progress'
      BY <2>10, <1>0, SameQueue DEF Cancel, Signalled, Progress
    <2>11. CASE SpuriousWakeup(c)
      BY <2>11, <1>0, SameQueue DEF SpuriousWakeup, Progress
    <2> QED
      BY <1>2, <2>1, <2>2, <2>3, <2>4, <2>5, <2>6, <2>7, <2>8, <2>9, <2>10, <2>11
      DEF ClientStep, CallStep
  <1>3. ASSUME NEW w \in Workers, WorkerStep(w) PROVE Progress'
    <2>1. CASE FetchGets(w)
      BY <2>1, <1>0, SameQueue, DequeueIs, QueuedIs, RequestQueueAssumption
      DEF FetchGets, Progress, TypeOK, Statuses, Terminal, RequestQueueAssumption
    <2>2. CASE FetchWaits(w)
      BY <2>2, <1>0, SameQueue DEF FetchWaits, Progress
    <2>3. CASE FetchMarks(w)
      <3> DEFINE r == ref[w]
      <3>1. /\ pc[w] = "fetched" /\ pc' = [pc EXCEPT ![w] = "working"] /\ w \notin Clients
            /\ status' = [status EXCEPT ![r] = "PROCESSING"] /\ ref' = ref
            /\ Queued' = Queued /\ r # NoReq /\ r \in Reqs
        BY <2>3, SameQueue, RequestQueueAssumption
        DEF FetchMarks, TypeOK, RequestQueueAssumption
      <3>2. /\ r \notin Queued
            /\ \A v \in Workers : ref[v] = r => v = w
            /\ \A d \in Clients : pc[d] = "added" => ref[d] # r
        BY <3>1 DEF Placement
      <3> HIDE DEF r
      <3>5. /\ status'[r] = "PROCESSING" /\ ref[w] = r
            /\ \A x \in Reqs : x # r => status'[x] = status[x]
        BY <3>1 DEF TypeOK, r
      <3>6. /\ pc'[w] = "working"
            /\ \A v \in Workers : v # w => /\ pc'[v] = pc[v]
                                           /\ pc[v] # "idle" => ref[v] \in Reqs /\ ref[v] # r
        BY <3>1, <3>2, RequestQueueAssumption DEF TypeOK, RequestQueueAssumption
      <3>7. \A d \in Clients : pc'[d] = pc[d] /\ (pc[d] # "idle" => ref[d] \in Reqs)
        BY <3>1 DEF TypeOK
      <3> QED
        BY <1>0, <3>1, <3>2, <3>5, <3>6, <3>7, QueuedIs DEF Progress
    <2>4. CASE Complete(w)
      <3> DEFINE r == ref[w]
      <3>1. /\ ref' = [ref EXCEPT ![w] = NoReq] /\ w \notin Clients /\ pc'[w] = "idle"
            /\ Queued' = Queued /\ r # NoReq /\ r \in Reqs
        BY <2>4, SameQueue, CompleteIs DEF Complete, Signalled, TypeOK
      <3>2. /\ r \notin Queued
            /\ \A v \in Workers : ref[v] = r => v = w
            /\ \A d \in Clients : pc[d] = "added" => ref[d] # r
        BY <3>1 DEF Placement
      <3>3. \A t \in Clients \cup Workers :
               t # w => \/ pc'[t] = pc[t]
                        \/ t \in Clients /\ pc[t] = "waiting" /\ ref[t] = r /\ pc'[t] = "woken"
        BY <2>4, CompleteIs DEF Signalled, TypeOK
      <3>4. PICK s \in {"COMPLETED", "FAILED"} : status' = [status EXCEPT ![r] = s]
        BY <2>4, CompleteIs
      <3> HIDE DEF r
      <3>5. /\ status'[r] \in Terminal
            /\ \A x \in Reqs : x # r => status'[x] = status[x]
        BY <3>1, <3>4 DEF TypeOK, Terminal
      <3>6. \A v \in Workers : v # w => pc'[v] = pc[v] /\ ref'[v] = ref[v] /\ (pc[v] # "idle" => ref[v] \in Reqs /\ ref[v] # r)
        BY <3>1, <3>2, <3>3, RequestQueueAssumption DEF TypeOK, RequestQueueAssumption
      <3>7. \A d \in Clients : ref'[d] = ref[d] /\ (pc[d] # "idle" => ref[d] \in Reqs)
        BY <3>1 DEF TypeOK
      <3> QED
        BY <1>0, <3>1, <3>2, <3>3, <3>5, <3>6, <3>7, QueuedIs DEF Progress
    <2> QED
      BY <1>3, <2>1, <2>2, <2>3, <2>4, FetchIs DEF WorkerStep
  <1>4. ASSUME NEW r \in Reqs, CleanupStep(r) PROVE Progress'
    <2>1. CASE CleanupKeeps(r)
      BY <2>1, <1>0, SameQueue DEF CleanupKeeps, Progress
    <2>2. ASSUME rules = "any", CleanupExpires(r)
          PROVE  Progress'
      BY <2>2, <1>0, SameQueue DEF CleanupExpires, Signalled, Progress
    <2>3. CASE CleanupFrees(r)
      BY <2>3, <1>0, SameQueue DEF CleanupFrees, Pending!FreeBlocks, Progress
    <2> QED
      BY <1>4, <2>1, <2>2, <2>3 DEF CleanupStep
  <1>5. CASE CleanupBegins
    BY <1>5, <1>0, SameQueue DEF CleanupBegins, Progress
  <1>6. CASE CleanupEnds
    BY <1>6, <1>0, SameQueue DEF CleanupEnds, Progress
  <1>7. CASE rules = "careful" /\ Quiet /\ DestroyMarks
    BY <1>7, <1>0, SameQueue DEF DestroyMarks, Quiet, Progress
  <1>8. CASE rules = "careful" /\ DestroyClears
    BY <1>8, <1>0, SameQueue, ClearIs
    DEF DestroyClears, Pending!Clear, Pending!FreeBlocks, Progress
  <1>9. CASE rules = "careful" /\ DestroyCloses
    BY <1>9, <1>0, SameQueue, ClearIs
    DEF DestroyCloses, Pending!DestroyMark, Pending!FreeBlocks, Pending!CondBroadcast, Progress
  <1>10. CASE rules = "careful" /\ DestroyFreesQueue
    BY <1>10, <1>0, SameQueue DEF DestroyFreesQueue, Pending!DestroyFree, Progress
  <1>11. CASE rules = "careful" /\ DestroyEmptiesTable
    BY <1>11, <1>0, SameQueue DEF DestroyEmptiesTable, Pending!FreeBlocks, Progress
  <1>12. CASE rules = "any"
    BY <1>12, <1>0 DEF Progress
  <1> QED
    BY StepIs, <1>1, <1>2, <1>3, <1>4, <1>5, <1>6, <1>7, <1>8, <1>9, <1>10, <1>11, <1>12 DEF Steps

LEMMA EmptyIs == items = <<>> => Queued = {} /\ Pending!ToSet(items) = {}
  <1>1. {<<>>[i] : i \in DOMAIN <<>>} = {}
    OBVIOUS
  <1> QED
    BY <1>1 DEF Queued, Pending!ToSet

(* What a careful cleanup frees is in no thread's hands and in no queue.     *)
LEMMA FreedIsUnused ==
    ASSUME IInv, NEW r \in Reqs, CleanupFrees(r), rules = "careful"
    PROVE  r \notin Queued /\ \A t \in Clients \cup Workers : ref[t] # r
  <1>1. r \in table /\ cleaning /\ r # NoReq
    BY RequestQueueAssumption DEF CleanupFrees, IInv, Memory, RequestQueueAssumption
  <1>2. status[r] \in Terminal /\ \A c \in Clients : ref[c] # r
    BY <1>1 DEF IInv, Cleanup, ClientsIdle, TypeOK
  <1>3. r \notin Queued
    BY <1>2 DEF IInv, Progress, Terminal
  <1>4. ASSUME NEW w \in Workers PROVE ref[w] # r
    <2>1. pc[w] \in {"idle", "fetched", "working"}
      BY DEF IInv, Roles, WorkerPc
    <2> QED
      BY <1>1, <1>2, <2>1 DEF IInv, TypeOK, Progress, Terminal
  <1> QED
    BY <1>2, <1>3, <1>4

(* The table owns what is allocated.                                       *)
LEMMA MemoryStep ==
    ASSUME IInv, [Next]_vars
    PROVE  Memory'
  <1> USE DEF IInv, At, pendVars, reqVars, callVars, cleanVars, lifeVars
  <1>0. rules' = rules
    BY StepIs
  <1>1. CASE UNCHANGED vars
    BY <1>1, SameQueue, <1>0 DEF vars, queue, Memory
  <1>2. ASSUME NEW c \in Clients, ClientStep(c) PROVE Memory'
    <2>1. ASSUME NEW r \in Reqs, SubmitAdds(c, r)
          PROVE  Memory'
      BY <2>1, <1>0, SameQueue DEF SubmitAdds, Memory, TypeOK, Pending!QTypeOK
    <2>2. CASE SubmitEnqueues(c)
      <3>1. /\ ref' = [ref EXCEPT ![c] = NoReq] /\ ref[c] # NoReq
            /\ heap' = heap /\ table' = table /\ toVisit' = toVisit /\ Queued' = Queued \cup {ref[c]}
        BY <2>2, <1>0, EnqueueIs, RequestQueueAssumption
        DEF SubmitEnqueues, Done, RequestQueueAssumption
      <3> QED
        BY <1>0, <3>1 DEF Memory, TypeOK
    <2>3. ASSUME NEW r \in Reqs, NEW call \in {"wait", "cancel", "status"},
                LookUp(c, r, call), call = "cancel" => rules = "any"
          PROVE  Memory'
      BY <2>3, <1>0, SameQueue DEF LookUp, Memory, TypeOK, Pending!QTypeOK
    <2>4. CASE WaitFindsDone(c)
      BY <2>4, <1>0, SameQueue DEF WaitFindsDone, WaitSettles, Memory
    <2>5. CASE WaitBlocks(c)
      BY <2>5, <1>0, SameQueue DEF WaitBlocks, Memory
    <2>6. CASE WaitWakes(c)
      BY <2>6, <1>0, SameQueue DEF WaitWakes, WaitSettles, Memory
    <2>7. CASE WaitReturnsZero(c)
      BY <2>7, <1>0, SameQueue DEF WaitReturnsZero, Done, Memory, TypeOK, Pending!QTypeOK
    <2>8. CASE WaitTimesOut(c)
      BY <2>8, <1>0, SameQueue DEF WaitTimesOut, Done, Memory, TypeOK, Pending!QTypeOK
    <2>9. CASE ReadOnly(c)
      BY <2>9, <1>0, SameQueue DEF ReadOnly, Done, Memory, TypeOK, Pending!QTypeOK
    <2>10. ASSUME rules = "any", Cancel(c)
          PROVE  Memory'
      BY <2>10, <1>0, SameQueue, CancelIs DEF Cancel, Signalled, Memory, TypeOK, Pending!QTypeOK
    <2>11. CASE SpuriousWakeup(c)
      BY <2>11, <1>0, SameQueue DEF SpuriousWakeup, Memory
    <2> QED
      BY <1>2, <1>0, <2>1, <2>2, <2>3, <2>4, <2>5, <2>6, <2>7, <2>8, <2>9, <2>10, <2>11
      DEF ClientStep, CallStep
  <1>3. ASSUME NEW w \in Workers, WorkerStep(w) PROVE Memory'
    <2>1. CASE FetchGets(w)
      BY <2>1, <1>0, SameQueue, DequeueIs DEF FetchGets, Memory, TypeOK, Pending!QTypeOK
    <2>2. CASE FetchWaits(w)
      BY <2>2, <1>0, SameQueue DEF FetchWaits, Memory
    <2>3. CASE FetchMarks(w)
      BY <2>3, <1>0, SameQueue DEF FetchMarks, Memory
    <2>4. CASE Complete(w)
      BY <2>4, <1>0, SameQueue, CompleteIs DEF Complete, Signalled, Memory, TypeOK, Pending!QTypeOK
    <2> QED
      BY <1>3, <1>0, <2>1, <2>2, <2>3, <2>4, FetchIs DEF WorkerStep
  <1>4. ASSUME NEW r \in Reqs, CleanupStep(r) PROVE Memory'
    <2>1. CASE CleanupKeeps(r)
      BY <2>1, <1>0, SameQueue DEF CleanupKeeps, Memory
    <2>2. ASSUME rules = "any", CleanupExpires(r)
          PROVE  Memory'
      BY <2>2, <1>0, SameQueue DEF CleanupExpires, Signalled, Memory
    <2>3. CASE CleanupFrees(r)
      <3> SUFFICES ASSUME rules = "careful" PROVE Memory'
        BY <1>0 DEF Memory
      <3>1. /\ r \in toVisit /\ toVisit' = toVisit \ {r} /\ table' = table \ {r}
            /\ ref' = ref /\ Queued' = Queued
        BY <2>3, SameQueue DEF CleanupFrees
      <3>2. r \notin Queued /\ \A t \in Clients \cup Workers : ref[t] # r
        BY <2>3, FreedIsUnused
      <3>3. heap[r] = "live"
        BY <3>1 DEF Memory
      <3>4. heap' = [x \in Reqs |-> IF x # r THEN heap[x] ELSE "freed"]
        BY <2>3, <3>3 DEF CleanupFrees, Pending!FreeBlocks
      <3> QED
        BY <3>1, <3>2, <3>4 DEF Memory, TypeOK
    <2> QED
      BY <1>4, <1>0, <2>1, <2>2, <2>3 DEF CleanupStep
  <1>5. CASE CleanupBegins
    BY <1>5, <1>0, SameQueue DEF CleanupBegins, Memory
  <1>6. CASE CleanupEnds
    BY <1>6, <1>0, SameQueue DEF CleanupEnds, Memory
  <1>7. CASE rules = "careful" /\ Quiet /\ DestroyMarks
    BY <1>7, <1>0, SameQueue DEF DestroyMarks, Quiet, Memory
  <1>8. CASE rules = "careful" /\ DestroyClears
    <2>1. items = <<>>
      BY <1>8, <1>0 DEF DestroyClears, Shutdown
    <2>2. heap' = heap
      BY <1>8, <1>0, <2>1, EmptyIs
      DEF DestroyClears, Pending!Clear, Pending!FreeBlocks, TypeOK, Pending!QTypeOK
    <2> QED
      BY <1>8, <1>0, <2>1, <2>2, EmptyIs, ClearIs DEF DestroyClears, Pending!Clear, Memory
  <1>9. CASE rules = "careful" /\ DestroyCloses
    <2>1. items = <<>>
      BY <1>9, <1>0 DEF DestroyCloses, Shutdown
    <2>2. heap' = heap
      BY <1>9, <1>0, <2>1, EmptyIs
      DEF DestroyCloses, Pending!DestroyMark, Pending!FreeBlocks, TypeOK, Pending!QTypeOK
    <2> QED
      BY <1>9, <1>0, <2>1, <2>2, EmptyIs, ClearIs DEF DestroyCloses, Pending!DestroyMark, Memory
  <1>10. CASE rules = "careful" /\ DestroyFreesQueue
    BY <1>10, <1>0, SameQueue DEF DestroyFreesQueue, Pending!DestroyFree, Memory
  <1>11. CASE rules = "careful" /\ DestroyEmptiesTable
    <2>1. /\ items = <<>> /\ toVisit = {} /\ \A t \in Clients \cup Workers : ref[t] = NoReq
      BY <1>11, <1>0 DEF DestroyEmptiesTable, Shutdown, TypeOK
    <2>2. Queued' = {}
      BY <1>11, <1>0, <2>1, EmptyIs, SameQueue DEF DestroyEmptiesTable
    <2>3. heap' = [x \in Reqs |-> IF x \notin table THEN heap[x] ELSE "freed"]
      BY <1>11, <1>0 DEF DestroyEmptiesTable, Pending!FreeBlocks, Memory
    <2> QED
      BY <1>11, <1>0, <2>1, <2>2, <2>3 DEF DestroyEmptiesTable, Memory
  <1>12. CASE rules = "any"
    BY <1>12, <1>0 DEF Memory
  <1> QED
    BY StepIs, <1>1, <1>2, <1>3, <1>4, <1>5, <1>6, <1>7, <1>8, <1>9, <1>10, <1>11, <1>12 DEF Steps

(* A careful cleanup runs alone.                                            *)
LEMMA CleanupInvStep ==
    ASSUME IInv, [Next]_vars
    PROVE  Cleanup'
  <1> SUFFICES ASSUME rules = "careful" PROVE Cleanup'
    BY StepIs DEF Cleanup
  <1> USE DEF IInv, At, pendVars, reqVars, callVars, cleanVars, lifeVars
  <1>1. CASE UNCHANGED vars
    BY <1>1 DEF vars, queue, Cleanup, ClientsIdle
  <1>2. ASSUME NEW c \in Clients, ClientStep(c) PROVE Cleanup'
    <2>1. ~cleaning
      <3>1. cleaning => pc[c] = "idle"
        BY DEF Cleanup, ClientsIdle
      <3> QED
        BY <1>2, <3>1
        DEF ClientStep, CallStep, SubmitAdds, SubmitEnqueues, LookUp, WaitFindsDone, WaitBlocks,
            WaitWakes, WaitReturnsZero, WaitTimesOut, SpuriousWakeup, ReadOnly
    <2>2. cleaning' = cleaning /\ undefined' = undefined
      BY <1>2
      DEF ClientStep, CallStep, SubmitAdds, SubmitEnqueues, LookUp, WaitFindsDone, WaitBlocks,
          WaitWakes, WaitSettles, WaitReturnsZero, WaitTimesOut, SpuriousWakeup, ReadOnly
    <2>3. \A d \in Clients : pc'[d] # "cancel"
      BY <1>2
      DEF ClientStep, CallStep, SubmitAdds, SubmitEnqueues, Done, LookUp, WaitFindsDone, WaitBlocks,
          WaitWakes, WaitSettles, WaitReturnsZero, WaitTimesOut, SpuriousWakeup, ReadOnly,
          Cleanup, TypeOK
    <2> QED
      BY <2>1, <2>2, <2>3 DEF Cleanup
  <1>3. ASSUME NEW w \in Workers, WorkerStep(w) PROVE Cleanup'
    <2>1. CASE FetchGets(w)
      <3>1. ~cleaning
        BY <2>1, DequeueIs DEF Cleanup, Progress, Memory, Terminal
      <3>2. pc' = [pc EXCEPT ![w] = "fetched"]
        BY <2>1 DEF FetchGets
      <3> QED
        BY <2>1, <3>1, <3>2 DEF FetchGets, Cleanup, TypeOK
    <2>2. CASE FetchWaits(w)
      BY <2>2 DEF FetchWaits, Cleanup, ClientsIdle
    <2>3. CASE FetchMarks(w)
      <3>1. ref[w] \in table /\ status[ref[w]] \notin Terminal
        BY <2>3 DEF FetchMarks, Memory, Progress, Terminal, TypeOK
      <3> QED
        BY <2>3, <3>1 DEF FetchMarks, Cleanup, TypeOK
    <2>4. CASE Complete(w)
      <3>1. ref[w] \in table /\ status[ref[w]] \notin Terminal
        BY <2>4 DEF Complete, Memory, Progress, Terminal, TypeOK
      <3>2. \A d \in Clients : pc'[d] # "cancel"
        BY <2>4, CompleteIs DEF Signalled, Cleanup, TypeOK
      <3> QED
        BY <2>4, <3>1, <3>2 DEF Complete, Cleanup, TypeOK
    <2> QED
      BY <1>3, <2>1, <2>2, <2>3, <2>4, FetchIs DEF WorkerStep
  <1>4. ASSUME NEW r \in Reqs, CleanupStep(r) PROVE Cleanup'
    <2>1. CASE CleanupKeeps(r)
      BY <2>1 DEF CleanupKeeps, Cleanup, ClientsIdle
    <2>2. CASE CleanupFrees(r)
      <3>1. \A t \in Clients \cup Workers : ref[t] # r
        BY <2>2, FreedIsUnused
      <3> QED
        BY <2>2, <3>1 DEF CleanupFrees, Cleanup, ClientsIdle
    <2> QED
      BY <1>4, <2>1, <2>2 DEF CleanupStep
  <1>5. CASE AllDone /\ CleanupBegins
    BY <1>5 DEF CleanupBegins, AllDone, Cleanup, ClientsIdle
  <1>6. CASE CleanupEnds
    BY <1>6 DEF CleanupEnds, Cleanup
  <1>7. CASE DestroyMarks \/ DestroyClears \/ DestroyCloses \/ DestroyFreesQueue
    BY <1>7
    DEF DestroyMarks, DestroyClears, DestroyCloses, DestroyFreesQueue, Cleanup, ClientsIdle
  <1>8. CASE DestroyEmptiesTable
    BY <1>8 DEF DestroyEmptiesTable, Cleanup
  <1> QED
    BY StepIs, <1>1, <1>2, <1>3, <1>4, <1>5, <1>6, <1>7, <1>8 DEF Steps

LEMMA InitIInv == Init => IInv
  <1> SUFFICES ASSUME Init PROVE IInv
    OBVIOUS
  <1>1. items = <<>> /\ items \in Seq(Reqs) /\ Len(items) = 0 /\ Queued = {}
    BY EmptyIs DEF Init, Pending!QInit
  <1>2. TypeOK
    BY <1>1 DEF Init, Pending!QInit, TypeOK, Pending!QTypeOK, Pending!HeapStates, Statuses,
                ClientPc, WorkerPc
  <1>3. Roles /\ Allocated /\ Shutdown
    BY <1>1 DEF Init, Pending!QInit, Roles, ClientPc, WorkerPc, Allocated, Shutdown
  <1>4. Placement
    BY <1>1 DEF Init, Pending!QInit, Placement
  <1>5. Memory /\ Progress /\ Cleanup
    BY <1>1 DEF Init, Pending!QInit, Memory, Progress, Cleanup
  <1> QED
    BY <1>2, <1>3, <1>4, <1>5 DEF IInv
-----------------------------------------------------------------------------
(* The invariant, whatever clients, workers, cleanup and destroy do, under  *)
(* either set of rules.                                                    *)
THEOREM Invariance == Spec => []IInv
  <1>1. Init => IInv
    BY InitIInv
  <1>2. IInv /\ [Next]_vars => IInv'
    BY TypeStep, RolesStep, AllocatedStep, PlacementStep, ShutdownStep, MemoryStep, ProgressStep,
       CleanupInvStep DEF IInv
  <1> QED
    BY <1>1, <1>2, PTL DEF Spec

(* Every variable keeps its type; a thread has a pointer to a request      *)
(* exactly while it is in a call.                                          *)
THEOREM TypeCorrect == Spec => []TypeOK
  BY Invariance, PTL DEF IInv

(* Clients that clean up and destroy only when they see every request done  *)
(* meet no dangling pointer, no second free and no lock that is destroyed   *)
(* in use, whatever create_request leaves in bNeedFree and however many     *)
(* waits return early: done means out of the pending queue and of every     *)
(* worker's hands.                                                         *)
THEOREM CarefulSafe == Spec => []CarefulClientsAreSafe
  <1>1. IInv => CarefulClientsAreSafe
    BY DEF IInv, Memory, Cleanup, CarefulClientsAreSafe, NoDanglingRequest, Queued, TypeOK
  <1> QED
    BY <1>1, Invariance, PTL
-----------------------------------------------------------------------------
(***************************************************************************)
(* The wait of a worker on the pending queue.  No signal is lost there: as *)
(* long as a worker sleeps, one has been woken for each request that waits.*)
(***************************************************************************)
NoneMissed == /\ Pending!Waiting # {} => Len(items) <= Cardinality(Pending!Woken)
              /\ closed => Pending!Waiting = {}

LEMMA WokenFinite ==
    ASSUME IsFiniteSet(Workers)
    PROVE  /\ IsFiniteSet(Pending!Woken) /\ Cardinality(Pending!Woken) \in Nat
           /\ IsFiniteSet(Pending!Woken') /\ Cardinality(Pending!Woken') \in Nat
  <1>1. Pending!Woken \in SUBSET Workers /\ Pending!Woken' \in SUBSET Workers
    BY DEF Pending!Woken
  <1> QED
    BY <1>1, FS_Subset, FS_CardinalityType

(* One worker is woken, or leaves. *)
LEMMA WakesOne ==
    ASSUME TypeOK, IsFiniteSet(Workers), NEW w \in Workers, where[w] = "wait",
           where' = [where EXCEPT ![w] = "woken"]
    PROVE  Cardinality(Pending!Woken') = Cardinality(Pending!Woken) + 1
  <1>1. Pending!Woken' = Pending!Woken \cup {w} /\ w \notin Pending!Woken
    BY DEF Pending!Woken, TypeOK, Pending!QTypeOK
  <1> QED
    BY <1>1, WokenFinite, FS_AddElement

LEMMA WokenLeaves ==
    ASSUME TypeOK, IsFiniteSet(Workers), NEW w \in Workers, where[w] = "woken", NEW to,
           where' = [where EXCEPT ![w] = to], to # "woken"
    PROVE  Cardinality(Pending!Woken') = Cardinality(Pending!Woken) - 1
  <1>1. Pending!Woken' = Pending!Woken \ {w} /\ w \in Pending!Woken
    BY DEF Pending!Woken, TypeOK, Pending!QTypeOK
  <1> QED
    BY <1>1, WokenFinite, FS_RemoveElement

(* An enqueue adds one request and wakes one worker, if any sleeps. *)
LEMMA EnqueueWakes ==
    ASSUME TypeOK, IsFiniteSet(Workers), NoneMissed, NEW r \in Reqs, Pending!Enqueue(r)
    PROVE  NoneMissed'
  <1>1. /\ items' = Append(items, r) /\ ~closed /\ closed' = closed /\ Pending!CondSignal
    BY DEF Pending!Enqueue, Pending!Insert
  <1>2. items \in Seq(Reqs) /\ Len(items) \in Nat /\ Len(items') = Len(items) + 1
    BY <1>1 DEF TypeOK, Pending!QTypeOK
  <1>3. CASE Pending!Waiting = {} /\ where' = where
    BY <1>1, <1>3 DEF NoneMissed, Pending!Waiting
  <1>4. ASSUME NEW w \in Pending!Waiting, where' = [where EXCEPT ![w] = "woken"]
        PROVE  NoneMissed'
    <2>1. w \in Workers /\ where[w] = "wait" /\ Pending!Waiting # {}
      BY <1>4 DEF Pending!Waiting
    <2>2. Cardinality(Pending!Woken') = Cardinality(Pending!Woken) + 1
      BY <1>4, <2>1, WakesOne
    <2>3. Len(items) <= Cardinality(Pending!Woken)
      BY <2>1 DEF NoneMissed
    <2>4. Len(items') <= Cardinality(Pending!Woken')
      BY <1>2, <2>2, <2>3, WokenFinite
    <2> QED
      BY <1>1, <2>4 DEF NoneMissed
  <1> QED
    BY <1>1, <1>3, <1>4 DEF Pending!CondSignal

(* What a worker does in queue_dequeue, and the wakeups of nobody. *)
LEMMA DequeueMissesNone ==
    ASSUME TypeOK, IsFiniteSet(Workers), NoneMissed, NEW w \in Workers,
           \/ Pending!Dequeue(w) \/ Pending!DequeueWaits(w)
           \/ Pending!DequeueResumes(w) \/ Pending!WakesSpuriously(w)
    PROVE  NoneMissed'
  <1>0. /\ items \in Seq(Reqs) /\ Len(items) \in Nat /\ closed' = closed
        /\ items # <<>> => Len(Tail(items)) = Len(items) - 1
    BY DEF TypeOK, Pending!QTypeOK, Pending!Dequeue, Pending!DequeueWaits, Pending!DequeueResumes,
           Pending!WakesSpuriously, Pending!TakeFront, Pending!ReturnNull
  <1>1. CASE items = <<>> /\ items' = items /\ ~closed
    <2>1. Len(items') = 0
      BY <1>1
    <2> QED
      BY <1>0, <1>1, <2>1, WokenFinite DEF NoneMissed
  <1>2. CASE Pending!TakeFront(w) /\ where[w] \in {"out", "woken"}
    <2>1. /\ items # <<>> /\ items' = Tail(items) /\ where' = [where EXCEPT ![w] = "out"] /\ ~closed
      BY <1>2 DEF Pending!TakeFront
    <2>2. Pending!Waiting' = Pending!Waiting
      BY <1>2, <2>1 DEF Pending!Waiting, TypeOK, Pending!QTypeOK
    <2>3. Cardinality(Pending!Woken') >= Cardinality(Pending!Woken) - 1
      <3>1. CASE where[w] = "woken"
        <4>1. Cardinality(Pending!Woken') = Cardinality(Pending!Woken) - 1
          BY <2>1, <3>1, WokenLeaves
        <4> QED
          BY <4>1, WokenFinite
      <3>2. CASE where[w] = "out"
        <4>1. Pending!Woken' = Pending!Woken
          BY <2>1, <3>2 DEF Pending!Woken, TypeOK, Pending!QTypeOK
        <4> QED
          BY <4>1, WokenFinite
      <3> QED
        BY <1>2, <3>1, <3>2
    <2>4. Pending!Waiting # {} => Len(items) <= Cardinality(Pending!Woken)
      BY DEF NoneMissed
    <2>5. Pending!Waiting' # {} => Len(items') <= Cardinality(Pending!Woken')
      BY <1>0, <2>1, <2>2, <2>3, <2>4, WokenFinite
    <2> QED
      BY <1>0, <2>1, <2>5 DEF NoneMissed
  <1>3. CASE closed /\ where' = [where EXCEPT ![w] = "out"]
    <2>1. Pending!Waiting' = {}
      BY <1>3 DEF NoneMissed, Pending!Waiting, TypeOK, Pending!QTypeOK
    <2> QED
      BY <2>1 DEF NoneMissed
  <1>4. CASE Pending!WakesSpuriously(w)
    <2>1. where[w] = "wait" /\ where' = [where EXCEPT ![w] = "woken"] /\ items' = items
      BY <1>4 DEF Pending!WakesSpuriously
    <2>2. w \in Pending!Waiting
      BY <2>1 DEF Pending!Waiting
    <2>3. Len(items) <= Cardinality(Pending!Woken) /\ ~closed
      BY <2>2 DEF NoneMissed
    <2>4. Cardinality(Pending!Woken') = Cardinality(Pending!Woken) + 1
      BY <2>1, WakesOne
    <2>5. Len(items') <= Cardinality(Pending!Woken')
      BY <1>0, <2>1, <2>3, <2>4, WokenFinite
    <2> QED
      BY <1>0, <2>3, <2>5 DEF NoneMissed
  <1> QED
    BY <1>1, <1>2, <1>3, <1>4 DEF Pending!Dequeue, Pending!DequeueWaits, Pending!DequeueResumes,
                                  Pending!ReturnNull

LEMMA NoneMissedStep ==
    ASSUME IInv, IsFiniteSet(Workers), NoneMissed, [Next]_vars
    PROVE  NoneMissed'
  <1>0. TypeOK /\ (Steps \/ UNCHANGED vars)
    BY StepIs DEF IInv
  <1>1. CASE UNCHANGED <<items, where, closed>>
    BY <1>1 DEF NoneMissed, Pending!Waiting, Pending!Woken
  <1>2. ASSUME NEW c \in Clients, ClientStep(c)
        PROVE  NoneMissed'
    <2>1. CASE SubmitEnqueues(c)
      <3>1. PICK r \in Reqs : r = ref[c]
        BY <1>0, <2>1 DEF SubmitEnqueues, TypeOK
      <3>2. Pending!Enqueue(r)
        BY <2>1, <3>1 DEF SubmitEnqueues, Pending!Enqueue, Pending!Insert
      <3> QED
        BY <1>0, <3>2, EnqueueWakes
    <2>2. CASE ~SubmitEnqueues(c)
      <3>1. UNCHANGED pendVars
        BY <1>2, <2>2 DEF ClientStep, CallStep, SubmitAdds, LookUp, WaitFindsDone, WaitBlocks,
                          WaitWakes, WaitSettles, WaitReturnsZero, WaitTimesOut, ReadOnly, Cancel,
                          SpuriousWakeup
      <3> QED
        BY <1>1, <3>1 DEF pendVars
    <2> QED
      BY <2>1, <2>2
  <1>3. ASSUME NEW w \in Workers, WorkerStep(w)
        PROVE  NoneMissed'
    <2>1. CASE FetchMarks(w) \/ Complete(w)
      BY <1>1, <2>1 DEF FetchMarks, Complete, pendVars
    <2>2. CASE ~(FetchMarks(w) \/ Complete(w))
      <3>1. \/ Pending!Dequeue(w) \/ Pending!DequeueWaits(w)
            \/ Pending!DequeueResumes(w) \/ Pending!WakesSpuriously(w)
        BY <1>3, <2>2 DEF WorkerStep, FetchDequeues, FetchResumes, FetchSpurious
      <3> QED
        BY <1>0, <3>1, DequeueMissesNone
    <2> QED
      BY <2>1, <2>2
  <1>4. ASSUME NEW r \in Reqs, CleanupStep(r)
        PROVE  NoneMissed'
    BY <1>1, <1>4 DEF CleanupStep, CleanupKeeps, CleanupExpires, CleanupFrees, pendVars
  <1>5. CASE CleanupBegins \/ CleanupEnds \/ DestroyMarks \/ DestroyEmptiesTable
    BY <1>1, <1>5 DEF CleanupBegins, CleanupEnds, DestroyMarks, DestroyEmptiesTable, pendVars
  <1>6. CASE DestroyClears
    <2>1. items' = <<>> /\ where' = where /\ closed' = closed
      BY <1>6 DEF DestroyClears, Pending!Clear
    <2>2. Len(items') <= Cardinality(Pending!Woken')
      BY <2>1, WokenFinite
    <2> QED
      BY <2>1, <2>2 DEF NoneMissed, Pending!Waiting
  <1>7. CASE DestroyCloses
    <2>1. Pending!Waiting' = {}
      BY <1>7 DEF DestroyCloses, Pending!DestroyMark, Pending!CondBroadcast, Pending!Waiting
    <2> QED
      BY <2>1 DEF NoneMissed
  <1>8. CASE DestroyFreesQueue \/ \E t \in Clients \cup Workers : UsesFreed(t)
    BY <1>1, <1>8 DEF DestroyFreesQueue, Pending!DestroyFree, UsesFreed, pendVars
  <1>9. CASE UNCHANGED vars
    BY <1>1, <1>9 DEF vars, queue, pendVars
  <1> QED
    BY <1>0, <1>2, <1>3, <1>4, <1>5, <1>6, <1>7, <1>8, <1>9 DEF Steps

(* A worker asleep in async_request_fetch has not been forgotten: whatever *)
(* clients submit and workers fetch in between, spurious wakeups and a     *)
(* destroy included, the requests that wait are at most the woken workers. *)
THEOREM FetchMissesNone ==
    ASSUME IsFiniteSet(Workers)
    PROVE  Spec => []Pending!NoLostWakeup
  <1>1. Init => NoneMissed
    BY DEF Init, Pending!QInit, NoneMissed, Pending!Waiting
  <1>2. IInv /\ NoneMissed /\ [Next]_vars => NoneMissed'
    BY NoneMissedStep
  <1>3. NoneMissed => Pending!NoLostWakeup
    BY DEF NoneMissed, Pending!NoLostWakeup, Pending!Cardinality, Cardinality
  <1> QED
    BY <1>1, <1>2, <1>3, Invariance, PTL DEF Spec
=============================================================================
