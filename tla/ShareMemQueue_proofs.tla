------------------------ MODULE ShareMemQueue_proofs ------------------------
(***************************************************************************)
(* Proofs about ShareMemQueue for every number of processes, elements and  *)
(* crashes.                                                                *)
(***************************************************************************)
EXTENDS ShareMemQueue, FiniteSetTheorems, SequenceTheorems, TLAPS

In(S) == {p \in Processes : pc[p] \in S}

(* Where a writer and a reader have taken from a semaphore or are yet to    *)
(* post to one.  OnStored: an element is in the queue that notEmpty does not*)
(* promise; OnFree: a cell is free that notFull does not promise.          *)
WriteCall == {"wantSpace", "gotSpace", "filling", "filled", "putting", "putDone"}
ReadCall  == {"wantItem", "gotItem", "reading", "consumed", "removing", "removed"}
OnStored  == {"putDone", "gotItem", "reading", "consumed", "removing"}
OnFree    == {"removed", "gotSpace", "filling", "filled", "putting"}
Pointing  == {"filling", "filled", "putting", "reading", "consumed", "removing"}

Roles ==
    /\ \A p \in Processes : pc[p] \in WriteCall => p \in Writers
    /\ \A p \in Processes : pc[p] \in ReadCall => p \in Readers

(* Whoever has a handle is attached to a segment that is valid or was made   *)
(* invalid; as long as its semaphores are zeros nobody gets past them.     *)
Attached ==
    /\ \A p \in Processes : /\ pc[p] \notin {"out", "creating", "syncing", "opening", "torn"}
                                => seg \in {"published", "ready"}
                            /\ pc[p] \in OnStored \cup OnFree => seg = "ready"
    /\ seg = "published" => notEmpty = 0 /\ notFull = 0

(* Where the segment can be while somebody creates or deletes it; only one  *)
(* process is the creator, and only it takes the segment through its phases.*)
Phases ==
    /\ Attached
    /\ \A p \in Processes : /\ pc[p] = "creating" => seg = "blank" /\ isCreator[p]
                            /\ pc[p] = "syncing" => seg = "published" /\ isCreator[p]
                            /\ pc[p] = "torn" => seg = "torn" /\ isCreator[p]
                            /\ isCreator[p] => pc[p] \notin {"out", "opening"}
                            /\ pc[p] = "closing" => ~isValid
                            /\ pc[p] = "closing" /\ isCreator[p] => Alone(p)
    /\ \A p, q \in Processes : isCreator[p] /\ isCreator[q] => p = q
    /\ seg \in {"absent", "blank", "torn"} => ~isValid

(* What the semaphores promise and what calls in progress hold is no more   *)
(* than what is there; a crash or a delete can only make it less.          *)
Promises ==
    /\ seg = "published" => elementCount = 0
    /\ seg = "ready" =>
          /\ notEmpty + Cardinality(In(OnStored)) <= elementCount
          /\ notFull + Cardinality(In(OnFree)) <= MaxElements - elementCount
          /\ crashes = 0 /\ isValid =>
                /\ notEmpty + Cardinality(In(OnStored)) = elementCount
                /\ notFull + Cardinality(In(OnFree)) = MaxElements - elementCount

(* k cells lie from index r to index w of the ring. *)
Between(r, w, k) == \E wraps \in {0, MaxElements} : w + wraps = r + k

Cursors == Between(readIndex, writeIndex, elementCount)

Pointers == \A p \in Processes : cell[p] # NoCell <=> pc[p] \in Pointing

IInv == TypeOK /\ Roles /\ Phases /\ Promises /\ Cursors /\ Pointers

(* With one writer and one reader the pointers are the indices, and what a  *)
(* writer puts back is a value.                                            *)
Single == (\A v, w \in Writers : v = w) /\ (\A q, r \in Readers : q = r)

PointersAreIndices ==
    /\ \A w \in Writers : cell[w] # NoCell => cell[w] = writeIndex
    /\ \A r \in Readers : cell[r] # NoCell => cell[r] = readIndex
    /\ \A w \in Writers : pc[w] \in {"filled", "putting"} => cells[cell[w]] \in Values
-----------------------------------------------------------------------------
(* The processes in one place are finitely many, and when a process moves   *)
(* the number of those in S changes by what it leaves and enters.          *)
LEMMA InFinite ==
    ASSUME NEW S
    PROVE  /\ IsFiniteSet(In(S)) /\ Cardinality(In(S)) \in Nat
           /\ IsFiniteSet(In(S)') /\ Cardinality(In(S)') \in Nat
  <1>1. IsFiniteSet(Writers \cup Readers)
    BY ShareMemQueueAssumption, FS_Union DEF ShareMemQueueAssumption
  <1>2. IsFiniteSet(Processes)
    BY <1>1, ShareMemQueueAssumption, FS_Union DEF ShareMemQueueAssumption, Processes
  <1>3. In(S) \in SUBSET Processes /\ In(S)' \in SUBSET Processes
    BY DEF In
  <1> QED
    BY <1>2, <1>3, FS_Subset, FS_CardinalityType

LEMMA MoveCounts ==
    ASSUME TypeOK, NEW p \in Processes, NEW to, pc' = [pc EXCEPT ![p] = to], NEW S
    PROVE  Cardinality(In(S)') = Cardinality(In(S)) + (IF to \in S THEN 1 ELSE 0)
                                                    - (IF pc[p] \in S THEN 1 ELSE 0)
  <1>1. In(S)' = IF to \in S THEN In(S) \cup {p} ELSE In(S) \ {p}
    BY DEF In, TypeOK
  <1>2. p \in In(S) <=> pc[p] \in S
    BY DEF In
  <1>3. IsFiniteSet(In(S)) /\ Cardinality(In(S)) \in Nat
    BY InFinite
  <1>4. Cardinality(In(S) \cup {p}) = IF p \in In(S) THEN Cardinality(In(S)) ELSE Cardinality(In(S)) + 1
    BY <1>3, FS_AddElement
  <1>5. Cardinality(In(S) \ {p}) = IF p \in In(S) THEN Cardinality(In(S)) - 1 ELSE Cardinality(In(S))
    BY <1>3, FS_RemoveElement
  <1> QED
    BY <1>1, <1>2, <1>3, <1>4, <1>5

(* A process that stands in S makes the number of those in S positive.      *)
LEMMA InPositive ==
    ASSUME NEW p \in Processes, NEW S, pc[p] \in S
    PROVE  Cardinality(In(S)) >= 1
  <1>1. p \in In(S)
    BY DEF In
  <1>2. IsFiniteSet(In(S)) /\ Cardinality(In(S)) \in Nat
    BY InFinite
  <1>3. Cardinality(In(S)) # 0
    BY <1>1, <1>2, FS_EmptySet
  <1> QED
    BY <1>2, <1>3

(***************************************************************************)
(* The ring arithmetic of the indices.                                     *)
(***************************************************************************)
LEMMA Forward ==
    ASSUME NEW i \in Cells
    PROVE  /\ (i + 1) % MaxElements \in Cells
           /\ (i + 1) % MaxElements = IF i + 1 = MaxElements THEN 0 ELSE i + 1
  BY ShareMemQueueAssumption DEF Cells, ShareMemQueueAssumption

LEMMA WriteForward ==
    ASSUME NEW r \in Cells, NEW w \in Cells, NEW k \in Nat, k < MaxElements, Between(r, w, k)
    PROVE  Between(r, (w + 1) % MaxElements, k + 1)
  <1>1. (w + 1) % MaxElements = IF w + 1 = MaxElements THEN 0 ELSE w + 1
    BY Forward
  <1> QED
    BY <1>1, ShareMemQueueAssumption DEF Between, Cells, ShareMemQueueAssumption

LEMMA ReadForward ==
    ASSUME NEW r \in Cells, NEW w \in Cells, NEW k \in Nat, 0 < k, k <= MaxElements, Between(r, w, k)
    PROVE  Between((r + 1) % MaxElements, w, k - 1)
  <1>1. (r + 1) % MaxElements = IF r + 1 = MaxElements THEN 0 ELSE r + 1
    BY Forward
  <1> QED
    BY <1>1, ShareMemQueueAssumption DEF Between, Cells, ShareMemQueueAssumption

LEMMA NoCellIsNone == NoCell \notin Cells
  BY ShareMemQueueAssumption DEF NoCell, Cells, ShareMemQueueAssumption

(* Where everybody is after the two steps that move more than one process.  *)
LEMMA SyncMoves ==
    ASSUME TypeOK, NEW p \in Processes, CreateSync(p)
    PROVE  /\ pc' \in [Processes -> PcValues] /\ pc[p] = "syncing" /\ pc'[p] = "open"
           /\ \A q \in Processes : q # p =>
                 \/ pc'[q] = pc[q]
                 \/ pc[q] \in {"wantSpace", "wantItem"} /\ pc'[q] = "asleep"
  <1>1. pc[p] = "syncing"
    BY DEF CreateSync, SyncDone
  <1>2. PICK S \in SUBSET {q \in Processes : pc[q] \in {"wantSpace", "wantItem"}} :
           pc' = [q \in Processes |-> IF q = p THEN "open" ELSE IF q \in S THEN "asleep" ELSE pc[q]]
    BY DEF CreateSync, SyncDone
  <1> QED
    BY <1>1, <1>2 DEF TypeOK, PcValues

LEMMA DetachMoves ==
    ASSUME TypeOK, NEW p \in Processes, DeleteDetaches(p)
    PROVE  /\ pc' \in [Processes -> PcValues] /\ pc[p] \in {"torn", "closing"} /\ pc'[p] = "out"
           /\ \A q \in Processes : q # p =>
                 \/ pc'[q] = pc[q]
                 \/ isCreator[p] /\ pc[q] = "opening" /\ pc'[q] = "out"
           /\ ~isCreator[p] => pc[p] = "closing" /\ pc' = [pc EXCEPT ![p] = "out"]
  BY DEF DeleteDetaches, TypeOK, PcValues
-----------------------------------------------------------------------------
LEMMA InitIInv == Init => IInv
  <1> SUFFICES ASSUME Init PROVE IInv
    OBVIOUS
  <1>1. 0 \in Cells /\ MaxElements \in Nat /\ MaxCrashes \in Nat
    BY ShareMemQueueAssumption DEF Cells, ShareMemQueueAssumption
  <1>2. TypeOK
    <2>1. 0 \in 0 .. MaxElements /\ 0 \in 0 .. MaxCrashes
      BY <1>1
    <2>2. /\ [c \in Cells |-> Blank] \in [Cells -> Values \cup {Blank}]
          /\ [p \in Processes |-> "out"] \in [Processes -> PcValues]
          /\ [p \in Processes |-> NoCell] \in [Processes -> Cells \cup {NoCell}]
          /\ [p \in Processes |-> FALSE] \in [Processes -> BOOLEAN]
      BY DEF PcValues
    <2> QED
      BY <1>1, <2>1, <2>2 DEF Init, TypeOK
  <1>3. Roles /\ Phases /\ Promises /\ Pointers
    BY DEF Init, Roles, Phases, Attached, OnStored, OnFree, Promises, Pointers, WriteCall, ReadCall, Pointing
  <1>4. Cursors
    BY <1>1 DEF Init, Cursors, Between
  <1> QED
    BY <1>2, <1>3, <1>4 DEF IInv

(* The steps any process may take, whether it writes, reads or neither.     *)
AnyStep(p) ==
    \/ CreateSegment(p) \/ CreatePublish(p) \/ CreateSync(p)
    \/ Open(p) \/ OpenValidate(p)
    \/ ((isCreator[p] => Alone(p)) /\ DeleteBegins(p)) \/ DeleteDestroys(p) \/ DeleteDetaches(p)
    \/ Crash(p)

(***************************************************************************)
(* Whoever is about to put an element finds the ring not full, whoever is  *)
(* about to remove one finds it not empty, although neither looks.         *)
(***************************************************************************)
LEMMA RingNotFull ==
    ASSUME IInv, NEW p \in Processes, pc[p] \in OnFree
    PROVE  elementCount < MaxElements
  <1>1. seg = "ready"
    BY DEF IInv, Phases, Attached, OnFree
  <1>2. Cardinality(In(OnFree)) >= 1
    BY InPositive
  <1>3. Cardinality(In(OnFree)) \in Nat /\ MaxElements \in Nat
    BY InFinite, ShareMemQueueAssumption DEF ShareMemQueueAssumption
  <1> QED
    BY <1>1, <1>2, <1>3 DEF IInv, Promises, TypeOK

LEMMA RingNotEmpty ==
    ASSUME IInv, NEW p \in Processes, pc[p] \in OnStored
    PROVE  0 < elementCount
  <1>1. seg = "ready"
    BY DEF IInv, Phases, Attached, OnStored
  <1>2. Cardinality(In(OnStored)) >= 1
    BY InPositive
  <1>3. Cardinality(In(OnStored)) \in Nat /\ MaxElements \in Nat
    BY InFinite, ShareMemQueueAssumption DEF ShareMemQueueAssumption
  <1> QED
    BY <1>1, <1>2, <1>3 DEF IInv, Promises, TypeOK
-----------------------------------------------------------------------------
(* Types.                                                                  *)
LEMMA TypeStep ==
    ASSUME IInv, [Next]_vars
    PROVE  TypeOK'
  <1> USE DEF IInv, Move, block, sems
  <1>1. CASE UNCHANGED vars
    BY <1>1 DEF vars, procs, TypeOK, PcValues
  <1>2. ASSUME NEW p \in Writers, WriteStep(p) PROVE TypeOK'
    <2>0. p \in Processes
      BY DEF Processes
    <2>1. CASE GetWriteBegins(p)
      BY <2>0, <2>1 DEF GetWriteBegins, TypeOK, PcValues
    <2>2. CASE WaitNotFull(p)
      <3>1. notFull - 1 \in 0 .. MaxElements
        BY <2>2, ShareMemQueueAssumption DEF WaitNotFull, TypeOK, ShareMemQueueAssumption
      <3> QED
        BY <2>0, <2>2, <3>1 DEF WaitNotFull, TypeOK, PcValues
    <2>3. CASE GetWritePtr(p)
      BY <2>0, <2>3 DEF GetWritePtr, TypeOK, PcValues
    <2>4. CASE \E v \in Values : Fill(p, v)
      <3>1. PICK v \in Values : Fill(p, v)
        BY <2>4
      <3> QED
        BY <2>0, <3>1 DEF Fill, TypeOK, PcValues
    <2>5. CASE PutWriteBegins(p)
      BY <2>0, <2>5 DEF PutWriteBegins, TypeOK, PcValues
    <2>6. CASE PutWritePtr(p)
      <3>1. elementCount + 1 \in 0 .. MaxElements
        BY <2>0, <2>6, RingNotFull, ShareMemQueueAssumption
        DEF PutWritePtr, TypeOK, OnFree, ShareMemQueueAssumption
      <3>2. (writeIndex + 1) % MaxElements \in Cells
        BY Forward DEF TypeOK
      <3> QED
        BY <2>0, <2>6, <3>1, <3>2 DEF PutWritePtr, TypeOK, PcValues
    <2>7. CASE PostNotEmpty(p)
      <3>1. seg = "ready" /\ Cardinality(In(OnStored)) >= 1
        BY <2>0, <2>7, InPositive DEF PostNotEmpty, Phases, Attached, OnStored
      <3>2. notEmpty + 1 \in 0 .. MaxElements
        BY <3>1, InFinite, ShareMemQueueAssumption DEF Promises, TypeOK, ShareMemQueueAssumption
      <3> QED
        BY <2>0, <2>7, <3>2 DEF PostNotEmpty, TypeOK, PcValues
    <2> QED
      BY <1>2, <2>1, <2>2, <2>3, <2>4, <2>5, <2>6, <2>7 DEF WriteStep
  <1>3. ASSUME NEW p \in Readers, ReadStep(p) PROVE TypeOK'
    <2>0. p \in Processes
      BY DEF Processes
    <2>1. CASE GetReadBegins(p)
      BY <2>0, <2>1 DEF GetReadBegins, TypeOK, PcValues
    <2>2. CASE WaitNotEmpty(p)
      <3>1. notEmpty - 1 \in 0 .. MaxElements
        BY <2>2, ShareMemQueueAssumption DEF WaitNotEmpty, TypeOK, ShareMemQueueAssumption
      <3> QED
        BY <2>0, <2>2, <3>1 DEF WaitNotEmpty, TypeOK, PcValues
    <2>3. CASE GetReadPtr(p)
      BY <2>0, <2>3 DEF GetReadPtr, TypeOK, PcValues
    <2>4. CASE Consume(p)
      BY <2>0, <2>4 DEF Consume, TypeOK, PcValues
    <2>5. CASE PutReadBegins(p)
      BY <2>0, <2>5 DEF PutReadBegins, TypeOK, PcValues
    <2>6. CASE PutReadPtr(p)
      <3>1. elementCount - 1 \in 0 .. MaxElements
        BY <2>0, <2>6, RingNotEmpty, ShareMemQueueAssumption
        DEF PutReadPtr, TypeOK, OnStored, ShareMemQueueAssumption
      <3>2. (readIndex + 1) % MaxElements \in Cells
        BY Forward DEF TypeOK
      <3> QED
        BY <2>0, <2>6, <3>1, <3>2 DEF PutReadPtr, TypeOK, PcValues
    <2>7. CASE PostNotFull(p)
      <3>1. seg = "ready" /\ Cardinality(In(OnFree)) >= 1
        BY <2>0, <2>7, InPositive DEF PostNotFull, Phases, Attached, OnFree
      <3>2. notFull + 1 \in 0 .. MaxElements
        BY <3>1, InFinite, ShareMemQueueAssumption DEF Promises, TypeOK, ShareMemQueueAssumption
      <3> QED
        BY <2>0, <2>7, <3>2 DEF PostNotFull, TypeOK, PcValues
    <2> QED
      BY <1>3, <2>1, <2>2, <2>3, <2>4, <2>5, <2>6, <2>7 DEF ReadStep
  <1>4. ASSUME NEW p \in Processes, AnyStep(p) PROVE TypeOK'
    <2>0. p \in Processes
      OBVIOUS
    <2>1. CASE CreateSegment(p)
      BY <2>0, <2>1 DEF CreateSegment, TypeOK, PcValues
    <2>2. CASE CreatePublish(p)
      <3>1. 0 \in Cells /\ 0 \in 0 .. MaxElements
        BY ShareMemQueueAssumption DEF Cells, ShareMemQueueAssumption
      <3> QED
        BY <2>0, <2>2, <3>1 DEF CreatePublish, TypeOK, PcValues
    <2>3. CASE CreateSync(p)
      <3>1. 0 \in 0 .. MaxElements /\ MaxElements \in 0 .. MaxElements
        BY ShareMemQueueAssumption DEF ShareMemQueueAssumption
      <3> QED
        BY <2>0, <2>3, <3>1, SyncMoves DEF CreateSync, TypeOK
    <2>4. CASE Open(p)
      BY <2>0, <2>4 DEF Open, TypeOK, PcValues
    <2>5. CASE OpenValidate(p)
      BY <2>0, <2>5 DEF OpenValidate, TypeOK, PcValues
    <2>6. CASE (isCreator[p] => Alone(p)) /\ DeleteBegins(p)
      BY <2>0, <2>6 DEF DeleteBegins, TypeOK, PcValues
    <2>7. CASE DeleteDestroys(p)
      BY <2>0, <2>7 DEF DeleteDestroys, TypeOK, PcValues
    <2>8. CASE DeleteDetaches(p)
      BY <2>0, <2>8, DetachMoves DEF DeleteDetaches, TypeOK
    <2>9. CASE Crash(p)
      <3>1. crashes + 1 \in 0 .. MaxCrashes
        BY <2>9, ShareMemQueueAssumption DEF Crash, TypeOK, ShareMemQueueAssumption
      <3>2. orphaned' \in BOOLEAN
        BY <2>9 DEF Crash, TypeOK
      <3> QED
        BY <2>0, <2>9, <3>1, <3>2 DEF Crash, TypeOK, PcValues
    <2> QED
      BY <1>4, <2>1, <2>2, <2>3, <2>4, <2>5, <2>6, <2>7, <2>8, <2>9 DEF AnyStep
  <1> QED
    BY <1>1, <1>2, <1>3, <1>4 DEF Next, AnyStep

(* Who is in which call.                                                   *)
LEMMA RolesStep ==
    ASSUME IInv, [Next]_vars
    PROVE  Roles'
  <1> USE DEF IInv, Move, block, sems
  <1>1. CASE UNCHANGED vars
    BY <1>1 DEF vars, procs, TypeOK, Roles, WriteCall, ReadCall, ShareMemQueueAssumption
  <1>2. ASSUME NEW p \in Writers, WriteStep(p) PROVE Roles'
    <2>0. p \in Processes
      BY DEF Processes
    <2>1. CASE GetWriteBegins(p)
      BY <2>0, <2>1, ShareMemQueueAssumption DEF GetWriteBegins, TypeOK, Roles, WriteCall, ReadCall, ShareMemQueueAssumption
    <2>2. CASE WaitNotFull(p)
      BY <2>0, <2>2, ShareMemQueueAssumption DEF WaitNotFull, TypeOK, Roles, WriteCall, ReadCall, ShareMemQueueAssumption
    <2>3. CASE GetWritePtr(p)
      BY <2>0, <2>3, ShareMemQueueAssumption DEF GetWritePtr, TypeOK, Roles, WriteCall, ReadCall, ShareMemQueueAssumption
    <2>4. CASE \E v \in Values : Fill(p, v)
      BY <2>0, <2>4, ShareMemQueueAssumption DEF Fill, TypeOK, Roles, WriteCall, ReadCall, ShareMemQueueAssumption
    <2>5. CASE PutWriteBegins(p)
      BY <2>0, <2>5, ShareMemQueueAssumption DEF PutWriteBegins, TypeOK, Roles, WriteCall, ReadCall, ShareMemQueueAssumption
    <2>6. CASE PutWritePtr(p)
      BY <2>0, <2>6, ShareMemQueueAssumption DEF PutWritePtr, TypeOK, Roles, WriteCall, ReadCall, ShareMemQueueAssumption
    <2>7. CASE PostNotEmpty(p)
      BY <2>0, <2>7, ShareMemQueueAssumption DEF PostNotEmpty, TypeOK, Roles, WriteCall, ReadCall, ShareMemQueueAssumption
    <2> QED
      BY <1>2, <2>1, <2>2, <2>3, <2>4, <2>5, <2>6, <2>7 DEF WriteStep
  <1>3. ASSUME NEW p \in Readers, ReadStep(p) PROVE Roles'
    <2>0. p \in Processes
      BY DEF Processes
    <2>1. CASE GetReadBegins(p)
      BY <2>0, <2>1, ShareMemQueueAssumption DEF GetReadBegins, TypeOK, Roles, WriteCall, ReadCall, ShareMemQueueAssumption
    <2>2. CASE WaitNotEmpty(p)
      BY <2>0, <2>2, ShareMemQueueAssumption DEF WaitNotEmpty, TypeOK, Roles, WriteCall, ReadCall, ShareMemQueueAssumption
    <2>3. CASE GetReadPtr(p)
      BY <2>0, <2>3, ShareMemQueueAssumption DEF GetReadPtr, TypeOK, Roles, WriteCall, ReadCall, ShareMemQueueAssumption
    <2>4. CASE Consume(p)
      BY <2>0, <2>4, ShareMemQueueAssumption DEF Consume, TypeOK, Roles, WriteCall, ReadCall, ShareMemQueueAssumption
    <2>5. CASE PutReadBegins(p)
      BY <2>0, <2>5, ShareMemQueueAssumption DEF PutReadBegins, TypeOK, Roles, WriteCall, ReadCall, ShareMemQueueAssumption
    <2>6. CASE PutReadPtr(p)
      BY <2>0, <2>6, ShareMemQueueAssumption DEF PutReadPtr, TypeOK, Roles, WriteCall, ReadCall, ShareMemQueueAssumption
    <2>7. CASE PostNotFull(p)
      BY <2>0, <2>7, ShareMemQueueAssumption DEF PostNotFull, TypeOK, Roles, WriteCall, ReadCall, ShareMemQueueAssumption
    <2> QED
      BY <1>3, <2>1, <2>2, <2>3, <2>4, <2>5, <2>6, <2>7 DEF ReadStep
  <1>4. ASSUME NEW p \in Processes, AnyStep(p) PROVE Roles'
    <2>0. p \in Processes
      OBVIOUS
    <2>1. CASE CreateSegment(p)
      BY <2>0, <2>1, ShareMemQueueAssumption DEF CreateSegment, TypeOK, Roles, WriteCall, ReadCall, ShareMemQueueAssumption
    <2>2. CASE CreatePublish(p)
      BY <2>0, <2>2, ShareMemQueueAssumption DEF CreatePublish, TypeOK, Roles, WriteCall, ReadCall, ShareMemQueueAssumption
    <2>3. CASE CreateSync(p)
      BY <2>0, <2>3, SyncMoves, ShareMemQueueAssumption DEF CreateSync, TypeOK, Roles, WriteCall, ReadCall, ShareMemQueueAssumption
    <2>4. CASE Open(p)
      BY <2>0, <2>4, ShareMemQueueAssumption DEF Open, TypeOK, Roles, WriteCall, ReadCall, ShareMemQueueAssumption
    <2>5. CASE OpenValidate(p)
      BY <2>0, <2>5, ShareMemQueueAssumption DEF OpenValidate, TypeOK, Roles, WriteCall, ReadCall, ShareMemQueueAssumption
    <2>6. CASE (isCreator[p] => Alone(p)) /\ DeleteBegins(p)
      BY <2>0, <2>6, ShareMemQueueAssumption DEF DeleteBegins, TypeOK, Roles, WriteCall, ReadCall, ShareMemQueueAssumption
    <2>7. CASE DeleteDestroys(p)
      BY <2>0, <2>7, ShareMemQueueAssumption DEF DeleteDestroys, TypeOK, Roles, WriteCall, ReadCall, ShareMemQueueAssumption
    <2>8. CASE DeleteDetaches(p)
      BY <2>0, <2>8, DetachMoves, ShareMemQueueAssumption DEF DeleteDetaches, TypeOK, Roles, WriteCall, ReadCall, ShareMemQueueAssumption
    <2>9. CASE Crash(p)
      BY <2>0, <2>9, ShareMemQueueAssumption DEF Crash, TypeOK, Roles, WriteCall, ReadCall, ShareMemQueueAssumption
    <2> QED
      BY <1>4, <2>1, <2>2, <2>3, <2>4, <2>5, <2>6, <2>7, <2>8, <2>9 DEF AnyStep
  <1> QED
    BY <1>1, <1>2, <1>3, <1>4 DEF Next, AnyStep

(* The phases of the segment.                                              *)
LEMMA PhasesStep ==
    ASSUME IInv, [Next]_vars
    PROVE  Phases'
  <1> USE DEF IInv, Move, block, sems
  <1>1. CASE UNCHANGED vars
    BY <1>1 DEF vars, procs, TypeOK, Phases, Attached, OnStored, OnFree, PcValues, Alone
  <1>2. ASSUME NEW p \in Writers, WriteStep(p) PROVE Phases'
    <2>0. p \in Processes
      BY DEF Processes
    <2>1. CASE GetWriteBegins(p)
      BY <2>0, <2>1 DEF GetWriteBegins, TypeOK, Phases, Attached, OnStored, OnFree, PcValues, Alone
    <2>2. CASE WaitNotFull(p)
      BY <2>0, <2>2 DEF WaitNotFull, TypeOK, Phases, Attached, OnStored, OnFree, PcValues, Alone
    <2>3. CASE GetWritePtr(p)
      BY <2>0, <2>3 DEF GetWritePtr, TypeOK, Phases, Attached, OnStored, OnFree, PcValues, Alone
    <2>4. CASE \E v \in Values : Fill(p, v)
      BY <2>0, <2>4 DEF Fill, TypeOK, Phases, Attached, OnStored, OnFree, PcValues, Alone
    <2>5. CASE PutWriteBegins(p)
      BY <2>0, <2>5 DEF PutWriteBegins, TypeOK, Phases, Attached, OnStored, OnFree, PcValues, Alone
    <2>6. CASE PutWritePtr(p)
      BY <2>0, <2>6 DEF PutWritePtr, TypeOK, Phases, Attached, OnStored, OnFree, PcValues, Alone
    <2>7. CASE PostNotEmpty(p)
      BY <2>0, <2>7 DEF PostNotEmpty, TypeOK, Phases, Attached, OnStored, OnFree, PcValues, Alone
    <2> QED
      BY <1>2, <2>1, <2>2, <2>3, <2>4, <2>5, <2>6, <2>7 DEF WriteStep
  <1>3. ASSUME NEW p \in Readers, ReadStep(p) PROVE Phases'
    <2>0. p \in Processes
      BY DEF Processes
    <2>1. CASE GetReadBegins(p)
      BY <2>0, <2>1 DEF GetReadBegins, TypeOK, Phases, Attached, OnStored, OnFree, PcValues, Alone
    <2>2. CASE WaitNotEmpty(p)
      BY <2>0, <2>2 DEF WaitNotEmpty, TypeOK, Phases, Attached, OnStored, OnFree, PcValues, Alone
    <2>3. CASE GetReadPtr(p)
      BY <2>0, <2>3 DEF GetReadPtr, TypeOK, Phases, Attached, OnStored, OnFree, PcValues, Alone
    <2>4. CASE Consume(p)
      BY <2>0, <2>4 DEF Consume, TypeOK, Phases, Attached, OnStored, OnFree, PcValues, Alone
    <2>5. CASE PutReadBegins(p)
      BY <2>0, <2>5 DEF PutReadBegins, TypeOK, Phases, Attached, OnStored, OnFree, PcValues, Alone
    <2>6. CASE PutReadPtr(p)
      BY <2>0, <2>6 DEF PutReadPtr, TypeOK, Phases, Attached, OnStored, OnFree, PcValues, Alone
    <2>7. CASE PostNotFull(p)
      BY <2>0, <2>7 DEF PostNotFull, TypeOK, Phases, Attached, OnStored, OnFree, PcValues, Alone
    <2> QED
      BY <1>3, <2>1, <2>2, <2>3, <2>4, <2>5, <2>6, <2>7 DEF ReadStep
  <1>4. ASSUME NEW p \in Processes, AnyStep(p) PROVE Phases'
    <2>0. p \in Processes
      OBVIOUS
    <2>1. CASE CreateSegment(p)
      BY <2>0, <2>1 DEF CreateSegment, TypeOK, Phases, Attached, OnStored, OnFree, PcValues, Alone
    <2>2. CASE CreatePublish(p)
      BY <2>0, <2>2 DEF CreatePublish, TypeOK, Phases, Attached, OnStored, OnFree, PcValues, Alone
    <2>3. CASE CreateSync(p)
      BY <2>0, <2>3, SyncMoves DEF CreateSync, TypeOK, Phases, Attached, OnStored, OnFree, PcValues, Alone
    <2>4. CASE Open(p)
      BY <2>0, <2>4 DEF Open, TypeOK, Phases, Attached, OnStored, OnFree, PcValues, Alone
    <2>5. CASE OpenValidate(p)
      BY <2>0, <2>5 DEF OpenValidate, TypeOK, Phases, Attached, OnStored, OnFree, PcValues, Alone
    <2>6. CASE (isCreator[p] => Alone(p)) /\ DeleteBegins(p)
      BY <2>0, <2>6 DEF DeleteBegins, TypeOK, Phases, Attached, OnStored, OnFree, PcValues, Alone
    <2>7. CASE DeleteDestroys(p)
      BY <2>0, <2>7 DEF DeleteDestroys, TypeOK, Phases, Attached, OnStored, OnFree, PcValues, Alone
    <2>8. CASE DeleteDetaches(p)
      BY <2>0, <2>8, DetachMoves DEF DeleteDetaches, TypeOK, Phases, Attached, OnStored, OnFree, PcValues, Alone
    <2>9. CASE Crash(p)
      BY <2>0, <2>9 DEF Crash, TypeOK, Phases, Attached, OnStored, OnFree, PcValues, Alone
    <2> QED
      BY <1>4, <2>1, <2>2, <2>3, <2>4, <2>5, <2>6, <2>7, <2>8, <2>9 DEF AnyStep
  <1> QED
    BY <1>1, <1>2, <1>3, <1>4 DEF Next, AnyStep

(* The indices and the number of elements.                                 *)
LEMMA CursorsStep ==
    ASSUME IInv, [Next]_vars
    PROVE  Cursors'
  <1> USE DEF IInv, Move, block, sems
  <1>1. CASE UNCHANGED vars
    BY <1>1 DEF vars, procs, Cursors, Between
  <1>2. ASSUME NEW p \in Writers, WriteStep(p) PROVE Cursors'
    <2>0. p \in Processes
      BY DEF Processes
    <2>1. CASE GetWriteBegins(p)
      BY <2>0, <2>1 DEF GetWriteBegins, Cursors, Between
    <2>2. CASE WaitNotFull(p)
      BY <2>0, <2>2 DEF WaitNotFull, Cursors, Between
    <2>3. CASE GetWritePtr(p)
      BY <2>0, <2>3 DEF GetWritePtr, Cursors, Between
    <2>4. CASE \E v \in Values : Fill(p, v)
      BY <2>0, <2>4 DEF Fill, Cursors, Between
    <2>5. CASE PutWriteBegins(p)
      BY <2>0, <2>5 DEF PutWriteBegins, Cursors, Between
    <2>6. CASE PutWritePtr(p)
      <3>1. elementCount < MaxElements
        BY <2>0, <2>6, RingNotFull DEF PutWritePtr, OnFree
      <3>2. Between(readIndex, (writeIndex + 1) % MaxElements, elementCount + 1)
        BY <3>1, WriteForward DEF TypeOK, Cursors
      <3> QED
        BY <2>6, <3>2 DEF PutWritePtr, Cursors, Between
    <2>7. CASE PostNotEmpty(p)
      BY <2>0, <2>7 DEF PostNotEmpty, Cursors, Between
    <2> QED
      BY <1>2, <2>1, <2>2, <2>3, <2>4, <2>5, <2>6, <2>7 DEF WriteStep
  <1>3. ASSUME NEW p \in Readers, ReadStep(p) PROVE Cursors'
    <2>0. p \in Processes
      BY DEF Processes
    <2>1. CASE GetReadBegins(p)
      BY <2>0, <2>1 DEF GetReadBegins, Cursors, Between
    <2>2. CASE WaitNotEmpty(p)
      BY <2>0, <2>2 DEF WaitNotEmpty, Cursors, Between
    <2>3. CASE GetReadPtr(p)
      BY <2>0, <2>3 DEF GetReadPtr, Cursors, Between
    <2>4. CASE Consume(p)
      BY <2>0, <2>4 DEF Consume, Cursors, Between
    <2>5. CASE PutReadBegins(p)
      BY <2>0, <2>5 DEF PutReadBegins, Cursors, Between
    <2>6. CASE PutReadPtr(p)
      <3>1. 0 < elementCount /\ elementCount <= MaxElements
        BY <2>0, <2>6, RingNotEmpty DEF PutReadPtr, OnStored, TypeOK
      <3>2. Between((readIndex + 1) % MaxElements, writeIndex, elementCount - 1)
        BY <3>1, ReadForward DEF TypeOK, Cursors
      <3> QED
        BY <2>6, <3>2 DEF PutReadPtr, Cursors, Between
    <2>7. CASE PostNotFull(p)
      BY <2>0, <2>7 DEF PostNotFull, Cursors, Between
    <2> QED
      BY <1>3, <2>1, <2>2, <2>3, <2>4, <2>5, <2>6, <2>7 DEF ReadStep
  <1>4. ASSUME NEW p \in Processes, AnyStep(p) PROVE Cursors'
    <2>0. p \in Processes
      OBVIOUS
    <2>1. CASE CreateSegment(p)
      BY <2>0, <2>1 DEF CreateSegment, Cursors, Between
    <2>2. CASE CreatePublish(p)
      BY <2>2, ShareMemQueueAssumption DEF CreatePublish, Cursors, Between, ShareMemQueueAssumption
    <2>3. CASE CreateSync(p)
      BY <2>0, <2>3 DEF CreateSync, Cursors, Between
    <2>4. CASE Open(p)
      BY <2>0, <2>4 DEF Open, Cursors, Between
    <2>5. CASE OpenValidate(p)
      BY <2>0, <2>5 DEF OpenValidate, Cursors, Between
    <2>6. CASE (isCreator[p] => Alone(p)) /\ DeleteBegins(p)
      BY <2>0, <2>6 DEF DeleteBegins, Cursors, Between
    <2>7. CASE DeleteDestroys(p)
      BY <2>0, <2>7 DEF DeleteDestroys, Cursors, Between
    <2>8. CASE DeleteDetaches(p)
      BY <2>0, <2>8 DEF DeleteDetaches, Cursors, Between
    <2>9. CASE Crash(p)
      BY <2>0, <2>9 DEF Crash, Cursors, Between
    <2> QED
      BY <1>4, <2>1, <2>2, <2>3, <2>4, <2>5, <2>6, <2>7, <2>8, <2>9 DEF AnyStep
  <1> QED
    BY <1>1, <1>2, <1>3, <1>4 DEF Next, AnyStep

(* Who has a pointer.                                                      *)
LEMMA PointersStep ==
    ASSUME IInv, [Next]_vars
    PROVE  Pointers'
  <1> USE DEF IInv, Move, block, sems
  <1>1. CASE UNCHANGED vars
    BY <1>1 DEF vars, procs, TypeOK, Pointers, Pointing
  <1>2. ASSUME NEW p \in Writers, WriteStep(p) PROVE Pointers'
    <2>0. p \in Processes
      BY DEF Processes
    <2>1. CASE GetWriteBegins(p)
      BY <2>0, <2>1, NoCellIsNone DEF GetWriteBegins, TypeOK, Pointers, Pointing
    <2>2. CASE WaitNotFull(p)
      BY <2>0, <2>2, NoCellIsNone DEF WaitNotFull, TypeOK, Pointers, Pointing
    <2>3. CASE GetWritePtr(p)
      BY <2>0, <2>3, NoCellIsNone DEF GetWritePtr, TypeOK, Pointers, Pointing
    <2>4. CASE \E v \in Values : Fill(p, v)
      BY <2>0, <2>4, NoCellIsNone DEF Fill, TypeOK, Pointers, Pointing
    <2>5. CASE PutWriteBegins(p)
      BY <2>0, <2>5, NoCellIsNone DEF PutWriteBegins, TypeOK, Pointers, Pointing
    <2>6. CASE PutWritePtr(p)
      BY <2>0, <2>6, NoCellIsNone DEF PutWritePtr, TypeOK, Pointers, Pointing
    <2>7. CASE PostNotEmpty(p)
      BY <2>0, <2>7, NoCellIsNone DEF PostNotEmpty, TypeOK, Pointers, Pointing
    <2> QED
      BY <1>2, <2>1, <2>2, <2>3, <2>4, <2>5, <2>6, <2>7 DEF WriteStep
  <1>3. ASSUME NEW p \in Readers, ReadStep(p) PROVE Pointers'
    <2>0. p \in Processes
      BY DEF Processes
    <2>1. CASE GetReadBegins(p)
      BY <2>0, <2>1, NoCellIsNone DEF GetReadBegins, TypeOK, Pointers, Pointing
    <2>2. CASE WaitNotEmpty(p)
      BY <2>0, <2>2, NoCellIsNone DEF WaitNotEmpty, TypeOK, Pointers, Pointing
    <2>3. CASE GetReadPtr(p)
      BY <2>0, <2>3, NoCellIsNone DEF GetReadPtr, TypeOK, Pointers, Pointing
    <2>4. CASE Consume(p)
      BY <2>0, <2>4, NoCellIsNone DEF Consume, TypeOK, Pointers, Pointing
    <2>5. CASE PutReadBegins(p)
      BY <2>0, <2>5, NoCellIsNone DEF PutReadBegins, TypeOK, Pointers, Pointing
    <2>6. CASE PutReadPtr(p)
      BY <2>0, <2>6, NoCellIsNone DEF PutReadPtr, TypeOK, Pointers, Pointing
    <2>7. CASE PostNotFull(p)
      BY <2>0, <2>7, NoCellIsNone DEF PostNotFull, TypeOK, Pointers, Pointing
    <2> QED
      BY <1>3, <2>1, <2>2, <2>3, <2>4, <2>5, <2>6, <2>7 DEF ReadStep
  <1>4. ASSUME NEW p \in Processes, AnyStep(p) PROVE Pointers'
    <2>0. p \in Processes
      OBVIOUS
    <2>1. CASE CreateSegment(p)
      BY <2>0, <2>1, NoCellIsNone DEF CreateSegment, TypeOK, Pointers, Pointing
    <2>2. CASE CreatePublish(p)
      BY <2>0, <2>2, NoCellIsNone DEF CreatePublish, TypeOK, Pointers, Pointing
    <2>3. CASE CreateSync(p)
      BY <2>0, <2>3, SyncMoves, NoCellIsNone DEF CreateSync, TypeOK, Pointers, Pointing
    <2>4. CASE Open(p)
      BY <2>0, <2>4, NoCellIsNone DEF Open, TypeOK, Pointers, Pointing
    <2>5. CASE OpenValidate(p)
      BY <2>0, <2>5, NoCellIsNone DEF OpenValidate, TypeOK, Pointers, Pointing
    <2>6. CASE (isCreator[p] => Alone(p)) /\ DeleteBegins(p)
      BY <2>0, <2>6, NoCellIsNone DEF DeleteBegins, TypeOK, Pointers, Pointing
    <2>7. CASE DeleteDestroys(p)
      BY <2>0, <2>7, NoCellIsNone DEF DeleteDestroys, TypeOK, Pointers, Pointing
    <2>8. CASE DeleteDetaches(p)
      BY <2>0, <2>8, DetachMoves, NoCellIsNone DEF DeleteDetaches, TypeOK, Pointers, Pointing
    <2>9. CASE Crash(p)
      BY <2>0, <2>9, NoCellIsNone DEF Crash, TypeOK, Pointers, Pointing
    <2> QED
      BY <1>4, <2>1, <2>2, <2>3, <2>4, <2>5, <2>6, <2>7, <2>8, <2>9 DEF AnyStep
  <1> QED
    BY <1>1, <1>2, <1>3, <1>4 DEF Next, AnyStep

(* What a step of a process does to the calls in progress.                 *)
LEMMA CallCounts ==
    ASSUME TypeOK, NEW p \in Processes, NEW from, NEW to, Move(p, from, to)
    PROVE  /\ Cardinality(In(OnStored)) \in Nat /\ Cardinality(In(OnFree)) \in Nat
           /\ Cardinality(In(OnStored)') = Cardinality(In(OnStored))
                 + (IF to \in OnStored THEN 1 ELSE 0) - (IF from \in OnStored THEN 1 ELSE 0)
           /\ Cardinality(In(OnFree)') = Cardinality(In(OnFree))
                 + (IF to \in OnFree THEN 1 ELSE 0) - (IF from \in OnFree THEN 1 ELSE 0)
  BY MoveCounts, InFinite DEF Move

(* The semaphores.                                                         *)
LEMMA PromisesStep ==
    ASSUME IInv, [Next]_vars
    PROVE  Promises'
  <1> USE DEF IInv, block, sems
  <1>1. CASE UNCHANGED vars
    BY <1>1 DEF vars, procs, Promises, In
  <1>2. ASSUME NEW p \in Writers, WriteStep(p) PROVE Promises'
    <2>0. p \in Processes
      BY DEF Processes
    <2>1. CASE GetWriteBegins(p)
      BY <2>0, <2>1, CallCounts DEF GetWriteBegins, TypeOK, Promises, OnStored, OnFree
    <2>2. CASE WaitNotFull(p)
      BY <2>0, <2>2, CallCounts DEF WaitNotFull, TypeOK, Promises, OnStored, OnFree
    <2>3. CASE GetWritePtr(p)
      BY <2>0, <2>3, CallCounts DEF GetWritePtr, TypeOK, Promises, OnStored, OnFree
    <2>4. CASE \E v \in Values : Fill(p, v)
      BY <2>0, <2>4, CallCounts DEF Fill, TypeOK, Promises, OnStored, OnFree
    <2>5. CASE PutWriteBegins(p)
      <3>1. seg = "ready"
        BY <2>0, <2>5 DEF PutWriteBegins, Move, Phases, Attached, OnStored, OnFree
      <3>2. /\ Cardinality(In(OnStored)') = Cardinality(In(OnStored))
            /\ Cardinality(In(OnFree)') = Cardinality(In(OnFree)) - IF isValid THEN 0 ELSE 1
        <4>1. CASE isValid
          BY <2>0, <2>5, <4>1, CallCounts DEF PutWriteBegins, OnStored, OnFree
        <4>2. CASE ~isValid
          BY <2>0, <2>5, <4>2, CallCounts DEF PutWriteBegins, OnStored, OnFree
        <4> QED
          BY <4>1, <4>2
      <3>3. Cardinality(In(OnStored)) \in Nat /\ Cardinality(In(OnFree)) \in Nat
        BY InFinite
      <3> QED
        BY <2>5, <3>1, <3>2, <3>3, ShareMemQueueAssumption
        DEF PutWriteBegins, TypeOK, Promises, ShareMemQueueAssumption
    <2>6. CASE PutWritePtr(p)
      <3>1. seg = "ready"
        BY <2>0, <2>6 DEF PutWritePtr, Move, Phases, Attached, OnStored, OnFree
      <3>2. /\ Cardinality(In(OnStored)') = Cardinality(In(OnStored)) + 1
            /\ Cardinality(In(OnFree)') = Cardinality(In(OnFree)) - 1
        BY <2>0, <2>6, CallCounts DEF PutWritePtr, OnStored, OnFree
      <3>3. Cardinality(In(OnStored)) \in Nat /\ Cardinality(In(OnFree)) \in Nat
        BY InFinite
      <3> QED
        BY <2>6, <3>1, <3>2, <3>3, ShareMemQueueAssumption
        DEF PutWritePtr, TypeOK, Promises, ShareMemQueueAssumption
    <2>7. CASE PostNotEmpty(p)
      BY <2>0, <2>7, CallCounts DEF PostNotEmpty, TypeOK, Promises, OnStored, OnFree
    <2> QED
      BY <1>2, <2>1, <2>2, <2>3, <2>4, <2>5, <2>6, <2>7 DEF WriteStep
  <1>3. ASSUME NEW p \in Readers, ReadStep(p) PROVE Promises'
    <2>0. p \in Processes
      BY DEF Processes
    <2>1. CASE GetReadBegins(p)
      BY <2>0, <2>1, CallCounts DEF GetReadBegins, TypeOK, Promises, OnStored, OnFree
    <2>2. CASE WaitNotEmpty(p)
      <3>1. seg = "ready"
        BY <2>0, <2>2 DEF WaitNotEmpty, Move, Phases, Attached
      <3>2. /\ Cardinality(In(OnStored)') = Cardinality(In(OnStored)) + 1
            /\ Cardinality(In(OnFree)') = Cardinality(In(OnFree))
        BY <2>0, <2>2, CallCounts DEF WaitNotEmpty, OnStored, OnFree
      <3>3. Cardinality(In(OnStored)) \in Nat /\ Cardinality(In(OnFree)) \in Nat
        BY InFinite
      <3> QED
        BY <2>2, <3>1, <3>2, <3>3, ShareMemQueueAssumption
        DEF WaitNotEmpty, TypeOK, Promises, ShareMemQueueAssumption
    <2>3. CASE GetReadPtr(p)
      BY <2>0, <2>3, CallCounts DEF GetReadPtr, TypeOK, Promises, OnStored, OnFree
    <2>4. CASE Consume(p)
      BY <2>0, <2>4, CallCounts DEF Consume, TypeOK, Promises, OnStored, OnFree
    <2>5. CASE PutReadBegins(p)
      <3>1. seg = "ready"
        BY <2>0, <2>5 DEF PutReadBegins, Move, Phases, Attached, OnStored, OnFree
      <3>2. /\ Cardinality(In(OnFree)') = Cardinality(In(OnFree))
            /\ Cardinality(In(OnStored)') = Cardinality(In(OnStored)) - IF isValid THEN 0 ELSE 1
        <4>1. CASE isValid
          BY <2>0, <2>5, <4>1, CallCounts DEF PutReadBegins, OnStored, OnFree
        <4>2. CASE ~isValid
          BY <2>0, <2>5, <4>2, CallCounts DEF PutReadBegins, OnStored, OnFree
        <4> QED
          BY <4>1, <4>2
      <3>3. Cardinality(In(OnStored)) \in Nat /\ Cardinality(In(OnFree)) \in Nat
        BY InFinite
      <3> QED
        BY <2>5, <3>1, <3>2, <3>3, ShareMemQueueAssumption
        DEF PutReadBegins, TypeOK, Promises, ShareMemQueueAssumption
    <2>6. CASE PutReadPtr(p)
      <3>1. seg = "ready"
        BY <2>0, <2>6 DEF PutReadPtr, Move, Phases, Attached, OnStored, OnFree
      <3>2. /\ Cardinality(In(OnStored)') = Cardinality(In(OnStored)) - 1
            /\ Cardinality(In(OnFree)') = Cardinality(In(OnFree)) + 1
        BY <2>0, <2>6, CallCounts DEF PutReadPtr, OnStored, OnFree
      <3>3. Cardinality(In(OnStored)) \in Nat /\ Cardinality(In(OnFree)) \in Nat
        BY InFinite
      <3> QED
        BY <2>6, <3>1, <3>2, <3>3, ShareMemQueueAssumption
        DEF PutReadPtr, TypeOK, Promises, ShareMemQueueAssumption
    <2>7. CASE PostNotFull(p)
      BY <2>0, <2>7, CallCounts DEF PostNotFull, TypeOK, Promises, OnStored, OnFree
    <2> QED
      BY <1>3, <2>1, <2>2, <2>3, <2>4, <2>5, <2>6, <2>7 DEF ReadStep
  <1>4. ASSUME NEW p \in Processes, AnyStep(p) PROVE Promises'
    <2>0. p \in Processes
      OBVIOUS
    <2>1. CASE CreateSegment(p)
      BY <2>0, <2>1, CallCounts DEF CreateSegment, TypeOK, Promises, OnStored, OnFree
    <2>2. CASE CreatePublish(p)
      BY <2>0, <2>2, CallCounts DEF CreatePublish, TypeOK, Promises, OnStored, OnFree
    <2>3. CASE CreateSync(p)
      <3>1. seg = "published"
        BY <2>0, <2>3, SyncMoves DEF Phases
      <3>2. In(OnStored)' = {} /\ In(OnFree)' = {}
        BY <2>0, <2>3, <3>1, SyncMoves DEF Phases, Attached, In, OnStored, OnFree
      <3>3. Cardinality(In(OnStored)') = 0 /\ Cardinality(In(OnFree)') = 0
        BY <3>2, FS_EmptySet
      <3>4. elementCount = 0 /\ MaxElements \in Nat
        BY <3>1, ShareMemQueueAssumption DEF Promises, ShareMemQueueAssumption
      <3> QED
        BY <2>3, <3>3, <3>4 DEF CreateSync, Promises
    <2>4. CASE Open(p)
      BY <2>0, <2>4, CallCounts DEF Open, TypeOK, Promises, OnStored, OnFree
    <2>5. CASE OpenValidate(p)
      BY <2>0, <2>5, CallCounts DEF OpenValidate, TypeOK, Promises, OnStored, OnFree
    <2>6. CASE (isCreator[p] => Alone(p)) /\ DeleteBegins(p)
      <3>1. Move(p, "open", "closing")
        BY <2>6 DEF DeleteBegins
      <3>2. Cardinality(In(OnStored)') = Cardinality(In(OnStored)) /\ Cardinality(In(OnFree)') = Cardinality(In(OnFree))
        BY <2>0, <3>1, CallCounts DEF OnStored, OnFree
      <3> QED
        BY <2>6, <3>2 DEF DeleteBegins, TypeOK, Promises
    <2>7. CASE DeleteDestroys(p)
      BY <2>0, <2>7, CallCounts DEF DeleteDestroys, TypeOK, Promises, OnStored, OnFree
    <2>8. CASE DeleteDetaches(p)
      <3>1. CASE isCreator[p]
        BY <2>8, <3>1 DEF DeleteDetaches, Promises
      <3>2. CASE ~isCreator[p]
        <4>1. Move(p, "closing", "out")
          BY <2>0, <2>8, <3>2, DetachMoves DEF Move
        <4> QED
          BY <2>0, <2>8, <3>2, <4>1, CallCounts DEF DeleteDetaches, TypeOK, Promises, OnStored, OnFree
      <3> QED
        BY <3>1, <3>2
    <2>9. CASE Crash(p)
      <3>1. Move(p, pc[p], "out")
        BY <2>9 DEF Crash, Move
      <3>2. crashes' # 0
        BY <2>9, ShareMemQueueAssumption DEF Crash, TypeOK, ShareMemQueueAssumption
      <3>3. /\ Cardinality(In(OnStored)') <= Cardinality(In(OnStored))
            /\ Cardinality(In(OnFree)') <= Cardinality(In(OnFree))
            /\ Cardinality(In(OnStored)) \in Nat /\ Cardinality(In(OnFree)) \in Nat
            /\ Cardinality(In(OnStored)') \in Nat /\ Cardinality(In(OnFree)') \in Nat
        BY <2>0, <3>1, CallCounts, InFinite DEF OnStored, OnFree
      <3> QED
        BY <2>9, <3>2, <3>3, ShareMemQueueAssumption
        DEF Crash, TypeOK, Promises, ShareMemQueueAssumption
    <2> QED
      BY <1>4, <2>1, <2>2, <2>3, <2>4, <2>5, <2>6, <2>7, <2>8, <2>9 DEF AnyStep
  <1> QED
    BY <1>1, <1>2, <1>3, <1>4 DEF Next, AnyStep
-----------------------------------------------------------------------------
(* The invariant, for every number of processes, elements and crashes:      *)
(* whatever is created, used, deleted and killed in ShareMemQueue.         *)
THEOREM Invariance == Spec => []IInv
  <1>1. IInv /\ [Next]_vars => IInv'
    BY TypeStep, RolesStep, PhasesStep, PromisesStep, CursorsStep, PointersStep DEF IInv
  <1> QED
    BY InitIInv, <1>1, PTL DEF Spec

(* Every variable keeps its type: elementCount and both semaphores stay     *)
(* between 0 and MaxElements, although the code checks no bound.           *)
THEOREM TypeCorrect == Spec => []TypeOK
  BY Invariance, PTL DEF IInv

(* Whoever opens the queue early waits: nobody is past a semaphore that is  *)
(* not initialised yet or destroyed already.                               *)
THEOREM NobodyPastUnready == Spec => []InCallOnlyWhenReady
  <1>1. IInv => InCallOnlyWhenReady
    BY DEF IInv, TypeOK, Phases, Attached, InCallOnlyWhenReady, InCall, OnStored, OnFree, PcValues
  <1> QED
    BY <1>1, Invariance, PTL

(* The semaphores promise no more than what is there, and without crash and *)
(* delete all of it.                                                       *)
THEOREM SemaphoresKeepPromises == Spec => []SemaphoresHonest
  <1>1. IInv => SemaphoresHonest
    <2> SUFFICES ASSUME IInv PROVE SemaphoresHonest
      OBVIOUS
    <2>1. InCall = In(OnStored) \cup In(OnFree) /\ In(OnStored) \cap In(OnFree) = {}
      BY DEF IInv, TypeOK, InCall, In, OnStored, OnFree, PcValues
    <2>2. Cardinality(InCall) = Cardinality(In(OnStored)) + Cardinality(In(OnFree))
      BY <2>1, InFinite, FS_Union, FS_EmptySet
    <2> QED
      BY <2>2, InFinite, ShareMemQueueAssumption
      DEF IInv, TypeOK, Promises, SemaphoresHonest, ShareMemQueueAssumption
  <1> QED
    BY <1>1, Invariance, PTL
-----------------------------------------------------------------------------
(***************************************************************************)
(* One writer and one reader.                                              *)
(***************************************************************************)
LEMMA PointersStayIndices ==
    ASSUME Single, IInv, PointersAreIndices, [Next]_vars
    PROVE  PointersAreIndices'
  <1> USE DEF Move, block, sems
  <1>1. \A p \in Processes : cell[p] # NoCell => pc[p] \in Pointing
    BY DEF IInv, Pointers
  <1>2. CASE UNCHANGED vars
    BY <1>2 DEF vars, procs, PointersAreIndices
  <1>3. ASSUME NEW p \in Writers, WriteStep(p) PROVE PointersAreIndices'
    <2>1. /\ \A w \in Writers : w = p
          /\ \A r \in Readers : r # p /\ r \in Processes
          /\ p \in Processes
      BY ShareMemQueueAssumption DEF Single, Processes, ShareMemQueueAssumption
    <2>2. CASE \E v \in Values : Fill(p, v)
      <3>1. PICK v \in Values : Fill(p, v)
        BY <2>2
      <3>2. cell[p] \in Cells
        BY <2>1, <3>1 DEF Fill, IInv, TypeOK, Pointers, Pointing
      <3> QED
        BY <2>1, <3>1, <3>2 DEF Fill, IInv, TypeOK, PointersAreIndices
    <2>3. CASE GetWritePtr(p)
      BY <2>1, <2>3 DEF GetWritePtr, IInv, TypeOK, PointersAreIndices
    <2>4. CASE PutWriteBegins(p)
      BY <2>1, <2>4 DEF PutWriteBegins, IInv, TypeOK, PointersAreIndices
    <2>5. CASE PutWritePtr(p)
      BY <2>1, <2>5 DEF PutWritePtr, IInv, TypeOK, PointersAreIndices
    <2>6. CASE GetWriteBegins(p) \/ WaitNotFull(p) \/ PostNotEmpty(p)
      BY <2>1, <2>6 DEF GetWriteBegins, WaitNotFull, PostNotEmpty, IInv, TypeOK, PointersAreIndices
    <2> QED
      BY <1>3, <2>2, <2>3, <2>4, <2>5, <2>6 DEF WriteStep
  <1>4. ASSUME NEW p \in Readers, ReadStep(p) PROVE PointersAreIndices'
    <2>1. /\ \A r \in Readers : r = p
          /\ \A w \in Writers : w # p /\ w \in Processes
          /\ p \in Processes
      BY ShareMemQueueAssumption DEF Single, Processes, ShareMemQueueAssumption
    <2>2. CASE GetReadPtr(p)
      BY <2>1, <2>2 DEF GetReadPtr, IInv, TypeOK, PointersAreIndices
    <2>3. CASE PutReadBegins(p)
      BY <2>1, <2>3 DEF PutReadBegins, IInv, TypeOK, PointersAreIndices
    <2>4. CASE PutReadPtr(p)
      BY <2>1, <2>4 DEF PutReadPtr, IInv, TypeOK, PointersAreIndices
    <2>5. CASE GetReadBegins(p) \/ WaitNotEmpty(p) \/ Consume(p) \/ PostNotFull(p)
      BY <2>1, <2>5 DEF GetReadBegins, WaitNotEmpty, Consume, PostNotFull, IInv, TypeOK,
                        PointersAreIndices
    <2> QED
      BY <1>4, <2>2, <2>3, <2>4, <2>5 DEF ReadStep
  <1>5. ASSUME NEW p \in Processes, AnyStep(p) PROVE PointersAreIndices'
    <2>0. \A q \in Writers \cup Readers : q \in Processes
      BY DEF Processes
    <2>1. CASE CreatePublish(p)
      <3>1. \A q \in Processes : cell[q] = NoCell
        BY <1>1, <2>1 DEF CreatePublish, IInv, Phases, Attached, Pointing
      <3>2. \A q \in Processes : pc[q] \notin {"filled", "putting"}
        BY <2>1 DEF CreatePublish, IInv, Phases, Attached
      <3> QED
        BY <2>0, <2>1, <3>1, <3>2 DEF CreatePublish, IInv, TypeOK, PointersAreIndices
    <2>2. CASE Crash(p)
      BY <2>0, <2>2 DEF Crash, IInv, TypeOK, PointersAreIndices
    <2>3. CASE CreateSegment(p) \/ CreateSync(p) \/ Open(p) \/ OpenValidate(p)
      BY <2>0, <2>3, SyncMoves
      DEF CreateSegment, CreateSync, Open, OpenValidate, IInv, TypeOK, PointersAreIndices
    <2>4. CASE \/ (isCreator[p] => Alone(p)) /\ DeleteBegins(p)
               \/ DeleteDestroys(p) \/ DeleteDetaches(p)
      BY <2>0, <2>4, DetachMoves
      DEF DeleteBegins, DeleteDestroys, DeleteDetaches, IInv, TypeOK, PointersAreIndices
    <2> QED
      BY <1>5, <2>1, <2>2, <2>3, <2>4 DEF AnyStep
  <1> QED
    BY <1>2, <1>3, <1>4, <1>5 DEF Next, AnyStep

(* On a ring that is neither full nor empty the indices differ.             *)
LEMMA IndicesApart ==
    ASSUME IInv, 0 < elementCount, elementCount < MaxElements
    PROVE  writeIndex # readIndex
  BY ShareMemQueueAssumption DEF IInv, TypeOK, Cursors, Between, Cells, ShareMemQueueAssumption

LEMMA InitPointers == Init => PointersAreIndices
  BY DEF Init, PointersAreIndices, Processes

LEMMA SingleInvariance ==
    ASSUME Single
    PROVE  Spec => []PointersAreIndices
  <1>1. IInv /\ PointersAreIndices /\ [Next]_vars => PointersAreIndices'
    BY PointersStayIndices
  <1> QED
    BY <1>1, InitPointers, Invariance, PTL DEF Spec

(* With one writer and one reader the two never have a pointer to the same  *)
(* element, whatever crashes and deletes interrupt their calls.            *)
THEOREM PointersApart ==
    ASSUME Single
    PROVE  Spec => []ReaderAndWriterApart
  <1>1. ASSUME IInv, PointersAreIndices PROVE ReaderAndWriterApart
    <2>1. SUFFICES ASSUME NEW w \in Writers, NEW r \in Readers, cell[w] # NoCell, cell[w] = cell[r]
                   PROVE  FALSE
      BY DEF ReaderAndWriterApart
    <2>2. w \in Processes /\ r \in Processes
      BY DEF Processes
    <2>3. pc[w] \in Pointing /\ pc[r] \in Pointing
      BY <1>1, <2>1, <2>2 DEF IInv, Pointers
    <2>4. pc[w] \in OnFree /\ pc[r] \in OnStored
      BY <1>1, <2>2, <2>3, ShareMemQueueAssumption
      DEF IInv, Roles, WriteCall, ReadCall, Pointing, OnFree, OnStored, ShareMemQueueAssumption
    <2>5. cell[w] = writeIndex /\ cell[r] = readIndex
      BY <1>1, <2>1 DEF PointersAreIndices
    <2> QED
      BY <1>1, <2>1, <2>2, <2>4, <2>5, RingNotFull, RingNotEmpty, IndicesApart
  <1> QED
    BY <1>1, Invariance, SingleInvariance, PTL
-----------------------------------------------------------------------------
(***************************************************************************)
(* The refinement.  Stored and Seen are what the mapping substitutes for   *)
(* the variables of DurableFifo.                                           *)
(***************************************************************************)
Stored == [i \in 1 .. elementCount |-> cells[(readIndex + i - 1) % MaxElements]]
Seen == [r \in Readers |-> IF pc[r] \in {"consumed", "removing"} THEN {cells[cell[r]]} ELSE {}]
Contents == Values \cup {Blank}

(* Where the k-th cell from the read index lies. *)
LEMMA Position ==
    ASSUME NEW i \in Cells, NEW k \in 0 .. MaxElements
    PROVE  /\ (i + k) % MaxElements = IF i + k < MaxElements THEN i + k ELSE i + k - MaxElements
           /\ (i + k) % MaxElements \in Cells
  BY ShareMemQueueAssumption DEF Cells, ShareMemQueueAssumption

LEMMA StoredIs ==
    ASSUME TypeOK
    PROVE  /\ Stored \in Seq(Contents) /\ Len(Stored) = elementCount
           /\ \A i \in 1 .. elementCount :
                 /\ (readIndex + i - 1) % MaxElements \in Cells
                 /\ Stored[i] = cells[(readIndex + i - 1) % MaxElements]
                 /\ (readIndex + i - 1) % MaxElements =
                       IF readIndex + i - 1 < MaxElements THEN readIndex + i - 1
                                                          ELSE readIndex + i - 1 - MaxElements
  <1>1. MaxElements \in Nat /\ elementCount \in 0 .. MaxElements /\ readIndex \in Cells /\ Cells \subseteq Int
    BY ShareMemQueueAssumption DEF TypeOK, Cells, ShareMemQueueAssumption
  <1>2. ASSUME NEW i \in 1 .. elementCount
        PROVE  /\ (readIndex + i - 1) % MaxElements \in Cells
               /\ (readIndex + i - 1) % MaxElements =
                       IF readIndex + i - 1 < MaxElements THEN readIndex + i - 1
                                                          ELSE readIndex + i - 1 - MaxElements
    <2>1. i - 1 \in 0 .. MaxElements /\ readIndex + (i - 1) = readIndex + i - 1
      BY <1>1
    <2> QED
      BY <1>1, <2>1, Position
  <1>3. \A i \in 1 .. elementCount : cells[(readIndex + i - 1) % MaxElements] \in Contents
    BY <1>2 DEF TypeOK, Contents
  <1> QED
    BY <1>1, <1>2, <1>3 DEF Stored

(* What the steps of the queue do, in terms of Stored and Seen.             *)
LEMMA PutAppends ==
    ASSUME IInv, TypeOK', NEW p \in Processes, PutWritePtr(p), cell[p] = writeIndex
    PROVE  Len(Stored) < MaxElements /\ Stored' = Append(Stored, cells[cell[p]])
  <1>1. elementCount < MaxElements
    BY RingNotFull DEF PutWritePtr, Move, OnFree
  <1>2. /\ elementCount' = elementCount + 1 /\ readIndex' = readIndex /\ cells' = cells
        /\ elementCount \in Nat /\ MaxElements \in Nat /\ readIndex \in Cells /\ Cells \subseteq Int
    BY ShareMemQueueAssumption
    DEF PutWritePtr, IInv, TypeOK, Cells, ShareMemQueueAssumption, block, sems
  <1>3. (readIndex + elementCount) % MaxElements = writeIndex
    <2>1. elementCount \in 0 .. MaxElements
      BY <1>1, <1>2
    <2>2. (readIndex + elementCount) % MaxElements =
             IF readIndex + elementCount < MaxElements THEN readIndex + elementCount
                                                       ELSE readIndex + elementCount - MaxElements
      BY <1>2, <2>1, Position
    <2>3. readIndex \in 0 .. MaxElements - 1 /\ writeIndex \in 0 .. MaxElements - 1
      BY DEF IInv, TypeOK, Cells
    <2>4. writeIndex = readIndex + elementCount \/ writeIndex + MaxElements = readIndex + elementCount
      BY <1>2, <2>3 DEF IInv, Cursors, Between
    <2> QED
      BY <1>1, <1>2, <2>2, <2>3, <2>4
  <1>4. /\ Stored \in Seq(Contents) /\ Len(Stored) = elementCount
        /\ \A i \in 1 .. elementCount : Stored[i] = cells[(readIndex + i - 1) % MaxElements]
    BY StoredIs DEF IInv
  <1>5. Stored' = [i \in 1 .. elementCount + 1 |-> cells[(readIndex + i - 1) % MaxElements]]
    BY <1>2 DEF Stored
  <1>6. cells[cell[p]] \in Contents
    BY DEF IInv, TypeOK, Contents
  <1>7. \A i \in 1 .. elementCount + 1 :
            [j \in 1 .. elementCount + 1 |-> cells[(readIndex + j - 1) % MaxElements]][i]
               = Append(Stored, cells[cell[p]])[i]
    <2>1. TAKE i \in 1 .. elementCount + 1
    <2>2. CASE i = elementCount + 1
      <3>1. readIndex + i - 1 = readIndex + elementCount
        BY <1>2, <2>2
      <3> QED
        BY <1>2, <1>3, <1>4, <1>6, <2>2, <3>1
    <2>3. CASE i # elementCount + 1
      BY <1>2, <1>4, <1>6, <2>3
    <2> QED
      BY <2>2, <2>3
  <1>8. Append(Stored, cells[cell[p]]) = [i \in 1 .. elementCount + 1 |-> Append(Stored, cells[cell[p]])[i]]
    BY <1>2, <1>4, <1>6
  <1> QED
    BY <1>1, <1>4, <1>5, <1>7, <1>8

LEMMA RemoveTakesHead ==
    ASSUME IInv, NEW p \in Processes, PutReadPtr(p)
    PROVE  Stored # <<>> /\ Stored' = Tail(Stored)
  <1>1. 0 < elementCount
    BY RingNotEmpty DEF PutReadPtr, Move, OnStored
  <1>2. /\ elementCount' = elementCount - 1 /\ readIndex' = (readIndex + 1) % MaxElements /\ cells' = cells
        /\ elementCount \in 0 .. MaxElements /\ MaxElements \in Nat \ {0} /\ readIndex \in Cells
        /\ Cells = 0 .. MaxElements - 1
    BY ShareMemQueueAssumption
    DEF PutReadPtr, IInv, TypeOK, Cells, ShareMemQueueAssumption, block, sems
  <1>3. /\ Stored \in Seq(Contents) /\ Len(Stored) = elementCount
        /\ \A i \in 1 .. elementCount : Stored[i] = cells[(readIndex + i - 1) % MaxElements]
    BY StoredIs DEF IInv
  <1>4. Stored' = [i \in 1 .. elementCount - 1 |->
                        cells[(((readIndex + 1) % MaxElements) + i - 1) % MaxElements]]
    BY <1>2 DEF Stored
  <1>5. ASSUME NEW i \in 1 .. elementCount - 1
        PROVE  (((readIndex + 1) % MaxElements) + i - 1) % MaxElements = (readIndex + i) % MaxElements
    <2>1. /\ (readIndex + 1) % MaxElements = IF readIndex + 1 = MaxElements THEN 0 ELSE readIndex + 1
          /\ (readIndex + 1) % MaxElements \in Cells
      BY <1>2, Forward
    <2>2. (readIndex + i) % MaxElements =
             IF readIndex + i < MaxElements THEN readIndex + i ELSE readIndex + i - MaxElements
      BY <1>2, Position
    <2> DEFINE q == (readIndex + 1) % MaxElements
    <2>3. i - 1 \in 0 .. MaxElements /\ q \in Cells
      BY <1>2, <2>1
    <2>4. (q + (i - 1)) % MaxElements =
             IF q + (i - 1) < MaxElements THEN q + (i - 1) ELSE q + (i - 1) - MaxElements
      BY <2>3, Position
    <2>5. q + i - 1 = q + (i - 1)
      BY <1>2, <2>3
    <2> HIDE DEF q
    <2>6. (q + i - 1) % MaxElements = (readIndex + i) % MaxElements
      BY <1>2, <2>1, <2>2, <2>3, <2>4, <2>5 DEF q
    <2> QED
      BY <2>6 DEF q
  <1>6. Tail(Stored) \in Seq(Contents) /\ Len(Tail(Stored)) = elementCount - 1
        /\ \A i \in 1 .. elementCount - 1 : Tail(Stored)[i] = Stored[i + 1]
    BY <1>1, <1>2, <1>3
  <1>7. \A i \in 1 .. elementCount - 1 : Stored[i + 1] = cells[(readIndex + i) % MaxElements]
    <2>1. TAKE i \in 1 .. elementCount - 1
    <2>2. i + 1 \in 1 .. elementCount /\ readIndex + (i + 1) - 1 = readIndex + i
      BY <1>2
    <2> QED
      BY <1>3, <2>2
  <1>8. Tail(Stored) = [i \in 1 .. elementCount - 1 |-> Tail(Stored)[i]]
    BY <1>2, <1>6, LenProperties
  <1>9. Stored # <<>>
    BY <1>1, <1>3
  <1> QED
    BY <1>4, <1>5, <1>6, <1>7, <1>8, <1>9

LEMMA FillKeepsStored ==
    ASSUME IInv, NEW p \in Processes, NEW v \in Values, Fill(p, v), cell[p] = writeIndex
    PROVE  Stored' = Stored
  <1>1. elementCount < MaxElements
    BY RingNotFull DEF Fill, Move, OnFree
  <1>2. /\ elementCount' = elementCount /\ readIndex' = readIndex
        /\ cells' = [cells EXCEPT ![writeIndex] = v]
        /\ elementCount \in 0 .. MaxElements /\ MaxElements \in Nat \ {0}
        /\ readIndex \in 0 .. MaxElements - 1 /\ writeIndex \in 0 .. MaxElements - 1
    BY ShareMemQueueAssumption DEF Fill, IInv, TypeOK, Cells, ShareMemQueueAssumption, block, sems
  <1>3. \A i \in 1 .. elementCount :
            /\ (readIndex + i - 1) % MaxElements \in Cells
            /\ (readIndex + i - 1) % MaxElements # writeIndex
    <2>1. writeIndex = readIndex + elementCount \/ writeIndex + MaxElements = readIndex + elementCount
      BY <1>2 DEF IInv, Cursors, Between
    <2>2. TAKE i \in 1 .. elementCount
    <2>3. /\ (readIndex + i - 1) % MaxElements \in Cells
          /\ (readIndex + i - 1) % MaxElements =
                IF readIndex + i - 1 < MaxElements THEN readIndex + i - 1
                                                   ELSE readIndex + i - 1 - MaxElements
      BY StoredIs DEF IInv
    <2> QED
      BY <1>1, <1>2, <2>1, <2>3
  <1>4. \A i \in 1 .. elementCount :
            cells'[(readIndex + i - 1) % MaxElements] = cells[(readIndex + i - 1) % MaxElements]
    BY <1>2, <1>3 DEF IInv, TypeOK
  <1> QED
    BY <1>2, <1>4 DEF Stored

LEMMA FifoStutters ==
    ASSUME Stored' = Stored, Seen' = Seen
    PROVE  UNCHANGED Queue!fifoVars
  BY DEF Queue!fifoVars, Stored, Seen

(* The steps of the writer: only PutWritePtr is seen from outside. *)
LEMMA WriterRefines ==
    ASSUME Single, IInv, TypeOK', PointersAreIndices, NEW p \in Writers, WriteStep(p)
    PROVE  [Queue!FifoNext]_(Queue!fifoVars)
  <1> USE DEF Move, block, sems
  <1>0. /\ p \in Processes
        /\ \A r \in Readers : r # p /\ r \in Processes
    BY ShareMemQueueAssumption DEF Processes, ShareMemQueueAssumption
  <1>1. CASE \E v \in Values : Fill(p, v)
    <2>1. PICK v \in Values : Fill(p, v)
      BY <1>1
    <2>2. cell[p] = writeIndex /\ cell[p] \in Cells
      BY <1>0, <2>1 DEF Fill, IInv, TypeOK, Pointers, Pointing, PointersAreIndices
    <2>3. Stored' = Stored
      BY <1>0, <2>1, <2>2, FillKeepsStored
    <2>4. ASSUME NEW r \in Readers, pc[r] \in {"consumed", "removing"}
          PROVE  cells'[cell[r]] = cells[cell[r]]
      <3>1. cell[r] = readIndex /\ cell[r] \in Cells
        BY <1>0, <2>4 DEF IInv, TypeOK, Pointers, Pointing, PointersAreIndices
      <3>2. writeIndex # readIndex
        <4>1. pc[p] \in OnFree /\ pc[r] \in OnStored
          BY <2>1, <2>4 DEF Fill, OnFree, OnStored
        <4> QED
          BY <1>0, <4>1, RingNotFull, RingNotEmpty, IndicesApart
      <3> QED
        BY <2>1, <2>2, <3>1, <3>2 DEF Fill, IInv, TypeOK
    <2>5. \A r \in Readers : pc'[r] = pc[r] /\ cell'[r] = cell[r]
      BY <1>0, <2>1 DEF Fill, IInv, TypeOK
    <2>6. Seen' = Seen
      BY <2>4, <2>5 DEF Seen
    <2> QED
      BY <2>3, <2>6, FifoStutters
  <1>2. CASE PutWritePtr(p)
    <2>1. cell[p] = writeIndex /\ cells[cell[p]] \in Values
      BY <1>0, <1>2, NoCellIsNone DEF PutWritePtr, IInv, TypeOK, Pointers, Pointing, PointersAreIndices
    <2>2. Len(Stored) < MaxElements /\ Stored' = Append(Stored, cells[cell[p]])
      BY <1>0, <1>2, <2>1, PutAppends
    <2>3. Seen' = Seen
      BY <1>0, <1>2 DEF PutWritePtr, Seen, IInv, TypeOK
    <2>4. PICK v \in Values : v = cells[cell[p]]
      BY <2>1
    <2>5. Queue!FifoStore(v)
      BY <2>2, <2>3, <2>4 DEF Queue!FifoStore, Stored, Seen
    <2> QED
      BY <2>5 DEF Queue!FifoNext
  <1>3. CASE \/ GetWriteBegins(p) \/ WaitNotFull(p) \/ GetWritePtr(p)
             \/ PutWriteBegins(p) \/ PostNotEmpty(p)
    <2>1. /\ UNCHANGED <<elementCount, readIndex, cells>>
          /\ \A r \in Readers : pc'[r] = pc[r] /\ cell'[r] = cell[r]
      BY <1>0, <1>3
      DEF GetWriteBegins, WaitNotFull, GetWritePtr, PutWriteBegins, PostNotEmpty, IInv, TypeOK
    <2>2. Stored' = Stored /\ Seen' = Seen
      BY <2>1 DEF Stored, Seen
    <2> QED
      BY <2>2, FifoStutters
  <1> QED
    BY <1>1, <1>2, <1>3 DEF WriteStep

(* The steps of the reader: Consume shows it the head, PutReadPtr confirms, *)
(* and a Put on a queue that has become invalid abandons it.               *)
LEMMA ReaderRefines ==
    ASSUME Single, IInv, PointersAreIndices, NEW p \in Readers, ReadStep(p)
    PROVE  [Queue!FifoNext]_(Queue!fifoVars)
  <1> USE DEF Move, block, sems
  <1>0. p \in Processes /\ Readers \subseteq Processes /\ \A r \in Readers : r = p
    BY DEF Single, Processes
  <1>1. ASSUME pc[p] \in {"reading", "consumed", "removing"}
        PROVE  /\ Stored # <<>> /\ Head(Stored) = cells[cell[p]]
    <2>1. pc[p] \in OnStored /\ 0 < elementCount
      BY <1>0, <1>1, RingNotEmpty DEF OnStored
    <2>2. cell[p] = readIndex
      BY <1>0, <1>1 DEF IInv, Pointers, Pointing, PointersAreIndices
    <2>3. /\ 1 \in 1 .. elementCount /\ readIndex + 1 - 1 = readIndex
          /\ readIndex + 1 - 1 < MaxElements
      BY <2>1, ShareMemQueueAssumption DEF IInv, TypeOK, Cells, ShareMemQueueAssumption
    <2>4. /\ Stored \in Seq(Contents) /\ Len(Stored) = elementCount
          /\ Stored[1] = cells[(readIndex + 1 - 1) % MaxElements]
          /\ (readIndex + 1 - 1) % MaxElements =
                       IF readIndex + 1 - 1 < MaxElements THEN readIndex + 1 - 1
                                                          ELSE readIndex + 1 - 1 - MaxElements
      BY <2>3, StoredIs DEF IInv
    <2> QED
      BY <2>1, <2>2, <2>3, <2>4
  <1>2. CASE Consume(p)
    <2>1. Stored' = Stored
      BY <1>2 DEF Consume, Stored
    <2>2. Seen[p] = {} /\ Seen' = [Seen EXCEPT ![p] = {Head(Stored)}]
      BY <1>0, <1>1, <1>2 DEF Consume, Seen, IInv, TypeOK
    <2>3. Queue!FifoShow(p)
      BY <1>1, <1>2, <2>1, <2>2 DEF Consume, Queue!FifoShow, Stored, Seen
    <2> QED
      BY <2>3 DEF Queue!FifoNext
  <1>3. CASE PutReadBegins(p)
    <2>1. Stored' = Stored
      BY <1>3 DEF PutReadBegins, Stored
    <2>2. CASE isValid
      <3>1. Seen' = Seen
        BY <1>0, <1>3, <2>2 DEF PutReadBegins, Seen, IInv, TypeOK
      <3> QED
        BY <2>1, <3>1, FifoStutters
    <2>3. CASE ~isValid
      <3>1. Seen' = [Seen EXCEPT ![p] = {}]
        BY <1>0, <1>3, <2>3 DEF PutReadBegins, Seen, IInv, TypeOK
      <3>2. Queue!FifoAbandon(p)
        BY <2>1, <3>1 DEF Queue!FifoAbandon, Stored, Seen
      <3> QED
        BY <3>2 DEF Queue!FifoNext
    <2> QED
      BY <2>2, <2>3
  <1>4. CASE PutReadPtr(p)
    <2>1. Stored # <<>> /\ Stored' = Tail(Stored)
      BY <1>0, <1>4, RemoveTakesHead
    <2>2. Seen[p] = {Head(Stored)} /\ Seen' = [Seen EXCEPT ![p] = {}]
      BY <1>0, <1>1, <1>4 DEF PutReadPtr, Seen, IInv, TypeOK
    <2>3. Queue!FifoConfirm(p)
      BY <2>1, <2>2 DEF Queue!FifoConfirm, Stored, Seen
    <2> QED
      BY <2>3 DEF Queue!FifoNext
  <1>5. CASE GetReadBegins(p) \/ WaitNotEmpty(p) \/ GetReadPtr(p) \/ PostNotFull(p)
    <2>1. /\ UNCHANGED <<elementCount, readIndex, cells>>
          /\ pc[p] \notin {"consumed", "removing"} /\ pc'[p] \notin {"consumed", "removing"}
      BY <1>0, <1>5 DEF GetReadBegins, WaitNotEmpty, GetReadPtr, PostNotFull, IInv, TypeOK
    <2>2. Stored' = Stored /\ Seen' = Seen
      BY <1>0, <2>1 DEF Stored, Seen
    <2> QED
      BY <2>2, FifoStutters
  <1> QED
    BY <1>2, <1>3, <1>4, <1>5 DEF ReadStep

(* Creating a queue renews it, a crash abandons what the process was shown, *)
(* and no other step is seen from outside.                                 *)
LEMMA OthersRefine ==
    ASSUME IInv, NEW p \in Processes, AnyStep(p)
    PROVE  [Queue!FifoNext]_(Queue!fifoVars)
  <1> USE DEF Move, block, sems
  <1>0. Readers \subseteq Processes
    BY DEF Processes
  <1>1. CASE CreatePublish(p)
    <2>1. Stored' = <<>>
      BY <1>1 DEF CreatePublish, Stored
    <2>2. \A r \in Readers : pc[r] \notin {"consumed", "removing"} /\ pc'[r] \notin {"consumed", "removing"}
      BY <1>0, <1>1 DEF CreatePublish, IInv, TypeOK, Phases, Attached
    <2>3. Seen' = Seen /\ \A r \in Readers : Seen[r] = {}
      BY <2>2 DEF Seen
    <2>4. Queue!FifoRenew
      BY <2>1, <2>3 DEF Queue!FifoRenew, Stored, Seen
    <2> QED
      BY <2>4 DEF Queue!FifoNext
  <1>2. CASE Crash(p)
    <2>1. Stored' = Stored
      BY <1>2 DEF Crash, Stored
    <2>2. \A r \in Readers : r # p => pc'[r] = pc[r] /\ cell'[r] = cell[r]
      BY <1>0, <1>2 DEF Crash, IInv, TypeOK
    <2>3. pc'[p] = "out" /\ cells' = cells
      BY <1>2 DEF Crash, IInv, TypeOK
    <2>4. CASE p \in Readers
      <3>1. Seen' = [Seen EXCEPT ![p] = {}]
        BY <2>2, <2>3, <2>4 DEF Seen
      <3>2. Queue!FifoAbandon(p)
        BY <2>1, <3>1 DEF Queue!FifoAbandon, Stored, Seen
      <3> QED
        BY <2>4, <3>2 DEF Queue!FifoNext
    <2>5. CASE p \notin Readers
      <3>1. Seen' = Seen
        BY <2>2, <2>3, <2>5 DEF Seen
      <3> QED
        BY <2>1, <3>1, FifoStutters
    <2> QED
      BY <2>4, <2>5
  <1>3. CASE \/ CreateSegment(p) \/ Open(p) \/ OpenValidate(p)
             \/ DeleteBegins(p) \/ DeleteDestroys(p)
    <2>1. /\ UNCHANGED <<elementCount, readIndex, cells>>
          /\ \A r \in Readers : r # p => pc'[r] = pc[r] /\ cell'[r] = cell[r]
          /\ pc[p] \notin {"consumed", "removing"} /\ pc'[p] \notin {"consumed", "removing"}
      BY <1>0, <1>3 DEF CreateSegment, Open, OpenValidate, DeleteBegins, DeleteDestroys, IInv, TypeOK
    <2>2. Stored' = Stored /\ Seen' = Seen
      BY <2>1 DEF Stored, Seen
    <2> QED
      BY <2>2, FifoStutters
  <1>4. CASE CreateSync(p) \/ DeleteDetaches(p)
    <2>1. UNCHANGED <<elementCount, readIndex, cells, cell>>
      BY <1>4 DEF CreateSync, DeleteDetaches
    <2>2. \A r \in Readers : pc'[r] \in {"consumed", "removing"} <=> pc[r] \in {"consumed", "removing"}
      BY <1>0, <1>4, SyncMoves, DetachMoves DEF IInv
    <2>3. Stored' = Stored /\ Seen' = Seen
      BY <2>1, <2>2 DEF Stored, Seen
    <2> QED
      BY <2>3, FifoStutters
  <1> QED
    BY <1>1, <1>2, <1>3, <1>4 DEF AnyStep

LEMMA StepRefines ==
    ASSUME Single, IInv, IInv', PointersAreIndices, [Next]_vars
    PROVE  [Queue!FifoNext]_(Queue!fifoVars)
  <1>1. CASE UNCHANGED vars
    <2>1. Stored' = Stored /\ Seen' = Seen
      BY <1>1 DEF vars, block, procs, Stored, Seen
    <2> QED
      BY <2>1, FifoStutters
  <1>2. CASE Next
    BY <1>2, WriterRefines, ReaderRefines, OthersRefine DEF Next, AnyStep, IInv
  <1> QED
    BY <1>1, <1>2

(* With one writer and one reader the shared memory is a queue that keeps   *)
(* what is stored, in order, until its reader has confirmed it, through    *)
(* crashes of either, deletes and re-creations.                            *)
THEOREM RefinesDurableFifo ==
    ASSUME Single
    PROVE  Spec => ImplementsDurableFifo
  <1>1. Init => Queue!FifoInit
    <2> SUFFICES ASSUME Init PROVE Queue!FifoInit
      OBVIOUS
    <2>1. Stored = <<>>
      BY DEF Init, Stored
    <2>2. Seen = [r \in Readers |-> {}]
      BY DEF Init, Seen, Processes
    <2> QED
      BY <2>1, <2>2 DEF Queue!FifoInit, Stored, Seen
  <1>2. IInv /\ IInv' /\ PointersAreIndices /\ [Next]_vars => [Queue!FifoNext]_(Queue!fifoVars)
    BY StepRefines
  <1> QED
    BY <1>1, <1>2, Invariance, SingleInvariance, PTL DEF Spec, ImplementsDurableFifo, Queue!FifoSpec
=============================================================================
