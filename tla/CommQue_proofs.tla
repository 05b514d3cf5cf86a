--------------------------- MODULE CommQue_proofs ---------------------------
(***************************************************************************)
(* Proofs about CommQue for every number of producers, consumers and slots.*)
(***************************************************************************)
EXTENDS CommQue, FiniteSetTheorems, SequenceTheorems, TLAPS

(* A slot is out exactly while its thread is between a Get and its Put, or *)
(* peeks.                                                                  *)
SlotsOut ==
    \A t \in Threads : slot[t] # NoSlot <=> pc[t] \in {"holdEmpty", "holdFull", "peek"}

(* Nobody falls asleep on a destroyed queue. *)
DestroyedQuiet == isDestroyed => At("waitFull") = {} /\ At("waitEmpty") = {}

(* The inductive invariant. *)
IInv == TypeOK /\ SlotsOut /\ DestroyedQuiet /\ SlotConservation /\ CursorsAgree /\ NoLostWakeup
-----------------------------------------------------------------------------
(* The ring arithmetic of the cursors: k slots lie from cursor r to cursor w, *)
(* and stay between them when a cursor moves by one and k with it.         *)
Between(r, w, k) == \E wraps \in {0, MaxCount} : w + wraps = r + k

LEMMA WriteForward ==
    ASSUME NEW r \in Slots, NEW w \in Slots, NEW k \in Nat, k < MaxCount, Between(r, w, k)
    PROVE  (w + 1) % MaxCount \in Slots /\ Between(r, (w + 1) % MaxCount, k + 1)
  BY CommQueAssumption DEF Between, Slots, CommQueAssumption

LEMMA WriteBack ==
    ASSUME NEW r \in Slots, NEW w \in Slots, NEW k \in Nat, 0 < k, k <= MaxCount, Between(r, w, k)
    PROVE  /\ (w + MaxCount - 1) % MaxCount \in Slots
           /\ Between(r, (w + MaxCount - 1) % MaxCount, k - 1)
  BY CommQueAssumption DEF Between, Slots, CommQueAssumption

LEMMA ReadForward ==
    ASSUME NEW r \in Slots, NEW w \in Slots, NEW k \in Nat, 0 < k, k <= MaxCount, Between(r, w, k)
    PROVE  (r + 1) % MaxCount \in Slots /\ Between((r + 1) % MaxCount, w, k - 1)
  BY CommQueAssumption DEF Between, Slots, CommQueAssumption

LEMMA ReadBack ==
    ASSUME NEW r \in Slots, NEW w \in Slots, NEW k \in Nat, k < MaxCount, Between(r, w, k)
    PROVE  /\ (r + MaxCount - 1) % MaxCount \in Slots
           /\ Between((r + MaxCount - 1) % MaxCount, w, k + 1)
  BY CommQueAssumption DEF Between, Slots, CommQueAssumption

(* The sets of threads by place are finite. *)
LEMMA AtFinite ==
    ASSUME NEW y
    PROVE  /\ IsFiniteSet(At(y)) /\ Cardinality(At(y)) \in Nat
           /\ IsFiniteSet(At(y)') /\ Cardinality(At(y)') \in Nat
  <1>1. IsFiniteSet(Threads)
    BY CommQueAssumption, FS_Union DEF CommQueAssumption, Threads
  <1>2. At(y) \in SUBSET Threads /\ At(y)' \in SUBSET Threads
    BY DEF At
  <1> QED
    BY <1>1, <1>2, FS_Subset, FS_CardinalityType

(* When one thread moves, at most two of those sets change, by one. *)
LEMMA MoveCounts ==
    ASSUME TypeOK, NEW t \in Threads, NEW x, pc[t] # x, pc' = [pc EXCEPT ![t] = x], NEW y
    PROVE  /\ At(y)' = IF y = x THEN At(y) \cup {t} ELSE At(y) \ {t}
           /\ Cardinality(At(y)') = Cardinality(At(y))
                 + (IF y = x THEN 1 ELSE IF y = pc[t] THEN -1 ELSE 0)
  <1>1. At(y)' = IF y = x THEN At(y) \cup {t} ELSE At(y) \ {t}
    BY DEF At, TypeOK
  <1>2. t \in At(y) <=> y = pc[t]
    BY DEF At
  <1>3. IsFiniteSet(At(y)) /\ Cardinality(At(y)) \in Nat
    BY AtFinite
  <1>4. Cardinality(At(y) \cup {t}) = IF t \in At(y) THEN Cardinality(At(y)) ELSE Cardinality(At(y)) + 1
    BY <1>3, FS_AddElement
  <1>5. Cardinality(At(y) \ {t}) = IF t \in At(y) THEN Cardinality(At(y)) - 1 ELSE Cardinality(At(y))
    BY <1>3, FS_RemoveElement
  <1> QED
    BY <1>1, <1>2, <1>3, <1>4, <1>5

(* What the return from a Put does to those sets: t leaves, and either no   *)
(* thread waits for what was put, or one more is woken for it.             *)
LEMMA SignalCounts ==
    ASSUME TypeOK, NEW t \in Threads, pc[t] \in {"holdEmpty", "holdFull"},
           NEW waiting \in {"waitFull", "waitEmpty"}, NEW woken \in {"wokenFull", "wokenEmpty"},
           Signal([pc EXCEPT ![t] = "idle"], waiting, woken)
    PROVE  /\ pc' \in [Threads -> PcValues]
           /\ \A u \in Threads : \A y \in {"holdEmpty", "holdFull", "peek"} :
                 pc'[u] = y <=> u # t /\ pc[u] = y
           /\ \A y \in {"holdEmpty", "holdFull"} :
                 Cardinality(At(y)') = Cardinality(At(y)) - (IF pc[t] = y THEN 1 ELSE 0)
           /\ \A y \in {"waitFull", "waitEmpty"} \ {waiting} : At(y)' = At(y)
           /\ \A y \in {"wokenFull", "wokenEmpty"} \ {woken} : At(y)' = At(y)
           /\ \/ At(waiting) = {} /\ At(waiting)' = {} /\ At(woken)' = At(woken)
              \/ /\ At(waiting) # {} 
                 /\ Cardinality(At(woken)') = Cardinality(At(woken)) + 1
  <1> DEFINE p == [pc EXCEPT ![t] = "idle"]
             W == {u \in Threads : p[u] = waiting}
  <1>1. W = At(waiting)
    BY DEF At, TypeOK
  <1>2. t \notin At(waiting)
    BY DEF At
  <1>3. \A y \in {"holdEmpty", "holdFull"} :
            Cardinality(At(y) \ {t}) = Cardinality(At(y)) - (IF pc[t] = y THEN 1 ELSE 0)
    <2>1. TAKE y \in {"holdEmpty", "holdFull"}
    <2>2. t \in At(y) <=> pc[t] = y
      BY DEF At
    <2>3. IsFiniteSet(At(y)) /\ Cardinality(At(y)) \in Nat
      BY AtFinite
    <2>4. Cardinality(At(y) \ {t}) = IF t \in At(y) THEN Cardinality(At(y)) - 1 ELSE Cardinality(At(y))
      BY <2>3, FS_RemoveElement
    <2> QED
      BY <2>2, <2>3, <2>4
  <1>4. CASE W = {} /\ pc' = p
    <2>1. \A u \in Threads : pc'[u] = IF u = t THEN "idle" ELSE pc[u]
      BY <1>4 DEF TypeOK
    <2>2. \A y \in {"holdEmpty", "holdFull"} : At(y)' = At(y) \ {t}
      BY <2>1 DEF At
    <2>3. \A y \in {"waitFull", "waitEmpty", "wokenFull", "wokenEmpty"} : At(y)' = At(y)
      BY <2>1 DEF At
    <2>4. pc' \in [Threads -> PcValues]
      BY <1>4 DEF TypeOK, PcValues
    <2> QED
      <3>1. \A u \in Threads : \A y \in {"holdEmpty", "holdFull", "peek"} :
                pc'[u] = y <=> u # t /\ pc[u] = y
        BY <2>1
      <3>2. At(waiting) = {} /\ At(waiting)' = {} /\ At(woken)' = At(woken)
        BY <1>1, <1>4, <2>3
      <3>3. \A y \in {"holdEmpty", "holdFull"} :
                Cardinality(At(y)') = Cardinality(At(y)) - (IF pc[t] = y THEN 1 ELSE 0)
        BY <1>3, <2>2
      <3> QED
        BY <2>3, <2>4, <3>1, <3>2, <3>3
  <1>5. CASE \E w \in W : pc' = [p EXCEPT ![w] = woken]
    <2>1. PICK w \in W : pc' = [p EXCEPT ![w] = woken]
      BY <1>5
    <2>2. w \in Threads /\ w # t /\ pc[w] = waiting
      BY <1>1, <1>2 DEF At
    <2>3. \A u \in Threads : pc'[u] = IF u = t THEN "idle" ELSE IF u = w THEN woken ELSE pc[u]
      BY <2>1, <2>2 DEF TypeOK
    <2>4. \A y \in {"holdEmpty", "holdFull"} : At(y)' = At(y) \ {t}
      BY <2>2, <2>3 DEF At
    <2>5. \A y \in {"waitFull", "waitEmpty"} \ {waiting} : At(y)' = At(y)
      BY <2>2, <2>3 DEF At
    <2>6. \A y \in {"wokenFull", "wokenEmpty"} \ {woken} : At(y)' = At(y)
      BY <2>2, <2>3 DEF At
    <2>7. At(woken)' = At(woken) \cup {w} /\ w \notin At(woken)
      BY <2>2, <2>3 DEF At
    <2>8. Cardinality(At(woken)') = Cardinality(At(woken)) + 1
      BY <2>7, AtFinite, FS_AddElement
    <2>9. pc' \in [Threads -> PcValues]
      BY <2>1, <2>2 DEF TypeOK, PcValues
    <2>10. \A u \in Threads : \A y \in {"holdEmpty", "holdFull", "peek"} :
              pc'[u] = y <=> u # t /\ pc[u] = y
      BY <2>2, <2>3
    <2> QED
      BY <1>1, <1>3, <2>1, <2>4, <2>5, <2>6, <2>8, <2>9, <2>10
  <1> QED
    BY <1>4, <1>5 DEF Signal
-----------------------------------------------------------------------------
(* Init establishes the invariant.                                         *)
LEMMA InitIInv == Init => IInv
  <1> SUFFICES ASSUME Init PROVE IInv
    OBVIOUS
  <1>1. TypeOK
    <2>1. 0 \in Slots /\ MaxCount \in Nat
      BY CommQueAssumption DEF Slots, CommQueAssumption
    <2>2. "idle" \in PcValues
      BY DEF PcValues
    <2> QED
      BY <2>1, <2>2 DEF Init, TypeOK
  <1>2. At("holdEmpty") = {} /\ At("holdFull") = {} /\ At("waitFull") = {} /\ At("waitEmpty") = {}
    BY DEF Init, At
  <1>3. SlotConservation /\ CursorsAgree
    BY <1>2, FS_EmptySet, CommQueAssumption
    DEF Init, SlotConservation, CursorsAgree, HeldEmpty, HeldFull, CommQueAssumption
  <1> QED
    BY <1>1, <1>2, <1>3 DEF Init, IInv, SlotsOut, DestroyedQuiet, NoLostWakeup

(* The invariant in terms of numbers. *)
LEMMA Counts ==
    ASSUME IInv
    PROVE  /\ \A y : Cardinality(At(y)) \in Nat /\ Cardinality(At(y)') \in Nat
           /\ Cardinality(HeldEmpty) \in Nat /\ Cardinality(HeldFull) \in Nat
           /\ Cardinality(HeldEmpty') \in Nat /\ Cardinality(HeldFull') \in Nat
           /\ fullCount \in Nat /\ emptyCount \in Nat /\ MaxCount \in Nat
           /\ read \in Slots /\ write \in Slots
           /\ fullCount + emptyCount + Cardinality(HeldEmpty) + Cardinality(HeldFull) = MaxCount
           /\ Between(read, write, fullCount + Cardinality(HeldEmpty))
  <1>1. \A y : Cardinality(At(y)) \in Nat /\ Cardinality(At(y)') \in Nat
    BY AtFinite
  <1>2. fullCount \in Nat /\ emptyCount \in Nat /\ MaxCount \in Nat /\ read \in Slots /\ write \in Slots
    BY CommQueAssumption DEF IInv, TypeOK, CommQueAssumption
  <1>3. fullCount + emptyCount + Cardinality(HeldEmpty) + Cardinality(HeldFull) = MaxCount
    BY DEF IInv, SlotConservation
  <1>4. Between(read, write, fullCount + Cardinality(HeldEmpty))
    <2>1. PICK wraps \in {0, MaxCount} : write + wraps = read + fullCount + Cardinality(HeldEmpty)
      BY DEF IInv, CursorsAgree
    <2>2. read + fullCount + Cardinality(HeldEmpty) = read + (fullCount + Cardinality(HeldEmpty))
      BY <1>1, <1>2 DEF HeldEmpty, Slots
    <2> QED
      BY <2>1, <2>2 DEF Between
  <1> QED
    BY <1>1, <1>2, <1>3, <1>4 DEF HeldEmpty, HeldFull

(* The ring part of the invariant from the numbers after a step. *)
LEMMA RingHolds ==
    ASSUME fullCount' \in Nat, emptyCount' \in Nat, read' \in Slots, write' \in Slots,
           Cardinality(HeldEmpty') \in Nat, Cardinality(HeldFull') \in Nat,
           fullCount' + emptyCount' + Cardinality(HeldEmpty') + Cardinality(HeldFull') = MaxCount,
           NEW k \in Nat, k = fullCount' + Cardinality(HeldEmpty'), Between(read', write', k)
    PROVE  SlotConservation' /\ CursorsAgree'
  <1>1. PICK wraps \in {0, MaxCount} : write' + wraps = read' + k
    BY DEF Between
  <1>2. write' + wraps = read' + fullCount' + Cardinality(HeldEmpty')
    BY <1>1 DEF Slots
  <1> QED
    BY <1>2 DEF SlotConservation, CursorsAgree
-----------------------------------------------------------------------------
(* A successful GetEmpty moves one slot from the empty ones to the held.    *)
LEMMA TakeEmptyIInv ==
    ASSUME IInv, NEW t \in Threads, pc[t] \in {"idle", "wokenEmpty"}, TakeEmpty(t)
    PROVE  IInv'
  <1> USE DEF IInv
  <1> DEFINE k == fullCount + Cardinality(HeldEmpty)
  <1>1. /\ pc' = [pc EXCEPT ![t] = "holdEmpty"] /\ pc[t] # "holdEmpty"
        /\ fullCount' = fullCount /\ read' = read /\ isDestroyed' = isDestroyed /\ freed' = freed
        /\ emptyCount' = emptyCount - 1 /\ emptyCount > 0
        /\ write' = (write + 1) % MaxCount
        /\ slot' = [slot EXCEPT ![t] = write] /\ timed' \in SUBSET Threads
    BY DEF TakeEmpty, TypeOK
  <1>2. /\ Cardinality(HeldEmpty') = Cardinality(HeldEmpty) + 1
        /\ Cardinality(HeldFull') = Cardinality(HeldFull)
        /\ Cardinality(At("wokenFull")') = Cardinality(At("wokenFull"))
        /\ Cardinality(At("wokenEmpty")') >= Cardinality(At("wokenEmpty")) - 1
    <2>1. ASSUME NEW y
          PROVE  Cardinality(At(y)') = Cardinality(At(y))
                    + (IF y = "holdEmpty" THEN 1 ELSE IF y = pc[t] THEN -1 ELSE 0)
      BY <1>1, MoveCounts
    <2> QED
      BY <2>1, AtFinite DEF HeldEmpty, HeldFull
  <1>3. At("waitFull")' = At("waitFull") /\ At("waitEmpty")' = At("waitEmpty")
    BY <1>1 DEF At, TypeOK
  <1>4. write' \in Slots /\ Between(read, write', k + 1)
    <2>1. k \in Nat /\ k < MaxCount /\ Between(read, write, k)
      BY <1>1, Counts
    <2> QED
      BY <1>1, <2>1, Counts, WriteForward
  <1>5. SlotConservation' /\ CursorsAgree'
    <2>1. k + 1 \in Nat /\ k + 1 = fullCount' + Cardinality(HeldEmpty')
      BY <1>1, <1>2, Counts
    <2>2. /\ emptyCount' \in Nat /\ fullCount' \in Nat
          /\ fullCount' + emptyCount' + Cardinality(HeldEmpty') + Cardinality(HeldFull') = MaxCount
      BY <1>1, <1>2, Counts
    <2> QED
      BY <1>1, <1>4, <2>1, <2>2, Counts, RingHolds
  <1>6. TypeOK'
    BY <1>1, <1>4 DEF TypeOK, PcValues
  <1>7. SlotsOut'
    BY <1>1 DEF SlotsOut, TypeOK, Slots, NoSlot
  <1>8. NoLostWakeup'
    BY <1>1, <1>2, <1>3, Counts DEF NoLostWakeup
  <1> QED
    BY <1>1, <1>3, <1>5, <1>6, <1>7, <1>8 DEF DestroyedQuiet
(* A successful GetFull moves one slot from the full ones to the held.      *)
LEMMA TakeFullIInv ==
    ASSUME IInv, NEW t \in Threads, pc[t] \in {"idle", "wokenFull"}, TakeFull(t)
    PROVE  IInv'
  <1> USE DEF IInv
  <1> DEFINE k == fullCount + Cardinality(HeldEmpty)
  <1>1. /\ pc' = [pc EXCEPT ![t] = "holdFull"] /\ pc[t] # "holdFull"
        /\ emptyCount' = emptyCount /\ write' = write /\ isDestroyed' = isDestroyed /\ freed' = freed
        /\ fullCount' = fullCount - 1 /\ fullCount > 0
        /\ read' = (read + 1) % MaxCount
        /\ slot' = [slot EXCEPT ![t] = read] /\ timed' \in SUBSET Threads
    BY DEF TakeFull, TypeOK
  <1>2. /\ Cardinality(HeldEmpty') = Cardinality(HeldEmpty)
        /\ Cardinality(HeldFull') = Cardinality(HeldFull) + 1
        /\ Cardinality(At("wokenEmpty")') = Cardinality(At("wokenEmpty"))
        /\ Cardinality(At("wokenFull")') >= Cardinality(At("wokenFull")) - 1
    <2>1. ASSUME NEW y
          PROVE  Cardinality(At(y)') = Cardinality(At(y))
                    + (IF y = "holdFull" THEN 1 ELSE IF y = pc[t] THEN -1 ELSE 0)
      BY <1>1, MoveCounts
    <2> QED
      BY <2>1, AtFinite DEF HeldEmpty, HeldFull
  <1>3. At("waitFull")' = At("waitFull") /\ At("waitEmpty")' = At("waitEmpty")
    BY <1>1 DEF At, TypeOK
  <1>4. read' \in Slots /\ Between(read', write, k - 1)
    <2>1. k \in Nat /\ 0 < k /\ k <= MaxCount /\ Between(read, write, k)
      BY <1>1, Counts
    <2> QED
      BY <1>1, <2>1, Counts, ReadForward
  <1>5. SlotConservation' /\ CursorsAgree'
    <2>1. k - 1 \in Nat /\ k - 1 = fullCount' + Cardinality(HeldEmpty')
      BY <1>1, <1>2, Counts
    <2>2. /\ emptyCount' \in Nat /\ fullCount' \in Nat
          /\ fullCount' + emptyCount' + Cardinality(HeldEmpty') + Cardinality(HeldFull') = MaxCount
      BY <1>1, <1>2, Counts
    <2> QED
      BY <1>1, <1>4, <2>1, <2>2, Counts, RingHolds
  <1>6. TypeOK'
    BY <1>1, <1>4 DEF TypeOK, PcValues
  <1>7. SlotsOut'
    BY <1>1 DEF SlotsOut, TypeOK, Slots, NoSlot
  <1>8. NoLostWakeup'
    BY <1>1, <1>2, <1>3, Counts DEF NoLostWakeup
  <1> QED
    BY <1>1, <1>3, <1>5, <1>6, <1>7, <1>8 DEF DestroyedQuiet
(* What all the Put operations leave alone, and the wake-up.                *)
LEMMA GiveBackFacts ==
    ASSUME IInv, NEW t \in Threads, pc[t] \in {"holdEmpty", "holdFull"},
           NEW waiting, NEW woken,
           <<waiting, woken>> \in {<<"waitFull", "wokenFull">>, <<"waitEmpty", "wokenEmpty">>},
           GiveBack(t, waiting, woken)
    PROVE  /\ pc' \in [Threads -> PcValues] /\ slot' \in [Threads -> Slots \cup {NoSlot}]
           /\ isDestroyed' \in BOOLEAN /\ freed' \in BOOLEAN /\ timed' \in SUBSET Threads
           /\ SlotsOut' /\ DestroyedQuiet'
           /\ Cardinality(HeldEmpty') = Cardinality(HeldEmpty) - (IF pc[t] = "holdEmpty" THEN 1 ELSE 0)
           /\ Cardinality(HeldFull') = Cardinality(HeldFull) - (IF pc[t] = "holdFull" THEN 1 ELSE 0)
           /\ Cardinality(HeldEmpty) \in Nat /\ Cardinality(HeldFull) \in Nat
           /\ \A y \in {"waitFull", "waitEmpty"} \ {waiting} : At(y)' = At(y)
           /\ \A y \in {"wokenFull", "wokenEmpty"} \ {woken} : At(y)' = At(y)
           /\ \/ At(waiting)' = {}
              \/ At(waiting) # {} /\ Cardinality(At(woken)') = Cardinality(At(woken)) + 1
  <1>1. /\ Signal([pc EXCEPT ![t] = "idle"], waiting, woken)
        /\ slot' = [slot EXCEPT ![t] = NoSlot]
        /\ UNCHANGED <<isDestroyed, freed, timed>>
    BY DEF GiveBack
  <1>2. waiting \in {"waitFull", "waitEmpty"} /\ woken \in {"wokenFull", "wokenEmpty"}
    OBVIOUS
  <1>3. /\ pc' \in [Threads -> PcValues]
        /\ \A u \in Threads : \A y \in {"holdEmpty", "holdFull", "peek"} :
              pc'[u] = y <=> u # t /\ pc[u] = y
        /\ \A y \in {"holdEmpty", "holdFull"} :
              Cardinality(At(y)') = Cardinality(At(y)) - (IF pc[t] = y THEN 1 ELSE 0)
        /\ \A y \in {"waitFull", "waitEmpty"} \ {waiting} : At(y)' = At(y)
        /\ \A y \in {"wokenFull", "wokenEmpty"} \ {woken} : At(y)' = At(y)
        /\ \/ At(waiting) = {} /\ At(waiting)' = {} /\ At(woken)' = At(woken)
           \/ /\ At(waiting) # {}
              /\ Cardinality(At(woken)') = Cardinality(At(woken)) + 1
    BY <1>1, <1>2, SignalCounts DEF IInv
  <1>4. slot' \in [Threads -> Slots \cup {NoSlot}] /\ SlotsOut'
    BY <1>1, <1>3 DEF IInv, TypeOK, SlotsOut
  <1>5. DestroyedQuiet'
    <2>1. CASE isDestroyed'
      <3>1. At("waitFull") = {} /\ At("waitEmpty") = {}
        BY <1>1, <2>1 DEF IInv, DestroyedQuiet
      <3>2. At("waitFull")' = {} /\ At("waitEmpty")' = {}
        BY <1>2, <1>3, <3>1
      <3> QED
        BY <3>2 DEF DestroyedQuiet
    <2>2. CASE ~isDestroyed'
      BY <2>2 DEF DestroyedQuiet
    <2> QED
      BY <2>1, <2>2
  <1> QED
    BY <1>1, <1>3, <1>4, <1>5, Counts DEF IInv, TypeOK, HeldEmpty, HeldFull

(* PutFull: one slot from the held ones to the full ones.                   *)
LEMMA PutFullIInv ==
    ASSUME IInv, NEW t \in Threads, PutFull(t)
    PROVE  IInv'
  <1> DEFINE k == fullCount + Cardinality(HeldEmpty)
  <1>1. /\ pc[t] = "holdEmpty" /\ fullCount' = fullCount + 1
        /\ GiveBack(t, "waitFull", "wokenFull")
        /\ write' = write /\ read' = read /\ emptyCount' = emptyCount
    BY DEF PutFull
  <1>2. /\ pc' \in [Threads -> PcValues] /\ slot' \in [Threads -> Slots \cup {NoSlot}]
        /\ isDestroyed' \in BOOLEAN /\ freed' \in BOOLEAN /\ timed' \in SUBSET Threads
        /\ SlotsOut' /\ DestroyedQuiet'
        /\ Cardinality(HeldEmpty') = Cardinality(HeldEmpty) - 1
        /\ Cardinality(HeldFull') = Cardinality(HeldFull)
        /\ At("waitEmpty")' = At("waitEmpty") /\ At("wokenEmpty")' = At("wokenEmpty")
        /\ \/ At("waitFull")' = {}
           \/ At("waitFull") # {} /\ Cardinality(At("wokenFull")') = Cardinality(At("wokenFull")) + 1
    BY <1>1, GiveBackFacts
  <1>3. SlotConservation' /\ CursorsAgree'
    <2>1. k \in Nat /\ k = fullCount' + Cardinality(HeldEmpty')
      BY <1>1, <1>2, Counts
    <2>2. /\ emptyCount' \in Nat /\ fullCount' \in Nat
          /\ fullCount' + emptyCount' + Cardinality(HeldEmpty') + Cardinality(HeldFull') = MaxCount
      BY <1>1, <1>2, Counts
    <2> QED
      BY <1>1, <2>1, <2>2, Counts, RingHolds
  <1>4. TypeOK'
    BY <1>1, <1>2, Counts DEF TypeOK
  <1>5. NoLostWakeup'
    BY <1>1, <1>2, Counts DEF NoLostWakeup, IInv
  <1> QED
    BY <1>2, <1>3, <1>4, <1>5 DEF IInv

(* PutEmpty: one slot from the held ones to the empty ones.                 *)
LEMMA PutEmptyIInv ==
    ASSUME IInv, NEW t \in Threads, PutEmpty(t)
    PROVE  IInv'
  <1> DEFINE k == fullCount + Cardinality(HeldEmpty)
  <1>1. /\ pc[t] = "holdFull" /\ emptyCount' = emptyCount + 1
        /\ GiveBack(t, "waitEmpty", "wokenEmpty")
        /\ write' = write /\ read' = read /\ fullCount' = fullCount
    BY DEF PutEmpty
  <1>2. /\ pc' \in [Threads -> PcValues] /\ slot' \in [Threads -> Slots \cup {NoSlot}]
        /\ isDestroyed' \in BOOLEAN /\ freed' \in BOOLEAN /\ timed' \in SUBSET Threads
        /\ SlotsOut' /\ DestroyedQuiet'
        /\ Cardinality(HeldFull') = Cardinality(HeldFull) - 1
        /\ Cardinality(HeldEmpty') = Cardinality(HeldEmpty)
        /\ At("waitFull")' = At("waitFull") /\ At("wokenFull")' = At("wokenFull")
        /\ \/ At("waitEmpty")' = {}
           \/ At("waitEmpty") # {} /\ Cardinality(At("wokenEmpty")') = Cardinality(At("wokenEmpty")) + 1
    BY <1>1, GiveBackFacts
  <1>3. SlotConservation' /\ CursorsAgree'
    <2>1. k \in Nat /\ k = fullCount' + Cardinality(HeldEmpty')
      BY <1>1, <1>2, Counts
    <2>2. /\ emptyCount' \in Nat /\ fullCount' \in Nat
          /\ fullCount' + emptyCount' + Cardinality(HeldEmpty') + Cardinality(HeldFull') = MaxCount
      BY <1>1, <1>2, Counts
    <2> QED
      BY <1>1, <2>1, <2>2, Counts, RingHolds
  <1>4. TypeOK'
    BY <1>1, <1>2, Counts DEF TypeOK
  <1>5. NoLostWakeup'
    BY <1>1, <1>2, Counts DEF NoLostWakeup, IInv
  <1> QED
    BY <1>2, <1>3, <1>4, <1>5 DEF IInv

(* PutFullFront of a slot that GetFull returned: the read cursor steps back. *)
LEMMA PutFullFrontIInv ==
    ASSUME IInv, NEW t \in Threads, pc[t] = "holdFull", PutFullFront(t)
    PROVE  IInv'
  <1> DEFINE k == fullCount + Cardinality(HeldEmpty)
  <1>1. /\ pc[t] = "holdFull" /\ fullCount' = fullCount + 1
        /\ GiveBack(t, "waitFull", "wokenFull")
        /\ read' = (read + MaxCount - 1) % MaxCount
        /\ write' = write /\ emptyCount' = emptyCount
    BY DEF PutFullFront
  <1>2. /\ pc' \in [Threads -> PcValues] /\ slot' \in [Threads -> Slots \cup {NoSlot}]
        /\ isDestroyed' \in BOOLEAN /\ freed' \in BOOLEAN /\ timed' \in SUBSET Threads
        /\ SlotsOut' /\ DestroyedQuiet'
        /\ Cardinality(HeldEmpty') = Cardinality(HeldEmpty)
        /\ Cardinality(HeldFull') = Cardinality(HeldFull) - 1
        /\ At("waitEmpty")' = At("waitEmpty") /\ At("wokenEmpty")' = At("wokenEmpty")
        /\ \/ At("waitFull")' = {}
           \/ At("waitFull") # {} /\ Cardinality(At("wokenFull")') = Cardinality(At("wokenFull")) + 1
    BY <1>1, GiveBackFacts
  <1>3. read' \in Slots /\ Between(read', write, k + 1)
    <2>1. k \in Nat /\ k < MaxCount /\ Between(read, write, k)
      BY <1>2, Counts
    <2> QED
      BY <1>1, <2>1, Counts, ReadBack
  <1>4. SlotConservation' /\ CursorsAgree'
    <2>1. k + 1 \in Nat /\ k + 1 = fullCount' + Cardinality(HeldEmpty')
      BY <1>1, <1>2, Counts
    <2>2. /\ emptyCount' \in Nat /\ fullCount' \in Nat
          /\ fullCount' + emptyCount' + Cardinality(HeldEmpty') + Cardinality(HeldFull') = MaxCount
      BY <1>1, <1>2, Counts
    <2> QED
      BY <1>1, <1>3, <2>1, <2>2, Counts, RingHolds
  <1>5. TypeOK'
    BY <1>1, <1>2, <1>3, Counts DEF TypeOK
  <1>6. NoLostWakeup'
    BY <1>1, <1>2, Counts DEF NoLostWakeup, IInv
  <1> QED
    BY <1>2, <1>4, <1>5, <1>6 DEF IInv

(* PutEmptyFront of a slot that GetEmpty returned: the write cursor steps    *)
(* back.                                                                   *)
LEMMA PutEmptyFrontIInv ==
    ASSUME IInv, NEW t \in Threads, pc[t] = "holdEmpty", PutEmptyFront(t)
    PROVE  IInv'
  <1> DEFINE k == fullCount + Cardinality(HeldEmpty)
  <1>1. /\ pc[t] = "holdEmpty" /\ emptyCount' = emptyCount + 1
        /\ GiveBack(t, "waitEmpty", "wokenEmpty")
        /\ write' = (write + MaxCount - 1) % MaxCount
        /\ read' = read /\ fullCount' = fullCount
    BY DEF PutEmptyFront
  <1>2. /\ pc' \in [Threads -> PcValues] /\ slot' \in [Threads -> Slots \cup {NoSlot}]
        /\ isDestroyed' \in BOOLEAN /\ freed' \in BOOLEAN /\ timed' \in SUBSET Threads
        /\ SlotsOut' /\ DestroyedQuiet'
        /\ Cardinality(HeldFull') = Cardinality(HeldFull)
        /\ Cardinality(HeldEmpty') = Cardinality(HeldEmpty) - 1
        /\ At("waitFull")' = At("waitFull") /\ At("wokenFull")' = At("wokenFull")
        /\ \/ At("waitEmpty")' = {}
           \/ At("waitEmpty") # {} /\ Cardinality(At("wokenEmpty")') = Cardinality(At("wokenEmpty")) + 1
    BY <1>1, GiveBackFacts
  <1>3. write' \in Slots /\ Between(read, write', k - 1)
    <2>1. k \in Nat /\ 0 < k /\ k <= MaxCount /\ Between(read, write, k)
      BY <1>2, Counts
    <2> QED
      BY <1>1, <2>1, Counts, WriteBack
  <1>4. SlotConservation' /\ CursorsAgree'
    <2>1. k - 1 \in Nat /\ k - 1 = fullCount' + Cardinality(HeldEmpty')
      BY <1>1, <1>2, Counts
    <2>2. /\ emptyCount' \in Nat /\ fullCount' \in Nat
          /\ fullCount' + emptyCount' + Cardinality(HeldEmpty') + Cardinality(HeldFull') = MaxCount
      BY <1>1, <1>2, Counts
    <2> QED
      BY <1>1, <1>3, <2>1, <2>2, Counts, RingHolds
  <1>5. TypeOK'
    BY <1>1, <1>2, <1>3, Counts DEF TypeOK
  <1>6. NoLostWakeup'
    BY <1>1, <1>2, Counts DEF NoLostWakeup, IInv
  <1> QED
    BY <1>2, <1>4, <1>5, <1>6 DEF IInv

(* A step that moves no slot keeps the ring part of the invariant.          *)
LEMMA QueStays ==
    ASSUME IInv, UNCHANGED que, HeldEmpty' = HeldEmpty, HeldFull' = HeldFull
    PROVE  SlotConservation' /\ CursorsAgree'
  BY DEF IInv, que, SlotConservation, CursorsAgree

(* Falling asleep: only when there is nothing to take.                      *)
LEMMA BlockIInv ==
    ASSUME IInv, NEW t \in Threads, NEW hasDeadline, ~isDestroyed,
           NEW where,
           \/ where = "waitEmpty" /\ pc[t] \in {"idle", "wokenEmpty"} /\ emptyCount = 0
           \/ where = "waitFull" /\ pc[t] \in {"idle", "wokenFull"} /\ fullCount = 0,
           Block(t, where, hasDeadline)
    PROVE  IInv'
  <1>1. /\ pc' = [pc EXCEPT ![t] = where] /\ timed' \in SUBSET Threads
        /\ UNCHANGED <<que, isDestroyed, freed, slot>>
    BY DEF Block, IInv, TypeOK
  <1>2. HeldEmpty' = HeldEmpty /\ HeldFull' = HeldFull
    BY <1>1 DEF HeldEmpty, HeldFull, At, IInv, TypeOK
  <1>3. SlotConservation' /\ CursorsAgree'
    BY <1>1, <1>2, QueStays
  <1>4. TypeOK'
    BY <1>1 DEF IInv, TypeOK, PcValues, que
  <1>5. SlotsOut'
    BY <1>1 DEF IInv, TypeOK, SlotsOut
  <1>6. NoLostWakeup'
    <2>1. CASE where = "waitEmpty"
      <3>1. At("waitFull")' = At("waitFull") /\ At("wokenFull")' = At("wokenFull") /\ emptyCount = 0
        BY <1>1, <2>1 DEF At, IInv, TypeOK
      <3> QED
        BY <1>1, <3>1, Counts DEF NoLostWakeup, IInv, que
    <2>2. CASE where = "waitFull"
      <3>1. At("waitEmpty")' = At("waitEmpty") /\ At("wokenEmpty")' = At("wokenEmpty") /\ fullCount = 0
        BY <1>1, <2>2 DEF At, IInv, TypeOK
      <3> QED
        BY <1>1, <3>1, Counts DEF NoLostWakeup, IInv, que
    <2> QED
      BY <2>1, <2>2
  <1> QED
    BY <1>1, <1>3, <1>4, <1>5, <1>6 DEF IInv, DestroyedQuiet

(* Leaving with NULL: a waiting thread, or any thread once nobody waits.    *)
LEMMA ReturnNullIInv ==
    ASSUME IInv, NEW t \in Threads, ReturnNull(t),
           \/ pc[t] \in {"waitEmpty", "waitFull"}
           \/ isDestroyed /\ pc[t] \in {"wokenEmpty", "wokenFull"}
    PROVE  IInv'
  <1>1. /\ pc' = [pc EXCEPT ![t] = "idle"] /\ timed' \in SUBSET Threads
        /\ UNCHANGED <<que, isDestroyed, freed, slot>>
    BY DEF ReturnNull, IInv, TypeOK
  <1>2. HeldEmpty' = HeldEmpty /\ HeldFull' = HeldFull
    BY <1>1 DEF HeldEmpty, HeldFull, At, IInv, TypeOK
  <1>3. SlotConservation' /\ CursorsAgree'
    BY <1>1, <1>2, QueStays
  <1>4. TypeOK'
    BY <1>1 DEF IInv, TypeOK, PcValues, que
  <1>5. SlotsOut'
    BY <1>1 DEF IInv, TypeOK, SlotsOut
  <1>6. \A y \in {"waitEmpty", "waitFull"} : At(y)' \subseteq At(y)
    BY <1>1 DEF At, IInv, TypeOK
  <1>7. DestroyedQuiet'
    BY <1>1, <1>6 DEF IInv, DestroyedQuiet
  <1>8. NoLostWakeup'
    <2>1. CASE isDestroyed
      BY <1>6, <2>1 DEF IInv, DestroyedQuiet, NoLostWakeup
    <2>2. CASE ~isDestroyed
      <3>1. \A y \in {"wokenEmpty", "wokenFull"} : At(y)' = At(y)
        BY <1>1, <2>2 DEF At, IInv, TypeOK
      <3> QED
        BY <1>1, <1>6, <3>1 DEF IInv, NoLostWakeup, que
    <2> QED
      BY <2>1, <2>2
  <1> QED
    BY <1>3, <1>4, <1>5, <1>7, <1>8 DEF IInv

(* A spurious wakeup makes one more woken thread.                           *)
LEMMA SpuriousWakeupIInv ==
    ASSUME IInv, NEW t \in Threads, SpuriousWakeup(t)
    PROVE  IInv'
  <1>1. PICK to \in {"wokenEmpty", "wokenFull"} :
            /\ pc' = [pc EXCEPT ![t] = to] /\ pc[t] \in {"waitEmpty", "waitFull"}
            /\ UNCHANGED <<que, isDestroyed, freed, slot, timed>>
    BY DEF SpuriousWakeup
  <1>2. HeldEmpty' = HeldEmpty /\ HeldFull' = HeldFull
    BY <1>1 DEF HeldEmpty, HeldFull, At, IInv, TypeOK
  <1>3. SlotConservation' /\ CursorsAgree'
    BY <1>1, <1>2, QueStays
  <1>4. TypeOK'
    BY <1>1 DEF IInv, TypeOK, PcValues, que
  <1>5. SlotsOut'
    BY <1>1 DEF IInv, TypeOK, SlotsOut
  <1>6. \A y \in {"waitEmpty", "waitFull"} : At(y)' \subseteq At(y)
    BY <1>1 DEF At, IInv, TypeOK
  <1>7. DestroyedQuiet'
    BY <1>1, <1>6 DEF IInv, DestroyedQuiet
  <1>8. \A y \in {"wokenEmpty", "wokenFull"} : Cardinality(At(y)') >= Cardinality(At(y))
    <2>1. TAKE y \in {"wokenEmpty", "wokenFull"}
    <2>2. Cardinality(At(y)') = Cardinality(At(y))
                    + (IF y = to THEN 1 ELSE IF y = pc[t] THEN -1 ELSE 0)
      BY <1>1, MoveCounts DEF IInv
    <2> QED
      BY <1>1, <2>2, Counts
  <1>9. NoLostWakeup'
    BY <1>1, <1>6, <1>8, Counts DEF IInv, NoLostWakeup, que
  <1> QED
    BY <1>3, <1>4, <1>5, <1>7, <1>9 DEF IInv

(* PeekFull and its end move no slot and wake nobody.                       *)
LEMMA PeekIInv ==
    ASSUME IInv, NEW t \in Threads, PeekFull(t) \/ PeekDone(t)
    PROVE  IInv'
  <1>1. PICK to \in {"idle", "peek"} :
            /\ pc' = [pc EXCEPT ![t] = to] /\ pc[t] \in {"idle", "peek"}
            /\ slot' = [slot EXCEPT ![t] = IF to = "peek" THEN read ELSE NoSlot]
            /\ UNCHANGED <<que, isDestroyed, freed, timed>>
    BY DEF PeekFull, PeekDone
  <1>2. \A y \in {"holdEmpty", "holdFull", "waitEmpty", "waitFull", "wokenEmpty", "wokenFull"} :
            At(y)' = At(y)
    BY <1>1 DEF At, IInv, TypeOK
  <1>3. SlotConservation' /\ CursorsAgree'
    BY <1>1, <1>2, QueStays DEF HeldEmpty, HeldFull
  <1>4. TypeOK'
    BY <1>1 DEF IInv, TypeOK, PcValues, que
  <1>5. SlotsOut'
    BY <1>1 DEF IInv, TypeOK, SlotsOut, Slots, NoSlot
  <1>6. DestroyedQuiet' /\ NoLostWakeup'
    BY <1>1, <1>2 DEF IInv, DestroyedQuiet, NoLostWakeup, que
  <1> QED
    BY <1>3, <1>4, <1>5, <1>6 DEF IInv

(* Clear while no slot is out.                                              *)
LEMMA ClearIInv ==
    ASSUME IInv, NoSlotOut, Clear
    PROVE  IInv'
  <1>1. /\ write' = 0 /\ read' = 0 /\ fullCount' = 0 /\ emptyCount' = MaxCount
        /\ pc' = [t \in Threads |-> IF pc[t] = "waitEmpty" THEN "wokenEmpty" ELSE pc[t]]
        /\ UNCHANGED <<isDestroyed, freed, slot, timed>>
    BY DEF Clear, Broadcast
  <1>2. HeldEmpty' = {} /\ HeldFull' = {}
    BY <1>1 DEF NoSlotOut, IInv, SlotsOut, HeldEmpty, HeldFull, At
  <1>3. 0 \in Slots /\ MaxCount \in Nat
    BY CommQueAssumption DEF Slots, CommQueAssumption
  <1>4. SlotConservation' /\ CursorsAgree'
    BY <1>1, <1>2, <1>3, FS_EmptySet DEF SlotConservation, CursorsAgree
  <1>5. TypeOK'
    BY <1>1, <1>3 DEF IInv, TypeOK, PcValues
  <1>6. SlotsOut'
    BY <1>1 DEF IInv, TypeOK, SlotsOut
  <1>7. At("waitEmpty")' = {} /\ At("waitFull")' = At("waitFull")
    BY <1>1 DEF At
  <1>8. DestroyedQuiet' /\ NoLostWakeup'
    BY <1>1, <1>7, Counts DEF IInv, DestroyedQuiet, NoLostWakeup
  <1> QED
    BY <1>4, <1>5, <1>6, <1>8 DEF IInv

(* Delete wakes every waiting thread, and later frees the queue.            *)
LEMMA DeleteIInv ==
    ASSUME IInv, DeleteMark \/ DeleteFree
    PROVE  IInv'
  <1>1. CASE DeleteMark
    <2>1. /\ isDestroyed' = TRUE /\ UNCHANGED <<que, freed, slot, timed>>
          /\ pc' = [t \in Threads |-> IF pc[t] = "waitFull" THEN "wokenFull"
                                      ELSE IF pc[t] = "waitEmpty" THEN "wokenEmpty" ELSE pc[t]]
      BY <1>1 DEF DeleteMark, Broadcast
    <2>2. HeldEmpty' = HeldEmpty /\ HeldFull' = HeldFull
      BY <2>1 DEF HeldEmpty, HeldFull, At
    <2>3. At("waitEmpty")' = {} /\ At("waitFull")' = {}
      BY <2>1 DEF At
    <2>4. TypeOK' /\ SlotsOut'
      BY <2>1 DEF IInv, TypeOK, SlotsOut, PcValues, que
    <2> QED
      BY <2>1, <2>2, <2>3, <2>4, QueStays DEF IInv, DestroyedQuiet, NoLostWakeup
  <1>2. CASE DeleteFree
    <2>1. freed' = TRUE /\ UNCHANGED <<que, isDestroyed, pc, slot, timed>>
      BY <1>2 DEF DeleteFree
    <2> QED
      BY <2>1 DEF IInv, TypeOK, SlotsOut, DestroyedQuiet, SlotConservation, CursorsAgree,
                  NoLostWakeup, HeldEmpty, HeldFull, At, que
  <1> QED
    BY <1>1, <1>2
-----------------------------------------------------------------------------
(* Every step preserves the invariant.                                      *)
LEMMA NextIInv == IInv /\ [Next]_vars => IInv'
  <1> SUFFICES ASSUME IInv, [Next]_vars PROVE IInv'
    OBVIOUS
  <1>1. ASSUME NEW t \in Producers, GetEmpty(t) \/ ResumeEmpty(t) PROVE IInv'
    <2>1. t \in Threads
      BY DEF Threads
    <2>2. CASE TakeEmpty(t)
      BY <1>1, <2>1, <2>2, TakeEmptyIInv DEF GetEmpty, ResumeEmpty
    <2>3. CASE ~isDestroyed /\ ~TakeEmpty(t)
      <3>1. emptyCount = 0 /\ pc[t] \in {"idle", "wokenEmpty"}
        BY <1>1, <2>3 DEF GetEmpty, ResumeEmpty
      <3>2. CASE \E hasDeadline \in BOOLEAN : Block(t, "waitEmpty", hasDeadline)
        BY <2>1, <2>3, <3>1, <3>2, BlockIInv
      <3>3. CASE Block(t, "waitEmpty", t \in timed)
        BY <2>1, <2>3, <3>1, <3>3, BlockIInv
      <3> QED
        BY <1>1, <2>3, <3>2, <3>3 DEF GetEmpty, ResumeEmpty
    <2>4. CASE isDestroyed /\ ~TakeEmpty(t)
      BY <1>1, <2>1, <2>4, ReturnNullIInv DEF GetEmpty, ResumeEmpty
    <2> QED
      BY <2>2, <2>3, <2>4
  <1>2. ASSUME NEW t \in Consumers, GetFull(t) \/ ResumeFull(t) PROVE IInv'
    <2>1. t \in Threads
      BY DEF Threads
    <2>2. CASE TakeFull(t)
      BY <1>2, <2>1, <2>2, TakeFullIInv DEF GetFull, ResumeFull
    <2>3. CASE ~isDestroyed /\ ~TakeFull(t)
      <3>1. fullCount = 0 /\ pc[t] \in {"idle", "wokenFull"}
        BY <1>2, <2>3 DEF GetFull, ResumeFull
      <3>2. CASE \E hasDeadline \in BOOLEAN : Block(t, "waitFull", hasDeadline)
        BY <2>1, <2>3, <3>1, <3>2, BlockIInv
      <3>3. CASE Block(t, "waitFull", t \in timed)
        BY <2>1, <2>3, <3>1, <3>3, BlockIInv
      <3> QED
        BY <1>2, <2>3, <3>2, <3>3 DEF GetFull, ResumeFull
    <2>4. CASE isDestroyed /\ ~TakeFull(t)
      BY <1>2, <2>1, <2>4, ReturnNullIInv DEF GetFull, ResumeFull
    <2> QED
      BY <2>2, <2>3, <2>4
  <1>3. ASSUME NEW t \in Threads, WaitTimesOut(t) PROVE IInv'
    BY <1>3, ReturnNullIInv DEF WaitTimesOut
  <1>4. ASSUME NEW t \in HeldEmpty, PutEmptyFront(t) PROVE IInv'
    BY <1>4, PutEmptyFrontIInv DEF HeldEmpty, At
  <1>5. ASSUME NEW t \in HeldFull, PutFullFront(t) PROVE IInv'
    BY <1>5, PutFullFrontIInv DEF HeldFull, At
  <1>6. CASE UNCHANGED vars
    BY <1>6 DEF IInv, TypeOK, SlotsOut, DestroyedQuiet, SlotConservation, CursorsAgree,
                NoLostWakeup, HeldEmpty, HeldFull, At, vars
  <1> QED
    BY <1>1, <1>2, <1>3, <1>4, <1>5, <1>6, PutFullIInv, PutEmptyIInv, PeekIInv, SpuriousWakeupIInv,
       ClearIInv, DeleteIInv
    DEF Next, GetPutNext, UndoNext, Threads

(* The invariant holds in every reachable state.                            *)
THEOREM Invariance == Spec => []IInv
  BY InitIInv, NextIInv, PTL DEF Spec

(* Cursors and counters stay in range, whatever the number of threads.      *)
THEOREM TypeCorrect == Spec => []TypeOK
  <1>1. IInv => TypeOK
    BY DEF IInv
  <1> QED
    BY <1>1, Invariance, PTL

(* No interleaving of any number of producers and consumers loses a slot or *)
(* counts one twice.                                                        *)
THEOREM SlotsConserved == Spec => []SlotConservation
  <1>1. IInv => SlotConservation
    BY DEF IInv
  <1> QED
    BY <1>1, Invariance, PTL

(* The cursors, which the code never compares, always agree with the        *)
(* counters.                                                                *)
THEOREM CursorsStayTogether == Spec => []CursorsAgree
  <1>1. IInv => CursorsAgree
    BY DEF IInv
  <1> QED
    BY <1>1, Invariance, PTL

(* pthread_cond_signal, one per Put, never leaves a thread asleep on a slot  *)
(* it could have, whatever times out, wakes up spuriously or is cleared.     *)
THEOREM WakeupsSuffice == Spec => []NoLostWakeup
  <1>1. IInv => NoLostWakeup
    BY DEF IInv
  <1> QED
    BY <1>1, Invariance, PTL
-----------------------------------------------------------------------------
(***************************************************************************)
(* One producer and one consumer: the slots they work on are different.    *)
(***************************************************************************)
ProducerPlaces == {"idle", "waitEmpty", "wokenEmpty", "holdEmpty"}
ConsumerPlaces == {"idle", "waitFull", "wokenFull", "holdFull", "peek"}

(* Producers and consumers keep to their own calls. *)
Roles == /\ \A t \in Producers : pc[t] \in ProducerPlaces
         /\ \A t \in Consumers : pc[t] \in ConsumerPlaces

(* The slot p fills is just behind the write cursor, the one c consumes just*)
(* behind the read cursor, the one it peeks at under it.                    *)
Window(p, c) ==
    /\ pc[p] = "holdEmpty" => slot[p] = (write + MaxCount - 1) % MaxCount
    /\ pc[c] = "holdFull" => slot[c] = (read + MaxCount - 1) % MaxCount
    /\ pc[c] = "peek" => slot[c] = read /\ fullCount > 0

LEMMA BackOfNext ==
    ASSUME NEW i \in Slots
    PROVE  (((i + 1) % MaxCount) + MaxCount - 1) % MaxCount = i
  <1>1. MaxCount \in Nat \ {0} /\ i \in 0 .. MaxCount - 1
    BY CommQueAssumption DEF Slots, CommQueAssumption
  <1>2. (i + 1) % MaxCount = IF i = MaxCount - 1 THEN 0 ELSE i + 1
    BY <1>1
  <1> QED
    BY <1>1, <1>2

(* The two slots differ because the slots being filled and the full ones lie*)
(* between them.                                                           *)
LEMMA BehindApart ==
    ASSUME NEW r \in Slots, NEW w \in Slots, NEW k \in Nat, 0 < k, k < MaxCount, Between(r, w, k)
    PROVE  (w + MaxCount - 1) % MaxCount # (r + MaxCount - 1) % MaxCount
  BY CommQueAssumption DEF Between, Slots, CommQueAssumption

LEMMA BehindNotUnder ==
    ASSUME NEW r \in Slots, NEW w \in Slots, NEW k \in Nat, 1 < k, k <= MaxCount, Between(r, w, k)
    PROVE  (w + MaxCount - 1) % MaxCount # r
  BY CommQueAssumption DEF Between, Slots, CommQueAssumption

LEMMA WindowExclusive ==
    ASSUME NEW p, NEW c, Producers = {p}, Consumers = {c}, p # c, IInv, Roles, Window(p, c)
    PROVE  SlotExclusive
  <1>1. p \in Threads /\ c \in Threads /\ \A t \in Threads : t = p \/ t = c
    BY DEF Threads
  <1>2. ASSUME pc[p] = "holdEmpty", pc[c] \in {"holdFull", "peek"}
        PROVE  slot[p] # slot[c]
    <2>1. HeldEmpty = {p}
      BY <1>1, <1>2 DEF HeldEmpty, At
    <2>2. Cardinality(HeldEmpty) = 1
      BY <2>1, FS_Singleton
    <2>3. fullCount + 1 \in Nat /\ Between(read, write, fullCount + 1) /\ fullCount + 1 <= MaxCount
      BY <2>2, Counts
    <2>4. CASE pc[c] = "holdFull"
      <3>1. HeldFull = {c}
        BY <1>1, <1>2, <2>4 DEF HeldFull, At
      <3>2. Cardinality(HeldFull) = 1
        BY <3>1, FS_Singleton
      <3>3. 0 < fullCount + 1 /\ fullCount + 1 < MaxCount
        BY <2>2, <3>2, Counts
      <3> QED
        BY <1>2, <2>3, <2>4, <3>3, Counts, BehindApart DEF Window
    <2>5. CASE pc[c] = "peek"
      <3>1. 1 < fullCount + 1
        BY <2>5, Counts DEF Window
      <3> QED
        BY <1>2, <2>3, <2>5, <3>1, Counts, BehindNotUnder DEF Window
    <2> QED
      BY <1>2, <2>4, <2>5
  <1>3. pc[p] \in ProducerPlaces /\ pc[c] \in ConsumerPlaces
    BY DEF Roles
  <1>4. slot[p] # NoSlot => pc[p] = "holdEmpty"
    BY <1>1, <1>3 DEF IInv, SlotsOut, ProducerPlaces
  <1>5. slot[c] # NoSlot => pc[c] \in {"holdFull", "peek"}
    BY <1>1, <1>3 DEF IInv, SlotsOut, ConsumerPlaces
  <1> QED
    BY <1>1, <1>2, <1>4, <1>5 DEF SlotExclusive

(* A Put or a wait step leaves the threads that hold a slot where they are. *)
LEMMA RolesNext ==
    ASSUME IInv, Roles, [Next]_vars
    PROVE  Roles'
  <1> USE DEF ProducerPlaces, ConsumerPlaces
  <1>1. pc \in [Threads -> PcValues] /\ Threads = Producers \cup Consumers
    BY DEF IInv, TypeOK, Threads
  <1>2. ASSUME NEW t \in Producers, GetEmpty(t) \/ ResumeEmpty(t) PROVE Roles'
    BY <1>1, <1>2, CommQueAssumption
    DEF Roles, GetEmpty, ResumeEmpty, TakeEmpty, Block, ReturnNull, CommQueAssumption
  <1>3. ASSUME NEW t \in Consumers, GetFull(t) \/ ResumeFull(t) \/ PeekFull(t) \/ PeekDone(t) PROVE Roles'
    BY <1>1, <1>3, CommQueAssumption
    DEF Roles, GetFull, ResumeFull, TakeFull, Block, ReturnNull, PeekFull, PeekDone, CommQueAssumption
  <1>4. ASSUME NEW t \in Threads, WaitTimesOut(t) \/ SpuriousWakeup(t) PROVE Roles'
    BY <1>1, <1>4 DEF Roles, WaitTimesOut, SpuriousWakeup, ReturnNull
  <1>5. ASSUME NEW t \in Threads, NEW waiting, NEW woken,
               <<waiting, woken>> \in {<<"waitFull", "wokenFull">>, <<"waitEmpty", "wokenEmpty">>},
               GiveBack(t, waiting, woken)
        PROVE  Roles'
    BY <1>1, <1>5 DEF Roles, GiveBack, Signal
  <1>6. ASSUME NEW t \in Threads, PutFull(t) \/ PutEmpty(t) \/ PutFullFront(t) \/ PutEmptyFront(t)
        PROVE  Roles'
    BY <1>5, <1>6 DEF PutFull, PutEmpty, PutFullFront, PutEmptyFront
  <1>7. CASE Clear \/ DeleteMark \/ DeleteFree
    BY <1>1, <1>7 DEF Roles, Clear, DeleteMark, DeleteFree, Broadcast
  <1>8. CASE UNCHANGED vars
    BY <1>8 DEF Roles, vars
  <1> QED
    BY <1>1, <1>2, <1>3, <1>4, <1>6, <1>7, <1>8 DEF Next, GetPutNext, UndoNext, HeldEmpty, HeldFull, At

(* A step that leaves cursors and slots alone, and takes no thread to a slot,*)
(* keeps the window.                                                        *)
LEMMA WindowStays ==
    ASSUME NEW p, NEW c, Window(p, c), write' = write, read' = read, fullCount' >= fullCount,
           fullCount \in Nat, fullCount' \in Nat,
           \A y \in {"holdEmpty", "holdFull", "peek"} :
              /\ pc'[p] = y => pc[p] = y /\ slot'[p] = slot[p]
              /\ pc'[c] = y => pc[c] = y /\ slot'[c] = slot[c]
    PROVE  Window(p, c)'
  BY DEF Window

LEMMA WindowNext ==
    ASSUME NEW p, NEW c, Producers = {p}, Consumers = {c}, p # c,
           IInv, IInv', Roles, Window(p, c), [Next]_vars
    PROVE  Window(p, c)'
  <1>1. /\ p \in Threads /\ c \in Threads /\ \A t \in Threads : t = p \/ t = c
        /\ pc \in [Threads -> PcValues] /\ slot \in [Threads -> Slots \cup {NoSlot}]
        /\ fullCount \in Nat /\ fullCount' \in Nat /\ read \in Slots /\ write \in Slots
        /\ pc[p] \in ProducerPlaces /\ pc[c] \in ConsumerPlaces
    BY DEF Threads, IInv, TypeOK, Roles
  <1>2. CASE TakeEmpty(p)
    BY <1>1, <1>2, BackOfNext DEF TakeEmpty, Window, ProducerPlaces
  <1>3. CASE TakeFull(c)
    BY <1>1, <1>3, BackOfNext DEF TakeFull, Window, ConsumerPlaces
  <1>4. ASSUME NEW t \in Threads, NEW where \in {"waitEmpty", "waitFull"}, NEW hasDeadline,
               Block(t, where, hasDeadline)
        PROVE  Window(p, c)'
    BY <1>1, <1>4, WindowStays DEF Block, que
  <1>5. ASSUME NEW t \in Threads, ReturnNull(t) \/ SpuriousWakeup(t) \/ PeekDone(t)
        PROVE  Window(p, c)'
    <2>1. CASE ReturnNull(t)
      BY <1>1, <2>1, WindowStays DEF ReturnNull, que
    <2>2. CASE SpuriousWakeup(t)
      BY <1>1, <2>2, WindowStays DEF SpuriousWakeup, que
    <2>3. CASE PeekDone(t)
      BY <1>1, <2>3, WindowStays DEF PeekDone, que
    <2> QED
      BY <1>5, <2>1, <2>2, <2>3
  <1>6. CASE PeekFull(c)
    BY <1>1, <1>6 DEF PeekFull, Window, que, ProducerPlaces
  <1>7. ASSUME NEW t \in Threads, NEW waiting, NEW woken, pc[t] \in {"holdEmpty", "holdFull"},
               <<waiting, woken>> \in {<<"waitFull", "wokenFull">>, <<"waitEmpty", "wokenEmpty">>},
               GiveBack(t, waiting, woken)
        PROVE  \A u \in Threads : \A y \in {"holdEmpty", "holdFull", "peek"} :
                  pc'[u] = y => u # t /\ pc[u] = y /\ slot'[u] = slot[u]
    <2>1. \A u \in Threads : \A y \in {"holdEmpty", "holdFull", "peek"} :
              pc'[u] = y <=> u # t /\ pc[u] = y
      BY <1>7, SignalCounts DEF GiveBack, IInv
    <2> QED
      BY <1>1, <1>7, <2>1 DEF GiveBack
  <1>8. CASE PutFull(p)
    <2>1. \A u \in Threads : \A y \in {"holdEmpty", "holdFull", "peek"} :
              pc'[u] = y => u # p /\ pc[u] = y /\ slot'[u] = slot[u]
      BY <1>1, <1>7, <1>8 DEF PutFull
    <2> QED
      BY <1>1, <1>8, <2>1, WindowStays DEF PutFull
  <1>9. CASE PutEmpty(c)
    <2>1. \A u \in Threads : \A y \in {"holdEmpty", "holdFull", "peek"} :
              pc'[u] = y => u # c /\ pc[u] = y /\ slot'[u] = slot[u]
      BY <1>1, <1>7, <1>9 DEF PutEmpty
    <2> QED
      BY <1>1, <1>9, <2>1, WindowStays DEF PutEmpty
  <1>10. CASE pc[p] = "holdEmpty" /\ PutEmptyFront(p)
    <2>1. \A u \in Threads : \A y \in {"holdEmpty", "holdFull", "peek"} :
              pc'[u] = y => u # p /\ pc[u] = y /\ slot'[u] = slot[u]
      BY <1>1, <1>7, <1>10 DEF PutEmptyFront
    <2> QED
      BY <1>1, <1>10, <2>1 DEF PutEmptyFront, Window, ConsumerPlaces
  <1>11. CASE pc[c] = "holdFull" /\ PutFullFront(c)
    <2>1. \A u \in Threads : \A y \in {"holdEmpty", "holdFull", "peek"} :
              pc'[u] = y => u # c /\ pc[u] = y /\ slot'[u] = slot[u]
      BY <1>1, <1>7, <1>11 DEF PutFullFront
    <2> QED
      BY <1>1, <1>11, <2>1 DEF PutFullFront, Window, ProducerPlaces
  <1>12. CASE NoSlotOut /\ Clear
    <2>1. pc'[p] # "holdEmpty" /\ pc'[c] \notin {"holdFull", "peek"}
      BY <1>1, <1>12 DEF NoSlotOut, IInv, SlotsOut, Clear, Broadcast
    <2> QED
      BY <2>1 DEF Window
  <1>13. CASE DeleteMark
    BY <1>1, <1>13, WindowStays DEF DeleteMark, Broadcast, que
  <1>14. CASE DeleteFree \/ UNCHANGED vars
    BY <1>1, <1>14, WindowStays DEF DeleteFree, que, vars
  <1>15. CASE GetEmpty(p) \/ ResumeEmpty(p)
    <2>1. \/ TakeEmpty(p) \/ ReturnNull(p)
          \/ \E hasDeadline \in BOOLEAN : Block(p, "waitEmpty", hasDeadline)
          \/ Block(p, "waitEmpty", p \in timed)
      BY <1>15 DEF GetEmpty, ResumeEmpty
    <2> QED
      BY <1>1, <1>2, <1>4, <1>5, <2>1
  <1>16. CASE GetFull(c) \/ ResumeFull(c)
    <2>1. \/ TakeFull(c) \/ ReturnNull(c)
          \/ \E hasDeadline \in BOOLEAN : Block(c, "waitFull", hasDeadline)
          \/ Block(c, "waitFull", c \in timed)
      BY <1>16 DEF GetFull, ResumeFull
    <2> QED
      BY <1>1, <1>3, <1>4, <1>5, <2>1
  <1>17. HeldEmpty \subseteq {p} /\ HeldFull \subseteq {c}
    BY <1>1 DEF HeldEmpty, HeldFull, At, ProducerPlaces, ConsumerPlaces
  <1>18. ASSUME NEW t \in Threads, WaitTimesOut(t) \/ SpuriousWakeup(t) \/ PeekDone(t)
         PROVE  Window(p, c)'
    BY <1>5, <1>18 DEF WaitTimesOut
  <1>19. CASE UndoNext
    BY <1>10, <1>11, <1>17, <1>19 DEF UndoNext, HeldEmpty, HeldFull, At
  <1>20. CASE GetPutNext
    BY <1>1, <1>6, <1>8, <1>9, <1>12, <1>13, <1>14, <1>15, <1>16, <1>18, <1>20 DEF GetPutNext
  <1> QED
    BY <1>14, <1>19, <1>20 DEF Next

(* With one producer and one consumer no slot is ever filled and read at the *)
(* same time, for every number of slots: what GetEmpty and GetFull promise.   *)
THEOREM SlotsExclusive ==
    ASSUME NEW CONSTANT p, NEW CONSTANT c, Producers = {p}, Consumers = {c}
    PROVE  Spec => []SlotExclusive
  <1> DEFINE J == IInv /\ Roles /\ Window(p, c)
  <1>1. p # c
    BY CommQueAssumption DEF CommQueAssumption
  <1>2. Init => J
    BY InitIInv DEF Init, Roles, Window, Threads, ProducerPlaces, ConsumerPlaces
  <1>3. J /\ [Next]_vars => J'
    BY <1>1, NextIInv, RolesNext, WindowNext
  <1>4. J => SlotExclusive
    BY <1>1, WindowExclusive
  <1> QED
    BY <1>2, <1>3, <1>4, PTL DEF Spec
-----------------------------------------------------------------------------
(***************************************************************************)
(* One producer and one consumer: the ring is a pool with two queues.  The *)
(* slots of a queue are the k slots from s on, Ring(s, k).                 *)
(***************************************************************************)
Ring(s, k) == [i \in 1 .. k |-> (s + i - 1) % MaxCount]
Pos(s, j) == IF s + j < MaxCount THEN s + j ELSE s + j - MaxCount

LEMMA Position ==
    ASSUME NEW s \in Slots, NEW j \in 0 .. MaxCount
    PROVE  (s + j) % MaxCount = Pos(s, j) /\ Pos(s, j) \in Slots
  BY CommQueAssumption DEF Slots, Pos, CommQueAssumption

LEMMA RingIs ==
    ASSUME NEW s \in Slots, NEW k \in 0 .. MaxCount
    PROVE  /\ Ring(s, k) \in Seq(Slots) /\ Len(Ring(s, k)) = k
           /\ \A i \in 1 .. k : Ring(s, k)[i] = Pos(s, i - 1)
  <1>1. MaxCount \in Nat /\ k \in Nat /\ s \in Int
    BY CommQueAssumption DEF Slots, CommQueAssumption
  <1>2. ASSUME NEW i \in 1 .. k
        PROVE  (s + i - 1) % MaxCount = Pos(s, i - 1) /\ Pos(s, i - 1) \in Slots
    <2>1. i - 1 \in 0 .. MaxCount /\ s + (i - 1) = s + i - 1
      BY <1>1
    <2> QED
      BY <2>1, Position
  <1>3. Ring(s, k) \in [1 .. k -> Slots] /\ \A i \in 1 .. k : Ring(s, k)[i] = Pos(s, i - 1)
    BY <1>2 DEF Ring
  <1> QED
    BY <1>1, <1>3

(* Taking the first slot, giving one back at the end, and at the front.     *)
LEMMA RingTail ==
    ASSUME NEW s \in Slots, NEW k \in 1 .. MaxCount
    PROVE  /\ Ring(s, k) # <<>> /\ Head(Ring(s, k)) = s
           /\ Tail(Ring(s, k)) = Ring((s + 1) % MaxCount, k - 1)
  <1> DEFINE t == (s + 1) % MaxCount
  <1>1. MaxCount \in Nat /\ k \in Nat /\ k - 1 \in 0 .. MaxCount /\ k \in 0 .. MaxCount
        /\ s \in 0 .. MaxCount - 1 /\ 1 \in 0 .. MaxCount
    BY CommQueAssumption DEF Slots, CommQueAssumption
  <1>2. t = Pos(s, 1) /\ t \in Slots
    BY <1>1, Position
  <1> HIDE DEF t
  <1>3. /\ Ring(s, k) \in Seq(Slots) /\ Len(Ring(s, k)) = k
        /\ \A i \in 1 .. k : Ring(s, k)[i] = Pos(s, i - 1)
        /\ Ring(t, k - 1) \in Seq(Slots) /\ Len(Ring(t, k - 1)) = k - 1
        /\ \A i \in 1 .. k - 1 : Ring(t, k - 1)[i] = Pos(t, i - 1)
    BY <1>1, <1>2, RingIs
  <1>4. Ring(s, k) # <<>>
    BY <1>1, <1>3
  <1>5. /\ Tail(Ring(s, k)) \in Seq(Slots) /\ Len(Tail(Ring(s, k))) = k - 1
        /\ \A i \in 1 .. k - 1 : Tail(Ring(s, k))[i] = Ring(s, k)[i + 1]
    BY <1>1, <1>3, <1>4, HeadTailProperties
  <1>6. ASSUME NEW i \in 1 .. k - 1
        PROVE  Pos(s, (i + 1) - 1) = Pos(t, i - 1) /\ i + 1 \in 1 .. k
    BY <1>1, <1>2 DEF Pos, Slots
  <1>7. \A i \in 1 .. k - 1 : Tail(Ring(s, k))[i] = Ring(t, k - 1)[i]
    BY <1>3, <1>5, <1>6
  <1>8. Tail(Ring(s, k)) = Ring(t, k - 1)
    BY <1>3, <1>5, <1>7, SeqEqual
  <1>9. Head(Ring(s, k)) = Ring(s, k)[1] /\ Pos(s, 1 - 1) = s /\ 1 \in 1 .. k
    BY <1>1, <1>3, <1>4 DEF Pos
  <1> QED
    BY <1>3, <1>4, <1>8, <1>9 DEF t

LEMMA RingAppend ==
    ASSUME NEW s \in Slots, NEW k \in 0 .. MaxCount - 1
    PROVE  Append(Ring(s, k), (s + k) % MaxCount) = Ring(s, k + 1)
  <1> DEFINE x == (s + k) % MaxCount
  <1>1. MaxCount \in Nat /\ k \in Nat /\ k \in 0 .. MaxCount /\ k + 1 \in 0 .. MaxCount
    BY CommQueAssumption DEF CommQueAssumption
  <1>2. x = Pos(s, k) /\ x \in Slots
    BY <1>1, Position
  <1> HIDE DEF x
  <1>3. /\ Ring(s, k) \in Seq(Slots) /\ Len(Ring(s, k)) = k
        /\ \A i \in 1 .. k : Ring(s, k)[i] = Pos(s, i - 1)
        /\ Ring(s, k + 1) \in Seq(Slots) /\ Len(Ring(s, k + 1)) = k + 1
        /\ \A i \in 1 .. k + 1 : Ring(s, k + 1)[i] = Pos(s, i - 1)
    BY <1>1, RingIs
  <1>4. /\ Append(Ring(s, k), x) \in Seq(Slots) /\ Len(Append(Ring(s, k), x)) = k + 1
        /\ \A i \in 1 .. k : Append(Ring(s, k), x)[i] = Ring(s, k)[i]
        /\ Append(Ring(s, k), x)[k + 1] = x
    BY <1>2, <1>3, AppendProperties
  <1>5. ASSUME NEW i \in 1 .. k + 1
        PROVE  Append(Ring(s, k), x)[i] = Ring(s, k + 1)[i]
    <2>1. CASE i = k + 1
      <3>1. i - 1 = k
        BY <1>1, <2>1
      <3> QED
        BY <1>2, <1>3, <1>4, <2>1, <3>1
    <2>2. CASE i # k + 1
      <3>1. i \in 1 .. k
        BY <1>1, <2>2
      <3> QED
        BY <1>3, <1>4, <3>1
    <2> QED
      BY <2>1, <2>2
  <1> QED
    BY <1>3, <1>4, <1>5, SeqEqual DEF x

LEMMA RingPrepend ==
    ASSUME NEW s \in Slots, NEW k \in 0 .. MaxCount - 1
    PROVE  <<(s + MaxCount - 1) % MaxCount>> \o Ring(s, k) = Ring((s + MaxCount - 1) % MaxCount, k + 1)
  <1> DEFINE t == (s + MaxCount - 1) % MaxCount
  <1>1. MaxCount \in Nat \ {0} /\ k \in Nat /\ k \in 0 .. MaxCount /\ k + 1 \in 0 .. MaxCount
        /\ s \in 0 .. MaxCount - 1
    BY CommQueAssumption DEF Slots, CommQueAssumption
  <1>2. t = (IF s = 0 THEN MaxCount - 1 ELSE s - 1) /\ t \in Slots
    BY <1>1 DEF Slots
  <1> HIDE DEF t
  <1>3. /\ Ring(s, k) \in Seq(Slots) /\ Len(Ring(s, k)) = k
        /\ \A i \in 1 .. k : Ring(s, k)[i] = Pos(s, i - 1)
        /\ Ring(t, k + 1) \in Seq(Slots) /\ Len(Ring(t, k + 1)) = k + 1
        /\ \A i \in 1 .. k + 1 : Ring(t, k + 1)[i] = Pos(t, i - 1)
    BY <1>1, <1>2, RingIs
  <1>4. <<t>> \in Seq(Slots) /\ Len(<<t>>) = 1 /\ <<t>>[1] = t
    BY <1>2
  <1>5. /\ <<t>> \o Ring(s, k) \in Seq(Slots) /\ Len(<<t>> \o Ring(s, k)) = 1 + k
        /\ \A i \in 1 .. 1 + k : (<<t>> \o Ring(s, k))[i] = IF i <= 1 THEN <<t>>[i] ELSE Ring(s, k)[i - 1]
    BY <1>3, <1>4, ConcatProperties
  <1>6. 1 + k = k + 1 /\ 1 .. 1 + k = 1 .. k + 1
    BY <1>1
  <1>7. ASSUME NEW i \in 1 .. k + 1
        PROVE  (<<t>> \o Ring(s, k))[i] = Ring(t, k + 1)[i]
    <2>1. CASE i = 1
      <3>1. Pos(t, i - 1) = t
        BY <1>1, <1>2, <2>1 DEF Pos, Slots
      <3> QED
        BY <1>3, <1>4, <1>5, <1>6, <2>1, <3>1
    <2>2. CASE i # 1
      <3>1. i - 1 \in 1 .. k /\ ~(i <= 1)
        BY <1>1, <2>2
      <3>2. Pos(s, (i - 1) - 1) = Pos(t, i - 1)
        BY <1>1, <1>2, <3>1 DEF Pos, Slots
      <3> QED
        BY <1>3, <1>5, <1>6, <3>1, <3>2
    <2> QED
      BY <2>1, <2>2
  <1>8. <<t>> \o Ring(s, k) = Ring(t, k + 1)
    BY <1>3, <1>5, <1>6, <1>7, SeqEqual
  <1> QED
    BY <1>8 DEF t

(* Where a Put finds its slot, in terms of the two queues.                  *)
LEMMA LastFull ==
    ASSUME NEW r \in Slots, NEW w \in Slots, NEW k \in Nat, k < MaxCount, Between(r, w, k + 1)
    PROVE  (w + MaxCount - 1) % MaxCount = (r + k) % MaxCount
  <1>1. (r + k) % MaxCount = Pos(r, k)
    BY Position, CommQueAssumption DEF CommQueAssumption
  <1>2. (w + MaxCount - 1) % MaxCount = IF w = 0 THEN MaxCount - 1 ELSE w - 1
    BY CommQueAssumption DEF Slots, CommQueAssumption
  <1> QED
    BY <1>1, <1>2, CommQueAssumption DEF Between, Pos, Slots, CommQueAssumption

LEMMA LastEmpty ==
    ASSUME NEW r \in Slots, NEW w \in Slots, NEW k \in Nat, NEW e \in Nat,
           k + e + 1 = MaxCount, Between(r, w, k)
    PROVE  (r + MaxCount - 1) % MaxCount = (w + e) % MaxCount
  <1>1. (w + e) % MaxCount = Pos(w, e)
    BY Position, CommQueAssumption DEF CommQueAssumption
  <1>2. (r + MaxCount - 1) % MaxCount = IF r = 0 THEN MaxCount - 1 ELSE r - 1
    BY CommQueAssumption DEF Slots, CommQueAssumption
  <1> QED
    BY <1>1, <1>2, CommQueAssumption DEF Between, Pos, Slots, CommQueAssumption

(* The pool's variables. *)
EmptyQ == Ring(write, emptyCount)
FullQ == Ring(read, fullCount)
Filling == [t \in Threads |-> SlotsOf(t, HeldEmpty)]
Consuming == [t \in Threads |-> SlotsOf(t, HeldFull)]

LEMMA HoldersAre ==
    ASSUME NEW t \in Threads
    PROVE  /\ Filling[t] = IF pc[t] = "holdEmpty" THEN {slot[t]} ELSE {}
           /\ Consuming[t] = IF pc[t] = "holdFull" THEN {slot[t]} ELSE {}
           /\ Filling'[t] = IF pc'[t] = "holdEmpty" THEN {slot'[t]} ELSE {}
           /\ Consuming'[t] = IF pc'[t] = "holdFull" THEN {slot'[t]} ELSE {}
  BY DEF Filling, Consuming, SlotsOf, HeldEmpty, HeldFull, At

LEMMA HoldersChange ==
    ASSUME NEW t \in Threads,
           \A u \in Threads \ {t} : \A y \in {"holdEmpty", "holdFull"} :
              /\ pc'[u] = y <=> pc[u] = y
              /\ pc[u] = y => slot'[u] = slot[u]
    PROVE  /\ Filling' = [Filling EXCEPT ![t] = IF pc'[t] = "holdEmpty" THEN {slot'[t]} ELSE {}]
           /\ Consuming' = [Consuming EXCEPT ![t] = IF pc'[t] = "holdFull" THEN {slot'[t]} ELSE {}]
  <1>1. /\ Filling = [u \in Threads |-> Filling[u]] /\ Filling' = [u \in Threads |-> Filling'[u]]
        /\ Consuming = [u \in Threads |-> Consuming[u]] /\ Consuming' = [u \in Threads |-> Consuming'[u]]
    BY DEF Filling, Consuming
  <1>2. \A u \in Threads \ {t} : Filling'[u] = Filling[u] /\ Consuming'[u] = Consuming[u]
    <2>1. TAKE u \in Threads \ {t}
    <2> QED
      BY HoldersAre
  <1>3. /\ Filling'[t] = IF pc'[t] = "holdEmpty" THEN {slot'[t]} ELSE {}
        /\ Consuming'[t] = IF pc'[t] = "holdFull" THEN {slot'[t]} ELSE {}
    BY HoldersAre
  <1> QED
    BY <1>1, <1>2, <1>3

LEMMA PoolStutters ==
    ASSUME que' = que,
           \A u \in Threads : \A y \in {"holdEmpty", "holdFull"} :
              /\ pc'[u] = y <=> pc[u] = y
              /\ pc[u] = y => slot'[u] = slot[u]
    PROVE  UNCHANGED Pool!poolVars
  <1>1. \A u \in Threads : Filling'[u] = Filling[u] /\ Consuming'[u] = Consuming[u]
    <2>1. TAKE u \in Threads
    <2> QED
      BY HoldersAre
  <1>2. Filling' = Filling /\ Consuming' = Consuming
    BY <1>1 DEF Filling, Consuming
  <1>3. EmptyQ' = EmptyQ /\ FullQ' = FullQ
    BY DEF EmptyQ, FullQ, Ring, que
  <1> QED
    BY <1>2, <1>3 DEF Pool!poolVars, EmptyQ, FullQ, Ring, Filling, Consuming
-----------------------------------------------------------------------------
(* The Gets take the head of their queue.                                   *)
LEMMA TakeEmptyRefines ==
    ASSUME IInv, NEW t \in Threads, TakeEmpty(t), pc[t] \in {"idle", "wokenEmpty"}
    PROVE  Pool!PoolGetEmpty(t)
  <1>1. /\ emptyCount \in 1 .. MaxCount /\ write \in Slots
        /\ write' = (write + 1) % MaxCount /\ emptyCount' = emptyCount - 1
        /\ read' = read /\ fullCount' = fullCount
    BY Counts DEF TakeEmpty
  <1>2. EmptyQ # <<>> /\ Head(EmptyQ) = write /\ EmptyQ' = Tail(EmptyQ)
    BY <1>1, RingTail DEF EmptyQ
  <1>3. /\ slot' = [slot EXCEPT ![t] = write] /\ pc' = [pc EXCEPT ![t] = "holdEmpty"]
        /\ slot'[t] = write /\ pc'[t] = "holdEmpty"
    BY DEF TakeEmpty, IInv, TypeOK
  <1>4. /\ Filling' = [Filling EXCEPT ![t] = {write}]
        /\ Consuming' = [Consuming EXCEPT ![t] = {}]
    <2>1. \A u \in Threads \ {t} : pc'[u] = pc[u] /\ slot'[u] = slot[u]
      BY <1>3 DEF IInv, TypeOK
    <2> QED
      BY <1>3, <2>1, HoldersChange
  <1>5. Filling[t] = {} /\ Consuming[t] = {}
    BY HoldersAre
  <1>6. Consuming' = Consuming
    BY <1>4, <1>5 DEF Consuming
  <1>7. FullQ' = FullQ
    BY <1>1 DEF FullQ, Ring
  <1> QED
    BY <1>2, <1>4, <1>5, <1>6, <1>7 DEF Pool!PoolGetEmpty, EmptyQ, FullQ, Ring, Filling, Consuming

LEMMA TakeFullRefines ==
    ASSUME IInv, NEW t \in Threads, TakeFull(t), pc[t] \in {"idle", "wokenFull"}
    PROVE  Pool!PoolGetFull(t)
  <1>1. /\ fullCount \in 1 .. MaxCount /\ read \in Slots
        /\ read' = (read + 1) % MaxCount /\ fullCount' = fullCount - 1
        /\ write' = write /\ emptyCount' = emptyCount
    BY Counts DEF TakeFull
  <1>2. FullQ # <<>> /\ Head(FullQ) = read /\ FullQ' = Tail(FullQ)
    BY <1>1, RingTail DEF FullQ
  <1>3. /\ slot' = [slot EXCEPT ![t] = read] /\ pc' = [pc EXCEPT ![t] = "holdFull"]
        /\ slot'[t] = read /\ pc'[t] = "holdFull"
    BY DEF TakeFull, IInv, TypeOK
  <1>4. /\ Filling' = [Filling EXCEPT ![t] = {}]
        /\ Consuming' = [Consuming EXCEPT ![t] = {read}]
    <2>1. \A u \in Threads \ {t} : pc'[u] = pc[u] /\ slot'[u] = slot[u]
      BY <1>3 DEF IInv, TypeOK
    <2> QED
      BY <1>3, <2>1, HoldersChange
  <1>5. Filling[t] = {} /\ Consuming[t] = {}
    BY HoldersAre
  <1>6. Filling' = Filling
    BY <1>4, <1>5 DEF Filling
  <1>7. EmptyQ' = EmptyQ
    BY <1>1 DEF EmptyQ, Ring
  <1> QED
    BY <1>2, <1>4, <1>5, <1>6, <1>7 DEF Pool!PoolGetFull, EmptyQ, FullQ, Ring, Filling, Consuming

(* A thread that gives its slot back holds none, and the others keep theirs.*)
LEMMA GiveBackHolders ==
    ASSUME IInv, NEW t \in Threads, pc[t] \in {"holdEmpty", "holdFull"},
           NEW waiting, NEW woken,
           <<waiting, woken>> \in {<<"waitFull", "wokenFull">>, <<"waitEmpty", "wokenEmpty">>},
           GiveBack(t, waiting, woken)
    PROVE  /\ Filling' = [Filling EXCEPT ![t] = {}]
           /\ Consuming' = [Consuming EXCEPT ![t] = {}]
           /\ pc[t] = "holdEmpty" => Filling[t] = {slot[t]} /\ Consuming' = Consuming
           /\ pc[t] = "holdFull" => Consuming[t] = {slot[t]} /\ Filling' = Filling
  <1>1. \A u \in Threads : \A y \in {"holdEmpty", "holdFull", "peek"} :
            pc'[u] = y <=> u # t /\ pc[u] = y
    BY SignalCounts DEF GiveBack, IInv
  <1>2. \A u \in Threads \ {t} : slot'[u] = slot[u]
    BY DEF GiveBack, IInv, TypeOK
  <1>3. /\ Filling' = [Filling EXCEPT ![t] = {}]
        /\ Consuming' = [Consuming EXCEPT ![t] = {}]
    <2>1. pc'[t] \notin {"holdEmpty", "holdFull"}
      BY <1>1
    <2> QED
      BY <1>1, <1>2, <2>1, HoldersChange
  <1>4. /\ Filling[t] = IF pc[t] = "holdEmpty" THEN {slot[t]} ELSE {}
        /\ Consuming[t] = IF pc[t] = "holdFull" THEN {slot[t]} ELSE {}
    BY HoldersAre
  <1> QED
    BY <1>3, <1>4 DEF Filling, Consuming

(* The Puts give the very slot back that was taken: PutFull and PutEmpty at *)
(* the end, the Front variants at the front.                               *)
LEMMA PutsRefine ==
    ASSUME NEW p, NEW c, Producers = {p}, Consumers = {c}, p # c, IInv, Roles, Window(p, c)
    PROVE  /\ PutFull(p) => Pool!PoolPutFull(p)
           /\ PutEmpty(c) => Pool!PoolPutEmpty(c)
           /\ pc[p] = "holdEmpty" /\ PutEmptyFront(p) => Pool!PoolPutEmptyFront(p)
           /\ pc[c] = "holdFull" /\ PutFullFront(c) => Pool!PoolPutFullFront(c)
  <1>1. p \in Threads /\ c \in Threads /\ \A t \in Threads : t = p \/ t = c
    BY DEF Threads
  <1>2. pc[p] \in ProducerPlaces /\ pc[c] \in ConsumerPlaces
    BY DEF Roles
  <1>3. pc[p] = "holdEmpty" => Cardinality(HeldEmpty) = 1
    <2>1. pc[p] = "holdEmpty" => HeldEmpty = {p}
      BY <1>1, <1>2 DEF HeldEmpty, At, ConsumerPlaces
    <2> QED
      BY <2>1, FS_Singleton
  <1>4. pc[c] = "holdFull" => Cardinality(HeldFull) = 1
    <2>1. pc[c] = "holdFull" => HeldFull = {c}
      BY <1>1, <1>2 DEF HeldFull, At, ProducerPlaces
    <2> QED
      BY <2>1, FS_Singleton
  <1>5. ASSUME PutFull(p) PROVE Pool!PoolPutFull(p)
    <2>1. /\ pc[p] = "holdEmpty" /\ GiveBack(p, "waitFull", "wokenFull")
          /\ fullCount' = fullCount + 1 /\ UNCHANGED <<write, read, emptyCount>>
      BY <1>5 DEF PutFull
    <2>2. fullCount \in 0 .. MaxCount - 1 /\ fullCount < MaxCount
          /\ Between(read, write, fullCount + 1) /\ slot[p] = (write + MaxCount - 1) % MaxCount
      BY <1>3, <2>1, Counts DEF Window
    <2>3. slot[p] = (read + fullCount) % MaxCount
      BY <2>2, Counts, LastFull
    <2>4. FullQ' = Append(FullQ, slot[p])
      BY <2>1, <2>2, <2>3, Counts, RingAppend DEF FullQ
    <2>5. EmptyQ' = EmptyQ
      BY <2>1 DEF EmptyQ, Ring
    <2>6. /\ Filling[p] = {slot[p]} /\ Filling' = [Filling EXCEPT ![p] = {}]
          /\ Consuming' = Consuming
      BY <1>1, <2>1, GiveBackHolders
    <2> QED
      BY <2>4, <2>5, <2>6 DEF Pool!PoolPutFull, EmptyQ, FullQ, Ring, Filling, Consuming
  <1>6. ASSUME PutEmpty(c) PROVE Pool!PoolPutEmpty(c)
    <2>1. /\ pc[c] = "holdFull" /\ GiveBack(c, "waitEmpty", "wokenEmpty")
          /\ emptyCount' = emptyCount + 1 /\ UNCHANGED <<write, read, fullCount>>
      BY <1>6 DEF PutEmpty
    <2> DEFINE k == fullCount + Cardinality(HeldEmpty)
    <2>2. /\ emptyCount \in 0 .. MaxCount - 1 /\ k \in Nat /\ emptyCount \in Nat
          /\ Between(read, write, k) /\ k + emptyCount + 1 = MaxCount
          /\ slot[c] = (read + MaxCount - 1) % MaxCount
      BY <1>4, <2>1, Counts DEF Window
    <2> HIDE DEF k
    <2>3. slot[c] = (write + emptyCount) % MaxCount
      BY <2>2, Counts, LastEmpty
    <2>4. EmptyQ' = Append(EmptyQ, slot[c])
      BY <2>1, <2>2, <2>3, Counts, RingAppend DEF EmptyQ
    <2>5. FullQ' = FullQ
      BY <2>1 DEF FullQ, Ring
    <2>6. /\ Consuming[c] = {slot[c]} /\ Consuming' = [Consuming EXCEPT ![c] = {}]
          /\ Filling' = Filling
      BY <1>1, <2>1, GiveBackHolders
    <2> QED
      BY <2>4, <2>5, <2>6 DEF Pool!PoolPutEmpty, EmptyQ, FullQ, Ring, Filling, Consuming
  <1>7. ASSUME pc[p] = "holdEmpty", PutEmptyFront(p) PROVE Pool!PoolPutEmptyFront(p)
    <2>1. /\ GiveBack(p, "waitEmpty", "wokenEmpty")
          /\ write' = (write + MaxCount - 1) % MaxCount
          /\ emptyCount' = emptyCount + 1 /\ emptyCount < MaxCount /\ UNCHANGED <<read, fullCount>>
      BY <1>7 DEF PutEmptyFront
    <2>2. emptyCount \in 0 .. MaxCount - 1 /\ slot[p] = write'
      BY <1>7, <2>1, Counts DEF Window
    <2>3. EmptyQ' = <<slot[p]>> \o EmptyQ
      BY <2>1, <2>2, Counts, RingPrepend DEF EmptyQ
    <2>4. FullQ' = FullQ
      BY <2>1 DEF FullQ, Ring
    <2>5. /\ Filling[p] = {slot[p]} /\ Filling' = [Filling EXCEPT ![p] = {}]
          /\ Consuming' = Consuming
      BY <1>1, <1>7, <2>1, GiveBackHolders
    <2> QED
      BY <2>3, <2>4, <2>5 DEF Pool!PoolPutEmptyFront, EmptyQ, FullQ, Ring, Filling, Consuming
  <1>8. ASSUME pc[c] = "holdFull", PutFullFront(c) PROVE Pool!PoolPutFullFront(c)
    <2>1. /\ GiveBack(c, "waitFull", "wokenFull")
          /\ read' = (read + MaxCount - 1) % MaxCount
          /\ fullCount' = fullCount + 1 /\ fullCount < MaxCount /\ UNCHANGED <<write, emptyCount>>
      BY <1>8 DEF PutFullFront
    <2>2. fullCount \in 0 .. MaxCount - 1 /\ slot[c] = read'
      BY <1>8, <2>1, Counts DEF Window
    <2>3. FullQ' = <<slot[c]>> \o FullQ
      BY <2>1, <2>2, Counts, RingPrepend DEF FullQ
    <2>4. EmptyQ' = EmptyQ
      BY <2>1 DEF EmptyQ, Ring
    <2>5. /\ Consuming[c] = {slot[c]} /\ Consuming' = [Consuming EXCEPT ![c] = {}]
          /\ Filling' = Filling
      BY <1>1, <1>8, <2>1, GiveBackHolders
    <2> QED
      BY <2>3, <2>4, <2>5 DEF Pool!PoolPutFullFront, EmptyQ, FullQ, Ring, Filling, Consuming
  <1> QED
    BY <1>5, <1>6, <1>7, <1>8

(* A ring with no slot out is, after Clear, the pool as it was created.      *)
LEMMA FreshRing == Ring(0, MaxCount) = Pool!AllEmpty /\ Ring(0, 0) = <<>> /\ \A s : Ring(s, 0) = <<>>
  <1>1. MaxCount \in Nat \ {0} /\ 1 .. 0 = {}
    BY CommQueAssumption DEF CommQueAssumption
  <1>2. \A i \in 1 .. MaxCount : (0 + i - 1) % MaxCount = i - 1
    BY <1>1
  <1> QED
    BY <1>1, <1>2 DEF Ring, Pool!AllEmpty

LEMMA ClearRefines ==
    ASSUME IInv, NoSlotOut, Clear
    PROVE  Pool!PoolClear
  <1>1. \A t \in Threads : pc[t] \notin {"holdEmpty", "holdFull"} /\ pc'[t] \notin {"holdEmpty", "holdFull"}
    BY DEF IInv, SlotsOut, NoSlotOut, Clear, Broadcast
  <1>2. \A t \in Threads : /\ Filling[t] = {} /\ Consuming[t] = {}
                           /\ Filling'[t] = {} /\ Consuming'[t] = {}
    BY <1>1, HoldersAre
  <1>3. Filling' = Filling /\ Consuming' = Consuming
    BY <1>2 DEF Filling, Consuming
  <1>4. EmptyQ' = Pool!AllEmpty /\ FullQ' = <<>>
    BY FreshRing DEF Clear, EmptyQ, FullQ, Ring
  <1> QED
    BY <1>2, <1>3, <1>4 DEF Pool!PoolClear, EmptyQ, FullQ, Ring, Filling, Consuming

LEMMA StepRefines ==
    ASSUME NEW p, NEW c, Producers = {p}, Consumers = {c}, p # c,
           IInv, Roles, Window(p, c), [Next]_vars
    PROVE  [Pool!PoolNext]_(Pool!poolVars)
  <1>1. /\ p \in Threads /\ c \in Threads /\ \A t \in Threads : t = p \/ t = c
        /\ pc \in [Threads -> PcValues] /\ slot \in [Threads -> Slots \cup {NoSlot}]
        /\ pc[p] \in ProducerPlaces /\ pc[c] \in ConsumerPlaces
    BY DEF Threads, IInv, TypeOK, Roles
  <1>2. ASSUME NEW t \in Threads, NEW where \in {"waitEmpty", "waitFull"}, NEW hasDeadline,
               Block(t, where, hasDeadline), pc[t] \notin {"holdEmpty", "holdFull"}
        PROVE  UNCHANGED Pool!poolVars
    BY <1>1, <1>2, PoolStutters DEF Block
  <1>3. ASSUME NEW t \in Threads, ReturnNull(t), pc[t] \notin {"holdEmpty", "holdFull"}
        PROVE  UNCHANGED Pool!poolVars
    BY <1>1, <1>3, PoolStutters DEF ReturnNull
  <1>4. CASE GetEmpty(p) \/ ResumeEmpty(p)
    <2>1. /\ pc[p] \in {"idle", "wokenEmpty"}
          /\ \/ TakeEmpty(p) \/ ReturnNull(p)
             \/ \E hasDeadline \in BOOLEAN : Block(p, "waitEmpty", hasDeadline)
             \/ Block(p, "waitEmpty", p \in timed)
      BY <1>4 DEF GetEmpty, ResumeEmpty
    <2> QED
      BY <1>1, <1>2, <1>3, <2>1, TakeEmptyRefines DEF Pool!PoolNext
  <1>5. CASE GetFull(c) \/ ResumeFull(c)
    <2>1. /\ pc[c] \in {"idle", "wokenFull"}
          /\ \/ TakeFull(c) \/ ReturnNull(c)
             \/ \E hasDeadline \in BOOLEAN : Block(c, "waitFull", hasDeadline)
             \/ Block(c, "waitFull", c \in timed)
      BY <1>5 DEF GetFull, ResumeFull
    <2> QED
      BY <1>1, <1>2, <1>3, <2>1, TakeFullRefines DEF Pool!PoolNext
  <1>6. CASE PutFull(p) \/ PutEmpty(c)
    BY <1>1, <1>6, PutsRefine DEF Pool!PoolNext
  <1>7. CASE UndoNext
    <2>1. HeldEmpty \subseteq {p} /\ HeldFull \subseteq {c}
      BY <1>1 DEF HeldEmpty, HeldFull, At, ProducerPlaces, ConsumerPlaces
    <2>2. (pc[p] = "holdEmpty" /\ PutEmptyFront(p)) \/ (pc[c] = "holdFull" /\ PutFullFront(c))
      BY <1>7, <2>1 DEF UndoNext, HeldEmpty, HeldFull, At
    <2> QED
      BY <1>1, <2>2, PutsRefine DEF Pool!PoolNext
  <1>8. CASE NoSlotOut /\ Clear
    BY <1>8, ClearRefines DEF Pool!PoolNext
  <1>9. ASSUME NEW t \in Threads, WaitTimesOut(t) \/ SpuriousWakeup(t) \/ PeekDone(t) \/ PeekFull(t)
        PROVE  UNCHANGED Pool!poolVars
    <2>1. CASE WaitTimesOut(t)
      BY <1>3, <2>1 DEF WaitTimesOut
    <2>2. CASE SpuriousWakeup(t)
      BY <1>1, <2>2, PoolStutters DEF SpuriousWakeup
    <2>3. CASE PeekDone(t)
      BY <1>1, <2>3, PoolStutters DEF PeekDone
    <2>4. CASE PeekFull(t)
      BY <1>1, <2>4, PoolStutters DEF PeekFull
    <2> QED
      BY <1>9, <2>1, <2>2, <2>3, <2>4
  <1>10. CASE DeleteMark
    BY <1>10, PoolStutters DEF DeleteMark, Broadcast
  <1>11. CASE DeleteFree \/ UNCHANGED vars
    BY <1>11, PoolStutters DEF DeleteFree, vars, que
  <1>12. CASE GetPutNext
    BY <1>1, <1>4, <1>5, <1>6, <1>8, <1>9, <1>10, <1>11, <1>12 DEF GetPutNext
  <1> QED
    BY <1>7, <1>11, <1>12 DEF Next

(* With one producer and one consumer CommQue implements the pool of two    *)
(* slot queues, for every number of slots: GetEmpty and GetFull take the    *)
(* first slot, and every Put enqueues the slot it is given although it      *)
(* looks only at the cursors.                                              *)
THEOREM RefinesSlotPool ==
    ASSUME NEW CONSTANT p, NEW CONSTANT c, Producers = {p}, Consumers = {c}
    PROVE  Spec => ImplementsSlotPool
  <1> DEFINE J == IInv /\ Roles /\ Window(p, c)
  <1>1. p # c
    BY CommQueAssumption DEF CommQueAssumption
  <1>2. Init => J /\ Pool!PoolInit
    <2> SUFFICES ASSUME Init PROVE J /\ Pool!PoolInit
      OBVIOUS
    <2>1. J
      BY InitIInv DEF Init, Roles, Window, Threads, ProducerPlaces, ConsumerPlaces
    <2>2. EmptyQ = Pool!AllEmpty /\ FullQ = <<>>
      BY FreshRing DEF Init, EmptyQ, FullQ
    <2>3. Filling = [t \in Threads |-> {}] /\ Consuming = [t \in Threads |-> {}]
      BY DEF Init, Filling, Consuming, SlotsOf, HeldEmpty, HeldFull, At
    <2> QED
      BY <2>1, <2>2, <2>3 DEF Pool!PoolInit, EmptyQ, FullQ, Ring, Filling, Consuming
  <1>3. J /\ [Next]_vars => J'
    BY <1>1, NextIInv, RolesNext, WindowNext
  <1>4. J /\ [Next]_vars => [Pool!PoolNext]_(Pool!poolVars)
    BY <1>1, StepRefines
  <1> QED
    BY <1>2, <1>3, <1>4, PTL DEF Spec, ImplementsSlotPool, Pool!PoolSpec
=============================================================================
