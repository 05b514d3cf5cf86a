------------------------ MODULE BlockingQueues_proofs ------------------------
(***************************************************************************)
(* Proofs about the two queues whose calls block on a condition variable:  *)
(* RingBuffer, for every number of readers and writers, every capacity,    *)
(* size of a transfer and set of values, and ThreadSafeQueue, for every    *)
(* set of threads and of blocks.                                           *)
(***************************************************************************)
EXTENDS RingBuffer, ThreadSafeQueue, SequenceTheorems, FiniteSetTheorems, TLAPS

(* Only readers and writers wait for their side of the ring, and a thread   *)
(* that waits remembers what it is to do.                                  *)
Calls ==
    \A t \in Threads :
        /\ pc[t] \in {"waitRead", "wokenRead"} => t \in Readers /\ call[t] \in ReadCalls
        /\ pc[t] \in {"waitWrite", "wokenWrite"} => t \in Writers /\ call[t] \in WriteCalls
        /\ pc[t] = "advance" => call[t] \in DirectCalls

IInv == TypeOK /\ Calls

(* At most one thread on each side. *)
Single == (\A t, u \in Writers : t = u) /\ (\A t, u \in Readers : t = u)
-----------------------------------------------------------------------------
(***************************************************************************)
(* The arithmetic of the ring.                                             *)
(***************************************************************************)
LEMMA Remainders ==
    ASSUME NEW c \in Nat \ {0}
    PROVE  /\ \A n \in 0 .. c - 1 : n % c = n /\ (n + c) % c = n
           /\ \A n \in Nat : n % c \in 0 .. c - 1
  OBVIOUS

Wrap(n, c) == IF n < c THEN n ELSE n - c

(* The cell k cells behind a in a ring of c. *)
Plus(a, k, c) == (a + k) % c

LEMMA Around ==
    ASSUME NEW c \in Nat \ {0}, NEW n \in 0 .. c + c - 1
    PROVE  n % c = Wrap(n, c)
  <1>1. CASE n < c
    BY <1>1, Remainders DEF Wrap
  <1>2. CASE n >= c
    <2>1. n - c \in 0 .. c - 1 /\ (n - c) + c = n
      BY <1>2
    <2>2. ((n - c) + c) % c = n - c
      BY <2>1, Remainders
    <2> QED
      BY <1>2, <2>1, <2>2 DEF Wrap
  <1> QED
    BY <1>1, <1>2

LEMMA PlusIs ==
    ASSUME NEW c \in Nat \ {0}, NEW a \in 0 .. c - 1, NEW k \in 0 .. c
    PROVE  Plus(a, k, c) = Wrap(a + k, c) /\ Plus(a, k, c) \in 0 .. c - 1
  <1>1. a + k \in 0 .. c + c - 1
    OBVIOUS
  <1>2. Plus(a, k, c) = Wrap(a + k, c)
    BY <1>1, Around DEF Plus
  <1>3. Wrap(a + k, c) \in 0 .. c - 1
    BY DEF Wrap
  <1> QED
    BY <1>2, <1>3

LEMMA FromZero ==
    ASSUME NEW c \in Nat \ {0}, NEW n \in Nat, n < c, NEW k \in 0 .. n
    PROVE  Plus(0, k, c) = k
  <1>1. k \in 0 .. c /\ 0 \in 0 .. c - 1 /\ Wrap(0 + k, c) = k
    BY DEF Wrap
  <1> QED
    BY <1>1, PlusIs

LEMMA PlusTwice ==
    ASSUME NEW c \in Nat \ {0}, NEW a \in 0 .. c - 1, NEW k \in 0 .. c, NEW j \in 0 .. c - k
    PROVE  Plus(Plus(a, k, c), j, c) = Plus(a, k + j, c)
  <1>1. k + j \in 0 .. c /\ j \in 0 .. c
    OBVIOUS
  <1>2. /\ Wrap(a + k, c) \in 0 .. c - 1
        /\ Wrap(Wrap(a + k, c) + j, c) = Wrap(a + (k + j), c)
    BY DEF Wrap
  <1>3. Plus(a, k, c) = Wrap(a + k, c) /\ Plus(a, k + j, c) = Wrap(a + (k + j), c)
    BY <1>1, PlusIs
  <1>4. Plus(Wrap(a + k, c), j, c) = Wrap(Wrap(a + k, c) + j, c)
    BY <1>1, <1>2, PlusIs
  <1> QED
    BY <1>2, <1>3, <1>4

LEMMA CapacityFits ==
    ASSUME NEW c \in InitCapacity .. MaxCapacity
    PROVE  /\ c \in Nat \ {0} /\ c <= MaxCapacity /\ MaxCapacity \in Nat
           /\ 0 .. c - 1 \subseteq Cells
  BY RingBufferAssumption DEF RingBufferAssumption, Cells

LEMMA CapacityIs ==
    ASSUME TypeOK
    PROVE  /\ capacity \in Nat \ {0} /\ MaxCapacity \in Nat /\ capacity <= MaxCapacity
           /\ r \in 0 .. capacity - 1 /\ w \in 0 .. capacity - 1
           /\ 0 .. capacity - 1 \subseteq Cells
  BY CapacityFits DEF TypeOK

LEMMA SizeIs ==
    ASSUME TypeOK
    PROVE  /\ Size \in 0 .. capacity /\ FreeSize \in 0 .. capacity
           /\ Size + FreeSize = capacity
           /\ Size = 0 <=> IsEmpty
           /\ full <=> Size = capacity
  BY CapacityIs DEF Size, FreeSize, IsEmpty, TypeOK

(* The i-th unit of the contents lies in cell Nth(i - 1). *)
Nth(j) == Plus(r, j, capacity)

LEMMA NthIs ==
    ASSUME TypeOK
    PROVE  /\ \A j \in 0 .. capacity : Nth(j) \in 0 .. capacity - 1
           /\ \A i, j \in 0 .. capacity - 1 : Nth(i) = Nth(j) => i = j
  <1>1. \A j \in 0 .. capacity : Nth(j) = Wrap(r + j, capacity) /\ Nth(j) \in 0 .. capacity - 1
    BY CapacityIs, PlusIs DEF Nth
  <1>2. ASSUME NEW i \in 0 .. capacity - 1, NEW j \in 0 .. capacity - 1, Nth(i) = Nth(j)
        PROVE  i = j
    <2>1. i \in 0 .. capacity /\ j \in 0 .. capacity
      BY CapacityIs
    <2>2. Wrap(r + i, capacity) = Wrap(r + j, capacity)
      BY <1>1, <1>2, <2>1
    <2> QED
      BY <2>2, CapacityIs DEF Wrap
  <1> QED
    BY <1>1, <1>2

LEMMA ContentsAre ==
    ASSUME TypeOK
    PROVE  /\ Contents \in Seq(Values \cup {Junk}) /\ Len(Contents) = Size
           /\ \A i \in 1 .. Size : Contents[i] = data[Nth(i - 1)]
  <1>1. ASSUME NEW i \in 1 .. Size
        PROVE  (r + i - 1) % capacity = Nth(i - 1) /\ Nth(i - 1) \in 0 .. capacity - 1
    <2>1. r + i - 1 = r + (i - 1) /\ i - 1 \in 0 .. capacity
      BY SizeIs, CapacityIs
    <2> QED
      BY <2>1, NthIs DEF Nth, Plus
  <1>2. \A i \in 1 .. Size : data[Nth(i - 1)] \in Values \cup {Junk}
    BY <1>1, CapacityIs DEF TypeOK
  <1>3. Contents = [i \in 1 .. Size |-> data[Nth(i - 1)]]
    BY <1>1 DEF Contents
  <1>4. Size \in Nat
    BY SizeIs, CapacityIs
  <1> QED
    BY <1>2, <1>3, <1>4

LEMMA PayloadIs ==
    ASSUME NEW units \in Payloads
    PROVE  /\ units \in Seq(Values) /\ Len(units) \in Sizes /\ Len(units) \in Nat \ {0}
           /\ units \in [1 .. Len(units) -> Values]
  <1>1. PICK n \in Sizes : units \in [1 .. n -> Values]
    BY DEF Payloads
  <1>2. n \in Nat \ {0}
    BY RingBufferAssumption DEF Sizes, RingBufferAssumption
  <1> QED
    BY <1>1, <1>2

(* A ring holds s units if w lies s cells behind r and full says whether    *)
(* that is all the way round.                                              *)
LEMMA SizeFrom ==
    ASSUME NEW c \in Nat \ {0}, NEW a \in 0 .. c - 1, NEW s \in 0 .. c - 1
    PROVE  (IF Plus(a, s, c) >= a THEN Plus(a, s, c) - a ELSE c - (a - Plus(a, s, c))) = s
  <1>1. Plus(a, s, c) = Wrap(a + s, c)
    BY PlusIs
  <1>2. (IF Wrap(a + s, c) >= a THEN Wrap(a + s, c) - a ELSE c - (a - Wrap(a + s, c))) = s
    BY DEF Wrap
  <1> QED
    BY <1>1, <1>2

Ring == full => r = w

LEMMA RingIs ==
    ASSUME TypeOK, Ring
    PROVE  /\ w = Nth(Size)
           /\ \A j \in 0 .. FreeSize : Plus(w, j, capacity) = Nth(Size + j)
  <1>1. /\ capacity \in Nat \ {0} /\ r \in 0 .. capacity - 1 /\ Size \in 0 .. capacity
        /\ \A j \in 0 .. FreeSize : j \in 0 .. capacity - Size
    BY SizeIs, CapacityIs
  <1>2. w = Wrap(r + Size, capacity)
    BY CapacityIs DEF Size, Ring, TypeOK, Wrap
  <1>3. w = Nth(Size)
    BY <1>1, <1>2, PlusIs DEF Nth
  <1> QED
    BY <1>1, <1>3, PlusTwice DEF Nth

LEMMA LastOrNot ==
    ASSUME NEW c \in Nat, NEW s \in 0 .. c, s # c
    PROVE  s \in 0 .. c - 1
  OBVIOUS

(* What the next state holds. *)
LEMMA ContentsFrom ==
    ASSUME TypeOK', NEW s \in 0 .. capacity', w' = Plus(r', s, capacity'), full' <=> s = capacity'
    PROVE  /\ Size' = s /\ Contents' \in Seq(Values \cup {Junk}) /\ Len(Contents') = s
           /\ \A i \in 1 .. s : Contents'[i] = data'[Plus(r', i - 1, capacity')]
  <1>1. /\ capacity' \in Nat \ {0} /\ capacity' <= MaxCapacity /\ MaxCapacity \in Nat
        /\ r' \in 0 .. capacity' - 1 /\ data' \in [Cells -> Values \cup {Junk}]
        /\ 0 .. capacity' - 1 \subseteq Cells
    BY CapacityFits DEF TypeOK
  <1>2. Size' = s
    <2>1. CASE s = capacity'
      BY <2>1 DEF Size
    <2>2. CASE s # capacity'
      <3>1. ~full'
        BY <2>2
      <3>2. s \in 0 .. capacity' - 1
        BY <1>1, <2>2, LastOrNot
      <3>3. (IF w' >= r' THEN w' - r' ELSE capacity' - (r' - w')) = s
        BY <1>1, <3>2, SizeFrom
      <3> QED
        BY <3>1, <3>3 DEF Size
    <2> QED
      BY <2>1, <2>2
  <1>3. s \in Nat
    BY <1>1
  <1>4. \A i \in 1 .. s : (r' + i - 1) % capacity' = Plus(r', i - 1, capacity')
    <2> TAKE i \in 1 .. s
    <2>1. r' + i - 1 = r' + (i - 1)
      BY <1>1
    <2> QED
      BY <2>1 DEF Plus
  <1>5. \A i \in 1 .. s : Plus(r', i - 1, capacity') \in Cells
    <2> TAKE i \in 1 .. s
    <2>1. i - 1 \in 0 .. capacity'
      BY <1>1
    <2>2. Plus(r', i - 1, capacity') \in 0 .. capacity' - 1
      BY <1>1, <2>1, PlusIs
    <2> QED
      BY <1>1, <2>2
  <1>6. Contents' = [i \in 1 .. s |-> data'[Plus(r', i - 1, capacity')]]
    BY <1>2, <1>4 DEF Contents
  <1>7. \A i \in 1 .. s : data'[Plus(r', i - 1, capacity')] \in Values \cup {Junk}
    BY <1>1, <1>5
  <1> QED
    BY <1>2, <1>3, <1>6, <1>7

(* What a write or a moved write cursor adds. *)
LEMMA Appended ==
    ASSUME TypeOK, TypeOK', Ring, NEW units \in Payloads, Len(units) <= FreeSize,
           UNCHANGED <<r, capacity>>, w' = Plus(w, Len(units), capacity),
           full' <=> Len(units) = FreeSize,
           \A i \in 1 .. Size : data'[Nth(i - 1)] = data[Nth(i - 1)],
           \A j \in 1 .. Len(units) : data'[Plus(w, j - 1, capacity)] = units[j]
    PROVE  Contents' = Contents \o units /\ Size' = Size + Len(units)
  <1> DEFINE n == Len(units)
  <1>1. n \in 0 .. FreeSize /\ n \in Nat /\ Size + n \in 0 .. capacity /\ Size \in Nat
    BY PayloadIs, SizeIs, CapacityIs
  <1>2. w' = Nth(Size + n) /\ (full' <=> Size + n = capacity)
    <2>1. w' = Nth(Size + n)
      BY <1>1, RingIs
    <2>2. n = FreeSize <=> Size + n = capacity
      <3> HIDE DEF n
      <3> QED
        BY <1>1, SizeIs, CapacityIs
    <2> QED
      BY <2>1, <2>2
  <1>3. /\ Size' = Size + n /\ Contents' \in Seq(Values \cup {Junk}) /\ Len(Contents') = Size + n
        /\ \A i \in 1 .. Size + n : Contents'[i] = data'[Nth(i - 1)]
    BY <1>1, <1>2, ContentsFrom DEF Nth
  <1>4. \A i \in 1 .. Size : Contents'[i] = Contents[i]
    <2> TAKE i \in 1 .. Size
    <2>1. i \in 1 .. Size + n
      BY <1>1
    <2>2. Contents'[i] = data'[Nth(i - 1)]
      BY <1>3, <2>1
    <2> QED
      BY <2>2, ContentsAre
  <1>5. \A j \in 1 .. n : Contents'[Size + j] = units[j]
    <2> TAKE j \in 1 .. n
    <2>1. j - 1 \in 0 .. FreeSize /\ Size + j \in 1 .. Size + n /\ (Size + j) - 1 = Size + (j - 1)
      BY <1>1, SizeIs, CapacityIs
    <2>2. Plus(w, j - 1, capacity) = Nth(Size + (j - 1))
      BY <2>1, RingIs
    <2> QED
      BY <1>3, <2>1, <2>2
  <1>6. units \in Seq(Values \cup {Junk})
    BY PayloadIs, SeqMonotonic
  <1>7. /\ Contents \o units \in Seq(Values \cup {Junk}) /\ Len(Contents \o units) = Size + n
        /\ \A i \in 1 .. Size : (Contents \o units)[i] = Contents[i]
        /\ \A j \in 1 .. n : (Contents \o units)[Size + j] = units[j]
    <2>1. Contents \in Seq(Values \cup {Junk}) /\ Len(Contents) = Size
      BY ContentsAre
    <2>2. Contents \o units \in Seq(Values \cup {Junk}) /\ Len(Contents \o units) = Size + n
      BY <1>6, <2>1, ConcatProperties
    <2>3. \A i \in 1 .. Size + n :
             (Contents \o units)[i] = IF i <= Size THEN Contents[i] ELSE units[i - Size]
      BY <1>6, <2>1, ConcatProperties
    <2>4. \A i \in 1 .. Size : (Contents \o units)[i] = Contents[i]
      <3> TAKE i \in 1 .. Size
      <3>1. i \in 1 .. Size + n /\ i <= Size
        BY <1>1
      <3> QED
        BY <2>3, <3>1
    <2>5. \A j \in 1 .. n : Size + j \in 1 .. Size + n /\ ~(Size + j <= Size) /\ (Size + j) - Size = j
      BY <1>1
    <2> QED
      BY <2>2, <2>3, <2>4, <2>5
  <1>8. \A i \in 1 .. Size + n : Contents'[i] = (Contents \o units)[i]
    <2> TAKE i \in 1 .. Size + n
    <2>1. CASE i \in 1 .. Size
      BY <1>4, <1>7, <2>1
    <2>2. CASE i \notin 1 .. Size
      <3>1. i - Size \in 1 .. n /\ Size + (i - Size) = i
        BY <1>1, <2>2
      <3> QED
        BY <1>5, <1>7, <3>1
    <2> QED
      BY <2>1, <2>2
  <1> QED
    BY <1>3, <1>7, <1>8, SeqEqual

(* What a read or a moved read cursor takes away. *)
LEMMA Dropped ==
    ASSUME TypeOK, TypeOK', Ring, NEW k \in 0 .. Size,
           UNCHANGED <<w, capacity, data>>, r' = Plus(r, k, capacity),
           full' <=> full /\ k = 0
    PROVE  Contents' = SubSeq(Contents, k + 1, Len(Contents)) /\ Size' = Size - k
  <1>1. k \in Nat /\ Size \in Nat /\ Size - k \in 0 .. capacity /\ k \in 0 .. capacity /\ capacity \in Nat \ {0}
    BY SizeIs, CapacityIs
  <1>2. r \in 0 .. capacity - 1
    BY CapacityIs
  <1>3. \A j \in 0 .. capacity - k : Plus(r', j, capacity) = Plus(r, k + j, capacity)
    BY <1>1, <1>2, PlusTwice
  <1>4. \A j \in 0 .. Size - k : Plus(r', j, capacity) = Nth(k + j)
    <2>1. \A j \in 0 .. Size - k : j \in 0 .. capacity - k
      BY <1>1, SizeIs
    <2> QED
      BY <1>3, <2>1 DEF Nth
  <1>5. w' = Plus(r', Size - k, capacity')
    <2>1. Size - k \in 0 .. Size - k /\ k + (Size - k) = Size
      BY <1>1
    <2> QED
      BY <1>4, <2>1, RingIs
  <1>6. full' <=> Size - k = capacity'
    BY <1>1, SizeIs
  <1>7. /\ Size' = Size - k /\ Contents' \in Seq(Values \cup {Junk}) /\ Len(Contents') = Size - k
        /\ \A i \in 1 .. Size - k : Contents'[i] = data'[Plus(r', i - 1, capacity)]
    BY <1>1, <1>5, <1>6, ContentsFrom
  <1>8. \A i \in 1 .. Size - k : Contents'[i] = Contents[k + i]
    <2> TAKE i \in 1 .. Size - k
    <2>1. i - 1 \in 0 .. Size - k /\ k + i \in 1 .. Size /\ (k + i) - 1 = k + (i - 1)
      BY <1>1
    <2> QED
      BY <1>4, <1>7, <2>1, ContentsAre
  <1>9. /\ SubSeq(Contents, k + 1, Size) \in Seq(Values \cup {Junk})
        /\ Len(SubSeq(Contents, k + 1, Size)) = Size - k
        /\ \A i \in 1 .. Size - k : SubSeq(Contents, k + 1, Size)[i] = Contents[k + i]
    <2>1. \A i \in k + 1 .. Size : Contents[i] \in Values \cup {Junk}
      BY <1>1, ContentsAre, ElementOfSeq
    <2>2. Size - (k + 1) + 1 = Size - k /\ (k + 1 <= Size \/ Size - k = 0)
          /\ \A i \in 1 .. Size - k : (k + 1) + i - 1 = k + i
      BY <1>1
    <2> QED
      BY <1>1, <2>1, <2>2, SubSeqProperties
  <1> QED
    BY <1>7, <1>8, <1>9, ContentsAre, SeqEqual

(***************************************************************************)
(* Store and Moved.                                                        *)
(***************************************************************************)
LEMMA Distance ==
    ASSUME NEW c \in Nat \ {0}, NEW a \in 0 .. c - 1, NEW k \in 0 .. c - 1
    PROVE  /\ (Plus(a, k, c) - a + c) % c = k /\ Plus(a, k, c) \in 0 .. c - 1
  <1>1. k \in 0 .. c
    OBVIOUS
  <1>2. Plus(a, k, c) = Wrap(a + k, c) /\ Plus(a, k, c) \in 0 .. c - 1
    BY <1>1, PlusIs
  <1>3. Wrap(a + k, c) - a + c = k \/ Wrap(a + k, c) - a + c = k + c
    BY DEF Wrap
  <1>4. k % c = k /\ (k + c) % c = k
    BY Remainders
  <1> QED
    BY <1>2, <1>3, <1>4

LEMMA StoreIs ==
    ASSUME NEW c \in InitCapacity .. MaxCapacity, NEW a \in 0 .. c - 1,
           NEW cells \in [Cells -> Values \cup {Junk}], NEW units \in Seq(Values), Len(units) <= c
    PROVE  /\ Store(cells, a, c, units) \in [Cells -> Values \cup {Junk}]
           /\ \A j \in 1 .. Len(units) : Store(cells, a, c, units)[Plus(a, j - 1, c)] = units[j]
           /\ \A k \in Len(units) .. c - 1 :
                 Store(cells, a, c, units)[Plus(a, k, c)] = cells[Plus(a, k, c)]
  <1> DEFINE New == Store(cells, a, c, units)
             Pos(i) == ((i - a + c) % c) + 1
  <1>0. c \in Nat \ {0} /\ 0 .. c - 1 \subseteq Cells /\ Len(units) \in Nat
    BY CapacityFits
  <1>1. New = [i \in Cells |-> IF i < c /\ Pos(i) <= Len(units) THEN units[Pos(i)] ELSE cells[i]]
    BY DEF Store
  <1>2. \A i \in Cells : Pos(i) \in Nat /\ Pos(i) >= 1
    <2> TAKE i \in Cells
    <2>1. i \in Nat
      BY RingBufferAssumption DEF Cells, RingBufferAssumption
    <2>2. i - a + c \in Nat
      BY <1>0, <2>1
    <2>3. (i - a + c) % c \in 0 .. c - 1
      BY <1>0, <2>2, Remainders
    <2> QED
      BY <1>0, <2>3
  <1>3. \A k \in 0 .. c - 1 : /\ Plus(a, k, c) \in Cells /\ Plus(a, k, c) < c
                               /\ Pos(Plus(a, k, c)) = k + 1
    <2> TAKE k \in 0 .. c - 1
    <2>1. (Plus(a, k, c) - a + c) % c = k /\ Plus(a, k, c) \in 0 .. c - 1
      BY <1>0, Distance
    <2> QED
      BY <1>0, <2>1
  <1> HIDE DEF New, Pos
  <1>4. New \in [Cells -> Values \cup {Junk}]
    <2>1. ASSUME NEW i \in Cells, i < c, Pos(i) <= Len(units)
          PROVE  units[Pos(i)] \in Values
      <3>1. Pos(i) \in 1 .. Len(units)
        BY <1>0, <1>2, <2>1
      <3> QED
        BY <3>1, ElementOfSeq
    <2> QED
      BY <1>1, <2>1
  <1>5. ASSUME NEW j \in 1 .. Len(units)
        PROVE  New[Plus(a, j - 1, c)] = units[j]
    <2>1. j - 1 \in 0 .. c - 1 /\ (j - 1) + 1 = j /\ j <= Len(units)
      BY <1>0
    <2> QED
      BY <1>1, <1>3, <2>1
  <1>6. ASSUME NEW k \in Len(units) .. c - 1
        PROVE  New[Plus(a, k, c)] = cells[Plus(a, k, c)]
    <2>1. k \in 0 .. c - 1 /\ ~(k + 1 <= Len(units))
      BY <1>0
    <2> QED
      BY <1>1, <1>3, <2>1
  <1> QED
    BY <1>4, <1>5, <1>6 DEF New

(* Writing behind the contents leaves them alone. *)
LEMMA StoreAppends ==
    ASSUME TypeOK, Ring, NEW units \in Payloads, Len(units) <= FreeSize
    PROVE  LET New == Store(data, w, capacity, units) IN
           /\ \A i \in 1 .. Size : New[Nth(i - 1)] = data[Nth(i - 1)]
           /\ \A j \in 1 .. Len(units) : New[Plus(w, j - 1, capacity)] = units[j]
  <1> DEFINE New == Store(data, w, capacity, units)
             n == Len(units)
  <1>0. /\ capacity \in InitCapacity .. MaxCapacity /\ data \in [Cells -> Values \cup {Junk}]
        /\ capacity \in Nat \ {0} /\ w \in 0 .. capacity - 1 /\ r \in 0 .. capacity - 1
        /\ Size \in 0 .. capacity /\ Size + FreeSize = capacity /\ FreeSize \in 0 .. capacity
        /\ n \in Nat \ {0} /\ units \in Seq(Values)
    BY CapacityIs, SizeIs, PayloadIs DEF TypeOK
  <1>1. n <= capacity
    BY <1>0
  <1>2. /\ \A j \in 1 .. n : New[Plus(w, j - 1, capacity)] = units[j]
        /\ \A k \in n .. capacity - 1 : New[Plus(w, k, capacity)] = data[Plus(w, k, capacity)]
    BY <1>0, <1>1, StoreIs
  <1> HIDE DEF New, n
  <1>3. ASSUME NEW i \in 1 .. Size
        PROVE  New[Nth(i - 1)] = data[Nth(i - 1)]
    <2> DEFINE k == FreeSize + (i - 1)
    <2>1. k \in n .. capacity - 1
      BY <1>0 DEF n
    <2>2. Plus(w, k, capacity) = Nth(i - 1)
      <3>1. w = Wrap(r + Size, capacity)
        BY <1>0, RingIs, PlusIs DEF Nth
      <3>2. Plus(w, k, capacity) = Wrap(w + k, capacity) /\ Nth(i - 1) = Wrap(r + (i - 1), capacity)
        <4>1. k \in 0 .. capacity /\ i - 1 \in 0 .. capacity
          BY <1>0
        <4> QED
          BY <1>0, <4>1, PlusIs DEF Nth
      <3>3. Wrap(Wrap(r + Size, capacity) + k, capacity) = Wrap(r + (i - 1), capacity)
        BY <1>0 DEF Wrap
      <3> QED
        BY <3>1, <3>2, <3>3
    <2> QED
      BY <1>2, <2>1, <2>2
  <1> QED
    BY <1>2, <1>3 DEF New, n

LEMMA MovedIs ==
    ASSUME TypeOK
    PROVE  /\ Moved \in [Cells -> Values \cup {Junk}]
           /\ \A i \in 1 .. Size : Moved[i - 1] = Contents[i]
  <1>0. Size \in 0 .. capacity /\ 0 .. capacity - 1 \subseteq Cells /\ capacity \in Nat \ {0}
    BY SizeIs, CapacityIs
  <1>1. \A i \in Cells : i < Size => Contents[i + 1] \in Values \cup {Junk}
    <2> TAKE i \in Cells
    <2>1. i \in Nat
      BY RingBufferAssumption DEF Cells, RingBufferAssumption
    <2>2. i < Size => i + 1 \in 1 .. Size
      BY <1>0, <2>1
    <2> QED
      BY <2>2, ContentsAre, ElementOfSeq
  <1>2. ASSUME NEW i \in 1 .. Size
        PROVE  Moved[i - 1] = Contents[i]
    <2>1. i - 1 \in Cells /\ i - 1 < Size /\ (i - 1) + 1 = i
      BY <1>0
    <2> QED
      BY <2>1 DEF Moved
  <1> QED
    BY <1>1, <1>2 DEF Moved

LEMMA GrownIs ==
    ASSUME TypeOK, NEW n \in Nat, CanGrow(n)
    PROVE  /\ Grown(n) \in InitCapacity .. MaxCapacity /\ Grown(n) = Size + n
           /\ Size < Grown(n) /\ capacity < Grown(n)
           /\ capacity < MaxCapacity
  <1>1. /\ capacity \in InitCapacity .. MaxCapacity /\ capacity \in Nat /\ Size \in 0 .. capacity
        /\ FreeSize \in 0 .. capacity /\ Size + FreeSize = capacity /\ MaxCapacity \in Nat
    BY SizeIs, CapacityIs DEF TypeOK
  <1>2. FreeSize < n /\ capacity # MaxCapacity /\ Grown(n) <= MaxCapacity /\ Grown(n) = capacity + (n - FreeSize)
    BY DEF CanGrow, Grown
  <1> HIDE DEF Grown, Size, FreeSize
  <1>3. InitCapacity \in Nat
    BY RingBufferAssumption DEF RingBufferAssumption
  <1> QED
    BY <1>1, <1>2, <1>3
-----------------------------------------------------------------------------
(***************************************************************************)
(* Types and calls.                                                        *)
(***************************************************************************)
RingOK ==
    /\ capacity \in InitCapacity .. MaxCapacity
    /\ r \in 0 .. capacity - 1 /\ w \in 0 .. capacity - 1
    /\ full \in BOOLEAN
    /\ data \in [Cells -> Values \cup {Junk}]

LEMMA ConsumeType ==
    ASSUME TypeOK, NEW n \in Sizes, Consume(n)
    PROVE  RingOK'
  <1>1. SmallerOf(n, Size) \in Nat
    BY SizeIs, CapacityIs, RingBufferAssumption DEF SmallerOf, Sizes, RingBufferAssumption
  <1>2. r' = (r + SmallerOf(n, Size)) % capacity /\ full' \in BOOLEAN /\ UNCHANGED <<w, capacity, data>>
    BY DEF Consume
  <1>3. r + SmallerOf(n, Size) \in Nat
    BY <1>1, CapacityIs
  <1>4. r' \in 0 .. capacity - 1
    BY <1>2, <1>3, CapacityIs, Remainders
  <1> QED
    BY <1>2, <1>4 DEF RingOK, TypeOK

LEMMA AppendType ==
    ASSUME TypeOK, NEW units \in Seq(Values), Len(units) <= FreeSize, AppendUnits(units)
    PROVE  RingOK'
  <1>1. data' = Store(data, w, capacity, units) /\ w' = (w + Len(units)) % capacity
        /\ UNCHANGED <<r, full, capacity>>
    BY DEF AppendUnits
  <1>2. Len(units) \in Nat /\ Len(units) <= capacity /\ w \in Nat /\ w + Len(units) \in Nat
    BY SizeIs, CapacityIs
  <1>3. w' \in 0 .. capacity - 1
    BY <1>1, <1>2, CapacityIs, Remainders
  <1>4. data' \in [Cells -> Values \cup {Junk}]
    BY <1>1, <1>2, StoreIs, CapacityIs DEF TypeOK
  <1> QED
    BY <1>1, <1>3, <1>4 DEF RingOK, TypeOK

LEMMA GrowType ==
    ASSUME TypeOK, NEW units \in Payloads, GrowAndAppend(units)
    PROVE  RingOK'
  <1> DEFINE n == Len(units)
  <1>1. /\ CanGrow(n) /\ capacity' = Grown(n) /\ r' = 0 /\ w' = (Size + n) % Grown(n) /\ full' = FALSE
        /\ data' = Store(Moved, Size, Grown(n), units)
    BY DEF GrowAndAppend
  <1>2. n \in Nat /\ units \in Seq(Values) /\ Size \in Nat
    BY PayloadIs, SizeIs, CapacityIs
  <1> HIDE DEF n
  <1>3. /\ Grown(n) \in InitCapacity .. MaxCapacity /\ Grown(n) = Size + n /\ Size < Grown(n)
        /\ Grown(n) \in Nat \ {0}
    BY <1>1, <1>2, GrownIs, CapacityFits
  <1>4. Size + n \in Nat /\ Size \in 0 .. Grown(n) - 1 /\ n <= Grown(n) /\ 0 \in 0 .. Grown(n) - 1
    BY <1>2, <1>3
  <1>5. w' \in 0 .. Grown(n) - 1
    BY <1>1, <1>3, <1>4, Remainders
  <1>6. data' \in [Cells -> Values \cup {Junk}]
    BY <1>1, <1>2, <1>3, <1>4, StoreIs, MovedIs DEF n
  <1> QED
    BY <1>1, <1>3, <1>4, <1>5, <1>6 DEF RingOK

LEMMA EnsureType ==
    ASSUME TypeOK, NEW n \in Sizes, EnsureWriteSpace(n)
    PROVE  RingOK'
  <1>1. n \in Nat /\ Size \in Nat
    BY SizeIs, CapacityIs, RingBufferAssumption DEF Sizes, RingBufferAssumption
  <1>2. CanGrow(n) /\ capacity' = Grown(n) /\ r' = 0 /\ w' = Size /\ full' = FALSE /\ data' = Moved
    BY DEF EnsureWriteSpace
  <1>3. Grown(n) \in InitCapacity .. MaxCapacity /\ Size < Grown(n) /\ Grown(n) \in Nat \ {0}
    BY <1>1, <1>2, GrownIs, CapacityFits
  <1>4. Size \in 0 .. Grown(n) - 1 /\ 0 \in 0 .. Grown(n) - 1
    BY <1>1, <1>3
  <1> QED
    BY <1>2, <1>3, <1>4, MovedIs DEF RingOK

(* pthread_cond_signal moves one thread at most. *)
LEMMA SignalIs ==
    ASSUME NEW p \in [Threads -> PcValues], NEW x, NEW y \in PcValues, x # y, Signal(p, x, y)
    PROVE  /\ pc' \in [Threads -> PcValues]
           /\ \A u \in Threads : pc'[u] = p[u] \/ (p[u] = x /\ pc'[u] = y)
           /\ (\A u, v \in Threads : p[u] = x /\ p[v] = x => u = v) => \A u \in Threads : pc'[u] # x
  BY DEF Signal

(* A thread that returns, and whom it may wake. *)
Leaves(t) ==
    /\ pc' \in [Threads -> PcValues]
    /\ pc'[t] = "idle"
    /\ call' = [call EXCEPT ![t] = NoCall]
    /\ \A u \in Threads : u # t => \/ pc'[u] = pc[u]
                                   \/ pc[u] = "waitRead" /\ pc'[u] = "wokenRead"
                                   \/ pc[u] = "waitWrite" /\ pc'[u] = "wokenWrite"

LEMMA DoneIs ==
    ASSUME TypeOK, NEW t \in Threads
    PROVE  /\ Done(t) \in [Threads -> PcValues] /\ Done(t)[t] = "idle"
           /\ \A u \in Threads : u # t => Done(t)[u] = pc[u]
  BY DEF TypeOK, Done, PcValues

LEMMA LeavesAfter ==
    ASSUME TypeOK, NEW t \in Threads, call' = [call EXCEPT ![t] = NoCall],
           \/ pc' = Done(t)
           \/ Signal(Done(t), "waitRead", "wokenRead")
           \/ Signal(Done(t), "waitWrite", "wokenWrite")
    PROVE  Leaves(t)
  <1>0. "wokenRead" \in PcValues /\ "wokenWrite" \in PcValues
    BY DEF PcValues
  <1>1. CASE pc' = Done(t)
    BY <1>1, DoneIs DEF Leaves
  <1>2. CASE Signal(Done(t), "waitRead", "wokenRead")
    <2>1. /\ pc' \in [Threads -> PcValues]
          /\ \A u \in Threads : pc'[u] = Done(t)[u] \/ (Done(t)[u] = "waitRead" /\ pc'[u] = "wokenRead")
      BY <1>0, <1>2, DoneIs, SignalIs
    <2> QED
      BY <2>1, DoneIs DEF Leaves
  <1>3. CASE Signal(Done(t), "waitWrite", "wokenWrite")
    <2>1. /\ pc' \in [Threads -> PcValues]
          /\ \A u \in Threads : pc'[u] = Done(t)[u] \/ (Done(t)[u] = "waitWrite" /\ pc'[u] = "wokenWrite")
      BY <1>0, <1>3, DoneIs, SignalIs
    <2> QED
      BY <2>1, DoneIs DEF Leaves
  <1> QED
    BY <1>1, <1>2, <1>3

LEMMA LeavesKeeps ==
    ASSUME IInv, NEW t \in Threads, Leaves(t), RingOK', cursor' \in [Threads -> Nat],
           last'.op \in {"none", "read", "peek", "skip", "write", "reset"}, UNCHANGED careful
    PROVE  IInv'
  <1>1. /\ call' \in [Threads -> ReadCalls \cup WriteCalls \cup DirectCalls \cup {NoCall}]
        /\ \A u \in Threads : u # t => call'[u] = call[u]
    BY DEF IInv, TypeOK, Leaves
  <1>2. TypeOK'
    BY <1>1 DEF TypeOK, RingOK, Leaves, IInv
  <1>3. Calls'
    BY <1>1 DEF Calls, IInv, Leaves
  <1> QED
    BY <1>2, <1>3 DEF IInv

LEMMA ReadBodyKeeps ==
    ASSUME IInv, NEW t \in Threads, NEW c \in ReadCalls, ReadBody(t, c), UNCHANGED careful
    PROVE  IInv'
  <1>0. TypeOK /\ RingOK /\ c.size \in Sizes /\ cursor' \in [Threads -> Nat]
    BY DEF IInv, TypeOK, RingOK, ReadCalls, ReadBody
  <1>1. Leaves(t)
    BY <1>0, LeavesAfter DEF ReadBody
  <1>2. last'.op \in {"none", "read", "peek", "skip", "write", "reset"}
    BY <1>0 DEF ReadBody, Returned, TypeOK
  <1>3. RingOK'
    <2>1. CASE Consume(c.size)
      BY <1>0, <2>1, ConsumeType
    <2>2. CASE UNCHANGED ring
      BY <1>0, <2>2 DEF ring, RingOK
    <2> QED
      BY <2>1, <2>2 DEF ReadBody
  <1> QED
    BY <1>0, <1>1, <1>2, <1>3, LeavesKeeps

LEMMA FitsIs ==
    ASSUME TypeOK, NEW units \in Payloads
    PROVE  LET k == SmallerOf(Len(units), FreeSize)
               fits == SubSeq(units, 1, k)
           IN  /\ fits \in Seq(Values) /\ Len(fits) = k /\ Len(fits) <= FreeSize
               /\ Len(units) <= FreeSize => fits = units
  <1> DEFINE k == SmallerOf(Len(units), FreeSize)
             fits == SubSeq(units, 1, k)
  <1>1. units \in Seq(Values) /\ Len(units) \in Nat /\ FreeSize \in Nat
    BY PayloadIs, SizeIs, CapacityIs
  <1>2. /\ k \in Nat /\ k <= FreeSize /\ k <= Len(units) /\ (Len(units) <= FreeSize => k = Len(units))
    BY <1>1 DEF SmallerOf
  <1> HIDE DEF k
  <1>3. \A i \in 1 .. k : units[i] \in Values
    BY <1>1, <1>2, ElementOfSeq
  <1>4. fits \in Seq(Values) /\ Len(fits) = IF 1 <= k THEN k - 1 + 1 ELSE 0
    BY <1>2, <1>3, SubSeqProperties
  <1>5. Len(fits) = k
    BY <1>2, <1>4
  <1>6. Len(units) <= FreeSize => fits = units
    BY <1>1, <1>2, SubSeqFull
  <1> QED
    BY <1>2, <1>4, <1>5, <1>6 DEF k

LEMMA WriteBodyKeeps ==
    ASSUME IInv, NEW t \in Threads, NEW c \in WriteCalls, WriteBody(t, c), UNCHANGED careful
    PROVE  IInv'
  <1>0. TypeOK /\ RingOK /\ c.payload \in Payloads /\ cursor' \in [Threads -> Nat]
    BY DEF IInv, TypeOK, RingOK, WriteCalls, WriteBody
  <1>1. Leaves(t)
    BY <1>0, LeavesAfter DEF WriteBody
  <1>2. last'.op \in {"none", "read", "peek", "skip", "write", "reset"}
    BY <1>0 DEF WriteBody, Returned, TypeOK
  <1>3. RingOK'
    <2>1. CASE AppendUnits(SubSeq(c.payload, 1, SmallerOf(Len(c.payload), FreeSize)))
      BY <1>0, <2>1, FitsIs, AppendType
    <2>2. CASE GrowAndAppend(c.payload)
      BY <1>0, <2>2, GrowType
    <2>3. CASE UNCHANGED ring
      BY <1>0, <2>3 DEF ring, RingOK
    <2> QED
      BY <2>1, <2>2, <2>3 DEF WriteBody
  <1> QED
    BY <1>0, <1>1, <1>2, <1>3, LeavesKeeps

LEMMA AdvanceKeeps ==
    ASSUME IInv, NEW t \in Threads, SetWriteCursor(t) \/ SetReadCursor(t), UNCHANGED careful
    PROVE  IInv'
  <1>0. TypeOK /\ RingOK /\ cursor[t] \in Nat
    BY DEF IInv, TypeOK, RingOK
  <1>1. Leaves(t)
    BY <1>0, LeavesAfter DEF SetWriteCursor, SetReadCursor
  <1>2. /\ last'.op \in {"none", "read", "peek", "skip", "write", "reset"}
        /\ cursor' = [cursor EXCEPT ![t] = 0]
    BY DEF SetWriteCursor, SetReadCursor, Returned
  <1>3. cursor[t] % capacity \in 0 .. capacity - 1
    BY <1>0, CapacityIs, Remainders
  <1>4. full' \in BOOLEAN /\ UNCHANGED <<capacity, data>>
        /\ \/ w' = cursor[t] % capacity /\ UNCHANGED r
           \/ r' = cursor[t] % capacity /\ UNCHANGED w
    BY DEF SetWriteCursor, SetReadCursor
  <1>5. RingOK'
    BY <1>0, <1>3, <1>4 DEF RingOK
  <1>6. cursor' \in [Threads -> Nat]
    BY <1>0, <1>2 DEF TypeOK
  <1> QED
    BY <1>0, <1>1, <1>2, <1>5, <1>6, LeavesKeeps

(* A thread whose call moves it elsewhere, while nobody else moves. *)
LEMMA MoveKeeps ==
    ASSUME IInv, NEW t \in Threads, NEW p \in PcValues,
           NEW c \in ReadCalls \cup WriteCalls \cup DirectCalls \cup {NoCall},
           pc' = [pc EXCEPT ![t] = p], call' = [call EXCEPT ![t] = c],
           p \in {"waitRead", "wokenRead"} => t \in Readers /\ c \in ReadCalls,
           p \in {"waitWrite", "wokenWrite"} => t \in Writers /\ c \in WriteCalls,
           p = "advance" => c \in DirectCalls,
           RingOK', cursor' \in [Threads -> Nat], UNCHANGED <<last, careful>>
    PROVE  IInv'
  <1>1. /\ pc' \in [Threads -> PcValues]
        /\ call' \in [Threads -> ReadCalls \cup WriteCalls \cup DirectCalls \cup {NoCall}]
        /\ pc'[t] = p /\ call'[t] = c
        /\ \A u \in Threads : u # t => pc'[u] = pc[u] /\ call'[u] = call[u]
    BY DEF IInv, TypeOK
  <1>2. TypeOK'
    BY <1>1 DEF TypeOK, RingOK, IInv
  <1>3. Calls'
    BY <1>1 DEF Calls, IInv
  <1> QED
    BY <1>2, <1>3 DEF IInv

LEMMA BlockKeeps ==
    ASSUME IInv, UNCHANGED careful,
           \/ \E t \in Readers, c \in ReadCalls : ReadWaits(t, c)
           \/ \E t \in Writers, c \in WriteCalls : WriteWaits(t, c)
    PROVE  IInv'
  <1>0. RingOK /\ cursor \in [Threads -> Nat] /\ "waitRead" \in PcValues /\ "waitWrite" \in PcValues
    BY DEF IInv, TypeOK, RingOK, PcValues
  <1>1. ASSUME NEW t \in Readers, NEW c \in ReadCalls, Block(t, "waitRead", c)
        PROVE  IInv'
    BY <1>0, <1>1, MoveKeeps DEF Block, ring, RingOK, Threads
  <1>2. ASSUME NEW t \in Writers, NEW c \in WriteCalls, Block(t, "waitWrite", c)
        PROVE  IInv'
    BY <1>0, <1>2, MoveKeeps DEF Block, ring, RingOK, Threads
  <1> QED
    BY <1>1, <1>2 DEF ReadWaits, WriteWaits

LEMMA OSStepKeeps ==
    ASSUME IInv, OSStep, UNCHANGED careful
    PROVE  IInv'
  <1> PICK t \in Threads : WaitTimesOut(t) \/ SpuriousWakeup(t)
    BY DEF OSStep
  <1>0. /\ RingOK /\ cursor \in [Threads -> Nat] /\ {"idle", "wokenRead", "wokenWrite"} \subseteq PcValues
        /\ call \in [Threads -> ReadCalls \cup WriteCalls \cup DirectCalls \cup {NoCall}]
    BY DEF IInv, TypeOK, RingOK, PcValues
  <1>1. CASE WaitTimesOut(t)
    BY <1>0, <1>1, MoveKeeps DEF WaitTimesOut, Return, Done, ring, RingOK
  <1>2. CASE SpuriousWakeup(t)
    <2>1. call' = [call EXCEPT ![t] = call[t]] /\ UNCHANGED <<ring, cursor, last>>
      BY <1>0, <1>2 DEF SpuriousWakeup
    <2>2. CASE pc[t] = "waitRead" /\ pc' = [pc EXCEPT ![t] = "wokenRead"]
      <3>1. t \in Readers /\ call[t] \in ReadCalls
        BY <2>2 DEF IInv, Calls
      <3> QED
        BY <1>0, <2>1, <2>2, <3>1, MoveKeeps DEF ring, RingOK
    <2>3. CASE pc[t] = "waitWrite" /\ pc' = [pc EXCEPT ![t] = "wokenWrite"]
      <3>1. t \in Writers /\ call[t] \in WriteCalls
        BY <2>3 DEF IInv, Calls
      <3> QED
        BY <1>0, <2>1, <2>3, <3>1, MoveKeeps DEF ring, RingOK
    <2> QED
      BY <1>2, <2>2, <2>3 DEF SpuriousWakeup
  <1> QED
    BY <1>1, <1>2

LEMMA ResetKeeps ==
    ASSUME IInv, Reset, UNCHANGED careful
    PROVE  IInv'
  <1>1. /\ full' = FALSE /\ r' = w /\ UNCHANGED <<w, capacity, call, cursor>>
        /\ data' = [i \in Cells |-> IF i < capacity THEN Zero ELSE data[i]]
        /\ Signal(pc, "waitWrite", "wokenWrite") /\ last'.op = "reset"
    BY DEF Reset, Returned
  <1>2. Zero \in Values
    BY RingBufferAssumption DEF Zero, RingBufferAssumption
  <1>3. RingOK'
    BY <1>1, <1>2 DEF RingOK, IInv, TypeOK
  <1>4. "wokenWrite" \in PcValues /\ pc \in [Threads -> PcValues]
    BY DEF PcValues, IInv, TypeOK
  <1>5. /\ pc' \in [Threads -> PcValues]
        /\ \A u \in Threads : pc'[u] = pc[u] \/ (pc[u] = "waitWrite" /\ pc'[u] = "wokenWrite")
    BY <1>1, <1>4, SignalIs
  <1>6. TypeOK'
    BY <1>1, <1>3, <1>5 DEF TypeOK, RingOK, IInv
  <1>7. Calls'
    BY <1>1, <1>5 DEF Calls, IInv
  <1> QED
    BY <1>6, <1>7 DEF IInv

LEMMA DirectWriteKeeps ==
    ASSUME IInv, NEW t \in Threads, NEW units \in Payloads, DirectWrite(t, units), UNCHANGED careful
    PROVE  IInv'
  <1> DEFINE c == [op |-> "direct", payload |-> units]
  <1>0. TypeOK /\ RingOK /\ "advance" \in PcValues
    BY DEF IInv, TypeOK, RingOK, PcValues
  <1>1. c \in DirectCalls
    <2>1. PICK n \in Sizes : units \in [1 .. n -> Values]
      BY DEF Payloads
    <2>2. units \in [1 .. n -> Values \cup {Junk}]
      BY <2>1
    <2> QED
      BY <2>2 DEF DirectCalls
  <1>2. /\ Len(units) <= FreeSize /\ data' = Store(data, w, capacity, units)
        /\ cursor' = [cursor EXCEPT ![t] = w + Len(units)]
        /\ call' = [call EXCEPT ![t] = c] /\ pc' = [pc EXCEPT ![t] = "advance"]
        /\ UNCHANGED <<r, w, full, capacity, last>>
    BY DEF DirectWrite
  <1>3. units \in Seq(Values) /\ Len(units) \in Nat /\ Len(units) <= capacity /\ w + Len(units) \in Nat
    BY <1>0, <1>2, PayloadIs, SizeIs, CapacityIs
  <1>4. data' \in [Cells -> Values \cup {Junk}]
    BY <1>0, <1>2, <1>3, StoreIs DEF RingOK
  <1>5. RingOK' /\ cursor' \in [Threads -> Nat]
    BY <1>0, <1>2, <1>3, <1>4 DEF RingOK, TypeOK
  <1> HIDE DEF c
  <1> QED
    BY <1>0, <1>1, <1>2, <1>5, MoveKeeps

LEMMA FirstUnitsAre ==
    ASSUME TypeOK, NEW n \in Nat
    PROVE  LET k == SmallerOf(n, Size) IN
           /\ k \in 0 .. Size /\ (n <= Size => k = n)
           /\ FirstUnits(n) \in [1 .. k -> Values \cup {Junk}] /\ Len(FirstUnits(n)) = k
           /\ FirstUnits(n) = SubSeq(Contents, 1, k)
  <1> DEFINE k == SmallerOf(n, Size)
  <1>1. k \in 0 .. Size /\ (n <= Size => k = n) /\ k \in Nat
    BY SizeIs, CapacityIs DEF SmallerOf
  <1>2. FirstUnits(n) = SubSeq(Contents, 1, k)
    BY DEF FirstUnits
  <1> HIDE DEF k
  <1>3. \A i \in 1 .. k : Contents[i] \in Values \cup {Junk}
    BY <1>1, ContentsAre, ElementOfSeq, SizeIs, CapacityIs
  <1>4. /\ SubSeq(Contents, 1, k) \in Seq(Values \cup {Junk})
        /\ Len(SubSeq(Contents, 1, k)) = IF 1 <= k THEN k - 1 + 1 ELSE 0
    BY <1>1, <1>3, SubSeqProperties
  <1>5. Len(SubSeq(Contents, 1, k)) = k
    BY <1>1, <1>4
  <1>6. SubSeq(Contents, 1, k) \in [1 .. k -> Values \cup {Junk}]
    BY <1>4, <1>5, LenProperties
  <1> QED
    BY <1>1, <1>2, <1>5, <1>6 DEF k

LEMMA DirectReadKeeps ==
    ASSUME IInv, NEW t \in Threads, NEW n \in Sizes, DirectRead(t, n), UNCHANGED careful
    PROVE  IInv'
  <1> DEFINE c == [op |-> "direct", payload |-> FirstUnits(n)]
  <1>0. TypeOK /\ RingOK /\ "advance" \in PcValues /\ n \in Nat
    BY RingBufferAssumption DEF IInv, TypeOK, RingOK, PcValues, Sizes, RingBufferAssumption
  <1>1. /\ n <= Size /\ cursor' = [cursor EXCEPT ![t] = r + n]
        /\ call' = [call EXCEPT ![t] = c] /\ pc' = [pc EXCEPT ![t] = "advance"]
        /\ UNCHANGED <<ring, last>>
    BY DEF DirectRead
  <1>2. FirstUnits(n) \in [1 .. n -> Values \cup {Junk}]
    BY <1>0, <1>1, FirstUnitsAre
  <1>3. c \in DirectCalls
    BY <1>2 DEF DirectCalls
  <1>4. RingOK' /\ cursor' \in [Threads -> Nat]
    BY <1>0, <1>1, CapacityIs DEF RingOK, TypeOK, ring
  <1> HIDE DEF c
  <1> QED
    BY <1>0, <1>1, <1>3, <1>4, MoveKeeps

LEMMA EnsureKeeps ==
    ASSUME IInv, NEW n \in Sizes, EnsureWriteSpace(n), UNCHANGED careful
    PROVE  IInv'
  <1>1. RingOK' /\ UNCHANGED <<pc, call, cursor, last>>
    BY EnsureType DEF IInv, EnsureWriteSpace
  <1> QED
    BY <1>1 DEF IInv, TypeOK, RingOK, Calls

LEMMA ReadStepKeeps ==
    ASSUME IInv, NEW t \in Readers, ReaderStep(t), UNCHANGED careful
    PROVE  IInv'
  <1>1. ASSUME NEW c \in ReadCalls, Read(t, c)
        PROVE  IInv'
    BY <1>1, ReadBodyKeeps DEF Read, Threads
  <1>2. ASSUME NEW c \in ReadCalls, ReadWaits(t, c)
        PROVE  IInv'
    BY <1>2, BlockKeeps
  <1>3. CASE ReadResumes(t)
    <2>1. call[t] \in ReadCalls /\ ReadBody(t, call[t]) /\ t \in Threads
      BY <1>3 DEF ReadResumes, IInv, Calls, Threads
    <2> QED
      BY <2>1, ReadBodyKeeps
  <1> QED
    BY <1>1, <1>2, <1>3 DEF ReaderStep

LEMMA BlankIs == BlankUnits \subseteq Payloads
  BY DEF BlankUnits

LEMMA CarefulKeeps ==
    ASSUME IInv, CarefulNext, UNCHANGED careful
    PROVE  IInv'
  <1>1. ASSUME NEW t \in Readers, ReaderStep(t)
        PROVE  IInv'
    BY <1>1, ReadStepKeeps
  <1>2. ASSUME NEW t \in Writers, NEW c \in WriteCalls, Write(t, c)
        PROVE  IInv'
    BY <1>2, WriteBodyKeeps DEF Write, Threads
  <1>3. ASSUME NEW t \in Writers, NEW units \in Payloads, DirectWrite(t, units)
        PROVE  IInv'
    BY <1>3, DirectWriteKeeps DEF Threads
  <1>4. ASSUME NEW n \in Sizes, EnsureWriteSpace(n)
        PROVE  IInv'
    BY <1>4, EnsureKeeps
  <1>5. ASSUME NEW t \in Readers, NEW n \in Sizes, DirectRead(t, n)
        PROVE  IInv'
    BY <1>5, DirectReadKeeps DEF Threads
  <1>6. CASE Advance
    BY <1>6, AdvanceKeeps DEF Advance, Threads
  <1> QED
    BY <1>1, <1>2, <1>3, <1>4, <1>5, <1>6, ResetKeeps, OSStepKeeps DEF CarefulNext

LEMMA AnyKeeps ==
    ASSUME IInv, AnyNext, UNCHANGED careful
    PROVE  IInv'
  <1>1. ASSUME NEW t \in Readers, ReaderStep(t)
        PROVE  IInv'
    BY <1>1, ReadStepKeeps
  <1>2. ASSUME NEW t \in Writers, NEW c \in WriteCalls, Write(t, c)
        PROVE  IInv'
    BY <1>2, WriteBodyKeeps DEF Write, Threads
  <1>3. ASSUME NEW t \in Writers, NEW c \in WriteCalls, WriteWaits(t, c)
        PROVE  IInv'
    BY <1>3, BlockKeeps
  <1>4. ASSUME NEW t \in Writers, WriteResumes(t)
        PROVE  IInv'
    <2>1. call[t] \in WriteCalls /\ WriteBody(t, call[t]) /\ t \in Threads
      BY <1>4 DEF WriteResumes, IInv, Calls, Threads
    <2> QED
      BY <2>1, WriteBodyKeeps
  <1>5. ASSUME NEW t \in Writers, NEW units \in BlankUnits, DirectWrite(t, units)
        PROVE  IInv'
    BY <1>5, BlankIs, DirectWriteKeeps DEF Threads
  <1>6. ASSUME NEW t \in Readers, NEW n \in Sizes, DirectRead(t, n)
        PROVE  IInv'
    BY <1>6, DirectReadKeeps DEF Threads
  <1>7. CASE Advance
    BY <1>7, AdvanceKeeps DEF Advance, Threads
  <1> QED
    BY <1>1, <1>2, <1>3, <1>4, <1>5, <1>6, <1>7, ResetKeeps, OSStepKeeps DEF AnyNext

LEMMA InitHolds == Init => IInv
  <1> SUFFICES ASSUME Init
               PROVE  IInv
    OBVIOUS
  <1>1. Zero \in Values /\ InitCapacity \in InitCapacity .. MaxCapacity /\ 0 \in 0 .. InitCapacity - 1
    BY RingBufferAssumption DEF Zero, RingBufferAssumption
  <1>2. "idle" \in PcValues
    BY DEF PcValues
  <1> QED
    BY <1>1, <1>2 DEF Init, IInv, TypeOK, Calls

(* Types and calls hold for any number of readers and writers: a thread    *)
(* that waits, was woken or is about to move a cursor is of the kind that   *)
(* may, and remembers a call of that kind.                                 *)
THEOREM Invariance == Spec => []IInv
  <1>1. IInv /\ [Next]_vars => IInv'
    <2> SUFFICES ASSUME IInv, [Next]_vars
                 PROVE  IInv'
      OBVIOUS
    <2>1. CASE UNCHANGED vars
      BY <2>1 DEF vars, state, IInv, TypeOK, Calls
    <2>2. CASE Next
      BY <2>2, CarefulKeeps, AnyKeeps DEF Next
    <2> QED
      BY <2>1, <2>2
  <1> QED
    BY <1>1, InitHolds, PTL DEF Spec

(* The cursors stay inside the buffer whatever the readers and writers do. *)
THEOREM TypeCorrect == Spec => []TypeOK
  <1>1. IInv => TypeOK
    BY DEF IInv
  <1> QED
    BY <1>1, Invariance, PTL
-----------------------------------------------------------------------------
(***************************************************************************)
(* Who sleeps.                                                             *)
(***************************************************************************)
NobodyAt(p) == \A t \in Threads : pc[t] # p

LEMMA NoSleepIs ==
    NoSleepOnReadyRing <=> (IsEmpty \/ NobodyAt("waitRead")) /\ (full \/ NobodyAt("waitWrite"))
  BY DEF NoSleepOnReadyRing, At, NobodyAt

(* The only thread of its side is not the one that sleeps. *)
LEMMA OnlyThread ==
    ASSUME Single, IInv, NEW t \in Threads, pc[t] \notin {"waitRead", "waitWrite"}
    PROVE  /\ t \in Readers => NobodyAt("waitRead")
           /\ t \in Writers => NobodyAt("waitWrite")
  BY DEF Single, IInv, Calls, NobodyAt

LEMMA OnlyThreadAfter ==
    ASSUME Single, IInv', NEW t \in Threads, pc'[t] \notin {"waitRead", "waitWrite"}
    PROVE  /\ t \in Readers => NobodyAt("waitRead")'
           /\ t \in Writers => NobodyAt("waitWrite")'
  BY DEF Single, IInv, Calls, NobodyAt

(* A signal wakes the only thread that can be waiting for it. *)
LEMMA SignalWakes ==
    ASSUME Single, IInv, NEW p \in [Threads -> PcValues],
           \A u \in Threads : p[u] = pc[u] \/ p[u] = "idle"
    PROVE  /\ Signal(p, "waitRead", "wokenRead") => NobodyAt("waitRead")'
           /\ Signal(p, "waitWrite", "wokenWrite") => NobodyAt("waitWrite")'
  <1>0. "wokenRead" \in PcValues /\ "wokenWrite" \in PcValues
    BY DEF PcValues
  <1>1. /\ \A u, v \in Threads : p[u] = "waitRead" /\ p[v] = "waitRead" => u = v
        /\ \A u, v \in Threads : p[u] = "waitWrite" /\ p[v] = "waitWrite" => u = v
    BY DEF Single, IInv, Calls
  <1>2. ASSUME Signal(p, "waitRead", "wokenRead")
        PROVE  \A u \in Threads : pc'[u] # "waitRead"
    BY <1>0, <1>1, <1>2, SignalIs
  <1>3. ASSUME Signal(p, "waitWrite", "wokenWrite")
        PROVE  \A u \in Threads : pc'[u] # "waitWrite"
    BY <1>0, <1>1, <1>3, SignalIs
  <1> QED
    BY <1>2, <1>3 DEF NobodyAt

(* A thread that returns falls asleep nowhere, and nobody falls asleep      *)
(* because of it.                                                          *)
LEMMA LeavesAsleep ==
    ASSUME Single, IInv, IInv', NEW t \in Threads, Leaves(t)
    PROVE  /\ NobodyAt("waitRead") => NobodyAt("waitRead")'
           /\ NobodyAt("waitWrite") => NobodyAt("waitWrite")'
           /\ t \in Readers => NobodyAt("waitRead")'
           /\ t \in Writers => NobodyAt("waitWrite")'
  <1>1. pc'[t] = "idle"
    BY DEF Leaves
  <1>2. /\ t \in Readers => NobodyAt("waitRead")'
        /\ t \in Writers => NobodyAt("waitWrite")'
    BY <1>1, OnlyThreadAfter
  <1>3. /\ NobodyAt("waitRead") => NobodyAt("waitRead")'
        /\ NobodyAt("waitWrite") => NobodyAt("waitWrite")'
    BY DEF NobodyAt, Leaves
  <1> QED
    BY <1>2, <1>3

LEMMA SameRing ==
    ASSUME UNCHANGED <<r, w, full>>
    PROVE  (IsEmpty' <=> IsEmpty) /\ (full' <=> full)
  BY DEF IsEmpty

LEMMA ReadBodyWakes ==
    ASSUME Single, IInv, IInv', NoSleepOnReadyRing, NEW t \in Readers, NEW c, ReadBody(t, c)
    PROVE  NoSleepOnReadyRing'
  <1>0. t \in Threads /\ TypeOK
    BY DEF Threads, IInv
  <1>1. Leaves(t)
    BY <1>0, LeavesAfter DEF ReadBody
  <1>2. CASE Signal(Done(t), "waitWrite", "wokenWrite")
    <2>1. NobodyAt("waitWrite")'
      BY <1>0, <1>2, DoneIs, SignalWakes
    <2> QED
      BY <1>0, <1>1, <2>1, LeavesAsleep DEF NoSleepOnReadyRing, At, NobodyAt
  <1>3. CASE UNCHANGED ring
    <2>1. (IsEmpty' <=> IsEmpty) /\ (full' <=> full)
      BY <1>3, SameRing DEF ring
    <2> QED
      BY <1>0, <1>1, <2>1, LeavesAsleep DEF NoSleepOnReadyRing, At, NobodyAt
  <1> QED
    BY <1>2, <1>3 DEF ReadBody

LEMMA WriteBodyWakes ==
    ASSUME Single, IInv, IInv', NoSleepOnReadyRing, NEW t \in Writers, NEW c, WriteBody(t, c)
    PROVE  NoSleepOnReadyRing'
  <1>0. t \in Threads /\ TypeOK
    BY DEF Threads, IInv
  <1>1. Leaves(t)
    BY <1>0, LeavesAfter DEF WriteBody
  <1>2. CASE Signal(Done(t), "waitRead", "wokenRead")
    <2>1. NobodyAt("waitRead")'
      BY <1>0, <1>2, DoneIs, SignalWakes
    <2> QED
      BY <1>0, <1>1, <2>1, LeavesAsleep DEF NoSleepOnReadyRing, At, NobodyAt
  <1>3. CASE UNCHANGED ring
    <2>1. (IsEmpty' <=> IsEmpty) /\ (full' <=> full)
      BY <1>3, SameRing DEF ring
    <2> QED
      BY <1>0, <1>1, <2>1, LeavesAsleep DEF NoSleepOnReadyRing, At, NobodyAt
  <1> QED
    BY <1>2, <1>3 DEF WriteBody

LEMMA AdvanceWakes ==
    ASSUME Single, IInv, IInv', Advance
    PROVE  NoSleepOnReadyRing'
  <1>1. ASSUME NEW t \in Writers, SetWriteCursor(t)
        PROVE  NoSleepOnReadyRing'
    <2>0. t \in Threads /\ TypeOK
      BY DEF Threads, IInv
    <2>1. Leaves(t) /\ Signal(Done(t), "waitRead", "wokenRead")
      BY <1>1, <2>0, LeavesAfter DEF SetWriteCursor
    <2>2. NobodyAt("waitRead")'
      BY <2>0, <2>1, DoneIs, SignalWakes
    <2> QED
      BY <2>0, <2>1, <2>2, LeavesAsleep DEF NoSleepOnReadyRing, At, NobodyAt
  <1>2. ASSUME NEW t \in Readers, SetReadCursor(t)
        PROVE  NoSleepOnReadyRing'
    <2>0. t \in Threads /\ TypeOK
      BY DEF Threads, IInv
    <2>1. Leaves(t) /\ Signal(Done(t), "waitWrite", "wokenWrite")
      BY <1>2, <2>0, LeavesAfter DEF SetReadCursor
    <2>2. NobodyAt("waitWrite")'
      BY <2>0, <2>1, DoneIs, SignalWakes
    <2> QED
      BY <2>0, <2>1, <2>2, LeavesAsleep DEF NoSleepOnReadyRing, At, NobodyAt
  <1> QED
    BY <1>1, <1>2 DEF Advance

(* A thread goes to sleep on the condition it has just tested. *)
LEMMA BlockSleeps ==
    ASSUME IInv, NoSleepOnReadyRing,
           \/ \E t \in Readers, c \in ReadCalls : ReadWaits(t, c)
           \/ \E t \in Writers, c \in WriteCalls : WriteWaits(t, c)
    PROVE  NoSleepOnReadyRing'
  <1>0. pc \in [Threads -> PcValues]
    BY DEF IInv, TypeOK
  <1>1. ASSUME NEW t \in Readers, NEW c, ReadWaits(t, c)
        PROVE  NoSleepOnReadyRing'
    <2>1. IsEmpty /\ pc' = [pc EXCEPT ![t] = "waitRead"] /\ UNCHANGED <<r, w, full>>
      BY <1>1 DEF ReadWaits, Block, ring
    <2>2. (IsEmpty' <=> IsEmpty) /\ (full' <=> full)
      BY <2>1, SameRing
    <2>3. NobodyAt("waitWrite") => NobodyAt("waitWrite")'
      BY <1>0, <2>1 DEF NobodyAt
    <2> QED
      BY <2>1, <2>2, <2>3 DEF NoSleepOnReadyRing, At, NobodyAt
  <1>2. ASSUME NEW t \in Writers, NEW c, WriteWaits(t, c)
        PROVE  NoSleepOnReadyRing'
    <2>1. full /\ pc' = [pc EXCEPT ![t] = "waitWrite"] /\ UNCHANGED <<r, w, full>>
      BY <1>2 DEF WriteWaits, Block, ring
    <2>2. (IsEmpty' <=> IsEmpty) /\ (full' <=> full)
      BY <2>1, SameRing
    <2>3. NobodyAt("waitRead") => NobodyAt("waitRead")'
      BY <1>0, <2>1 DEF NobodyAt
    <2> QED
      BY <2>1, <2>2, <2>3 DEF NoSleepOnReadyRing, At, NobodyAt
  <1> QED
    BY <1>1, <1>2

(* Steps that put nobody to sleep and leave the ring as full as it was. *)
LEMMA QuietStep ==
    ASSUME IInv, NoSleepOnReadyRing, UNCHANGED <<r, w, full>>,
           NEW t \in Threads, NEW p, p \notin {"waitRead", "waitWrite"}, pc' = [pc EXCEPT ![t] = p]
    PROVE  NoSleepOnReadyRing'
  <1>1. (IsEmpty' <=> IsEmpty) /\ (full' <=> full)
    BY SameRing
  <1>2. /\ NobodyAt("waitRead") => NobodyAt("waitRead")'
        /\ NobodyAt("waitWrite") => NobodyAt("waitWrite")'
    BY DEF NobodyAt, IInv, TypeOK
  <1> QED
    BY <1>1, <1>2 DEF NoSleepOnReadyRing, At, NobodyAt

LEMMA OSStepWakes ==
    ASSUME IInv, NoSleepOnReadyRing, OSStep
    PROVE  NoSleepOnReadyRing'
  <1> PICK t \in Threads : WaitTimesOut(t) \/ SpuriousWakeup(t)
    BY DEF OSStep
  <1>1. PICK p \in {"idle", "wokenRead", "wokenWrite"} :
           pc' = [pc EXCEPT ![t] = p] /\ UNCHANGED <<r, w, full>>
    BY DEF WaitTimesOut, Return, Done, SpuriousWakeup, ring
  <1> QED
    BY <1>1, QuietStep

LEMMA DirectSleeps ==
    ASSUME IInv, NoSleepOnReadyRing, NEW t \in Threads,
           (\E units \in Payloads : DirectWrite(t, units)) \/ (\E n \in Sizes : DirectRead(t, n))
    PROVE  NoSleepOnReadyRing'
  <1>1. pc' = [pc EXCEPT ![t] = "advance"] /\ UNCHANGED <<r, w, full>>
    BY DEF DirectWrite, DirectRead, ring
  <1> QED
    BY <1>1, QuietStep

LEMMA ResetWakes ==
    ASSUME Single, IInv, Reset
    PROVE  NoSleepOnReadyRing'
  <1>1. full' = FALSE /\ r' = w /\ w' = w /\ Signal(pc, "waitWrite", "wokenWrite")
    BY DEF Reset
  <1>2. NobodyAt("waitWrite")'
    BY <1>1, SignalWakes DEF IInv, TypeOK
  <1>3. IsEmpty'
    BY <1>1 DEF IsEmpty
  <1> QED
    BY <1>2, <1>3 DEF NoSleepOnReadyRing, At, NobodyAt

(* Growing an empty ring leaves it empty; no writer waits meanwhile. *)
LEMMA EnsureSleeps ==
    ASSUME IInv, NoSleepOnReadyRing, \A t \in Writers : pc[t] = "idle",
           NEW n \in Sizes, EnsureWriteSpace(n)
    PROVE  NoSleepOnReadyRing'
  <1>1. r' = 0 /\ w' = Size /\ full' = FALSE /\ UNCHANGED pc
    BY DEF EnsureWriteSpace
  <1>2. IsEmpty => IsEmpty'
    BY <1>1, SizeIs DEF IInv, IsEmpty
  <1>3. NobodyAt("waitWrite")'
    BY <1>1 DEF NobodyAt, IInv, Calls
  <1>4. NobodyAt("waitRead") => NobodyAt("waitRead")'
    BY <1>1 DEF NobodyAt
  <1> QED
    BY <1>2, <1>3, <1>4 DEF NoSleepOnReadyRing, At, NobodyAt

LEMMA ReaderStepWakes ==
    ASSUME Single, IInv, IInv', NoSleepOnReadyRing, NEW t \in Readers, ReaderStep(t)
    PROVE  NoSleepOnReadyRing'
  <1>1. CASE \E c \in ReadCalls : ReadWaits(t, c)
    BY <1>1, BlockSleeps
  <1>2. CASE \E c : ReadBody(t, c)
    BY <1>2, ReadBodyWakes
  <1> QED
    BY <1>1, <1>2 DEF ReaderStep, Read, ReadResumes

LEMMA WakesStep ==
    ASSUME Single, IInv, IInv', NoSleepOnReadyRing, CarefulNext \/ AnyNext
    PROVE  NoSleepOnReadyRing'
  <1>1. ASSUME NEW t \in Readers, ReaderStep(t)
        PROVE  NoSleepOnReadyRing'
    BY <1>1, ReaderStepWakes
  <1>2. ASSUME NEW t \in Writers, NEW c \in WriteCalls, Write(t, c) \/ WriteWaits(t, c)
        PROVE  NoSleepOnReadyRing'
    BY <1>2, WriteBodyWakes, BlockSleeps DEF Write
  <1>3. ASSUME NEW t \in Writers, WriteResumes(t)
        PROVE  NoSleepOnReadyRing'
    BY <1>3, WriteBodyWakes DEF WriteResumes
  <1>4. ASSUME NEW t \in Writers, NEW units \in Payloads, DirectWrite(t, units)
        PROVE  NoSleepOnReadyRing'
    BY <1>4, DirectSleeps DEF Threads
  <1>5. ASSUME NEW t \in Readers, NEW n \in Sizes, DirectRead(t, n)
        PROVE  NoSleepOnReadyRing'
    BY <1>5, DirectSleeps DEF Threads
  <1>6. ASSUME \A t \in Writers : pc[t] = "idle", NEW n \in Sizes, EnsureWriteSpace(n)
        PROVE  NoSleepOnReadyRing'
    BY <1>6, EnsureSleeps
  <1>7. CASE Reset
    BY <1>7, ResetWakes
  <1>8. CASE Advance
    BY <1>8, AdvanceWakes
  <1>9. CASE OSStep
    BY <1>9, OSStepWakes
  <1>10. CASE CarefulNext
    BY <1>1, <1>2, <1>4, <1>5, <1>6, <1>7, <1>8, <1>9, <1>10 DEF CarefulNext
  <1>11. CASE AnyNext
    BY <1>1, <1>2, <1>3, <1>4, <1>5, <1>7, <1>8, <1>9, <1>11, BlankIs DEF AnyNext
  <1> QED
    BY <1>10, <1>11

(* With one reader and one writer, whatever operations they mix, a reader   *)
(* sleeps only on an empty ring and a writer only on a full one.            *)
THEOREM NeverSleepsReady ==
    ASSUME Single
    PROVE  Spec => []NoSleepOnReadyRing
  <1>1. Init => NoSleepOnReadyRing
    BY DEF Init, NoSleepOnReadyRing, At
  <1>2. ASSUME IInv, IInv', NoSleepOnReadyRing, [Next]_vars
        PROVE  NoSleepOnReadyRing'
    <2>1. CASE UNCHANGED vars
      BY <1>2, <2>1, SameRing DEF vars, state, NoSleepOnReadyRing, At
    <2>2. CASE Next
      BY <1>2, <2>2, WakesStep DEF Next
    <2> QED
      BY <1>2, <2>1, <2>2
  <1> QED
    BY <1>1, <1>2, Invariance, PTL DEF Spec
-----------------------------------------------------------------------------
(***************************************************************************)
(* Careful clients: the ring is a FIFO.                                    *)
(***************************************************************************)

(* The writer that filled cells without publishing them still finds them    *)
(* free, behind w, and holding what it wrote.                               *)
Filling ==
    \A t \in Writers : pc[t] = "advance" =>
        LET units == call[t].payload IN
        /\ units \in Payloads /\ Len(units) <= FreeSize
        /\ cursor[t] = w + Len(units)
        /\ \A j \in 1 .. Len(units) : data[Plus(w, j - 1, capacity)] = units[j]

(* The reader that looked at cells without releasing them still finds them  *)
(* at the front of the ring.                                               *)
Reading ==
    \A t \in Readers : pc[t] = "advance" =>
        LET units == call[t].payload IN
        /\ capacity = MaxCapacity
        /\ Len(units) \in 1 .. Size
        /\ cursor[t] = r + Len(units)
        /\ units = SubSeq(Contents, 1, Len(units))

(* A writer that leaves room never waits. *)
NoWriteWaits == NobodyAt("waitWrite") /\ NobodyAt("wokenWrite")

Orderly == Ring /\ Filling /\ Reading /\ NoWriteWaits

J == careful => Orderly

(* A step of the FIFO, or none. *)
Served == Fifo!FifoNext \/ UNCHANGED <<Contents, last>>

LEMMA KeepsFilling ==
    ASSUME Filling, UNCHANGED <<w, capacity, data>>, FreeSize \in Int, FreeSize' \in Int, FreeSize' >= FreeSize,
           \A u \in Writers : pc'[u] = "advance" => /\ pc[u] = "advance"
                                                    /\ call'[u] = call[u] /\ cursor'[u] = cursor[u]
    PROVE  Filling'
  <1> SUFFICES ASSUME NEW t \in Writers, pc'[t] = "advance"
               PROVE  LET units == call'[t].payload IN
                      /\ units \in Payloads /\ Len(units) <= FreeSize'
                      /\ cursor'[t] = w' + Len(units)
                      /\ \A j \in 1 .. Len(units) : data'[Plus(w', j - 1, capacity')] = units[j]
    BY DEF Filling
  <1>1. /\ call[t].payload \in Payloads /\ Len(call[t].payload) <= FreeSize
        /\ cursor[t] = w + Len(call[t].payload)
        /\ \A j \in 1 .. Len(call[t].payload) : data[Plus(w, j - 1, capacity)] = call[t].payload[j]
    BY DEF Filling
  <1>2. Len(call[t].payload) <= FreeSize'
    BY <1>1, PayloadIs
  <1> QED
    BY <1>1, <1>2

LEMMA KeepsReading ==
    ASSUME Reading, UNCHANGED <<r, capacity>>, Size \in Nat, Size' \in Nat, Size' >= Size,
           \A m \in 1 .. Size : SubSeq(Contents', 1, m) = SubSeq(Contents, 1, m),
           \A u \in Readers : pc'[u] = "advance" => /\ pc[u] = "advance"
                                                    /\ call'[u] = call[u] /\ cursor'[u] = cursor[u]
    PROVE  Reading'
  <1> SUFFICES ASSUME NEW t \in Readers, pc'[t] = "advance"
               PROVE  LET units == call'[t].payload IN
                      /\ capacity' = MaxCapacity
                      /\ Len(units) \in 1 .. Size'
                      /\ cursor'[t] = r' + Len(units)
                      /\ units = SubSeq(Contents', 1, Len(units))
    BY DEF Reading
  <1>1. /\ capacity = MaxCapacity /\ Len(call[t].payload) \in 1 .. Size
        /\ cursor[t] = r + Len(call[t].payload)
        /\ call[t].payload = SubSeq(Contents, 1, Len(call[t].payload))
    BY DEF Reading
  <1>2. Len(call[t].payload) \in 1 .. Size'
    BY <1>1
  <1> QED
    BY <1>1, <1>2

(* Nobody starts to use the cursors in a step that leaves. *)
LEMMA LeavesAdvance ==
    ASSUME IInv, NEW t \in Threads, Leaves(t), \A u \in Threads \ {t} : cursor'[u] = cursor[u]
    PROVE  /\ \A u \in Threads : pc'[u] = "advance" => /\ u # t /\ pc[u] = "advance"
                                                       /\ call'[u] = call[u] /\ cursor'[u] = cursor[u]
           /\ NoWriteWaits => NoWriteWaits'
  BY DEF Leaves, NoWriteWaits, NobodyAt, IInv, TypeOK

LEMMA SubSeqOfConcat ==
    ASSUME NEW S, NEW s \in Seq(S), NEW u \in Seq(S), NEW m \in 1 .. Len(s)
    PROVE  SubSeq(s \o u, 1, m) = SubSeq(s, 1, m)
  <1>1. /\ s \o u \in Seq(S) /\ Len(s \o u) = Len(s) + Len(u)
        /\ \A i \in 1 .. Len(s) + Len(u) : (s \o u)[i] = IF i <= Len(s) THEN s[i] ELSE u[i - Len(s)]
    BY ConcatProperties
  <1>2. Len(s) \in Nat /\ Len(u) \in Nat /\ m \in Nat /\ m - 1 + 1 = m
    OBVIOUS
  <1>3. \A i \in 1 .. m : i \in 1 .. Len(s) + Len(u) /\ i <= Len(s) /\ 1 + i - 1 = i /\ i \in 1 .. Len(s)
    BY <1>2
  <1>4. /\ SubSeq(s, 1, m) \in Seq(S) /\ Len(SubSeq(s, 1, m)) = m
        /\ \A i \in 1 .. m : SubSeq(s, 1, m)[i] = s[i]
    <2>1. \A i \in 1 .. m : s[i] \in S
      BY <1>3, ElementOfSeq
    <2> QED
      BY <1>2, <1>3, <2>1, SubSeqProperties
  <1>5. /\ SubSeq(s \o u, 1, m) \in Seq(S) /\ Len(SubSeq(s \o u, 1, m)) = m
        /\ \A i \in 1 .. m : SubSeq(s \o u, 1, m)[i] = (s \o u)[i]
    <2>1. \A i \in 1 .. m : (s \o u)[i] \in S
      BY <1>1, <1>3, ElementOfSeq
    <2> QED
      BY <1>2, <1>3, <2>1, SubSeqProperties
  <1>6. \A i \in 1 .. m : (s \o u)[i] = s[i]
    BY <1>1, <1>3
  <1> QED
    BY <1>4, <1>5, <1>6, SeqEqual

LEMMA SizesAre ==
    ASSUME TypeOK
    PROVE  Size \in Nat /\ FreeSize \in Nat /\ Size + FreeSize = capacity /\ Len(Contents) = Size
  BY SizeIs, CapacityIs, ContentsAre

(* A reader, having copied or looked at k units, moves r over them. *)
LEMMA ReadServed ==
    ASSUME IInv, IInv', Single, Orderly, careful, careful', NEW t \in Readers, Leaves(t),
           \A u \in Threads \ {t} : cursor'[u] = cursor[u],
           NEW k \in 0 .. Size, UNCHANGED <<w, capacity, data>>, r' = Plus(r, k, capacity),
           full' <=> full /\ k = 0,
           \/ last' = [op |-> "read", units |-> SubSeq(Contents, 1, k)]
           \/ last' = [op |-> "skip", units |-> <<>>]
    PROVE  Orderly' /\ Served
  <1>0. TypeOK /\ TypeOK' /\ t \in Threads /\ Ring
    BY DEF IInv, Threads, Orderly
  <1>1. Contents' = SubSeq(Contents, k + 1, Len(Contents)) /\ Size' = Size - k
    BY <1>0, Dropped
  <1>2. Ring'
    <2>1. Plus(r, 0, capacity) = r
      BY <1>0, CapacityIs, PlusIs DEF Wrap
    <2> QED
      BY <1>0, <2>1 DEF Ring
  <1>3. FreeSize' \in Nat /\ FreeSize \in Nat /\ FreeSize' >= FreeSize
    <2>1. Size \in Nat /\ FreeSize \in Nat /\ Size + FreeSize = capacity /\ capacity \in Nat
      BY <1>0, SizesAre, CapacityIs
    <2>2. FreeSize' = capacity - Size'
      BY DEF FreeSize
    <2> QED
      BY <1>1, <2>1, <2>2
  <1>4. /\ \A u \in Threads : pc'[u] = "advance" => /\ u # t /\ pc[u] = "advance"
                                                    /\ call'[u] = call[u] /\ cursor'[u] = cursor[u]
        /\ NoWriteWaits'
    BY <1>0, LeavesAdvance DEF Orderly
  <1>5. Filling'
    BY <1>3, <1>4, KeepsFilling DEF Orderly, Threads
  <1>6. Reading'
    BY <1>4 DEF Reading, Single, Threads
  <1>7. Fifo!FifoRead(k) \/ Fifo!FifoSkip(k)
    BY <1>1 DEF Fifo!FifoRead, Fifo!FifoSkip, Fifo!Returned
  <1>8. Served
    <2>1. k \in 0 .. Len(IF careful THEN Contents ELSE <<>>)
      BY <1>0, ContentsAre
    <2> QED
      BY <1>7, <2>1 DEF Served, Fifo!FifoNext
  <1> QED
    BY <1>2, <1>4, <1>5, <1>6, <1>8 DEF Orderly

(* Steps that leave the ring as it is, and only leave. *)
LEMMA SameContents ==
    ASSUME UNCHANGED ring
    PROVE  Contents' = Contents /\ Size' = Size /\ FreeSize' = FreeSize
  BY DEF ring, Contents, Size, FreeSize

LEMMA SameOrderly ==
    ASSUME IInv, Orderly, UNCHANGED <<ring, cursor>>,
           \A u \in Threads : pc'[u] = "advance" => pc[u] = "advance" /\ call'[u] = call[u]
    PROVE  Ring' /\ Filling' /\ Reading'
  <1>1. Contents' = Contents /\ Size' = Size /\ FreeSize' = FreeSize
    BY SameContents
  <1>2. Size \in Nat /\ FreeSize \in Nat
    BY SizesAre DEF IInv
  <1>3. Ring'
    BY DEF Orderly, Ring, ring
  <1>4. Filling'
    BY <1>1, <1>2, KeepsFilling DEF Orderly, ring, Threads
  <1>5. Reading'
    BY <1>1, <1>2, KeepsReading DEF Orderly, ring, Threads
  <1> QED
    BY <1>3, <1>4, <1>5

LEMMA ReadBodyServed ==
    ASSUME IInv, IInv', Single, Orderly, careful, careful',
           NEW t \in Readers, NEW c \in ReadCalls, ReadBody(t, c)
    PROVE  Orderly' /\ Served
  <1>0. TypeOK /\ t \in Threads /\ UNCHANGED cursor /\ c.size \in Nat
    BY RingBufferAssumption DEF IInv, Threads, ReadBody, ReadCalls, Sizes, RingBufferAssumption
  <1>1. Leaves(t)
    BY <1>0, LeavesAfter DEF ReadBody
  <1> DEFINE k == SmallerOf(c.size, Size)
  <1>2. k \in 0 .. Size /\ FirstUnits(c.size) = SubSeq(Contents, 1, k)
    BY <1>0, FirstUnitsAre
  <1>3. CASE /\ Consume(c.size)
             /\ Returned("read", FirstUnits(c.size)) \/ Returned("skip", <<>>)
    <2>1. r' = Plus(r, k, capacity) /\ (full' <=> full /\ k = 0) /\ UNCHANGED <<w, capacity, data>>
      BY <1>3 DEF Consume, Plus
    <2>2. \/ last' = [op |-> "read", units |-> SubSeq(Contents, 1, k)]
          \/ last' = [op |-> "skip", units |-> <<>>]
      BY <1>2, <1>3 DEF Returned
    <2> HIDE DEF k
    <2> QED
      BY <1>0, <1>1, <1>2, <2>1, <2>2, ReadServed
  <1>4. CASE UNCHANGED ring /\ (UNCHANGED last \/ Returned("peek", FirstUnits(c.size)))
    <2>1. /\ \A u \in Threads : pc'[u] = "advance" => pc[u] = "advance" /\ call'[u] = call[u]
          /\ NoWriteWaits'
      BY <1>0, <1>1, LeavesAdvance DEF Orderly
    <2>2. Orderly'
      BY <1>0, <1>4, <2>1, SameOrderly DEF Orderly
    <2>3. Contents' = Contents
      BY <1>4, SameContents
    <2>4. CASE Returned("peek", FirstUnits(c.size))
      <3>1. k \in 0 .. Len(IF careful THEN Contents ELSE <<>>)
        BY <1>0, <1>2, ContentsAre
      <3>2. Fifo!FifoPeek(k)
        BY <1>2, <2>3, <2>4 DEF Returned, Fifo!FifoPeek, Fifo!Returned
      <3> QED
        BY <2>2, <3>1, <3>2 DEF Served, Fifo!FifoNext
    <2> QED
      BY <1>4, <2>2, <2>3, <2>4 DEF Served
  <1> QED
    BY <1>3, <1>4 DEF ReadBody

(* Units appear behind the contents: copied by a write, or published by a   *)
(* moved write cursor.                                                     *)
LEMMA WriteServed ==
    ASSUME IInv, IInv', Single, Orderly, careful, careful', NEW t \in Writers, Leaves(t),
           \A u \in Threads \ {t} : cursor'[u] = cursor[u],
           NEW units \in Payloads, Len(units) <= FreeSize,
           UNCHANGED <<r, capacity>>, w' = Plus(w, Len(units), capacity),
           full' <=> Len(units) = FreeSize, Ring',
           \A i \in 1 .. Size : data'[Nth(i - 1)] = data[Nth(i - 1)],
           \A j \in 1 .. Len(units) : data'[Plus(w, j - 1, capacity)] = units[j],
           last' = [op |-> "write", units |-> units]
    PROVE  Orderly' /\ Served
  <1>0. TypeOK /\ TypeOK' /\ t \in Threads /\ Ring
    BY DEF IInv, Threads, Orderly
  <1>1. Contents' = Contents \o units /\ Size' = Size + Len(units)
    BY <1>0, Appended
  <1>2. /\ \A u \in Threads : pc'[u] = "advance" => /\ u # t /\ pc[u] = "advance"
                                                    /\ call'[u] = call[u] /\ cursor'[u] = cursor[u]
        /\ NoWriteWaits'
    BY <1>0, LeavesAdvance DEF Orderly
  <1>3. Filling'
    BY <1>2 DEF Filling, Single, Threads
  <1>4. units \in Seq(Values \cup {Junk}) /\ Len(units) \in Nat /\ units \in [1 .. Len(units) -> Values]
    BY PayloadIs, SeqMonotonic
  <1>5. /\ Size \in Nat /\ Size' >= Size /\ Size' \in Nat
        /\ Size + Len(units) <= MaxCapacity /\ Len(units) \in 0 .. MaxCapacity
    BY <1>0, <1>1, <1>4, SizesAre, CapacityIs
  <1>6. Reading'
    <2>1. \A m \in 1 .. Size : SubSeq(Contents', 1, m) = SubSeq(Contents, 1, m)
      BY <1>0, <1>1, <1>4, ContentsAre, SubSeqOfConcat
    <2> QED
      BY <1>2, <1>5, <2>1, KeepsReading DEF Orderly, Threads
  <1>7. Fifo!FifoWrite(units)
    BY <1>0, <1>1, <1>5, ContentsAre DEF Fifo!FifoWrite, Fifo!Returned
  <1>8. Served
    BY <1>4, <1>5, <1>7 DEF Served, Fifo!FifoNext
  <1> QED
    BY <1>2, <1>3, <1>6, <1>8 DEF Orderly

LEMMA WriteCallServed ==
    ASSUME IInv, IInv', Single, Orderly, careful, careful', NEW t \in Writers, NEW c \in WriteCalls,
           Len(c.payload) < FreeSize, Write(t, c)
    PROVE  Orderly' /\ Served
  <1> DEFINE units == c.payload
  <1>0. /\ TypeOK /\ t \in Threads /\ UNCHANGED cursor /\ units \in Payloads
        /\ Ring /\ ~full /\ WriteBody(t, c)
    BY DEF IInv, Threads, Write, WriteBody, WriteCalls, Orderly
  <1>1. Leaves(t)
    BY <1>0, LeavesAfter DEF WriteBody
  <1>2. units \in Seq(Values) /\ Len(units) \in Nat \ {0} /\ FreeSize \in Nat
    BY <1>0, PayloadIs, SizesAre
  <1>3. SubSeq(units, 1, SmallerOf(Len(units), FreeSize)) = units /\ ~(FreeSize < Len(units))
    BY <1>0, <1>2, FitsIs
  <1>4. AppendUnits(units) /\ Returned("write", units)
    BY <1>0, <1>3 DEF WriteBody, GrowAndAppend, CanGrow
  <1>5. /\ data' = Store(data, w, capacity, units) /\ w' = Plus(w, Len(units), capacity)
        /\ UNCHANGED <<r, capacity>> /\ ~full' /\ last' = [op |-> "write", units |-> units]
    BY <1>0, <1>4 DEF AppendUnits, Returned, Plus
  <1>6. /\ \A i \in 1 .. Size : data'[Nth(i - 1)] = data[Nth(i - 1)]
        /\ \A j \in 1 .. Len(units) : data'[Plus(w, j - 1, capacity)] = units[j]
    BY <1>0, <1>2, <1>5, StoreAppends
  <1>7. Ring' /\ (full' <=> Len(units) = FreeSize) /\ Len(units) <= FreeSize
    BY <1>2, <1>5 DEF Ring
  <1> HIDE DEF units
  <1> QED
    BY <1>0, <1>1, <1>5, <1>6, <1>7, WriteServed

(* The write cursor reaches r again only when the ring is full. *)
LEMMA MeetsAtFull ==
    ASSUME TypeOK, Ring, NEW n \in Nat \ {0}, n <= FreeSize
    PROVE  Plus(w, n, capacity) = r <=> n = FreeSize
  <1>1. /\ Size \in Nat /\ FreeSize \in Nat /\ Size + FreeSize = capacity
        /\ capacity \in Nat \ {0} /\ r \in 0 .. capacity - 1
    BY SizesAre, CapacityIs
  <1>2. Plus(w, n, capacity) = Nth(Size + n) /\ Size + n \in 1 .. capacity
    BY <1>1, RingIs
  <1>3. Nth(Size + n) = Wrap(r + (Size + n), capacity)
    BY <1>1, <1>2, PlusIs DEF Nth
  <1>4. Wrap(r + (Size + n), capacity) = r <=> Size + n = capacity
    BY <1>1, <1>2 DEF Wrap
  <1> QED
    BY <1>1, <1>2, <1>3, <1>4

LEMMA SetWriteCursorServed ==
    ASSUME IInv, IInv', Single, Orderly, careful, careful', NEW t \in Writers, SetWriteCursor(t)
    PROVE  Orderly' /\ Served
  <1> DEFINE units == call[t].payload
  <1>0. TypeOK /\ t \in Threads /\ Ring
    BY DEF IInv, Threads, Orderly
  <1>1. Leaves(t)
    BY <1>0, LeavesAfter DEF SetWriteCursor
  <1>2. /\ units \in Payloads /\ Len(units) <= FreeSize /\ cursor[t] = w + Len(units)
        /\ \A j \in 1 .. Len(units) : data[Plus(w, j - 1, capacity)] = units[j]
    BY DEF SetWriteCursor, Orderly, Filling
  <1>3. Len(units) \in Nat \ {0} /\ FreeSize \in Nat
    BY <1>0, <1>2, PayloadIs, SizesAre
  <1>4. /\ w' = Plus(w, Len(units), capacity) /\ full' = (full \/ r = w') /\ UNCHANGED <<r, capacity, data>>
        /\ last' = [op |-> "write", units |-> units] /\ cursor' = [cursor EXCEPT ![t] = 0]
    BY <1>2 DEF SetWriteCursor, Returned, Plus
  <1>5. ~full
    BY <1>0, <1>2, <1>3, SizeIs, SizesAre
  <1>6. r = w' <=> Len(units) = FreeSize
    BY <1>0, <1>2, <1>3, <1>4, MeetsAtFull
  <1>7. (full' <=> Len(units) = FreeSize) /\ Ring'
    BY <1>4, <1>5, <1>6 DEF Ring
  <1>8. \A u \in Threads \ {t} : cursor'[u] = cursor[u]
    BY <1>0, <1>4 DEF TypeOK
  <1>9. /\ \A i \in 1 .. Size : data'[Nth(i - 1)] = data[Nth(i - 1)]
        /\ \A j \in 1 .. Len(units) : data'[Plus(w, j - 1, capacity)] = units[j]
    BY <1>2, <1>4
  <1> HIDE DEF units
  <1> QED
    BY <1>1, <1>2, <1>4, <1>7, <1>8, <1>9, WriteServed

LEMMA SetReadCursorServed ==
    ASSUME IInv, IInv', Single, Orderly, careful, careful', NEW t \in Readers, SetReadCursor(t)
    PROVE  Orderly' /\ Served
  <1> DEFINE units == call[t].payload
             k == Len(units)
  <1>0. TypeOK /\ t \in Threads /\ Size \in Nat
    BY SizesAre DEF IInv, Threads
  <1>1. Leaves(t)
    BY <1>0, LeavesAfter DEF SetReadCursor
  <1>2. k \in 1 .. Size /\ cursor[t] = r + k /\ units = SubSeq(Contents, 1, k)
    BY DEF SetReadCursor, Orderly, Reading
  <1>3. /\ r' = Plus(r, k, capacity) /\ full' = FALSE /\ UNCHANGED <<w, capacity, data>>
        /\ last' = [op |-> "read", units |-> units] /\ cursor' = [cursor EXCEPT ![t] = 0]
    BY <1>2 DEF SetReadCursor, Returned, Plus
  <1>4. \A u \in Threads \ {t} : cursor'[u] = cursor[u]
    BY <1>0, <1>3 DEF TypeOK
  <1>5. k \in 0 .. Size /\ (full' <=> full /\ k = 0)
    BY <1>0, <1>2, <1>3
  <1>6. last' = [op |-> "read", units |-> SubSeq(Contents, 1, k)]
    BY <1>2, <1>3
  <1> HIDE DEF units, k
  <1> QED
    BY <1>1, <1>3, <1>4, <1>5, <1>6, ReadServed

(* Filling cells behind w changes nothing a reader can see. *)
LEMMA DirectWriteServed ==
    ASSUME IInv, IInv', Single, Orderly, NEW t \in Writers, NEW units \in Payloads, DirectWrite(t, units)
    PROVE  Orderly' /\ Served
  <1>0. TypeOK /\ TypeOK' /\ t \in Threads /\ Ring
    BY DEF IInv, Threads, Orderly
  <1>1. /\ Len(units) <= FreeSize /\ data' = Store(data, w, capacity, units)
        /\ cursor' = [cursor EXCEPT ![t] = w + Len(units)]
        /\ call' = [call EXCEPT ![t] = [op |-> "direct", payload |-> units]]
        /\ pc' = [pc EXCEPT ![t] = "advance"]
        /\ UNCHANGED <<r, w, full, capacity, last>>
    BY DEF DirectWrite
  <1>2. /\ \A i \in 1 .. Size : data'[Nth(i - 1)] = data[Nth(i - 1)]
        /\ \A j \in 1 .. Len(units) : data'[Plus(w, j - 1, capacity)] = units[j]
    BY <1>0, <1>1, StoreAppends
  <1>3. Size' = Size /\ FreeSize' = FreeSize /\ Size \in Nat
    BY <1>0, <1>1, SizesAre DEF Size, FreeSize
  <1>4. Contents' = Contents
    <2>1. /\ Contents' \in Seq(Values \cup {Junk}) /\ Len(Contents') = Size
          /\ \A i \in 1 .. Size : Contents'[i] = data'[Plus(r', i - 1, capacity')]
      <3>1. /\ Size \in 0 .. capacity' /\ (full' <=> Size = capacity')
            /\ w' = Plus(r', Size, capacity')
        BY <1>0, <1>1, SizeIs, RingIs DEF Nth
      <3> QED
        BY <1>0, <3>1, ContentsFrom
    <2>2. \A i \in 1 .. Size : Contents'[i] = Contents[i]
      BY <1>0, <1>1, <1>2, <2>1, ContentsAre DEF Nth
    <2> QED
      BY <1>0, <2>1, <2>2, ContentsAre, SeqEqual
  <1>5. /\ pc'[t] = "advance" /\ call'[t].payload = units /\ cursor'[t] = w + Len(units)
        /\ \A u \in Threads : u # t => pc'[u] = pc[u] /\ call'[u] = call[u] /\ cursor'[u] = cursor[u]
    BY <1>0, <1>1 DEF TypeOK
  <1>6. Filling'
    BY <1>1, <1>2, <1>3, <1>5 DEF Filling, Single
  <1>7. Reading'
    BY <1>1, <1>3, <1>4, <1>5, KeepsReading, RingBufferAssumption DEF Orderly, RingBufferAssumption, Threads
  <1>8. Ring' /\ NoWriteWaits'
    BY <1>0, <1>1, <1>5 DEF Ring, Orderly, NoWriteWaits, NobodyAt
  <1> QED
    BY <1>1, <1>4, <1>6, <1>7, <1>8 DEF Orderly, Served

LEMMA DirectReadServed ==
    ASSUME IInv, Single, Orderly, NEW t \in Readers, NEW n \in Sizes,
           capacity = MaxCapacity, DirectRead(t, n)
    PROVE  Orderly' /\ Served
  <1>0. TypeOK /\ t \in Threads /\ n \in Nat \ {0}
    BY RingBufferAssumption DEF IInv, Threads, Sizes, RingBufferAssumption
  <1>1. /\ n <= Size /\ cursor' = [cursor EXCEPT ![t] = r + n]
        /\ call' = [call EXCEPT ![t] = [op |-> "direct", payload |-> FirstUnits(n)]]
        /\ pc' = [pc EXCEPT ![t] = "advance"]
        /\ UNCHANGED <<ring, last>>
    BY DEF DirectRead
  <1>2. Contents' = Contents /\ Size' = Size /\ FreeSize' = FreeSize /\ Size \in Nat /\ FreeSize \in Nat
    BY <1>0, <1>1, SameContents, SizesAre
  <1>3. FirstUnits(n) = SubSeq(Contents, 1, n) /\ Len(FirstUnits(n)) = n
    BY <1>0, <1>1, FirstUnitsAre
  <1>4. /\ pc'[t] = "advance" /\ call'[t].payload = FirstUnits(n) /\ cursor'[t] = r + n
        /\ \A u \in Threads : u # t => pc'[u] = pc[u] /\ call'[u] = call[u] /\ cursor'[u] = cursor[u]
    BY <1>0, <1>1 DEF TypeOK
  <1>5. Reading'
    <2>1. n \in 1 .. Size' /\ capacity' = MaxCapacity /\ r' = r
      BY <1>0, <1>1, <1>2 DEF ring
    <2> QED
      BY <1>2, <1>3, <1>4, <2>1 DEF Reading, Single
  <1>6. Filling'
    BY <1>1, <1>2, <1>4, KeepsFilling, RingBufferAssumption DEF Orderly, RingBufferAssumption, Threads, ring
  <1>7. Ring' /\ NoWriteWaits'
    BY <1>0, <1>1, <1>4 DEF Ring, ring, Orderly, NoWriteWaits, NobodyAt
  <1> QED
    BY <1>1, <1>2, <1>5, <1>6, <1>7 DEF Orderly, Served

(* Growing moves the contents to the front and keeps them; nobody is using  *)
(* the cursors meanwhile.                                                  *)
LEMMA EnsureServed ==
    ASSUME IInv, IInv', Orderly, \A t \in Writers : pc[t] = "idle", NEW n \in Sizes, EnsureWriteSpace(n)
    PROVE  Orderly' /\ Served
  <1>0. TypeOK /\ TypeOK' /\ n \in Nat /\ Size \in Nat
    BY RingBufferAssumption, SizesAre DEF IInv, Sizes, RingBufferAssumption
  <1>1. /\ CanGrow(n) /\ capacity' = Grown(n) /\ r' = 0 /\ w' = Size /\ full' = FALSE /\ data' = Moved
        /\ UNCHANGED <<pc, call, cursor, last>>
    BY DEF EnsureWriteSpace
  <1>2. Size < capacity' /\ capacity < MaxCapacity /\ capacity' \in Nat \ {0}
    BY <1>0, <1>1, GrownIs, CapacityFits
  <1>3. \A k \in 0 .. Size : Plus(r', k, capacity') = k
    <2> TAKE k \in 0 .. Size
    <2>1. Plus(0, k, capacity') = k
      BY <1>0, <1>2, FromZero
    <2> QED
      BY <1>1, <2>1
  <1>4. /\ Size' = Size /\ Contents' \in Seq(Values \cup {Junk}) /\ Len(Contents') = Size
        /\ \A i \in 1 .. Size : Contents'[i] = data'[Plus(r', i - 1, capacity')]
    <2>1. Size \in 0 .. capacity' /\ (full' <=> Size = capacity') /\ w' = Plus(r', Size, capacity')
      BY <1>0, <1>1, <1>2, <1>3
    <2> QED
      BY <1>0, <2>1, ContentsFrom
  <1>5. Contents' = Contents
    <2>1. \A i \in 1 .. Size : Contents'[i] = Contents[i]
      <3> TAKE i \in 1 .. Size
      <3>1. i - 1 \in 0 .. Size
        BY <1>0
      <3>2. Contents'[i] = Moved[i - 1]
        BY <1>1, <1>3, <1>4, <3>1
      <3> QED
        BY <1>0, <3>2, MovedIs
    <2> QED
      BY <1>0, <1>4, <2>1, ContentsAre, SeqEqual
  <1>6. Filling'
    BY <1>1 DEF Filling
  <1>7. Reading'
    BY <1>0, <1>1, <1>2, CapacityIs DEF Reading, Orderly
  <1>8. Ring' /\ NoWriteWaits'
    BY <1>1 DEF Ring, Orderly, NoWriteWaits, NobodyAt
  <1> QED
    BY <1>1, <1>5, <1>6, <1>7, <1>8 DEF Orderly, Served

LEMMA ResetServed ==
    ASSUME IInv, IInv', Orderly, careful, careful', \A t \in Threads : pc[t] # "advance", Reset
    PROVE  Orderly' /\ Served
  <1>0. TypeOK /\ TypeOK' /\ pc \in [Threads -> PcValues] /\ "wokenWrite" \in PcValues
    BY DEF IInv, TypeOK, PcValues
  <1>1. /\ full' = FALSE /\ r' = w /\ UNCHANGED <<w, capacity>>
        /\ Signal(pc, "waitWrite", "wokenWrite") /\ last' = [op |-> "reset", units |-> <<>>]
    BY DEF Reset, Returned
  <1>2. \A u \in Threads : pc'[u] = pc[u]
    BY <1>0, <1>1, SignalIs DEF Orderly, NoWriteWaits, NobodyAt
  <1>3. Size' = 0 /\ Len(Contents') = 0 /\ Contents' \in Seq(Values \cup {Junk})
    <2>1. capacity \in Nat \ {0} /\ w \in 0 .. capacity - 1
      BY <1>0, CapacityIs
    <2>2. 0 \in 0 .. capacity' /\ (full' <=> 0 = capacity') /\ w' = Plus(r', 0, capacity')
      BY <1>1, <2>1, PlusIs DEF Wrap
    <2> QED
      BY <1>0, <2>2, ContentsFrom
  <1>4. Contents' = <<>>
    BY <1>3, EmptySeq
  <1>5. Fifo!FifoReset
    BY <1>1, <1>4 DEF Fifo!FifoReset, Fifo!Returned
  <1>6. Orderly'
    BY <1>1, <1>2 DEF Orderly, Ring, Filling, Reading, NoWriteWaits, NobodyAt, Threads
  <1> QED
    BY <1>5, <1>6 DEF Served, Fifo!FifoNext

LEMMA QuietServed ==
    ASSUME IInv, Orderly,
           \/ OSStep
           \/ \E t \in Readers, c \in ReadCalls : ReadWaits(t, c)
    PROVE  Orderly' /\ Served
  <1>0. TypeOK
    BY DEF IInv
  <1> DEFINE AnyCall == ReadCalls \cup WriteCalls \cup DirectCalls \cup {NoCall}
  <1>1. PICK t \in Threads, p \in {"idle", "wokenRead", "waitRead"}, c \in AnyCall :
           /\ pc[t] # "advance" /\ UNCHANGED <<ring, cursor, last>>
           /\ pc' = [pc EXCEPT ![t] = p] /\ call' = [call EXCEPT ![t] = c]
    <2>1. ASSUME NEW t \in Threads, WaitTimesOut(t)
          PROVE  /\ pc[t] # "advance" /\ UNCHANGED <<ring, cursor, last>>
                 /\ pc' = [pc EXCEPT ![t] = "idle"] /\ call' = [call EXCEPT ![t] = NoCall]
      BY <2>1 DEF WaitTimesOut, Return, Done
    <2>2. ASSUME NEW t \in Threads, SpuriousWakeup(t)
          PROVE  /\ pc[t] # "advance" /\ UNCHANGED <<ring, cursor, last>>
                 /\ pc' = [pc EXCEPT ![t] = "wokenRead"] /\ call' = [call EXCEPT ![t] = call[t]]
      BY <1>0, <2>2 DEF SpuriousWakeup, Orderly, NoWriteWaits, NobodyAt, TypeOK
    <2>3. ASSUME NEW t \in Readers, NEW c \in ReadCalls, ReadWaits(t, c)
          PROVE  /\ t \in Threads /\ pc[t] # "advance" /\ UNCHANGED <<ring, cursor, last>>
                 /\ pc' = [pc EXCEPT ![t] = "waitRead"] /\ call' = [call EXCEPT ![t] = c]
      BY <2>3 DEF ReadWaits, Block, Threads
    <2> QED
      BY <1>0, <2>1, <2>2, <2>3 DEF OSStep, TypeOK
  <1>2. /\ pc'[t] = p
        /\ \A u \in Threads : u # t => pc'[u] = pc[u] /\ call'[u] = call[u]
    BY <1>0, <1>1 DEF TypeOK
  <1>3. Ring' /\ Filling' /\ Reading'
    BY <1>1, <1>2, SameOrderly
  <1>4. NoWriteWaits'
    BY <1>2 DEF Orderly, NoWriteWaits, NobodyAt
  <1>5. Contents' = Contents
    BY <1>1, SameContents
  <1> QED
    BY <1>1, <1>3, <1>4, <1>5 DEF Orderly, Served

LEMMA CarefulServed ==
    ASSUME IInv, IInv', Single, Orderly, careful, careful', CarefulNext
    PROVE  Orderly' /\ Served
  <1>1. ASSUME NEW t \in Readers, ReaderStep(t)
        PROVE  Orderly' /\ Served
    <2>1. CASE \E c \in ReadCalls : ReadWaits(t, c)
      BY <2>1, QuietServed
    <2>2. CASE \E c \in ReadCalls : Read(t, c)
      BY <2>2, ReadBodyServed DEF Read
    <2>3. CASE ReadResumes(t)
      <3>1. call[t] \in ReadCalls /\ ReadBody(t, call[t])
        BY <2>3 DEF ReadResumes, IInv, Calls, Threads
      <3> QED
        BY <3>1, ReadBodyServed
    <2> QED
      BY <1>1, <2>1, <2>2, <2>3 DEF ReaderStep
  <1>2. ASSUME NEW t \in Writers, NEW c \in WriteCalls, Len(c.payload) < FreeSize, Write(t, c)
        PROVE  Orderly' /\ Served
    BY <1>2, WriteCallServed
  <1>3. ASSUME NEW t \in Writers, NEW units \in Payloads, DirectWrite(t, units)
        PROVE  Orderly' /\ Served
    BY <1>3, DirectWriteServed
  <1>4. ASSUME \A t \in Writers : pc[t] = "idle", NEW n \in Sizes, EnsureWriteSpace(n)
        PROVE  Orderly' /\ Served
    BY <1>4, EnsureServed
  <1>5. ASSUME capacity = MaxCapacity, NEW t \in Readers, NEW n \in Sizes, DirectRead(t, n)
        PROVE  Orderly' /\ Served
    BY <1>5, DirectReadServed
  <1>6. CASE (\A t \in Threads : pc[t] # "advance") /\ Reset
    BY <1>6, ResetServed
  <1>7. CASE Advance
    BY <1>7, SetWriteCursorServed, SetReadCursorServed DEF Advance
  <1>8. CASE OSStep
    BY <1>8, QuietServed
  <1> QED
    BY <1>1, <1>2, <1>3, <1>4, <1>5, <1>6, <1>7, <1>8 DEF CarefulNext

LEMMA InitOrderly ==
    ASSUME Init
    PROVE  Orderly /\ Contents = <<>>
  <1>1. TypeOK
    BY InitHolds DEF IInv
  <1>2. Size = 0
    BY <1>1, SizeIs DEF Init, IsEmpty
  <1>3. Contents = <<>>
    BY <1>1, <1>2, ContentsAre, EmptySeq
  <1>4. Orderly
    BY DEF Init, Orderly, Ring, Filling, Reading, NoWriteWaits, NobodyAt, Threads
  <1> QED
    BY <1>3, <1>4

LEMMA OrderlyStep ==
    ASSUME Single, IInv, IInv', J, [Next]_vars
    PROVE  J' /\ [Fifo!FifoNext]_(Fifo!fifoVars)
  <1>1. CASE UNCHANGED vars
    <2>1. UNCHANGED ring /\ UNCHANGED <<cursor, pc, call, last, careful>>
      BY <1>1 DEF vars, state, ring
    <2>2. J'
      BY <2>1, SameOrderly DEF J, Orderly, NoWriteWaits, NobodyAt
    <2>3. UNCHANGED Fifo!fifoVars
      BY <2>1, SameContents DEF Fifo!fifoVars
    <2> QED
      BY <2>2, <2>3
  <1>2. CASE Next /\ careful
    <2>1. careful' /\ CarefulNext
      BY <1>2 DEF Next
    <2>2. Orderly' /\ Served
      BY <1>2, <2>1, CarefulServed DEF J
    <2>3. UNCHANGED <<Contents, last>> => UNCHANGED Fifo!fifoVars
      BY <1>2, <2>1 DEF Fifo!fifoVars
    <2> QED
      BY <2>2, <2>3 DEF J, Served
  <1>3. CASE Next /\ ~careful
    <2>1. ~careful'
      BY <1>3 DEF Next
    <2> QED
      BY <1>3, <2>1 DEF J, Fifo!fifoVars
  <1> QED
    BY <1>1, <1>2, <1>3

(* With one reader and one writer who keep to the rules of CarefulNext the  *)
(* ring implements a FIFO of units, of any size and however it grows.       *)
THEOREM RefinesByteFifo ==
    ASSUME Single
    PROVE  Spec => ImplementsByteFifo
  <1>1. Init => J /\ Fifo!FifoInit
    BY InitOrderly DEF J, Fifo!FifoInit, Init
  <1>2. IInv /\ IInv' /\ J /\ [Next]_vars => J' /\ [Fifo!FifoNext]_(Fifo!fifoVars)
    BY OrderlyStep
  <1> QED
    BY <1>1, <1>2, Invariance, PTL DEF Spec, ImplementsByteFifo, Fifo!FifoSpec
-----------------------------------------------------------------------------
(***************************************************************************)
(* ThreadSafeQueue.                                                        *)
(***************************************************************************)
Distinct(s) == \A i, j \in 1 .. Len(s) : s[i] = s[j] => i = j
Elems(s) == {s[i] : i \in 1 .. Len(s)}

(* Every block is listed once, or held by one thread, or neither; exactly  *)
(* the blocks that are listed or held are live.  A thread inside a dequeue  *)
(* holds nothing, a destroyed queue is empty, and only it is freed.         *)
Owned ==
    /\ Distinct(items)
    /\ \A t \in Users : taken[t] \cap Elems(items) = {}
    /\ \A t, u \in Users : t # u => taken[t] \cap taken[u] = {}
    /\ \A d \in Data : heap[d] # "freed twice"
    /\ \A d \in Data : heap[d] = "live" <=> d \in Elems(items) \/ \E t \in Users : d \in taken[t]
    /\ \A t \in Inside : taken[t] = {}
    /\ is_destroyed => items = <<>>
    /\ freed => is_destroyed

QInv == QTypeOK /\ Owned
-----------------------------------------------------------------------------
(***************************************************************************)
(* Lists of blocks.                                                        *)
(***************************************************************************)
LEMMA ElemsAre ==
    ASSUME NEW S, NEW s \in Seq(S)
    PROVE  /\ Elems(s) \subseteq S /\ Elems(s) = ToSet(s) /\ Len(s) \in Nat
           /\ \A x : x \in Elems(s) <=> \E i \in 1 .. Len(s) : x = s[i]
  BY DEF Elems, ToSet

LEMMA EmptyElems == Elems(<<>>) = {} /\ Distinct(<<>>) /\ Len(<<>>) = 0
  BY DEF Elems, Distinct

LEMMA FrontLeaves ==
    ASSUME NEW S, NEW s \in Seq(S), Distinct(s), s # <<>>
    PROVE  /\ Head(s) \in Elems(s) /\ Tail(s) \in Seq(S) /\ Distinct(Tail(s))
           /\ Elems(Tail(s)) = Elems(s) \ {Head(s)}
           /\ Len(Tail(s)) = Len(s) - 1
  <1>1. /\ Len(s) \in Nat \ {0} /\ Head(s) = s[1] /\ Tail(s) \in Seq(S) /\ Len(Tail(s)) = Len(s) - 1
        /\ \A i \in 1 .. Len(s) - 1 : Tail(s)[i] = s[i + 1]
    BY HeadTailProperties, EmptySeq
  <1>2. \A i \in 1 .. Len(s) - 1 : i + 1 \in 1 .. Len(s) /\ i + 1 # 1
    BY <1>1
  <1>3. Distinct(Tail(s))
    <2> SUFFICES ASSUME NEW i \in 1 .. Len(s) - 1, NEW j \in 1 .. Len(s) - 1, Tail(s)[i] = Tail(s)[j]
                 PROVE  i = j
      BY <1>1 DEF Distinct
    <2>1. s[i + 1] = s[j + 1] /\ i + 1 \in 1 .. Len(s) /\ j + 1 \in 1 .. Len(s)
      BY <1>1, <1>2
    <2>2. i + 1 = j + 1
      BY <2>1 DEF Distinct
    <2> QED
      BY <2>2
  <1>4. 1 \in 1 .. Len(s)
    BY <1>1
  <1>5. ASSUME NEW x
        PROVE  x \in Elems(Tail(s)) <=> x \in Elems(s) /\ x # Head(s)
    <2>1. ASSUME NEW i \in 1 .. Len(s) - 1, x = Tail(s)[i]
          PROVE  x \in Elems(s) /\ x # Head(s)
      <3>1. x = s[i + 1] /\ i + 1 \in 1 .. Len(s) /\ i + 1 # 1
        BY <1>1, <1>2, <2>1
      <3> QED
        BY <1>1, <1>4, <3>1 DEF Distinct, Elems
    <2>2. ASSUME NEW k \in 1 .. Len(s), x = s[k], x # Head(s)
          PROVE  \E i \in 1 .. Len(s) - 1 : x = Tail(s)[i]
      <3>1. k # 1
        BY <1>1, <2>2
      <3>2. k - 1 \in 1 .. Len(s) - 1 /\ (k - 1) + 1 = k
        BY <1>1, <3>1
      <3> QED
        BY <1>1, <2>2, <3>2
    <2> QED
      BY <1>1, <2>1, <2>2 DEF Elems
  <1>6. Head(s) \in Elems(s)
    BY <1>1, <1>4 DEF Elems
  <1> QED
    BY <1>1, <1>3, <1>5, <1>6

LEMMA RearGrows ==
    ASSUME NEW S, NEW s \in Seq(S), Distinct(s), NEW d \in S, d \notin Elems(s)
    PROVE  /\ Append(s, d) \in Seq(S) /\ Distinct(Append(s, d))
           /\ Elems(Append(s, d)) = Elems(s) \cup {d}
           /\ Len(Append(s, d)) = Len(s) + 1
  <1>1. /\ Len(s) \in Nat /\ Append(s, d) \in Seq(S) /\ Len(Append(s, d)) = Len(s) + 1
        /\ \A i \in 1 .. Len(s) : Append(s, d)[i] = s[i]
        /\ Append(s, d)[Len(s) + 1] = d
    OBVIOUS
  <1>2. \A i \in 1 .. Len(s) : s[i] # d
    BY DEF Elems
  <1>3. \A i \in 1 .. Len(s) + 1 : i \in 1 .. Len(s) \/ i = Len(s) + 1
    BY <1>1
  <1>4. Len(s) + 1 \in 1 .. Len(s) + 1 /\ 1 .. Len(s) \subseteq 1 .. Len(s) + 1
    BY <1>1
  <1>5. Distinct(Append(s, d))
    BY <1>1, <1>2, <1>3 DEF Distinct
  <1>6. \A x : x \in Elems(Append(s, d)) <=> x \in Elems(s) \cup {d}
    BY <1>1, <1>3, <1>4 DEF Elems
  <1> QED
    BY <1>1, <1>5, <1>6

(* What remove_wildcard leaves in the list. *)
LEMMA OthersStay ==
    ASSUME items \in Seq(Data), Distinct(items), NEW removed, Keeps(removed)
    PROVE  /\ items' \in Seq(Data) /\ Distinct(items')
           /\ Elems(items') = Elems(items) \ removed
           /\ Len(items') <= Len(items) /\ Len(items') \in Nat /\ Len(items) \in Nat
  <1> DEFINE kept == {i \in 1 .. Len(items) : items[i] \notin removed}
             n == Cardinality(kept)
  <1>1. Len(items) \in Nat /\ DOMAIN items = 1 .. Len(items)
    OBVIOUS
  <1>2. /\ IsFiniteSet(kept) /\ n \in Nat /\ n <= Len(items)
    <2>1. IsFiniteSet(1 .. Len(items)) /\ Cardinality(1 .. Len(items)) = Len(items)
      BY <1>1, FS_Interval
    <2>2. IsFiniteSet(kept) /\ n <= Cardinality(1 .. Len(items))
      BY <2>1, FS_Subset
    <2> QED
      BY <2>1, <2>2, FS_CardinalityType
  <1>3. IsFiniteSet(1 .. n) /\ Cardinality(1 .. n) = n
    BY <1>2, FS_Interval
  <1>4. PICK at \in [1 .. n -> kept] :
           /\ \A i, j \in 1 .. n : i < j => at[i] < at[j]
           /\ items' = [i \in 1 .. n |-> items[at[i]]]
    BY <1>1 DEF Keeps
  <1>5. \A i \in 1 .. n : at[i] \in 1 .. Len(items) /\ items[at[i]] \notin removed /\ items[at[i]] \in Data
    <2> TAKE i \in 1 .. n
    <2>1. at[i] \in kept
      OBVIOUS
    <2>2. at[i] \in 1 .. Len(items)
      BY <2>1
    <2> QED
      BY <2>1, <2>2, ElementOfSeq
  <1> HIDE DEF n
  <1>6. \A i, j \in 1 .. n : at[i] = at[j] => i = j
    <2> SUFFICES ASSUME NEW i \in 1 .. n, NEW j \in 1 .. n, at[i] = at[j], i # j
                 PROVE  FALSE
      OBVIOUS
    <2>1. i < j \/ j < i
      BY <1>2
    <2>2. at[i] < at[j] \/ at[j] < at[i]
      BY <1>4, <2>1
    <2>3. at[i] \in Nat /\ at[j] \in Nat
      BY <1>1, <1>5
    <2> QED
      BY <2>2, <2>3
  <1>7. at \in Surjection(1 .. n, kept)
    <2>1. at \in Injection(1 .. n, kept)
      BY <1>6 DEF Injection, IsInjective
    <2> QED
      BY <1>2, <1>3, <2>1, FS_Injection DEF n
  <1>8. \A k \in kept : \E i \in 1 .. n : at[i] = k
    BY <1>7 DEF Surjection
  <1>9. items' \in Seq(Data) /\ Len(items') = n
    BY <1>2, <1>4, <1>5
  <1>10. Distinct(items')
    <2> SUFFICES ASSUME NEW i \in 1 .. n, NEW j \in 1 .. n, items'[i] = items'[j]
                 PROVE  i = j
      BY <1>9 DEF Distinct
    <2>1. items[at[i]] = items[at[j]]
      BY <1>4
    <2>2. at[i] = at[j]
      BY <1>5, <2>1 DEF Distinct
    <2> QED
      BY <1>6, <2>2
  <1>11. ASSUME NEW x
         PROVE  x \in Elems(items') <=> x \in Elems(items) /\ x \notin removed
    <2>1. ASSUME NEW i \in 1 .. n, x = items'[i]
          PROVE  x \in Elems(items) /\ x \notin removed
      BY <1>4, <1>5, <2>1 DEF Elems
    <2>2. ASSUME NEW k \in 1 .. Len(items), x = items[k], x \notin removed
          PROVE  \E i \in 1 .. n : x = items'[i]
      <3>1. k \in kept
        BY <2>2
      <3>2. PICK i \in 1 .. n : at[i] = k
        BY <1>8, <3>1
      <3> QED
        BY <1>4, <2>2, <3>2
    <2> QED
      BY <1>9, <2>1, <2>2 DEF Elems
  <1> QED
    BY <1>1, <1>2, <1>9, <1>10, <1>11
-----------------------------------------------------------------------------
(***************************************************************************)
(* Who owns the blocks.                                                    *)
(***************************************************************************)
LEMMA FreesOnce ==
    ASSUME QTypeOK, NEW S, \A d \in Data : d \in S => heap[d] = "live",
           \A d \in Data : heap[d] # "freed twice", FreeBlocks(S)
    PROVE  /\ heap' \in [Data -> HeapStates]
           /\ \A d \in Data : heap'[d] # "freed twice"
           /\ \A d \in Data : heap'[d] = "live" <=> heap[d] = "live" /\ d \notin S
  BY DEF FreeBlocks, QTypeOK, HeapStates

LEMMA SignalMoves ==
    ASSUME QTypeOK, CondSignal \/ CondBroadcast
    PROVE  /\ where' \in [Users -> {"out", "wait", "woken"}]
           /\ Inside' = Inside
  BY DEF CondSignal, CondBroadcast, QTypeOK, Inside, Waiting, Woken

LEMMA ItemsAre ==
    ASSUME QTypeOK
    PROVE  /\ items \in Seq(Data) /\ Elems(items) = ToSet(items) /\ Elems(items) \subseteq Data
  BY ElemsAre DEF QTypeOK

LEMMA ProduceKeeps ==
    ASSUME QInv, NEW d \in Data, Produce(d)
    PROVE  QInv'
  <1> USE DEF QInv
  <1>1. /\ heap[d] = "unused" /\ heap' = [heap EXCEPT ![d] = "live"] /\ ~is_destroyed
        /\ items' = Append(items, d) /\ CondSignal /\ UNCHANGED <<is_destroyed, freed, timed, taken>>
    BY DEF Produce, Insert
  <1>2. d \notin Elems(items) /\ (\A t \in Users : d \notin taken[t]) /\ Distinct(items)
    BY <1>1 DEF Owned
  <1>3. items' \in Seq(Data) /\ Distinct(items') /\ Elems(items') = Elems(items) \cup {d}
    <2>1. items \in Seq(Data)
      BY ItemsAre
    <2> QED
      BY <1>1, <1>2, <2>1, RearGrows
  <1>4. where' \in [Users -> {"out", "wait", "woken"}] /\ Inside' = Inside
    BY <1>1, SignalMoves
  <1>5. QTypeOK'
    BY <1>1, <1>3, <1>4 DEF QTypeOK, HeapStates
  <1>6. Owned'
    <2>1. \A t \in Users : taken'[t] \cap Elems(items') = {}
      <3>1. \A t \in Users : taken[t] \cap Elems(items) = {}
        BY DEF Owned
      <3> QED
        BY <1>1, <1>2, <1>3, <3>1
    <2>2. \A e \in Data : heap'[e] # "freed twice"
      BY <1>1 DEF Owned, QTypeOK
    <2>3. \A e \in Data : heap'[e] = "live" <=> e \in Elems(items') \/ \E t \in Users : e \in taken'[t]
      <3> TAKE e \in Data
      <3>1. CASE e = d
        BY <1>1, <1>3, <3>1 DEF QTypeOK
      <3>2. CASE e # d
        <4>1. heap'[e] = heap[e] /\ (e \in Elems(items') <=> e \in Elems(items))
          BY <1>1, <1>3, <3>2 DEF QTypeOK
        <4> QED
          BY <1>1, <4>1 DEF Owned
      <3> QED
        BY <3>1, <3>2
    <2>4. \A t \in Inside' : taken'[t] = {}
      BY <1>1, <1>4 DEF Owned
    <2> QED
      BY <1>1, <1>3, <2>1, <2>2, <2>3, <2>4 DEF Owned
  <1> QED
    BY <1>5, <1>6

LEMMA TakeKeeps ==
    ASSUME QInv, NEW t \in Users, TakeFront(t), taken[t] = {}
    PROVE  QInv'
  <1> USE DEF QInv
  <1>1. /\ items # <<>> /\ ~is_destroyed /\ taken' = [taken EXCEPT ![t] = {Head(items)}]
        /\ items' = Tail(items) /\ where' = [where EXCEPT ![t] = "out"] /\ timed' = timed \ {t}
        /\ UNCHANGED <<is_destroyed, freed, heap>>
    BY DEF TakeFront
  <1>2. /\ Head(items) \in Elems(items) /\ items' \in Seq(Data) /\ Distinct(items')
        /\ Elems(items') = Elems(items) \ {Head(items)}
    BY <1>1, ItemsAre, FrontLeaves DEF Owned
  <1>3. Head(items) \in Data
    BY <1>2, ItemsAre
  <1>4. QTypeOK'
    BY <1>1, <1>2, <1>3 DEF QTypeOK
  <1>5. /\ taken'[t] = {Head(items)} /\ \A u \in Users : u # t => taken'[u] = taken[u]
        /\ Inside' = Inside \ {t}
    BY <1>1 DEF QTypeOK, Inside, Waiting, Woken
  <1>6. Owned'
    <2>1. \A d \in Data : (d \in Elems(items') \/ \E u \in Users : d \in taken'[u])
                          <=> (d \in Elems(items) \/ \E u \in Users : d \in taken[u])
      <3> TAKE d \in Data
      <3>1. CASE d = Head(items)
        BY <1>2, <1>5, <3>1
      <3>2. CASE d # Head(items)
        BY <1>2, <1>5, <3>2
      <3> QED
        BY <3>1, <3>2
    <2>2. \A u \in Users : taken'[u] \cap Elems(items') = {}
      BY <1>2, <1>5 DEF Owned
    <2>3. \A u, v \in Users : u # v => taken'[u] \cap taken'[v] = {}
      <3> TAKE u, v \in Users
      <3>1. Head(items) \notin taken[u] /\ Head(items) \notin taken[v]
        BY <1>2 DEF Owned
      <3>2. u # v => taken[u] \cap taken[v] = {}
        BY DEF Owned
      <3> QED
        BY <1>5, <3>1, <3>2
    <2>4. \A u \in Inside' : taken'[u] = {}
      BY <1>5 DEF Owned, Inside, Waiting, Woken
    <2>5. \A d \in Data : heap'[d] # "freed twice"
      BY <1>1 DEF Owned
    <2>6. \A d \in Data : heap'[d] = "live" <=> d \in Elems(items') \/ \E u \in Users : d \in taken'[u]
      BY <1>1, <2>1 DEF Owned
    <2> QED
      BY <1>1, <1>2, <2>2, <2>3, <2>4, <2>5, <2>6 DEF Owned
  <1> QED
    BY <1>4, <1>6

(* A thread waits, leaves with NULL, or is woken: blocks stay where they are. *)
LEMMA WaitKeeps ==
    ASSUME QInv, NEW t \in Users, NEW x \in {"out", "wait", "woken"}, taken[t] = {},
           where' = [where EXCEPT ![t] = x], timed' \in SUBSET Users,
           UNCHANGED <<items, is_destroyed, freed, taken, heap>>
    PROVE  QInv'
  <1> USE DEF QInv
  <1>1. QTypeOK'
    BY DEF QTypeOK
  <1>2. Inside' \subseteq Inside \cup {t}
    BY DEF QTypeOK, Inside, Waiting, Woken
  <1>3. Owned'
    BY <1>2 DEF Owned
  <1> QED
    BY <1>1, <1>3

LEMMA RemoveKeeps ==
    ASSUME QInv, NEW t \in Users, NEW matches \in SUBSET Data, taken[t] = {}, t \notin Inside,
           RemoveWildcard(t, matches)
    PROVE  QInv'
  <1> USE DEF QInv
  <1> DEFINE removed == matches \cap ToSet(items)
  <1>1. /\ taken' = [taken EXCEPT ![t] = removed] /\ Keeps(removed) /\ CondSignal
        /\ UNCHANGED <<is_destroyed, freed, timed, heap>>
    BY DEF RemoveWildcard
  <1>2. removed \subseteq Elems(items) /\ removed \subseteq Data
    BY ItemsAre
  <1> HIDE DEF removed
  <1>3. items' \in Seq(Data) /\ Distinct(items') /\ Elems(items') = Elems(items) \ removed
        /\ Len(items') <= Len(items) /\ Len(items') \in Nat
    BY <1>1, ItemsAre, OthersStay DEF Owned
  <1>4. where' \in [Users -> {"out", "wait", "woken"}] /\ Inside' = Inside
    BY <1>1, SignalMoves
  <1>5. QTypeOK'
    BY <1>1, <1>2, <1>3, <1>4 DEF QTypeOK
  <1>6. taken'[t] = removed /\ \A u \in Users : u # t => taken'[u] = taken[u]
    BY <1>1 DEF QTypeOK
  <1>7. is_destroyed => items' = <<>>
    <2> SUFFICES ASSUME is_destroyed
                 PROVE  items' = <<>>
      OBVIOUS
    <2>1. Len(items) = 0
      BY EmptyElems DEF Owned
    <2>2. Len(items') = 0
      BY <1>3, <2>1
    <2> QED
      BY <1>3, <2>2, EmptySeq
  <1>8. Owned'
    <2>1. \A d \in Data : (d \in Elems(items') \/ \E u \in Users : d \in taken'[u])
                          <=> (d \in Elems(items) \/ \E u \in Users : d \in taken[u])
      <3> TAKE d \in Data
      <3>1. CASE d \in removed
        BY <1>2, <1>3, <1>6, <3>1
      <3>2. CASE d \notin removed
        BY <1>3, <1>6, <3>2
      <3> QED
        BY <3>1, <3>2
    <2>2. \A u \in Users : taken'[u] \cap Elems(items') = {}
      BY <1>3, <1>6 DEF Owned
    <2>3. \A u, v \in Users : u # v => taken'[u] \cap taken'[v] = {}
      <3> TAKE u, v \in Users
      <3>1. taken[u] \cap Elems(items) = {} /\ taken[v] \cap Elems(items) = {}
        BY DEF Owned
      <3>2. u # v => taken[u] \cap taken[v] = {}
        BY DEF Owned
      <3> QED
        BY <1>2, <1>6, <3>1, <3>2
    <2>4. \A u \in Inside' : taken'[u] = {}
      BY <1>4, <1>6 DEF Owned, Inside, Waiting, Woken
    <2>5. \A d \in Data : heap'[d] # "freed twice"
      BY <1>1 DEF Owned
    <2>6. \A d \in Data : heap'[d] = "live" <=> d \in Elems(items') \/ \E u \in Users : d \in taken'[u]
      BY <1>1, <2>1 DEF Owned
    <2> QED
      BY <1>1, <1>3, <1>7, <2>2, <2>3, <2>4, <2>5, <2>6 DEF Owned
  <1> QED
    BY <1>5, <1>8

(* clear, and destroy, free what is listed. *)
LEMMA EmptyKeeps ==
    ASSUME QInv, items' = <<>>, FreeBlocks(ToSet(items)), UNCHANGED <<freed, timed, taken>>,
           is_destroyed' \in BOOLEAN, is_destroyed => is_destroyed',
           where' \in [Users -> {"out", "wait", "woken"}], Inside' = Inside
    PROVE  QInv'
  <1> USE DEF QInv
  <1>1. /\ heap' \in [Data -> HeapStates]
        /\ \A d \in Data : heap'[d] # "freed twice"
        /\ \A d \in Data : heap'[d] = "live" <=> heap[d] = "live" /\ d \notin Elems(items)
    <2>1. /\ \A d \in Data : d \in Elems(items) => heap[d] = "live"
          /\ \A d \in Data : heap[d] # "freed twice"
      BY DEF Owned
    <2>2. Elems(items) = ToSet(items)
      BY ItemsAre
    <2>3. FreeBlocks(Elems(items))
      BY <2>2
    <2> QED
      BY <2>1, <2>3, FreesOnce
  <1>2. items' \in Seq(Data) /\ Elems(items') = {} /\ Distinct(items')
    BY EmptyElems
  <1>3. QTypeOK'
    BY <1>1, <1>2 DEF QTypeOK
  <1>4. \A d \in Data : heap'[d] = "live" <=> d \in Elems(items') \/ \E u \in Users : d \in taken'[u]
    BY <1>1, <1>2 DEF Owned
  <1>5. Owned'
    BY <1>1, <1>2, <1>4 DEF Owned
  <1> QED
    BY <1>3, <1>5

LEMMA ReleaseKeeps ==
    ASSUME QInv, NEW t \in Users, Release(t)
    PROVE  QInv'
  <1> USE DEF QInv
  <1>1. /\ FreeBlocks(taken[t]) /\ taken' = [taken EXCEPT ![t] = {}]
        /\ UNCHANGED <<items, is_destroyed, freed, where, timed>>
    BY DEF Release
  <1>2. \A d \in Data : d \in taken[t] => heap[d] = "live"
    BY DEF Owned
  <1>3. /\ heap' \in [Data -> HeapStates]
        /\ \A d \in Data : heap'[d] # "freed twice"
        /\ \A d \in Data : heap'[d] = "live" <=> heap[d] = "live" /\ d \notin taken[t]
    BY <1>1, <1>2, FreesOnce DEF Owned
  <1>4. QTypeOK'
    BY <1>1, <1>3 DEF QTypeOK
  <1>5. taken'[t] = {} /\ \A u \in Users : u # t => taken'[u] = taken[u]
    BY <1>1 DEF QTypeOK
  <1>6. \A d \in Data : heap'[d] = "live" <=> d \in Elems(items) \/ \E u \in Users : d \in taken'[u]
    <2> TAKE d \in Data
    <2>1. CASE d \in taken[t]
      BY <1>3, <1>5, <2>1 DEF Owned
    <2>2. CASE d \notin taken[t]
      BY <1>3, <1>5, <2>2 DEF Owned
    <2> QED
      BY <2>1, <2>2
  <1>7. Inside' = Inside
    BY <1>1 DEF Inside, Waiting, Woken
  <1>8. Owned'
    <2>1. \A u \in Users : taken'[u] \subseteq taken[u]
      BY <1>5
    <2> QED
      BY <1>1, <1>3, <1>6, <1>7, <2>1 DEF Owned, Inside, Waiting, Woken
  <1> QED
    BY <1>4, <1>8

LEMMA QNextKeeps ==
    ASSUME QInv, QNext
    PROVE  QInv'
  <1> USE DEF QInv
  <1>1. ASSUME NEW t \in Users, t \in Inside
        PROVE  taken[t] = {}
    BY <1>1 DEF Owned
  <1>2. ASSUME NEW t \in Users, taken[t] = {}, Dequeue(t) \/ DequeueWaits(t)
        PROVE  QInv'
    <2>1. CASE Dequeue(t)
      BY <1>2, <2>1, TakeKeeps DEF Dequeue
    <2>2. CASE DequeueWaits(t)
      <3>1. timed' \in SUBSET Users
        BY <2>2 DEF DequeueWaits, QTypeOK
      <3> QED
        BY <1>2, <2>2, <3>1, WaitKeeps DEF DequeueWaits
    <2> QED
      BY <1>2, <2>1, <2>2
  <1>3. ASSUME NEW t \in Users, \/ DequeueResumes(t) \/ DequeueUsesFreed(t)
                             \/ DequeueTimesOut(t) \/ WakesSpuriously(t)
        PROVE  QInv'
    <2>1. t \in Inside
      BY <1>3 DEF DequeueResumes, DequeueUsesFreed, DequeueTimesOut, WakesSpuriously, Inside, Waiting, Woken
    <2>2. taken[t] = {}
      BY <1>1, <2>1
    <2>3. CASE TakeFront(t)
      BY <2>2, <2>3, TakeKeeps
    <2>4. CASE ~TakeFront(t)
      <3>1. PICK x \in {"out", "wait", "woken"} :
              /\ where' = [where EXCEPT ![t] = x] /\ timed' \in SUBSET Users
              /\ UNCHANGED <<items, is_destroyed, freed, taken, heap>>
        BY <1>3, <2>4 DEF DequeueResumes, DequeueUsesFreed, DequeueTimesOut, WakesSpuriously, ReturnNull, QTypeOK
      <3> QED
        BY <2>2, <3>1, WaitKeeps
    <2> QED
      BY <2>3, <2>4
  <1>4. CASE Clear
    <2>1. Inside' = Inside /\ where' \in [Users -> {"out", "wait", "woken"}] /\ is_destroyed' \in BOOLEAN
      BY <1>4 DEF Clear, Inside, Waiting, Woken, QTypeOK
    <2> QED
      BY <1>4, <2>1, EmptyKeeps DEF Clear
  <1>5. CASE DestroyMark
    <2>1. Inside' = Inside /\ where' \in [Users -> {"out", "wait", "woken"}] /\ is_destroyed' \in BOOLEAN
      BY <1>5, SignalMoves DEF DestroyMark
    <2> QED
      BY <1>5, <2>1, EmptyKeeps DEF DestroyMark
  <1>6. CASE DestroyFree
    <2>1. UNCHANGED <<items, is_destroyed, where, timed, taken, heap>> /\ freed' \in BOOLEAN /\ is_destroyed
      BY <1>6 DEF DestroyFree
    <2>2. Inside' = Inside
      BY <2>1 DEF Inside, Waiting, Woken
    <2> QED
      BY <2>1, <2>2 DEF QTypeOK, Owned
  <1> QED
    BY <1>2, <1>3, <1>4, <1>5, <1>6, ProduceKeeps, RemoveKeeps, ReleaseKeeps DEF QNext

(* Blocks are owned as the comments of thread_safe_queue.h promise, for any *)
(* threads and blocks.                                                     *)
THEOREM QInvariance == QSpec => []QInv
  <1>1. QInit => QInv
    <2> SUFFICES ASSUME QInit
                 PROVE  QInv
      OBVIOUS
    <2>1. Elems(items) = {} /\ Distinct(items) /\ items \in Seq(Data)
      BY EmptyElems DEF QInit
    <2>2. QTypeOK
      BY <2>1 DEF QInit, QTypeOK, HeapStates
    <2>3. Owned
      BY <2>1 DEF QInit, Owned, Inside, Waiting, Woken
    <2> QED
      BY <2>2, <2>3 DEF QInv
  <1>2. QInv /\ [QNext]_qVars => QInv'
    <2> SUFFICES ASSUME QInv, [QNext]_qVars
                 PROVE  QInv'
      OBVIOUS
    <2>1. CASE UNCHANGED qVars
      BY <2>1 DEF qVars, QInv, QTypeOK, Owned, Inside, Waiting, Woken
    <2> QED
      BY <2>1, QNextKeeps
  <1> QED
    BY <1>1, <1>2, PTL DEF QSpec

(* The queue takes over what it is given: a block is live exactly while one *)
(* of the list and the threads has it, and is never freed twice.           *)
THEOREM BlocksOwnedOnce == QSpec => []DataOwnedOnce
  <1>1. ASSUME QInv
        PROVE  DataOwnedOnce
    <2> SUFFICES ASSUME NEW d \in Data
                 PROVE  heap[d] # "freed twice" /\ Owners(d) = IF heap[d] = "live" THEN 1 ELSE 0
      BY DEF DataOwnedOnce
    <2> DEFINE inList == {i \in 1 .. Len(items) : items[i] = d}
               inHands == {t \in Users : d \in taken[t]}
    <2>1. /\ d \in Elems(items) <=> inList # {}
          /\ (\E t \in Users : d \in taken[t]) <=> inHands # {}
      BY DEF Elems
    <2>2. /\ heap[d] # "freed twice" /\ Distinct(items)
          /\ heap[d] = "live" <=> inList # {} \/ inHands # {}
          /\ \A t \in Users : d \in taken[t] => d \notin Elems(items)
          /\ \A t, u \in Users : d \in taken[t] /\ d \in taken[u] => t = u
      BY <1>1, <2>1 DEF QInv, Owned
    <2>3. inList = {} \/ inHands = {}
      BY <2>1, <2>2
    <2>4. inList = {} \/ \E i : inList = {i}
      <3> SUFFICES ASSUME inList # {}
                   PROVE  \E i : inList = {i}
        OBVIOUS
      <3>1. PICK i \in 1 .. Len(items) : items[i] = d
        OBVIOUS
      <3>2. \A j \in 1 .. Len(items) : items[j] = d => j = i
        BY <2>2, <3>1 DEF Distinct
      <3>3. inList = {i}
        BY <3>1, <3>2
      <3> QED
        BY <3>3
    <2>5. inHands = {} \/ \E t : inHands = {t}
      <3> SUFFICES ASSUME inHands # {}
                   PROVE  \E t : inHands = {t}
        OBVIOUS
      <3>1. PICK t \in Users : d \in taken[t]
        OBVIOUS
      <3>2. inHands = {t}
        BY <2>2, <3>1
      <3> QED
        BY <3>2
    <2>6. Owners(d) = Cardinality(inList) + Cardinality(inHands)
      BY DEF Owners
    <2> HIDE DEF inList, inHands
    <2>7. /\ Cardinality(inList) = IF inList = {} THEN 0 ELSE 1
          /\ Cardinality(inHands) = IF inHands = {} THEN 0 ELSE 1
      BY <2>4, <2>5, FS_EmptySet, FS_Singleton
    <2>8. (inList # {} \/ inHands # {} => Owners(d) = 1) /\ (inList = {} /\ inHands = {} => Owners(d) = 0)
      BY <2>3, <2>6, <2>7
    <2> QED
      BY <2>2, <2>8
  <1> QED
    BY <1>1, QInvariance, PTL
-----------------------------------------------------------------------------
(***************************************************************************)
(* Who sleeps while there is something to take.                            *)
(***************************************************************************)
Counted == Waiting # {} => Len(items) <= Cardinality(Woken)
Closed == Waiting # {} => ~is_destroyed

LEMMA WokenAre ==
    ASSUME IsFiniteSet(Users)
    PROVE  /\ IsFiniteSet(Woken) /\ Cardinality(Woken) \in Nat
           /\ IsFiniteSet(Woken') /\ Cardinality(Woken') \in Nat
  <1>1. Woken \in SUBSET Users /\ Woken' \in SUBSET Users
    BY DEF Woken
  <1> QED
    BY <1>1, FS_Subset, FS_CardinalityType

(* A sleeping thread is woken. *)
LEMMA OneWakes ==
    ASSUME QTypeOK, IsFiniteSet(Users), NEW t \in Users, where[t] = "wait", where' = [where EXCEPT ![t] = "woken"]
    PROVE  Waiting # {} /\ Cardinality(Woken') = Cardinality(Woken) + 1
  <1>1. Waiting # {} /\ Woken' = Woken \cup {t} /\ t \notin Woken
    BY DEF Waiting, Woken, QTypeOK
  <1> QED
    BY <1>1, WokenAre, FS_AddElement

(* A thread leaves, from its sleep, from the wake-up or from outside. *)
LEMMA OneLeaves ==
    ASSUME QTypeOK, IsFiniteSet(Users), NEW t \in Users, where' = [where EXCEPT ![t] = "out"]
    PROVE  /\ Waiting' = Waiting \ {t}
           /\ where[t] # "woken" => Cardinality(Woken') = Cardinality(Woken)
           /\ Cardinality(Woken') >= Cardinality(Woken) - 1
  <1>1. Waiting' = Waiting \ {t} /\ Woken' = Woken \ {t}
    BY DEF Waiting, Woken, QTypeOK
  <1>2. CASE t \in Woken
    <2>1. Cardinality(Woken') = Cardinality(Woken) - 1 /\ where[t] = "woken"
      BY <1>1, <1>2, WokenAre, FS_RemoveElement DEF Woken
    <2> QED
      BY <1>1, <2>1, WokenAre
  <1>3. CASE t \notin Woken
    <2>1. Woken' = Woken
      BY <1>1, <1>3
    <2>2. Cardinality(Woken') = Cardinality(Woken)
      BY <2>1
    <2> QED
      BY <1>1, <2>2, WokenAre
  <1> QED
    BY <1>2, <1>3

(* A signal makes up for one element more. *)
LEMMA SignalCounts ==
    ASSUME QTypeOK, Counted, IsFiniteSet(Users), CondSignal,
           Len(items) \in Nat, Len(items') \in Nat, Len(items') <= Len(items) + 1
    PROVE  Counted'
  <1>1. CASE Waiting = {} /\ UNCHANGED where
    BY <1>1 DEF Counted, Waiting
  <1>2. ASSUME NEW t \in Waiting, where' = [where EXCEPT ![t] = "woken"]
        PROVE  Counted'
    <2>1. t \in Users /\ where[t] = "wait" /\ Waiting # {}
      BY <1>2 DEF Waiting
    <2>2. Cardinality(Woken') = Cardinality(Woken) + 1
      BY <1>2, <2>1, OneWakes
    <2>3. Len(items) <= Cardinality(Woken)
      BY <2>1 DEF Counted
    <2>4. Len(items') <= Cardinality(Woken')
      BY <2>2, <2>3, WokenAre
    <2> QED
      BY <2>4 DEF Counted
  <1> QED
    BY <1>1, <1>2 DEF CondSignal

(* An empty list needs nobody. *)
LEMMA EmptyCounts ==
    ASSUME IsFiniteSet(Users), items' = <<>>
    PROVE  Counted'
  <1>1. Len(items') <= Cardinality(Woken')
    BY WokenAre, EmptyElems
  <1> QED
    BY <1>1 DEF Counted

LEMMA TakeCounts ==
    ASSUME QInv, Counted, IsFiniteSet(Users), NEW t \in Users, TakeFront(t), where[t] # "wait"
    PROVE  Counted'
  <1>0. QTypeOK
    BY DEF QInv
  <1>1. items # <<>> /\ items' = Tail(items) /\ where' = [where EXCEPT ![t] = "out"]
    BY DEF TakeFront
  <1>2. Len(items') = Len(items) - 1 /\ Len(items) \in Nat
    <2>1. items \in Seq(Data) /\ Distinct(items)
      BY <1>0, ItemsAre DEF QInv, Owned
    <2> QED
      BY <1>1, <2>1, FrontLeaves
  <1>3. Waiting' = Waiting
    <2>1. Waiting' = Waiting \ {t} /\ t \notin Waiting
      BY <1>0, <1>1, OneLeaves DEF Waiting
    <2> QED
      BY <2>1
  <1>4. Cardinality(Woken') >= Cardinality(Woken) - 1
    BY <1>0, <1>1, OneLeaves
  <1>5. Waiting' # {} => Len(items') <= Cardinality(Woken')
    BY <1>2, <1>3, <1>4, WokenAre DEF Counted
  <1> QED
    BY <1>5 DEF Counted

LEMMA QNextCounts ==
    ASSUME QInv, Counted, IsFiniteSet(Users), QNext
    PROVE  Counted'
  <1>0. QTypeOK /\ items \in Seq(Data) /\ Len(items) \in Nat
    BY ItemsAre DEF QInv
  <1>1. ASSUME NEW d \in Data, Produce(d)
        PROVE  Counted'
    <2>1. items' = Append(items, d) /\ CondSignal
      BY <1>1 DEF Produce, Insert
    <2>2. Len(items') = Len(items) + 1
      BY <1>0, <2>1
    <2> QED
      BY <1>0, <2>1, <2>2, SignalCounts
  <1>2. ASSUME NEW t \in Users, Dequeue(t) \/ DequeueWaits(t)
        PROVE  Counted'
    <2>1. CASE Dequeue(t)
      BY <2>1, TakeCounts DEF Dequeue
    <2>2. CASE DequeueWaits(t)
      <3>1. items' = <<>>
        BY <2>2 DEF DequeueWaits
      <3> QED
        BY <3>1, EmptyCounts
    <2> QED
      BY <1>2, <2>1, <2>2
  <1>3. ASSUME NEW t \in Users, DequeueResumes(t)
        PROVE  Counted'
    <2>1. CASE TakeFront(t)
      BY <1>3, <2>1, TakeCounts DEF DequeueResumes
    <2>2. CASE ~TakeFront(t)
      <3>1. items' = <<>>
        BY <1>3, <2>2 DEF DequeueResumes, ReturnNull, QInv, Owned
      <3> QED
        BY <3>1, EmptyCounts
    <2> QED
      BY <2>1, <2>2
  <1>10. ASSUME NEW t \in Users, DequeueUsesFreed(t)
        PROVE  Counted'
    <2>1. items' = <<>>
      BY <1>10 DEF DequeueUsesFreed, ReturnNull, QInv, Owned
    <2> QED
      BY <2>1, EmptyCounts
  <1>4. ASSUME NEW t \in Users, DequeueTimesOut(t)
        PROVE  Counted'
    <2>1. where[t] = "wait" /\ where' = [where EXCEPT ![t] = "out"] /\ UNCHANGED items
      BY <1>4 DEF DequeueTimesOut, ReturnNull
    <2>2. Waiting' = Waiting \ {t} /\ where[t] # "woken"
      BY <1>0, <2>1, OneLeaves
    <2>3. Cardinality(Woken') = Cardinality(Woken)
      BY <1>0, <2>1, <2>2, OneLeaves
    <2> QED
      BY <2>1, <2>2, <2>3 DEF Counted
  <1>5. ASSUME NEW t \in Users, WakesSpuriously(t)
        PROVE  Counted'
    <2>1. where[t] = "wait" /\ where' = [where EXCEPT ![t] = "woken"] /\ UNCHANGED items
      BY <1>5 DEF WakesSpuriously
    <2>2. Cardinality(Woken') = Cardinality(Woken) + 1 /\ Waiting # {}
      BY <1>0, <2>1, OneWakes
    <2>3. Len(items') <= Cardinality(Woken')
      BY <1>0, <2>1, <2>2, WokenAre DEF Counted
    <2> QED
      BY <2>3 DEF Counted
  <1>6. ASSUME NEW t \in Users, NEW matches \in SUBSET Data, RemoveWildcard(t, matches)
        PROVE  Counted'
    <2>1. Len(items') <= Len(items) /\ Len(items') \in Nat /\ CondSignal
      BY <1>0, <1>6, OthersStay DEF RemoveWildcard, QInv, Owned
    <2> QED
      BY <1>0, <2>1, SignalCounts
  <1>7. ASSUME UNCHANGED <<items, where>>
        PROVE  Counted'
    BY <1>7 DEF Counted, Waiting, Woken
  <1>8. CASE Clear \/ DestroyMark
    BY <1>8, EmptyCounts DEF Clear, DestroyMark
  <1>9. CASE DestroyFree \/ \E t \in Users : Release(t)
    BY <1>7, <1>9 DEF DestroyFree, Release
  <1> QED
    BY <1>1, <1>2, <1>3, <1>4, <1>5, <1>6, <1>8, <1>9, <1>10 DEF QNext

(* Nobody lies down on a destroyed queue, and queue_destroy wakes all.     *)
LEMMA QNextCloses ==
    ASSUME QInv, Closed, QNext
    PROVE  Closed'
  <1>0. QTypeOK
    BY DEF QInv
  <1>1. CASE Waiting' \subseteq Waiting /\ is_destroyed' = is_destroyed
    BY <1>1 DEF Closed
  <1>2. ASSUME CondSignal
        PROVE  Waiting' \subseteq Waiting
    BY <1>0, <1>2 DEF CondSignal, Waiting, QTypeOK
  <1>3. ASSUME NEW t \in Users, where' = [where EXCEPT ![t] = "out"] \/ where' = [where EXCEPT ![t] = "woken"]
        PROVE  Waiting' \subseteq Waiting
    BY <1>0, <1>3 DEF Waiting, QTypeOK
  <1>4. ASSUME NEW d \in Data, Produce(d)
        PROVE  Closed'
    BY <1>1, <1>2, <1>4 DEF Produce, Insert
  <1>5. ASSUME NEW t \in Users,
               \/ TakeFront(t) \/ DequeueUsesFreed(t) \/ DequeueTimesOut(t) \/ WakesSpuriously(t)
               \/ ReturnNull(t)
        PROVE  Closed'
    BY <1>1, <1>3, <1>5 DEF TakeFront, DequeueUsesFreed, DequeueTimesOut, WakesSpuriously, ReturnNull
  <1>6. ASSUME NEW t \in Users, Dequeue(t) \/ DequeueWaits(t) \/ DequeueResumes(t)
        PROVE  Closed'
    <2>1. CASE ~is_destroyed /\ is_destroyed' = is_destroyed
      BY <2>1 DEF Closed
    <2> QED
      BY <1>5, <1>6, <2>1 DEF Dequeue, DequeueWaits, DequeueResumes
  <1>7. ASSUME NEW t \in Users, NEW matches \in SUBSET Data, RemoveWildcard(t, matches)
        PROVE  Closed'
    BY <1>1, <1>2, <1>7 DEF RemoveWildcard
  <1>8. CASE Clear \/ DestroyFree \/ \E t \in Users : Release(t)
    BY <1>1, <1>8 DEF Clear, DestroyFree, Release, Waiting
  <1>9. CASE DestroyMark
    <2>1. Waiting' = {}
      BY <1>9 DEF DestroyMark, CondBroadcast, Waiting
    <2> QED
      BY <2>1 DEF Closed
  <1> QED
    BY <1>4, <1>5, <1>6, <1>7, <1>8, <1>9 DEF QNext

(* One signal per enqueue is enough, for any number of threads: those that *)
(* sleep leave no element without a woken thread to take it, and none      *)
(* sleeps on a queue that is being destroyed.                              *)
THEOREM NoWakeupLost ==
    ASSUME IsFiniteSet(Users)
    PROVE  QSpec => []NoLostWakeup
  <1>1. QInit => Counted /\ Closed
    BY DEF QInit, Counted, Closed, Waiting
  <1>2. QInv /\ Counted /\ Closed /\ [QNext]_qVars => Counted' /\ Closed'
    <2> SUFFICES ASSUME QInv, Counted, Closed, [QNext]_qVars
                 PROVE  Counted' /\ Closed'
      OBVIOUS
    <2>1. CASE UNCHANGED qVars
      BY <2>1 DEF qVars, Counted, Closed, Waiting, Woken
    <2> QED
      BY <2>1, QNextCounts, QNextCloses
  <1>3. Counted /\ Closed => NoLostWakeup
    BY DEF Counted, Closed, NoLostWakeup
  <1> QED
    BY <1>1, <1>2, <1>3, QInvariance, PTL DEF QSpec
=============================================================================
