----------------------------- MODULE RingBuffer -----------------------------
(***************************************************************************)
(* The growing ring buffer of src/common/ring/ring_buffer.c and the        *)
(* operations ring_queue.c builds on it.                                   *)
(*                                                                         *)
(* Sizes and cursors are counted in units of a fixed number of bytes, the  *)
(* greatest one that divides the capacities and all transfer sizes (the    *)
(* element size of a ring_queue whose elements divide 32 bytes).  Every    *)
(* critical section is one action; a thread that waits on read_cond or     *)
(* write_cond is between two critical sections.  The wait functions test   *)
(* their condition with an if: what follows the wait runs whatever the     *)
(* state is by then.                                                       *)
(***************************************************************************)
EXTENDS Integers, Sequences, FiniteSets

CONSTANTS Readers, Writers,
          InitCapacity, MaxCapacity,  \* init_capacity, max_capacity
          MaxTransfer,                \* largest size passed to an operation
          Values,                     \* what a unit can hold
          Junk                        \* a unit malloc returned and nobody wrote

ASSUME RingBufferAssumption ==
    /\ InitCapacity \in Nat \ {0} /\ MaxCapacity \in Nat
    /\ InitCapacity <= MaxCapacity
    /\ MaxTransfer \in Nat \ {0}
    /\ Readers \cap Writers = {}
    /\ Values # {} /\ Junk \notin Values

Threads == Readers \cup Writers
Cells == 0 .. MaxCapacity - 1
Sizes == 1 .. MaxTransfer
Payloads == UNION {[1 .. n -> Values] : n \in Sizes}
SmallerOf(a, b) == IF a <= b THEN a ELSE b

VARIABLES r, w, full, capacity,
          data,    \* the buffer; cells from capacity on do not exist
          pc,      \* where each thread is
          call,    \* the operation a waiting thread is in
          cursor,  \* the cursor a *_cursor_delta call has computed
          last,    \* the last call that had an effect, and the units it moved
          careful  \* the clients keep to the rules of CarefulNext

ring == <<r, w, full, capacity, data>>
state == <<r, w, full, capacity, data, pc, call, cursor, last>>
vars == <<state, careful>>

NoCall == [op |-> "none"]
ReadCalls == [op : {"read", "read_len", "peek", "skip"}, size : Sizes]
WriteCalls == [op : {"write", "write_len"}, payload : Payloads]
DirectCalls == [op : {"direct"}, payload : UNION {[1 .. n -> Values \cup {Junk}] : n \in Sizes}]

PcValues == {"idle", "waitRead", "wokenRead", "waitWrite", "wokenWrite", "advance"}

TypeOK ==
    /\ capacity \in InitCapacity .. MaxCapacity
    /\ r \in 0 .. capacity - 1 /\ w \in 0 .. capacity - 1
    /\ full \in BOOLEAN
    /\ data \in [Cells -> Values \cup {Junk}]
    /\ pc \in [Threads -> PcValues]
    /\ call \in [Threads -> ReadCalls \cup WriteCalls \cup DirectCalls \cup {NoCall}]
    /\ cursor \in [Threads -> Nat]
    /\ last.op \in {"none", "read", "peek", "skip", "write", "reset"}
    /\ careful \in BOOLEAN

Zero == CHOOSE v \in Values : TRUE   \* memset clears the buffer

Init ==
    /\ r = 0 /\ w = 0 /\ full = FALSE /\ capacity = InitCapacity
    /\ data = [i \in Cells |-> IF i < InitCapacity THEN Zero ELSE Junk]
    /\ pc = [t \in Threads |-> "idle"]
    /\ call = [t \in Threads |-> NoCall]
    /\ cursor = [t \in Threads |-> 0]
    /\ last = [op |-> "none", units |-> <<>>]
    /\ careful \in BOOLEAN

(* ring_buffer_is_empty, ring_buffer_size, ring_buffer_free_size *)
IsEmpty == ~full /\ r = w
Size == IF full THEN capacity
        ELSE IF w >= r THEN w - r ELSE capacity - (r - w)
FreeSize == capacity - Size

Contents == [i \in 1 .. Size |-> data[(r + i - 1) % capacity]]

At(where) == {t \in Threads : pc[t] = where}

(* pthread_cond_signal after the caller's own move in p. *)
Signal(p, waiting, woken) ==
    LET W == {t \in Threads : p[t] = waiting}
    IN  \/ W = {} /\ pc' = p
        \/ \E t \in W : pc' = [p EXCEPT ![t] = woken]

Done(t) == [pc EXCEPT ![t] = "idle"]
Return(t) == pc' = Done(t) /\ call' = [call EXCEPT ![t] = NoCall] /\ UNCHANGED <<ring, cursor, last>>

(* A call that finds its condition false and may wait.  With               *)
(* RING_BUFFER_NO_TIMEOUT it returns at once and nothing changes.          *)
Block(t, where, c) ==
    /\ pc' = [pc EXCEPT ![t] = where]
    /\ call' = [call EXCEPT ![t] = c]
    /\ UNCHANGED <<ring, cursor, last>>

Returned(op, units) == last' = [op |-> op, units |-> units]

(***************************************************************************)
(* ring_buffer_read_internal moves r over what it copied, at most size.    *)
(***************************************************************************)
Consume(n) ==
    LET k == SmallerOf(n, Size) IN
    /\ r' = (r + k) % capacity
    /\ full' = (full /\ k = 0)
    /\ UNCHANGED <<w, capacity, data>>

FirstUnits(n) == SubSeq(Contents, 1, SmallerOf(n, Size))

(* What read_timeout, read_len_timeout, peek_timeout and skip_timeout do    *)
(* after their wait.  peek restores r and full before it unlocks.          *)
ReadBody(t, c) ==
    /\ call' = [call EXCEPT ![t] = NoCall]
    /\ UNCHANGED cursor
    /\ \/ /\ c.op = "read" \/ (c.op = "read_len" /\ Size >= c.size)
          /\ Consume(c.size) /\ Signal(Done(t), "waitWrite", "wokenWrite")
          /\ Returned("read", FirstUnits(c.size))
       \/ /\ c.op = "skip" /\ Size >= c.size
          /\ Consume(c.size) /\ Signal(Done(t), "waitWrite", "wokenWrite")
          /\ Returned("skip", <<>>)
       \/ /\ c.op = "peek"
          /\ pc' = Done(t) /\ UNCHANGED ring
          /\ Returned("peek", FirstUnits(c.size))
       \/ /\ c.op \in {"read_len", "skip"} /\ Size < c.size
          /\ pc' = Done(t) /\ UNCHANGED <<ring, last>>

Read(t, c) == pc[t] = "idle" /\ ~IsEmpty /\ ReadBody(t, c)
ReadWaits(t, c) == pc[t] = "idle" /\ IsEmpty /\ Block(t, "waitRead", c)
ReadResumes(t) == pc[t] = "wokenRead" /\ ReadBody(t, call[t])

(***************************************************************************)
(* ring_buffer_write_internal moves w over what it copied, at most the free*)
(* size.  It never sets full.                                              *)
(***************************************************************************)
Store(cells, from, cap, units) ==
    [i \in Cells |-> LET j == ((i - from + cap) % cap) + 1   \* i is the j-th cell from "from"
                     IN  IF i < cap /\ j <= Len(units) THEN units[j] ELSE cells[i]]

AppendUnits(units) ==
    /\ data' = Store(data, w, capacity, units)
    /\ w' = (w + Len(units)) % capacity
    /\ UNCHANGED <<r, full, capacity>>

(* ring_buffer_ensure_write_space when n units do not fit: the ring grows by*)
(* what is missing and its contents move to the front.  Called by a client *)
(* the function takes no lock: nobody else may be inside the ring then.    *)
Grown(n) == capacity + (n - FreeSize)
CanGrow(n) == FreeSize < n /\ capacity # MaxCapacity /\ Grown(n) <= MaxCapacity
MovedFirstPart ==   \* fault: the part of the contents that wraps around is not copied
    [i \in Cells |-> IF i < SmallerOf(Size, capacity - r) THEN Contents[i + 1] ELSE Junk]
Moved == [i \in Cells |-> IF i < Size THEN Contents[i + 1] ELSE Junk]

EnsureWriteSpace(n) ==
    /\ CanGrow(n)
    /\ capacity' = Grown(n)
    /\ r' = 0 /\ w' = Size /\ full' = FALSE
    /\ data' = Moved
    /\ UNCHANGED <<pc, call, cursor, last>>

GrowAndAppend(units) ==
    LET n == Len(units) IN
    /\ CanGrow(n)
    /\ capacity' = Grown(n)
    /\ r' = 0 /\ w' = (Size + n) % Grown(n) /\ full' = FALSE
    /\ data' = Store(Moved, Size, Grown(n), units)

(* write_timeout and write_len_timeout after their wait. *)
WriteBody(t, c) ==
    /\ call' = [call EXCEPT ![t] = NoCall]
    /\ UNCHANGED cursor
    /\ \/ LET fits == SubSeq(c.payload, 1, SmallerOf(Len(c.payload), FreeSize)) IN
          /\ c.op = "write" \/ FreeSize >= Len(c.payload)
          /\ AppendUnits(fits) /\ Returned("write", fits)
          /\ Signal(Done(t), "waitRead", "wokenRead")
       \/ /\ c.op = "write_len" /\ GrowAndAppend(c.payload)
          /\ Returned("write", c.payload)
          /\ Signal(Done(t), "waitRead", "wokenRead")
       \/ /\ c.op = "write_len" /\ FreeSize < Len(c.payload) /\ ~CanGrow(Len(c.payload))
          /\ pc' = Done(t) /\ UNCHANGED <<ring, last>>

Write(t, c) == pc[t] = "idle" /\ ~full /\ WriteBody(t, c)
WriteWaits(t, c) == pc[t] = "idle" /\ full /\ Block(t, "waitWrite", c)
WriteResumes(t) == pc[t] = "wokenWrite" /\ WriteBody(t, call[t])

WaitTimesOut(t) == pc[t] \in {"waitRead", "waitWrite"} /\ Return(t)

SpuriousWakeup(t) ==
    /\ \/ pc[t] = "waitRead" /\ pc' = [pc EXCEPT ![t] = "wokenRead"]
       \/ pc[t] = "waitWrite" /\ pc' = [pc EXCEPT ![t] = "wokenWrite"]
    /\ UNCHANGED <<ring, call, cursor, last>>

Reset ==
    /\ full' = FALSE /\ r' = w
    /\ data' = [i \in Cells |-> IF i < capacity THEN Zero ELSE data[i]]
    /\ Signal(pc, "waitWrite", "wokenWrite")
    /\ Returned("reset", <<>>)
    /\ UNCHANGED <<w, capacity, call, cursor>>

(***************************************************************************)
(* The cursor interface.  The client copies into, or out of, the buffer    *)
(* without the lock and then moves the cursor; set_*_cursor_delta reads the*)
(* cursor in one critical section and sets it in another.                  *)
(***************************************************************************)
DirectWrite(t, units) ==
    /\ pc[t] = "idle" /\ Len(units) <= FreeSize
    /\ data' = Store(data, w, capacity, units)
    /\ cursor' = [cursor EXCEPT ![t] = w + Len(units)]
    /\ call' = [call EXCEPT ![t] = [op |-> "direct", payload |-> units]]
    /\ pc' = [pc EXCEPT ![t] = "advance"]
    /\ UNCHANGED <<r, w, full, capacity, last>>

SetWriteCursor(t) ==
    /\ pc[t] = "advance"
    /\ w' = cursor[t] % capacity
    /\ full' = (full \/ r = w')
    /\ Signal(Done(t), "waitRead", "wokenRead")
    /\ Returned("write", call[t].payload)
    /\ cursor' = [cursor EXCEPT ![t] = 0]
    /\ call' = [call EXCEPT ![t] = NoCall]
    /\ UNCHANGED <<r, capacity, data>>

DirectRead(t, n) ==
    /\ pc[t] = "idle" /\ n <= Size
    /\ cursor' = [cursor EXCEPT ![t] = r + n]
    /\ call' = [call EXCEPT ![t] = [op |-> "direct", payload |-> FirstUnits(n)]]
    /\ pc' = [pc EXCEPT ![t] = "advance"]
    /\ UNCHANGED <<ring, last>>

SetReadCursorSilent(t) ==   \* fault: write_cond is not signalled
    /\ pc[t] = "advance"
    /\ r' = cursor[t] % capacity
    /\ full' = FALSE
    /\ pc' = Done(t)
    /\ Returned("read", call[t].payload)
    /\ cursor' = [cursor EXCEPT ![t] = 0]
    /\ call' = [call EXCEPT ![t] = NoCall]
    /\ UNCHANGED <<w, capacity, data>>

SetReadCursor(t) ==
    /\ pc[t] = "advance"
    /\ r' = cursor[t] % capacity
    /\ full' = FALSE
    /\ Signal(Done(t), "waitWrite", "wokenWrite")
    /\ Returned("read", call[t].payload)
    /\ cursor' = [cursor EXCEPT ![t] = 0]
    /\ call' = [call EXCEPT ![t] = NoCall]
    /\ UNCHANGED <<w, capacity, data>>

(***************************************************************************)
(* Clients.                                                                *)
(***************************************************************************)
ReaderStep(t) == (\E c \in ReadCalls : Read(t, c) \/ ReadWaits(t, c)) \/ ReadResumes(t)
Advance == (\E t \in Writers : SetWriteCursor(t)) \/ (\E t \in Readers : SetReadCursor(t))
OSStep == \E t \in Threads : WaitTimesOut(t) \/ SpuriousWakeup(t)

(* A ring kept clear of the two cases the copying writes lose data in: a    *)
(* write leaves at least one unit free, and the cursor interface is used to *)
(* fill the ring, to grow it, and to read it once it cannot grow any more.  *)
CarefulNext ==
    \/ \E t \in Readers : ReaderStep(t)
    \/ \E t \in Writers, c \in WriteCalls : Len(c.payload) < FreeSize /\ Write(t, c)
    \/ \E t \in Writers, units \in Payloads : DirectWrite(t, units)
    \/ (\A t \in Writers : pc[t] = "idle") /\ \E n \in Sizes : EnsureWriteSpace(n)
    \/ capacity = MaxCapacity /\ \E t \in Readers, n \in Sizes : DirectRead(t, n)
    \/ (\A t \in Threads : pc[t] # "advance") /\ Reset
    \/ Advance
    \/ OSStep

(* The copying operations in full, on a ring somebody may also fill with the*)
(* cursor interface.  What is written (BlankUnits) makes no difference to  *)
(* who sleeps.                                                             *)
BlankUnits == {units \in Payloads : \A i \in DOMAIN units : units[i] = Zero}
AnyNext ==
    \/ \E t \in Readers : ReaderStep(t)
    \/ \E t \in Writers :
          \/ \E c \in WriteCalls : c.payload \in BlankUnits /\ (Write(t, c) \/ WriteWaits(t, c))
          \/ WriteResumes(t)
    \/ \E t \in Writers, units \in BlankUnits : DirectWrite(t, units)
    \/ \E t \in Readers, n \in Sizes : DirectRead(t, n)
    \/ Reset
    \/ Advance
    \/ OSStep

Next == /\ UNCHANGED careful
        /\ \/ careful /\ CarefulNext
           \/ ~careful /\ AnyNext
Spec == Init /\ [][Next]_vars
-----------------------------------------------------------------------------
(***************************************************************************)
(* Properties.                                                             *)
(***************************************************************************)

(* With one reader and one writer who keep to the rules of CarefulNext the *)
(* ring is a FIFO of units: nothing that was written is lost, repeated or   *)
(* reordered, and read, peek and the cursor interface return what was       *)
(* written.  (Of the other clients the mapping shows an unused FIFO.)      *)
Fifo == INSTANCE ByteFifo WITH
            stored <- IF careful THEN Contents ELSE <<>>,
            last <- IF careful THEN last ELSE [op |-> "none", units |-> <<>>],
            Limit <- MaxCapacity
ImplementsByteFifo == Fifo!FifoSpec

(* A reader sleeps only on an empty ring, a writer only on a full one: each *)
(* operation that changes that signals the other side.                     *)
NoSleepOnReadyRing ==
    /\ At("waitRead") # {} => IsEmpty
    /\ At("waitWrite") # {} => full
=============================================================================
