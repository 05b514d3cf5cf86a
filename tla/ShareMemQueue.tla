---------------------------- MODULE ShareMemQueue ----------------------------
(***************************************************************************)
(* The queue in shared memory of src/common/shareMem/share_mem_queue.c: a  *)
(* control block with two indices, two semaphores and a mutex, in a segment*)
(* that processes create, open and delete.  A process gets a pointer to a  *)
(* cell, works on it without a lock and puts it back.                      *)
(*                                                                         *)
(* The steps of a call between which another process can run are actions of*)
(* their own.  A process may die between two of them or inside a critical  *)
(* section (before its first assignment: the mutex stays locked), and is   *)
(* started again with nothing but what is in the segment.                  *)
(***************************************************************************)
EXTENDS Integers, Sequences, FiniteSets

CONSTANTS Writers, Readers,
          Others,        \* processes that only create and delete
          MaxElements,
          Values,        \* what an element can hold
          Blank,         \* the contents of a cell nobody has written
          MaxCrashes     \* bound on the number of crashes

ASSUME ShareMemQueueAssumption ==
    /\ MaxElements \in Nat \ {0} /\ MaxCrashes \in Nat
    /\ IsFiniteSet(Writers) /\ IsFiniteSet(Readers) /\ IsFiniteSet(Others)
    /\ Writers \cap Readers = {} /\ (Writers \cup Readers) \cap Others = {}
    /\ Blank \notin Values

Processes == Writers \cup Readers \cup Others
Cells == 0 .. MaxElements - 1
NoCell == -1

VARIABLES
    seg,        \* the segment: absent, blank, published (isValid is set, the mutex
                \* and the semaphores are still all zeros), ready, or torn down
    isValid, writeIndex, readIndex, elementCount,
    notEmpty, notFull,   \* values of the semaphores
    orphaned,   \* a process died with the mutex locked
    cells,      \* data
    pc, cell,   \* where each process is, and the cell it has a pointer to
    isCreator,  \* handles
    crashes

block == <<isValid, writeIndex, readIndex, elementCount>>
sems  == <<notEmpty, notFull>>
procs == <<pc, cell, isCreator>>
vars  == <<seg, block, sems, orphaned, cells, procs, crashes>>

PcValues == {"out", "creating", "syncing", "opening", "open", "closing", "torn",
             "wantSpace", "gotSpace", "filling", "filled", "putting", "putDone",
             "wantItem", "gotItem", "reading", "consumed", "removing", "removed",
             "asleep"}

TypeOK ==
    /\ seg \in {"absent", "blank", "published", "ready", "torn"}
    /\ isValid \in BOOLEAN /\ orphaned \in BOOLEAN
    /\ writeIndex \in Cells /\ readIndex \in Cells
    /\ elementCount \in 0 .. MaxElements
    /\ notEmpty \in 0 .. MaxElements /\ notFull \in 0 .. MaxElements
    /\ cells \in [Cells -> Values \cup {Blank}]
    /\ pc \in [Processes -> PcValues]
    /\ cell \in [Processes -> Cells \cup {NoCell}]
    /\ isCreator \in [Processes -> BOOLEAN]
    /\ crashes \in 0 .. MaxCrashes

Init ==
    /\ seg = "absent" /\ isValid = FALSE
    /\ writeIndex = 0 /\ readIndex = 0 /\ elementCount = 0
    /\ notEmpty = 0 /\ notFull = 0 /\ orphaned = FALSE
    /\ cells = [c \in Cells |-> Blank]
    /\ pc = [p \in Processes |-> "out"]
    /\ cell = [p \in Processes |-> NoCell]
    /\ isCreator = [p \in Processes |-> FALSE]
    /\ crashes = 0

Move(p, from, to) == pc[p] = from /\ pc' = [pc EXCEPT ![p] = to]

(***************************************************************************)
(* ShareMemQue_Create: shmget with IPC_EXCL makes one process the creator, *)
(* which clears the control block, mutex and semaphores included, fills it *)
(* in up to isValid, and then initialises the mutex and the semaphores.    *)
(* From isValid on, others open the queue.  A zeroed mutex locks like an   *)
(* initialised one, a zeroed semaphore makes everybody wait, and           *)
(* initialising a semaphore forgets who waits: whoever is in sem_wait then *)
(* sleeps on, or goes on if it had not yet gone to sleep.                  *)
(***************************************************************************)
CreateSegment(p) ==
    /\ Move(p, "out", "creating") /\ seg = "absent"
    /\ seg' = "blank" /\ isValid' = FALSE
    /\ isCreator' = [isCreator EXCEPT ![p] = TRUE]
    /\ UNCHANGED <<writeIndex, readIndex, elementCount, sems, orphaned, cells, cell, crashes>>

CreatePublish(p) ==
    /\ Move(p, "creating", "syncing")
    /\ seg' = "published" /\ isValid' = TRUE
    /\ writeIndex' = 0 /\ readIndex' = 0 /\ elementCount' = 0
    /\ notEmpty' = 0 /\ notFull' = 0 /\ orphaned' = FALSE
    /\ cells' = [c \in Cells |-> Blank]
    /\ UNCHANGED <<cell, isCreator, crashes>>

SyncDone(p) ==
    /\ pc[p] = "syncing"
    /\ \E S \in SUBSET {q \in Processes : pc[q] \in {"wantSpace", "wantItem"}} :
          pc' = [q \in Processes |-> IF q = p THEN "open" ELSE IF q \in S THEN "asleep" ELSE pc[q]]

CreateSyncSwapped(p) ==   \* fault: the initial values of the semaphores are swapped
    /\ SyncDone(p)
    /\ seg' = "ready" /\ orphaned' = FALSE
    /\ notEmpty' = MaxElements /\ notFull' = 0
    /\ UNCHANGED <<block, cells, cell, isCreator, crashes>>

CreateSync(p) ==
    /\ SyncDone(p)
    /\ seg' = "ready" /\ orphaned' = FALSE
    /\ notEmpty' = 0 /\ notFull' = MaxElements
    /\ UNCHANGED <<block, cells, cell, isCreator, crashes>>

(* ShareMemQue_Create on an existing segment, and ShareMemQue_GetID: attach,*)
(* then look at isValid.  All processes agree on the name and the sizes.   *)
Open(p) ==
    /\ Move(p, "out", "opening") /\ seg # "absent"
    /\ UNCHANGED <<seg, block, sems, orphaned, cells, cell, isCreator, crashes>>

OpenValidate(p) ==
    /\ Move(p, "opening", IF isValid THEN "open" ELSE "out")
    /\ UNCHANGED <<seg, block, sems, orphaned, cells, cell, isCreator, crashes>>

(***************************************************************************)
(* ShareMemQue_GetWritePtr: look at isValid, sem_wait(notFull), and read   *)
(* writeIndex under the mutex.  The index does not move.                   *)
(***************************************************************************)
GetWriteBegins(p) ==
    /\ Move(p, "open", "wantSpace") /\ isValid
    /\ UNCHANGED <<seg, block, sems, orphaned, cells, cell, isCreator, crashes>>

WaitNotFullTries(p) ==   \* fault: sem_trywait, whose failure is not looked at
    /\ Move(p, "wantSpace", "gotSpace")
    /\ notFull' = IF notFull > 0 THEN notFull - 1 ELSE 0
    /\ UNCHANGED <<seg, block, notEmpty, orphaned, cells, cell, isCreator, crashes>>

WaitNotFull(p) ==
    /\ Move(p, "wantSpace", "gotSpace")
    /\ notFull > 0 /\ notFull' = notFull - 1
    /\ UNCHANGED <<seg, block, notEmpty, orphaned, cells, cell, isCreator, crashes>>

GetWritePtr(p) ==
    /\ Move(p, "gotSpace", "filling") /\ ~orphaned
    /\ cell' = [cell EXCEPT ![p] = writeIndex]
    /\ UNCHANGED <<seg, block, sems, orphaned, cells, isCreator, crashes>>

Fill(p, v) ==
    /\ Move(p, "filling", "filled")
    /\ cells' = [cells EXCEPT ![cell[p]] = v]
    /\ UNCHANGED <<seg, block, sems, orphaned, cell, isCreator, crashes>>

(* ShareMemQue_PutWritePtr.  On an invalid queue the call fails and the     *)
(* semaphore stays down.                                                   *)
PutWriteBegins(p) ==
    /\ Move(p, "filled", IF isValid THEN "putting" ELSE "open")
    /\ cell' = IF isValid THEN cell ELSE [cell EXCEPT ![p] = NoCell]
    /\ UNCHANGED <<seg, block, sems, orphaned, cells, isCreator, crashes>>

PutWritePtr(p) ==
    /\ Move(p, "putting", "putDone") /\ ~orphaned
    /\ writeIndex' = (writeIndex + 1) % MaxElements
    /\ elementCount' = elementCount + 1
    /\ cell' = [cell EXCEPT ![p] = NoCell]
    /\ UNCHANGED <<seg, isValid, readIndex, sems, orphaned, cells, isCreator, crashes>>

PostNotEmptyForgotten(p) ==   \* fault: notEmpty is not posted
    /\ Move(p, "putDone", "open")
    /\ UNCHANGED <<seg, block, sems, orphaned, cells, cell, isCreator, crashes>>

PostNotEmpty(p) ==
    /\ Move(p, "putDone", "open")
    /\ notEmpty' = notEmpty + 1
    /\ UNCHANGED <<seg, block, notFull, orphaned, cells, cell, isCreator, crashes>>

(***************************************************************************)
(* ShareMemQue_GetReadPtr and ShareMemQue_PutReadPtr, the mirror image.    *)
(***************************************************************************)
GetReadBegins(p) ==
    /\ Move(p, "open", "wantItem") /\ isValid
    /\ UNCHANGED <<seg, block, sems, orphaned, cells, cell, isCreator, crashes>>

WaitNotEmpty(p) ==
    /\ Move(p, "wantItem", "gotItem")
    /\ notEmpty > 0 /\ notEmpty' = notEmpty - 1
    /\ UNCHANGED <<seg, block, notFull, orphaned, cells, cell, isCreator, crashes>>

GetReadPtrPosts(p) ==   \* fault: notFull is posted by Get instead of Put
    /\ Move(p, "gotItem", "reading") /\ ~orphaned
    /\ cell' = [cell EXCEPT ![p] = readIndex]
    /\ notFull' = notFull + 1
    /\ UNCHANGED <<seg, block, notEmpty, orphaned, cells, isCreator, crashes>>

GetReadPtr(p) ==
    /\ Move(p, "gotItem", "reading") /\ ~orphaned
    /\ cell' = [cell EXCEPT ![p] = readIndex]
    /\ UNCHANGED <<seg, block, sems, orphaned, cells, isCreator, crashes>>

Consume(p) ==
    /\ Move(p, "reading", "consumed")
    /\ UNCHANGED <<seg, block, sems, orphaned, cells, cell, isCreator, crashes>>

PutReadBegins(p) ==
    /\ Move(p, "consumed", IF isValid THEN "removing" ELSE "open")
    /\ cell' = IF isValid THEN cell ELSE [cell EXCEPT ![p] = NoCell]
    /\ UNCHANGED <<seg, block, sems, orphaned, cells, isCreator, crashes>>

PutReadPtrStays(p) ==   \* fault: readIndex does not move
    /\ Move(p, "removing", "removed") /\ ~orphaned
    /\ elementCount' = elementCount - 1
    /\ cell' = [cell EXCEPT ![p] = NoCell]
    /\ UNCHANGED <<seg, isValid, writeIndex, readIndex, sems, orphaned, cells, isCreator, crashes>>

PutReadPtr(p) ==
    /\ Move(p, "removing", "removed") /\ ~orphaned
    /\ readIndex' = (readIndex + 1) % MaxElements
    /\ elementCount' = elementCount - 1
    /\ cell' = [cell EXCEPT ![p] = NoCell]
    /\ UNCHANGED <<seg, isValid, writeIndex, sems, orphaned, cells, isCreator, crashes>>

PostNotFull(p) ==
    /\ Move(p, "removed", "open")
    /\ notFull' = notFull + 1
    /\ UNCHANGED <<seg, block, notEmpty, orphaned, cells, cell, isCreator, crashes>>

(***************************************************************************)
(* ShareMemQue_Delete: whoever calls it makes the queue invalid for all;   *)
(* the creator also destroys the semaphores and the mutex and removes the  *)
(* segment; whoever has attached to that one and not yet looked at isValid *)
(* will find it invalid.  The call ends by logging a string of the segment *)
(* it has just detached, which may kill the process; either way it holds   *)
(* nothing any more.                                                       *)
(***************************************************************************)
DeleteBegins(p) ==
    /\ Move(p, "open", "closing") /\ ~orphaned
    /\ isValid' = FALSE
    /\ UNCHANGED <<seg, writeIndex, readIndex, elementCount, sems, orphaned, cells, cell,
                   isCreator, crashes>>

DeleteDestroys(p) ==
    /\ Move(p, "closing", "torn") /\ isCreator[p]
    /\ seg' = "torn"
    /\ UNCHANGED <<block, sems, orphaned, cells, cell, isCreator, crashes>>

DeleteDetaches(p) ==
    /\ pc[p] = IF isCreator[p] THEN "torn" ELSE "closing"
    /\ pc' = [q \in Processes |-> IF q = p \/ (isCreator[p] /\ pc[q] = "opening") THEN "out" ELSE pc[q]]
    /\ seg' = IF isCreator[p] THEN "absent" ELSE seg
    /\ isCreator' = [isCreator EXCEPT ![p] = FALSE]
    /\ UNCHANGED <<block, sems, orphaned, cells, cell, crashes>>

(***************************************************************************)
(* The death of a process, outside or inside a critical section.           *)
(***************************************************************************)
Crash(p) ==
    /\ pc[p] # "out" /\ crashes < MaxCrashes
    /\ crashes' = crashes + 1
    /\ pc' = [pc EXCEPT ![p] = "out"]
    /\ cell' = [cell EXCEPT ![p] = NoCell]
    /\ isCreator' = [isCreator EXCEPT ![p] = FALSE]
    /\ orphaned' \in IF pc[p] \in {"gotSpace", "putting", "gotItem", "removing", "open"}
                        THEN {orphaned, TRUE} ELSE {orphaned}
    /\ UNCHANGED <<seg, block, sems, cells>>

(***************************************************************************)
(* How the processes use the queue: the creator calls ShareMemQue_Delete   *)
(* when nobody else has a handle; others may be about to get one.          *)
(***************************************************************************)
WriteStep(p) == \/ GetWriteBegins(p) \/ WaitNotFull(p) \/ GetWritePtr(p)
                \/ \E v \in Values : Fill(p, v)
                \/ PutWriteBegins(p) \/ PutWritePtr(p) \/ PostNotEmpty(p)
ReadStep(p) == \/ GetReadBegins(p) \/ WaitNotEmpty(p) \/ GetReadPtr(p) \/ Consume(p)
               \/ PutReadBegins(p) \/ PutReadPtr(p) \/ PostNotFull(p)
Alone(p) == \A q \in Processes \ {p} : pc[q] \in {"out", "opening"}

Next ==
    \/ \E p \in Writers : WriteStep(p)
    \/ \E p \in Readers : ReadStep(p)
    \/ \E p \in Processes :
          \/ CreateSegment(p) \/ CreatePublish(p) \/ CreateSync(p)
          \/ Open(p) \/ OpenValidate(p)
          \/ ((isCreator[p] => Alone(p)) /\ DeleteBegins(p)) \/ DeleteDestroys(p) \/ DeleteDetaches(p)
          \/ Crash(p)

Spec == Init /\ [][Next]_vars

(* The reader keeps reading, and a writer finishes the call it is in.       *)
Fairness == /\ \A p \in Readers : WF_vars(ReadStep(p))
            /\ \A p \in Writers : WF_vars(PutWritePtr(p)) /\ WF_vars(PostNotEmpty(p))
FairSpec == Spec /\ Fairness
-----------------------------------------------------------------------------
InCall == {p \in Processes : pc[p] \notin
             {"out", "creating", "syncing", "opening", "open", "closing", "torn", "asleep",
              "wantSpace", "wantItem"}}

(* Nobody gets past a semaphore that is not yet initialised or already      *)
(* destroyed, however early a process opens the queue and whatever process *)
(* created or deleted it or has died.                                      *)
InCallOnlyWhenReady == InCall # {} => seg = "ready"

(* The semaphores never promise an element or a free cell that is not there,*)
(* and without a crash or a delete they promise all that is there, calls in *)
(* progress aside.                                                          *)
SemaphoresHonest ==
    seg = "ready" =>
        /\ notEmpty <= elementCount /\ notFull <= MaxElements - elementCount
        /\ crashes = 0 /\ isValid => notEmpty + notFull + Cardinality(InCall) = MaxElements

(* A reader and a writer never have a pointer to the same element.          *)
ReaderAndWriterApart ==
    \A w \in Writers, r \in Readers : cell[w] # NoCell => cell[w] # cell[r]

(* Every element is read in order and stays in the queue until its reader   *)
(* puts it back: a reader that dies in between gets it again.              *)
Queue == INSTANCE DurableFifo WITH
    Capacity <- MaxElements,
    stored <- [i \in 1 .. elementCount |-> cells[(readIndex + i - 1) % MaxElements]],
    seen <- [r \in Readers |-> IF pc[r] \in {"consumed", "removing"} THEN {cells[cell[r]]} ELSE {}]
ImplementsDurableFifo == Queue!FifoSpec

(* An element that is in the queue is read, while some process is reading,  *)
(* unless a process dies or the queue is deleted.                          *)
Holds(c) == \E i \in 0 .. elementCount - 1 : c = (readIndex + i) % MaxElements
Reading(r) == pc[r] \in {"open", "wantItem", "gotItem", "reading", "consumed", "removing", "removed"}
WrittenIsRead ==
    \A c \in Cells :
        (Holds(c) /\ \E r \in Readers : Reading(r)) ~> (~Holds(c) \/ ~isValid \/ crashes > 0)
-----------------------------------------------------------------------------
(* What share_mem_queue.c says of its test of isValid, "checks that the     *)
(* existing shared memory is valid": whoever has passed it finds a mutex   *)
(* and semaphores that are initialised.                                    *)
UsesReadySync ==
    \A p \in Processes :
        pc[p] \notin {"out", "creating", "syncing", "opening", "torn"} => seg = "ready"
=============================================================================
