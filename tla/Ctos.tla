-------------------------------- MODULE Ctos --------------------------------
(***************************************************************************)
(* The message queues of src/common/ctos.c.  A queue has a fixed number of *)
(* elements, which a task claims, sends, receives and releases; the state  *)
(* of all queues is in the static table MessageArray, and a queue knows its*)
(* place in it.  message_mutex protects the table and the list of queues;  *)
(* two semaphores per queue, waited for without the mutex, count the free  *)
(* elements and the messages.  A critical section is one action.           *)
(*                                                                         *)
(* os_message_delete_queue and os_message_delete_queue2 differ only in a   *)
(* callback per dropped message.  A wait may give up at any time while its *)
(* count is zero (timeout 0 or a clock value) or never (G_TIMEOUT_INFINITY)*)
(***************************************************************************)
EXTENDS Integers, Sequences, FiniteSets

CONSTANTS Tasks,
          Queues,       \* the g_msg_queue_t blocks malloc hands out
          NoQueue,      \* NULL
          TableSize,    \* QUEUE_NB_MAX
          NoElements    \* elements of a queue

ASSUME CtosAssumption ==
    /\ IsFiniteSet(Tasks)
    /\ NoQueue \notin Queues
    /\ TableSize \in Nat
    /\ NoElements \in Nat

Slots == 0 .. TableSize - 1
Elements == 0 .. NoElements - 1
Least(S) == CHOOSE i \in S : \A j \in S : i <= j

VARIABLES memory,      \* Memory_p of each table entry: whose block it is
          used,        \* Used_p: the elements that are out
          pending,     \* Pending_p: the messages sent, oldest first
          list,        \* the queues in MessageQueueList_p; its order is never used
          index,       \* Index of each queue; TableSize is "none"
          claimSem, msgSem,   \* the two semaphores of each queue
          pc,          \* what each task is doing
          que,         \* with which queue
          msg          \* the element it holds, as a set

table == <<memory, used, pending>>
sems == <<claimSem, msgSem>>
vars == <<memory, used, pending, list, index, claimSem, msgSem, pc, que, msg>>

States == {"idle", "creating", "emptying", "unlinking", "claiming", "scanning",
           "holding", "posting", "receiving", "taking"}

TypeOK ==
    /\ memory \in [Slots -> Queues \cup {NoQueue}]
    /\ used \in [Slots -> SUBSET Elements]
    /\ pending \in [Slots -> Seq(Elements)]
    /\ list \in SUBSET Queues
    /\ index \in [Queues -> 0 .. TableSize]
    /\ claimSem \in [Queues -> 0 .. NoElements]
    /\ msgSem \in [Queues -> Nat]
    /\ pc \in [Tasks -> States]
    /\ que \in [Tasks -> Queues \cup {NoQueue}]
    /\ msg \in [Tasks -> SUBSET Elements]

Init ==
    /\ memory = [i \in Slots |-> NoQueue]
    /\ used = [i \in Slots |-> {}]
    /\ pending = [i \in Slots |-> <<>>]
    /\ list = {}
    /\ index = [q \in Queues |-> TableSize]
    /\ claimSem = [q \in Queues |-> 0]
    /\ msgSem = [q \in Queues |-> 0]
    /\ pc = [t \in Tasks |-> "idle"]
    /\ que = [t \in Tasks |-> NoQueue]
    /\ msg = [t \in Tasks |-> {}]

Start(t, q, where) == /\ pc[t] = "idle"
                      /\ pc' = [pc EXCEPT ![t] = where]
                      /\ que' = [que EXCEPT ![t] = q]
Go(t, from, to) == pc[t] = from /\ pc' = [pc EXCEPT ![t] = to] /\ UNCHANGED que
Finish(t, from) == /\ pc[t] = from
                   /\ pc' = [pc EXCEPT ![t] = "idle"]
                   /\ que' = [que EXCEPT ![t] = NoQueue]

(***************************************************************************)
(* Client rules: a queue is used once create has returned it, and deleted  *)
(* by one task when no other is in a call on it or holds an element of it. *)
(***************************************************************************)
Usable(q) == q \in list /\ \A t \in Tasks : que[t] = q => pc[t] \notin {"emptying", "unlinking"}
Unused(q) == \A t \in Tasks : que[t] # q

(***************************************************************************)
(* os_message_create_queue_timeout: the first critical section takes the   *)
(* first table entry without memory, the second appends the queue to the   *)
(* list.  With a full table it frees what it allocated and returns NULL.   *)
(***************************************************************************)
FreeSlots == {i \in Slots : memory[i] = NoQueue}

CreateTakes(t, q) ==
    LET i == Least(FreeSlots) IN
    /\ q \notin list /\ Unused(q)
    /\ FreeSlots # {}
    /\ Start(t, q, "creating")
    /\ memory' = [memory EXCEPT ![i] = q]
    /\ used' = [used EXCEPT ![i] = {}]
    /\ pending' = [pending EXCEPT ![i] = <<>>]
    /\ index' = [index EXCEPT ![q] = i]
    /\ claimSem' = [claimSem EXCEPT ![q] = NoElements]
    /\ msgSem' = [msgSem EXCEPT ![q] = 0]
    /\ UNCHANGED <<list, msg>>

CreateLinksAlone(t) ==   \* fault: the queues already in the list are dropped from it
    /\ Finish(t, "creating")
    /\ list' = {que[t]}
    /\ UNCHANGED <<table, index, sems, msg>>

CreateLinks(t) ==
    /\ Finish(t, "creating")
    /\ list' = list \cup {que[t]}
    /\ UNCHANGED <<table, index, sems, msg>>

(***************************************************************************)
(* os_message_delete_queue: the semaphores go before the mutex is taken;   *)
(* the first critical section frees the pending nodes and the table entry, *)
(* and the second unlinks and frees the queue.  Between the two the entry  *)
(* may already belong to another queue.  Index changes with the first one: *)
(* the code writes it just after the unlock, and reads the Index of a queue*)
(* that is being deleted nowhere else.                                     *)
(***************************************************************************)
DeleteBegins(t, q) ==
    /\ Usable(q) /\ Unused(q)
    /\ Start(t, q, "emptying")
    /\ claimSem' = [claimSem EXCEPT ![q] = 0]
    /\ msgSem' = [msgSem EXCEPT ![q] = 0]
    /\ UNCHANGED <<table, list, index, msg>>

DeleteEmpties(t) ==
    LET q == que[t]
        i == index[q] IN
    /\ Go(t, "emptying", "unlinking")
    /\ memory' = [memory EXCEPT ![i] = NoQueue]
    /\ used' = [used EXCEPT ![i] = {}]
    /\ pending' = [pending EXCEPT ![i] = <<>>]
    /\ index' = [index EXCEPT ![q] = TableSize]
    /\ UNCHANGED <<list, sems, msg>>

DeleteUnlinks(t) ==
    /\ Finish(t, "unlinking")
    /\ list' = list \ {que[t]}
    /\ UNCHANGED <<table, index, sems, msg>>

(***************************************************************************)
(* os_message_claim_timeout: wait for an element, then take the first one  *)
(* that is not used, or return NULL if there is none after all (as receive *)
(* does; SemaphoresCount says that neither ever has to).                   *)
(***************************************************************************)
ClaimBegins(t, q) ==
    /\ Usable(q) /\ index[q] < TableSize
    /\ Start(t, q, "claiming")
    /\ UNCHANGED <<table, list, index, sems, msg>>

ClaimWaits(t) ==
    LET q == que[t] IN
    /\ Go(t, "claiming", "scanning")
    /\ claimSem[q] > 0
    /\ claimSem' = [claimSem EXCEPT ![q] = @ - 1]
    /\ UNCHANGED <<table, list, index, msgSem, msg>>

ClaimGivesUp(t) ==
    /\ Finish(t, "claiming")
    /\ claimSem[que[t]] = 0
    /\ UNCHANGED <<table, list, index, sems, msg>>

ClaimScansOnly(t) ==   \* fault: the element is not marked as used
    LET e == Least(Elements \ used[index[que[t]]]) IN
    /\ Go(t, "scanning", "holding")
    /\ Elements \ used[index[que[t]]] # {}
    /\ msg' = [msg EXCEPT ![t] = {e}]
    /\ UNCHANGED <<table, list, index, sems>>

ClaimScans(t) ==
    LET i == index[que[t]]
        e == Least(Elements \ used[i]) IN
    /\ pc[t] = "scanning"
    /\ IF Elements \ used[i] # {}
       THEN /\ Go(t, "scanning", "holding")
            /\ used' = [used EXCEPT ![i] = @ \cup {e}]
            /\ msg' = [msg EXCEPT ![t] = {e}]
            /\ UNCHANGED <<memory, pending, list, index, sems>>
       ELSE Finish(t, "scanning") /\ UNCHANGED <<table, list, index, sems, msg>>

(***************************************************************************)
(* os_message_send appends to the pending list and then, without the mutex,*)
(* posts the semaphore.                                                    *)
(***************************************************************************)
SendPushes(t) ==   \* fault: the message is put at the head of the pending list
    LET i == index[que[t]] IN
    /\ Go(t, "holding", "posting")
    /\ \E e \in msg[t] : pending' = [pending EXCEPT ![i] = <<e>> \o @]
    /\ msg' = [msg EXCEPT ![t] = {}]
    /\ UNCHANGED <<memory, used, list, index, sems>>

SendAppends(t) ==
    LET i == index[que[t]] IN
    /\ Go(t, "holding", "posting")
    /\ \E e \in msg[t] : pending' = [pending EXCEPT ![i] = Append(@, e)]
    /\ msg' = [msg EXCEPT ![t] = {}]
    /\ UNCHANGED <<memory, used, list, index, sems>>

SendPosts(t) ==
    /\ Finish(t, "posting")
    /\ msgSem' = [msgSem EXCEPT ![que[t]] = @ + 1]
    /\ UNCHANGED <<table, list, index, claimSem, msg>>

(***************************************************************************)
(* os_message_receive_timeout and os_message_release.                      *)
(***************************************************************************)
ReceiveBegins(t, q) ==
    /\ Usable(q) /\ index[q] < TableSize
    /\ Start(t, q, "receiving")
    /\ UNCHANGED <<table, list, index, sems, msg>>

ReceiveWaits(t) ==
    LET q == que[t] IN
    /\ Go(t, "receiving", "taking")
    /\ msgSem[q] > 0
    /\ msgSem' = [msgSem EXCEPT ![q] = @ - 1]
    /\ UNCHANGED <<table, list, index, claimSem, msg>>

ReceiveGivesUp(t) ==
    /\ Finish(t, "receiving")
    /\ msgSem[que[t]] = 0
    /\ UNCHANGED <<table, list, index, sems, msg>>

ReceiveTakes(t) ==
    LET i == index[que[t]] IN
    /\ pc[t] = "taking"
    /\ IF pending[i] # <<>>
       THEN /\ Go(t, "taking", "holding")
            /\ msg' = [msg EXCEPT ![t] = {Head(pending[i])}]
            /\ pending' = [pending EXCEPT ![i] = Tail(@)]
            /\ UNCHANGED <<memory, used, list, index, sems>>
       ELSE Finish(t, "taking") /\ UNCHANGED <<table, list, index, sems, msg>>

ReleaseUnposted(t) ==   \* fault: the claim semaphore is not posted
    /\ Finish(t, "holding")
    /\ used' = [used EXCEPT ![index[que[t]]] = @ \ msg[t]]
    /\ msg' = [msg EXCEPT ![t] = {}]
    /\ UNCHANGED <<memory, pending, list, index, sems>>

Release(t) ==
    /\ Finish(t, "holding")
    /\ used' = [used EXCEPT ![index[que[t]]] = @ \ msg[t]]
    /\ claimSem' = [claimSem EXCEPT ![que[t]] = @ + 1]
    /\ msg' = [msg EXCEPT ![t] = {}]
    /\ UNCHANGED <<memory, pending, list, index, msgSem>>

Next ==
    \E t \in Tasks :
        \/ \E q \in Queues : CreateTakes(t, q) \/ DeleteBegins(t, q)
                             \/ ClaimBegins(t, q) \/ ReceiveBegins(t, q)
        \/ CreateLinks(t) \/ DeleteEmpties(t) \/ DeleteUnlinks(t)
        \/ ClaimWaits(t) \/ ClaimGivesUp(t) \/ ClaimScans(t)
        \/ SendAppends(t) \/ SendPosts(t)
        \/ ReceiveWaits(t) \/ ReceiveGivesUp(t) \/ ReceiveTakes(t) \/ Release(t)

Spec == Init /\ [][Next]_vars
-----------------------------------------------------------------------------
(***************************************************************************)
(* Properties.                                                             *)
(***************************************************************************)
Alive == {q \in Queues : index[q] < TableSize}    \* queues with a table entry
Doing(where, q) == {t \in Tasks : pc[t] = where /\ que[t] = q}
Holds(t, q, e) == que[t] = q /\ e \in msg[t]
IsPending(i, e) == \E k \in 1 .. Len(pending[i]) : pending[i][k] = e

(* Every element that is out is in one place: one task holds it, or it is  *)
(* once in the pending list.  What is in neither is free.                  *)
OwnedOnce(q) ==
    LET i == index[q] IN
    /\ \A e \in Elements : e \in used[i] <=> IsPending(i, e) \/ \E t \in Tasks : Holds(t, q, e)
    /\ \A t \in Tasks, e \in Elements : Holds(t, q, e) => ~IsPending(i, e)
    /\ \A t, u \in Tasks, e \in Elements : Holds(t, q, e) /\ Holds(u, q, e) => t = u
    /\ \A j, k \in 1 .. Len(pending[i]) : pending[i][j] = pending[i][k] => j = k
ElementsOwnedOnce == \A q \in Alive : OwnedOnce(q)

(* The semaphores count what the table holds, less what a task has already *)
(* been promised or has not yet announced.  So nobody who got past the wait*)
(* returns NULL, and no free element or message is left without a count.   *)
CountsFree(q) ==
    claimSem[q] + Cardinality(Doing("scanning", q)) = NoElements - Cardinality(used[index[q]])
CountsMessages(q) ==
    msgSem[q] + Cardinality(Doing("taking", q)) + Cardinality(Doing("posting", q))
      = Len(pending[index[q]])
SemaphoresCount ==
    \A q \in Alive : Doing("emptying", q) = {} => CountsFree(q) /\ CountsMessages(q)

(* Each living queue has a table entry of its own, although an entry is    *)
(* given away while its last owner is still being unlinked; the list holds *)
(* every living queue, once create has finished, and no freed one.         *)
TableConsistent ==
    /\ \A i \in Slots : memory[i] # NoQueue => index[memory[i]] = i
    /\ \A q \in Alive : memory[index[q]] = q
    /\ \A q \in Queues : q \in list <=> \/ q \in Alive /\ Doing("creating", q) = {}
                                       \/ Doing("unlinking", q) # {}

(* The queues are what ctos.h promises: messages come out in the order they*)
(* went in, and creating or deleting a queue does not disturb the others.  *)
Pool == INSTANCE MessagePool WITH
            Users <- Tasks, Boxes <- Queues, Stock <- Elements, MaxOpen <- TableSize,
            open <- Alive,
            free <- [q \in Queues |-> IF q \in Alive THEN Elements \ used[index[q]] ELSE {}],
            waiting <- [q \in Queues |-> IF q \in Alive THEN pending[index[q]] ELSE <<>>],
            hand <- [t \in Tasks |-> {<<que[t], e>> : e \in msg[t]}]
ImplementsMessagePool == Pool!PoolSpec
=============================================================================
