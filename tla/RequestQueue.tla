---------------------------- MODULE RequestQueue ----------------------------
(***************************************************************************)
(* The asynchronous request queue of src/common/request_que.c: a hash table*)
(* of requests under table_mutex, a ThreadSafeQueue of pending ones, and in*)
(* each request a status, a mutex and a condition variable.  Clients       *)
(* submit, wait, cancel and query; workers fetch and complete; a cleanup   *)
(* frees the requests marked bNeedFree.                                    *)
(*                                                                         *)
(* The look-up of a request ends with table_mutex released and a bare      *)
(* pointer, which the call uses in a second critical section (req_mutex):  *)
(* the steps between are where requests are lost or used after free.       *)
(***************************************************************************)
EXTENDS Integers, Sequences, FiniteSets

CONSTANTS Clients, Workers,
          Reqs,          \* the AsyncRequest objects, each allocated at most once
          NoReq,         \* NULL
          Outcomes,      \* the statuses that workers complete requests with
          FreshFlag      \* what malloc may leave in bNeedFree: create_request does not set it

ASSUME RequestQueueAssumption ==
    /\ Clients \cap Workers = {}
    /\ NoReq \notin Reqs
    /\ Outcomes # {} /\ Outcomes \subseteq {"COMPLETED", "FAILED"}
    /\ FreshFlag # {} /\ FreshFlag \subseteq BOOLEAN

VARIABLES items, closed, queueFreed, where, taken, heap,  \* pending_queue and the heap
          table,                                          \* request_table
          status, is_waiting, bNeedFree,                  \* fields of each request
          pc, ref,     \* where each thread is, and the request it has a pointer to
          toVisit,     \* what the running cleanup has still to visit
          cleaning,    \* a cleanup holds table_mutex
          stage,       \* progress of async_request_queue_destroy
          undefined,   \* freed memory has been used: what follows is not modelled
          rules        \* how the clients behave: "careful" or "any", see Next

pendVars  == <<items, closed, queueFreed, where, taken>>
reqVars   == <<status, is_waiting, bNeedFree>>
callVars  == <<pc, ref>>
cleanVars == <<toVisit, cleaning>>
lifeVars  == <<stage, undefined>>
queue == <<pendVars, heap, table, reqVars, callVars, cleanVars, lifeVars>>
vars == <<queue, rules>>

Pending == INSTANCE ThreadSafeQueue WITH
              Users <- Workers, Data <- Reqs,
              is_destroyed <- closed, freed <- queueFreed,
              timed <- {}      \* async_request_fetch waits without a deadline

Terminal == {"COMPLETED", "FAILED", "CANCELLED", "TIMEOUT"}
Statuses == Terminal \cup {"PENDING", "PROCESSING"}
ClientPc == {"idle", "added", "wait", "waiting", "woken", "unlocking", "cancel", "status"}
WorkerPc == {"idle", "fetched", "working"}

TypeOK ==
    /\ Pending!QTypeOK
    /\ table \in SUBSET Reqs /\ toVisit \in SUBSET Reqs
    /\ status \in [Reqs -> Statuses]
    /\ is_waiting \in [Reqs -> BOOLEAN] /\ bNeedFree \in [Reqs -> BOOLEAN]
    /\ pc \in [Clients \cup Workers -> ClientPc \cup WorkerPc]
    /\ ref \in [Clients \cup Workers -> Reqs \cup {NoReq}]
    /\ cleaning \in BOOLEAN
    /\ stage \in {"open", "marked", "cleared", "closing", "queueFreed", "destroyed"}
    /\ undefined \in BOOLEAN /\ rules \in {"careful", "any"}
    /\ \A t \in Clients \cup Workers : ref[t] = NoReq <=> pc[t] = "idle"

Init ==
    /\ Pending!QInit
    /\ table = {} /\ toVisit = {} /\ cleaning = FALSE
    /\ status = [r \in Reqs |-> "PENDING"]
    /\ is_waiting = [r \in Reqs |-> FALSE]
    /\ bNeedFree = [r \in Reqs |-> FALSE]
    /\ pc = [t \in Clients \cup Workers |-> "idle"]
    /\ ref = [t \in Clients \cup Workers |-> NoReq]
    /\ stage = "open" /\ undefined = FALSE /\ rules \in {"careful", "any"}

(* A thread inside the critical section of r that is modelled in two steps. *)
ReqLocked(r) == \E c \in Clients : pc[c] = "unlocking" /\ ref[c] = r

(* t goes on from p with the request it has a pointer to. *)
At(t, p) == pc[t] = p /\ heap[ref[t]] = "live"

Done(t) == /\ pc' = [pc EXCEPT ![t] = "idle"]
           /\ ref' = [ref EXCEPT ![t] = NoReq]

SignalReqNever(r, p) == pc' = p   \* fault: req_cond is not signalled

(* if (is_waiting) pthread_cond_signal(&req_cond), p being pc with the      *)
(* caller's own move made.                                                 *)
SignalReq(r, p) ==
    LET W == {c \in Clients : p[c] = "waiting" /\ ref[c] = r}
    IN  \/ (W = {} \/ ~is_waiting[r]) /\ pc' = p
        \/ is_waiting[r] /\ \E c \in W : pc' = [p EXCEPT ![c] = "woken"]

(***************************************************************************)
(* async_request_submit: create_request and HASH_ADD, then queue_enqueue,  *)
(* whose failure takes the request back out.                               *)
(***************************************************************************)
SubmitAdds(c, r) ==
    /\ pc[c] = "idle" /\ stage = "open" /\ ~cleaning
    /\ heap[r] = "unused"
    /\ heap' = [heap EXCEPT ![r] = "live"]
    /\ table' = table \cup {r}
    /\ status' = [status EXCEPT ![r] = "PENDING"]
    /\ is_waiting' = [is_waiting EXCEPT ![r] = FALSE]
    /\ \E b \in FreshFlag : bNeedFree' = [bNeedFree EXCEPT ![r] = b]
    /\ pc' = [pc EXCEPT ![c] = "added"] /\ ref' = [ref EXCEPT ![c] = r]
    /\ UNCHANGED <<pendVars, cleanVars, lifeVars>>

SubmitEnqueues(c) ==
    /\ pc[c] = "added"
    /\ Pending!Enqueue(ref[c])
    /\ Done(c)
    /\ UNCHANGED <<table, reqVars, cleanVars, lifeVars>>

(***************************************************************************)
(* async_request_fetch: the dequeue, then the status under req_mutex,      *)
(* whatever the status was.                                                *)
(***************************************************************************)
Took(w) == /\ pc' = [pc EXCEPT ![w] = IF taken'[w] # {} THEN "fetched" ELSE "idle"]
           /\ ref' = [ref EXCEPT ![w] = IF taken'[w] # {} THEN CHOOSE r \in taken'[w] : TRUE
                                                          ELSE NoReq]

FetchDequeues(w) ==
    /\ pc[w] = "idle" /\ stage = "open"
    /\ Pending!Dequeue(w) \/ Pending!DequeueWaits(w)
    /\ Took(w)
    /\ UNCHANGED <<table, reqVars, cleanVars, lifeVars>>

FetchResumes(w) ==
    /\ Pending!DequeueResumes(w)
    /\ Took(w)
    /\ UNCHANGED <<table, reqVars, cleanVars, lifeVars>>

FetchSpurious(w) ==
    /\ Pending!WakesSpuriously(w)
    /\ UNCHANGED <<table, reqVars, callVars, cleanVars, lifeVars>>

FetchMarks(w) ==
    /\ At(w, "fetched") /\ ~ReqLocked(ref[w])
    /\ status' = [status EXCEPT ![ref[w]] = "PROCESSING"]
    /\ pc' = [pc EXCEPT ![w] = "working"]
    /\ UNCHANGED <<pendVars, heap, table, is_waiting, bNeedFree, ref,
                   cleanVars, lifeVars>>

(* async_request_complete; the worker has no more use for the pointer.     *)
Complete(w) ==
    /\ At(w, "working") /\ ~ReqLocked(ref[w]) /\ stage = "open"
    /\ \E s \in Outcomes : status' = [status EXCEPT ![ref[w]] = s]
    /\ SignalReq(ref[w], [pc EXCEPT ![w] = "idle"])
    /\ ref' = [ref EXCEPT ![w] = NoReq]
    /\ taken' = [taken EXCEPT ![w] = {}]
    /\ UNCHANGED <<items, closed, queueFreed, where, heap, table, is_waiting, bNeedFree, cleanVars, lifeVars>>

(***************************************************************************)
(* The look-up that async_request_wait, _cancel and _get_status begin with.*)
(* An id that is not in the table changes nothing.                         *)
(***************************************************************************)
LookUp(c, r, call) ==
    /\ pc[c] = "idle" /\ stage = "open" /\ ~cleaning
    /\ r \in table
    /\ pc' = [pc EXCEPT ![c] = call] /\ ref' = [ref EXCEPT ![c] = r]
    /\ UNCHANGED <<pendVars, heap, table, reqVars, cleanVars, lifeVars>>

(***************************************************************************)
(* async_request_wait.  bNeedFree is set inside req_mutex, and the unlock  *)
(* that follows is a step of its own because the cleanup reads bNeedFree   *)
(* without the mutex.                                                      *)
(***************************************************************************)
WaitSettles(c) ==
    /\ bNeedFree' = [bNeedFree EXCEPT ![ref[c]] = TRUE]
    /\ pc' = [pc EXCEPT ![c] = "unlocking"]
    /\ UNCHANGED <<pendVars, heap, table, status, ref, cleanVars, lifeVars>>

WaitFindsDone(c) ==
    /\ At(c, "wait") /\ ~ReqLocked(ref[c])
    /\ status[ref[c]] \in Terminal
    /\ WaitSettles(c) /\ UNCHANGED is_waiting

WaitBlocks(c) ==
    /\ At(c, "wait") /\ ~ReqLocked(ref[c])
    /\ status[ref[c]] \notin Terminal
    /\ is_waiting' = [is_waiting EXCEPT ![ref[c]] = TRUE]
    /\ pc' = [pc EXCEPT ![c] = "waiting"]
    /\ UNCHANGED <<pendVars, heap, table, status, bNeedFree, ref, cleanVars, lifeVars>>

(* One pthread_cond_wait and no loop: the status is not looked at again.    *)
WaitWakes(c) ==
    /\ At(c, "woken") /\ ~ReqLocked(ref[c])
    /\ is_waiting' = [is_waiting EXCEPT ![ref[c]] = FALSE]
    /\ WaitSettles(c)

WaitReturnsZero(c) ==
    /\ At(c, "unlocking")
    /\ Done(c)
    /\ UNCHANGED <<pendVars, heap, table, reqVars, cleanVars, lifeVars>>

(* Whether the wait has a timeout is chosen when it expires.                *)
WaitTimesOut(c) ==
    /\ At(c, "waiting") /\ ~ReqLocked(ref[c])
    /\ is_waiting' = [is_waiting EXCEPT ![ref[c]] = FALSE]
    /\ Done(c)
    /\ UNCHANGED <<pendVars, heap, table, status, bNeedFree, cleanVars, lifeVars>>

SpuriousWakeup(c) ==
    /\ At(c, "waiting")
    /\ pc' = [pc EXCEPT ![c] = "woken"]
    /\ UNCHANGED <<pendVars, heap, table, reqVars, ref, cleanVars, lifeVars>>

(* async_request_cancel takes the request out of nothing: it stays in the   *)
(* pending queue.                                                          *)
Cancel(c) ==
    /\ At(c, "cancel") /\ ~ReqLocked(ref[c])
    /\ status[ref[c]] = "PENDING"
    /\ status' = [status EXCEPT ![ref[c]] = "CANCELLED"]
    /\ bNeedFree' = [bNeedFree EXCEPT ![ref[c]] = TRUE]
    /\ SignalReq(ref[c], [pc EXCEPT ![c] = "idle"])
    /\ ref' = [ref EXCEPT ![c] = NoReq]
    /\ UNCHANGED <<pendVars, heap, table, is_waiting, cleanVars, lifeVars>>

(* A cancel that comes too late, and async_request_get_status.             *)
ReadOnly(c) ==
    /\ \/ At(c, "cancel") /\ status[ref[c]] # "PENDING"
       \/ At(c, "status")
    /\ ~ReqLocked(ref[c])
    /\ Done(c)
    /\ UNCHANGED <<pendVars, heap, table, reqVars, cleanVars, lifeVars>>

(***************************************************************************)
(* async_request_cleanup_completed: table_mutex is held for the whole walk.*)
(***************************************************************************)
CleanupBegins ==
    /\ ~cleaning /\ stage = "open"
    /\ cleaning' = TRUE /\ toVisit' = table
    /\ UNCHANGED <<pendVars, heap, table, reqVars, callVars, lifeVars>>

CleanupFreesInTable(r) ==   \* fault: HASH_DEL is left out
    /\ cleaning /\ r \in toVisit /\ bNeedFree[r]
    /\ toVisit' = toVisit \ {r}
    /\ Pending!FreeBlocks({r})
    /\ UNCHANGED <<pendVars, table, reqVars, callVars, cleaning, lifeVars>>

(* bNeedFree alone decides, read without req_mutex: a request goes whatever *)
(* its status and whoever waits for it, whose mutex and condition variable  *)
(* are then destroyed in use.                                              *)
CleanupFrees(r) ==
    /\ cleaning /\ r \in toVisit /\ bNeedFree[r]
    /\ toVisit' = toVisit \ {r} /\ table' = table \ {r}
    /\ Pending!FreeBlocks({r})
    /\ undefined' = \E c \in Clients : ref[c] = r /\ pc[c] \in {"waiting", "woken", "unlocking"}
    /\ UNCHANGED <<pendVars, reqVars, callVars, cleaning, stage>>

CleanupKeeps(r) ==
    /\ cleaning /\ r \in toVisit /\ ~bNeedFree[r] /\ ~ReqLocked(r)
    /\ toVisit' = toVisit \ {r}
    /\ UNCHANGED <<pendVars, heap, table, reqVars, callVars, cleaning, lifeVars>>

(* Whether r has a timeout, and it has passed, is chosen when the cleanup   *)
(* looks at it.                                                            *)
CleanupExpires(r) ==
    /\ cleaning /\ r \in toVisit /\ ~bNeedFree[r] /\ ~ReqLocked(r)
    /\ status[r] = "PENDING"
    /\ status' = [status EXCEPT ![r] = "TIMEOUT"]
    /\ bNeedFree' = [bNeedFree EXCEPT ![r] = TRUE]
    /\ SignalReq(r, pc)
    /\ toVisit' = toVisit \ {r}
    /\ UNCHANGED <<pendVars, heap, table, is_waiting, ref, cleaning, lifeVars>>

CleanupEnds ==
    /\ cleaning /\ toVisit = {}
    /\ cleaning' = FALSE
    /\ UNCHANGED <<pendVars, heap, table, reqVars, callVars, toVisit, lifeVars>>

(***************************************************************************)
(* async_request_queue_destroy: queue_clear without the queue's mutex,     *)
(* queue_destroy, then every request in the table is destroyed.            *)
(***************************************************************************)
DestroyMarks ==
    /\ stage = "open" /\ stage' = "marked"
    /\ UNCHANGED <<pendVars, heap, table, reqVars, callVars, cleanVars, undefined>>

DestroyClears ==
    /\ stage = "marked" /\ stage' = "cleared"
    /\ Pending!Clear
    /\ UNCHANGED <<table, reqVars, callVars, cleanVars, undefined>>

DestroyCloses ==
    /\ stage = "cleared" /\ stage' = "closing"
    /\ Pending!DestroyMark
    /\ UNCHANGED <<table, reqVars, callVars, cleanVars, undefined>>

DestroyFreesQueue ==
    /\ stage = "closing" /\ stage' = "queueFreed"
    /\ Pending!DestroyFree
    /\ UNCHANGED <<table, reqVars, callVars, cleanVars, undefined>>

DestroyEmptiesTable ==
    /\ stage = "queueFreed" /\ stage' = "destroyed" /\ ~cleaning
    /\ Pending!FreeBlocks(table)
    /\ table' = {}
    /\ UNCHANGED <<pendVars, reqVars, callVars, cleanVars, undefined>>

(* A thread steps with a pointer to a request that has been freed: it locks *)
(* a mutex or reads a field that is no more.  (The enqueue that ends a      *)
(* submit only passes the pointer on.)                                     *)
UsesFreed(t) ==
    /\ ref[t] # NoReq /\ heap[ref[t]] # "live" /\ pc[t] # "added"
    /\ undefined' = TRUE
    /\ UNCHANGED <<pendVars, heap, table, reqVars, callVars, cleanVars, stage>>

(***************************************************************************)
(* How clients behave.                                                     *)
(*                                                                         *)
(* Any: they submit, wait, cancel, query and clean up at any time, and     *)
(* requests may expire.  Only one waits for a request at a time.           *)
(*                                                                         *)
(* Careful: no request has a timeout and none is cancelled; the cleanup is *)
(* called when every request in the table is seen to be done and no other  *)
(* call is in progress, destroy when besides nothing is pending and no     *)
(* worker is in async_request_fetch.  What the calls do is not restricted: *)
(* a wakeup may be spurious, a fresh bNeedFree may hold anything.          *)
(***************************************************************************)
NoWaiter(r) == \A d \in Clients : ref[d] = r => pc[d] \in {"added", "cancel", "status"}
ClientsIdle == \A c \in Clients : pc[c] = "idle"
AllDone == ClientsIdle /\ \A r \in table : status[r] \in Terminal
Quiet == /\ AllDone /\ ~cleaning /\ items = <<>>
         /\ \A w \in Workers : pc[w] = "idle" /\ where[w] = "out"

ServeNext ==
    \/ \E c \in Clients : SubmitEnqueues(c) \/ \E r \in Reqs : SubmitAdds(c, r)
    \/ \E w \in Workers : FetchDequeues(w) \/ FetchResumes(w) \/ FetchSpurious(w)
                          \/ FetchMarks(w) \/ Complete(w)

WaitNext ==
    \E c \in Clients :
        \/ WaitFindsDone(c) \/ WaitBlocks(c) \/ WaitWakes(c) \/ WaitReturnsZero(c) \/ WaitTimesOut(c)
        \/ SpuriousWakeup(c) \/ ReadOnly(c)
        \/ \E r \in Reqs : (NoWaiter(r) /\ LookUp(c, r, "wait")) \/ LookUp(c, r, "status")

CleanupNext == CleanupEnds \/ \E r \in Reqs : CleanupFrees(r) \/ CleanupKeeps(r)

CarefulNext ==
    \/ AllDone /\ CleanupBegins
    \/ Quiet /\ DestroyMarks
    \/ DestroyClears \/ DestroyCloses \/ DestroyFreesQueue \/ DestroyEmptiesTable

AnyNext ==
    \/ \E c \in Clients, r \in Reqs : LookUp(c, r, "cancel")
    \/ \E c \in Clients : Cancel(c)
    \/ CleanupBegins \/ \E r \in Reqs : CleanupExpires(r)
    \/ \E t \in Clients \cup Workers : UsesFreed(t)

Next == /\ ~undefined /\ UNCHANGED rules
        /\ \/ ServeNext \/ WaitNext \/ CleanupNext
           \/ rules = "careful" /\ CarefulNext
           \/ rules = "any" /\ AnyNext
Spec == Init /\ [][Next]_vars

(* Workers keep fetching and complete what they fetch; a woken client gets *)
(* the mutex; a thread with a stale pointer runs on.                       *)
Running(A) == ~undefined /\ A
Fairness ==
    /\ \A w \in Workers :
          /\ WF_queue(Running(FetchDequeues(w))) /\ WF_queue(Running(FetchResumes(w)))
          /\ SF_queue(Running(FetchMarks(w))) /\ SF_queue(Running(Complete(w)))
          /\ WF_queue(Running(UsesFreed(w)))
    /\ \A c \in Clients :
          /\ WF_queue(Running(SubmitEnqueues(c))) /\ SF_queue(Running(WaitWakes(c)))
          /\ WF_queue(Running(WaitReturnsZero(c)))
FairSpec == Spec /\ Fairness
-----------------------------------------------------------------------------
(* Memory: no thread, list or table has a pointer to a request that has    *)
(* been freed, and none is freed twice.                                    *)
NoDanglingRequest ==
    /\ \A t \in Clients \cup Workers : ref[t] # NoReq => heap[ref[t]] = "live"
    /\ \A r \in Pending!ToSet(items) \cup table \cup toVisit : heap[r] = "live"
    /\ \A r \in Reqs : heap[r] # "freed twice"

(* A request that is done is out of the pending queue and of every worker's *)
(* hands, so that clients who clean up and destroy only when all is done    *)
(* are safe, whatever the bNeedFree of a fresh request holds and however    *)
(* many waits return early.                                                *)
CarefulClientsAreSafe == rules = "careful" => NoDanglingRequest /\ ~undefined

(* A wait without a timeout returns, and every submitted request is done,  *)
(* however waits, cancels, expiry and cleanups race, unless freed memory is *)
(* used.                                                                   *)
NobodyWaitsForever ==
    /\ \A c \in Clients : pc[c] = "waiting" ~> (pc[c] = "idle" \/ undefined)
    /\ \A r \in Reqs : (r \in table /\ status[r] = "PENDING") ~> (status[r] \in Terminal \/ undefined)
=============================================================================
