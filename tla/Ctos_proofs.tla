---------------------------- MODULE Ctos_proofs ----------------------------
(***************************************************************************)
(* Proofs about ctos.c: Ctos, for every number of tasks, queues, table     *)
(* entries and elements; what OsNumbers computes without a loop, for every *)
(* even size of a word and every modulus of the clock; and its list, with  *)
(* that of xlist.c, for every finite set of nodes.                         *)
(***************************************************************************)
EXTENDS Ctos, OsNumbers, Lists,
        FunctionTheorems, SequenceTheorems, FiniteSetTheorems, WellFoundedInduction, TLAPS

(* What each task is doing fits the queue it is doing it with.  A task that *)
(* creates or deletes a queue is alone with it; only a task that unlinks is *)
(* in a call on a queue without a table entry.                             *)
TasksOK ==
    \A t \in Tasks :
        /\ pc[t] = "idle" <=> que[t] = NoQueue
        /\ pc[t] = "holding" => \E e \in Elements : msg[t] = {e}
        /\ pc[t] # "holding" => msg[t] = {}
        /\ pc[t] \notin {"idle", "unlinking"} => index[que[t]] < TableSize
        /\ pc[t] = "unlinking" => index[que[t]] = TableSize
        /\ pc[t] \in {"creating", "emptying", "unlinking"} =>
              \A u \in Tasks : que[u] = que[t] => u = t

(* The inductive invariant. *)
IInv == TypeOK /\ TasksOK /\ TableConsistent /\ ElementsOwnedOnce /\ SemaphoresCount
-----------------------------------------------------------------------------
(* The actions that leave the list and the table's owners alone. *)
Steps(t) ==
    \/ \E q \in Queues : ClaimBegins(t, q) \/ ReceiveBegins(t, q)
    \/ ClaimWaits(t) \/ ClaimGivesUp(t) \/ ClaimScans(t)
    \/ SendAppends(t) \/ SendPosts(t)
    \/ ReceiveWaits(t) \/ ReceiveGivesUp(t) \/ ReceiveTakes(t) \/ Release(t)

(* The first number of a set of numbers. *)
LEMMA FirstOf ==
    ASSUME NEW S \in SUBSET Nat, S # {}
    PROVE  \E k \in S : \A j \in S : k <= j
  <1> DEFINE R == OpToRel(<, Nat)
  <1>1. PICK i \in S : \A j \in S : <<j, i>> \notin R
    BY NatLessThanWellFounded, WFMin
  <1>2. \A j \in S : ~(j < i)
    BY <1>1 DEF OpToRel
  <1> QED
    BY <1>2

(* The first free entry, or element, is a free one. *)
LEMMA LeastIn ==
    ASSUME NEW S \in SUBSET Nat, S # {}
    PROVE  Least(S) \in S
  BY FirstOf DEF Least

(* Only task t moves. *)
Moves(t) == \A u \in Tasks : u # t => pc'[u] = pc[u] /\ que'[u] = que[u]

LEMMA DoingCounts ==
    ASSUME NEW t \in Tasks, Moves(t), NEW x, NEW q
    PROVE  /\ Cardinality(Doing(x, q)) \in Nat /\ Cardinality(Doing(x, q)') \in Nat
           /\ (t \in Doing(x, q)' <=> t \in Doing(x, q)) => Doing(x, q)' = Doing(x, q)
           /\ t \in Doing(x, q)' /\ t \notin Doing(x, q)
                => Cardinality(Doing(x, q)') = Cardinality(Doing(x, q)) + 1
           /\ t \notin Doing(x, q)' /\ t \in Doing(x, q)
                => Cardinality(Doing(x, q)') = Cardinality(Doing(x, q)) - 1
  <1>1. Doing(x, q) \in SUBSET Tasks /\ Doing(x, q)' \in SUBSET Tasks
    BY DEF Doing
  <1>2. IsFiniteSet(Doing(x, q)) /\ IsFiniteSet(Doing(x, q)')
    BY <1>1, CtosAssumption, FS_Subset DEF CtosAssumption
  <1>3. \A u : u # t => (u \in Doing(x, q)' <=> u \in Doing(x, q))
    BY DEF Doing, Moves
  <1>4. t \in Doing(x, q)' /\ t \notin Doing(x, q) => Doing(x, q)' = Doing(x, q) \cup {t}
    BY <1>3
  <1>5. t \notin Doing(x, q)' /\ t \in Doing(x, q) => Doing(x, q)' = Doing(x, q) \ {t}
    BY <1>3
  <1>6. (t \in Doing(x, q)' <=> t \in Doing(x, q)) => Doing(x, q)' = Doing(x, q)
    BY <1>3
  <1> QED
    BY <1>2, <1>4, <1>5, <1>6, FS_CardinalityType, FS_AddElement, FS_RemoveElement

(* The calls of one task do not disturb what the others do. *)
LEMMA StepMoves ==
    ASSUME TypeOK, NEW t \in Tasks, Steps(t)
    PROVE  Moves(t)
  BY DEF TypeOK, Moves, Steps, ClaimBegins, ReceiveBegins, ClaimWaits, ClaimGivesUp, ClaimScans,
         SendAppends, SendPosts, ReceiveWaits, ReceiveGivesUp, ReceiveTakes, Release,
         Start, Go, Finish

(* Where a task in a call stands. *)
LEMMA TaskFacts ==
    ASSUME IInv, NEW t \in Tasks, pc[t] \notin {"idle", "unlinking"}
    PROVE  /\ que[t] \in Queues /\ index[que[t]] \in Slots /\ que[t] \in Alive
           /\ pc[t] # "emptying" => Doing("emptying", que[t]) = {}
  <1>1. que[t] \in Queues /\ index[que[t]] < TableSize
    BY DEF IInv, TypeOK, TasksOK
  <1>2. index[que[t]] \in Slots
    BY <1>1, CtosAssumption DEF IInv, TypeOK, Slots, CtosAssumption
  <1>3. pc[t] # "emptying" => Doing("emptying", que[t]) = {}
    BY DEF IInv, TasksOK, Doing
  <1> QED
    BY <1>1, <1>2, <1>3 DEF Alive

LEMMA UsedCounts ==
    ASSUME TypeOK, NEW i \in Slots
    PROVE  /\ IsFiniteSet(used[i]) /\ Cardinality(used[i]) \in Nat
           /\ \A e : e \notin used[i] => Cardinality(used[i] \cup {e}) = Cardinality(used[i]) + 1
           /\ \A e : e \in used[i] => /\ Cardinality(used[i] \ {e}) = Cardinality(used[i]) - 1
                                   /\ Cardinality(used[i]) > 0
  <1>1. used[i] \in SUBSET Elements /\ IsFiniteSet(Elements)
    BY CtosAssumption, FS_Interval DEF TypeOK, Elements, CtosAssumption
  <1>2. IsFiniteSet(used[i])
    BY <1>1, FS_Subset
  <1>3. Cardinality(used[i]) \in Nat
    BY <1>2, FS_CardinalityType
  <1>4. \A e : e \notin used[i] => Cardinality(used[i] \cup {e}) = Cardinality(used[i]) + 1
    BY <1>2, FS_AddElement
  <1>5. \A e : e \in used[i] => Cardinality(used[i] \ {e}) = Cardinality(used[i]) - 1
    BY <1>2, FS_RemoveElement
  <1>6. \A e : e \in used[i] => Cardinality(used[i]) > 0
    <2>1. used[i] # {} => Cardinality(used[i]) # 0
      BY <1>2, FS_EmptySet
    <2> QED
      BY <1>3, <2>1
  <1> QED
    BY <1>2, <1>3, <1>4, <1>5, <1>6

(* An element that is held or pending is in use. *)
LEMMA HeldIsUsed ==
    ASSUME IInv, NEW t \in Tasks, pc[t] = "holding"
    PROVE  \E e \in Elements : msg[t] = {e} /\ e \in used[index[que[t]]]
  <1>1. PICK e \in Elements : msg[t] = {e}
    BY DEF IInv, TasksOK
  <1>2. que[t] \in Alive /\ Holds(t, que[t], e)
    BY <1>1, TaskFacts DEF Holds
  <1>3. OwnedOnce(que[t])
    BY <1>2 DEF IInv, ElementsOwnedOnce
  <1>4. e \in used[index[que[t]]]
    BY <1>2, <1>3 DEF OwnedOnce
  <1> QED
    BY <1>1, <1>4

LEMMA StepType ==
    ASSUME IInv, NEW t \in Tasks, Steps(t)
    PROVE  TypeOK'
  <1> DEFINE q == que[t]
             i == index[q]
  <1>0. TypeOK
    BY DEF IInv
  <1>1. CASE \E qq \in Queues : ClaimBegins(t, qq) \/ ReceiveBegins(t, qq)
    BY <1>0, <1>1 DEF TypeOK, States, ClaimBegins, ReceiveBegins, Start, table, sems
  <1>2. CASE ClaimWaits(t)
    <2>1. q \in Queues
      BY <1>2, TaskFacts DEF ClaimWaits, Go
    <2>2. claimSem' \in [Queues -> 0 .. NoElements]
      BY <1>0, <1>2, <2>1, CtosAssumption DEF TypeOK, ClaimWaits, CtosAssumption
    <2> QED
      BY <1>0, <1>2, <2>2 DEF TypeOK, States, ClaimWaits, Go, table
  <1>3. CASE ClaimGivesUp(t) \/ ReceiveGivesUp(t)
    BY <1>0, <1>3 DEF TypeOK, States, ClaimGivesUp, ReceiveGivesUp, Finish, table, sems
  <1>4. CASE ClaimScans(t)
    <2> DEFINE e == Least(Elements \ used[i])
    <2>1. CASE Finish(t, "scanning") /\ UNCHANGED <<table, list, index, sems, msg>>
      BY <1>0, <2>1 DEF TypeOK, States, Finish, table, sems
    <2>2. CASE /\ Go(t, "scanning", "holding")
               /\ Elements \ used[i] # {}
               /\ used' = [used EXCEPT ![i] = @ \cup {e}]
               /\ msg' = [msg EXCEPT ![t] = {e}]
               /\ UNCHANGED <<memory, pending, list, index, sems>>
      <3>1. e \in Elements
        <4>1. Elements \ used[i] \in SUBSET Nat
          BY CtosAssumption DEF Elements, CtosAssumption
        <4> QED
          BY <2>2, <4>1, LeastIn
      <3> HIDE DEF e
      <3> QED
        BY <1>0, <2>2, <3>1 DEF TypeOK, States, Go, sems
    <2> QED
      BY <1>4, <2>1, <2>2 DEF ClaimScans
  <1>5. CASE SendAppends(t)
    <2>1. PICK e \in msg[t] : pending' = [pending EXCEPT ![i] = Append(@, e)]
      BY <1>5 DEF SendAppends
    <2>2. e \in Elements /\ i \in Slots
      BY <1>0, <1>5, TaskFacts DEF TypeOK, SendAppends, Go
    <2>3. Append(pending[i], e) \in Seq(Elements)
      BY <1>0, <2>2 DEF TypeOK
    <2>4. pending' \in [Slots -> Seq(Elements)]
      BY <1>0, <2>1, <2>3 DEF TypeOK
    <2> QED
      BY <1>0, <1>5, <2>4 DEF TypeOK, States, SendAppends, Go, sems
  <1>6. CASE SendPosts(t)
    <2>1. q \in Queues
      BY <1>6, TaskFacts DEF SendPosts, Finish
    <2>2. msgSem' \in [Queues -> Nat]
      BY <1>0, <1>6, <2>1 DEF TypeOK, SendPosts
    <2> QED
      BY <1>0, <1>6, <2>2 DEF TypeOK, States, SendPosts, Finish, table
  <1>7. CASE ReceiveWaits(t)
    <2>1. q \in Queues
      BY <1>7, TaskFacts DEF ReceiveWaits, Go
    <2>2. msgSem' \in [Queues -> Nat]
      BY <1>0, <1>7, <2>1 DEF TypeOK, ReceiveWaits
    <2> QED
      BY <1>0, <1>7, <2>2 DEF TypeOK, States, ReceiveWaits, Go, table
  <1>8. CASE ReceiveTakes(t)
    <2>1. CASE Finish(t, "taking") /\ UNCHANGED <<table, list, index, sems, msg>>
      BY <1>0, <2>1 DEF TypeOK, States, Finish, table, sems
    <2>2. CASE /\ Go(t, "taking", "holding")
               /\ pending[i] # <<>>
               /\ msg' = [msg EXCEPT ![t] = {Head(pending[i])}]
               /\ pending' = [pending EXCEPT ![i] = Tail(@)]
               /\ UNCHANGED <<memory, used, list, index, sems>>
      <3>1. i \in Slots
        BY <2>2, TaskFacts DEF Go
      <3>2. Head(pending[i]) \in Elements /\ Tail(pending[i]) \in Seq(Elements)
        BY <1>0, <2>2, <3>1 DEF TypeOK
      <3>3. pending' \in [Slots -> Seq(Elements)]
        BY <1>0, <2>2, <3>2 DEF TypeOK
      <3> QED
        BY <1>0, <2>2, <3>2, <3>3 DEF TypeOK, States, Go, sems
    <2> QED
      BY <1>8, <2>1, <2>2 DEF ReceiveTakes
  <1>9. CASE Release(t)
    <2>1. pc[t] = "holding"
      BY <1>9 DEF Release, Finish
    <2>2. q \in Alive /\ q \in Queues /\ i \in Slots /\ Doing("emptying", q) = {}
      BY <2>1, TaskFacts
    <2>3. CountsFree(q)
      BY <2>2 DEF IInv, SemaphoresCount
    <2>4. Cardinality(used[i]) > 0 /\ Cardinality(used[i]) \in Nat
      BY <1>0, <2>1, <2>2, HeldIsUsed, UsedCounts
    <2>5. Cardinality(Doing("scanning", q)) \in Nat
      <3>1. Doing("scanning", q) \in SUBSET Tasks
        BY DEF Doing
      <3> QED
        BY <3>1, CtosAssumption, FS_Subset, FS_CardinalityType DEF CtosAssumption
    <2>6. claimSem[q] + 1 \in 0 .. NoElements
      BY <1>0, <2>2, <2>3, <2>4, <2>5, CtosAssumption DEF CountsFree, TypeOK, CtosAssumption
    <2>7. claimSem' \in [Queues -> 0 .. NoElements]
      BY <1>0, <1>9, <2>6 DEF TypeOK, Release
    <2>8. used' \in [Slots -> SUBSET Elements]
      BY <1>0, <1>9 DEF TypeOK, Release
    <2> QED
      BY <1>0, <1>9, <2>7, <2>8 DEF TypeOK, States, Release, Finish
  <1> QED
    BY <1>1, <1>2, <1>3, <1>4, <1>5, <1>6, <1>7, <1>8, <1>9 DEF Steps

LEMMA StepTable ==
    ASSUME IInv, NEW t \in Tasks, Steps(t)
    PROVE  TableConsistent' /\ UNCHANGED <<memory, list, index>>
  <1>0. TypeOK
    BY DEF IInv
  <1>1. UNCHANGED <<memory, list, index>>
    BY DEF Steps, ClaimBegins, ReceiveBegins, ClaimWaits, ClaimGivesUp, ClaimScans, SendAppends,
           SendPosts, ReceiveWaits, ReceiveGivesUp, ReceiveTakes, Release, table
  <1>2. Moves(t)
    BY <1>0, StepMoves
  <1>3. pc[t] \notin {"creating", "unlinking"} /\ pc'[t] \notin {"creating", "unlinking"}
    BY <1>0 DEF Steps, ClaimBegins, ReceiveBegins, ClaimWaits, ClaimGivesUp, ClaimScans,
           SendAppends, SendPosts, ReceiveWaits, ReceiveGivesUp, ReceiveTakes, Release,
           Start, Go, Finish, TypeOK
  <1>4. ASSUME NEW q \in Queues, NEW x \in {"creating", "unlinking"}
        PROVE  Doing(x, q)' = Doing(x, q)
    <2>1. t \notin Doing(x, q) /\ t \notin Doing(x, q)'
      BY <1>3 DEF Doing
    <2> QED
      BY <1>2, <2>1, DoingCounts
  <1> QED
    BY <1>1, <1>4 DEF IInv, TableConsistent, Alive

LEMMA StepTasks ==
    ASSUME IInv, NEW t \in Tasks, Steps(t)
    PROVE  TasksOK'
  <1>0. TypeOK /\ TasksOK /\ index' = index /\ Moves(t)
    BY StepTable, StepMoves DEF IInv
  <1>1. \A u \in Tasks : u # t => msg'[u] = msg[u]
    BY <1>0 DEF Steps, ClaimBegins, ReceiveBegins, ClaimWaits, ClaimGivesUp, ClaimScans,
           SendAppends, SendPosts, ReceiveWaits, ReceiveGivesUp, ReceiveTakes, Release,
           sems, TypeOK
  <1>2. /\ pc'[t] \notin {"creating", "emptying", "unlinking"}
        /\ pc'[t] = "idle" <=> que'[t] = NoQueue
        /\ pc'[t] # "idle" => index[que'[t]] < TableSize
    <2>1. CASE \E q \in Queues : ClaimBegins(t, q) \/ ReceiveBegins(t, q)
      BY <1>0, <2>1, CtosAssumption DEF ClaimBegins, ReceiveBegins, Start, TypeOK, CtosAssumption
    <2>2. CASE pc[t] \notin {"idle", "creating", "emptying", "unlinking"}
                 /\ \/ pc' = [pc EXCEPT ![t] = "idle"] /\ que' = [que EXCEPT ![t] = NoQueue]
                    \/ \E x \in {"scanning", "holding", "posting", "taking"} :
                           pc' = [pc EXCEPT ![t] = x] /\ que' = que
      BY <1>0, <2>2 DEF TypeOK, TasksOK
    <2> QED
      BY <2>1, <2>2 DEF Steps, ClaimWaits, ClaimGivesUp, ClaimScans, SendAppends, SendPosts,
           ReceiveWaits, ReceiveGivesUp, ReceiveTakes, Release, Go, Finish
  <1>3. /\ pc'[t] = "holding" => \E e \in Elements : msg'[t] = {e}
        /\ pc'[t] # "holding" => msg'[t] = {}
    <2>0. TypeOK'
      BY StepType
    <2>1. pc'[t] = "holding" => \E e : msg'[t] = {e}
      BY <1>0 DEF TypeOK, Steps, ClaimBegins, ReceiveBegins, ClaimWaits, ClaimGivesUp, ClaimScans,
           SendAppends, SendPosts, ReceiveWaits, ReceiveGivesUp, ReceiveTakes, Release, Start, Go, Finish
    <2>2. pc'[t] # "holding" => msg'[t] = {}
      BY <1>0 DEF TypeOK, TasksOK, Steps, ClaimBegins, ReceiveBegins, ClaimWaits, ClaimGivesUp,
           ClaimScans, SendAppends, SendPosts, ReceiveWaits, ReceiveGivesUp, ReceiveTakes, Release,
           Start, Go, Finish
    <2> QED
      BY <2>0, <2>1, <2>2 DEF TypeOK
  <1>4. ASSUME NEW u \in Tasks, u # t, pc[u] \in {"creating", "emptying", "unlinking"}
        PROVE  que'[t] # que[u]
    <2>1. que[t] # que[u] /\ que[u] # NoQueue /\ que[u] \in Queues
      BY <1>0, <1>4 DEF TasksOK, TypeOK
    <2>2. CASE \E q \in Queues : ClaimBegins(t, q) \/ ReceiveBegins(t, q)
      <3>1. PICK q \in Queues : Usable(q) /\ index[q] < TableSize /\ que'[t] = q
        BY <1>0, <2>2 DEF ClaimBegins, ReceiveBegins, Start, TypeOK
      <3>2. q \in list /\ \A v \in Tasks : que[v] = q => pc[v] \notin {"emptying", "unlinking"}
        BY <3>1 DEF Usable
      <3>3. Doing("creating", q) = {}
        BY <3>2 DEF IInv, TableConsistent, Doing
      <3> QED
        BY <1>4, <3>1, <3>2, <3>3 DEF Doing
    <2>3. CASE que'[t] \in {que[t], NoQueue}
      BY <2>1, <2>3
    <2> QED
      BY <1>0, <2>2, <2>3 DEF TypeOK, Steps, ClaimWaits, ClaimGivesUp, ClaimScans, SendAppends,
           SendPosts, ReceiveWaits, ReceiveGivesUp, ReceiveTakes, Release, Go, Finish
  <1> QED
    <2>1. ASSUME NEW u \in Tasks, u # t
          PROVE  /\ pc'[u] = "idle" <=> que'[u] = NoQueue
                 /\ pc'[u] = "holding" => \E e \in Elements : msg'[u] = {e}
                 /\ pc'[u] # "holding" => msg'[u] = {}
                 /\ pc'[u] \notin {"idle", "unlinking"} => index'[que'[u]] < TableSize
                 /\ pc'[u] = "unlinking" => index'[que'[u]] = TableSize
                 /\ pc'[u] \in {"creating", "emptying", "unlinking"} =>
                        \A v \in Tasks : que'[v] = que'[u] => v = u
      BY <1>0, <1>1, <1>4, <2>1 DEF Moves, TasksOK
    <2> QED
      BY <1>0, <1>2, <1>3, <2>1 DEF TasksOK

-----------------------------------------------------------------------------
(* Ownership of elements. *)
LEMMA QueueGrows ==
    ASSUME NEW s \in Seq(Elements), NEW e \in Elements
    PROVE  /\ Len(Append(s, e)) = Len(s) + 1 /\ Append(s, e)[Len(s) + 1] = e
           /\ \A k \in 1 .. Len(s) : Append(s, e)[k] = s[k]
  OBVIOUS

LEMMA QueueShrinks ==
    ASSUME NEW s \in Seq(Elements), s # <<>>
    PROVE  /\ Len(s) \in Nat \ {0} /\ Len(Tail(s)) = Len(s) - 1 /\ Head(s) = s[1]
           /\ \A k \in 1 .. Len(s) - 1 : Tail(s)[k] = s[k + 1]
  OBVIOUS

LEMMA OtherQueueOwned ==
    ASSUME IInv, NEW t \in Tasks, NEW q \in Alive, NEW p \in Alive, p # q, index' = index,
           \A i \in Slots : i # index[q] => used'[i] = used[i] /\ pending'[i] = pending[i],
           \A u \in Tasks : \A e : Holds(u, p, e)' <=> Holds(u, p, e)
    PROVE  OwnedOnce(p)'
  <1>1. index[p] \in Slots /\ index[p] # index[q]
    BY CtosAssumption DEF IInv, TypeOK, TableConsistent, Alive, Slots, CtosAssumption
  <1>2. OwnedOnce(p)
    BY DEF IInv, ElementsOwnedOnce
  <1> QED
    BY <1>1, <1>2 DEF OwnedOnce, IsPending

LEMMA QuietOwned ==
    ASSUME IInv, NEW t \in Tasks, Moves(t), UNCHANGED <<index, used, pending, msg>>, msg[t] = {}
    PROVE  ElementsOwnedOnce'
  <1>1. \A u \in Tasks : \A p, e : Holds(u, p, e)' <=> Holds(u, p, e)
    BY DEF Holds, Moves
  <1> QED
    BY <1>1 DEF IInv, ElementsOwnedOnce, OwnedOnce, IsPending, Alive

LEMMA ClaimOwned ==
    ASSUME IInv, NEW t \in Tasks, pc[t] = "scanning", UNCHANGED <<index, pending, que>>,
           NEW q, que[t] = q, NEW i, index[q] = i, NEW e \in Elements, e \notin used[i],
           used' = [used EXCEPT ![i] = @ \cup {e}], msg' = [msg EXCEPT ![t] = {e}]
    PROVE  ElementsOwnedOnce'
  <1>0. TypeOK /\ q \in Alive /\ i \in Slots /\ Alive' = Alive /\ msg[t] = {}
    BY TaskFacts DEF IInv, TasksOK, Alive
  <1>1. ASSUME NEW p \in Alive, p # q
        PROVE  OwnedOnce(p)'
    <2>1. \A u \in Tasks : \A x : Holds(u, p, x)' <=> Holds(u, p, x)
      BY <1>0, <1>1 DEF TypeOK, Holds
    <2>2. \A j \in Slots : j # i => used'[j] = used[j] /\ pending'[j] = pending[j]
      BY <1>0 DEF TypeOK
    <2> QED
      BY <1>0, <1>1, <2>1, <2>2, OtherQueueOwned
  <1>2. OwnedOnce(q)'
    <2>1. OwnedOnce(q)
      BY <1>0 DEF IInv, ElementsOwnedOnce
    <2>2. ~IsPending(i, e) /\ \A u \in Tasks : ~Holds(u, q, e)
      BY <2>1 DEF OwnedOnce
    <2>3. \A x : IsPending(i, x)' <=> IsPending(i, x)
      BY DEF IsPending
    <2>4. \A u \in Tasks : \A x : Holds(u, q, x)' <=> Holds(u, q, x) \/ (u = t /\ x = e)
      BY <1>0 DEF TypeOK, Holds
    <2>5. \A x : x \in used'[i] <=> x \in used[i] \/ x = e
      BY <1>0 DEF TypeOK
    <2> QED
      BY <2>1, <2>2, <2>3, <2>4, <2>5 DEF OwnedOnce, IsPending
  <1> QED
    BY <1>0, <1>1, <1>2 DEF ElementsOwnedOnce

LEMMA SendOwned ==
    ASSUME IInv, NEW t \in Tasks, SendAppends(t), NEW q, que[t] = q, NEW i, index[q] = i
    PROVE  ElementsOwnedOnce'
  <1>a. pc[t] = "holding" /\ que' = que /\ UNCHANGED <<used, index>>
    BY DEF SendAppends, Go
  <1>0. TypeOK /\ q \in Alive /\ i \in Slots /\ Alive' = Alive
    BY <1>a, TaskFacts DEF IInv, Alive
  <1>b. PICK e \in Elements : msg[t] = {e}
    BY <1>a DEF IInv, TasksOK
  <1>c. pending' = [pending EXCEPT ![i] = Append(@, e)] /\ msg' = [msg EXCEPT ![t] = {}]
    BY <1>b DEF SendAppends
  <1>1. ASSUME NEW p \in Alive, p # q
        PROVE  OwnedOnce(p)'
    <2>1. \A u \in Tasks : \A x : Holds(u, p, x)' <=> Holds(u, p, x)
      BY <1>0, <1>1, <1>a, <1>c DEF TypeOK, Holds
    <2>2. \A j \in Slots : j # i => used'[j] = used[j] /\ pending'[j] = pending[j]
      BY <1>0, <1>a, <1>c DEF TypeOK
    <2> QED
      BY <1>0, <1>1, <1>a, <2>1, <2>2, OtherQueueOwned
  <1>2. OwnedOnce(q)'
    <2>1. OwnedOnce(q)
      BY <1>0 DEF IInv, ElementsOwnedOnce
    <2>2. Holds(t, q, e) /\ ~IsPending(i, e)
      BY <1>b, <2>1 DEF OwnedOnce, Holds
    <2>3. \A u \in Tasks : \A x : Holds(u, q, x)' <=> Holds(u, q, x) /\ u # t
      BY <1>0, <1>a, <1>c DEF TypeOK, Holds
    <2>4. \A x : Holds(t, q, x) <=> x = e
      BY <1>b DEF Holds
    <2>5. /\ pending'[i] = Append(pending[i], e) /\ pending[i] \in Seq(Elements)
          /\ Len(pending[i]) \in Nat
      BY <1>0, <1>c DEF TypeOK
    <2>6. \A x : IsPending(i, x)' <=> IsPending(i, x) \/ x = e
      BY <1>a, <2>5, QueueGrows DEF IsPending
    <2>7. \A j, k \in 1 .. Len(pending'[i]) : pending'[i][j] = pending'[i][k] => j = k
      BY <2>1, <2>2, <2>5, QueueGrows DEF OwnedOnce, IsPending
    <2>8. \A x \in Elements : x \in used'[i] <=> IsPending(i, x)' \/ \E u \in Tasks : Holds(u, q, x)'
      BY <1>a, <2>1, <2>3, <2>4, <2>6 DEF OwnedOnce
    <2>9. /\ \A u \in Tasks, x \in Elements : Holds(u, q, x)' => ~IsPending(i, x)'
          /\ \A u, v \in Tasks, x \in Elements : Holds(u, q, x)' /\ Holds(v, q, x)' => u = v
      BY <2>1, <2>3, <2>4, <2>6 DEF OwnedOnce
    <2> QED
      BY <1>a, <2>8, <2>9, <2>7 DEF OwnedOnce, IsPending
  <1> QED
    BY <1>0, <1>1, <1>2 DEF ElementsOwnedOnce

LEMMA ReceiveOwned ==
    ASSUME IInv, NEW t \in Tasks, pc[t] = "taking", UNCHANGED <<index, used, que>>,
           NEW q, que[t] = q, NEW i, index[q] = i, pending[i] # <<>>, NEW e, e = Head(pending[i]),
           msg' = [msg EXCEPT ![t] = {e}], pending' = [pending EXCEPT ![i] = Tail(@)]
    PROVE  ElementsOwnedOnce'
  <1>0. TypeOK /\ q \in Alive /\ i \in Slots /\ Alive' = Alive /\ msg[t] = {}
    BY TaskFacts DEF IInv, TasksOK, Alive
  <1>1. ASSUME NEW p \in Alive, p # q
        PROVE  OwnedOnce(p)'
    <2>1. \A u \in Tasks : \A x : Holds(u, p, x)' <=> Holds(u, p, x)
      BY <1>0, <1>1 DEF TypeOK, Holds
    <2>2. \A j \in Slots : j # i => used'[j] = used[j] /\ pending'[j] = pending[j]
      BY <1>0 DEF TypeOK
    <2> QED
      BY <1>0, <1>1, <2>1, <2>2, OtherQueueOwned
  <1>2. OwnedOnce(q)'
    <2>1. OwnedOnce(q)
      BY <1>0 DEF IInv, ElementsOwnedOnce
    <2>2. /\ pending'[i] = Tail(pending[i]) /\ pending[i] \in Seq(Elements)
          /\ Len(pending[i]) \in Nat \ {0} /\ Len(pending'[i]) = Len(pending[i]) - 1
          /\ e = pending[i][1] /\ e \in Elements
          /\ \A k \in 1 .. Len(pending[i]) - 1 : pending'[i][k] = pending[i][k + 1]
      BY <1>0, QueueShrinks DEF TypeOK
    <2>3. \A u \in Tasks : \A x : Holds(u, q, x)' <=> Holds(u, q, x) \/ (u = t /\ x = e)
      BY <1>0 DEF TypeOK, Holds
    <2>4. \A x : IsPending(i, x) <=> IsPending(i, x)' \/ x = e
      <3>1. TAKE x
      <3>2. IsPending(i, x)' => IsPending(i, x)
        BY <2>2 DEF IsPending
      <3>3. x = e => IsPending(i, x)
        BY <2>2 DEF IsPending
      <3>4. ASSUME IsPending(i, x), x # e PROVE IsPending(i, x)'
        <4>1. PICK k \in 1 .. Len(pending[i]) : pending[i][k] = x
          BY <3>4 DEF IsPending
        <4>2. k - 1 \in 1 .. Len(pending'[i]) /\ pending'[i][k - 1] = x
          BY <2>2, <3>4, <4>1
        <4> QED
          BY <4>2 DEF IsPending
      <3> QED
        BY <3>2, <3>3, <3>4
    <2>5. ~IsPending(i, e)'
      <3>1. \A k \in 1 .. Len(pending[i]) - 1 : pending[i][k + 1] # pending[i][1]
        BY <2>1, <2>2 DEF OwnedOnce
      <3> QED
        BY <2>2, <3>1 DEF IsPending
    <2>6. \A j, k \in 1 .. Len(pending'[i]) : pending'[i][j] = pending'[i][k] => j = k
      <3>1. ASSUME NEW j \in 1 .. Len(pending'[i]), NEW k \in 1 .. Len(pending'[i]),
                   pending'[i][j] = pending'[i][k]
            PROVE  j = k
        <4>1. /\ j + 1 \in 1 .. Len(pending[i]) /\ k + 1 \in 1 .. Len(pending[i])
              /\ pending[i][j + 1] = pending[i][k + 1]
          BY <2>2, <3>1
        <4>2. j + 1 = k + 1
          BY <2>1, <4>1 DEF OwnedOnce
        <4> QED
          BY <4>2
      <3> QED
        BY <3>1
    <2>7. IsPending(i, e) /\ \A u \in Tasks : ~Holds(u, q, e)
      BY <2>1, <2>2, <2>4 DEF OwnedOnce
    <2>8. \A x \in Elements : x \in used'[i] <=> IsPending(i, x)' \/ \E u \in Tasks : Holds(u, q, x)'
      BY <2>1, <2>3, <2>4, <2>7 DEF OwnedOnce
    <2>9. /\ \A u \in Tasks, x \in Elements : Holds(u, q, x)' => ~IsPending(i, x)'
          /\ \A u, v \in Tasks, x \in Elements : Holds(u, q, x)' /\ Holds(v, q, x)' => u = v
      BY <2>1, <2>3, <2>4, <2>5, <2>7 DEF OwnedOnce
    <2> QED
      BY <2>8, <2>9, <2>6 DEF OwnedOnce, IsPending
  <1> QED
    BY <1>0, <1>1, <1>2 DEF ElementsOwnedOnce

LEMMA ReleaseOwned ==
    ASSUME IInv, NEW t \in Tasks, Release(t), NEW q, que[t] = q, NEW i, index[q] = i
    PROVE  ElementsOwnedOnce'
  <1>a. /\ pc[t] = "holding" /\ que' = [que EXCEPT ![t] = NoQueue] /\ UNCHANGED <<pending, index>>
        /\ used' = [used EXCEPT ![i] = @ \ msg[t]] /\ msg' = [msg EXCEPT ![t] = {}]
    BY DEF Release, Finish
  <1>0. TypeOK /\ q \in Alive /\ i \in Slots /\ Alive' = Alive
    BY <1>a, TaskFacts DEF IInv, Alive
  <1>b. PICK e \in Elements : msg[t] = {e}
    BY <1>a DEF IInv, TasksOK
  <1>c. \A p, x : ~Holds(t, p, x)'
    BY <1>0, <1>a DEF TypeOK, Holds
  <1>1. ASSUME NEW p \in Alive, p # q
        PROVE  OwnedOnce(p)'
    <2>1. \A u \in Tasks : \A x : Holds(u, p, x)' <=> Holds(u, p, x)
      BY <1>0, <1>1, <1>a, <1>c DEF TypeOK, Holds
    <2>2. \A j \in Slots : j # i => used'[j] = used[j] /\ pending'[j] = pending[j]
      BY <1>0, <1>a DEF TypeOK
    <2> QED
      BY <1>0, <1>1, <1>a, <2>1, <2>2, OtherQueueOwned
  <1>2. OwnedOnce(q)'
    <2>1. OwnedOnce(q)
      BY <1>0 DEF IInv, ElementsOwnedOnce
    <2>2. \A x : Holds(t, q, x) <=> x = e
      BY <1>b DEF Holds
    <2>3. ~IsPending(i, e) /\ \A u \in Tasks : u # t => ~Holds(u, q, e)
      BY <2>1, <2>2 DEF OwnedOnce
    <2>4. \A u \in Tasks : \A x : Holds(u, q, x)' <=> Holds(u, q, x) /\ u # t
      BY <1>0, <1>a, <1>c DEF TypeOK, Holds
    <2>5. \A x : x \in used'[i] <=> x \in used[i] /\ x # e
      BY <1>0, <1>a, <1>b DEF TypeOK
    <2>6. \A x : IsPending(i, x)' <=> IsPending(i, x)
      BY <1>a DEF IsPending
    <2> QED
      BY <1>a, <2>1, <2>2, <2>3, <2>4, <2>5, <2>6 DEF OwnedOnce, IsPending
  <1> QED
    BY <1>0, <1>1, <1>2 DEF ElementsOwnedOnce

LEMMA StepOwned ==
    ASSUME IInv, NEW t \in Tasks, Steps(t)
    PROVE  ElementsOwnedOnce'
  <1>0. TypeOK /\ Moves(t) /\ index' = index
    BY StepMoves, StepTable DEF IInv
  <1>1. CASE UNCHANGED <<used, pending, msg>> /\ pc[t] # "holding"
    <2>1. msg[t] = {}
      BY <1>1 DEF IInv, TasksOK
    <2> QED
      BY <1>0, <1>1, <2>1, QuietOwned
  <1>2. CASE ClaimScans(t)
    <2>1. PICK q, i, e : q = que[t] /\ i = index[q] /\ e = Least(Elements \ used[i])
      OBVIOUS
    <2>2. CASE UNCHANGED <<used, pending, msg>> /\ pc[t] # "holding"
      BY <1>1, <2>2
    <2>3. CASE /\ Go(t, "scanning", "holding") /\ Elements \ used[i] # {}
               /\ used' = [used EXCEPT ![i] = @ \cup {e}]
               /\ msg' = [msg EXCEPT ![t] = {e}]
               /\ UNCHANGED <<memory, pending, list, index, sems>>
      <3>1. Elements \ used[i] \in SUBSET Nat
        BY CtosAssumption DEF Elements, CtosAssumption
      <3>2. e \in Elements /\ e \notin used[i]
        BY <2>1, <2>3, <3>1, LeastIn
      <3> QED
        BY <2>1, <2>3, <3>2, ClaimOwned DEF Go
    <2> QED
      BY <1>2, <2>1, <2>2, <2>3 DEF ClaimScans, Finish, table
  <1>3. CASE ReceiveTakes(t)
    <2>1. PICK q, i, e : q = que[t] /\ i = index[q] /\ e = Head(pending[i])
      OBVIOUS
    <2>2. CASE UNCHANGED <<used, pending, msg>> /\ pc[t] # "holding"
      BY <1>1, <2>2
    <2>3. CASE /\ Go(t, "taking", "holding") /\ pending[i] # <<>>
               /\ msg' = [msg EXCEPT ![t] = {e}]
               /\ pending' = [pending EXCEPT ![i] = Tail(@)]
               /\ UNCHANGED <<memory, used, list, index, sems>>
      BY <2>1, <2>3, ReceiveOwned DEF Go
    <2> QED
      BY <1>3, <2>1, <2>2, <2>3 DEF ReceiveTakes, Finish, table
  <1>4. CASE SendAppends(t) \/ Release(t)
    <2>1. PICK q, i : q = que[t] /\ i = index[q]
      OBVIOUS
    <2> QED
      BY <1>4, <2>1, SendOwned, ReleaseOwned
  <1> QED
    BY <1>1, <1>2, <1>3, <1>4 DEF Steps, ClaimBegins, ReceiveBegins, ClaimWaits, ClaimGivesUp,
       SendPosts, ReceiveWaits, ReceiveGivesUp, Start, Go, Finish, table
-----------------------------------------------------------------------------
(* The counts of the semaphores. *)
Counted(q) == Doing("emptying", q) = {} => CountsFree(q) /\ CountsMessages(q)

LEMMA SameDoing ==
    ASSUME IInv, NEW t \in Tasks, Moves(t), NEW q, NEW x,
           (pc[t] = x /\ que[t] = q) <=> (pc'[t] = x /\ que'[t] = q)
    PROVE  Doing(x, q)' = Doing(x, q)
  <1>1. t \in Doing(x, q)' <=> t \in Doing(x, q)
    BY DEF Doing
  <1> QED
    BY <1>1, DoingCounts

LEMMA OtherQueueCounts ==
    ASSUME IInv, NEW t \in Tasks, Moves(t), index' = index,
           NEW q \in Alive, NEW p \in Alive, p # q, que[t] = q, que'[t] \in {q, NoQueue},
           \A i \in Slots : i # index[q] => used'[i] = used[i] /\ pending'[i] = pending[i],
           \A r \in Queues : r # q => claimSem'[r] = claimSem[r] /\ msgSem'[r] = msgSem[r]
    PROVE  Counted(p)'
  <1>1. /\ index[p] \in Slots /\ index[p] # index[q] /\ p \in Queues /\ p # NoQueue
    BY CtosAssumption DEF IInv, TypeOK, TableConsistent, Alive, Slots, CtosAssumption
  <1>2. Counted(p)
    BY DEF IInv, SemaphoresCount, Counted
  <1>3. \A x : Doing(x, p)' = Doing(x, p)
    BY <1>1, SameDoing
  <1> QED
    BY <1>1, <1>2, <1>3 DEF Counted, CountsFree, CountsMessages

(* Calls that have not passed a wait, and those that leave before it. *)
LEMMA QuietCounts ==
    ASSUME IInv, NEW t \in Tasks, Moves(t), UNCHANGED <<index, table, sems>>,
           pc[t] \notin {"emptying", "scanning", "taking", "posting"},
           pc'[t] \notin {"emptying", "scanning", "taking", "posting"}
    PROVE  SemaphoresCount'
  <1>1. ASSUME NEW p \in Alive
        PROVE  Counted(p)'
    <2>1. \A x \in {"emptying", "scanning", "taking", "posting"} : Doing(x, p)' = Doing(x, p)
      BY SameDoing
    <2>2. Counted(p)
      BY DEF IInv, SemaphoresCount, Counted
    <2> QED
      BY <2>1, <2>2 DEF Counted, CountsFree, CountsMessages, table, sems
  <1> QED
    BY <1>1 DEF SemaphoresCount, Counted, Alive

LEMMA ClaimWaitsCounts ==
    ASSUME IInv, NEW t \in Tasks, ClaimWaits(t), NEW q, que[t] = q, NEW i, index[q] = i
    PROVE  SemaphoresCount'
  <1>a. /\ pc[t] = "claiming" /\ pc' = [pc EXCEPT ![t] = "scanning"] /\ que' = que
        /\ claimSem' = [claimSem EXCEPT ![q] = @ - 1] /\ UNCHANGED <<table, index, msgSem>>
    BY DEF ClaimWaits, Go
  <1>0. /\ TypeOK /\ Moves(t) /\ q \in Alive /\ q \in Queues /\ i \in Slots /\ Alive' = Alive
        /\ Doing("emptying", q) = {} /\ que'[t] \in {q, NoQueue} /\ q # NoQueue
    BY <1>a, TaskFacts, CtosAssumption DEF IInv, Alive, TypeOK, Moves, CtosAssumption
  <1>1. ASSUME NEW p \in Alive, p # q
        PROVE  Counted(p)'
    <2>1. /\ \A j \in Slots : j # i => used'[j] = used[j] /\ pending'[j] = pending[j]
          /\ \A r \in Queues : r # q => claimSem'[r] = claimSem[r] /\ msgSem'[r] = msgSem[r]
      BY <1>0, <1>a DEF TypeOK, table, sems
    <2> QED
      BY <1>0, <1>1, <1>a, <2>1, OtherQueueCounts
  <1>2. Counted(q)'
    <2>1. CountsFree(q) /\ CountsMessages(q)
      BY <1>0 DEF IInv, SemaphoresCount
    <2>2. ASSUME NEW x \in {"taking", "posting"} PROVE Doing(x, q)' = Doing(x, q)
      BY <1>0, <1>a, SameDoing
    <2>3. /\ Cardinality(Doing("scanning", q)') = Cardinality(Doing("scanning", q)) + 1
          /\ Cardinality(Doing("scanning", q)) \in Nat
      <3>1. t \notin Doing("scanning", q) /\ t \in Doing("scanning", q)'
        BY <1>0, <1>a DEF Doing, TypeOK
      <3> QED
        BY <1>0, <3>1, DoingCounts
    <2>4. claimSem'[q] = claimSem[q] - 1 /\ claimSem[q] \in Int /\ UNCHANGED <<used, pending, msgSem>>
      BY <1>0, <1>a DEF TypeOK, table
    <2>5. Cardinality(used[i]) \in Nat
      BY <1>0, UsedCounts
    <2>8. index'[q] = i /\ index[q] = i
      BY <1>a
    <2>9. CountsFree(q)'
      BY <2>1, <2>2, <2>3, <2>4, <2>5, <2>8, CtosAssumption DEF CountsFree, CtosAssumption
    <2>10. CountsMessages(q)'
      BY <2>1, <2>2, <2>3, <2>4, <2>5, <2>8 DEF CountsMessages
    <2> QED
      BY <2>9, <2>10 DEF Counted
  <1> QED
    BY <1>0, <1>1, <1>2 DEF SemaphoresCount, Counted

LEMMA ClaimScansCounts ==
    ASSUME IInv, NEW t \in Tasks, ClaimScans(t), NEW q, que[t] = q, NEW i, index[q] = i
    PROVE  SemaphoresCount'
  <1>a. /\ pc[t] = "scanning"
        /\ UNCHANGED <<pending, index, sems>>
        /\ \/ /\ pc' = [pc EXCEPT ![t] = "holding"] /\ que' = que
              /\ \E e : e \notin used[i] /\ used' = [used EXCEPT ![i] = @ \cup {e}]
           \/ /\ pc' = [pc EXCEPT ![t] = "idle"] /\ que' = [que EXCEPT ![t] = NoQueue]
              /\ used' = used /\ Elements \ used[i] = {}
    <2>1. CASE Finish(t, "scanning") /\ Elements \ used[i] = {} /\ UNCHANGED <<table, index, sems>>
      BY <2>1 DEF Finish, table
    <2>2. CASE /\ Go(t, "scanning", "holding") /\ Elements \ used[i] # {}
               /\ used' = [used EXCEPT ![i] = @ \cup {Least(Elements \ used[i])}]
               /\ UNCHANGED <<pending, index, sems>>
      <3>1. Elements \ used[i] \in SUBSET Nat
        BY CtosAssumption DEF Elements, CtosAssumption
      <3>2. Least(Elements \ used[i]) \notin used[i]
        BY <2>2, <3>1, LeastIn
      <3> QED
        BY <2>2, <3>2 DEF Go
    <2> QED
      BY <2>1, <2>2 DEF ClaimScans
  <1>0. /\ TypeOK /\ Moves(t) /\ q \in Alive /\ q \in Queues /\ i \in Slots /\ Alive' = Alive
        /\ Doing("emptying", q) = {} /\ que'[t] \in {q, NoQueue} /\ q # NoQueue
    BY <1>a, TaskFacts, CtosAssumption DEF IInv, Alive, TypeOK, Moves, CtosAssumption
  <1>1. ASSUME NEW p \in Alive, p # q
        PROVE  Counted(p)'
    <2>1. /\ \A j \in Slots : j # i => used'[j] = used[j] /\ pending'[j] = pending[j]
          /\ \A r \in Queues : r # q => claimSem'[r] = claimSem[r] /\ msgSem'[r] = msgSem[r]
      BY <1>0, <1>a DEF TypeOK, table, sems
    <2> QED
      BY <1>0, <1>1, <1>a, <2>1, OtherQueueCounts
  <1>2. Counted(q)'
    <2>1. CountsFree(q) /\ CountsMessages(q)
      BY <1>0 DEF IInv, SemaphoresCount
    <2>2. ASSUME NEW x \in {"taking", "posting"} PROVE Doing(x, q)' = Doing(x, q)
      <3>1. pc[t] # x /\ pc'[t] # x
        BY <1>0, <1>a DEF TypeOK
      <3> QED
        BY <1>0, <3>1, SameDoing
    <2>3. /\ Cardinality(Doing("scanning", q)') = Cardinality(Doing("scanning", q)) - 1
          /\ Cardinality(Doing("scanning", q)) \in Nat
      <3>1. t \in Doing("scanning", q) /\ t \notin Doing("scanning", q)'
        BY <1>0, <1>a DEF Doing, TypeOK
      <3> QED
        BY <1>0, <3>1, DoingCounts
    <2>4. claimSem[q] \in Nat /\ UNCHANGED <<claimSem, pending, msgSem>>
      BY <1>0, <1>a DEF TypeOK, sems
    <2>5. used[i] # Elements
      <3>1. Cardinality(Elements) = NoElements
        BY CtosAssumption, FS_Interval DEF Elements, CtosAssumption
      <3>2. Cardinality(Doing("scanning", q)) > 0
        <4>1. t \in Doing("scanning", q) /\ IsFiniteSet(Doing("scanning", q))
          BY <1>a, CtosAssumption, FS_Subset DEF Doing, CtosAssumption
        <4> QED
          BY <2>3, <4>1, FS_EmptySet
      <3> QED
        BY <2>1, <2>3, <2>4, <3>1, <3>2, CtosAssumption DEF CountsFree, CtosAssumption
    <2>6. \E e : e \notin used[i] /\ used' = [used EXCEPT ![i] = @ \cup {e}]
      BY <1>0, <1>a, <2>5 DEF TypeOK
    <2>7. Cardinality(used[i]) \in Nat /\ Cardinality(used'[i]) = Cardinality(used[i]) + 1
      BY <1>0, <2>6, UsedCounts DEF TypeOK
    <2>8. index'[q] = i /\ index[q] = i
      BY <1>a
    <2>9. CountsFree(q)'
      BY <2>1, <2>2, <2>3, <2>4, <2>7, <2>8, CtosAssumption DEF CountsFree, CtosAssumption
    <2>10. CountsMessages(q)'
      BY <2>1, <2>2, <2>3, <2>4, <2>7, <2>8 DEF CountsMessages
    <2> QED
      BY <2>9, <2>10 DEF Counted
  <1> QED
    BY <1>0, <1>1, <1>2 DEF SemaphoresCount, Counted

LEMMA SendAppendsCounts ==
    ASSUME IInv, NEW t \in Tasks, SendAppends(t), NEW q, que[t] = q, NEW i, index[q] = i
    PROVE  SemaphoresCount'
  <1>a. /\ pc[t] = "holding" /\ pc' = [pc EXCEPT ![t] = "posting"] /\ que' = que
        /\ \E e \in Elements : pending' = [pending EXCEPT ![i] = Append(@, e)]
        /\ UNCHANGED <<used, index, sems>>
    BY DEF SendAppends, Go, IInv, TypeOK
  <1>0. /\ TypeOK /\ Moves(t) /\ q \in Alive /\ q \in Queues /\ i \in Slots /\ Alive' = Alive
        /\ Doing("emptying", q) = {} /\ que'[t] \in {q, NoQueue} /\ q # NoQueue
    BY <1>a, TaskFacts, CtosAssumption DEF IInv, Alive, TypeOK, Moves, CtosAssumption
  <1>1. ASSUME NEW p \in Alive, p # q
        PROVE  Counted(p)'
    <2>1. /\ \A j \in Slots : j # i => used'[j] = used[j] /\ pending'[j] = pending[j]
          /\ \A r \in Queues : r # q => claimSem'[r] = claimSem[r] /\ msgSem'[r] = msgSem[r]
      BY <1>0, <1>a DEF TypeOK, table, sems
    <2> QED
      BY <1>0, <1>1, <1>a, <2>1, OtherQueueCounts
  <1>2. Counted(q)'
    <2>1. CountsFree(q) /\ CountsMessages(q)
      BY <1>0 DEF IInv, SemaphoresCount
    <2>2. ASSUME NEW x \in {"taking", "scanning"} PROVE Doing(x, q)' = Doing(x, q)
      BY <1>0, <1>a, SameDoing
    <2>3. /\ Cardinality(Doing("posting", q)') = Cardinality(Doing("posting", q)) + 1
          /\ Cardinality(Doing("posting", q)) \in Nat
      <3>1. t \notin Doing("posting", q) /\ t \in Doing("posting", q)'
        BY <1>0, <1>a DEF Doing, TypeOK
      <3> QED
        BY <1>0, <3>1, DoingCounts
    <2>4. Len(pending'[i]) = Len(pending[i]) + 1 /\ Len(pending[i]) \in Nat
      BY <1>0, <1>a, QueueGrows DEF TypeOK
    <2>5. /\ msgSem[q] \in Nat /\ Cardinality(Doing("taking", q)) \in Nat
          /\ UNCHANGED <<used, claimSem, msgSem>>
      BY <1>0, <1>a, DoingCounts DEF TypeOK, sems
    <2>7. Doing("taking", q)' = Doing("taking", q) /\ Doing("scanning", q)' = Doing("scanning", q)
      BY <2>2
    <2>8. index'[q] = i /\ index[q] = i
      BY <1>a
    <2>9. CountsFree(q)'
      BY <2>1, <2>3, <2>4, <2>5, <2>7, <2>8, CtosAssumption DEF CountsFree, CtosAssumption
    <2>10. CountsMessages(q)'
      <3>1. msgSem[q] + Cardinality(Doing("taking", q)) + Cardinality(Doing("posting", q))
              = Len(pending[i])
        BY <2>1, <2>8 DEF CountsMessages
      <3>2. msgSem'[q] = msgSem[q] /\ Cardinality(Doing("taking", q)') = Cardinality(Doing("taking", q))
        BY <2>5, <2>7
      <3>3. msgSem'[q] + Cardinality(Doing("taking", q)') + Cardinality(Doing("posting", q)')
              = Len(pending'[i])
        BY <2>3, <2>4, <2>5, <3>1, <3>2
      <3> QED
        BY <2>8, <3>3 DEF CountsMessages
    <2> QED
      BY <2>9, <2>10 DEF Counted
  <1> QED
    BY <1>0, <1>1, <1>2 DEF SemaphoresCount, Counted

LEMMA SendPostsCounts ==
    ASSUME IInv, NEW t \in Tasks, SendPosts(t), NEW q, que[t] = q, NEW i, index[q] = i
    PROVE  SemaphoresCount'
  <1>a. /\ pc[t] = "posting" /\ pc' = [pc EXCEPT ![t] = "idle"]
        /\ que' = [que EXCEPT ![t] = NoQueue]
        /\ msgSem' = [msgSem EXCEPT ![q] = @ + 1] /\ UNCHANGED <<table, index, claimSem>>
    BY DEF SendPosts, Finish
  <1>0. /\ TypeOK /\ Moves(t) /\ q \in Alive /\ q \in Queues /\ i \in Slots /\ Alive' = Alive
        /\ Doing("emptying", q) = {} /\ que'[t] \in {q, NoQueue} /\ q # NoQueue
    BY <1>a, TaskFacts, CtosAssumption DEF IInv, Alive, TypeOK, Moves, CtosAssumption
  <1>1. ASSUME NEW p \in Alive, p # q
        PROVE  Counted(p)'
    <2>1. /\ \A j \in Slots : j # i => used'[j] = used[j] /\ pending'[j] = pending[j]
          /\ \A r \in Queues : r # q => claimSem'[r] = claimSem[r] /\ msgSem'[r] = msgSem[r]
      BY <1>0, <1>a DEF TypeOK, table, sems
    <2> QED
      BY <1>0, <1>1, <1>a, <2>1, OtherQueueCounts
  <1>2. Counted(q)'
    <2>1. CountsFree(q) /\ CountsMessages(q)
      BY <1>0 DEF IInv, SemaphoresCount
    <2>2. ASSUME NEW x \in {"taking", "scanning"} PROVE Doing(x, q)' = Doing(x, q)
      BY <1>0, <1>a, SameDoing
    <2>3. /\ Cardinality(Doing("posting", q)') = Cardinality(Doing("posting", q)) - 1
          /\ Cardinality(Doing("posting", q)) \in Nat
      <3>1. t \in Doing("posting", q) /\ t \notin Doing("posting", q)'
        BY <1>0, <1>a DEF Doing, TypeOK
      <3> QED
        BY <1>0, <3>1, DoingCounts
    <2>4. msgSem'[q] = msgSem[q] + 1 /\ msgSem[q] \in Nat /\ UNCHANGED <<used, pending, claimSem>>
      BY <1>0, <1>a DEF TypeOK, table
    <2>5. Cardinality(Doing("taking", q)) \in Nat /\ Len(pending[i]) \in Nat
      BY <1>0, DoingCounts DEF TypeOK
    <2>7. Doing("taking", q)' = Doing("taking", q) /\ Doing("scanning", q)' = Doing("scanning", q)
      BY <2>2
    <2>8. index'[q] = i /\ index[q] = i
      BY <1>a
    <2>9. CountsFree(q)'
      BY <2>1, <2>3, <2>4, <2>5, <2>7, <2>8, CtosAssumption DEF CountsFree, CtosAssumption
    <2>10. CountsMessages(q)'
      BY <2>1, <2>3, <2>4, <2>5, <2>7, <2>8 DEF CountsMessages
    <2> QED
      BY <2>9, <2>10 DEF Counted
  <1> QED
    BY <1>0, <1>1, <1>2 DEF SemaphoresCount, Counted

LEMMA ReceiveWaitsCounts ==
    ASSUME IInv, NEW t \in Tasks, ReceiveWaits(t), NEW q, que[t] = q, NEW i, index[q] = i
    PROVE  SemaphoresCount'
  <1>a. /\ pc[t] = "receiving" /\ pc' = [pc EXCEPT ![t] = "taking"] /\ que' = que
        /\ msgSem' = [msgSem EXCEPT ![q] = @ - 1] /\ UNCHANGED <<table, index, claimSem>>
    BY DEF ReceiveWaits, Go
  <1>0. /\ TypeOK /\ Moves(t) /\ q \in Alive /\ q \in Queues /\ i \in Slots /\ Alive' = Alive
        /\ Doing("emptying", q) = {} /\ que'[t] \in {q, NoQueue} /\ q # NoQueue
    BY <1>a, TaskFacts, CtosAssumption DEF IInv, Alive, TypeOK, Moves, CtosAssumption
  <1>1. ASSUME NEW p \in Alive, p # q
        PROVE  Counted(p)'
    <2>1. /\ \A j \in Slots : j # i => used'[j] = used[j] /\ pending'[j] = pending[j]
          /\ \A r \in Queues : r # q => claimSem'[r] = claimSem[r] /\ msgSem'[r] = msgSem[r]
      BY <1>0, <1>a DEF TypeOK, table, sems
    <2> QED
      BY <1>0, <1>1, <1>a, <2>1, OtherQueueCounts
  <1>2. Counted(q)'
    <2>1. CountsFree(q) /\ CountsMessages(q)
      BY <1>0 DEF IInv, SemaphoresCount
    <2>2. ASSUME NEW x \in {"posting", "scanning"} PROVE Doing(x, q)' = Doing(x, q)
      BY <1>0, <1>a, SameDoing
    <2>3. /\ Cardinality(Doing("taking", q)') = Cardinality(Doing("taking", q)) + 1
          /\ Cardinality(Doing("taking", q)) \in Nat
      <3>1. t \notin Doing("taking", q) /\ t \in Doing("taking", q)'
        BY <1>0, <1>a DEF Doing, TypeOK
      <3> QED
        BY <1>0, <3>1, DoingCounts
    <2>4. msgSem'[q] = msgSem[q] - 1 /\ msgSem[q] \in Nat /\ UNCHANGED <<used, pending, claimSem>>
      BY <1>0, <1>a DEF TypeOK, table
    <2>5. Cardinality(Doing("posting", q)) \in Nat /\ Len(pending[i]) \in Nat
      BY <1>0, DoingCounts DEF TypeOK
    <2>8. index'[q] = i /\ index[q] = i
      BY <1>a
    <2>9. CountsFree(q)'
      BY <2>1, <2>2, <2>3, <2>4, <2>5, <2>8, CtosAssumption DEF CountsFree, CtosAssumption
    <2>10. CountsMessages(q)'
      BY <2>1, <2>2, <2>3, <2>4, <2>5, <2>8 DEF CountsMessages
    <2> QED
      BY <2>9, <2>10 DEF Counted
  <1> QED
    BY <1>0, <1>1, <1>2 DEF SemaphoresCount, Counted

LEMMA ReceiveTakesCounts ==
    ASSUME IInv, NEW t \in Tasks, ReceiveTakes(t), NEW q, que[t] = q, NEW i, index[q] = i
    PROVE  SemaphoresCount'
  <1>a. /\ pc[t] = "taking"
        /\ UNCHANGED <<used, index, sems>>
        /\ \/ /\ pc' = [pc EXCEPT ![t] = "holding"] /\ que' = que
              /\ pending[i] # <<>> /\ pending' = [pending EXCEPT ![i] = Tail(@)]
           \/ /\ pc' = [pc EXCEPT ![t] = "idle"] /\ que' = [que EXCEPT ![t] = NoQueue]
              /\ pending[i] = <<>> /\ pending' = pending
    BY DEF ReceiveTakes, Go, Finish, table
  <1>0. /\ TypeOK /\ Moves(t) /\ q \in Alive /\ q \in Queues /\ i \in Slots /\ Alive' = Alive
        /\ Doing("emptying", q) = {} /\ que'[t] \in {q, NoQueue} /\ q # NoQueue
    BY <1>a, TaskFacts, CtosAssumption DEF IInv, Alive, TypeOK, Moves, CtosAssumption
  <1>1. ASSUME NEW p \in Alive, p # q
        PROVE  Counted(p)'
    <2>1. /\ \A j \in Slots : j # i => used'[j] = used[j] /\ pending'[j] = pending[j]
          /\ \A r \in Queues : r # q => claimSem'[r] = claimSem[r] /\ msgSem'[r] = msgSem[r]
      BY <1>0, <1>a DEF TypeOK, table, sems
    <2> QED
      BY <1>0, <1>1, <1>a, <2>1, OtherQueueCounts
  <1>2. Counted(q)'
    <2>1. CountsFree(q) /\ CountsMessages(q)
      BY <1>0 DEF IInv, SemaphoresCount
    <2>2. ASSUME NEW x \in {"posting", "scanning"} PROVE Doing(x, q)' = Doing(x, q)
      <3>1. pc[t] # x /\ pc'[t] # x
        BY <1>0, <1>a DEF TypeOK
      <3> QED
        BY <1>0, <3>1, SameDoing
    <2>3. /\ Cardinality(Doing("taking", q)') = Cardinality(Doing("taking", q)) - 1
          /\ Cardinality(Doing("taking", q)) \in Nat
      <3>1. t \in Doing("taking", q) /\ t \notin Doing("taking", q)'
        BY <1>0, <1>a DEF Doing, TypeOK
      <3> QED
        BY <1>0, <3>1, DoingCounts
    <2>4. msgSem[q] \in Nat /\ UNCHANGED <<claimSem, used, msgSem>>
      BY <1>0, <1>a DEF TypeOK, sems
    <2>5. Cardinality(Doing("posting", q)) \in Nat /\ Cardinality(Doing("taking", q)) > 0
      <3>1. t \in Doing("taking", q) /\ IsFiniteSet(Doing("taking", q))
        BY <1>a, CtosAssumption, FS_Subset DEF Doing, CtosAssumption
      <3> QED
        BY <1>0, <2>3, <3>1, FS_EmptySet, DoingCounts
    <2>6. pending[i] # <<>>
      BY <1>0, <2>1, <2>3, <2>4, <2>5 DEF CountsMessages, TypeOK
    <2>7. Len(pending'[i]) = Len(pending[i]) - 1 /\ Len(pending[i]) \in Nat
      BY <1>0, <1>a, <2>6, QueueShrinks DEF TypeOK
    <2>8. index'[q] = i /\ index[q] = i
      BY <1>a
    <2>9. CountsFree(q)'
      BY <2>1, <2>2, <2>3, <2>4, <2>5, <2>7, <2>8, CtosAssumption DEF CountsFree, CtosAssumption
    <2>10. CountsMessages(q)'
      BY <2>1, <2>2, <2>3, <2>4, <2>5, <2>7, <2>8 DEF CountsMessages
    <2> QED
      BY <2>9, <2>10 DEF Counted
  <1> QED
    BY <1>0, <1>1, <1>2 DEF SemaphoresCount, Counted

LEMMA ReleaseCounts ==
    ASSUME IInv, NEW t \in Tasks, Release(t), NEW q, que[t] = q, NEW i, index[q] = i
    PROVE  SemaphoresCount'
  <1>a. /\ pc[t] = "holding" /\ pc' = [pc EXCEPT ![t] = "idle"]
        /\ que' = [que EXCEPT ![t] = NoQueue]
        /\ \E e : e \in used[i] /\ used' = [used EXCEPT ![i] = @ \ {e}]
        /\ claimSem' = [claimSem EXCEPT ![q] = @ + 1] /\ UNCHANGED <<pending, index, msgSem>>
    BY HeldIsUsed DEF Release, Finish
  <1>0. /\ TypeOK /\ Moves(t) /\ q \in Alive /\ q \in Queues /\ i \in Slots /\ Alive' = Alive
        /\ Doing("emptying", q) = {} /\ que'[t] \in {q, NoQueue} /\ q # NoQueue
    BY <1>a, TaskFacts, CtosAssumption DEF IInv, Alive, TypeOK, Moves, CtosAssumption
  <1>1. ASSUME NEW p \in Alive, p # q
        PROVE  Counted(p)'
    <2>1. /\ \A j \in Slots : j # i => used'[j] = used[j] /\ pending'[j] = pending[j]
          /\ \A r \in Queues : r # q => claimSem'[r] = claimSem[r] /\ msgSem'[r] = msgSem[r]
      BY <1>0, <1>a DEF TypeOK, table, sems
    <2> QED
      BY <1>0, <1>1, <1>a, <2>1, OtherQueueCounts
  <1>2. Counted(q)'
    <2>1. CountsFree(q) /\ CountsMessages(q)
      BY <1>0 DEF IInv, SemaphoresCount
    <2>2. ASSUME NEW x \in {"scanning", "taking", "posting"} PROVE Doing(x, q)' = Doing(x, q)
      BY <1>0, <1>a, SameDoing
    <2>3. Cardinality(Doing("scanning", q)) \in Nat
      BY <1>0, DoingCounts
    <2>4. claimSem'[q] = claimSem[q] + 1 /\ claimSem[q] \in Nat /\ UNCHANGED <<pending, msgSem>>
      BY <1>0, <1>a DEF TypeOK
    <2>5. Cardinality(used[i]) \in Nat /\ Cardinality(used'[i]) = Cardinality(used[i]) - 1
      BY <1>0, <1>a, UsedCounts DEF TypeOK
    <2>8. index'[q] = i /\ index[q] = i
      BY <1>a
    <2>9. CountsFree(q)'
      BY <2>1, <2>2, <2>3, <2>4, <2>5, <2>8, CtosAssumption DEF CountsFree, CtosAssumption
    <2>10. CountsMessages(q)'
      BY <2>1, <2>2, <2>3, <2>4, <2>5, <2>8 DEF CountsMessages
    <2> QED
      BY <2>9, <2>10 DEF Counted
  <1> QED
    BY <1>0, <1>1, <1>2 DEF SemaphoresCount, Counted

LEMMA StepCounts ==
    ASSUME IInv, NEW t \in Tasks, Steps(t)
    PROVE  SemaphoresCount'
  <1>0. TypeOK /\ Moves(t) /\ index' = index
    BY StepMoves, StepTable DEF IInv
  <1>1. CASE (\E q \in Queues : ClaimBegins(t, q) \/ ReceiveBegins(t, q))
               \/ ClaimGivesUp(t) \/ ReceiveGivesUp(t)
    BY <1>0, <1>1, QuietCounts DEF ClaimBegins, ReceiveBegins, ClaimGivesUp, ReceiveGivesUp,
       Start, Finish, TypeOK
  <1>2. CASE ClaimWaits(t) \/ ClaimScans(t) \/ SendAppends(t) \/ SendPosts(t)
               \/ ReceiveWaits(t) \/ ReceiveTakes(t) \/ Release(t)
    <2>1. PICK q, i : que[t] = q /\ index[q] = i
      OBVIOUS
    <2> QED
      BY <1>2, <2>1, ClaimWaitsCounts, ClaimScansCounts, SendAppendsCounts, SendPostsCounts,
         ReceiveWaitsCounts, ReceiveTakesCounts, ReleaseCounts
  <1> QED
    BY <1>1, <1>2 DEF Steps
-----------------------------------------------------------------------------
(* Creating and deleting a queue.  Queues other than q are left alone. *)
LEMMA OthersKept ==
    ASSUME IInv, NEW t \in Tasks, Moves(t), NEW q, que[t] \in {q, NoQueue},
           que'[t] \in {q, NoQueue}, msg' = msg, NEW p \in Queues, p # q
    PROVE  /\ \A x : Doing(x, p)' = Doing(x, p)
           /\ \A u \in Tasks : \A e : Holds(u, p, e)' <=> Holds(u, p, e)
  <1>1. que[t] # p /\ que'[t] # p
    BY CtosAssumption DEF CtosAssumption
  <1>2. \A x : Doing(x, p)' = Doing(x, p)
    BY <1>1, SameDoing
  <1>3. \A u \in Tasks : \A e : Holds(u, p, e)' <=> Holds(u, p, e)
    BY <1>1 DEF Holds, Moves
  <1> QED
    BY <1>2, <1>3

LEMMA KeptQueue ==
    ASSUME IInv, NEW p \in Alive, NEW i, i = index[p], index'[p] = i,
           used'[i] = used[i], pending'[i] = pending[i],
           claimSem'[p] = claimSem[p], msgSem'[p] = msgSem[p],
           \A x \in {"emptying", "scanning", "taking", "posting"} : Doing(x, p)' = Doing(x, p),
           \A u \in Tasks : \A e : Holds(u, p, e)' <=> Holds(u, p, e)
    PROVE  OwnedOnce(p)' /\ Counted(p)'
  <1>1. OwnedOnce(p) /\ Counted(p)
    BY DEF IInv, ElementsOwnedOnce, SemaphoresCount, Counted
  <1>2. OwnedOnce(p)'
    BY <1>1 DEF OwnedOnce, IsPending
  <1>3. Counted(p)'
    BY <1>1 DEF Counted, CountsFree, CountsMessages
  <1> QED
    BY <1>2, <1>3

(* A queue alone with its task: nobody else is in a call on it. *)
LEMMA AloneDoing ==
    ASSUME NEW q, NEW t, \A u \in Tasks : que[u] = q => u = t, NEW x, pc[t] # x
    PROVE  Doing(x, q) = {}
  BY DEF Doing

LEMMA ClearedType ==
    ASSUME TypeOK, NEW i, pending' = [pending EXCEPT ![i] = <<>>]
    PROVE  pending' \in [Slots -> Seq(Elements)]
  <1>1. pending \in [Slots -> Seq(Elements)] /\ <<>> \in Seq(Elements)
    BY DEF TypeOK
  <1>2. DOMAIN pending' = Slots /\ \A j \in Slots : pending'[j] \in Seq(Elements)
    BY <1>1
  <1>3. pending' = [j \in Slots |-> pending'[j]]
    BY <1>1
  <1> QED
    BY <1>2, <1>3

LEMMA CreateTakesKeeps ==
    ASSUME IInv, NEW t \in Tasks, NEW q \in Queues, CreateTakes(t, q)
    PROVE  IInv'
  <1> DEFINE i == Least(FreeSlots)
  <1>1. /\ q \notin list /\ Unused(q) /\ FreeSlots # {} /\ pc[t] = "idle"
        /\ pc' = [pc EXCEPT ![t] = "creating"] /\ que' = [que EXCEPT ![t] = q]
        /\ memory' = [memory EXCEPT ![i] = q] /\ used' = [used EXCEPT ![i] = {}]
        /\ pending' = [pending EXCEPT ![i] = <<>>] /\ index' = [index EXCEPT ![q] = i]
        /\ claimSem' = [claimSem EXCEPT ![q] = NoElements] /\ msgSem' = [msgSem EXCEPT ![q] = 0]
        /\ list' = list /\ msg' = msg
    BY DEF CreateTakes, Start
  <1>2. i \in Slots /\ memory[i] = NoQueue
    <2>1. FreeSlots \in SUBSET Nat
      BY CtosAssumption DEF FreeSlots, Slots, CtosAssumption
    <2>2. i \in FreeSlots
      BY <1>1, <2>1, LeastIn
    <2> HIDE DEF i
    <2> QED
      BY <2>2 DEF FreeSlots
  <1> HIDE DEF i
  <1>3. /\ TypeOK /\ TasksOK /\ TableConsistent /\ Moves(t) /\ que[t] = NoQueue /\ que'[t] = q
        /\ msg[t] = {} /\ q # NoQueue /\ i < TableSize /\ i \in 0 .. TableSize
    BY <1>1, <1>2, CtosAssumption DEF IInv, TypeOK, TasksOK, Moves, Slots, CtosAssumption
  <1>4. /\ \A u \in Tasks : que[u] # q
        /\ \A x : Doing(x, q) = {} /\ \A u \in Tasks : \A e : ~Holds(u, q, e)
    BY <1>1 DEF Unused, Doing, Holds
  <1>5. q \notin Alive /\ index[q] = TableSize
    BY <1>1, <1>3, <1>4, CtosAssumption DEF TableConsistent, Alive, TypeOK, CtosAssumption
  <1>6. Alive' = Alive \cup {q} /\ index'[q] = i
    BY <1>1, <1>3, <1>5 DEF Alive, TypeOK
  <1>7. ASSUME NEW p \in Alive
        PROVE  p # q /\ index[p] # i /\ index[p] \in Slots /\ index'[p] = index[p]
    <2>1. p \in Queues /\ p # q /\ p # NoQueue /\ memory[index[p]] = p
      BY <1>3, <1>5, CtosAssumption DEF TableConsistent, Alive, CtosAssumption
    <2>2. index[p] \in Slots
      BY <1>3, CtosAssumption DEF Alive, TypeOK, Slots, CtosAssumption
    <2>3. index'[p] = index[p]
      BY <1>1, <1>3, <2>1 DEF TypeOK
    <2> QED
      BY <1>2, <2>1, <2>2, <2>3
  <1>8. TypeOK'
    <2>1. pending' \in [Slots -> Seq(Elements)]
      BY <1>1, <1>3, ClearedType
    <2>2. claimSem' \in [Queues -> 0 .. NoElements] /\ msgSem' \in [Queues -> Nat]
      BY <1>1, <1>3, CtosAssumption DEF TypeOK, CtosAssumption
    <2>3. pc' \in [Tasks -> States] /\ que' \in [Tasks -> Queues \cup {NoQueue}]
      BY <1>1, <1>3 DEF TypeOK, States
    <2> QED
      BY <1>1, <1>3, <2>1, <2>2, <2>3 DEF TypeOK
  <1>9. TasksOK'
    <2>1. ASSUME NEW u \in Tasks, u # t
          PROVE  /\ que'[u] = que[u] /\ que[u] # q /\ pc'[u] = pc[u]
                 /\ que[u] # NoQueue => index'[que[u]] = index[que[u]]
      BY <1>1, <1>3, <1>4, <2>1 DEF Moves, TypeOK
    <2>2. /\ pc'[t] = "creating" /\ que'[t] = q /\ msg'[t] = {} /\ index'[q] < TableSize
          /\ \A u \in Tasks : que'[u] = que'[t] => u = t
      BY <1>1, <1>3, <1>6, <2>1 DEF TypeOK
    <2>3. ASSUME NEW u \in Tasks, u # t
          PROVE  /\ pc'[u] = "idle" <=> que'[u] = NoQueue
                 /\ pc'[u] = "holding" => \E e \in Elements : msg'[u] = {e}
                 /\ pc'[u] # "holding" => msg'[u] = {}
                 /\ pc'[u] \notin {"idle", "unlinking"} => index'[que'[u]] < TableSize
                 /\ pc'[u] = "unlinking" => index'[que'[u]] = TableSize
                 /\ pc'[u] \in {"creating", "emptying", "unlinking"} =>
                        \A v \in Tasks : que'[v] = que'[u] => v = u
      BY <1>1, <1>3, <2>1, <2>3 DEF TasksOK
    <2> QED
      BY <1>3, <2>2, <2>3 DEF TasksOK
  <1>10. TableConsistent'
    <2>1. ASSUME NEW j \in Slots, memory'[j] # NoQueue
          PROVE  index'[memory'[j]] = j
      <3>1. CASE j = i
        BY <1>1, <1>2, <1>3, <1>6, <3>1 DEF TypeOK
      <3>2. CASE j # i
        <4>1. memory'[j] = memory[j] /\ index[memory[j]] = j /\ memory[j] \in Queues
          BY <1>1, <1>3, <2>1, <3>2 DEF TypeOK, TableConsistent
        <4>2. memory[j] \in Alive
          BY <4>1, CtosAssumption DEF Alive, Slots, CtosAssumption
        <4> QED
          BY <1>7, <4>1, <4>2
      <3> QED
        BY <3>1, <3>2
    <2>2. ASSUME NEW p \in Alive'
          PROVE  memory'[index'[p]] = p
      <3>1. CASE p = q
        BY <1>1, <1>2, <1>3, <1>6, <3>1 DEF TypeOK
      <3>2. CASE p \in Alive
        BY <1>1, <1>3, <1>7, <3>2 DEF TypeOK, TableConsistent
      <3> QED
        BY <1>6, <3>1, <3>2
    <2>3. ASSUME NEW p \in Queues, p # q
          PROVE  p \in list' <=> \/ p \in Alive' /\ Doing("creating", p)' = {}
                                 \/ Doing("unlinking", p)' # {}
      <3>1. \A x : Doing(x, p)' = Doing(x, p)
        BY <1>1, <1>3, <2>3, OthersKept
      <3> QED
        BY <1>1, <1>3, <1>6, <2>3, <3>1 DEF TableConsistent
    <2>4. /\ q \notin list' /\ Doing("creating", q)' # {} /\ Doing("unlinking", q)' = {}
      BY <1>1, <1>3, <1>4 DEF Doing, Moves, TypeOK
    <2> QED
      BY <2>1, <2>2, <2>3, <2>4 DEF TableConsistent
  <1>11. ASSUME NEW p \in Alive
         PROVE  OwnedOnce(p)' /\ Counted(p)'
    <2>1. p \in Queues /\ p # q /\ index'[p] = index[p] /\ index[p] \in Slots /\ index[p] # i
      BY <1>7 DEF Alive
    <2>2. /\ used'[index[p]] = used[index[p]] /\ pending'[index[p]] = pending[index[p]]
          /\ claimSem'[p] = claimSem[p] /\ msgSem'[p] = msgSem[p]
      BY <1>1, <1>3, <2>1 DEF TypeOK
    <2>3. /\ \A x : Doing(x, p)' = Doing(x, p)
          /\ \A u \in Tasks : \A e : Holds(u, p, e)' <=> Holds(u, p, e)
      BY <1>1, <1>3, <2>1, OthersKept
    <2> QED
      BY <2>1, <2>2, <2>3, KeptQueue
  <1>12. used'[i] = {} /\ pending'[i] = <<>> /\ claimSem'[q] = NoElements /\ msgSem'[q] = 0
    BY <1>1, <1>2, <1>3 DEF TypeOK
  <1>13. OwnedOnce(q)'
    <2>1. \A u \in Tasks : \A e : ~Holds(u, q, e)'
      BY <1>1, <1>3, <1>4 DEF Holds, Moves
    <2> QED
      BY <1>6, <1>12, <2>1 DEF OwnedOnce, IsPending
  <1>14. Counted(q)'
    <2>1. \A x \in {"scanning", "taking", "posting"} : Doing(x, q)' = {}
      BY <1>1, <1>3, <1>4 DEF Doing, Moves, TypeOK
    <2>2. \A x \in {"scanning", "taking", "posting"} : Cardinality(Doing(x, q)') = 0
      BY <2>1, FS_EmptySet
    <2>3. Cardinality(used'[index'[q]]) = 0 /\ Len(pending'[index'[q]]) = 0
      BY <1>6, <1>12, FS_EmptySet
    <2>4. CountsFree(q)'
      BY <1>12, <2>2, <2>3, CtosAssumption DEF CountsFree, CtosAssumption
    <2>5. CountsMessages(q)'
      BY <1>12, <2>2, <2>3 DEF CountsMessages
    <2> QED
      BY <2>4, <2>5 DEF Counted
  <1> QED
    BY <1>6, <1>8, <1>9, <1>10, <1>11, <1>13, <1>14
       DEF IInv, ElementsOwnedOnce, SemaphoresCount, Counted

LEMMA CreateLinksKeeps ==
    ASSUME IInv, NEW t \in Tasks, CreateLinks(t), NEW q, q = que[t]
    PROVE  IInv'
  <1>1. /\ pc[t] = "creating" /\ pc' = [pc EXCEPT ![t] = "idle"]
        /\ que' = [que EXCEPT ![t] = NoQueue] /\ list' = list \cup {q}
        /\ UNCHANGED <<memory, used, pending, index, claimSem, msgSem, msg>>
    BY DEF CreateLinks, Finish, table, sems
  <1>2. /\ TypeOK /\ TasksOK /\ TableConsistent /\ Moves(t) /\ que'[t] = NoQueue /\ msg[t] = {}
        /\ q \in Queues /\ q \in Alive /\ Alive' = Alive
        /\ \A u \in Tasks : que[u] = q => u = t
    BY <1>1, TaskFacts DEF IInv, TypeOK, TasksOK, Moves, Alive
  <1>3. TypeOK'
    BY <1>1, <1>2 DEF TypeOK, States
  <1>4. TasksOK'
    <2>1. /\ pc'[t] = "idle" /\ \A u \in Tasks : u # t => pc'[u] = pc[u] /\ que'[u] = que[u]
      BY <1>1, <1>2 DEF TypeOK
    <2>2. \A u \in Tasks : que'[u] # NoQueue => que'[u] = que[u]
      BY <1>2, <2>1
    <2> QED
      BY <1>1, <1>2, <2>1, <2>2 DEF TasksOK
  <1>5. ASSUME NEW p \in Queues, p # q
        PROVE  /\ \A x : Doing(x, p)' = Doing(x, p)
               /\ \A u \in Tasks : \A e : Holds(u, p, e)' <=> Holds(u, p, e)
    <2>1. que[t] \in {q, NoQueue} /\ que'[t] \in {q, NoQueue} /\ msg' = msg
      BY <1>1, <1>2
    <2> QED
      BY <1>2, <1>5, <2>1, OthersKept
  <1>6. /\ \A x \in States \ {"creating"} : Doing(x, q) = {}
        /\ \A x : Doing(x, q)' = {}
        /\ \A u \in Tasks : \A e : ~Holds(u, q, e) /\ ~Holds(u, q, e)'
    BY <1>1, <1>2, CtosAssumption DEF Doing, Holds, Moves, CtosAssumption
  <1>7. TableConsistent'
    <2>1. ASSUME NEW p \in Queues, p # q
          PROVE  p \in list' <=> \/ p \in Alive' /\ Doing("creating", p)' = {}
                                 \/ Doing("unlinking", p)' # {}
      BY <1>1, <1>2, <1>5, <2>1 DEF TableConsistent
    <2> QED
      BY <1>1, <1>2, <1>6, <2>1 DEF TableConsistent
  <1>8. ASSUME NEW p \in Alive
        PROVE  OwnedOnce(p)' /\ Counted(p)'
    <2>1. /\ \A x \in {"emptying", "scanning", "taking", "posting"} : Doing(x, p)' = Doing(x, p)
          /\ \A u \in Tasks : \A e : Holds(u, p, e)' <=> Holds(u, p, e)
      BY <1>5, <1>6 DEF States, Alive
    <2> QED
      BY <1>1, <2>1, KeptQueue
  <1> QED
    BY <1>2, <1>3, <1>4, <1>7, <1>8 DEF IInv, ElementsOwnedOnce, SemaphoresCount, Counted

LEMMA DeleteBeginsKeeps ==
    ASSUME IInv, NEW t \in Tasks, NEW q \in Queues, DeleteBegins(t, q)
    PROVE  IInv'
  <1>1. /\ q \in list /\ Unused(q) /\ pc[t] = "idle" /\ pc' = [pc EXCEPT ![t] = "emptying"]
        /\ que' = [que EXCEPT ![t] = q]
        /\ claimSem' = [claimSem EXCEPT ![q] = 0] /\ msgSem' = [msgSem EXCEPT ![q] = 0]
        /\ UNCHANGED <<memory, used, pending, list, index, msg>>
    BY DEF DeleteBegins, Usable, Start, table
  <1>2. /\ TypeOK /\ TasksOK /\ TableConsistent /\ Moves(t) /\ que[t] = NoQueue /\ que'[t] = q
        /\ msg[t] = {} /\ Alive' = Alive /\ q # NoQueue /\ \A u \in Tasks : que[u] # q
    BY <1>1, CtosAssumption DEF IInv, TypeOK, TasksOK, Moves, Alive, Unused, CtosAssumption
  <1>3. /\ \A x : Doing(x, q) = {}
        /\ \A x : x # "emptying" => Doing(x, q)' = {}
        /\ t \in Doing("emptying", q)'
        /\ \A u \in Tasks : \A e : ~Holds(u, q, e) /\ ~Holds(u, q, e)'
    BY <1>1, <1>2 DEF Doing, Holds, Moves, TypeOK
  <1>4. q \in Alive /\ index[q] < TableSize
    BY <1>1, <1>2, <1>3 DEF TableConsistent, Alive
  <1>5. ASSUME NEW p \in Queues, p # q
        PROVE  /\ \A x : Doing(x, p)' = Doing(x, p)
               /\ \A u \in Tasks : \A e : Holds(u, p, e)' <=> Holds(u, p, e)
    BY <1>1, <1>2, <1>5, OthersKept
  <1>6. TypeOK'
    <2>1. claimSem' \in [Queues -> 0 .. NoElements] /\ msgSem' \in [Queues -> Nat]
      BY <1>1, <1>2, CtosAssumption DEF TypeOK, CtosAssumption
    <2>2. pc' \in [Tasks -> States] /\ que' \in [Tasks -> Queues \cup {NoQueue}]
      BY <1>1, <1>2 DEF TypeOK, States
    <2> QED
      BY <1>1, <1>2, <2>1, <2>2 DEF TypeOK
  <1>7. TasksOK'
    <2>1. /\ pc'[t] = "emptying"
          /\ \A u \in Tasks : u # t => pc'[u] = pc[u] /\ que'[u] = que[u] /\ que[u] # q
      BY <1>1, <1>2 DEF TypeOK
    <2>2. \A u \in Tasks : que'[u] = q => u = t
      BY <2>1
    <2>3. ASSUME NEW u \in Tasks, u # t, pc[u] \in {"creating", "emptying", "unlinking"},
                 NEW v \in Tasks, que'[v] = que[u]
          PROVE  v = u
      BY <1>2, <2>1, <2>3 DEF TasksOK
    <2> QED
      BY <1>1, <1>2, <1>4, <2>1, <2>2, <2>3 DEF TasksOK
  <1>8. TableConsistent'
    <2>1. ASSUME NEW p \in Queues
          PROVE  /\ Doing("creating", p)' = Doing("creating", p)
                 /\ Doing("unlinking", p)' = Doing("unlinking", p)
      BY <1>3, <1>5
    <2> QED
      BY <1>1, <1>2, <2>1 DEF TableConsistent
  <1>9. ASSUME NEW p \in Alive, p # q
        PROVE  OwnedOnce(p)' /\ Counted(p)'
    <2>1. p \in Queues /\ claimSem'[p] = claimSem[p] /\ msgSem'[p] = msgSem[p]
      BY <1>1, <1>2, <1>9 DEF Alive, TypeOK
    <2> QED
      BY <1>1, <1>5, <1>9, <2>1, KeptQueue
  <1>10. OwnedOnce(q)'
    <2>1. OwnedOnce(q)
      BY <1>4 DEF IInv, ElementsOwnedOnce
    <2> QED
      BY <1>1, <1>3, <2>1 DEF OwnedOnce, IsPending
  <1>11. Counted(q)'
    BY <1>3 DEF Counted
  <1> QED
    BY <1>2, <1>6, <1>7, <1>8, <1>9, <1>10, <1>11
       DEF IInv, ElementsOwnedOnce, SemaphoresCount, Counted

LEMMA DeleteEmptiesKeeps ==
    ASSUME IInv, NEW t \in Tasks, DeleteEmpties(t), NEW q, q = que[t], NEW i, i = index[q]
    PROVE  IInv'
  <1>1. /\ pc[t] = "emptying" /\ pc' = [pc EXCEPT ![t] = "unlinking"] /\ que' = que
        /\ memory' = [memory EXCEPT ![i] = NoQueue] /\ used' = [used EXCEPT ![i] = {}]
        /\ pending' = [pending EXCEPT ![i] = <<>>] /\ index' = [index EXCEPT ![q] = TableSize]
        /\ UNCHANGED <<list, claimSem, msgSem, msg>>
    BY DEF DeleteEmpties, Go, sems
  <1>2. /\ TypeOK /\ TasksOK /\ TableConsistent /\ Moves(t) /\ msg[t] = {}
        /\ q \in Queues /\ q \in Alive /\ i \in Slots
        /\ \A u \in Tasks : que[u] = q => u = t
    BY <1>1, TaskFacts DEF IInv, TypeOK, TasksOK, Moves
  <1>3. /\ Doing("creating", q) = {} /\ Doing("creating", q)' = {} /\ t \in Doing("unlinking", q)'
    BY <1>1, <1>2 DEF Doing, TypeOK
  <1>4. ASSUME NEW p \in Queues, p # q
        PROVE  /\ \A x : Doing(x, p)' = Doing(x, p)
               /\ \A u \in Tasks : \A e : Holds(u, p, e)' <=> Holds(u, p, e)
    BY <1>1, <1>2, <1>4, OthersKept
  <1>5. index'[q] = TableSize /\ \A p \in Queues : p # q => index'[p] = index[p]
    BY <1>1, <1>2 DEF TypeOK
  <1>6. Alive' = Alive \ {q}
    BY <1>2, <1>5, CtosAssumption DEF Alive, CtosAssumption
  <1>7. ASSUME NEW p \in Alive'
        PROVE  /\ p \in Alive /\ p \in Queues /\ p # q /\ index'[p] = index[p]
               /\ index[p] \in Slots /\ index[p] # i
    <2>1. p \in Alive /\ p \in Queues /\ p # q /\ index'[p] = index[p]
      BY <1>5, <1>6 DEF Alive
    <2>2. index[p] \in Slots
      BY <1>2, <2>1, CtosAssumption DEF Alive, TypeOK, Slots, CtosAssumption
    <2>3. memory[index[p]] = p /\ memory[i] = q
      BY <1>2, <2>1 DEF TableConsistent
    <2> QED
      BY <2>1, <2>2, <2>3
  <1>8. TypeOK'
    <2>1. pending' \in [Slots -> Seq(Elements)]
      BY <1>1, <1>2, ClearedType
    <2>2. pc' \in [Tasks -> States]
      BY <1>1, <1>2 DEF TypeOK, States
    <2>3. index' \in [Queues -> 0 .. TableSize]
      BY <1>1, <1>2, CtosAssumption DEF TypeOK, CtosAssumption
    <2> QED
      BY <1>1, <1>2, <2>1, <2>2, <2>3 DEF TypeOK
  <1>9. TasksOK'
    <2>1. ASSUME NEW u \in Tasks, u # t
          PROVE  /\ pc'[u] = pc[u] /\ que[u] # q
                 /\ que[u] # NoQueue => index'[que[u]] = index[que[u]]
      BY <1>1, <1>2, <1>5, <2>1 DEF TypeOK
    <2>2. pc'[t] = "unlinking" /\ index'[que[t]] = TableSize /\ q # NoQueue
      BY <1>1, <1>2, <1>5, CtosAssumption DEF TypeOK, CtosAssumption
    <2>3. ASSUME NEW u \in Tasks, u # t
          PROVE  /\ pc'[u] = "idle" <=> que'[u] = NoQueue
                 /\ pc'[u] = "holding" => \E e \in Elements : msg'[u] = {e}
                 /\ pc'[u] # "holding" => msg'[u] = {}
                 /\ pc'[u] \notin {"idle", "unlinking"} => index'[que'[u]] < TableSize
                 /\ pc'[u] = "unlinking" => index'[que'[u]] = TableSize
                 /\ pc'[u] \in {"creating", "emptying", "unlinking"} =>
                        \A v \in Tasks : que'[v] = que'[u] => v = u
      BY <1>1, <1>2, <2>1, <2>3 DEF TasksOK
    <2> QED
      BY <1>1, <1>2, <2>2, <2>3 DEF TasksOK
  <1>10. TableConsistent'
    <2>1. ASSUME NEW j \in Slots, memory'[j] # NoQueue
          PROVE  index'[memory'[j]] = j
      <3>1. j # i /\ memory'[j] = memory[j]
        BY <1>1, <1>2, <2>1 DEF TypeOK
      <3>2. memory[j] \in Queues /\ index[memory[j]] = j
        BY <1>2, <2>1, <3>1 DEF TypeOK, TableConsistent
      <3> QED
        BY <1>5, <3>1, <3>2
    <2>2. ASSUME NEW p \in Alive'
          PROVE  memory'[index'[p]] = p
      BY <1>1, <1>2, <1>7 DEF TypeOK, TableConsistent
    <2>3. ASSUME NEW p \in Queues, p # q
          PROVE  p \in list' <=> \/ p \in Alive' /\ Doing("creating", p)' = {}
                                 \/ Doing("unlinking", p)' # {}
      BY <1>1, <1>2, <1>4, <1>6, <2>3 DEF TableConsistent
    <2>4. q \in list'
      BY <1>1, <1>2, <1>3 DEF TableConsistent
    <2> QED
      BY <1>3, <2>1, <2>2, <2>3, <2>4 DEF TableConsistent
  <1>11. ASSUME NEW p \in Alive'
         PROVE  OwnedOnce(p)' /\ Counted(p)'
    <2>1. p \in Alive /\ p \in Queues /\ p # q /\ index'[p] = index[p] /\ index[p] # i
          /\ index[p] \in Slots
      BY <1>7
    <2>2. used'[index[p]] = used[index[p]] /\ pending'[index[p]] = pending[index[p]]
      BY <1>1, <1>2, <2>1 DEF TypeOK
    <2>3. /\ \A x : Doing(x, p)' = Doing(x, p)
          /\ \A u \in Tasks : \A e : Holds(u, p, e)' <=> Holds(u, p, e)
      BY <1>4, <2>1
    <2> QED
      BY <1>1, <2>1, <2>2, <2>3, KeptQueue
  <1> QED
    BY <1>8, <1>9, <1>10, <1>11 DEF IInv, ElementsOwnedOnce, SemaphoresCount, Counted

LEMMA DeleteUnlinksKeeps ==
    ASSUME IInv, NEW t \in Tasks, DeleteUnlinks(t), NEW q, q = que[t]
    PROVE  IInv'
  <1>1. /\ pc[t] = "unlinking" /\ pc' = [pc EXCEPT ![t] = "idle"]
        /\ que' = [que EXCEPT ![t] = NoQueue] /\ list' = list \ {q}
        /\ UNCHANGED <<memory, used, pending, index, claimSem, msgSem, msg>>
    BY DEF DeleteUnlinks, Finish, table, sems
  <1>2. /\ TypeOK /\ TasksOK /\ TableConsistent /\ Moves(t) /\ que'[t] = NoQueue /\ msg[t] = {}
        /\ q \in Queues /\ index[q] = TableSize /\ q \notin Alive /\ Alive' = Alive
        /\ \A u \in Tasks : que[u] = q => u = t
    BY <1>1, CtosAssumption DEF IInv, TypeOK, TasksOK, Moves, Alive, CtosAssumption
  <1>3. TypeOK'
    BY <1>1, <1>2 DEF TypeOK, States
  <1>4. TasksOK'
    <2>1. /\ pc'[t] = "idle" /\ \A u \in Tasks : u # t => pc'[u] = pc[u] /\ que'[u] = que[u]
      BY <1>1, <1>2 DEF TypeOK
    <2>2. \A u \in Tasks : que'[u] # NoQueue => que'[u] = que[u]
      BY <1>2, <2>1
    <2> QED
      BY <1>1, <1>2, <2>1, <2>2 DEF TasksOK
  <1>5. ASSUME NEW p \in Queues, p # q
        PROVE  /\ \A x : Doing(x, p)' = Doing(x, p)
               /\ \A u \in Tasks : \A e : Holds(u, p, e)' <=> Holds(u, p, e)
    <2>1. que[t] \in {q, NoQueue} /\ que'[t] \in {q, NoQueue} /\ msg' = msg
      BY <1>1, <1>2
    <2> QED
      BY <1>2, <1>5, <2>1, OthersKept
  <1>6. Doing("unlinking", q)' = {}
    BY <1>2, CtosAssumption DEF Doing, Moves, CtosAssumption
  <1>7. TableConsistent'
    <2>1. ASSUME NEW p \in Queues, p # q
          PROVE  p \in list' <=> \/ p \in Alive' /\ Doing("creating", p)' = {}
                                 \/ Doing("unlinking", p)' # {}
      BY <1>1, <1>2, <1>5, <2>1 DEF TableConsistent
    <2> QED
      BY <1>1, <1>2, <1>6, <2>1 DEF TableConsistent
  <1>8. ASSUME NEW p \in Alive
        PROVE  OwnedOnce(p)' /\ Counted(p)'
    BY <1>1, <1>2, <1>5, KeptQueue DEF Alive
  <1> QED
    BY <1>2, <1>3, <1>4, <1>7, <1>8 DEF IInv, ElementsOwnedOnce, SemaphoresCount, Counted
-----------------------------------------------------------------------------
LEMMA InitIInv == Init => IInv
  <1> SUFFICES ASSUME Init PROVE IInv
    OBVIOUS
  <1>1. Alive = {}
    BY CtosAssumption DEF Init, Alive, CtosAssumption
  <1>2. TypeOK
    <2>1. <<>> \in Seq(Elements)
      OBVIOUS
    <2>2. pending \in [Slots -> Seq(Elements)]
      BY <2>1 DEF Init
    <2> QED
      BY <2>2, CtosAssumption DEF Init, TypeOK, States, CtosAssumption
  <1>3. TasksOK
    BY DEF Init, TasksOK
  <1>4. TableConsistent
    BY <1>1 DEF Init, TableConsistent, Doing
  <1> QED
    BY <1>1, <1>2, <1>3, <1>4 DEF IInv, ElementsOwnedOnce, SemaphoresCount

LEMMA NextIInv == IInv /\ [Next]_vars => IInv'
  <1> SUFFICES ASSUME IInv, [Next]_vars PROVE IInv'
    OBVIOUS
  <1>1. CASE UNCHANGED vars
    <2>0. UNCHANGED <<memory, used, pending, list, index, claimSem, msgSem, pc, que, msg>>
      BY <1>1 DEF vars
    <2>1. TypeOK' /\ TasksOK'
      BY <2>0 DEF IInv, TypeOK, TasksOK
    <2>2. /\ \A x, q : Doing(x, q)' = Doing(x, q)
          /\ \A u, q, e : Holds(u, q, e)' <=> Holds(u, q, e)
          /\ Alive' = Alive
      BY <2>0 DEF Doing, Holds, Alive
    <2>3. TableConsistent'
      BY <2>0, <2>2 DEF IInv, TableConsistent
    <2>4. ASSUME NEW p \in Alive
          PROVE  OwnedOnce(p)' /\ Counted(p)'
      BY <2>0, <2>2, KeptQueue
    <2> QED
      BY <2>1, <2>2, <2>3, <2>4 DEF IInv, ElementsOwnedOnce, SemaphoresCount, Counted
  <1>2. CASE Next
    <2>1. PICK t \in Tasks : \/ Steps(t) \/ CreateLinks(t) \/ DeleteEmpties(t) \/ DeleteUnlinks(t)
                             \/ \E q \in Queues : CreateTakes(t, q) \/ DeleteBegins(t, q)
      BY <1>2 DEF Next, Steps
    <2>2. CASE Steps(t)
      BY <2>2, StepType, StepTasks, StepTable, StepOwned, StepCounts DEF IInv
    <2>3. CASE CreateLinks(t) \/ DeleteEmpties(t) \/ DeleteUnlinks(t)
      <3>1. PICK q, i : q = que[t] /\ i = index[q]
        OBVIOUS
      <3> QED
        BY <2>3, <3>1, CreateLinksKeeps, DeleteEmptiesKeeps, DeleteUnlinksKeeps
    <2>4. CASE \E q \in Queues : CreateTakes(t, q) \/ DeleteBegins(t, q)
      BY <2>4, CreateTakesKeeps, DeleteBeginsKeeps
    <2> QED
      BY <2>1, <2>2, <2>3, <2>4
  <1> QED
    BY <1>1, <1>2

(* Creating, deleting, claiming, sending, receiving and releasing keep the  *)
(* inductive invariant, in every interleaving of any number of tasks.       *)
THEOREM Invariance == Spec => []IInv
  BY InitIInv, NextIInv, PTL DEF Spec

(* The claim semaphore stays at or below the number of elements. *)
THEOREM TypeCorrect == Spec => []TypeOK
  <1>1. IInv => TypeOK
    BY DEF IInv
  <1> QED
    BY <1>1, Invariance, PTL

(* No element is lost, held twice or sent twice: what Used_p marks is what  *)
(* the tasks hold and what Pending_p lists.                                 *)
THEOREM ElementsConserved == Spec => []ElementsOwnedOnce
  <1>1. IInv => ElementsOwnedOnce
    BY DEF IInv
  <1> QED
    BY <1>1, Invariance, PTL

(* The two semaphores of a queue, taken and posted outside message_mutex,   *)
(* never promise what the table does not hold, nor forget what it does.     *)
THEOREM SemaphoresAgree == Spec => []SemaphoresCount
  <1>1. IInv => SemaphoresCount
    BY DEF IInv
  <1> QED
    BY <1>1, Invariance, PTL

(* Creations and deletions, each in two critical sections, never give a     *)
(* table entry to two queues or leave a freed queue in the list.            *)
THEOREM TableStaysConsistent == Spec => []TableConsistent
  <1>1. IInv => TableConsistent
    BY DEF IInv
  <1> QED
    BY <1>1, Invariance, PTL
-----------------------------------------------------------------------------
(***************************************************************************)
(* Ctos implements MessagePool.  What the pool sees of a state:            *)
(***************************************************************************)
Free == [q \in Queues |-> IF q \in Alive THEN Elements \ used[index[q]] ELSE {}]
Waiting == [q \in Queues |-> IF q \in Alive THEN pending[index[q]] ELSE <<>>]
Hand == [t \in Tasks |-> {<<que[t], e>> : e \in msg[t]}]

(* No two queues share a table entry. *)
LEMMA EntriesApart ==
    ASSUME IInv
    PROVE  /\ \A p \in Alive : p \in Queues /\ index[p] \in Slots /\ memory[index[p]] = p
           /\ \A p, q \in Alive : index[p] = index[q] => p = q
  <1>1. \A p \in Alive : p \in Queues /\ memory[index[p]] = p
    BY DEF IInv, TableConsistent, Alive
  <1>2. \A p \in Alive : index[p] \in Slots
    BY CtosAssumption DEF IInv, TypeOK, Alive, Slots, CtosAssumption
  <1> QED
    BY <1>1, <1>2

(* So an entry without memory leaves room for one more queue. *)
LEMMA RoomToOpen ==
    ASSUME IInv, NEW i \in Slots, memory[i] = NoQueue
    PROVE  Cardinality(Alive) < TableSize
  <1>1. /\ \A p \in Alive : index[p] \in Slots \ {i}
        /\ \A p, q \in Alive : index[p] = index[q] => p = q
    <2>1. \A p \in Alive : p # NoQueue
      BY EntriesApart, CtosAssumption DEF CtosAssumption
    <2> QED
      BY <2>1, EntriesApart
  <1> DEFINE f == [p \in Alive |-> index[p]]
  <1>2. f \in Injection(Alive, Slots \ {i})
    BY <1>1 DEF Injection, IsInjective
  <1>3. IsFiniteSet(Slots) /\ Cardinality(Slots) = TableSize
    BY CtosAssumption, FS_Interval DEF Slots, CtosAssumption
  <1>4. IsFiniteSet(Slots \ {i}) /\ Cardinality(Slots \ {i}) = TableSize - 1
    BY <1>3, FS_RemoveElement
  <1>5. IsFiniteSet(Alive) /\ Cardinality(Alive) <= TableSize - 1
    BY <1>2, <1>4, FS_Injection
  <1>6. Cardinality(Alive) \in Nat
    BY <1>5, FS_CardinalityType
  <1> QED
    BY <1>5, <1>6, CtosAssumption DEF CtosAssumption

(* How a change of a table entry, or of what a task holds, shows. *)
LEMMA FreeLifts ==
    ASSUME IInv, NEW q \in Alive, index' = index, NEW S, used' = [used EXCEPT ![index[q]] = S]
    PROVE  Free' = [Free EXCEPT ![q] = Elements \ S]
  <1>1. Alive' = Alive
    BY DEF Alive
  <1>2. used'[index[q]] = S /\ \A p \in Alive : p # q => used'[index[p]] = used[index[p]]
    BY EntriesApart DEF IInv, TypeOK
  <1> QED
    BY <1>1, <1>2 DEF Free

LEMMA WaitingLifts ==
    ASSUME IInv, NEW q \in Alive, index' = index, NEW s,
           pending' = [pending EXCEPT ![index[q]] = s]
    PROVE  Waiting' = [Waiting EXCEPT ![q] = s]
  <1>1. Alive' = Alive
    BY DEF Alive
  <1>2. pending'[index[q]] = s /\ \A p \in Alive : p # q => pending'[index[p]] = pending[index[p]]
    BY EntriesApart DEF IInv, TypeOK
  <1> QED
    BY <1>1, <1>2 DEF Waiting

LEMMA TableLifts ==
    ASSUME index' = index
    PROVE  Alive' = Alive /\ (used' = used => Free' = Free)
                          /\ (pending' = pending => Waiting' = Waiting)
  BY DEF Alive, Free, Waiting

LEMMA HandLifts ==
    ASSUME IInv, NEW t \in Tasks, Moves(t), \A u \in Tasks : u # t => msg'[u] = msg[u]
    PROVE  /\ Hand' = [Hand EXCEPT ![t] = {<<que'[t], e>> : e \in msg'[t]}]
           /\ msg[t] = {} => Hand[t] = {}
           /\ msg[t] = {} /\ msg'[t] = {} => Hand' = Hand
  <1>1. \A u \in Tasks : u # t => Hand'[u] = Hand[u]
    BY DEF Hand, Moves
  <1>2. /\ Hand'[t] = {<<que'[t], e>> : e \in msg'[t]}
        /\ Hand[t] = {<<que[t], e>> : e \in msg[t]}
    BY DEF Hand
  <1>3. /\ Hand = [u \in Tasks |-> Hand[u]] /\ Hand' = [u \in Tasks |-> Hand'[u]]
    BY DEF Hand
  <1>4. msg[t] = {} => Hand[t] = {}
    BY <1>2
  <1>5. msg'[t] = {} => Hand'[t] = {}
    BY <1>2
  <1> QED
    BY <1>1, <1>2, <1>3, <1>4, <1>5

(* Creating a queue opens it: its entry was nobody's. *)
LEMMA CreateOpens ==
    ASSUME IInv, NEW t \in Tasks, NEW q \in Queues, CreateTakes(t, q)
    PROVE  Pool!Open(q)
  <1> DEFINE i == Least(FreeSlots)
  <1>1. /\ q \notin list /\ Unused(q) /\ FreeSlots # {} /\ pc[t] = "idle"
        /\ pc' = [pc EXCEPT ![t] = "creating"] /\ que' = [que EXCEPT ![t] = q]
        /\ used' = [used EXCEPT ![i] = {}] /\ pending' = [pending EXCEPT ![i] = <<>>]
        /\ index' = [index EXCEPT ![q] = i] /\ msg' = msg
    BY DEF CreateTakes, Start
  <1>2. i \in Slots /\ memory[i] = NoQueue
    <2>1. FreeSlots \in SUBSET Nat
      BY CtosAssumption DEF FreeSlots, Slots, CtosAssumption
    <2>2. i \in FreeSlots
      BY <1>1, <2>1, LeastIn
    <2> HIDE DEF i
    <2> QED
      BY <2>2 DEF FreeSlots
  <1> HIDE DEF i
  <1>3. TypeOK /\ TasksOK /\ Moves(t) /\ msg[t] = {} /\ i < TableSize
    <2>1. TypeOK /\ TasksOK /\ i < TableSize
      BY <1>2, CtosAssumption DEF IInv, Slots, CtosAssumption
    <2>2. Moves(t)
      BY <1>1, <2>1 DEF Moves, TypeOK
    <2>3. msg[t] = {}
      BY <1>1, <2>1 DEF TasksOK
    <2> QED
      BY <2>1, <2>2, <2>3
  <1>4. q \notin Alive
    BY <1>1 DEF IInv, TableConsistent, Unused, Doing
  <1>5. index'[q] = i /\ \A p \in Alive : index'[p] = index[p] /\ index[p] # i /\ p \in Queues
    <2>1. \A p \in Alive : memory[index[p]] # NoQueue /\ p \in Queues /\ p # q
      BY <1>4, EntriesApart, CtosAssumption DEF CtosAssumption
    <2> QED
      BY <1>1, <1>2, <1>3, <2>1 DEF TypeOK
  <1>6. Alive' = Alive \cup {q}
    BY <1>1, <1>3, <1>5 DEF Alive, TypeOK
  <1>7. /\ used'[i] = {} /\ pending'[i] = <<>>
        /\ \A p \in Alive : used'[index[p]] = used[index[p]] /\ pending'[index[p]] = pending[index[p]]
    BY <1>1, <1>2, <1>3, <1>5, EntriesApart DEF TypeOK
  <1>8. Free' = [Free EXCEPT ![q] = Elements]
    BY <1>5, <1>6, <1>7 DEF Free
  <1>9. Waiting' = Waiting
    BY <1>4, <1>5, <1>6, <1>7 DEF Waiting
  <1>10. Hand' = Hand
    BY <1>1, <1>3, HandLifts
  <1>11. Cardinality(Alive) < TableSize
    BY <1>2, RoomToOpen
  <1>12. Pool!Cardinality(Alive) = Cardinality(Alive)
    BY DEF Pool!Cardinality, Cardinality
  <1> QED
    BY <1>4, <1>6, <1>8, <1>9, <1>10, <1>11, <1>12 DEF Pool!Open, Free, Waiting, Hand

(* Emptying the table entry closes the queue: the deleting task is alone.  *)
LEMMA DeleteCloses ==
    ASSUME IInv, NEW t \in Tasks, DeleteEmpties(t), NEW q, q = que[t]
    PROVE  q \in Queues /\ Pool!Close(q)
  <1> DEFINE i == index[q]
  <1>1. /\ pc[t] = "emptying" /\ pc' = [pc EXCEPT ![t] = "unlinking"] /\ que' = que
        /\ used' = [used EXCEPT ![i] = {}] /\ pending' = [pending EXCEPT ![i] = <<>>]
        /\ index' = [index EXCEPT ![q] = TableSize] /\ msg' = msg
    BY DEF DeleteEmpties, Go
  <1>2. /\ TypeOK /\ Moves(t) /\ msg[t] = {} /\ q \in Queues /\ q \in Alive /\ i \in Slots
        /\ \A u \in Tasks : que[u] = q => u = t
    BY <1>1, TaskFacts DEF IInv, TypeOK, TasksOK, Moves
  <1>3. index'[q] = TableSize /\ \A p \in Queues : p # q => index'[p] = index[p]
    BY <1>1, <1>2 DEF TypeOK
  <1>4. Alive' = Alive \ {q}
    BY <1>2, <1>3, CtosAssumption DEF Alive, CtosAssumption
  <1>5. \A p \in Alive : p # q => /\ index[p] # i /\ index'[p] = index[p]
                                  /\ used'[index[p]] = used[index[p]]
                                  /\ pending'[index[p]] = pending[index[p]]
    BY <1>1, <1>2, <1>3, EntriesApart DEF TypeOK
  <1>6. Free' = [Free EXCEPT ![q] = {}]
    BY <1>4, <1>5 DEF Free
  <1>7. Waiting' = [Waiting EXCEPT ![q] = <<>>]
    BY <1>4, <1>5 DEF Waiting
  <1>8. Hand' = Hand
    BY <1>1, <1>2, HandLifts
  <1>9. \A u \in Tasks, e \in Elements : <<q, e>> \notin Hand[u]
    BY <1>2 DEF Hand
  <1> QED
    BY <1>2, <1>4, <1>6, <1>7, <1>8, <1>9 DEF Pool!Close, Free, Waiting, Hand

(* A claim that finds an element takes a free one. *)
LEMMA ClaimTakesFree ==
    ASSUME IInv, NEW t \in Tasks, ClaimScans(t), NEW q, q = que[t]
    PROVE  \/ q \in Queues /\ Pool!TakeFree(t, q)
           \/ UNCHANGED <<Alive, Free, Waiting, Hand>>
  <1> DEFINE i == index[q]
             e == Least(Elements \ used[i])
  <1>1. /\ TypeOK /\ Moves(t) /\ msg[t] = {} /\ pc[t] = "scanning"
        /\ q \in Queues /\ q \in Alive /\ i \in Slots /\ index' = index /\ pending' = pending
    BY StepMoves, TaskFacts DEF IInv, TypeOK, TasksOK, Steps, ClaimScans, table
  <1>2. CASE Elements \ used[i] = {}
    <2>1. used' = used /\ msg' = msg
      BY <1>2 DEF ClaimScans, table
    <2> QED
      BY <1>1, <2>1, TableLifts, HandLifts
  <1>3. CASE Elements \ used[i] # {}
    <2>1. /\ que' = que /\ used' = [used EXCEPT ![i] = @ \cup {e}]
          /\ msg' = [msg EXCEPT ![t] = {e}]
      BY <1>3 DEF ClaimScans, Go
    <2>2. e \in Elements \ used[i]
      <3>1. Elements \ used[i] \in SUBSET Nat
        BY CtosAssumption DEF Elements, CtosAssumption
      <3> QED
        BY <1>3, <3>1, LeastIn
    <2> HIDE DEF e
    <2>3. /\ Hand' = [Hand EXCEPT ![t] = {<<que'[t], x>> : x \in msg'[t]}]
          /\ Hand[t] = {} /\ msg'[t] = {e}
      BY <1>1, <2>1, HandLifts DEF TypeOK
    <2>4. Hand' = [Hand EXCEPT ![t] = {<<q, e>>}]
      <3>1. {<<que'[t], x>> : x \in msg'[t]} = {<<q, e>>}
        BY <2>1, <2>3
      <3> QED
        BY <2>3, <3>1
    <2>5. used' = [used EXCEPT ![i] = used[i] \cup {e}]
      BY <2>1
    <2>6. Free' = [Free EXCEPT ![q] = Elements \ (used[i] \cup {e})]
      BY <1>1, <2>5, FreeLifts
    <2>7. Free[q] = Elements \ used[i] /\ Elements \ (used[i] \cup {e}) = Free[q] \ {e}
      BY <1>1 DEF Free
    <2>8. Free' = [Free EXCEPT ![q] = @ \ {e}] /\ e \in Free[q]
      BY <2>2, <2>6, <2>7
    <2>9. Alive' = Alive /\ Waiting' = Waiting
      BY <1>1, TableLifts
    <2>10. Pool!TakeFree(t, q)
      BY <1>1, <2>3, <2>4, <2>8, <2>9 DEF Pool!TakeFree, Free, Waiting, Hand
    <2> QED
      BY <1>1, <2>10
  <1> QED
    BY <1>2, <1>3

(* What the holder of an element has in hand. *)
LEMMA HolderHand ==
    ASSUME IInv, NEW t \in Tasks, pc[t] = "holding"
    PROVE  \E e \in Elements : /\ msg[t] = {e} /\ e \in used[index[que[t]]]
                               /\ Hand[t] = {<<que[t], e>>}
  <1>1. PICK e \in Elements : msg[t] = {e} /\ e \in used[index[que[t]]]
    BY HeldIsUsed
  <1>2. Hand[t] = {<<que[t], e>>}
    BY <1>1 DEF Hand
  <1> QED
    BY <1>1, <1>2

LEMMA SendPasses ==
    ASSUME IInv, NEW t \in Tasks, SendAppends(t)
    PROVE  Pool!PassOn(t)
  <1> DEFINE q == que[t]
             i == index[q]
  <1>1. /\ pc[t] = "holding" /\ que' = que /\ UNCHANGED <<used, index>>
        /\ msg' = [msg EXCEPT ![t] = {}]
    BY DEF SendAppends, Go
  <1>2. /\ TypeOK /\ Moves(t) /\ q \in Queues /\ q \in Alive /\ i \in Slots
    BY <1>1, StepMoves, TaskFacts DEF IInv, Steps
  <1>3. PICK e \in Elements : msg[t] = {e} /\ Hand[t] = {<<q, e>>}
    BY <1>1, HolderHand
  <1>4. pending' = [pending EXCEPT ![i] = Append(pending[i], e)]
    BY <1>3 DEF SendAppends
  <1>5. Waiting' = [Waiting EXCEPT ![q] = Append(pending[i], e)] /\ Waiting[q] = pending[i]
    BY <1>1, <1>2, <1>4, WaitingLifts DEF Waiting
  <1>6. Hand' = [Hand EXCEPT ![t] = {}]
    <2>1. msg'[t] = {} /\ \A u \in Tasks : u # t => msg'[u] = msg[u]
      BY <1>1, <1>2 DEF TypeOK
    <2>2. {<<que'[t], x>> : x \in msg'[t]} = {}
      BY <2>1
    <2>3. Hand' = [Hand EXCEPT ![t] = {<<que'[t], x>> : x \in msg'[t]}]
      BY <1>2, <2>1, HandLifts
    <2> QED
      BY <2>2, <2>3
  <1>7. Alive' = Alive /\ Free' = Free
    BY <1>1, TableLifts
  <1>8. Waiting' = [Waiting EXCEPT ![q] = Append(@, e)]
    BY <1>5
  <1> QED
    BY <1>2, <1>3, <1>6, <1>7, <1>8 DEF Pool!PassOn, Free, Waiting, Hand

LEMMA ReceiveTakesOldest ==
    ASSUME IInv, NEW t \in Tasks, ReceiveTakes(t), NEW q, q = que[t]
    PROVE  \/ q \in Queues /\ Pool!TakeOldest(t, q)
           \/ UNCHANGED <<Alive, Free, Waiting, Hand>>
  <1> DEFINE i == index[q]
  <1>1. /\ TypeOK /\ Moves(t) /\ msg[t] = {} /\ pc[t] = "taking"
        /\ q \in Queues /\ q \in Alive /\ i \in Slots /\ index' = index /\ used' = used
    BY StepMoves, TaskFacts DEF IInv, TypeOK, TasksOK, Steps, ReceiveTakes, table
  <1>2. CASE pending[i] = <<>>
    <2>1. pending' = pending /\ msg' = msg
      BY <1>2 DEF ReceiveTakes, table
    <2> QED
      BY <1>1, <2>1, TableLifts, HandLifts
  <1>3. CASE pending[i] # <<>>
    <2>1. /\ que' = que /\ pending' = [pending EXCEPT ![i] = Tail(pending[i])]
          /\ msg' = [msg EXCEPT ![t] = {Head(pending[i])}]
      BY <1>3 DEF ReceiveTakes, Go
    <2>2. /\ Hand' = [Hand EXCEPT ![t] = {<<que'[t], x>> : x \in msg'[t]}]
          /\ Hand[t] = {} /\ msg'[t] = {Head(pending[i])}
      BY <1>1, <2>1, HandLifts DEF TypeOK
    <2>3. Hand' = [Hand EXCEPT ![t] = {<<q, Head(pending[i])>>}]
      <3>1. {<<que'[t], x>> : x \in msg'[t]} = {<<q, Head(pending[i])>>}
        BY <2>1, <2>2
      <3> QED
        BY <2>2, <3>1
    <2>4. Waiting' = [Waiting EXCEPT ![q] = Tail(pending[i])] /\ Waiting[q] = pending[i]
      BY <1>1, <2>1, WaitingLifts DEF Waiting
    <2>5. Waiting' = [Waiting EXCEPT ![q] = Tail(@)] /\ Waiting[q] # <<>>
          /\ Hand' = [Hand EXCEPT ![t] = {<<q, Head(Waiting[q])>>}]
      BY <1>3, <2>3, <2>4
    <2>6. Alive' = Alive /\ Free' = Free
      BY <1>1, TableLifts
    <2>7. Pool!TakeOldest(t, q)
      BY <1>1, <2>2, <2>5, <2>6 DEF Pool!TakeOldest, Free, Waiting, Hand
    <2> QED
      BY <1>1, <2>7
  <1> QED
    BY <1>2, <1>3

LEMMA ReleasePutsBack ==
    ASSUME IInv, NEW t \in Tasks, Release(t)
    PROVE  Pool!PutBack(t)
  <1> DEFINE q == que[t]
             i == index[q]
  <1>1. /\ pc[t] = "holding" /\ que' = [que EXCEPT ![t] = NoQueue] /\ UNCHANGED <<pending, index>>
        /\ msg' = [msg EXCEPT ![t] = {}]
    BY DEF Release, Finish
  <1>2. /\ TypeOK /\ Moves(t) /\ q \in Queues /\ q \in Alive /\ i \in Slots
    BY <1>1, StepMoves, TaskFacts DEF IInv, Steps
  <1>3. PICK e \in Elements : msg[t] = {e} /\ Hand[t] = {<<q, e>>} /\ e \in used[i]
    BY <1>1, HolderHand
  <1>4. used' = [used EXCEPT ![i] = used[i] \ {e}]
    BY <1>3 DEF Release
  <1>5. Free' = [Free EXCEPT ![q] = Elements \ (used[i] \ {e})]
    BY <1>1, <1>2, <1>4, FreeLifts
  <1>6. Free[q] = Elements \ used[i] /\ Elements \ (used[i] \ {e}) = Free[q] \cup {e}
    BY <1>2, <1>3 DEF Free
  <1>7. Free' = [Free EXCEPT ![q] = @ \cup {e}]
    BY <1>5, <1>6
  <1>8. Hand' = [Hand EXCEPT ![t] = {}]
    <2>1. msg'[t] = {} /\ \A u \in Tasks : u # t => msg'[u] = msg[u]
      BY <1>1, <1>2 DEF TypeOK
    <2>2. {<<que'[t], x>> : x \in msg'[t]} = {}
      BY <2>1
    <2>3. Hand' = [Hand EXCEPT ![t] = {<<que'[t], x>> : x \in msg'[t]}]
      BY <1>2, <2>1, HandLifts
    <2> QED
      BY <2>2, <2>3
  <1>9. Alive' = Alive /\ Waiting' = Waiting
    BY <1>1, TableLifts
  <1> QED
    BY <1>2, <1>3, <1>7, <1>8, <1>9 DEF Pool!PutBack, Free, Waiting, Hand

(* The rest only moves a task that holds nothing. *)
Quiet(t) ==
    \/ \E q \in Queues : DeleteBegins(t, q) \/ ClaimBegins(t, q) \/ ReceiveBegins(t, q)
    \/ CreateLinks(t) \/ DeleteUnlinks(t) \/ ClaimWaits(t) \/ ClaimGivesUp(t)
    \/ SendPosts(t) \/ ReceiveWaits(t) \/ ReceiveGivesUp(t)

LEMMA QuietStutters ==
    ASSUME IInv, NEW t \in Tasks, Quiet(t)
    PROVE  UNCHANGED <<Alive, Free, Waiting, Hand>>
  <1>1. UNCHANGED <<index, used, pending, msg>>
    BY DEF Quiet, DeleteBegins, ClaimBegins, ReceiveBegins, CreateLinks, DeleteUnlinks, ClaimWaits,
           ClaimGivesUp, SendPosts, ReceiveWaits, ReceiveGivesUp, table
  <1>2. pc[t] # "holding" /\ Moves(t)
    BY DEF IInv, TypeOK, Moves, Quiet, DeleteBegins, ClaimBegins, ReceiveBegins, CreateLinks,
           DeleteUnlinks, ClaimWaits, ClaimGivesUp, SendPosts, ReceiveWaits, ReceiveGivesUp,
           Start, Go, Finish
  <1>3. msg[t] = {}
    BY <1>2 DEF IInv, TasksOK
  <1> QED
    BY <1>1, <1>2, <1>3, TableLifts, HandLifts

LEMMA InitPool == Init => Pool!PoolInit
  <1> SUFFICES ASSUME Init PROVE Pool!PoolInit
    OBVIOUS
  <1>1. Alive = {}
    BY CtosAssumption DEF Init, Alive, CtosAssumption
  <1>2. Free = [q \in Queues |-> {}] /\ Waiting = [q \in Queues |-> <<>>]
    BY <1>1 DEF Free, Waiting
  <1>3. Hand = [t \in Tasks |-> {}]
    BY DEF Init, Hand
  <1> QED
    BY <1>1, <1>2, <1>3 DEF Pool!PoolInit, Free, Waiting, Hand

LEMMA NextPool == IInv /\ [Next]_vars => [Pool!PoolNext]_(Pool!poolVars)
  <1> SUFFICES ASSUME IInv, [Next]_vars PROVE Pool!PoolNext \/ UNCHANGED <<Alive, Free, Waiting, Hand>>
    BY DEF Pool!poolVars, Free, Waiting, Hand
  <1>1. CASE UNCHANGED vars
    BY <1>1 DEF vars, Alive, Free, Waiting, Hand
  <1>2. CASE Next
    <2>1. PICK t \in Tasks :
              \/ Quiet(t) \/ DeleteEmpties(t) \/ ClaimScans(t) \/ SendAppends(t)
              \/ ReceiveTakes(t) \/ Release(t) \/ \E q \in Queues : CreateTakes(t, q)
      BY <1>2 DEF Next, Quiet
    <2>0. PICK p : p = que[t]
      OBVIOUS
    <2>2. CASE \E q \in Queues : CreateTakes(t, q)
      BY <2>2, CreateOpens DEF Pool!PoolNext
    <2>3. CASE DeleteEmpties(t)
      BY <2>3, <2>0, DeleteCloses DEF Pool!PoolNext
    <2>4. CASE ClaimScans(t)
      BY <2>4, <2>0, ClaimTakesFree DEF Pool!PoolNext
    <2>5. CASE SendAppends(t)
      BY <2>5, SendPasses DEF Pool!PoolNext
    <2>6. CASE ReceiveTakes(t)
      BY <2>6, <2>0, ReceiveTakesOldest DEF Pool!PoolNext
    <2>7. CASE Release(t)
      BY <2>7, ReleasePutsBack DEF Pool!PoolNext
    <2>8. CASE Quiet(t)
      BY <2>8, QuietStutters
    <2> QED
      BY <2>1, <2>2, <2>3, <2>4, <2>5, <2>6, <2>7, <2>8
  <1> QED
    BY <1>1, <1>2

(* With any number of tasks, queues, table entries and elements, the       *)
(* functions of ctos.c are the pool that ctos.h promises: each message     *)
(* leaves its queue once, in the order it was sent, an element goes to one *)
(* task at a time, and making or deleting a queue disturbs no other.       *)
THEOREM RefinesMessagePool == Spec => ImplementsMessagePool
  <1>1. IInv /\ [Next]_vars => [Pool!PoolNext]_(Pool!poolVars)
    BY NextPool
  <1> QED
    BY InitPool, <1>1, Invariance, PTL DEF Spec, ImplementsMessagePool, Pool!PoolSpec
-----------------------------------------------------------------------------
(***************************************************************************)
(* OsNumbers.                                                              *)
(***************************************************************************)
(* A word is a multiple of two, as 2^32 is. *)
EvenWords == \E half \in Nat \ {0} : B = half + half

LEMMA BIs ==
    ASSUME EvenWords
    PROVE  B \in Nat /\ B > 1 /\ B * B \in Nat /\ B * B > 0
           /\ \A w \in Word : w \in Nat /\ w < B /\ (Top(w) <=> w + w >= B)
  <1>1. PICK half \in Nat \ {0} : B = half + half
    BY DEF EvenWords
  <1> HIDE DEF B
  <1>2. B \div 2 = half
    BY <1>1
  <1>3. B * B \in Nat /\ B * B > 0
    BY <1>1
  <1> QED
    BY <1>1, <1>2, <1>3 DEF Word, Top

LEMMA SmallFactor ==
    ASSUME NEW c \in Nat \ {0}, NEW k \in Int
    PROVE  /\ k * c \in Int
           /\ k >= 1 => k * c >= c
           /\ k <= -1 => k * c <= -c
  OBVIOUS

(* A remainder is what is left. *)
LEMMA Remainder ==
    ASSUME NEW c \in Nat \ {0}, NEW q \in Int, NEW rem \in 0 .. c - 1
    PROVE  (q * c + rem) % c = rem
  <1> DEFINE n == q * c + rem
             k == q - (n \div c)
  <1>1. n \in Int /\ n \div c \in Int /\ n % c \in 0 .. c - 1 /\ n = (n \div c) * c + (n % c)
    OBVIOUS
  <1>2. k \in Int /\ k * c = (n % c) - rem
    BY <1>1
  <1> HIDE DEF k
  <1>3. k = 0
    BY <1>1, <1>2, SmallFactor
  <1> QED
    BY <1>1, <1>2, <1>3

LEMMA AsProduct ==
    ASSUME NEW c \in Nat \ {0}, NEW n \in Nat
    PROVE  n \div c \in Nat /\ n % c \in 0 .. c - 1 /\ n = (n \div c) * c + (n % c)
  OBVIOUS

(* Two words make one number. *)
LEMMA SplitExact ==
    ASSUME EvenWords, NEW n \in Nat
    PROVE  /\ Split(n) \in U64
           /\ ValueOf(Split(n)) = n % (B * B)
  <1>1. B \in Nat \ {0} /\ B * B \in Nat \ {0}
    BY BIs
  <1> DEFINE q == n \div B
             low == n % B
             mid == q % B
             top == q \div B
  <1> HIDE DEF B
  <1>2. q \in Nat /\ low \in 0 .. B - 1 /\ n = q * B + low
    BY <1>1, AsProduct
  <1> HIDE DEF q, low
  <1>3. top \in Nat /\ mid \in 0 .. B - 1 /\ q = top * B + mid
    BY <1>1, <1>2, AsProduct
  <1>4. Split(n) = [MSW |-> mid, LSW |-> low]
    BY DEF Split, q, low
  <1> HIDE DEF mid, top
  <1>5. mid * B + low \in 0 .. B * B - 1
    <2>1. mid * B >= 0 /\ (B - 1 - mid) * B >= 0 /\ (B - 1 - mid) * B = B * B - B - mid * B
      BY <1>1, <1>3
    <2>2. mid * B \in Int
      BY <1>1, <1>3
    <2> QED
      BY <1>1, <1>2, <2>1, <2>2
  <1>6. n = top * (B * B) + (mid * B + low)
    <2>1. (top * B + mid) * B = top * (B * B) + mid * B
      BY <1>1, <1>3
    <2> QED
      BY <1>1, <1>2, <1>3, <2>1
  <1>7. n % (B * B) = mid * B + low
    <2> DEFINE c == B * B
               rem == mid * B + low
    <2>1. c \in Nat \ {0} /\ rem \in 0 .. c - 1 /\ n = top * c + rem
      BY <1>1, <1>5, <1>6
    <2> HIDE DEF c, rem
    <2>2. n % c = rem
      BY <1>3, <2>1, Remainder
    <2> QED
      BY <2>2 DEF c, rem
  <1> QED
    BY <1>2, <1>3, <1>4, <1>7 DEF ValueOf, U64, Word

LEMMA ValueIs ==
    ASSUME EvenWords, NEW a \in U64
    PROVE  /\ a.MSW \in Word /\ a.LSW \in Word /\ a = [MSW |-> a.MSW, LSW |-> a.LSW]
           /\ ValueOf(a) \in 0 .. B * B - 1
           /\ (a.MSW + 1) * B = a.MSW * B + B /\ a.MSW * B \in Nat
           /\ a.MSW * B <= B * B - B
  <1>1. B \in Nat \ {0} /\ B * B \in Nat \ {0}
    BY BIs
  <1>2. a.MSW \in Word /\ a.LSW \in Word /\ a = [MSW |-> a.MSW, LSW |-> a.LSW]
    BY DEF U64
  <1> DEFINE m == a.MSW
             k == a.LSW
  <1>3. m \in 0 .. B - 1 /\ k \in 0 .. B - 1
    BY <1>2 DEF Word
  <1> HIDE DEF m, k, B
  <1>4. m * B \in Nat /\ (m + 1) * B = m * B + B
    BY <1>1, <1>3
  <1>5. m * B <= B * B - B
    <2>1. (B - 1 - m) * B >= 0 /\ (B - 1 - m) * B = B * B - B - m * B
      BY <1>1, <1>3
    <2> QED
      BY <1>1, <1>4, <2>1
  <1>6. m * B + k \in 0 .. B * B - 1
    BY <1>1, <1>3, <1>4, <1>5
  <1> QED
    BY <1>2, <1>4, <1>5, <1>6 DEF ValueOf, m, k

(* os_i64_addU32 looks for the carry in the top bits of the words and of   *)
(* their sum.                                                              *)
LEMMA CarryExact ==
    ASSUME EvenWords, NEW u \in Word, NEW w \in Word
    PROVE  /\ Carry(u, w) <=> u + w >= B
           /\ (u + w) % B = IF u + w >= B THEN u + w - B ELSE u + w
  <1>1. B \in Nat \ {0} /\ u \in 0 .. B - 1 /\ w \in 0 .. B - 1
    BY BIs DEF Word
  <1>2. /\ Top(u) <=> u + u >= B
        /\ Top(w) <=> w + w >= B
    BY BIs
  <1> DEFINE sum == (u + w) % B
  <1>3. sum = IF u + w >= B THEN u + w - B ELSE u + w
    <2> HIDE DEF B
    <2>1. CASE u + w >= B
      <3>1. u + w - B \in 0 .. B - 1 /\ u + w = 1 * B + (u + w - B)
        BY <1>1, <2>1
      <3> QED
        BY <1>1, <2>1, <3>1, Remainder
    <2>2. CASE u + w < B
      <3>1. u + w \in 0 .. B - 1 /\ u + w = 0 * B + (u + w)
        BY <1>1, <2>2
      <3> QED
        BY <1>1, <2>2, <3>1, Remainder
    <2> QED
      BY <1>1, <2>1, <2>2
  <1>4. sum \in Word
    BY <1>1, <1>3 DEF Word
  <1>5. Top(sum) <=> sum + sum >= B
    BY <1>4, BIs
  <1>6. Carry(u, w) <=> (Top(u) /\ Top(w)) \/ ((Top(u) \/ Top(w)) /\ ~Top(sum))
    BY DEF Carry
  <1> HIDE DEF sum, B
  <1> QED
    BY <1>1, <1>2, <1>3, <1>5, <1>6 DEF sum

LEMMA AddWordExact ==
    ASSUME EvenWords, NEW a \in U64, NEW w \in Word
    PROVE  ValueOf(os_i64_addU32(a, w)) = (ValueOf(a) + w) % (B * B)
  <1> DEFINE m == a.MSW
             k == a.LSW
             c == B * B
             high == (m + (IF Carry(k, w) THEN 1 ELSE 0)) % B
             low == (k + w) % B
  <1>1. /\ B \in Nat \ {0} /\ c \in Nat \ {0} /\ m \in 0 .. B - 1 /\ k \in 0 .. B - 1 /\ w \in 0 .. B - 1
        /\ m * B \in Nat /\ (m + 1) * B = m * B + B /\ m * B <= c - B
    BY BIs, ValueIs DEF Word
  <1>2. (Carry(k, w) <=> k + w >= B) /\ low = IF k + w >= B THEN k + w - B ELSE k + w
    BY CarryExact, ValueIs
  <1>3. ValueOf(a) = m * B + k /\ ValueOf(os_i64_addU32(a, w)) = high * B + low
    BY DEF ValueOf, os_i64_addU32
  <1> DEFINE n == m * B + k + w
  <1>4. ValueOf(a) + w = n
    BY <1>1, <1>3
  <1>5. high = IF k + w < B THEN m ELSE IF m + 1 < B THEN m + 1 ELSE 0
    <2> HIDE DEF B, m, k
    <2>1. CASE k + w < B
      <3>1. high = (0 * B + m) % B
        BY <1>1, <1>2, <2>1
      <3> QED
        BY <1>1, <2>1, <3>1, Remainder
    <2>2. CASE k + w >= B /\ m + 1 < B
      <3>1. high = (0 * B + (m + 1)) % B /\ m + 1 \in 0 .. B - 1
        BY <1>1, <1>2, <2>2
      <3> QED
        BY <1>1, <2>2, <3>1, Remainder
    <2>3. CASE k + w >= B /\ m + 1 = B
      <3>1. high = B % B /\ B = 1 * B + 0 /\ 0 \in 0 .. B - 1
        BY <1>1, <1>2, <2>3
      <3> QED
        BY <1>1, <2>3, <3>1, Remainder
    <2> QED
      BY <1>1, <2>1, <2>2, <2>3
  <1> HIDE DEF high, low, m, k, c, B
  <1>6. high * B + low = IF n < c THEN n ELSE n - c
    <2>1. CASE k + w < B
      BY <1>1, <1>2, <1>5, <2>1
    <2>2. CASE k + w >= B /\ m + 1 < B
      <3>1. m + 1 \in 0 .. B - 1 /\ (B - 1 - (m + 1)) * B >= 0
        BY <1>1, <2>2
      <3>2. (B - 1 - (m + 1)) * B = B * B - B - (m + 1) * B
        BY <1>1
      <3>3. (m + 1) * B <= c - B
        BY <1>1, <3>1, <3>2 DEF c
      <3> QED
        BY <1>1, <1>2, <1>5, <2>2, <3>3
    <2>3. CASE k + w >= B /\ m + 1 = B
      <3>1. m * B = c - B /\ high * B = 0
        BY <1>1, <1>5, <2>3 DEF c
      <3> QED
        BY <1>1, <1>2, <2>3, <3>1
    <2> QED
      BY <1>1, <2>1, <2>2, <2>3
  <1>7. n % c = IF n < c THEN n ELSE n - c
    <2>1. CASE n < c
      <3>1. n \in 0 .. c - 1 /\ n = 0 * c + n
        BY <1>1, <2>1
      <3> QED
        BY <1>1, <2>1, <3>1, Remainder
    <2>2. CASE n >= c
      <3>1. n - c \in 0 .. c - 1 /\ n = 1 * c + (n - c)
        BY <1>1, <2>2
      <3> QED
        BY <1>1, <2>2, <3>1, Remainder
    <2> QED
      BY <1>1, <2>1, <2>2
  <1> QED
    BY <1>3, <1>4, <1>6, <1>7 DEF c

LEMMA SubtractExact ==
    ASSUME EvenWords, NEW a \in U64, NEW b \in U64
    PROVE  ValueOf(os_i64_sub(a, b)) = (ValueOf(a) - ValueOf(b)) % (B * B)
  <1> DEFINE m == a.MSW
             k == a.LSW
             p == b.MSW
             r == b.LSW
             c == B * B
             borrow == IF k < r THEN 1 ELSE 0
             high == (m - p - borrow) % B
             low == (k - r) % B
  <1>1. /\ B \in Nat \ {0} /\ c \in Nat \ {0}
        /\ m \in 0 .. B - 1 /\ k \in 0 .. B - 1 /\ p \in 0 .. B - 1 /\ r \in 0 .. B - 1
    BY BIs, ValueIs DEF Word
  <1>2. /\ ValueOf(a) = m * B + k /\ ValueOf(b) = p * B + r
        /\ ValueOf(os_i64_sub(a, b)) = high * B + low
        /\ ValueOf(a) \in 0 .. c - 1 /\ ValueOf(b) \in 0 .. c - 1
    BY ValueIs DEF ValueOf, os_i64_sub
  <1> HIDE DEF B, c, m, k, p, r
  <1>3. low = k - r + borrow * B
    <2>1. k - r + borrow * B \in 0 .. B - 1 /\ k - r = (-borrow) * B + (k - r + borrow * B)
      BY <1>1
    <2> QED
      BY <1>1, <2>1, Remainder
  <1> DEFINE over == IF m - p - borrow < 0 THEN 1 ELSE 0
  <1>4. high = m - p - borrow + over * B
    <2>1. m - p - borrow + over * B \in 0 .. B - 1
          /\ m - p - borrow = (-over) * B + (m - p - borrow + over * B)
      BY <1>1
    <2> QED
      BY <1>1, <2>1, Remainder
  <1>5. borrow \in {0, 1} /\ over \in {0, 1}
    OBVIOUS
  <1>6. high \in 0 .. B - 1 /\ low \in 0 .. B - 1
    BY <1>1, <1>3, <1>4
  <1> HIDE DEF high, low, borrow, over
  <1> DEFINE n == (m * B + k) - (p * B + r)
  <1>7. high * B + low = n + over * c
    <2>1. (m - p - borrow + over * B) * B = m * B - p * B - borrow * B + over * (B * B)
      BY <1>1, <1>5
    <2> QED
      BY <1>1, <1>3, <1>4, <1>5, <2>1 DEF c
  <1>8. high * B + low \in 0 .. c - 1
    <2>1. high * B >= 0 /\ (B - 1 - high) * B >= 0 /\ (B - 1 - high) * B = B * B - B - high * B
      BY <1>1, <1>6
    <2>2. high * B \in Int
      BY <1>1, <1>6
    <2> QED
      BY <1>1, <1>6, <2>1, <2>2 DEF c
  <1>9. n = (-over) * c + (high * B + low)
    BY <1>1, <1>5, <1>7
  <1>10. n % c = high * B + low
    <2> DEFINE rem == high * B + low
    <2>1. rem \in 0 .. c - 1 /\ n = (-over) * c + rem /\ -over \in Int
      BY <1>5, <1>8, <1>9
    <2> HIDE DEF rem, n
    <2>2. n % c = rem
      BY <1>1, <2>1, Remainder
    <2> QED
      BY <2>2 DEF rem
  <1> QED
    BY <1>2, <1>10 DEF c

(* The two words behave like the number they stand for, modulo 2^64: sums, *)
(* differences, products and quotients are exact for every pair of numbers *)
(* and every even size of a word.                                          *)
THEOREM WordsCompute ==
    ASSUME EvenWords, NEW a \in U64, NEW b \in U64, NEW w \in Word
    PROVE  /\ ValueOf(os_i64_add(a, b)) = (ValueOf(a) + ValueOf(b)) % (B * B)
           /\ ValueOf(os_i64_addU32(a, w)) = (ValueOf(a) + w) % (B * B)
           /\ ValueOf(os_i64_sub(a, b)) = (ValueOf(a) - ValueOf(b)) % (B * B)
           /\ ValueOf(os_i64_subU32(a, w)) = (ValueOf(a) - w) % (B * B)
           /\ ValueOf(os_i64_mul(a, b)) = (ValueOf(a) * ValueOf(b)) % (B * B)
           /\ ValueOf(os_i64_div(a, b)) = IF ValueOf(b) = 0 THEN 0 ELSE ValueOf(a) \div ValueOf(b)
  <1> DEFINE v == ValueOf(a)
             u == ValueOf(b)
             c == B * B
  <1>1. v \in 0 .. c - 1 /\ u \in 0 .. c - 1 /\ c \in Nat \ {0} /\ B \in Nat \ {0}
    BY BIs, ValueIs
  <1>2. v + u \in Nat /\ v * u \in Nat
    <2> HIDE DEF v, u, c
    <2> QED
      BY <1>1
  <1>3. ValueOf(os_i64_add(a, b)) = (v + u) % c /\ ValueOf(os_i64_mul(a, b)) = (v * u) % c
    <2> HIDE DEF v, u
    <2>1. ValueOf(Split(v + u)) = (v + u) % c /\ ValueOf(Split(v * u)) = (v * u) % c
      BY <1>2, SplitExact
    <2> QED
      BY <2>1 DEF os_i64_add, os_i64_mul, v, u
  <1>4. ValueOf(os_i64_subU32(a, w)) = (v - w) % c
    <2> DEFINE d == [MSW |-> 0, LSW |-> w]
    <2>1. d \in U64 /\ ValueOf(d) = w
      BY <1>1, BIs DEF U64, Word, ValueOf
    <2> HIDE DEF d
    <2>2. ValueOf(os_i64_sub(a, d)) = (v - w) % c
      BY <2>1, SubtractExact
    <2> QED
      BY <2>2 DEF os_i64_subU32, d
  <1>5. os_i64_is_zero(b) <=> u = 0
    <2>1. b.MSW \in Nat /\ b.LSW \in Nat /\ u = b.MSW * B + b.LSW /\ b.MSW * B \in Nat
      BY ValueIs, BIs DEF ValueOf
    <2>2. b.MSW # 0 => b.MSW * B > 0
      <3> HIDE DEF B
      <3> QED
        BY <1>1, <2>1
    <2> QED
      BY <1>1, <2>1, <2>2 DEF os_i64_is_zero
  <1>6. ValueOf(os_i64_div(a, b)) = IF u = 0 THEN 0 ELSE v \div u
    <2>1. CASE u = 0
      <3>1. ValueOf(Split(0)) = 0 % c /\ 0 = 0 * c + 0 /\ 0 \in 0 .. c - 1
        BY <1>1, SplitExact
      <3>2. 0 % c = 0
        BY <1>1
      <3> QED
        BY <1>5, <2>1, <3>1, <3>2 DEF os_i64_div
    <2>2. CASE u # 0
      <3> DEFINE q == v \div u
      <3>1. q \in Nat /\ q \in 0 .. c - 1
        <4> HIDE DEF v, u, c
        <4>1. u \in Nat \ {0} /\ v \in Nat
          BY <1>1, <2>2
        <4>2. q \in Nat /\ v % u \in 0 .. u - 1 /\ v = q * u + (v % u)
          BY <4>1, AsProduct
        <4>3. q * u >= q
          BY <4>1, <4>2
        <4> HIDE DEF q
        <4> QED
          BY <1>1, <4>1, <4>2, <4>3
      <3> HIDE DEF q
      <3>2. ValueOf(Split(q)) = q % c
        BY <3>1, SplitExact
      <3>3. q % c = q
        <4>1. q = 0 * c + q
          BY <1>1, <3>1
        <4> QED
          BY <1>1, <3>1, <4>1, Remainder
      <3> QED
        BY <1>5, <2>2, <3>2, <3>3 DEF os_i64_div, q
    <2> QED
      BY <2>1, <2>2
  <1> QED
    BY <1>3, <1>4, <1>6, AddWordExact, SubtractExact

(* The comparisons of two words compare the numbers.                       *)
THEOREM WordsCompare ==
    ASSUME EvenWords, NEW a \in U64, NEW b \in U64
    PROVE  /\ os_i64_equal(a, b) <=> ValueOf(a) = ValueOf(b)
           /\ os_i64_greater(a, b) <=> ValueOf(a) > ValueOf(b)
           /\ os_i64_less(a, b) <=> ValueOf(a) < ValueOf(b)
           /\ os_i64_greater_or_equal(a, b) <=> ValueOf(a) >= ValueOf(b)
           /\ os_i64_less_or_equal(a, b) <=> ValueOf(a) <= ValueOf(b)
           /\ os_i64_is_zero(a) <=> ValueOf(a) = 0
  <1> DEFINE m == a.MSW
             k == a.LSW
             p == b.MSW
             r == b.LSW
  <1>1. /\ B \in Nat \ {0} /\ ValueOf(a) = m * B + k /\ ValueOf(b) = p * B + r
        /\ m \in 0 .. B - 1 /\ k \in 0 .. B - 1 /\ p \in 0 .. B - 1 /\ r \in 0 .. B - 1
    BY BIs, ValueIs DEF ValueOf, Word
  <1> HIDE DEF m, k, p, r, B
  <1>2. m * B \in Int /\ p * B \in Int /\ (m < p => m * B + B <= p * B) /\ (p < m => p * B + B <= m * B)
    <2>1. m * B \in Int /\ p * B \in Int /\ (p - m) * B = p * B - m * B
          /\ (m - p) * B = m * B - p * B
      BY <1>1
    <2>2. (p - m >= 1 => (p - m) * B >= B) /\ (m - p >= 1 => (m - p) * B >= B)
      BY <1>1, SmallFactor
    <2> QED
      BY <1>1, <2>1, <2>2
  <1>3. m = 0 => m * B = 0
    BY <1>1
  <1>4. m # 0 => m * B >= B
    BY <1>1, SmallFactor
  <1>5. m = p => m * B = p * B
    OBVIOUS
  <1>6. /\ os_i64_equal(a, b) <=> m = p /\ k = r
        /\ os_i64_greater(a, b) <=> m > p \/ (m = p /\ k > r)
        /\ os_i64_less(a, b) <=> m < p \/ (m = p /\ k < r)
        /\ os_i64_greater_or_equal(a, b) <=> m > p \/ (m = p /\ k >= r)
        /\ os_i64_less_or_equal(a, b) <=> m < p \/ (m = p /\ k <= r)
        /\ os_i64_is_zero(a) <=> m = 0 /\ k = 0
    BY DEF os_i64_equal, os_i64_greater, os_i64_less, os_i64_greater_or_equal,
           os_i64_less_or_equal, os_i64_is_zero, m, k, p, r
  <1>7. CASE m < p
    BY <1>1, <1>2, <1>3, <1>4, <1>7, <1>6
  <1>8. CASE m > p
    BY <1>1, <1>2, <1>3, <1>4, <1>8, <1>6
  <1>9. CASE m = p
    BY <1>1, <1>2, <1>3, <1>4, <1>5, <1>9, <1>6
  <1> QED
    BY <1>1, <1>7, <1>8, <1>9

(* Adding an interval of less than half the modulus to a time gives the    *)
(* later of the two, and their difference is the interval, whether or not  *)
(* the sum went round.                                                     *)
THEOREM IntervalsExact ==
    ASSUME NEW c \in 0 .. TIME_CLOCKS_MODULO - 1, TIME_CLOCKS_MODULO \in Nat \ {0},
           NEW d \in Nat, d < TIME_CLOCKS_MODULO \div 2
    PROVE  /\ os_time_plus(c, d) \in 0 .. TIME_CLOCKS_MODULO - 1
           /\ os_time_after(os_time_plus(c, d), c)
           /\ d > 0 => ~os_time_after(c, os_time_plus(c, d))
           /\ os_time_minus(os_time_plus(c, d), c) = d
  <1> DEFINE M == TIME_CLOCKS_MODULO
             h == M \div 2
             later == os_time_plus(c, d)
  <1>1. M \in Nat \ {0} /\ c \in 0 .. M - 1 /\ d \in Nat /\ d < h /\ h \in Nat /\ h + h <= M
    OBVIOUS
  <1>2. later = (c + d) % M
    BY DEF os_time_plus
  <1> HIDE DEF M, h, later
  <1>3. later = IF c + d < M THEN c + d ELSE c + d - M
    <2>1. CASE c + d < M
      <3>1. c + d \in 0 .. M - 1 /\ later = (0 * M + (c + d)) % M
        BY <1>1, <1>2, <2>1
      <3> QED
        BY <1>1, <2>1, <3>1, Remainder
    <2>2. CASE c + d >= M
      <3>1. c + d - M \in 0 .. M - 1 /\ later = (1 * M + (c + d - M)) % M
        BY <1>1, <1>2, <2>2
      <3> QED
        BY <1>1, <2>2, <3>1, Remainder
    <2> QED
      BY <1>1, <2>1, <2>2
  <1>4. later \in 0 .. M - 1
    BY <1>1, <1>3
  <1>5. \A x, y \in Int :
            /\ os_time_after(x, y) <=> IF x - y < 0 THEN -(x - y) >= h ELSE x - y < h
            /\ os_time_minus(x, y) = IF x - y < 0 /\ os_time_after(x, y) THEN M + (x - y) ELSE x - y
    BY DEF os_time_after, os_time_minus, M, h
  <1>6. os_time_after(later, c)
    BY <1>1, <1>3, <1>4, <1>5
  <1>7. d > 0 => ~os_time_after(c, later)
    BY <1>1, <1>3, <1>4, <1>5
  <1>8. os_time_minus(later, c) = d
    BY <1>1, <1>3, <1>4, <1>5, <1>6
  <1> QED
    BY <1>4, <1>6, <1>7, <1>8 DEF M, later

(* The clock shows the ticks since it last started again, and a reading is *)
(* turned back with the start of the current epoch.                        *)
LEMMA ReadingIs ==
    ASSUME TIME_NOW_CONSTRAINTS \in Nat, TIME_NOW_CONSTRAINTS > 1,
           G_CLOCKS_PER_SECOND \in Nat \ {0}, NEW t \in Nat
    PROVE  /\ Epoch \in Nat \ {0} /\ TIME_CLOCKS_MODULO = Epoch + G_CLOCKS_PER_SECOND
           /\ t \div Epoch \in Nat /\ os_time_now(t) \in 0 .. Epoch - 1
           /\ t = (t \div Epoch) * Epoch + os_time_now(t)
           /\ \A clock \in Nat : os_clock_to_time(clock, t) = (t \div Epoch) * Epoch + clock
  <1> DEFINE k == TIME_NOW_CONSTRAINTS - 1
             c == G_CLOCKS_PER_SECOND
             e == Epoch
             s == t \div c
             r == t % c
             q == s \div k
             u == s % k
  <1>1. k \in Nat \ {0} /\ c \in Nat \ {0}
    OBVIOUS
  <1>2. e = k * c /\ TIME_CLOCKS_MODULO = (k + 1) * c
    BY DEF Epoch, TIME_CLOCKS_MODULO
  <1>3. os_time_now(t) = u * c + r
    BY DEF os_time_now
  <1>4. \A clock \in Nat : os_clock_to_time(clock, t) = (q * k + (clock \div c)) * c + (clock % c)
    BY DEF os_clock_to_time
  <1>5. s \in Nat /\ r \in 0 .. c - 1 /\ t = s * c + r
    BY <1>1, AsProduct
  <1> HIDE DEF k, c, e, s, r
  <1>6. q \in Nat /\ u \in 0 .. k - 1 /\ s = q * k + u
    BY <1>1, <1>5, AsProduct
  <1> HIDE DEF q, u
  <1>7. e \in Nat \ {0} /\ (k + 1) * c = e + c
    BY <1>1, <1>2
  <1>8. u * c \in Nat /\ u * c + c <= e
    <2>1. (k - 1 - u) * c >= 0 /\ (k - 1 - u) * c = e - c - u * c /\ u * c \in Nat
      BY <1>1, <1>2, <1>6
    <2> QED
      BY <1>1, <1>7, <2>1
  <1>9. u * c + r \in 0 .. e - 1
    BY <1>1, <1>5, <1>7, <1>8
  <1>10. q * e \in Nat /\ (q * k) * c = q * e
    BY <1>1, <1>2, <1>6, <1>7
  <1>11. t = q * e + (u * c + r)
    <2>1. s * c = (q * k) * c + u * c
      BY <1>1, <1>6
    <2> QED
      BY <1>5, <1>8, <1>10, <2>1
  <1>12. t \div e = q
    <2>1. /\ t \div e \in Nat /\ t % e \in 0 .. e - 1 /\ t = (t \div e) * e + (t % e)
      BY <1>7, AsProduct
    <2> DEFINE rem == u * c + r
               p == t \div e
               x == p - q
    <2>2. t % e = rem
      <3>1. q \in Int /\ rem \in 0 .. e - 1 /\ t % e = (q * e + rem) % e
        BY <1>6, <1>9, <1>11
      <3> HIDE DEF rem
      <3> QED
        BY <1>7, <3>1, Remainder
    <2> HIDE DEF p
    <2>3. x \in Int /\ x * e = 0
      <3>1. p \in Nat /\ p * e = q * e
        <4>1. t = p * e + rem /\ t = q * e + rem /\ rem \in Nat /\ p \in Nat
          BY <1>9, <1>11, <2>1, <2>2 DEF p
        <4> HIDE DEF rem
        <4>2. p * e \in Nat
          BY <1>7, <4>1
        <4> QED
          BY <1>10, <4>1, <4>2
      <3>2. x * e = p * e - q * e
        BY <1>6, <1>7, <3>1
      <3>3. x \in Int
        BY <1>6, <3>1
      <3> HIDE DEF x
      <3> QED
        BY <1>10, <3>1, <3>2, <3>3
    <2>4. x = 0
      <3> HIDE DEF x
      <3> QED
        BY <1>7, <2>3, SmallFactor
    <2> QED
      BY <1>6, <2>1, <2>4 DEF p
  <1>13. ASSUME NEW clock \in Nat PROVE os_clock_to_time(clock, t) = q * e + clock
    <2> DEFINE v == clock \div c
               w == clock % c
    <2>1. v \in Nat /\ w \in 0 .. c - 1 /\ clock = v * c + w
      BY <1>1, AsProduct
    <2>2. os_clock_to_time(clock, t) = (q * k + v) * c + w
      BY <1>4
    <2> HIDE DEF v, w
    <2>3. (q * k + v) * c = (q * k) * c + v * c /\ v * c \in Nat
      BY <1>1, <1>6, <2>1
    <2> QED
      BY <1>10, <2>1, <2>2, <2>3
  <1> QED
    BY <1>2, <1>3, <1>6, <1>7, <1>9, <1>11, <1>12, <1>13 DEF c, e

(* What the readings of the clock are good for: the later of two readings  *)
(* is the one that is after, the interval between them is exact as long as *)
(* the clock does not start again in between, a deadline is never later    *)
(* than what was asked for, and exact when it lies below the modulus.      *)
THEOREM ReadingsExact ==
    ASSUME TIME_NOW_CONSTRAINTS \in Nat, TIME_NOW_CONSTRAINTS > 1,
           G_CLOCKS_PER_SECOND \in Nat \ {0}, B \in Nat \ {0},
           NEW t \in Nat, NEW d \in Nat
    PROVE  ClockExact(t, d)
  <1> DEFINE M == TIME_CLOCKS_MODULO
             e == Epoch
             c == G_CLOCKS_PER_SECOND
             h == M \div 2
             then == os_time_now(t)
             now == os_time_now(t + d)
             q0 == t \div e
             q1 == (t + d) \div e
             deadline == os_clock_to_time(os_time_plus(then, d), t)
  <1>1. /\ e \in Nat \ {0} /\ c \in Nat \ {0} /\ M = e + c /\ t + d \in Nat
        /\ q0 \in Nat /\ then \in 0 .. e - 1 /\ t = q0 * e + then
        /\ q1 \in Nat /\ now \in 0 .. e - 1 /\ t + d = q1 * e + now
    BY ReadingIs
  <1>2. \A clock \in Nat : os_clock_to_time(clock, t) = q0 * e + clock
    BY ReadingIs
  <1>3. \A x, y \in Int :
            /\ os_time_after(x, y) <=> IF x - y < 0 THEN -(x - y) >= h ELSE x - y < h
            /\ os_time_minus(x, y) = IF x - y < 0 /\ os_time_after(x, y) THEN M + (x - y) ELSE x - y
    BY DEF os_time_after, os_time_minus
  <1>4. os_time_plus(then, d) = (then + d) % M
    BY DEF os_time_plus
  <1> HIDE DEF M, e, c, then, now, q0, q1
  <1>5. h \in Nat /\ h + h <= M /\ M <= h + h + 1 /\ M \in Nat \ {0}
    BY <1>1
  <1> HIDE DEF h
  <1>6. q0 * e \in Nat /\ q1 * e \in Nat
    BY <1>1
  <1>7. ASSUME d <= h - c - 1
        PROVE  /\ os_time_after(now, then) /\ (d > 0 => ~os_time_after(then, now))
               /\ os_time_minus(now, then) = d + IF q0 # q1 THEN c ELSE 0
    <2> DEFINE k == q1 - q0
    <2>1. k \in Int /\ k * e = then + d - now /\ d < e
      <3>1. k * e = q1 * e - q0 * e
        BY <1>1
      <3> QED
        BY <1>1, <1>5, <1>6, <1>7, <3>1
    <2>2. k = 0 \/ k = 1
      <3>1. (k - 1) * e = k * e - e
        BY <1>1
      <3> HIDE DEF k
      <3>2. k > -1
        BY <1>1, <2>1, SmallFactor
      <3>3. k - 1 < 1
        <4>1. k - 1 \in Int /\ (k - 1) * e < e
          BY <1>1, <2>1, <3>1
        <4> QED
          BY <1>1, <4>1, SmallFactor
      <3> QED
        BY <2>1, <3>2, <3>3
    <2>3. now = then + d - IF q0 # q1 THEN e ELSE 0
      <3>1. CASE k = 0
        BY <1>1, <2>1, <3>1
      <3>2. CASE k = 1
        BY <1>1, <2>1, <3>2
      <3> QED
        BY <2>2, <3>1, <3>2
    <2> HIDE DEF k
    <2>4. os_time_after(now, then)
      BY <1>1, <1>3, <1>5, <1>7, <2>1, <2>3
    <2>5. d > 0 => ~os_time_after(then, now)
      BY <1>1, <1>3, <1>5, <1>7, <2>1, <2>3
    <2>6. os_time_minus(now, then) = d + IF q0 # q1 THEN c ELSE 0
      BY <1>1, <1>3, <1>5, <1>7, <2>1, <2>3, <2>4
    <2> QED
      BY <2>4, <2>5, <2>6
  <1>8. ASSUME d < M
        PROVE  IF then + d < M THEN deadline = t + d ELSE deadline <= t
    <2>1. CASE then + d < M
      <3>1. then + d \in 0 .. M - 1 /\ then + d = 0 * M + (then + d)
        BY <1>1, <1>5, <2>1
      <3>2. os_time_plus(then, d) = then + d
        BY <1>4, <1>5, <3>1, Remainder
      <3>3. deadline = q0 * e + (then + d)
        BY <1>2, <3>1, <3>2
      <3> HIDE DEF deadline
      <3> QED
        BY <1>1, <1>6, <2>1, <3>3
    <2>2. CASE then + d >= M
      <3>1. then + d - M \in 0 .. M - 1 /\ os_time_plus(then, d) = (1 * M + (then + d - M)) % M
        BY <1>1, <1>4, <1>5, <1>8, <2>2
      <3>2. os_time_plus(then, d) = then + d - M
        BY <1>5, <3>1, Remainder
      <3>3. deadline = q0 * e + (then + d - M)
        BY <1>2, <3>1, <3>2
      <3> HIDE DEF deadline
      <3>4. deadline <= t
        BY <1>1, <1>5, <1>6, <1>8, <3>3
      <3>5. ~(then + d < M)
        BY <1>1, <1>5, <2>2
      <3> QED
        BY <3>4, <3>5
    <2> QED
      BY <1>1, <1>5, <2>1, <2>2
  <1>9. (OSAL_GetCpuStartInMsec(t + d) - OSAL_GetCpuStartInMsec(t)) % B = d % B
    <2>1. ASSUME NEW b \in Nat \ {0}
          PROVE  (((t + d) % b) - (t % b)) % b = d % b
      <3> DEFINE x == (t + d) \div b
                 y == t \div b
                 z == d \div b
                 u == (t + d) % b
                 v == t % b
                 w == d % b
      <3>1. x \in Nat /\ u \in 0 .. b - 1 /\ t + d = x * b + u
        BY <1>1, AsProduct
      <3>2. y \in Nat /\ v \in 0 .. b - 1 /\ t = y * b + v
        BY AsProduct
      <3>3. z \in Nat /\ w \in 0 .. b - 1 /\ d = z * b + w
        BY AsProduct
      <3> HIDE DEF x, y, z, u, v, w
      <3> DEFINE k == z - x + y
      <3>4. /\ x * b \in Nat /\ y * b \in Nat /\ z * b \in Nat
            /\ k \in Int /\ k * b = z * b - x * b + y * b
        <4>1. x * b \in Nat /\ y * b \in Nat /\ z * b \in Nat
          BY <3>1, <3>2, <3>3
        <4>2. k * b = z * b - x * b + y * b
          BY <3>1, <3>2, <3>3
        <4> QED
          BY <3>1, <3>2, <3>3, <4>1, <4>2
      <3> HIDE DEF k
      <3>5. u - v = k * b + w
        BY <3>1, <3>2, <3>3, <3>4
      <3>6. (u - v) % b = w
        BY <3>3, <3>4, <3>5, Remainder
      <3> QED
        <4>1. u = (t + d) % b /\ v = t % b /\ w = d % b
          BY DEF u, v, w
        <4> QED
          BY <3>6, <4>1
    <2>2. (((t + d) % B) - (t % B)) % B = d % B
      <3> HIDE DEF B
      <3> QED
        BY <2>1
    <2>3. /\ OSAL_GetCpuStartInMsec(t + d) = (t + d) % B
          /\ OSAL_GetCpuStartInMsec(t) = t % B
      BY DEF OSAL_GetCpuStartInMsec
    <2> QED
      BY <2>2, <2>3
  <1>10. ASSUME d < M
         PROVE  deadline <= t + d /\ (then + d < M => deadline = t + d)
    <2>1. deadline = t + d \/ deadline <= t
      BY <1>8, <1>10
    <2> HIDE DEF deadline
    <2>2. CASE deadline = t + d
      BY <2>2
    <2>3. CASE deadline <= t
      <3>1. deadline \in Int
        <4>1. os_time_plus(then, d) \in Nat
          BY <1>1, <1>4, <1>5
        <4> QED
          BY <1>1, <1>2, <1>6, <4>1 DEF deadline
      <3>2. deadline <= t + d
        BY <2>3, <3>1
      <3>3. then + d < M => deadline = t + d
        BY <1>8, <1>10 DEF deadline
      <3> QED
        BY <3>2, <3>3
    <2> QED
      BY <2>1, <2>2, <2>3
  <1>11. then + d < M => d < M
    BY <1>1, <1>5
  <1> QED
    BY <1>7, <1>9, <1>10, <1>11 DEF ClockExact, M, e, c, h, then, now, q0, q1
-----------------------------------------------------------------------------
(* What both lists of the library rest on: a loop that follows the links   *)
(* of a list meets its sequence, and ends.                                 *)
LEMMA CountTo ==
    ASSUME NEW n \in Nat
    PROVE  Cardinality(1 .. n) = n
  BY FS_Interval

LEMMA WalkMeets ==
    ASSUME NEW S, NEW q \in Seq(S), NEW link, NEW ends, NEW first,
           Cardinality(DOMAIN link) \in Nat, Len(q) <= Cardinality(DOMAIN link),
           \A i \in 1 .. Len(q) : q[i] \notin ends,
           NEW end \in ends,
           first = (IF q = <<>> THEN end ELSE q[1]),
           \A i \in 1 .. Len(q) : link[q[i]] = (IF i = Len(q) THEN end ELSE q[i + 1])
    PROVE  Walk(first, link, ends) = q
  <1> DEFINE most == Cardinality(DOMAIN link)
             step(f) == [k \in 1 .. most + 1 |->
                           IF k = 1 THEN first
                           ELSE IF f[k - 1] \in ends THEN f[k - 1] ELSE link[f[k - 1]]]
             at == CHOOSE f : f = step(f)
             met == {k \in 1 .. most : at[k] \notin ends}
             g == [k \in 1 .. most + 1 |-> IF k <= Len(q) THEN q[k] ELSE end]
  <1>1. Walk(first, link, ends) = [k \in 1 .. Cardinality(met) |-> at[k]]
    BY DEF Walk
  <1> HIDE DEF at
  <1>2. g = step(g)
    <2>1. ASSUME NEW k \in 1 .. most + 1 PROVE g[k] = step(g)[k]
      <3>0. Len(q) \in Nat /\ (q = <<>> <=> Len(q) = 0)
        OBVIOUS
      <3>1. CASE k = 1
        BY <3>0, <3>1
      <3>2. CASE k # 1 /\ k - 1 <= Len(q)
        <4>1. k - 1 \in 1 .. Len(q) /\ g[k - 1] = q[k - 1]
          BY <3>0, <3>2
        <4> HIDE DEF g
        <4>2. step(g)[k] = link[q[k - 1]]
          BY <3>2, <4>1
        <4>3. step(g)[k] = (IF k - 1 = Len(q) THEN end ELSE q[k])
          BY <4>1, <4>2
        <4> QED
          BY <4>3, <3>0, <4>1 DEF g
      <3>3. CASE k - 1 > Len(q)
        <4>1. g[k - 1] = end /\ g[k] = end /\ k # 1
          BY <3>0, <3>3
        <4> HIDE DEF g
        <4> QED
          BY <4>1
      <3> QED
        BY <3>0, <3>1, <3>2, <3>3
    <2> HIDE DEF step
    <2>2. DOMAIN g = 1 .. most + 1 /\ DOMAIN step(g) = 1 .. most + 1
      BY DEF step
    <2>3. g = [k \in DOMAIN g |-> g[k]] /\ step(g) = [k \in DOMAIN step(g) |-> step(g)[k]]
      BY DEF step
    <2> QED
      BY <2>1, <2>2, <2>3
  <1> HIDE DEF g
  <1>3. at = step(at)
    BY <1>2 DEF at
  <1>4. \A k \in 1 .. most + 1 : at[k] = g[k]
    <2> DEFINE wrong == {k \in 1 .. most + 1 : at[k] # g[k]}
    <2>1. SUFFICES ASSUME wrong # {} PROVE FALSE
      OBVIOUS
    <2>2. PICK k \in wrong : \A j \in wrong : k <= j
      <3>1. wrong \in SUBSET Nat
        OBVIOUS
      <3> HIDE DEF wrong
      <3> QED
        BY <2>1, <3>1, FirstOf
    <2>3. k # 1 => at[k - 1] = g[k - 1]
      BY <2>2
    <2>4. step(at)[k] = step(g)[k]
      BY <2>3
    <2> HIDE DEF step
    <2> QED
      BY <2>2, <2>4, <1>2, <1>3
  <1>5. met = 1 .. Len(q)
    <2>1. ASSUME NEW k \in 1 .. most PROVE at[k] \notin ends <=> k <= Len(q)
      BY <1>4 DEF g
    <2> QED
      BY <2>1
  <1>6. Cardinality(met) = Len(q)
    <2>1. Len(q) \in Nat
      OBVIOUS
    <2> HIDE DEF met
    <2> QED
      BY <1>5, <2>1, CountTo
  <1>7. \A k \in 1 .. Len(q) : at[k] = q[k]
    BY <1>4 DEF g
  <1> HIDE DEF met
  <1>8. q = [k \in 1 .. Len(q) |-> q[k]]
    OBVIOUS
  <1> QED
    BY <1>1, <1>6, <1>7, <1>8

-----------------------------------------------------------------------------
(* What is at place i of a list, and what is met past its ends.            *)
At(q, i, end) == IF i \in 1 .. Len(q) THEN q[i] ELSE end

(* The links of both kinds lead along q, and past its ends to end.         *)
Linking(q, end, nx, pv) ==
    /\ \A i, j \in 1 .. Len(q) : q[i] = q[j] => i = j
    /\ \A i \in 1 .. Len(q) : /\ nx[q[i]] = At(q, i + 1, end)
                             /\ pv[q[i]] = At(q, i - 1, end)

LEMMA InsertAtPlaces ==
    ASSUME NEW S, NEW q \in Seq(S), NEW n \in S, NEW i \in 1 .. Len(q) + 1
    PROVE  /\ InsertAt(q, i, n) \in Seq(S)
           /\ Len(InsertAt(q, i, n)) = Len(q) + 1
           /\ \A k \in 1 .. Len(q) + 1 :
                 InsertAt(q, i, n)[k] = IF k < i THEN q[k] ELSE IF k = i THEN n ELSE q[k - 1]
  <1>1. /\ SubSeq(q, 1, i - 1) \in Seq(S) /\ Len(SubSeq(q, 1, i - 1)) = i - 1
        /\ \A k \in 1 .. i - 1 : SubSeq(q, 1, i - 1)[k] = q[k]
    OBVIOUS
  <1>2. /\ SubSeq(q, i, Len(q)) \in Seq(S) /\ Len(SubSeq(q, i, Len(q))) = Len(q) - i + 1
        /\ \A k \in 1 .. Len(q) - i + 1 : SubSeq(q, i, Len(q))[k] = q[i + k - 1]
    OBVIOUS
  <1> DEFINE a == SubSeq(q, 1, i - 1)
             b == SubSeq(q, i, Len(q))
  <1>3. Len(q) \in Nat /\ <<n>> \in Seq(S) /\ InsertAt(q, i, n) = a \o <<n>> \o b
    BY DEF InsertAt
  <1> HIDE DEF a, b
  <1>4. /\ a \o <<n>> \in Seq(S) /\ Len(a \o <<n>>) = i
        /\ \A k \in 1 .. i : (a \o <<n>>)[k] = IF k < i THEN a[k] ELSE n
    BY <1>1, <1>3 DEF a
  <1>5. /\ a \o <<n>> \o b \in Seq(S) /\ Len(a \o <<n>> \o b) = Len(q) + 1
        /\ \A k \in 1 .. Len(q) + 1 :
              (a \o <<n>> \o b)[k] = IF k <= i THEN (a \o <<n>>)[k] ELSE b[k - i]
    <2> DEFINE c == a \o <<n>>
    <2>1. c \in Seq(S) /\ Len(c) = i /\ b \in Seq(S) /\ Len(b) = Len(q) - i + 1
      BY <1>2, <1>4 DEF b
    <2> HIDE DEF c
    <2>2. /\ c \o b \in Seq(S) /\ Len(c \o b) = Len(q) + 1
          /\ \A k \in 1 .. Len(q) + 1 : (c \o b)[k] = IF k <= i THEN c[k] ELSE b[k - i]
      <3>1. i \in Nat /\ i + (Len(q) - i + 1) = Len(q) + 1
        BY <1>3
      <3>2. c \o b \in Seq(S) /\ Len(c \o b) = Len(q) + 1
        <4>1. c \o b \in Seq(S) /\ Len(c \o b) = Len(c) + Len(b)
          BY <2>1
        <4> QED
          BY <2>1, <3>1, <4>1
      <3>3. \A k \in 1 .. Len(c) + Len(b) : (c \o b)[k] = IF k <= Len(c) THEN c[k] ELSE b[k - Len(c)]
        BY <2>1
      <3> QED
        BY <2>1, <3>1, <3>2, <3>3
    <2> QED
      BY <2>2 DEF c
  <1>6. ASSUME NEW k \in 1 .. Len(q) + 1
        PROVE  InsertAt(q, i, n)[k] = IF k < i THEN q[k] ELSE IF k = i THEN n ELSE q[k - 1]
    <2>1. CASE k <= i
      BY <1>1, <1>3, <1>4, <1>5, <2>1 DEF a
    <2>2. CASE k > i
      <3>1. k - i \in 1 .. Len(q) - i + 1 /\ i + (k - i) - 1 = k - 1
        BY <1>3, <2>2
      <3>2. InsertAt(q, i, n)[k] = b[k - i]
        BY <1>3, <1>5, <2>2
      <3>3. b[k - i] = q[k - 1]
        BY <1>2, <3>1 DEF b
      <3> QED
        BY <2>2, <3>2, <3>3
    <2>3. k <= i \/ k > i
      BY <1>3
    <2> QED
      BY <2>1, <2>2, <2>3
  <1> QED
    BY <1>3, <1>5, <1>6

LEMMA RemoveAtPlaces ==
    ASSUME NEW S, NEW q \in Seq(S), NEW i \in 1 .. Len(q)
    PROVE  /\ RemoveAt(q, i) \in Seq(S)
           /\ Len(RemoveAt(q, i)) = Len(q) - 1
           /\ \A k \in 1 .. Len(q) - 1 :
                 RemoveAt(q, i)[k] = IF k < i THEN q[k] ELSE q[k + 1]
  <1>1. /\ SubSeq(q, 1, i - 1) \in Seq(S) /\ Len(SubSeq(q, 1, i - 1)) = i - 1
        /\ \A k \in 1 .. i - 1 : SubSeq(q, 1, i - 1)[k] = q[k]
    OBVIOUS
  <1>2. /\ SubSeq(q, i + 1, Len(q)) \in Seq(S) /\ Len(SubSeq(q, i + 1, Len(q))) = Len(q) - i
        /\ \A k \in 1 .. Len(q) - i : SubSeq(q, i + 1, Len(q))[k] = q[i + k]
    OBVIOUS
  <1> DEFINE a == SubSeq(q, 1, i - 1)
             b == SubSeq(q, i + 1, Len(q))
  <1>3. Len(q) \in Nat /\ RemoveAt(q, i) = a \o b
    BY DEF RemoveAt
  <1> HIDE DEF a, b
  <1>4. /\ a \in Seq(S) /\ Len(a) = i - 1 /\ b \in Seq(S) /\ Len(b) = Len(q) - i
        /\ i - 1 + (Len(q) - i) = Len(q) - 1
    BY <1>1, <1>2, <1>3 DEF a, b
  <1>5. /\ a \o b \in Seq(S) /\ Len(a \o b) = Len(q) - 1
        /\ \A k \in 1 .. Len(q) - 1 : (a \o b)[k] = IF k < i THEN a[k] ELSE b[k - i + 1]
    BY <1>3, <1>4
  <1>6. ASSUME NEW k \in 1 .. Len(q) - 1
        PROVE  RemoveAt(q, i)[k] = IF k < i THEN q[k] ELSE q[k + 1]
    <2>1. CASE k < i
      BY <1>1, <1>3, <1>5, <2>1 DEF a
    <2>2. CASE k >= i
      <3>1. k - i + 1 \in 1 .. Len(q) - i /\ i + (k - i + 1) = k + 1
        BY <1>3, <2>2
      <3>2. b[k - i + 1] = q[k + 1]
        BY <1>2, <3>1 DEF b
      <3> QED
        BY <1>3, <1>5, <2>2, <3>2
    <2>3. k < i \/ k >= i
      BY <1>3
    <2> QED
      BY <2>1, <2>2, <2>3
  <1> QED
    BY <1>3, <1>5, <1>6

(* A node has one place in a list, and to remove it is to remove that.     *)
LEMMA RemoveFirstIs ==
    ASSUME NEW S, NEW q \in Seq(S), NEW i \in 1 .. Len(q),
           \A j, k \in 1 .. Len(q) : q[j] = q[k] => j = k
    PROVE  RemoveFirst(q, q[i]) = RemoveAt(q, i)
  <1>1. {j \in 1 .. Len(q) : q[j] = q[i]} = {i}
    OBVIOUS
  <1>2. Min({i}) = i
    BY DEF Min
  <1>3. SelectInSeq(q, LAMBDA v : v = q[i]) = i
    BY <1>1, <1>2 DEF SelectInSeq
  <1> QED
    BY <1>3 DEF RemoveFirst

(* A new node is linked in by the links of its neighbours.                 *)
LEMMA LinksIn ==
    ASSUME NEW S, NEW end, end \notin S, NEW q \in Seq(S), NEW n \in S,
           NEW i \in 1 .. Len(q) + 1, NEW nx, NEW pv, NEW nx2, NEW pv2,
           Linking(q, end, nx, pv), \A j \in 1 .. Len(q) : q[j] # n,
           \A m \in S : /\ nx2[m] = (IF m = n THEN At(q, i, end)
                                     ELSE IF m = At(q, i - 1, end) THEN n ELSE nx[m])
                        /\ pv2[m] = (IF m = n THEN At(q, i - 1, end)
                                     ELSE IF m = At(q, i, end) THEN n ELSE pv[m])
    PROVE  Linking(InsertAt(q, i, n), end, nx2, pv2)
  <1> DEFINE r == InsertAt(q, i, n)
  <1>1. /\ Len(q) \in Nat /\ r \in Seq(S) /\ Len(r) = Len(q) + 1
        /\ \A k \in 1 .. Len(r) : r[k] = IF k < i THEN q[k] ELSE IF k = i THEN n ELSE q[k - 1]
    <2>1. Len(q) \in Nat
      OBVIOUS
    <2>2. /\ r \in Seq(S) /\ Len(r) = Len(q) + 1
          /\ \A k \in 1 .. Len(q) + 1 : r[k] = IF k < i THEN q[k] ELSE IF k = i THEN n ELSE q[k - 1]
      BY InsertAtPlaces
    <2> HIDE DEF r
    <2> QED
      BY <2>1, <2>2
  <1> HIDE DEF r
  <1>2. ASSUME NEW j \in 1 .. Len(r), NEW k \in 1 .. Len(r), r[j] = r[k]
        PROVE  j = k
    <2>1. \A x, y \in 1 .. Len(q) : q[x] = q[y] => x = y
      BY DEF Linking
    <2> DEFINE p(x) == IF x < i THEN x ELSE x - 1
    <2>2. \A x \in 1 .. Len(r) : x # i => p(x) \in 1 .. Len(q) /\ r[x] = q[p(x)] /\ r[x] # n
      BY <1>1
    <2>3. r[i] = n
      BY <1>1
    <2>4. CASE j = i \/ k = i
      BY <1>2, <2>2, <2>3, <2>4
    <2>5. CASE j # i /\ k # i
      <3>1. p(j) = p(k)
        <4>1. p(j) \in 1 .. Len(q) /\ p(k) \in 1 .. Len(q) /\ q[p(j)] = q[p(k)]
          BY <1>2, <2>2, <2>5
        <4> HIDE DEF p
        <4> QED
          BY <2>1, <4>1
      <3> QED
        BY <1>1, <2>5, <3>1
    <2> QED
      BY <2>4, <2>5
  <1>3. ASSUME NEW k \in Int
        PROVE  At(r, k, end) = IF k < i THEN At(q, k, end)
                               ELSE IF k = i THEN n ELSE At(q, k - 1, end)
    <2>1. CASE k < 1
      BY <1>1, <2>1 DEF At
    <2>2. CASE k > Len(q) + 1
      BY <1>1, <2>2 DEF At
    <2>3. CASE k \in 1 .. Len(q) + 1
      <3>1. At(r, k, end) = r[k]
        BY <1>1, <2>3 DEF At
      <3>2. k < i => At(q, k, end) = q[k]
        BY <1>1, <2>3 DEF At
      <3>3. k > i => At(q, k - 1, end) = q[k - 1]
        BY <1>1, <2>3 DEF At
      <3> QED
        BY <1>1, <2>3, <3>1, <3>2, <3>3
    <2> QED
      BY <1>1, <2>1, <2>2, <2>3
  <1>4. ASSUME NEW j \in 1 .. Len(q)
        PROVE  /\ q[j] \in S /\ q[j] # n
               /\ q[j] = At(q, i - 1, end) <=> j = i - 1
               /\ q[j] = At(q, i, end) <=> j = i
               /\ nx[q[j]] = At(q, j + 1, end) /\ pv[q[j]] = At(q, j - 1, end)
    <2>1. q[j] \in S /\ q[j] # n
      BY <1>1
    <2>2. q[j] = At(q, i - 1, end) <=> j = i - 1
      BY <1>1, <2>1 DEF At, Linking
    <2>3. q[j] = At(q, i, end) <=> j = i
      BY <1>1, <2>1 DEF At, Linking
    <2>4. nx[q[j]] = At(q, j + 1, end) /\ pv[q[j]] = At(q, j - 1, end)
      BY DEF Linking
    <2> QED
      BY <2>1, <2>2, <2>3, <2>4
  <1>5. ASSUME NEW k \in 1 .. Len(r)
        PROVE  nx2[r[k]] = At(r, k + 1, end) /\ pv2[r[k]] = At(r, k - 1, end)
    <2>1. CASE k = i
      <3>1. r[k] = n /\ nx2[n] = At(q, i, end) /\ pv2[n] = At(q, i - 1, end)
        BY <1>1, <2>1
      <3>2. At(r, k + 1, end) = At(q, i, end) /\ At(r, k - 1, end) = At(q, i - 1, end)
        <4>1. k + 1 \in Int /\ k - 1 \in Int /\ k + 1 > i /\ k - 1 < i /\ k + 1 - 1 = i
          BY <1>1, <2>1
        <4> QED
          BY <1>3, <2>1, <4>1
      <3> QED
        BY <3>1, <3>2
    <2>2. CASE k < i
      <3>1. k \in 1 .. Len(q) /\ r[k] = q[k]
        BY <1>1, <2>2
      <3>2. /\ nx2[r[k]] = IF k = i - 1 THEN n ELSE At(q, k + 1, end)
            /\ pv2[r[k]] = At(q, k - 1, end)
        <4>1. /\ q[k] \in S /\ q[k] # n /\ q[k] # At(q, i, end)
              /\ (q[k] = At(q, i - 1, end) <=> k = i - 1)
              /\ nx[q[k]] = At(q, k + 1, end) /\ pv[q[k]] = At(q, k - 1, end)
          BY <1>1, <1>4, <2>2, <3>1
        <4> QED
          BY <3>1, <4>1
      <3>3. /\ k + 1 \in Int /\ k - 1 \in Int /\ k - 1 < i
            /\ (k = i - 1 <=> k + 1 = i) /\ (k # i - 1 => k + 1 < i)
        BY <1>1, <2>2
      <3> QED
        BY <1>3, <3>2, <3>3
    <2>3. CASE k > i
      <3> DEFINE j == k - 1
      <3>1. j \in 1 .. Len(q) /\ r[k] = q[j] /\ j >= i
        BY <1>1, <2>3
      <3>2. /\ nx2[q[j]] = At(q, j + 1, end)
            /\ pv2[q[j]] = IF j = i THEN n ELSE At(q, j - 1, end)
        <4> HIDE DEF j
        <4>1. /\ q[j] \in S /\ q[j] # n /\ j # i - 1
              /\ q[j] # At(q, i - 1, end) /\ (q[j] = At(q, i, end) <=> j = i)
              /\ nx[q[j]] = At(q, j + 1, end) /\ pv[q[j]] = At(q, j - 1, end)
          BY <1>1, <1>4, <3>1
        <4> QED
          BY <4>1
      <3>3. /\ k + 1 \in Int /\ k - 1 \in Int /\ k + 1 > i /\ k + 1 - 1 = j + 1
            /\ k - 1 = j /\ j + 1 = k /\ (j # i => j > i)
        BY <1>1, <2>3
      <3>4. At(r, k + 1, end) = At(q, k + 1 - 1, end)
        BY <1>3, <3>3
      <3>5. At(r, k - 1, end) = IF k - 1 = i THEN n ELSE At(q, k - 1 - 1, end)
        BY <1>3, <3>1, <3>3
      <3> QED
        BY <3>1, <3>2, <3>3, <3>4, <3>5
    <2> QED
      BY <1>1, <2>1, <2>2, <2>3
  <1> QED
    BY <1>2, <1>5 DEF Linking, r

(* A node is taken out by linking its neighbours.                          *)
LEMMA LinksOut ==
    ASSUME NEW S, NEW end, end \notin S, NEW q \in Seq(S),
           NEW i \in 1 .. Len(q), NEW nx, NEW pv, NEW nx2, NEW pv2,
           Linking(q, end, nx, pv),
           \A m \in S \ {q[i]} :
              /\ nx2[m] = (IF m = At(q, i - 1, end) THEN At(q, i + 1, end) ELSE nx[m])
              /\ pv2[m] = (IF m = At(q, i + 1, end) THEN At(q, i - 1, end) ELSE pv[m])
    PROVE  Linking(RemoveAt(q, i), end, nx2, pv2)
  <1> DEFINE r == RemoveAt(q, i)
  <1>1. /\ Len(q) \in Nat /\ r \in Seq(S) /\ Len(r) = Len(q) - 1
        /\ \A k \in 1 .. Len(r) : r[k] = IF k < i THEN q[k] ELSE q[k + 1]
    <2>1. Len(q) \in Nat
      OBVIOUS
    <2> QED
      BY <2>1, RemoveAtPlaces
  <1> HIDE DEF r
  <1>2. ASSUME NEW j \in 1 .. Len(r), NEW k \in 1 .. Len(r), r[j] = r[k]
        PROVE  j = k
    <2>1. \A x, y \in 1 .. Len(q) : q[x] = q[y] => x = y
      BY DEF Linking
    <2> QED
      BY <1>1, <1>2, <2>1
  <1>3. ASSUME NEW k \in 1 .. Len(r)
        PROVE  nx2[r[k]] = At(r, k + 1, end) /\ pv2[r[k]] = At(r, k - 1, end)
    <2> DEFINE p == IF k < i THEN k ELSE k + 1
    <2>1. p \in 1 .. Len(q) /\ p # i /\ r[k] = q[p]
      BY <1>1
    <2>2. q[p] \in S \ {q[i]}
      BY <2>1 DEF Linking
    <2>3. q[p] = At(q, i - 1, end) <=> p = i - 1
      BY <2>1, <2>2 DEF At, Linking
    <2>4. q[p] = At(q, i + 1, end) <=> p = i + 1
      BY <2>1, <2>2 DEF At, Linking
    <2>5. nx2[r[k]] = IF p = i - 1 THEN At(q, i + 1, end) ELSE At(q, p + 1, end)
      BY <2>1, <2>2, <2>3 DEF Linking
    <2>6. pv2[r[k]] = IF p = i + 1 THEN At(q, i - 1, end) ELSE At(q, p - 1, end)
      BY <2>1, <2>2, <2>4 DEF Linking
    <2>7. nx2[r[k]] = At(r, k + 1, end)
      BY <1>1, <2>1, <2>5 DEF At
    <2>8. pv2[r[k]] = At(r, k - 1, end)
      BY <1>1, <2>1, <2>6 DEF At
    <2> QED
      BY <2>7, <2>8
  <1> QED
    BY <1>2, <1>3 DEF Linking, r

(* A list without repetitions is no longer than there are nodes.           *)
LEMMA ListIsShort ==
    ASSUME NEW S, IsFiniteSet(S), NEW q \in Seq(S),
           \A i, j \in 1 .. Len(q) : q[i] = q[j] => i = j
    PROVE  Cardinality(S) \in Nat /\ Len(q) <= Cardinality(S)
  <1>1. Len(q) \in Nat /\ DOMAIN q = 1 .. Len(q) /\ \A i \in 1 .. Len(q) : q[i] \in S
    OBVIOUS
  <1>2. q \in Injection(1 .. Len(q), S)
    <2>1. q \in [1 .. Len(q) -> S]
      OBVIOUS
    <2> QED
      BY <2>1 DEF Injection, IsInjective
  <1>3. Cardinality(1 .. Len(q)) <= Cardinality(S)
    BY <1>2, FS_Injection
  <1> QED
    BY <1>1, <1>3, CountTo, FS_CardinalityType

LEMMA ReversePlaces ==
    ASSUME NEW S, NEW q \in Seq(S)
    PROVE  /\ Reverse(q) \in Seq(S) /\ Len(Reverse(q)) = Len(q)
           /\ \A k \in 1 .. Len(q) : Reverse(q)[k] = q[Len(q) - k + 1]
  <1>1. Len(q) \in Nat /\ \A k \in 1 .. Len(q) : Len(q) - k + 1 \in 1 .. Len(q)
    OBVIOUS
  <1>2. Reverse(q) \in [1 .. Len(q) -> S]
    BY <1>1 DEF Reverse
  <1>3. Reverse(q) \in Seq(S) /\ Len(Reverse(q)) = Len(q)
    BY <1>1, <1>2, SeqDef, LenProperties
  <1>4. \A k \in 1 .. Len(q) : Reverse(q)[k] = q[Len(q) - k + 1]
    BY <1>1 DEF Reverse
  <1> QED
    BY <1>3, <1>4

(* What the loops over a list meet, from either of its ends.               *)
Walkable(S, q, ends, end, nx, pv) ==
    /\ q \in Seq(S) /\ IsFiniteSet(S) /\ end \in ends /\ S \cap ends = {}
    /\ IsFiniteSet(DOMAIN nx) /\ S \subseteq DOMAIN nx
    /\ IsFiniteSet(DOMAIN pv) /\ S \subseteq DOMAIN pv
    /\ Linking(q, end, nx, pv)

LEMMA WalkBothWays ==
    ASSUME NEW S, NEW q, NEW ends, NEW end, NEW nx, NEW pv, Walkable(S, q, ends, end, nx, pv)
    PROVE  /\ Walk(At(q, 1, end), nx, ends) = q
           /\ Walk(At(q, Len(q), end), pv, ends) = Reverse(q)
  <1>0. /\ q \in Seq(S) /\ IsFiniteSet(S) /\ end \in ends /\ \A m \in S : m \notin ends
        /\ IsFiniteSet(DOMAIN nx) /\ S \subseteq DOMAIN nx
        /\ IsFiniteSet(DOMAIN pv) /\ S \subseteq DOMAIN pv
        /\ Linking(q, end, nx, pv)
    BY DEF Walkable
  <1>1. /\ Len(q) \in Nat /\ (q = <<>> <=> Len(q) = 0)
        /\ \A i \in 1 .. Len(q) : q[i] \in S
    BY <1>0
  <1>2. Cardinality(S) \in Nat /\ Len(q) <= Cardinality(S)
    BY <1>0, ListIsShort DEF Linking
  <1>3. /\ Cardinality(DOMAIN nx) \in Nat /\ Cardinality(S) <= Cardinality(DOMAIN nx)
        /\ Cardinality(DOMAIN pv) \in Nat /\ Cardinality(S) <= Cardinality(DOMAIN pv)
    BY <1>0, FS_Subset, FS_CardinalityType
  <1>4. Len(q) <= Cardinality(DOMAIN nx) /\ Len(q) <= Cardinality(DOMAIN pv)
    BY <1>1, <1>2, <1>3
  <1>5. Walk(At(q, 1, end), nx, ends) = q
    <2>1. At(q, 1, end) = IF q = <<>> THEN end ELSE q[1]
      BY <1>1 DEF At
    <2>2. \A i \in 1 .. Len(q) : nx[q[i]] = IF i = Len(q) THEN end ELSE q[i + 1]
      BY <1>0, <1>1 DEF At, Linking
    <2>3. \A i \in 1 .. Len(q) : q[i] \notin ends
      BY <1>0, <1>1
    <2> QED
      BY <1>0, <1>3, <1>4, <2>1, <2>2, <2>3, WalkMeets
  <1>6. Walk(At(q, Len(q), end), pv, ends) = Reverse(q)
    <2> DEFINE r == Reverse(q)
    <2>1. /\ r \in Seq(S) /\ Len(r) = Len(q)
          /\ \A k \in 1 .. Len(q) : r[k] = q[Len(q) - k + 1]
      BY <1>0, ReversePlaces
    <2> HIDE DEF r
    <2>2. At(q, Len(q), end) = IF r = <<>> THEN end ELSE r[1]
      <3>1. r = <<>> <=> Len(q) = 0
        BY <2>1
      <3> QED
        BY <1>1, <2>1, <3>1 DEF At
    <2>3. ASSUME NEW i \in 1 .. Len(r) PROVE pv[r[i]] = IF i = Len(r) THEN end ELSE r[i + 1]
      <3> DEFINE j == Len(q) - i + 1
      <3>1. j \in 1 .. Len(q) /\ r[i] = q[j] /\ (i = Len(r) <=> j - 1 = 0)
        BY <1>1, <2>1
      <3>2. pv[q[j]] = At(q, j - 1, end)
        BY <1>0, <3>1 DEF Linking
      <3>3. i # Len(r) => j - 1 \in 1 .. Len(q) /\ r[i + 1] = q[j - 1]
        <4>1. ASSUME i # Len(r) PROVE i + 1 \in 1 .. Len(q) /\ Len(q) - (i + 1) + 1 = j - 1
          BY <1>1, <2>1, <4>1
        <4> QED
          BY <1>1, <2>1, <4>1
      <3> HIDE DEF j
      <3> QED
        BY <1>1, <3>1, <3>2, <3>3 DEF At
    <2>4. \A i \in 1 .. Len(r) : r[i] \notin ends
      BY <1>0, <2>1
    <2>5. Walk(At(q, Len(q), end), pv, ends) = r
      BY <1>0, <1>3, <1>4, <2>1, <2>2, <2>3, <2>4, WalkMeets
    <2> QED
      BY <2>5 DEF r
  <1> QED
    BY <1>5, <1>6

LEMMA InsertAtEnds ==
    ASSUME NEW S, NEW q \in Seq(S), NEW n \in S
    PROVE  /\ InsertAt(q, Len(q) + 1, n) = Append(q, n)
           /\ InsertAt(q, 1, n) = <<n>> \o q
  <1>1. Len(q) \in Nat /\ 1 \in 1 .. Len(q) + 1 /\ Len(q) + 1 \in 1 .. Len(q) + 1
    OBVIOUS
  <1>2. InsertAt(q, Len(q) + 1, n) = Append(q, n)
    <2> DEFINE r == InsertAt(q, Len(q) + 1, n)
               t == Append(q, n)
    <2>1. /\ r \in Seq(S) /\ Len(r) = Len(q) + 1
          /\ \A k \in 1 .. Len(q) + 1 : r[k] = IF k < Len(q) + 1 THEN q[k] ELSE n
      BY <1>1, InsertAtPlaces
    <2>2. /\ t \in Seq(S) /\ Len(t) = Len(q) + 1
          /\ \A k \in 1 .. Len(q) + 1 : t[k] = IF k < Len(q) + 1 THEN q[k] ELSE n
      BY <1>1
    <2> HIDE DEF r, t
    <2>3. r = t
      BY <2>1, <2>2, SeqEqual
    <2> QED
      BY <2>3 DEF r, t
  <1>3. InsertAt(q, 1, n) = <<n>> \o q
    <2> DEFINE r == InsertAt(q, 1, n)
               t == <<n>> \o q
    <2>1. /\ r \in Seq(S) /\ Len(r) = Len(q) + 1
          /\ \A k \in 1 .. Len(q) + 1 : r[k] = IF k = 1 THEN n ELSE q[k - 1]
      BY <1>1, InsertAtPlaces
    <2>2. /\ t \in Seq(S) /\ Len(t) = Len(q) + 1
          /\ \A k \in 1 .. Len(q) + 1 : t[k] = IF k = 1 THEN n ELSE q[k - 1]
      BY <1>1
    <2> HIDE DEF r, t
    <2>3. r = t
      BY <2>1, <2>2, SeqEqual
    <2> QED
      BY <2>3 DEF r, t
  <1> QED
    BY <1>2, <1>3

-----------------------------------------------------------------------------
(* The list of xlist.c.  The inductive invariant: there is a sequence that *)
(* the links, the two ends and the size all agree with.                    *)
LinksTyped == next \in [Nodes -> Nodes \cup {NULL}] /\ prev \in [Nodes -> Nodes \cup {NULL}]
IsList(q) ==
    /\ q \in Seq(Nodes) /\ Linking(q, NULL, next, prev)
    /\ head = At(q, 1, NULL) /\ tail = At(q, Len(q), NULL) /\ size = Len(q)
ListInv == LinksTyped /\ \E q \in Seq(Nodes) : IsList(q)

LEMMA WalkOfLinks ==
    ASSUME NEW nx \in [Nodes -> Nodes \cup {NULL}], NEW pv \in [Nodes -> Nodes \cup {NULL}],
           NEW q \in Seq(Nodes), Linking(q, NULL, nx, pv)
    PROVE  /\ Walk(At(q, 1, NULL), nx, {NULL}) = q
           /\ Walk(At(q, Len(q), NULL), pv, {NULL}) = Reverse(q)
  <1>1. Walkable(Nodes, q, {NULL}, NULL, nx, pv)
    BY NodesAssumption DEF NodesAssumption, Walkable
  <1> QED
    BY <1>1, WalkBothWays

LEMMA ListReads ==
    ASSUME LinksTyped, NEW q, IsList(q)
    PROVE  Forward = q /\ Backward = Reverse(q)
  BY WalkOfLinks DEF LinksTyped, IsList, Forward, Backward

LEMMA ListReadsNext ==
    ASSUME LinksTyped', NEW q, IsList(q)'
    PROVE  Forward' = q
  BY WalkOfLinks DEF LinksTyped, IsList, Forward

(* The links of a list lead to its nodes.                                  *)
LEMMA ListFacts ==
    ASSUME LinksTyped, NEW q, IsList(q)
    PROVE  /\ Len(q) \in Nat /\ q \in Seq(Nodes) /\ NULL \notin Nodes
           /\ \A i \in 1 .. Len(q) : q[i] \in Nodes
           /\ \A n \in Nodes : n \in InList <=> \E i \in 1 .. Len(q) : q[i] = n
           /\ \A i \in 1 .. Len(q) : /\ next[q[i]] = At(q, i + 1, NULL)
                                    /\ prev[q[i]] = At(q, i - 1, NULL)
           /\ \A i, j \in 1 .. Len(q) : q[i] = q[j] => i = j
  <1>1. Forward = q /\ q \in Seq(Nodes)
    BY ListReads DEF IsList
  <1>2. DOMAIN q = 1 .. Len(q)
    BY <1>1
  <1>3. InList = {q[i] : i \in 1 .. Len(q)}
    BY <1>1, <1>2 DEF InList, Range
  <1>4. /\ Len(q) \in Nat /\ \A i \in 1 .. Len(q) : q[i] \in Nodes
        /\ \A n \in Nodes : n \in InList <=> \E i \in 1 .. Len(q) : q[i] = n
    BY <1>1, <1>3
  <1> QED
    BY <1>1, <1>4, NodesAssumption DEF IsList, Linking, NodesAssumption

(* Linking a node in at place i makes the list with the node in place i.   *)
LEMMA ListInserts ==
    ASSUME LinksTyped, NEW q, IsList(q), NEW n \in Nodes, n \notin InList,
           NEW i \in 1 .. Len(q) + 1,
           next' = [m \in Nodes |-> IF m = n THEN At(q, i, NULL)
                                    ELSE IF m = At(q, i - 1, NULL) THEN n ELSE next[m]],
           prev' = [m \in Nodes |-> IF m = n THEN At(q, i - 1, NULL)
                                    ELSE IF m = At(q, i, NULL) THEN n ELSE prev[m]],
           head' = (IF i = 1 THEN n ELSE head),
           tail' = (IF i = Len(q) + 1 THEN n ELSE tail),
           size' = size + 1
    PROVE  ListInv' /\ Forward' = InsertAt(q, i, n)
  <1> DEFINE r == InsertAt(q, i, n)
  <1>1. /\ Len(q) \in Nat /\ q \in Seq(Nodes) /\ NULL \notin Nodes
        /\ \A j \in 1 .. Len(q) : q[j] \in Nodes /\ q[j] # n
    BY ListFacts
  <1>2. Linking(r, NULL, next', prev')
    <2>1. Linking(q, NULL, next, prev)
      BY DEF IsList
    <2>2. \A m \in Nodes : /\ next'[m] = (IF m = n THEN At(q, i, NULL)
                                    ELSE IF m = At(q, i - 1, NULL) THEN n ELSE next[m])
                            /\ prev'[m] = (IF m = n THEN At(q, i - 1, NULL)
                                    ELSE IF m = At(q, i, NULL) THEN n ELSE prev[m])
      OBVIOUS
    <2> QED
      BY <1>1, <2>1, <2>2, LinksIn
  <1>3. /\ r \in Seq(Nodes) /\ Len(r) = Len(q) + 1
        /\ \A k \in 1 .. Len(q) + 1 : r[k] = IF k < i THEN q[k] ELSE IF k = i THEN n ELSE q[k - 1]
    BY <1>1, InsertAtPlaces
  <1> HIDE DEF r
  <1>4. LinksTyped'
    <2>1. \A k : At(q, k, NULL) \in Nodes \cup {NULL}
      BY <1>1 DEF At
    <2> QED
      BY <2>1 DEF LinksTyped
  <1>5. head' = At(r, 1, NULL)
    BY <1>1, <1>3 DEF IsList, At
  <1>6. tail' = At(r, Len(r), NULL)
    <2>1. CASE i = Len(q) + 1
      BY <1>1, <1>3, <2>1 DEF At
    <2>2. CASE i # Len(q) + 1
      <3>1. tail' = At(q, Len(q), NULL) /\ Len(q) \in 1 .. Len(q) /\ i <= Len(q)
        BY <1>1, <2>2 DEF IsList
      <3>2. r[Len(q) + 1] = q[Len(q)]
        BY <1>1, <1>3, <3>1
      <3> QED
        BY <1>1, <1>3, <3>1, <3>2 DEF At
    <2> QED
      BY <2>1, <2>2
  <1>7. size' = Len(r)
    BY <1>3 DEF IsList
  <1>8. IsList(r)'
    BY <1>2, <1>3, <1>5, <1>6, <1>7 DEF IsList
  <1>9. Forward' = r
    BY <1>4, <1>8, ListReadsNext
  <1>10. ListInv'
    BY <1>3, <1>4, <1>8 DEF ListInv
  <1> QED
    BY <1>9, <1>10 DEF r

LEMMA PushBackAppends ==
    ASSUME LinksTyped, NEW q, IsList(q), NEW n \in Nodes, StdListPushBack(n)
    PROVE  ListInv' /\ Forward' = Append(q, n)
  <1> DEFINE i == Len(q) + 1
  <1>1. /\ Len(q) \in Nat /\ q \in Seq(Nodes) /\ NULL \notin Nodes /\ n \notin InList
        /\ \A j \in 1 .. Len(q) : q[j] \in Nodes
    BY ListFacts DEF StdListPushBack
  <1>2. i \in 1 .. Len(q) + 1 /\ At(q, i, NULL) = NULL /\ At(q, i - 1, NULL) = tail
    BY <1>1 DEF At, IsList
  <1>3. tail = NULL <=> i = 1
    BY <1>1 DEF At, IsList
  <1>4. /\ head' = (IF i = 1 THEN n ELSE head) /\ tail' = (IF i = Len(q) + 1 THEN n ELSE tail)
        /\ size' = size + 1
    BY <1>3 DEF StdListPushBack
  <1>5. next' = [m \in Nodes |-> IF m = n THEN At(q, i, NULL)
                                ELSE IF m = At(q, i - 1, NULL) THEN n ELSE next[m]]
    BY <1>2 DEF StdListPushBack
  <1>6. prev' = [m \in Nodes |-> IF m = n THEN At(q, i - 1, NULL)
                                ELSE IF m = At(q, i, NULL) THEN n ELSE prev[m]]
    BY <1>1, <1>2 DEF StdListPushBack, LinksTyped
  <1> HIDE DEF i
  <1>7. ListInv' /\ Forward' = InsertAt(q, i, n)
    BY <1>1, <1>2, <1>4, <1>5, <1>6, ListInserts
  <1> QED
    BY <1>1, <1>7, InsertAtEnds DEF i

LEMMA PushFrontPrepends ==
    ASSUME LinksTyped, NEW q, IsList(q), NEW n \in Nodes, StdListPushFront(n)
    PROVE  ListInv' /\ Forward' = <<n>> \o q
  <1>1. /\ Len(q) \in Nat /\ q \in Seq(Nodes) /\ NULL \notin Nodes /\ n \notin InList
        /\ \A j \in 1 .. Len(q) : q[j] \in Nodes
    BY ListFacts DEF StdListPushFront
  <1>2. 1 \in 1 .. Len(q) + 1 /\ At(q, 1, NULL) = head /\ At(q, 1 - 1, NULL) = NULL
    BY <1>1 DEF At, IsList
  <1>3. head = NULL <=> 1 = Len(q) + 1
    BY <1>1 DEF At, IsList
  <1>4. /\ head' = (IF 1 = 1 THEN n ELSE head) /\ tail' = (IF 1 = Len(q) + 1 THEN n ELSE tail)
        /\ size' = size + 1
    BY <1>3 DEF StdListPushFront
  <1>5. next' = [m \in Nodes |-> IF m = n THEN At(q, 1, NULL)
                                ELSE IF m = At(q, 1 - 1, NULL) THEN n ELSE next[m]]
    BY <1>1, <1>2 DEF StdListPushFront, LinksTyped
  <1>6. prev' = [m \in Nodes |-> IF m = n THEN At(q, 1 - 1, NULL)
                                ELSE IF m = At(q, 1, NULL) THEN n ELSE prev[m]]
    BY <1>2 DEF StdListPushFront
  <1>7. ListInv' /\ Forward' = InsertAt(q, 1, n)
    BY <1>1, <1>2, <1>4, <1>5, <1>6, ListInserts
  <1> QED
    BY <1>1, <1>7, InsertAtEnds

LEMMA InsertAfterInserts ==
    ASSUME LinksTyped, NEW q, IsList(q), NEW n \in Nodes, NEW p \in Nodes, StdListInsertAfter(p, n)
    PROVE  ListInv' /\ \E i \in DOMAIN q : q[i] = p /\ Forward' = InsertAt(q, i + 1, n)
  <1>1. /\ Len(q) \in Nat /\ q \in Seq(Nodes) /\ NULL \notin Nodes /\ n \notin InList
        /\ \A j \in 1 .. Len(q) : q[j] \in Nodes
    BY ListFacts DEF StdListInsertAfter
  <1>2. PICK j \in 1 .. Len(q) : q[j] = p
    BY ListFacts DEF StdListInsertAfter
  <1>3. q[j] # n /\ next[q[j]] = At(q, j + 1, NULL)
    BY <1>1, ListFacts
  <1> DEFINE i == j + 1
  <1>4. i \in 1 .. Len(q) + 1 /\ At(q, i, NULL) = next[p] /\ At(q, i - 1, NULL) = p /\ i # 1
    BY <1>1, <1>2, <1>3 DEF At
  <1>5. next[p] = NULL <=> i = Len(q) + 1
    BY <1>1, <1>2, <1>3 DEF At
  <1>6. /\ head' = (IF i = 1 THEN n ELSE head) /\ tail' = (IF i = Len(q) + 1 THEN n ELSE tail)
        /\ size' = size + 1
    BY <1>4, <1>5 DEF StdListInsertAfter
  <1>7. next' = [m \in Nodes |-> IF m = n THEN At(q, i, NULL)
                                ELSE IF m = At(q, i - 1, NULL) THEN n ELSE next[m]]
    BY <1>2, <1>3, <1>4 DEF StdListInsertAfter, LinksTyped
  <1>8. prev' = [m \in Nodes |-> IF m = n THEN At(q, i - 1, NULL)
                                ELSE IF m = At(q, i, NULL) THEN n ELSE prev[m]]
    BY <1>4 DEF StdListInsertAfter
  <1> HIDE DEF i
  <1>9. ListInv' /\ Forward' = InsertAt(q, i, n)
    BY <1>1, <1>4, <1>6, <1>7, <1>8, ListInserts
  <1> QED
    BY <1>1, <1>2, <1>9 DEF i

LEMMA RemoveRemoves ==
    ASSUME LinksTyped, NEW q, IsList(q), NEW n \in Nodes, StdListRemove(n)
    PROVE  ListInv' /\ Forward' = RemoveFirst(q, n)
  <1>1. /\ Len(q) \in Nat /\ q \in Seq(Nodes) /\ NULL \notin Nodes
        /\ \A j \in 1 .. Len(q) : q[j] \in Nodes
        /\ \A j, k \in 1 .. Len(q) : q[j] = q[k] => j = k
    BY ListFacts
  <1>2. PICK i \in 1 .. Len(q) : q[i] = n
    BY ListFacts DEF StdListRemove
  <1>3. next[n] = At(q, i + 1, NULL) /\ prev[n] = At(q, i - 1, NULL)
    BY <1>2, ListFacts
  <1> DEFINE r == RemoveAt(q, i)
  <1>4. Linking(r, NULL, next', prev')
    <2>1. Linking(q, NULL, next, prev)
      BY DEF IsList
    <2>2. \A m \in Nodes \ {q[i]} :
             /\ next'[m] = (IF m = At(q, i - 1, NULL) THEN At(q, i + 1, NULL) ELSE next[m])
             /\ prev'[m] = (IF m = At(q, i + 1, NULL) THEN At(q, i - 1, NULL) ELSE prev[m])
      BY <1>2, <1>3 DEF StdListRemove
    <2> QED
      BY <1>1, <2>1, <2>2, LinksOut
  <1>5. /\ r \in Seq(Nodes) /\ Len(r) = Len(q) - 1
        /\ \A k \in 1 .. Len(q) - 1 : r[k] = IF k < i THEN q[k] ELSE q[k + 1]
    BY <1>1, RemoveAtPlaces
  <1> HIDE DEF r
  <1>6. LinksTyped'
    <2>1. \A k : At(q, k, NULL) \in Nodes \cup {NULL}
      BY <1>1 DEF At
    <2> QED
      BY <1>3, <2>1 DEF LinksTyped, StdListRemove
  <1>7. head' = At(r, 1, NULL)
    <2>1. prev[n] = NULL <=> i = 1
      BY <1>1, <1>3 DEF At
    <2>2. head' = IF i = 1 THEN At(q, 2, NULL) ELSE At(q, 1, NULL)
      BY <1>3, <2>1 DEF StdListRemove, IsList
    <2> QED
      BY <1>1, <1>5, <2>2 DEF At
  <1>8. tail' = At(r, Len(r), NULL)
    <2>1. next[n] = NULL <=> i = Len(q)
      BY <1>1, <1>3 DEF At
    <2>2. tail' = IF i = Len(q) THEN At(q, Len(q) - 1, NULL) ELSE At(q, Len(q), NULL)
      BY <1>3, <2>1 DEF StdListRemove, IsList
    <2> QED
      BY <1>1, <1>5, <2>2 DEF At
  <1>9. size' = Len(r)
    BY <1>5 DEF IsList, StdListRemove
  <1>10. IsList(r)'
    BY <1>4, <1>5, <1>7, <1>8, <1>9 DEF IsList
  <1>11. Forward' = r
    BY <1>6, <1>10, ListReadsNext
  <1>12. ListInv'
    BY <1>5, <1>6, <1>10 DEF ListInv
  <1>13. r = RemoveFirst(q, n)
    BY <1>1, <1>2, RemoveFirstIs DEF r
  <1> QED
    BY <1>11, <1>12, <1>13

LEMMA ListStep ==
    ASSUME ListInv, [ListNext]_listVars
    PROVE  ListInv' /\ StepsLikeList
  <1>1. PICK q : LinksTyped /\ q \in Seq(Nodes) /\ IsList(q) /\ Forward = q
    BY ListReads DEF ListInv
  <1>2. StepsLikeList
    BY <1>1, PushBackAppends, PushFrontPrepends, InsertAfterInserts, RemoveRemoves
       DEF StepsLikeList
  <1>3. ListInv'
    <2>1. CASE ListNext
      BY <1>1, <2>1, PushBackAppends, PushFrontPrepends, InsertAfterInserts, RemoveRemoves
         DEF ListNext
    <2>2. CASE UNCHANGED listVars
      <3>1. LinksTyped' /\ IsList(q)'
        BY <1>1, <2>2 DEF LinksTyped, IsList, listVars
      <3> QED
        BY <1>1, <3>1 DEF ListInv
    <2> QED
      BY <2>1, <2>2
  <1> QED
    BY <1>2, <1>3

LEMMA ListStarts ==
    ASSUME ListInit
    PROVE  ListInv
  <1>1. LinksTyped
    BY DEF ListInit, LinksTyped
  <1>2. <<>> \in Seq(Nodes) /\ Len(<<>>) = 0 /\ 1 .. 0 = {}
    OBVIOUS
  <1>3. IsList(<<>>)
    BY <1>2 DEF ListInit, IsList, Linking, At
  <1> QED
    BY <1>1, <1>2, <1>3 DEF ListInv

LEMMA ListAgrees ==
    ASSUME ListInv
    PROVE  EndsAgree
  <1>1. PICK q : LinksTyped /\ IsList(q)
    BY DEF ListInv
  <1> QED
    BY <1>1, ListReads DEF EndsAgree, IsList

-----------------------------------------------------------------------------
(* The list of ctos.c, in the same way: past its ends is the head, whose   *)
(* own links lead to them.                                                 *)
RingTyped == /\ lnext \in [All -> All \cup {NULL}]
             /\ lprev \in [All -> All \cup {NULL}]
IsRing(q) ==
    /\ q \in Seq(Entries) /\ Linking(q, ListHead, lnext, lprev)
    /\ lnext[ListHead] = At(q, 1, ListHead) /\ lprev[ListHead] = At(q, Len(q), ListHead)
RingInv == RingTyped /\ \E q \in Seq(Entries) : IsRing(q)

LEMMA WalkOfRing ==
    ASSUME NEW nx \in [All -> All \cup {NULL}], NEW pv \in [All -> All \cup {NULL}],
           NEW q \in Seq(Entries), Linking(q, ListHead, nx, pv)
    PROVE  /\ Walk(At(q, 1, ListHead), nx, {ListHead, NULL}) = q
           /\ Walk(At(q, Len(q), ListHead), pv, {ListHead, NULL}) = Reverse(q)
  <1>1. /\ IsFiniteSet(Entries) /\ IsFiniteSet(All) /\ Entries \subseteq All
        /\ Entries \cap {ListHead, NULL} = {} /\ ListHead \in {ListHead, NULL}
    BY EntriesAssumption, FS_AddElement DEF EntriesAssumption, All
  <1>2. Walkable(Entries, q, {ListHead, NULL}, ListHead, nx, pv)
    BY <1>1 DEF Walkable
  <1> QED
    BY <1>2, WalkBothWays

LEMMA RingReads ==
    ASSUME RingTyped, NEW q, IsRing(q)
    PROVE  Round = q /\ RoundBack = Reverse(q)
  BY WalkOfRing DEF RingTyped, IsRing, Round, RoundBack

LEMMA RingReadsNext ==
    ASSUME RingTyped', NEW q, IsRing(q)'
    PROVE  Round' = q
  BY WalkOfRing DEF RingTyped, IsRing, Round

LEMMA RingFacts ==
    ASSUME RingTyped, NEW q, IsRing(q)
    PROVE  /\ Len(q) \in Nat /\ q \in Seq(Entries) /\ ListHead \notin Entries
           /\ \A i \in 1 .. Len(q) : q[i] \in Entries
           /\ \A e : e \in Linked <=> e = ListHead \/ \E i \in 1 .. Len(q) : q[i] = e
           /\ \A i \in 1 .. Len(q) : /\ lnext[q[i]] = At(q, i + 1, ListHead)
                                    /\ lprev[q[i]] = At(q, i - 1, ListHead)
           /\ \A i, j \in 1 .. Len(q) : q[i] = q[j] => i = j
  <1>1. Round = q /\ q \in Seq(Entries)
    BY RingReads DEF IsRing
  <1>2. DOMAIN q = 1 .. Len(q)
    BY <1>1
  <1>3. Linked = {q[i] : i \in 1 .. Len(q)} \cup {ListHead}
    BY <1>1, <1>2 DEF Linked, Range
  <1>4. /\ Len(q) \in Nat /\ \A i \in 1 .. Len(q) : q[i] \in Entries
        /\ \A e : e \in Linked <=> e = ListHead \/ \E i \in 1 .. Len(q) : q[i] = e
    BY <1>1, <1>3
  <1> QED
    BY <1>1, <1>4, EntriesAssumption DEF IsRing, Linking, EntriesAssumption

(* Linking an entry in between two neighbours puts it in its place.        *)
LEMMA RingInserts ==
    ASSUME RingTyped, NEW q, IsRing(q), NEW e \in Entries, e \notin Linked,
           NEW i \in 1 .. Len(q) + 1,
           lnext' = [lnext EXCEPT ![e] = At(q, i, ListHead), ![At(q, i - 1, ListHead)] = e],
           lprev' = [lprev EXCEPT ![e] = At(q, i - 1, ListHead), ![At(q, i, ListHead)] = e]
    PROVE  RingInv' /\ Round' = InsertAt(q, i, e)
  <1> DEFINE r == InsertAt(q, i, e)
             h == At(q, i - 1, ListHead)
             t == At(q, i, ListHead)
  <1>1. /\ Len(q) \in Nat /\ q \in Seq(Entries) /\ ListHead \notin Entries
        /\ \A j \in 1 .. Len(q) : q[j] \in Entries /\ q[j] # e
    BY RingFacts
  <1>2. h \in All /\ t \in All /\ e \in All /\ h # e /\ t # e
    BY <1>1 DEF At, All
  <1>3. (h = ListHead <=> i = 1) /\ (t = ListHead <=> i = Len(q) + 1)
    BY <1>1 DEF At
  <1> HIDE DEF h, t
  <1>4. /\ lnext' = [lnext EXCEPT ![e] = t, ![h] = e]
        /\ lprev' = [lprev EXCEPT ![e] = h, ![t] = e]
    BY DEF h, t
  <1>5. \A m \in All : /\ lnext'[m] = (IF m = e THEN t ELSE IF m = h THEN e ELSE lnext[m])
                       /\ lprev'[m] = (IF m = e THEN h ELSE IF m = t THEN e ELSE lprev[m])
    BY <1>2, <1>4 DEF RingTyped
  <1>6. Linking(r, ListHead, lnext', lprev')
    <2>1. Linking(q, ListHead, lnext, lprev)
      BY DEF IsRing
    <2>2. \A m \in Entries :
             /\ lnext'[m] = (IF m = e THEN At(q, i, ListHead)
                             ELSE IF m = At(q, i - 1, ListHead) THEN e ELSE lnext[m])
             /\ lprev'[m] = (IF m = e THEN At(q, i - 1, ListHead)
                             ELSE IF m = At(q, i, ListHead) THEN e ELSE lprev[m])
      BY <1>5 DEF All, h, t
    <2>3. \A j \in 1 .. Len(q) : q[j] # e
      BY <1>1
    <2> DEFINE nx == lnext'
               pv == lprev'
    <2> HIDE DEF nx, pv, r
    <2>4. \A m \in Entries :
             /\ nx[m] = (IF m = e THEN At(q, i, ListHead)
                         ELSE IF m = At(q, i - 1, ListHead) THEN e ELSE lnext[m])
             /\ pv[m] = (IF m = e THEN At(q, i - 1, ListHead)
                         ELSE IF m = At(q, i, ListHead) THEN e ELSE lprev[m])
      BY <2>2 DEF nx, pv
    <2>5. Linking(InsertAt(q, i, e), ListHead, nx, pv)
      BY <1>1, <2>1, <2>3, <2>4, LinksIn
    <2> QED
      BY <2>5 DEF nx, pv, r
  <1>7. /\ r \in Seq(Entries) /\ Len(r) = Len(q) + 1
        /\ \A k \in 1 .. Len(q) + 1 : r[k] = IF k < i THEN q[k] ELSE IF k = i THEN e ELSE q[k - 1]
    BY <1>1, InsertAtPlaces
  <1> HIDE DEF r
  <1>8. RingTyped'
    BY <1>2, <1>4 DEF RingTyped
  <1>9. lnext'[ListHead] = At(r, 1, ListHead)
    <2>1. lnext'[ListHead] = IF i = 1 THEN e ELSE At(q, 1, ListHead)
      BY <1>1, <1>3, <1>5 DEF IsRing, All
    <2> QED
      BY <1>1, <1>7, <2>1 DEF At
  <1>10. lprev'[ListHead] = At(r, Len(r), ListHead)
    <2>1. lprev'[ListHead] = IF i = Len(q) + 1 THEN e ELSE At(q, Len(q), ListHead)
      BY <1>1, <1>3, <1>5 DEF IsRing, All
    <2>2. CASE i = Len(q) + 1
      BY <1>1, <1>7, <2>1, <2>2 DEF At
    <2>3. CASE i # Len(q) + 1
      <3>1. Len(q) \in 1 .. Len(q) /\ i <= Len(q)
        BY <1>1, <2>3
      <3>2. r[Len(q) + 1] = q[Len(q)]
        BY <1>1, <1>7, <3>1
      <3> QED
        BY <1>1, <1>7, <2>1, <2>3, <3>1, <3>2 DEF At
    <2> QED
      BY <2>2, <2>3
  <1>11. IsRing(r)'
    BY <1>6, <1>7, <1>9, <1>10 DEF IsRing
  <1>12. Round' = r
    BY <1>8, <1>11, RingReadsNext
  <1>13. RingInv'
    BY <1>7, <1>8, <1>11 DEF RingInv
  <1> QED
    BY <1>12, <1>13 DEF r

(* Every linked entry, and the head, has a place before and after it.      *)
LEMMA AddInserts ==
    ASSUME RingTyped, NEW q, IsRing(q), NEW e \in Entries, NEW i \in 1 .. Len(q) + 1,
           os_list_add(e, At(q, i - 1, ListHead))
    PROVE  RingInv' /\ Round' = InsertAt(q, i, e)
  <1> DEFINE h == At(q, i - 1, ListHead)
  <1>1. lnext[h] = At(q, i, ListHead)
    <2>1. CASE i = 1
      <3>1. h = ListHead
        BY <2>1 DEF At
      <3> QED
        BY <2>1, <3>1 DEF IsRing
    <2>2. CASE i # 1
      <3>1. i - 1 \in 1 .. Len(q) /\ i - 1 + 1 = i
        BY <2>2, RingFacts
      <3>2. h = q[i - 1]
        BY <3>1 DEF At
      <3> HIDE DEF h
      <3> QED
        BY <3>1, <3>2, RingFacts
    <2> QED
      BY <2>1, <2>2
  <1>2. /\ e \notin Linked
        /\ lnext' = [lnext EXCEPT ![e] = lnext[h], ![h] = e]
        /\ lprev' = [lprev EXCEPT ![e] = h, ![lnext[h]] = e]
    BY DEF os_list_add
  <1> QED
    BY <1>1, <1>2, RingInserts

LEMMA AddTailInserts ==
    ASSUME RingTyped, NEW q, IsRing(q), NEW e \in Entries, NEW i \in 1 .. Len(q) + 1,
           os_list_add_tail(e, At(q, i, ListHead))
    PROVE  RingInv' /\ Round' = InsertAt(q, i, e)
  <1> DEFINE t == At(q, i, ListHead)
  <1>1. lprev[t] = At(q, i - 1, ListHead)
    <2>1. CASE i = Len(q) + 1
      <3>1. t = ListHead /\ i - 1 = Len(q)
        BY <2>1, RingFacts DEF At
      <3> QED
        BY <2>1, <3>1 DEF IsRing
    <2>2. CASE i # Len(q) + 1
      <3>1. i \in 1 .. Len(q)
        BY <2>2, RingFacts
      <3>2. t = q[i]
        BY <3>1 DEF At
      <3> HIDE DEF t
      <3> QED
        BY <3>1, <3>2, RingFacts
    <2> QED
      BY <2>1, <2>2
  <1>2. /\ e \notin Linked
        /\ lnext' = [lnext EXCEPT ![e] = t, ![lprev[t]] = e]
        /\ lprev' = [lprev EXCEPT ![e] = lprev[t], ![t] = e]
    BY DEF os_list_add_tail
  <1> QED
    BY <1>1, <1>2, RingInserts

LEMMA DelRemoves ==
    ASSUME RingTyped, NEW q, IsRing(q), NEW e \in Entries, os_list_del(e)
    PROVE  RingInv' /\ Round' = RemoveFirst(q, e)
  <1>1. /\ Len(q) \in Nat /\ q \in Seq(Entries) /\ ListHead \notin Entries
        /\ \A j \in 1 .. Len(q) : q[j] \in Entries
        /\ \A j, k \in 1 .. Len(q) : q[j] = q[k] => j = k
    BY RingFacts
  <1>2. PICK i \in 1 .. Len(q) : q[i] = e
    BY RingFacts DEF os_list_del
  <1> DEFINE r == RemoveAt(q, i)
             h == At(q, i - 1, ListHead)
             t == At(q, i + 1, ListHead)
  <1>3. lnext[e] = t /\ lprev[e] = h
    BY <1>2, RingFacts
  <1>4. h \in All /\ t \in All /\ e \in All /\ h # e /\ t # e
    BY <1>1, <1>2 DEF At, All
  <1>5. (h = ListHead <=> i = 1) /\ (t = ListHead <=> i = Len(q))
    BY <1>1 DEF At
  <1> HIDE DEF h, t
  <1>6. /\ lprev' = [lprev EXCEPT ![t] = h, ![e] = NULL]
        /\ lnext' = [lnext EXCEPT ![h] = t, ![e] = NULL]
    BY <1>3 DEF os_list_del
  <1>7. \A m \in All \ {e} : /\ lnext'[m] = (IF m = h THEN t ELSE lnext[m])
                             /\ lprev'[m] = (IF m = t THEN h ELSE lprev[m])
    BY <1>4, <1>6 DEF RingTyped
  <1>8. Linking(r, ListHead, lnext', lprev')
    <2>1. Linking(q, ListHead, lnext, lprev)
      BY DEF IsRing
    <2>2. \A m \in Entries \ {q[i]} :
             /\ lnext'[m] = (IF m = At(q, i - 1, ListHead) THEN At(q, i + 1, ListHead) ELSE lnext[m])
             /\ lprev'[m] = (IF m = At(q, i + 1, ListHead) THEN At(q, i - 1, ListHead) ELSE lprev[m])
      BY <1>2, <1>7 DEF All, h, t
    <2> QED
      BY <1>1, <2>1, <2>2, LinksOut
  <1>9. /\ r \in Seq(Entries) /\ Len(r) = Len(q) - 1
        /\ \A k \in 1 .. Len(q) - 1 : r[k] = IF k < i THEN q[k] ELSE q[k + 1]
    BY <1>1, RemoveAtPlaces
  <1> HIDE DEF r
  <1>10. RingTyped'
    BY <1>4, <1>6 DEF RingTyped
  <1>11. lnext'[ListHead] = At(r, 1, ListHead)
    <2>1. lnext'[ListHead] = IF i = 1 THEN At(q, 2, ListHead) ELSE At(q, 1, ListHead)
      BY <1>1, <1>2, <1>5, <1>7 DEF IsRing, All, t
    <2> QED
      BY <1>1, <1>9, <2>1 DEF At
  <1>12. lprev'[ListHead] = At(r, Len(r), ListHead)
    <2>1. lprev'[ListHead] = IF i = Len(q) THEN At(q, Len(q) - 1, ListHead) ELSE At(q, Len(q), ListHead)
      BY <1>1, <1>2, <1>5, <1>7 DEF IsRing, All, h
    <2> QED
      BY <1>1, <1>9, <2>1 DEF At
  <1>13. IsRing(r)'
    BY <1>8, <1>9, <1>11, <1>12 DEF IsRing
  <1>14. Round' = r
    BY <1>10, <1>13, RingReadsNext
  <1>15. RingInv'
    BY <1>9, <1>10, <1>13 DEF RingInv
  <1>16. r = RemoveFirst(q, e)
    BY <1>1, <1>2, RemoveFirstIs DEF r
  <1> QED
    BY <1>14, <1>15, <1>16

LEMMA RingStep ==
    ASSUME RingInv, [RingNext]_ringVars
    PROVE  RingInv' /\ StepsLikeRing
  <1>1. PICK q : RingTyped /\ q \in Seq(Entries) /\ IsRing(q) /\ Round = q
    BY RingReads DEF RingInv
  <1>2. /\ Len(q) \in Nat /\ DOMAIN q = 1 .. Len(q) /\ 1 \in 1 .. Len(q) + 1
        /\ Len(q) + 1 \in 1 .. Len(q) + 1
        /\ \A j \in 1 .. Len(q) : j \in 1 .. Len(q) + 1 /\ j + 1 \in 1 .. Len(q) + 1
    BY <1>1
  <1>3. /\ At(q, 1 - 1, ListHead) = ListHead /\ At(q, Len(q) + 1, ListHead) = ListHead
        /\ \A j \in 1 .. Len(q) : /\ At(q, j, ListHead) = q[j]
                                 /\ At(q, j + 1 - 1, ListHead) = q[j]
    BY <1>2 DEF At
  <1>4. ASSUME NEW e \in Entries
        PROVE  /\ os_list_del(e) => RingInv' /\ Round' = RemoveFirst(q, e)
               /\ os_list_add(e, ListHead) => RingInv' /\ Round' = InsertAt(q, 1, e)
               /\ os_list_add_tail(e, ListHead) => RingInv' /\ Round' = InsertAt(q, Len(q) + 1, e)
               /\ \A i \in 1 .. Len(q) :
                     /\ os_list_add(e, q[i]) => RingInv' /\ Round' = InsertAt(q, i + 1, e)
                     /\ os_list_add_tail(e, q[i]) => RingInv' /\ Round' = InsertAt(q, i, e)
    <2>1. os_list_del(e) => RingInv' /\ Round' = RemoveFirst(q, e)
      BY <1>1, DelRemoves
    <2>2. os_list_add(e, ListHead) => RingInv' /\ Round' = InsertAt(q, 1, e)
      BY <1>1, <1>2, <1>3, AddInserts
    <2>3. os_list_add_tail(e, ListHead) => RingInv' /\ Round' = InsertAt(q, Len(q) + 1, e)
      BY <1>1, <1>2, <1>3, AddTailInserts
    <2>4. ASSUME NEW i \in 1 .. Len(q)
          PROVE  /\ os_list_add(e, q[i]) => RingInv' /\ Round' = InsertAt(q, i + 1, e)
                 /\ os_list_add_tail(e, q[i]) => RingInv' /\ Round' = InsertAt(q, i, e)
      <3>1. /\ i + 1 \in 1 .. Len(q) + 1 /\ At(q, i + 1 - 1, ListHead) = q[i]
            /\ i \in 1 .. Len(q) + 1 /\ At(q, i, ListHead) = q[i]
        BY <1>2, <1>3
      <3> QED
        BY <1>1, <3>1, AddInserts, AddTailInserts
    <2> QED
      BY <2>1, <2>2, <2>3, <2>4
  <1>5. StepsLikeRing
    BY <1>1, <1>2, <1>4 DEF StepsLikeRing, Inserted
  <1>6. RingInv'
    <2>1. CASE RingNext
      <3>1. PICK e \in Entries : \/ os_list_del(e)
                                \/ \E h \in All : os_list_add(e, h) \/ os_list_add_tail(e, h)
        BY <2>1 DEF RingNext
      <3>2. CASE os_list_del(e)
        BY <1>4, <3>2
      <3>3. CASE \E h \in All : os_list_add(e, h) \/ os_list_add_tail(e, h)
        <4>1. PICK h \in Linked : os_list_add(e, h) \/ os_list_add_tail(e, h)
          BY <3>3 DEF os_list_add, os_list_add_tail
        <4>2. h = ListHead \/ \E i \in 1 .. Len(q) : q[i] = h
          BY <1>1, <4>1, RingFacts
        <4> QED
          BY <1>4, <4>1, <4>2
      <3> QED
        BY <3>1, <3>2, <3>3
    <2>2. CASE UNCHANGED ringVars
      <3>1. RingTyped' /\ IsRing(q)'
        BY <1>1, <2>2 DEF RingTyped, IsRing, ringVars
      <3> QED
        BY <1>1, <3>1 DEF RingInv
    <2> QED
      BY <2>1, <2>2
  <1> QED
    BY <1>5, <1>6

LEMMA RingStarts ==
    ASSUME RingInit
    PROVE  RingInv
  <1>1. RingTyped
    BY DEF RingInit, RingTyped, All
  <1>2. <<>> \in Seq(Entries) /\ Len(<<>>) = 0 /\ 1 .. 0 = {}
    OBVIOUS
  <1>3. IsRing(<<>>)
    BY <1>2 DEF RingInit, IsRing, Linking, At, All
  <1> QED
    BY <1>1, <1>2, <1>3 DEF RingInv

LEMMA RingAgrees ==
    ASSUME RingInv
    PROVE  RoundsAgree
  <1>1. PICK q : RingTyped /\ IsRing(q)
    BY DEF RingInv
  <1>2. /\ Len(q) \in Nat /\ q \in Seq(Entries) /\ ListHead \notin Entries
        /\ \A i \in 1 .. Len(q) : q[i] \in Entries
    BY <1>1, RingFacts
  <1>3. (lnext[ListHead] = ListHead) <=> q = <<>>
    <2>1. q = <<>> <=> Len(q) = 0
      BY <1>2
    <2> QED
      BY <1>1, <1>2, <2>1 DEF IsRing, At
  <1> QED
    BY <1>1, <1>3, RingReads DEF RoundsAgree, os_list_empty

(* A list of each kind, for every finite set of nodes, whatever is done to *)
(* them and in whatever order: both are sequences.                         *)
THEOREM ListsKeepSequences == ListSpec /\ RingSpec => ListsAreSequences
  <1>1. ListInit /\ RingInit => ListInv /\ RingInv
    BY ListStarts, RingStarts
  <1>2. ListInv /\ RingInv /\ [ListNext]_listVars /\ [RingNext]_ringVars => ListInv' /\ RingInv'
    BY ListStep, RingStep
  <1>3. ListInv /\ RingInv => EndsAgree /\ RoundsAgree
    BY ListAgrees, RingAgrees
  <1>4. ListInv /\ RingInv /\ [ListNext]_listVars /\ [RingNext]_ringVars
           => [StepsLikeList /\ StepsLikeRing]_<<listVars, ringVars>>
    BY ListStep, RingStep
  <1> QED
    BY <1>1, <1>2, <1>3, <1>4, PTL DEF ListSpec, RingSpec, ListsAreSequences
=============================================================================
