------------------------------- MODULE XList -------------------------------
(***************************************************************************)
(* The intrusive doubly linked list of src/common/xlist.c: a head, a tail  *)
(* and a size, and nodes that carry the links.                             *)
(*                                                                         *)
(* Client rules: a node that is inserted is in no list; a node that is     *)
(* removed, or inserted after, is in this list.                            *)
(***************************************************************************)
EXTENDS Links

CONSTANT Nodes

ASSUME NodesAssumption == IsFiniteSet(Nodes) /\ NULL \notin Nodes

VARIABLES head, tail, size, next, prev
listVars == <<head, tail, size, next, prev>>

ListInit == /\ head = NULL /\ tail = NULL /\ size = 0
            /\ next = [n \in Nodes |-> NULL] /\ prev = [n \in Nodes |-> NULL]

Forward == Walk(head, next, {NULL})     \* StdListGetHeadNode, StdListGetNextNode
Backward == Walk(tail, prev, {NULL})    \* StdListGetTailNode, StdListGetPrevNode
InList == Range(Forward)

StdListPushBack(n) ==
    /\ n \notin InList
    /\ next' = [m \in Nodes |-> IF m = n THEN NULL ELSE IF m = tail THEN n ELSE next[m]]
    /\ prev' = [prev EXCEPT ![n] = tail]
    /\ head' = IF tail = NULL THEN n ELSE head
    /\ tail' = n
    /\ size' = size + 1

StdListPushFront(n) ==
    /\ n \notin InList
    /\ prev' = [m \in Nodes |-> IF m = n THEN NULL ELSE IF m = head THEN n ELSE prev[m]]
    /\ next' = [next EXCEPT ![n] = head]
    /\ tail' = IF head = NULL THEN n ELSE tail
    /\ head' = n
    /\ size' = size + 1

StdListInsertAfter(p, n) ==
    /\ p \in InList /\ n \notin InList
    /\ next' = [next EXCEPT ![n] = next[p], ![p] = n]
    /\ prev' = [m \in Nodes |-> IF m = n THEN p ELSE IF m = next[p] THEN n ELSE prev[m]]
    /\ tail' = IF next[p] = NULL THEN n ELSE tail
    /\ size' = size + 1
    /\ UNCHANGED head

StdListRemoveKeepsTail(n) ==   \* fault: the tail is not moved back
    /\ n \in InList
    /\ next' = [m \in Nodes |-> IF m = n THEN NULL ELSE IF m = prev[n] THEN next[n] ELSE next[m]]
    /\ prev' = [m \in Nodes |-> IF m = n THEN NULL ELSE IF m = next[n] THEN prev[n] ELSE prev[m]]
    /\ head' = IF prev[n] = NULL THEN next[n] ELSE head
    /\ size' = size - 1
    /\ UNCHANGED tail

StdListRemove(n) ==
    /\ n \in InList
    /\ next' = [m \in Nodes |-> IF m = n THEN NULL ELSE IF m = prev[n] THEN next[n] ELSE next[m]]
    /\ prev' = [m \in Nodes |-> IF m = n THEN NULL ELSE IF m = next[n] THEN prev[n] ELSE prev[m]]
    /\ head' = IF prev[n] = NULL THEN next[n] ELSE head
    /\ tail' = IF next[n] = NULL THEN prev[n] ELSE tail
    /\ size' = size - 1

ListNext ==
    \E n \in Nodes : \/ StdListPushBack(n) \/ StdListPushFront(n) \/ StdListRemove(n)
                    \/ \E p \in Nodes : StdListInsertAfter(p, n)

ListSpec == ListInit /\ [][ListNext]_listVars
-----------------------------------------------------------------------------
(* Both ways through the list and the size agree.                          *)
EndsAgree == Backward = Reverse(Forward) /\ size = Len(Forward)

(* What an operation does to the list is what its name says of a sequence. *)
StepsLikeList ==
    \A n \in Nodes :
        /\ StdListPushBack(n) => Forward' = Append(Forward, n)
        /\ StdListPushFront(n) => Forward' = <<n>> \o Forward
        /\ StdListRemove(n) => Forward' = RemoveFirst(Forward, n)
        /\ \A p \in Nodes : StdListInsertAfter(p, n) =>
               \E i \in DOMAIN Forward : Forward[i] = p /\ Forward' = InsertAt(Forward, i + 1, n)
=============================================================================
