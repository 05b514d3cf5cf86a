------------------------------ MODULE JsonTree ------------------------------
(***************************************************************************)
(* The trees of src/common/cjson/cJSON.c: items linked to their brothers   *)
(* by next and prev, and to their first child.  An operation is a function *)
(* from heap to heap, so that those that are made of others read like the  *)
(* code.  What an item holds besides its links, its key and whether it is a *)
(* reference is left out, as are their types: the code does not look at it. *)
(*                                                                         *)
(* Client rules: what is added, inserted or put in another's place is a    *)
(* root that no reference refers to; what is deleted is a root; nothing is *)
(* added to a reference; no item comes to lie below itself; what a         *)
(* reference refers to is not freed before the reference.                  *)
(***************************************************************************)
EXTENDS Integers, Sequences, SequencesExt

CONSTANTS MaxItems,    \* bound: items allocated at a time
          Keys

Items == 1 .. MaxItems
None == 0

VARIABLE heap

Blank == [live |-> FALSE, ref |-> FALSE, string |-> None, child |-> None, next |-> None, prev |-> None]
Init == heap = [i \in Items |-> Blank]

Live(h) == {i \in Items : h[i].live}
(* cJSON_New_Item: the first free block.                                   *)
Fresh(h) == CHOOSE i \in Items \ Live(h) : \A j \in Items \ Live(h) : i <= j

(* The brothers from an item on; the children of an item.                  *)
RECURSIVE Following(_, _, _)
Following(h, i, n) ==
    IF i = None \/ n = 0 THEN <<>> ELSE <<i>> \o Following(h, h[i].next, n - 1)
Chain(h, first) == Following(h, first, MaxItems)
Kids(h, a) == Chain(h, h[a].child)
Key(h, a, k) == SelectInSeq(Kids(h, a), LAMBDA i : h[i].string = k)   \* get_object_item

(* Everything below an item, through references or not.                    *)
BelowIf(h, i, Follow(_)) ==
    LET down[d \in 0 .. MaxItems] ==
            IF d = 0 THEN {i}
            ELSE LET S == down[d - 1]
                 IN  S \cup UNION {Range(Kids(h, j)) : j \in {j \in S : Follow(j)}}
    IN  down[MaxItems]
Tree(h, i) == BelowIf(h, i, LAMBDA j : ~h[j].ref)
Reach(h, i) == UNION {BelowIf(h, j, LAMBDA m : TRUE) : j \in Range(Kids(h, i))}

Owners(h, i) == {a \in Live(h) : ~h[a].ref /\ i \in Range(Kids(h, a))}
Roots(h) == {i \in Live(h) : Owners(h, i) = {}}
Containers(h) == {a \in Live(h) : ~h[a].ref}
-----------------------------------------------------------------------------
(***************************************************************************)
(* The operations on a heap.                                               *)
(***************************************************************************)
Created(h) == [h EXCEPT ![Fresh(h)].live = TRUE]

(* add_item_to_array *)
Added(h, a, i) ==
    IF h[a].child = None THEN [h EXCEPT ![a].child = i]
    ELSE [h EXCEPT ![Last(Kids(h, a))].next = i, ![i].prev = Last(Kids(h, a))]

AddedToObject(h, o, k, i) == Added([h EXCEPT ![i].string = k], o, i)

DetachedKeepsBack(h, p, i) ==   \* fault: the next item keeps its prev
    [j \in Items |->
        CASE j = i        -> [h[j] EXCEPT !.next = None, !.prev = None]
          [] j = h[i].prev -> [h[j] EXCEPT !.next = h[i].next]
          [] j = p         -> [h[j] EXCEPT !.child = IF @ = i THEN h[i].next ELSE @]
          [] OTHER         -> h[j]]

(* cJSON_DetachItemViaPointer *)
Detached(h, p, i) ==
    [j \in Items |->
        CASE j = i         -> [h[j] EXCEPT !.next = None, !.prev = None]
          [] j = h[i].prev -> [h[j] EXCEPT !.next = h[i].next]
          [] j = h[i].next -> [h[j] EXCEPT !.prev = h[i].prev]
          [] j = p         -> [h[j] EXCEPT !.child = IF @ = i THEN h[i].next ELSE @]
          [] OTHER         -> h[j]]

(* cJSON_Delete frees an item, the items after it, and what is below them  *)
(* unless they are references.                                             *)
Doomed(h, first) == UNION {Tree(h, i) : i \in Range(Chain(h, first))}
Deleted(h, first) == [j \in Items |-> IF j \in Doomed(h, first) THEN Blank ELSE h[j]]

(* cJSON_InsertItemInArray before position which, counted from 0.          *)
Inserted(h, a, which, i) ==
    IF which >= Len(Kids(h, a)) THEN Added(h, a, i)
    ELSE LET after == Kids(h, a)[which + 1] IN
         [j \in Items |->
            CASE j = i             -> [h[j] EXCEPT !.next = after, !.prev = h[after].prev]
              [] j = after         -> [h[j] EXCEPT !.prev = i]
              [] j = h[after].prev -> [h[j] EXCEPT !.next = i]
              [] j = a             -> [h[j] EXCEPT !.child = IF @ = after THEN i ELSE @]
              [] OTHER             -> h[j]]

(* cJSON_ReplaceItemViaPointer *)
Replaced(h, p, i, r) ==
    Deleted([j \in Items |->
        CASE j = r         -> [h[j] EXCEPT !.next = h[i].next, !.prev = h[i].prev]
          [] j = i         -> [h[j] EXCEPT !.next = None, !.prev = None]
          [] j = h[i].next -> [h[j] EXCEPT !.prev = r]
          [] j = h[i].prev -> [h[j] EXCEPT !.next = r]
          [] j = p         -> [h[j] EXCEPT !.child = IF @ = i THEN r ELSE @]
          [] OTHER         -> h[j]], i)

(* cJSON_Duplicate: an item, then its children one after the other.  The   *)
(* copy of a reference owns what it copies.                                *)
RECURSIVE Duplicated(_, _)
Duplicated(h, i) ==
    FoldLeft(LAMBDA g, c : [heap |-> Added(Duplicated(g.heap, c).heap, g.item, Fresh(g.heap)), item |-> g.item],
             [heap |-> [Created(h) EXCEPT ![Fresh(h)].string = h[i].string],
              item |-> Fresh(h)],
             Kids(h, i))
RECURSIVE Weight(_, _)
Weight(h, i) == FoldLeft(LAMBDA w, c : w + Weight(h, c), 1, Kids(h, i))
Room(h, n) == n <= MaxItems - Cardinality(Live(h))
-----------------------------------------------------------------------------
(***************************************************************************)
(* The calls.                                                              *)
(***************************************************************************)
(* Pre-conditions that are the client's: no circle is made, and nothing is *)
(* freed under a reference that stays.                                     *)
Sharing(a) == {a} \cup {c \in Live(heap) : Range(Kids(heap, c)) \cap Range(Kids(heap, a)) # {}}
MayPut(a, i) == /\ Sharing(a) \cap (Reach(heap, i) \cup {i}) = {}
                /\ \A r \in Live(heap) : heap[r].ref => i \notin Range(Kids(heap, r))
MayFree(i) == \A r \in Live(heap) \ Tree(heap, i) : heap[r].ref => heap[r].child \notin Tree(heap, i)
Becomes(h) == heap' = h

Create == Room(heap, 1) /\ Becomes(Created(heap))

(* cJSON_CreateIntArray, ..., cJSON_CreateStringArray *)
CreateArrayOf(count) ==
    /\ Room(heap, count + 1)
    /\ Becomes(FoldLeft(LAMBDA h, k : Added(Created(h), Fresh(heap), Fresh(h)),
                        Created(heap), [k \in 1 .. count |-> k]))

AddItemToArray(a, i) == MayPut(a, i) /\ Becomes(Added(heap, a, i))
AddItemToObject(o, k, i) == MayPut(o, i) /\ Becomes(AddedToObject(heap, o, k, i))

(* cJSON_AddNullToObject, ..., cJSON_AddArrayToObject *)
AddNewToObject(o, k) ==
    Room(heap, 1) /\ Becomes(AddedToObject(Created(heap), o, k, Fresh(heap)))

(* create_reference *)
Reference(i) == [heap EXCEPT ![Fresh(heap)] = [heap[i] EXCEPT !.ref = TRUE, !.string = None, !.next = None, !.prev = None]]
AddItemReferenceToArray(a, i) ==
    Room(heap, 1) /\ MayPut(a, i) /\ Becomes(Added(Reference(i), a, Fresh(heap)))
AddItemReferenceToObject(o, k, i) ==
    Room(heap, 1) /\ MayPut(o, i) /\ Becomes(AddedToObject(Reference(i), o, k, Fresh(heap)))

DetachItemFromArray(a, which) == Becomes(Detached(heap, a, Kids(heap, a)[which + 1]))
DetachItemFromObject(o, k) ==
    Key(heap, o, k) # 0 /\ DetachItemFromArray(o, Key(heap, o, k) - 1)

DeleteItemFromArray(a, which) ==
    LET i == Kids(heap, a)[which + 1] IN
    MayFree(i) /\ Becomes(Deleted(Detached(heap, a, i), i))
DeleteItemFromObject(o, k) ==
    Key(heap, o, k) # 0 /\ DeleteItemFromArray(o, Key(heap, o, k) - 1)

InsertItemInArray(a, which, i) == MayPut(a, i) /\ Becomes(Inserted(heap, a, which, i))

ReplaceItemInArray(a, which, r) ==
    /\ MayPut(a, r) /\ MayFree(Kids(heap, a)[which + 1])
    /\ Becomes(Replaced(heap, a, Kids(heap, a)[which + 1], r))

(* The replacement takes the key, also when there is nothing to replace.   *)
ReplaceItemInObject(o, k, r) ==
    LET named == [heap EXCEPT ![r].string = k] IN
    /\ MayPut(o, r)
    /\ Key(heap, o, k) # 0 => MayFree(Kids(heap, o)[Key(heap, o, k)])
    /\ Becomes(IF Key(heap, o, k) = 0 THEN named
               ELSE Replaced(named, o, Kids(heap, o)[Key(heap, o, k)], r))

Delete(i) == MayFree(i) /\ Becomes(Deleted(heap, i))

Duplicate(i, recurse) ==
    IF recurse THEN Room(heap, Weight(heap, i)) /\ Becomes(Duplicated(heap, i).heap)
    ELSE Room(heap, 1) /\ Becomes([Created(heap) EXCEPT ![Fresh(heap)].string = heap[i].string])

Places(a) == 0 .. Len(Kids(heap, a)) - 1
Next ==
    \/ Create
    \/ \E count \in Items : CreateArrayOf(count)
    \/ \E i \in Live(heap), recurse \in BOOLEAN : Duplicate(i, recurse)
    \/ \E i \in Roots(heap) : Delete(i)
    \/ \E a \in Containers(heap) :
        \/ \E i \in Roots(heap) : AddItemToArray(a, i)
        \/ \E i \in Roots(heap), which \in Places(a) \cup {Len(Kids(heap, a))} : InsertItemInArray(a, which, i)
        \/ \E i \in Roots(heap), which \in Places(a) : ReplaceItemInArray(a, which, i)
        \/ \E which \in Places(a) : DetachItemFromArray(a, which) \/ DeleteItemFromArray(a, which)
        \/ \E i \in Live(heap) : AddItemReferenceToArray(a, i)
        \/ \E k \in Keys :
            \/ \E i \in Roots(heap) : AddItemToObject(a, k, i) \/ ReplaceItemInObject(a, k, i)
            \/ AddNewToObject(a, k)
            \/ \E i \in Live(heap) : AddItemReferenceToObject(a, k, i)
            \/ DetachItemFromObject(a, k) \/ DeleteItemFromObject(a, k)
-----------------------------------------------------------------------------
(* Every item is a root or lies in one list once, next and prev agree, and *)
(* no live item points to one that has been freed.                         *)
Sound ==
    /\ \A i \in Live(heap) :
        /\ {heap[i].next, heap[i].prev, heap[i].child} \subseteq Live(heap) \cup {None}
        /\ Cardinality(Owners(heap, i)) <= 1
        /\ Owners(heap, i) = {} => heap[i].next = None /\ heap[i].prev = None
    /\ \A a \in Containers(heap) :
        LET kids == Kids(heap, a) IN
        /\ IsInjective(kids)
        /\ \A k \in DOMAIN kids : heap[kids[k]].prev = IF k = 1 THEN None ELSE kids[k - 1]

(* The lists of children, and what a tree looks like from outside.         *)
Forest(h) == [i \in Live(h) |-> IF h[i].ref THEN <<>> ELSE Kids(h, i)]
RECURSIVE Look(_, _)
Look(h, i) == <<h[i].string, [k \in DOMAIN Kids(h, i) |-> Look(h, Kids(h, i)[k])]>>
Without(f, S) == [i \in DOMAIN f \ S |-> f[i]]

(* Each operation does to the lists of children what its name says, and    *)
(* frees the item it removes, all that belongs to it and nothing else.     *)
LikeForest ==
    LET old == Forest(heap) IN
    /\ \A i \in Live(heap) : Room(heap, Weight(heap, i)) =>
        LET h == Duplicated(heap, i).heap IN
        Look(h, Fresh(heap)) = Look(heap, i) /\ \A j \in Live(heap) : Forest(h)[j] = old[j]
    /\ \A i \in Roots(heap) : MayFree(i) => Forest(Deleted(heap, i)) = Without(old, Tree(heap, i))
    /\ \A a \in Containers(heap) : \A which \in Places(a) :
        LET i == Kids(heap, a)[which + 1]
            less == [old EXCEPT ![a] = RemoveAt(@, which + 1)]
        IN  /\ Forest(Detached(heap, a, i)) = less
            /\ MayFree(i) => Forest(Deleted(Detached(heap, a, i), i)) = Without(less, Tree(heap, i))
    /\ \A a \in Containers(heap) : \A i \in {i \in Roots(heap) : MayPut(a, i)} :
        /\ Forest(Added(heap, a, i)) = [old EXCEPT ![a] = Append(@, i)]
        /\ \A which \in Places(a) :
            /\ Forest(Inserted(heap, a, which, i)) = [old EXCEPT ![a] = InsertAt(@, which + 1, i)]
            /\ MayFree(old[a][which + 1]) =>
                Forest(Replaced(heap, a, old[a][which + 1], i))
                    = Without([old EXCEPT ![a] = ReplaceAt(@, which + 1, i)], Tree(heap, old[a][which + 1]))
=============================================================================
