------------------------------- MODULE OsList -------------------------------
(***************************************************************************)
(* The circular list of src/common/ctos.c: a head that is an entry itself, *)
(* and entries that are added after or before any entry that is linked.    *)
(*                                                                         *)
(* Client rules: what is added is not linked; what is deleted is, and is   *)
(* not the head.                                                           *)
(***************************************************************************)
EXTENDS Links

CONSTANTS Entries, ListHead

ASSUME EntriesAssumption ==
    /\ IsFiniteSet(Entries)
    /\ ListHead \notin Entries /\ NULL \notin Entries \cup {ListHead}

VARIABLES lnext, lprev    \* next and prev of every entry
ringVars == <<lnext, lprev>>
All == Entries \cup {ListHead}

(* os_list_init(ListHead) *)
RingInit == /\ lnext = [e \in All |-> IF e = ListHead THEN ListHead ELSE NULL]
            /\ lprev = [e \in All |-> IF e = ListHead THEN ListHead ELSE NULL]

Round == Walk(lnext[ListHead], lnext, {ListHead, NULL})
RoundBack == Walk(lprev[ListHead], lprev, {ListHead, NULL})
Linked == Range(Round) \cup {ListHead}

os_list_add(new, head) ==
    /\ new \notin Linked /\ head \in Linked
    /\ lprev' = [lprev EXCEPT ![new] = head, ![lnext[head]] = new]
    /\ lnext' = [lnext EXCEPT ![new] = lnext[head], ![head] = new]

os_list_add_tail(new, head) ==
    /\ new \notin Linked /\ head \in Linked
    /\ lnext' = [lnext EXCEPT ![new] = head, ![lprev[head]] = new]
    /\ lprev' = [lprev EXCEPT ![new] = lprev[head], ![head] = new]

os_list_delOneWay(entry) ==   \* fault: the entry after it still leads back to it
    /\ entry \in Linked \ {ListHead}
    /\ lprev' = [lprev EXCEPT ![entry] = NULL]
    /\ lnext' = [lnext EXCEPT ![lprev[entry]] = lnext[entry], ![entry] = NULL]

os_list_del(entry) ==
    /\ entry \in Linked \ {ListHead}
    /\ lprev' = [lprev EXCEPT ![lnext[entry]] = lprev[entry], ![entry] = NULL]
    /\ lnext' = [lnext EXCEPT ![lprev[entry]] = lnext[entry], ![entry] = NULL]

os_list_empty == lnext[ListHead] = ListHead

RingNext ==
    \E e \in Entries : \/ os_list_del(e)
                      \/ \E h \in All : os_list_add(e, h) \/ os_list_add_tail(e, h)

RingSpec == RingInit /\ [][RingNext]_ringVars
-----------------------------------------------------------------------------
(* Both ways round agree, and the list is empty when nothing is in it.     *)
RoundsAgree == RoundBack = Reverse(Round) /\ (os_list_empty <=> Round = <<>>)

Inserted(i, e) == Round' = InsertAt(Round, i, e)

(* add is a push after the head or after an entry, add_tail before it.     *)
StepsLikeRing ==
    \A e \in Entries :
        /\ os_list_del(e) => Round' = RemoveFirst(Round, e)
        /\ os_list_add(e, ListHead) => Inserted(1, e)
        /\ os_list_add_tail(e, ListHead) => Inserted(Len(Round) + 1, e)
        /\ \A i \in DOMAIN Round :
               /\ os_list_add(e, Round[i]) => Inserted(i + 1, e)
               /\ os_list_add_tail(e, Round[i]) => Inserted(i, e)
=============================================================================
