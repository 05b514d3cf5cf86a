------------------------------- MODULE Links -------------------------------
(***************************************************************************)
(* What the linked lists of the library have in common: the nodes of a     *)
(* list are those that the links lead to, as the loops over a list do.     *)
(***************************************************************************)
EXTENDS Integers, FiniteSets, Sequences, SequencesExt

CONSTANT NULL

(* The nodes met from first on, along one kind of link, before one of ends *)
(* is: StdListForEachData, os_list_for_each.                               *)
Walk(first, link, ends) ==
    LET most == Cardinality(DOMAIN link)
        at[k \in 1 .. most + 1] ==
            IF k = 1 THEN first
            ELSE LET before == at[k - 1] IN IF before \in ends THEN before ELSE link[before]
        met == {k \in 1 .. most : at[k] \notin ends}
    IN  [k \in 1 .. Cardinality(met) |-> at[k]]
=============================================================================
