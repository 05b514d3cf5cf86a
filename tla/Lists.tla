------------------------------- MODULE Lists -------------------------------
(***************************************************************************)
(* The two linked lists of the library, which share nothing.               *)
(***************************************************************************)
EXTENDS XList, OsList

(* Both lists are sequences: the ways through a list from its two ends     *)
(* agree with each other and with its size, and an operation of xlist.c or *)
(* ctos.c does to the list what its name says, wherever it is done.        *)
ListsAreSequences ==
    /\ [](EndsAgree /\ RoundsAgree)
    /\ [][StepsLikeList /\ StepsLikeRing]_<<listVars, ringVars>>
=============================================================================
