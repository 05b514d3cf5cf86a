------------------------- MODULE MCModuleFramework -------------------------
EXTENDS ModuleFramework

CONSTANTS m1, m2

TwoBlocks == {m1, m2}

(* Which free block a new module gets makes no difference: it is the first.*)
FirstFree == id[m1] = 0 /\ id[m2] = 0 => id'[m2] = 0

(* Bound: handlers for the types no message arrives with are not switched  *)
(* off; nothing calls them.                                                *)
OthersStayOn == \A m \in Mods, ty \in Types \ {0} : handlers'[m][ty] # "off"

LoopSpec == Init /\ [][Next /\ FirstFree /\ OthersStayOn]_vars /\ Fairness
=============================================================================
