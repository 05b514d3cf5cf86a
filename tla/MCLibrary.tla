----------------------------- MODULE MCLibrary -----------------------------
(***************************************************************************)
(* The parts of the library that do not depend on each other, side by      *)
(* side: a behaviour is one of a single part, chosen at the start, while   *)
(* the others stay as they were created.  The parts that only compute are  *)
(* given two numbers, x and y, in many combinations.                       *)
(***************************************************************************)
EXTENDS Lists, LogFile, Serial, UartSettings

CONSTANTS MaxItems, Keys   \* of JsonTree

VARIABLES part, x, y,
          heap               \* JsonTree

JT == INSTANCE JsonTree
NR == INSTANCE OsNumbers WITH WordBits <- 2, TIME_NOW_CONSTRAINTS <- 4, G_CLOCKS_PER_SECOND <- 3
JS == INSTANCE JsonStruct WITH IntMax <- 3, Capacity <- 3

(* The tables of the code that differ in shape and have room for their     *)
(* strings, and others that use what no table of the code does.            *)
Tables ==
    <<JS!g_stVideoParamKey, JS!g_stMuxServiceParamKey,
      <<JS!Struct(JS!g_stVideoParamKey), JS!Struct(JS!g_stMuxServiceParamKey)>>,
      <<JS!Bool, JS!Array(2, "int"), JS!Sized(2)>>,
      <<JS!Structs(2, <<JS!Integer, JS!Str, JS!Bool>>), JS!Array(2, "bool"), JS!Str, JS!Unsigned>>,
      <<JS!Array(2, "uint"), JS!Unsigned, JS!Double, JS!Structs(1, <<JS!Sized(3)>>)>> >>

Init == /\ ListInit /\ RingInit /\ JT!Init /\ FilesInit /\ PortInit
        /\ \/ part \in {"xlist", "oslist", "tree", "log", "serial"} /\ x = 0 /\ y = 0
           \/ part = "numbers" /\ x \in 0 .. 15 /\ y \in 0 .. 15
           \/ part = "structs" /\ x \in DOMAIN Tables /\ y \in 0 .. 7

vars == <<part, x, y, listVars, ringVars, heap, fileVars, portVars>>

Next ==
    /\ UNCHANGED <<part, x, y>>
    /\ \/ part = "xlist" /\ ListNext /\ UNCHANGED <<ringVars, heap, fileVars, portVars>>
       \/ part = "oslist" /\ RingNext /\ UNCHANGED <<listVars, heap, fileVars, portVars>>
       \/ part = "tree" /\ JT!Next /\ UNCHANGED <<listVars, ringVars, fileVars, portVars>>
       \/ part = "log" /\ FilesNext /\ UNCHANGED <<listVars, ringVars, heap, portVars>>
       \/ part = "serial" /\ PortNext /\ UNCHANGED <<listVars, ringVars, heap, fileVars>>

Spec == Init /\ [][Next]_vars
-----------------------------------------------------------------------------
(* cJSON trees stay trees: no operation leaves a pointer to what was freed *)
(* or lists that do not fit, and each does to the lists of children what   *)
(* its name says, with copies equal to what they copy.                     *)
TreesSound == part = "tree" => JT!Sound /\ JT!LikeForest

(* Within the limits that OsNumbers, JsonStruct and UartSettings name, the *)
(* conversions lose nothing: two-word numbers count modulo 2^64, clock     *)
(* readings give intervals, structures and ids come back from JSON as they *)
(* were, and the settings of a serial line are those asked for.            *)
ConversionsExact ==
    /\ part = "numbers" => NR!WordsExact(x, y, y % 6) /\ NR!ClockExact(x, y)
    /\ part = "structs" => /\ JS!StructReturns(Tables[x], y) /\ JS!MediaReturns(y)
                           /\ JS!IdsReturn(<<x % 4, y>>) /\ JS!IdsReturn(<<>>)
    /\ part = "structs" /\ x = 1 =>
          \A flags \in SUBSET {"PARODD", "PARENB", "CMSPAR", "INPCK", "CS6"}, parity \in Parities :
              ConfiguresPort(flags, y, y % 3, parity)
=============================================================================
