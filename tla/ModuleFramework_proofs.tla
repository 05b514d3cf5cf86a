----------------------- MODULE ModuleFramework_proofs -----------------------
(***************************************************************************)
(* Proofs about ModuleFramework for every set of modules and of message    *)
(* types, every length of the queue and any number of registrations.       *)
(***************************************************************************)
EXTENDS ModuleFramework, SequenceTheorems, TLAPS

(* The modules of the list have different ids, all used up; a module that  *)
(* is being initialised has the next one.                                  *)
ListOK ==
    /\ \A i \in DOMAIN modules : id[modules[i]] \in 1 .. next_module_id - 1
    /\ \A i, j \in DOMAIN modules : i # j => id[modules[i]] # id[modules[j]]
    /\ \A t \in Threads : creating[t] # NULL => id[creating[t]] = next_module_id
    /\ \A s, t \in Threads : creating[s] # NULL /\ creating[t] # NULL => s = t

(* Where the loop stands fits the message and the module it is at; only a  *)
(* callback of the loop is in its thread's init function; the framework is *)
(* destroyed when the loop and all init functions have returned.           *)
LoopOK ==
    /\ loop = "out" => current = NULL
    /\ loop \in {"handling", "running"} => current # NULL
    /\ current # NULL => current \in Listed
    /\ msg # NULL <=> loop \in {"dispatch", "handling"}
    /\ creating["loop"] # NULL => loop \in {"handling", "running"}
    /\ destroying # "no" => loop = "out" /\ creating["app"] = NULL

(* The traversal of the list for a message: those it has called stand      *)
(* before the module it is at; those it is for are still listed, with their*)
(* handlers on, and if the message kept its type it has called them or will *)
(* get to them.                                                            *)
Before(m, k) == \E i, j \in DOMAIN modules : i < j /\ modules[i] = m /\ modules[j] = k
Served(m) == \E i \in DOMAIN served : served[i] = m
Ahead(m) == current # NULL /\ (Before(current, m) \/ (loop = "dispatch" /\ m = current))

DeliveryOK ==
    msg # NULL =>
        /\ \A i, j \in DOMAIN served : served[i] = served[j] => i = j
        /\ \A i \in DOMAIN served : served[i] \in Listed /\ msg.receiver \in {Broadcast, id[served[i]]}
        /\ current # NULL => msg.receiver \in {Broadcast, id[current]}
        /\ loop = "dispatch" /\ current # NULL => \A m \in Listed : Served(m) => Before(m, current)
        /\ loop = "handling" => /\ Served(current)
                                /\ \A m \in Listed : Served(m) => m = current \/ Before(m, current)
        /\ \A m \in due : /\ m \in Listed /\ msg.receiver \in {Broadcast, id[m]}
                          /\ handlers[m][msg.sent] = "on"
                          /\ msg.sent = msg.type => Served(m) \/ Ahead(m)

IInv == TypeOK /\ ListOK /\ LoopOK /\ DeliveryOK
-----------------------------------------------------------------------------
(***************************************************************************)
(* The list.                                                               *)
(***************************************************************************)
LEMMA ListedIs ==
    ASSUME TypeOK
    PROVE  /\ Len(modules) \in Nat /\ DOMAIN modules = 1 .. Len(modules)
           /\ \A i \in DOMAIN modules : modules[i] \in Mods
           /\ Listed \subseteq Mods
           /\ \A m : m \in Listed <=> \E i \in DOMAIN modules : m = modules[i]
  <1>1. modules \in Seq(Mods)
    BY DEF TypeOK
  <1>2. Len(modules) \in Nat /\ DOMAIN modules = 1 .. Len(modules)
    BY <1>1, LenProperties
  <1>3. \A i \in DOMAIN modules : modules[i] \in Mods
    BY <1>1, <1>2, ElementOfSeq
  <1> QED
    BY <1>2, <1>3 DEF Listed

LEMMA NotNull ==
    ASSUME NEW m \in Mods
    PROVE  m # NULL
  BY FrameworkAssumption DEF FrameworkAssumption


LEMMA Distinct ==
    ASSUME ListOK, NEW i \in DOMAIN modules, NEW j \in DOMAIN modules, modules[i] = modules[j]
    PROVE  i = j
  BY DEF ListOK

(* The successor of the module at place i is the one at place i + 1.       *)
LEMMA AfterIs ==
    ASSUME TypeOK, ListOK, NEW i \in DOMAIN modules
    PROVE  After(modules[i]) = IF i = Len(modules) THEN NULL ELSE modules[i + 1]
  <1> DEFINE j == CHOOSE k \in DOMAIN modules : modules[k] = modules[i]
  <1>1. j \in DOMAIN modules /\ modules[j] = modules[i]
    OBVIOUS
  <1>2. j = i
    BY <1>1, Distinct
  <1> QED
    BY <1>2 DEF After

LEMMA AfterListed ==
    ASSUME TypeOK, ListOK, NEW m \in Listed
    PROVE  After(m) \in Listed \cup {NULL}
  <1>1. PICK i \in DOMAIN modules : m = modules[i]
    BY ListedIs
  <1>2. After(m) = IF i = Len(modules) THEN NULL ELSE modules[i + 1]
    BY <1>1, AfterIs
  <1>3. CASE i = Len(modules)
    BY <1>2, <1>3
  <1>4. CASE i # Len(modules)
    <2>1. i + 1 \in DOMAIN modules
      BY <1>4, ListedIs
    <2> QED
      BY <2>1, <1>2, <1>4, ListedIs
  <1> QED
    BY <1>3, <1>4

LEMMA FirstListed ==
    ASSUME TypeOK
    PROVE  First \in Listed \cup {NULL}
  <1>1. CASE modules = <<>>
    BY <1>1 DEF First
  <1>2. CASE modules # <<>>
    <2>1. modules \in Seq(Mods)
      BY DEF TypeOK
    <2>2. 1 \in DOMAIN modules /\ Head(modules) = modules[1]
      BY <1>2, <2>1
    <2> QED
      BY <1>2, <2>2, ListedIs DEF First
  <1> QED
    BY <1>1, <1>2

LEMMA ByIdListed == \A n : ModuleById(n) \in Listed \cup {NULL}
  BY DEF ModuleById

LEMMA ReceiverListed ==
    ASSUME TypeOK, ListOK, current # NULL, current \in Listed
    PROVE  NextReceiver \in Listed \cup {NULL}
  BY AfterListed DEF NextReceiver

(* What a registration does to the list.                                   *)
LEMMA Prepended ==
    ASSUME NEW s \in Seq(Mods), NEW m \in Mods
    PROVE  /\ <<m>> \o s \in Seq(Mods)
           /\ DOMAIN (<<m>> \o s) = 1 .. Len(s) + 1
           /\ (<<m>> \o s)[1] = m
           /\ \A i \in 1 .. Len(s) : (<<m>> \o s)[i + 1] = s[i]
  <1>1. <<m>> \in Seq(Mods) /\ Len(<<m>>) = 1 /\ <<m>>[1] = m
    OBVIOUS
  <1>2. Len(s) \in Nat /\ DOMAIN s = 1 .. Len(s)
    BY LenProperties
  <1>3. /\ <<m>> \o s \in Seq(Mods) /\ Len(<<m>> \o s) = 1 + Len(s)
        /\ \A i \in 1 .. 1 + Len(s) : (<<m>> \o s)[i] = IF i <= 1 THEN <<m>>[i] ELSE s[i - 1]
    BY <1>1, ConcatProperties
  <1>4. DOMAIN (<<m>> \o s) = 1 .. Len(s) + 1
    BY <1>2, <1>3, LenProperties
  <1>5. (<<m>> \o s)[1] = m
    BY <1>1, <1>2, <1>3
  <1>6. \A i \in 1 .. Len(s) : (<<m>> \o s)[i + 1] = s[i]
    <2> TAKE i \in 1 .. Len(s)
    <2>1. i + 1 \in 1 .. 1 + Len(s) /\ ~(i + 1 <= 1) /\ (i + 1) - 1 = i
      BY <1>2
    <2>2. (<<m>> \o s)[i + 1] = IF i + 1 <= 1 THEN <<m>>[i + 1] ELSE s[(i + 1) - 1]
      BY <1>3, <2>1
    <2> QED
      BY <2>1, <2>2
  <1> QED
    BY <1>3, <1>4, <1>5, <1>6

(* Which steps change the list: a registration, and the end.               *)
LEMMA ListStep ==
    ASSUME [Next]_vars
    PROVE  \/ UNCHANGED listVars
           \/ \E t \in Threads : RegisterBegins(t) \/ InitFails(t) \/ RegisterAdds(t)
           \/ DestroyModule
  BY DEF Next, vars, CallStep, InitReturns, AppWaits, LoopStep, DestroyStep, Stop, RegisterHandler,
         EnableHandler, SetHandler, SendPuts, SendBlocks, SendResumes, Start, Receive, CallHandler,
         SkipModule, HandlerReturns, Release, ProcessEnds, RunModule, RunReturns, RoundEnds,
         DestroyBegins, DestroyQueue

LEMMA ListKept ==
    ASSUME IInv, [Next]_vars
    PROVE  ListOK'
  <1> USE DEF IInv
  <1>1. CASE UNCHANGED listVars
    BY <1>1 DEF listVars, ListOK
  <1>2. ASSUME NEW t \in Threads, RegisterBegins(t)
        PROVE  ListOK'
    <2>1. PICK m \in Mods : /\ id[m] = 0
                            /\ id' = [id EXCEPT ![m] = next_module_id]
                            /\ creating' = [creating EXCEPT ![t] = m]
      BY <1>2 DEF RegisterBegins
    <2>2. modules' = modules /\ next_module_id' = next_module_id
      BY <1>2 DEF RegisterBegins
    <2>3. \A s \in Threads : creating[s] = NULL
      BY <1>2 DEF RegisterBegins, Initialising
    <2>4. \A i \in DOMAIN modules : modules[i] # m /\ id'[modules[i]] = id[modules[i]]
      BY <2>1, ListedIs DEF ListOK, TypeOK
    <2>5. id'[m] = next_module_id /\ \A s \in Threads : creating'[s] = IF s = t THEN m ELSE NULL
      BY <2>1, <2>3 DEF TypeOK
    <2> QED
      BY <2>2, <2>4, <2>5 DEF ListOK
  <1>3. ASSUME NEW t \in Threads, InitFails(t)
        PROVE  ListOK'
    <2>1. creating[t] \in Mods /\ id[creating[t]] = next_module_id
      BY <1>3 DEF InitFails, TypeOK, ListOK
    <2>2. \A i \in DOMAIN modules : id'[modules[i]] = id[modules[i]]
      <3> TAKE i \in DOMAIN modules
      <3>1. modules[i] \in Mods /\ id[modules[i]] \in 1 .. next_module_id - 1
        BY ListedIs DEF ListOK
      <3>2. modules[i] # creating[t]
        BY <2>1, <3>1 DEF TypeOK
      <3> QED
        BY <1>3, <3>1, <3>2 DEF InitFails, TypeOK
    <2>3. \A s \in Threads : creating'[s] = NULL
      BY <1>3 DEF InitFails, TypeOK, ListOK
    <2> QED
      BY <1>3, <2>2, <2>3 DEF InitFails, ListOK
  <1>4. ASSUME NEW t \in Threads, RegisterAdds(t)
        PROVE  ListOK'
    <2>1. creating[t] \in Mods /\ id[creating[t]] = next_module_id
      BY <1>4 DEF RegisterAdds, TypeOK, ListOK
    <2>2. modules \in Seq(Mods) /\ Len(modules) \in Nat /\ DOMAIN modules = 1 .. Len(modules)
      BY ListedIs DEF TypeOK
    <2>3. modules' = <<creating[t]>> \o modules /\ next_module_id' = next_module_id + 1 /\ id' = id
      BY <1>4 DEF RegisterAdds
    <2>4. /\ DOMAIN modules' = 1 .. Len(modules) + 1
          /\ modules'[1] = creating[t]
          /\ \A i \in 1 .. Len(modules) : modules'[i + 1] = modules[i]
      BY <2>1, <2>2, <2>3, Prepended
    <2>5. \A i \in DOMAIN modules' : \/ i = 1 /\ id'[modules'[i]] = next_module_id
                                     \/ /\ i - 1 \in DOMAIN modules /\ modules'[i] = modules[i - 1]
                                        /\ id'[modules'[i]] = id[modules[i - 1]]
                                        /\ id'[modules'[i]] \in 1 .. next_module_id - 1
      <3> TAKE i \in DOMAIN modules'
      <3>1. CASE i = 1
        BY <3>1, <2>1, <2>3, <2>4
      <3>2. CASE i # 1
        <4>1. i - 1 \in 1 .. Len(modules) /\ (i - 1) + 1 = i
          BY <3>2, <2>2, <2>4
        <4>2. modules'[i] = modules[i - 1]
          BY <4>1, <2>4
        <4> QED
          BY <4>1, <4>2, <2>2, <2>3 DEF ListOK
      <3> QED
        BY <3>1, <3>2
    <2>6. next_module_id \in Nat \ {0}
      BY FrameworkAssumption DEF FrameworkAssumption, TypeOK
    <2>7. \A i \in DOMAIN modules' : id'[modules'[i]] \in 1 .. next_module_id' - 1
      BY <2>3, <2>5, <2>6
    <2>8. \A i, j \in DOMAIN modules' : i # j => id'[modules'[i]] # id'[modules'[j]]
      <3> SUFFICES ASSUME NEW i \in DOMAIN modules', NEW j \in DOMAIN modules', i # j
                   PROVE  id'[modules'[i]] # id'[modules'[j]]
        OBVIOUS
      <3>1. CASE i = 1 \/ j = 1
        BY <3>1, <2>2, <2>5, <2>6
      <3>2. CASE i # 1 /\ j # 1
        <4>1. i - 1 \in DOMAIN modules /\ j - 1 \in DOMAIN modules /\ i - 1 # j - 1
          BY <3>2, <2>4, <2>5, <2>2
        <4> QED
          BY <3>2, <4>1, <2>5 DEF ListOK
      <3> QED
        BY <3>1, <3>2
    <2>9. \A s \in Threads : creating'[s] = NULL
      BY <1>4 DEF RegisterAdds, TypeOK, ListOK
    <2> QED
      BY <2>7, <2>8, <2>9 DEF ListOK
  <1>5. CASE DestroyModule
    <2>1. \A t \in Threads : creating'[t] = NULL /\ creating[t] = NULL
      BY <1>5 DEF DestroyModule, LoopOK, Threads
    <2>2. modules \in Seq(Mods) /\ Len(modules) \in Nat /\ DOMAIN modules = 1 .. Len(modules) /\ modules # <<>>
      BY <1>5, ListedIs DEF DestroyModule, TypeOK
    <2>3. modules' = Tail(modules) /\ First = modules[1] /\ next_module_id' = next_module_id
      BY <1>5, <2>2 DEF DestroyModule, First
    <2>4. /\ DOMAIN modules' = 1 .. Len(modules) - 1
          /\ \A i \in DOMAIN modules' : i + 1 \in DOMAIN modules /\ modules'[i] = modules[i + 1]
      BY <2>2, <2>3, HeadTailProperties, LenProperties
    <2>5. \A i \in DOMAIN modules' : id'[modules'[i]] = id[modules[i + 1]]
      <3> TAKE i \in DOMAIN modules'
      <3>1. i + 1 # 1 /\ 1 \in DOMAIN modules /\ i + 1 \in DOMAIN modules
        BY <2>2, <2>4
      <3>2. modules[i + 1] # modules[1]
        BY <3>1, Distinct
      <3> QED
        BY <1>5, <2>3, <2>4, <3>1, <3>2, ListedIs DEF DestroyModule, TypeOK
    <2>6. \A i \in DOMAIN modules' : id'[modules'[i]] \in 1 .. next_module_id' - 1
      BY <2>3, <2>4, <2>5 DEF ListOK
    <2>7. \A i, j \in DOMAIN modules' : i # j => id'[modules'[i]] # id'[modules'[j]]
      <3> SUFFICES ASSUME NEW i \in DOMAIN modules', NEW j \in DOMAIN modules', i # j
                   PROVE  id'[modules'[i]] # id'[modules'[j]]
        OBVIOUS
      <3>1. i + 1 # j + 1 /\ i + 1 \in DOMAIN modules /\ j + 1 \in DOMAIN modules
        BY <2>2, <2>4
      <3> QED
        BY <3>1, <2>5 DEF ListOK
    <2> QED
      BY <2>1, <2>6, <2>7 DEF ListOK
  <1> QED
    BY <1>1, <1>2, <1>3, <1>4, <1>5, ListStep

(* A registration adds to the list, the end takes away from it.            *)
LEMMA ListGrows ==
    ASSUME TypeOK, [Next]_vars, ~DestroyModule
    PROVE  Listed \subseteq Listed'
  <1>1. CASE UNCHANGED listVars \/ \E t \in Threads : RegisterBegins(t) \/ InitFails(t)
    <2>1. modules' = modules
      BY <1>1 DEF listVars, RegisterBegins, InitFails
    <2> QED
      BY <2>1 DEF Listed
  <1>2. ASSUME NEW t \in Threads, RegisterAdds(t)
        PROVE  Listed \subseteq Listed'
    <2>1. modules \in Seq(Mods) /\ creating[t] \in Mods /\ modules' = <<creating[t]>> \o modules
      BY <1>2 DEF RegisterAdds, TypeOK
    <2>2. /\ DOMAIN modules = 1 .. Len(modules) /\ Len(modules) \in Nat
          /\ DOMAIN modules' = 1 .. Len(modules) + 1
          /\ \A i \in 1 .. Len(modules) : modules'[i + 1] = modules[i]
      BY <2>1, ListedIs, Prepended
    <2>3. \A i \in DOMAIN modules : i + 1 \in DOMAIN modules' /\ modules'[i + 1] = modules[i]
      BY <2>2
    <2> QED
      BY <2>3 DEF Listed
  <1> QED
    BY <1>1, <1>2, ListStep

LEMMA LoopKept ==
    ASSUME IInv, [Next]_vars
    PROVE  LoopOK'
  <1> USE DEF IInv
  <1>1. CASE UNCHANGED vars
    BY <1>1 DEF vars, listVars, loopVars, LoopOK, Listed
  <1>2. ASSUME NEW t \in Threads, CallStep(t) \/ AppWaits
        PROVE  LoopOK'
    <2>1. UNCHANGED <<loopVars, destroying>> /\ (creating' # creating => destroying = "no")
      BY <1>2 DEF CallStep, AppWaits, RegisterBegins, InitReturns, InitFails, RegisterAdds, Stop,
                  RegisterHandler, EnableHandler, SetHandler, SendPuts, SendBlocks, SendResumes,
                  listVars, Free, MayCall, LoopOK, Threads
    <2>2. creating'["loop"] # NULL => loop \in {"handling", "running"}
      BY <1>2 DEF CallStep, AppWaits, RegisterBegins, InitReturns, InitFails, RegisterAdds, Stop,
                  RegisterHandler, EnableHandler, SetHandler, SendPuts, SendBlocks, SendResumes,
                  listVars, Free, LoopOK, TypeOK, Threads
    <2>3. Listed \subseteq Listed'
      <3>1. ~DestroyModule
        BY <1>2 DEF CallStep, AppWaits, RegisterBegins, InitReturns, InitFails, RegisterAdds, Stop,
                  RegisterHandler, EnableHandler, SetHandler, SendPuts, SendBlocks, SendResumes,
                  Free, MayCall, DestroyModule, LoopOK, TypeOK, Threads, listVars
      <3> QED
        BY <3>1, ListGrows
    <2> QED
      BY <2>1, <2>2, <2>3 DEF LoopOK, loopVars
  <1>3. CASE Start
    BY <1>3 DEF Start, LoopOK, listVars, Listed
  <1>4. CASE Receive
    <2>1. queue \in Seq(Messages) /\ queue # <<>>
      BY <1>4 DEF Receive, TypeOK
    <2>2. msg' \in Messages
      BY <1>4, <2>1, HeadTailProperties DEF Receive
    <2>3. msg' # NULL
      BY <2>2, FrameworkAssumption DEF FrameworkAssumption
    <2>4. current' \in Listed \cup {NULL}
      BY <1>4, FirstListed, ByIdListed DEF Receive
    <2> QED
      BY <1>4, <2>3, <2>4 DEF Receive, LoopOK, listVars, Listed
  <1>5. CASE CallHandler
    BY <1>5 DEF CallHandler, LoopOK, listVars, Listed
  <1>6. CASE SkipModule \/ HandlerReturns
    <2>1. NextReceiver \in Listed \cup {NULL}
      BY <1>6, ReceiverListed DEF SkipModule, HandlerReturns, LoopOK
    <2> QED
      BY <1>6, <2>1 DEF SkipModule, HandlerReturns, LoopOK, listVars, Listed
  <1>7. CASE Release
    BY <1>7 DEF Release, Processed, LoopOK, listVars, Listed
  <1>8. CASE ProcessEnds
    BY <1>8, FirstListed DEF ProcessEnds, LoopOK, listVars, Listed
  <1>9. CASE RunModule
    BY <1>9 DEF RunModule, LoopOK, listVars, Listed
  <1>10. CASE RunReturns
    BY <1>10, AfterListed DEF RunReturns, LoopOK, listVars, Listed
  <1>11. CASE RoundEnds
    BY <1>11 DEF RoundEnds, LoopOK, listVars, Listed
  <1>12. CASE DestroyBegins
    BY <1>12 DEF DestroyBegins, Free, LoopOK, listVars, loopVars, Listed, Threads
  <1>13. CASE DestroyModule
    BY <1>13 DEF DestroyModule, LoopOK, loopVars
  <1>14. CASE DestroyQueue
    BY <1>14 DEF DestroyQueue, LoopOK, listVars, loopVars, Listed
  <1> QED
    BY <1>1, <1>2, <1>3, <1>4, <1>5, <1>6, <1>7, <1>8, <1>9, <1>10, <1>11, <1>12, <1>13, <1>14
       DEF Next, LoopStep, DestroyStep, Threads

(***************************************************************************)
(* Types.                                                                  *)
(***************************************************************************)
LEMMA CastIs == \A m \in Messages : Cast(m) \in Messages
  BY FrameworkAssumption DEF Cast, Messages, FrameworkAssumption

LEMMA TypeKept ==
    ASSUME IInv, [Next]_vars
    PROVE  TypeOK'
  <1> USE FrameworkAssumption DEF IInv
  <1>1. CASE UNCHANGED vars
    BY <1>1 DEF vars, listVars, queueVars, loopVars, TypeOK
  <1>2. ASSUME NEW t \in Threads, RegisterBegins(t)
        PROVE  TypeOK'
    BY <1>2 DEF RegisterBegins, TypeOK, queueVars, loopVars, FrameworkAssumption
  <1>3. ASSUME NEW t \in Threads, InitFails(t)
        PROVE  TypeOK'
    BY <1>3 DEF InitFails, TypeOK, queueVars, loopVars, FrameworkAssumption
  <1>4. ASSUME NEW t \in Threads, RegisterAdds(t)
        PROVE  TypeOK'
    <2>1. creating[t] \in Mods /\ id[creating[t]] = next_module_id
      BY <1>4 DEF RegisterAdds, TypeOK, ListOK
    <2>2. modules' \in Seq(Mods)
      BY <1>4, <2>1, Prepended DEF RegisterAdds, TypeOK
    <2>3. next_module_id \in 1 .. MaxModules
      BY <2>1 DEF TypeOK, FrameworkAssumption
    <2>4. next_module_id' \in 1 .. MaxModules + 1
      BY <1>4, <2>3 DEF RegisterAdds, FrameworkAssumption
    <2> QED
      BY <1>4, <2>2, <2>4 DEF RegisterAdds, TypeOK, queueVars, loopVars
  <1>5. ASSUME NEW t \in Threads, NEW m \in Mods, NEW ty \in Types, NEW value \in {"on", "off"},
               RegisterHandler(t, m, ty) \/ EnableHandler(t, m, ty, value)
        PROVE  TypeOK'
    <2>1. PICK v \in {"on", "off"} : SetHandler(m, ty, v)
      BY <1>5 DEF RegisterHandler, EnableHandler
    <2> QED
      BY <2>1 DEF SetHandler, TypeOK, listVars, queueVars, loopVars
  <1>6. ASSUME NEW t \in Threads, NEW m \in Mods, NEW message \in Messages, SendPuts(t, m, message)
        PROVE  TypeOK'
    BY <1>6, CastIs DEF SendPuts, TypeOK, listVars, loopVars
  <1>7. ASSUME NEW m \in Mods, NEW message \in Messages, SendBlocks(m, message)
        PROVE  TypeOK'
    BY <1>7 DEF SendBlocks, TypeOK, listVars, loopVars
  <1>8. CASE SendResumes
    <2>1. Cast(blocked) \in Messages
      BY <1>8, CastIs DEF SendResumes, TypeOK
    <2> QED
      BY <1>8, <2>1 DEF SendResumes, TypeOK, listVars, loopVars
  <1>9. ASSUME NEW t \in Threads, Stop(t)
        PROVE  TypeOK'
    BY <1>9 DEF Stop, TypeOK, listVars, queueVars, loopVars
  <1>10. CASE Start \/ RunModule \/ Release \/ DestroyBegins
    <2>1. CASE Start
      BY <2>1 DEF Start, TypeOK, listVars, queueVars
    <2>2. CASE RunModule
      BY <2>2 DEF RunModule, TypeOK, listVars, queueVars
    <2>3. CASE Release
      BY <2>3 DEF Release, TypeOK, listVars, queueVars
    <2>4. CASE DestroyBegins
      BY <2>4 DEF DestroyBegins, TypeOK, listVars, queueVars, loopVars
    <2> QED
      BY <1>10, <2>1, <2>2, <2>3, <2>4
  <1>11. CASE Receive
    <2>1. queue \in Seq(Messages) /\ queue # <<>>
      BY <1>11 DEF Receive, TypeOK
    <2>2. msg' \in Messages /\ queue' \in Seq(Messages)
      BY <1>11, <2>1, HeadTailProperties DEF Receive
    <2>3. current' \in Mods \cup {NULL}
      BY <1>11, FirstListed, ByIdListed, ListedIs DEF Receive
    <2>4. due' \subseteq Mods
      BY <1>11, ListedIs DEF Receive, Addressed
    <2>5. served' \in Seq(Mods)
      BY <1>11 DEF Receive
    <2>6. UNCHANGED <<listVars, handlers, is_running, blocked, destroying>> /\ loop' = "dispatch"
      BY <1>11 DEF Receive
    <2> QED
      BY <2>2, <2>3, <2>4, <2>5, <2>6 DEF TypeOK, listVars
  <1>12. CASE CallHandler
    BY <1>12 DEF CallHandler, TypeOK, listVars, queueVars
  <1>13. CASE SkipModule \/ HandlerReturns
    <2>1. current' \in Mods \cup {NULL}
      BY <1>13, ReceiverListed, ListedIs DEF SkipModule, HandlerReturns, LoopOK
    <2> QED
      BY <1>13, <2>1 DEF SkipModule, HandlerReturns, TypeOK, listVars, queueVars
  <1>14. CASE ProcessEnds
    BY <1>14, FirstListed, ListedIs DEF ProcessEnds, TypeOK, listVars, queueVars
  <1>15. CASE RunReturns
    <2>1. current' \in Mods \cup {NULL}
      BY <1>15, AfterListed, ListedIs DEF RunReturns, LoopOK
    <2> QED
      BY <1>15, <2>1 DEF RunReturns, TypeOK, listVars, queueVars
  <1>16. CASE RoundEnds
    BY <1>16 DEF RoundEnds, TypeOK, listVars, queueVars
  <1>17. CASE DestroyModule
    <2>1. modules' \in Seq(Mods) /\ First \in Mods
      BY <1>17, HeadTailProperties DEF DestroyModule, First, TypeOK
    <2> QED
      BY <1>17, <2>1 DEF DestroyModule, TypeOK, queueVars, loopVars, FrameworkAssumption
  <1>18. CASE DestroyQueue
    BY <1>18 DEF DestroyQueue, TypeOK, listVars, loopVars
  <1> QED
    BY <1>1, <1>2, <1>3, <1>4, <1>5, <1>6, <1>7, <1>8, <1>9, <1>10, <1>11, <1>12, <1>13, <1>14,
       <1>15, <1>16, <1>17, <1>18
       DEF Next, CallStep, InitReturns, AppWaits, LoopStep, DestroyStep, Sent

(***************************************************************************)
(* Delivery.                                                               *)
(***************************************************************************)

(* The step from a module to its successor in the list.                    *)
LEMMA NextIs ==
    ASSUME TypeOK, ListOK, NEW c \in Listed, NEW n, n = After(c)
    PROVE  /\ n # NULL => n \in Listed /\ Before(c, n) /\ \A m : Before(m, c) => Before(m, n)
           /\ \A m : Before(c, m) => n # NULL /\ (m = n \/ Before(n, m))
  <1>1. PICK i \in DOMAIN modules : c = modules[i]
    BY ListedIs
  <1>2. Len(modules) \in Nat /\ DOMAIN modules = 1 .. Len(modules)
    BY ListedIs
  <1>3. n = IF i = Len(modules) THEN NULL ELSE modules[i + 1]
    BY <1>1, AfterIs
  <1>4. ASSUME n # NULL
        PROVE  n \in Listed /\ Before(c, n) /\ \A m : Before(m, c) => Before(m, n)
    <2>1. i + 1 \in DOMAIN modules /\ n = modules[i + 1] /\ i < i + 1
      BY <1>2, <1>3, <1>4
    <2>2. n \in Listed /\ Before(c, n)
      BY <1>1, <2>1, ListedIs DEF Before
    <2>3. ASSUME NEW m, Before(m, c)
          PROVE  Before(m, n)
      <3>1. PICK j, k \in DOMAIN modules : j < k /\ modules[j] = m /\ modules[k] = c
        BY <2>3 DEF Before
      <3>2. k = i
        BY <1>1, <3>1, Distinct
      <3>3. j < i + 1
        BY <1>2, <3>1, <3>2
      <3> QED
        BY <2>1, <3>1, <3>3 DEF Before
    <2> QED
      BY <2>2, <2>3
  <1>5. ASSUME NEW m, Before(c, m)
        PROVE  n # NULL /\ (m = n \/ Before(n, m))
    <2>1. PICK j, k \in DOMAIN modules : j < k /\ modules[j] = c /\ modules[k] = m
      BY <1>5 DEF Before
    <2>2. j = i
      BY <1>1, <2>1, Distinct
    <2>3. i # Len(modules) /\ i + 1 \in DOMAIN modules /\ (k = i + 1 \/ i + 1 < k)
      BY <1>2, <2>1, <2>2
    <2>4. n = modules[i + 1] /\ n # NULL
      BY <1>3, <2>3, ListedIs, NotNull
    <2> QED
      BY <2>1, <2>3, <2>4 DEF Before
  <1> QED
    BY <1>4, <1>5

(* No module stands before itself.                                         *)
LEMMA BeforeIrreflexive ==
    ASSUME TypeOK, ListOK, NEW m
    PROVE  ~Before(m, m)
  <1> SUFFICES ASSUME Before(m, m) PROVE FALSE
    OBVIOUS
  <1>1. PICK i, j \in DOMAIN modules : i < j /\ modules[i] = m /\ modules[j] = m
    BY DEF Before
  <1>2. i = j
    BY <1>1, Distinct
  <1> QED
    BY <1>1, <1>2, ListedIs

LEMMA BeforeKept ==
    ASSUME TypeOK, [Next]_vars, ~DestroyModule, NEW a, NEW b, Before(a, b)
    PROVE  Before(a, b)'
  <1>1. PICK i, j \in DOMAIN modules : i < j /\ modules[i] = a /\ modules[j] = b
    BY DEF Before
  <1>2. CASE modules' = modules
    BY <1>1, <1>2 DEF Before
  <1>3. ASSUME NEW t \in Threads, RegisterAdds(t)
        PROVE  Before(a, b)'
    <2>1. modules \in Seq(Mods) /\ creating[t] \in Mods /\ modules' = <<creating[t]>> \o modules
      BY <1>3 DEF RegisterAdds, TypeOK
    <2>2. /\ DOMAIN modules = 1 .. Len(modules) /\ Len(modules) \in Nat
          /\ DOMAIN modules' = 1 .. Len(modules) + 1
          /\ \A n \in 1 .. Len(modules) : modules'[n + 1] = modules[n]
      BY <2>1, ListedIs, Prepended
    <2>3. /\ i + 1 \in DOMAIN modules' /\ j + 1 \in DOMAIN modules' /\ i + 1 < j + 1
          /\ modules'[i + 1] = a /\ modules'[j + 1] = b
      BY <1>1, <2>2
    <2> QED
      BY <2>3 DEF Before
  <1> QED
    BY <1>2, <1>3, ListStep DEF listVars, RegisterBegins, InitFails

LEMMA IdKept ==
    ASSUME IInv, [Next]_vars, ~DestroyModule, NEW m \in Listed
    PROVE  id'[m] = id[m]
  <1> USE DEF IInv
  <1>1. m \in Mods /\ id[m] \in 1 .. next_module_id - 1 /\ id[m] # 0
    BY ListedIs, FrameworkAssumption DEF ListOK, TypeOK, FrameworkAssumption
  <1>2. CASE UNCHANGED listVars
    BY <1>2 DEF listVars
  <1>3. ASSUME NEW t \in Threads, RegisterBegins(t)
        PROVE  id'[m] = id[m]
    BY <1>1, <1>3 DEF RegisterBegins, TypeOK
  <1>4. ASSUME NEW t \in Threads, InitFails(t)
        PROVE  id'[m] = id[m]
    <2>1. id[creating[t]] = next_module_id /\ next_module_id \in Nat
      BY <1>4, FrameworkAssumption DEF InitFails, ListOK, TypeOK, FrameworkAssumption
    <2>2. m # creating[t]
      BY <1>1, <2>1
    <2> QED
      BY <1>1, <1>4, <2>2 DEF InitFails, TypeOK
  <1>5. ASSUME NEW t \in Threads, RegisterAdds(t)
        PROVE  id'[m] = id[m]
    BY <1>5 DEF RegisterAdds
  <1> QED
    BY <1>2, <1>3, <1>4, <1>5, ListStep

(* What callbacks and app do to the handlers that are due.                 *)
LEMMA DueKept ==
    ASSUME IInv, NEW t \in Threads, CallStep(t) \/ AppWaits, msg # NULL
    PROVE  due' \subseteq due /\ \A m \in due' : handlers'[m][msg.sent] = "on"
  <1> USE DEF IInv
  <1>1. \A m \in due : m \in Mods /\ m \in Listed /\ handlers[m][msg.sent] = "on"
    BY ListedIs DEF DeliveryOK
  <1>2. CASE UNCHANGED <<handlers, due>>
    BY <1>1, <1>2
  <1>3. CASE InitFails(t)
    <2>1. id[creating[t]] = next_module_id /\ next_module_id \in Nat
      BY <1>3, FrameworkAssumption DEF InitFails, ListOK, TypeOK, FrameworkAssumption
    <2>2. \A m \in due : m # creating[t]
      BY <1>1, <2>1, ListedIs DEF ListOK
    <2> QED
      BY <1>1, <1>3, <2>2 DEF InitFails, TypeOK
  <1>4. ASSUME NEW m \in Mods, NEW ty \in Types, NEW value \in {"on", "off"}, SetHandler(m, ty, value)
        PROVE  due' \subseteq due /\ \A k \in due' : handlers'[k][msg.sent] = "on"
    <2>1. CASE value = "on"
      BY <1>1, <1>4, <2>1 DEF SetHandler, TypeOK
    <2>2. CASE value = "off"
      BY <1>1, <1>4, <2>2 DEF SetHandler, TypeOK
    <2> QED
      BY <2>1, <2>2
  <1> QED
    BY <1>2, <1>3, <1>4 DEF CallStep, AppWaits, RegisterBegins, InitReturns, RegisterAdds, Stop,
       RegisterHandler, EnableHandler, SendPuts, SendBlocks, SendResumes

LEMMA ReceiveDelivers ==
    ASSUME IInv, Receive
    PROVE  DeliveryOK'
  <1> USE DEF IInv
  <1>1. /\ served' = <<>> /\ loop' = "dispatch"
        /\ current' = IF msg'.receiver = Broadcast THEN First ELSE ModuleById(msg'.receiver)
        /\ due' = {m \in Addressed(msg') : handlers[m][msg'.sent] = "on"}
        /\ UNCHANGED <<modules, id, handlers>>
    BY DEF Receive, listVars
  <1>2. \A m : ~Served(m)'
    BY <1>1 DEF Served
  <1>3. current' # NULL => msg'.receiver \in {Broadcast, id'[current']}
    BY <1>1 DEF ModuleById
  <1>4. ASSUME NEW m \in due'
        PROVE  /\ m \in Listed' /\ msg'.receiver \in {Broadcast, id'[m]}
               /\ handlers'[m][msg'.sent] = "on"
               /\ Ahead(m)'
    <2>1. m \in Listed /\ msg'.receiver \in {Broadcast, id[m]} /\ handlers[m][msg'.sent] = "on"
      BY <1>1, <1>4 DEF Addressed
    <2>2. m \in Listed' /\ \A a, b : Before(a, b)' <=> Before(a, b)
      BY <1>1, <2>1 DEF Listed, Before
    <2>3. PICK i \in DOMAIN modules : m = modules[i]
      BY <2>1, ListedIs
    <2>4. ASSUME msg'.receiver = Broadcast
          PROVE  Ahead(m)'
      <3>1. 1 \in DOMAIN modules /\ (i = 1 \/ 1 < i)
        BY <2>3, ListedIs
      <3>2. current' = modules[1]
        <4>1. modules \in Seq(Mods) /\ modules # <<>>
          BY <3>1 DEF TypeOK
        <4> QED
          BY <1>1, <2>4, <4>1 DEF First
      <3>3. current' # NULL
        BY <3>1, <3>2, ListedIs, NotNull
      <3>4. m = current' \/ Before(current', m)
        BY <2>3, <3>1, <3>2 DEF Before
      <3>5. m = current' \/ Before(current, m)'
        BY <1>1, <3>4 DEF Before
      <3> QED
        BY <1>1, <3>3, <3>5 DEF Ahead
    <2>5. ASSUME msg'.receiver # Broadcast
          PROVE  Ahead(m)'
      <3>1. /\ current' = CHOOSE k \in Listed : id[k] = msg'.receiver
            /\ \E k \in Listed : id[k] = msg'.receiver
        BY <1>1, <2>1, <2>5 DEF ModuleById
      <3>2. current' \in Listed /\ id[current'] = id[m]
        BY <2>1, <2>5, <3>1
      <3>3. PICK j \in DOMAIN modules : current' = modules[j]
        BY <3>2, ListedIs
      <3>4. current' = m
        BY <2>3, <3>2, <3>3 DEF ListOK
      <3>5. current' # NULL
        BY <3>2, ListedIs, NotNull
      <3> QED
        BY <1>1, <3>4, <3>5 DEF Ahead
    <2> QED
      BY <1>1, <2>1, <2>2, <2>4, <2>5
  <1> QED
    BY <1>1, <1>2, <1>3, <1>4 DEF DeliveryOK

LEMMA CallDelivers ==
    ASSUME IInv, [Next]_vars, NEW t \in Threads, CallStep(t) \/ AppWaits
    PROVE  DeliveryOK'
  <1> USE DEF IInv
  <1>1. UNCHANGED <<loop, current, msg, served>>
    BY DEF CallStep, AppWaits, RegisterBegins, InitReturns, InitFails, RegisterAdds, Stop,
           RegisterHandler, EnableHandler, SetHandler, SendPuts, SendBlocks, SendResumes, loopVars
  <1>2. SUFFICES ASSUME msg # NULL, ~DestroyModule
                 PROVE  DeliveryOK'
    BY <1>1 DEF DeliveryOK, DestroyModule, LoopOK
  <1>3. \A a, b : Before(a, b) =>
            \E i, j \in DOMAIN modules' : i < j /\ modules'[i] = a /\ modules'[j] = b
    <2> TAKE a, b
    <2>1. Before(a, b) => Before(a, b)'
      BY <1>2, BeforeKept
    <2> QED
      BY <2>1 DEF Before
  <1>4. \A m \in Listed : m \in Listed' /\ id'[m] = id[m]
    BY <1>2, ListGrows, IdKept
  <1>5. due' \subseteq due /\ \A m \in due' : handlers'[m][msg.sent] = "on"
    BY <1>2, DueKept
  <1>6. /\ \A i, j \in DOMAIN served' : served'[i] = served'[j] => i = j
        /\ \A i \in DOMAIN served' : served'[i] \in Listed' /\ msg'.receiver \in {Broadcast, id'[served'[i]]}
    BY <1>1, <1>2, <1>4 DEF DeliveryOK
  <1>7. current' # NULL => msg'.receiver \in {Broadcast, id'[current']}
    BY <1>1, <1>2, <1>4 DEF DeliveryOK, LoopOK
  <1>8. \A m : Served(m)' => m \in Listed /\ Served(m)
    BY <1>1, <1>2 DEF DeliveryOK, Served
  <1>9. loop' = "dispatch" /\ current' # NULL => \A m \in Listed' : Served(m)' => Before(m, current)'
    BY <1>1, <1>2, <1>3, <1>8 DEF DeliveryOK, Before
  <1>10. loop' = "handling" => Served(current)'
    BY <1>1, <1>2 DEF DeliveryOK, Served
  <1>11. loop' = "handling" => \A m \in Listed' : Served(m)' => m = current' \/ Before(m, current)'
    BY <1>1, <1>2, <1>3, <1>8 DEF DeliveryOK, Before
  <1>12. ASSUME NEW m \in due'
         PROVE  msg'.sent = msg'.type => Served(m)' \/ Ahead(m)'
    <2>1. msg.sent = msg.type => Served(m) \/ Ahead(m)
      BY <1>2, <1>5 DEF DeliveryOK
    <2>2. CASE Served(m)
      BY <1>1, <2>2 DEF Served
    <2>3. CASE Ahead(m)
      <3>1. Before(current, m) => Before(current, m)'
        BY <1>1, <1>3 DEF Before
      <3> QED
        BY <1>1, <2>3, <3>1 DEF Ahead
    <2> QED
      BY <1>1, <2>1, <2>2, <2>3
  <1>13. \A m \in due' : /\ m \in Listed' /\ msg'.receiver \in {Broadcast, id'[m]}
                         /\ handlers'[m][msg'.sent] = "on"
    BY <1>1, <1>2, <1>4, <1>5 DEF DeliveryOK
  <1> QED
    BY <1>6, <1>7, <1>9, <1>10, <1>11, <1>12, <1>13 DEF DeliveryOK

(* A handler is called.                                                    *)
LEMMA CallHandlerDelivers ==
    ASSUME IInv, CallHandler
    PROVE  DeliveryOK'
  <1> USE DEF IInv
  <1>1. /\ served' = Append(served, current) /\ loop = "dispatch" /\ loop' = "handling"
        /\ current # NULL /\ UNCHANGED <<modules, id, handlers, current, msg, due>>
    BY DEF CallHandler, listVars
  <1>2. /\ served \in Seq(Mods) /\ current \in Mods /\ current \in Listed /\ msg # NULL
        /\ Len(served) \in Nat /\ DOMAIN served = 1 .. Len(served)
    BY <1>1, LenProperties DEF TypeOK, LoopOK
  <1>3. /\ DOMAIN served' = 1 .. Len(served) + 1
        /\ \A i \in 1 .. Len(served) : served'[i] = served[i]
        /\ served'[Len(served) + 1] = current
    BY <1>1, <1>2, AppendProperties, LenProperties
  <1>4. \A a, b : Before(a, b)' <=> Before(a, b)
    BY <1>1 DEF Before
  <1>5. \A m : Served(m)' <=> Served(m) \/ m = current
    <2> TAKE m
    <2>1. Served(m) => Served(m)'
      BY <1>2, <1>3 DEF Served
    <2>2. m = current => Served(m)'
      BY <1>2, <1>3 DEF Served
    <2>3. Served(m)' => Served(m) \/ m = current
      <3> SUFFICES ASSUME NEW i \in DOMAIN served', served'[i] = m
                   PROVE  Served(m) \/ m = current
        BY DEF Served
      <3>1. i \in 1 .. Len(served) \/ i = Len(served) + 1
        BY <1>2, <1>3
      <3> QED
        BY <1>2, <1>3, <3>1 DEF Served
    <2> QED
      BY <2>1, <2>2, <2>3
  <1>6. \A m : Served(m) => m \in Listed /\ Before(m, current) /\ m # current
    <2> SUFFICES ASSUME NEW m, Served(m)
                 PROVE  m \in Listed /\ Before(m, current) /\ m # current
      OBVIOUS
    <2>1. m \in Listed /\ Before(m, current)
      BY <1>1, <1>2 DEF DeliveryOK, Served
    <2> QED
      BY <2>1, BeforeIrreflexive
  <1>7. ASSUME NEW i \in DOMAIN served', NEW j \in DOMAIN served', served'[i] = served'[j]
        PROVE  i = j
    <2>1. (i \in DOMAIN served \/ i = Len(served) + 1) /\ (j \in DOMAIN served \/ j = Len(served) + 1)
      BY <1>2, <1>3
    <2>2. \A k \in DOMAIN served : served[k] # current
      BY <1>6 DEF Served
    <2>3. \A k, n \in DOMAIN served : served[k] = served[n] => k = n
      BY <1>2 DEF DeliveryOK
    <2> QED
      BY <1>2, <1>3, <1>7, <2>1, <2>2, <2>3
  <1>8. \A m : Served(m)' => m \in Listed' /\ msg'.receiver \in {Broadcast, id'[m]}
    BY <1>1, <1>2, <1>5 DEF DeliveryOK, Served, Listed
  <1>9. \A i \in DOMAIN served' : served'[i] \in Listed' /\ msg'.receiver \in {Broadcast, id'[served'[i]]}
    <2> TAKE i \in DOMAIN served'
    <2>1. \A m : m = served'[i] => Served(m)'
      BY DEF Served
    <2> QED
      BY <1>8, <2>1
  <1>10. msg'.sent = msg'.type => \A m \in due' : Served(m)' \/ Ahead(m)'
    BY <1>1, <1>2, <1>4, <1>5 DEF DeliveryOK, Ahead, Before
  <1>11. Served(current)' /\ \A m \in Listed' : Served(m)' => m = current' \/ Before(m, current)'
    <2>1. Served(current)'
      BY <1>1, <1>2, <1>3 DEF Served
    <2>2. \A m : Served(m)' => m = current' \/ Before(m, current)'
      BY <1>1, <1>5, <1>6 DEF Before
    <2> QED
      BY <2>1, <2>2
  <1>12. \A m \in due' : /\ m \in Listed' /\ msg'.receiver \in {Broadcast, id'[m]}
                         /\ handlers'[m][msg'.sent] = "on"
    BY <1>1, <1>2 DEF DeliveryOK, Listed
  <1>13. current' # NULL => msg'.receiver \in {Broadcast, id'[current']}
    BY <1>1, <1>2 DEF DeliveryOK
  <1> QED
    BY <1>1, <1>7, <1>9, <1>10, <1>11, <1>12, <1>13 DEF DeliveryOK

(* The loop leaves a module: one without a handler, or one whose handler   *)
(* returns.                                                                *)
LEMMA ModuleLeft ==
    ASSUME IInv, SkipModule \/ HandlerReturns
    PROVE  DeliveryOK'
  <1> USE DEF IInv
  <1>1. /\ loop' = "dispatch" /\ current' = NextReceiver
        /\ UNCHANGED <<modules, id, handlers, served, msg, due>>
    BY DEF SkipModule, HandlerReturns, listVars
  <1>2. current # NULL /\ current \in Listed /\ msg # NULL
    BY DEF SkipModule, HandlerReturns, LoopOK
  <1>3. PICK c : c = current
    OBVIOUS
  <1>4. PICK n : n = NextReceiver
    OBVIOUS
  <1>5. \A a, b : Before(a, b)' <=> Before(a, b)
    BY <1>1 DEF Before
  <1>6. \A m : Served(m)' <=> Served(m)
    BY <1>1 DEF Served
  <1>7. \A m \in Listed : Served(m) => m = c \/ Before(m, c)
    BY <1>2, <1>3 DEF SkipModule, HandlerReturns, DeliveryOK, Before
  <1>8. ASSUME NEW m \in due, msg.sent = msg.type
        PROVE  Served(m) \/ Before(c, m)
    <2>1. CASE SkipModule
      BY <1>2, <1>3, <1>8, <2>1 DEF SkipModule, DeliveryOK, Ahead, Before
    <2>2. CASE HandlerReturns
      BY <1>2, <1>3, <1>8, <2>2 DEF HandlerReturns, DeliveryOK, Ahead, Before
    <2> QED
      BY <2>1, <2>2
  <1>9. n # NULL => /\ n \in Listed /\ msg.receiver = Broadcast
                    /\ \A m \in Listed : Served(m) => Before(m, n)
    <2> SUFFICES ASSUME n # NULL
                 PROVE  /\ n \in Listed /\ msg.receiver = Broadcast
                        /\ \A m \in Listed : Served(m) => Before(m, n)
      OBVIOUS
    <2>1. msg.receiver = Broadcast /\ n = After(c)
      BY <1>3, <1>4 DEF NextReceiver
    <2>2. n \in Listed /\ Before(c, n) /\ \A m : Before(m, c) => Before(m, n)
      BY <1>2, <1>3, <2>1, NextIs
    <2> QED
      BY <1>7, <2>1, <2>2
  <1>10. msg.sent = msg.type => \A m \in due : Served(m) \/ (n # NULL /\ (m = n \/ Before(n, m)))
    <2> SUFFICES ASSUME msg.sent = msg.type, NEW m \in due, ~Served(m)
                 PROVE  n # NULL /\ (m = n \/ Before(n, m))
      OBVIOUS
    <2>1. Before(c, m) /\ m \in Listed /\ msg.receiver \in {Broadcast, id[m]}
      BY <1>2, <1>8 DEF DeliveryOK
    <2>2. msg.receiver = Broadcast
      <3> SUFFICES ASSUME msg.receiver # Broadcast PROVE FALSE
        OBVIOUS
      <3>1. id[m] = id[c]
        BY <1>2, <1>3, <2>1 DEF DeliveryOK
      <3>2. m = c
        BY <1>2, <1>3, <2>1, <3>1, ListedIs DEF ListOK
      <3> QED
        BY <2>1, <3>2, BeforeIrreflexive
    <2>3. n = After(c)
      BY <1>3, <1>4, <2>2 DEF NextReceiver
    <2> QED
      BY <1>2, <1>3, <2>1, <2>3, NextIs
  <1>11. n = current' /\ (\A m : Before(m, n) <=> Before(m, current)') /\ (\A m : Before(n, m) <=> Before(current, m)')
    BY <1>1, <1>4 DEF Before
  <1>12. msg'.sent = msg'.type => \A m \in due' : Served(m)' \/ Ahead(m)'
    BY <1>1, <1>6, <1>10, <1>11 DEF Ahead
  <1>13. current' # NULL => \A m \in Listed' : Served(m)' => Before(m, current)'
    BY <1>1, <1>6, <1>9, <1>11 DEF Listed
  <1>14. /\ \A i, j \in DOMAIN served' : served'[i] = served'[j] => i = j
         /\ \A i \in DOMAIN served' : served'[i] \in Listed' /\ msg'.receiver \in {Broadcast, id'[served'[i]]}
    BY <1>1, <1>2 DEF DeliveryOK, Listed
  <1>15. current' # NULL => msg'.receiver \in {Broadcast, id'[current']}
    BY <1>1, <1>9, <1>11
  <1>16. \A m \in due' : /\ m \in Listed' /\ msg'.receiver \in {Broadcast, id'[m]}
                         /\ handlers'[m][msg'.sent] = "on"
    BY <1>1, <1>2 DEF DeliveryOK, Listed
  <1> QED
    BY <1>1, <1>12, <1>13, <1>14, <1>15, <1>16 DEF DeliveryOK

LEMMA DeliveryKept ==
    ASSUME IInv, [Next]_vars
    PROVE  DeliveryOK'
  <1> USE DEF IInv
  <1>1. CASE UNCHANGED vars
    BY <1>1 DEF vars, listVars, loopVars, DeliveryOK, Listed, Served, Ahead, Before
  <1>2. ASSUME NEW t \in Threads, CallStep(t) \/ AppWaits
        PROVE  DeliveryOK'
    BY <1>2, CallDelivers
  <1>3. CASE Receive
    BY <1>3, ReceiveDelivers
  <1>4. CASE CallHandler
    BY <1>4, CallHandlerDelivers
  <1>5. CASE SkipModule \/ HandlerReturns
    BY <1>5, ModuleLeft
  <1>6. CASE Release
    BY <1>6 DEF Release, DeliveryOK
  <1>7. CASE Start \/ ProcessEnds \/ RunModule \/ RunReturns \/ RoundEnds
    BY <1>7 DEF Start, ProcessEnds, RunModule, RunReturns, RoundEnds, LoopOK, DeliveryOK, loopVars
  <1>8. CASE DestroyStep
    BY <1>8 DEF DestroyStep, DestroyBegins, DestroyModule, DestroyQueue, LoopOK, DeliveryOK, loopVars
  <1> QED
    BY <1>1, <1>2, <1>3, <1>4, <1>5, <1>6, <1>7, <1>8 DEF Next, LoopStep, Threads

(* The inductive invariant holds at every reachable state.                 *)
THEOREM Invariance == Spec => []IInv
  <1>1. Init => IInv
    <2>1. SUFFICES ASSUME Init PROVE IInv
      OBVIOUS
    <2>2. TypeOK
      <3>1. /\ id \in [Mods -> 0 .. MaxModules] /\ next_module_id \in 1 .. MaxModules + 1
            /\ handlers \in [Mods -> [Types -> {"none", "on", "off"}]]
            /\ creating \in [Threads -> Mods \cup {NULL}]
        BY <2>1, FrameworkAssumption DEF Init, FrameworkAssumption
      <3>2. modules \in Seq(Mods) /\ queue \in Seq(Messages) /\ served \in Seq(Mods)
        BY <2>1 DEF Init
      <3> QED
        BY <2>1, <3>1, <3>2 DEF Init, TypeOK
    <2>3. ListOK
      BY <2>1 DEF Init, ListOK
    <2>4. LoopOK
      BY <2>1 DEF Init, LoopOK, Threads
    <2>5. DeliveryOK
      BY <2>1 DEF Init, DeliveryOK
    <2> QED
      BY <2>2, <2>3, <2>4, <2>5 DEF IInv
  <1>2. IInv /\ [Next]_vars => IInv'
    BY TypeKept, ListKept, LoopKept, DeliveryKept DEF IInv
  <1> QED
    BY <1>1, <1>2, PTL DEF Spec

(* Every variable keeps its type. *)
THEOREM TypeCorrect == Spec => []TypeOK
  BY Invariance, PTL DEF IInv

(* No two modules have the same id, however often init functions fail.     *)
THEOREM IdsNeverRepeat == Spec => []IdsUnique
  <1>1. IInv => IdsUnique
    <2>1. SUFFICES ASSUME IInv PROVE IdsUnique
      OBVIOUS
    <2>2. \A m \in Listed : id[m] \in 1 .. next_module_id - 1
      BY <2>1, ListedIs DEF IInv, ListOK
    <2>3. \A m \in Initialising : id[m] = next_module_id
      BY <2>1 DEF IInv, ListOK, Initialising
    <2>4. \A m, k \in Listed : m # k => id[m] # id[k]
      BY <2>1, ListedIs DEF IInv, ListOK
    <2>5. \A m, k \in Initialising : m = k
      BY <2>1 DEF IInv, ListOK, Initialising
    <2>6. next_module_id \in Nat
      BY <2>1, FrameworkAssumption DEF IInv, TypeOK, FrameworkAssumption
    <2> QED
      BY <2>2, <2>3, <2>4, <2>5, <2>6 DEF IdsUnique
  <1> QED
    BY <1>1, Invariance, PTL

(* A message calls no module but those it is addressed to, each at most     *)
(* once, and one sent with the type it arrives with reaches every module   *)
(* that keeps a handler for it, whatever the handlers register, enable and *)
(* disable meanwhile.                                                      *)
THEOREM DeliveryIsExact == Spec => []DeliveredAsAddressed
  <1>1. IInv => DeliveredAsAddressed
    <2>1. SUFFICES ASSUME IInv, msg # NULL PROVE DeliveredAsAddressed
      BY DEF DeliveredAsAddressed
    <2>2. Processed /\ msg.sent = msg.type => due \subseteq Reached
      BY <2>1 DEF IInv, DeliveryOK, Served, Ahead, Processed, Reached
    <2> QED
      BY <2>1, <2>2 DEF IInv, DeliveryOK, DeliveredAsAddressed, Reached
  <1> QED
    BY <1>1, Invariance, PTL
=============================================================================
