-------------------------- MODULE ModuleFramework --------------------------
(***************************************************************************)
(* The module framework of src/common/module_manager.c.  One thread runs   *)
(* the main loop: it takes the messages of the queue one by one and calls  *)
(* the handlers of the modules they are for, then every module's run       *)
(* function.  Callbacks of the loop and another thread, "app", register    *)
(* modules and handlers, send messages and stop the loop at any moment.    *)
(*                                                                         *)
(* The queue is the FIFO that MsgQueue.tla implements for one sender at a  *)
(* time; the message being processed keeps its slot until it is released.  *)
(***************************************************************************)
EXTENDS Integers, Sequences, FiniteSets

CONSTANTS Mods,          \* heap blocks of modules
          NULL,
          Types,         \* message types, 0 among them
          MaxMsgs,       \* framework_create's max_msg_count
          MaxModules     \* bound: registrations that succeed

Threads == {"loop", "app"}
Ids == 1 .. MaxModules
Broadcast == 0

VARIABLES modules,         \* the list, its head first
          id,              \* of each block, 0 when it is not allocated
          next_module_id,
          handlers,        \* of each module, by message type
          is_running,
          queue,
          creating,        \* the module whose init function a thread is in
          blocked,         \* the message app waits to put in the full queue
          loop,            \* where the main loop is
          current,         \* where its traversal of the list is
          msg,             \* the message it is processing
          served,          \* the modules whose handler it has called for msg
          due,             \* those with a handler for the type msg was sent with
          destroying

listVars == <<modules, id, next_module_id, creating>>
queueVars == <<queue, blocked>>
loopVars == <<loop, current, msg, served>>
vars == <<listVars, handlers, is_running, queueVars, loopVars, due, destroying>>

(* A message, with the type its sender gave it and the one it arrives with. *)
Messages == [receiver : 0 .. MaxModules, sent : Types, type : Types]

ASSUME FrameworkAssumption ==
    /\ NULL \notin Mods \cup Messages /\ 0 \in Types
    /\ MaxMsgs \in Nat \ {0} /\ MaxModules \in Nat

TypeOK ==
    /\ modules \in Seq(Mods)
    /\ id \in [Mods -> 0 .. MaxModules]
    /\ next_module_id \in 1 .. MaxModules + 1
    /\ handlers \in [Mods -> [Types -> {"none", "on", "off"}]]
    /\ is_running \in BOOLEAN
    /\ queue \in Seq(Messages)
    /\ creating \in [Threads -> Mods \cup {NULL}]
    /\ blocked \in Messages \cup {NULL}
    /\ loop \in {"out", "process", "dispatch", "handling", "runAll", "running"}
    /\ current \in Mods \cup {NULL}
    /\ msg \in Messages \cup {NULL}
    /\ served \in Seq(Mods)
    /\ due \in SUBSET Mods
    /\ destroying \in {"no", "modules", "done"}

(* framework_create *)
Init ==
    /\ modules = <<>> /\ next_module_id = 1
    /\ id = [m \in Mods |-> 0]
    /\ handlers = [m \in Mods |-> [ty \in Types |-> "none"]]
    /\ is_running = FALSE
    /\ queue = <<>> /\ blocked = NULL
    /\ creating = [t \in Threads |-> NULL]
    /\ loop = "out" /\ current = NULL /\ msg = NULL /\ served = <<>> /\ due = {}
    /\ destroying = "no"

Listed == {modules[i] : i \in DOMAIN modules}
Initialising == {creating[t] : t \in Threads} \ {NULL}

(* get_module_by_id: the first module of the list with that id *)
ModuleById(n) ==
    IF \E m \in Listed : id[m] = n THEN CHOOSE m \in Listed : id[m] = n ELSE NULL

First == IF modules = <<>> THEN NULL ELSE Head(modules)
After(m) ==
    LET i == CHOOSE j \in DOMAIN modules : modules[j] = m
    IN  IF i = Len(modules) THEN NULL ELSE modules[i + 1]

(* Who may call the framework: app between two calls, and the loop's thread *)
(* from a handler or a run function.                                       *)
Free(t) == /\ creating[t] = NULL /\ destroying = "no"
           /\ t = "app" => blocked = NULL
           /\ t = "loop" => loop \in {"handling", "running"}

(***************************************************************************)
(* framework_register_module: the module gets the next id, which is only   *)
(* used up after its init function has succeeded.  Client rule: one        *)
(* registration at a time.                                                 *)
(***************************************************************************)
RegisterBegins(t) ==
    /\ Free(t) /\ Initialising = {} /\ next_module_id <= MaxModules
    /\ \E m \in Mods :
          /\ id[m] = 0
          /\ id' = [id EXCEPT ![m] = next_module_id]
          /\ creating' = [creating EXCEPT ![t] = m]
    /\ UNCHANGED <<modules, next_module_id, handlers, is_running, queueVars, loopVars, due, destroying>>

InitFails(t) ==
    LET m == creating[t] IN
    /\ m # NULL
    /\ id' = [id EXCEPT ![m] = 0]
    /\ handlers' = [handlers EXCEPT ![m] = [ty \in Types |-> "none"]]
    /\ creating' = [creating EXCEPT ![t] = NULL]
    /\ UNCHANGED <<modules, next_module_id, is_running, queueVars, loopVars, due, destroying>>

RegisterReusesId(t) ==   \* fault: the next id is not advanced
    LET m == creating[t] IN
    /\ m # NULL
    /\ modules' = <<m>> \o modules
    /\ creating' = [creating EXCEPT ![t] = NULL]
    /\ UNCHANGED <<id, next_module_id, handlers, is_running, queueVars, loopVars, due, destroying>>

RegisterAdds(t) ==
    LET m == creating[t] IN
    /\ m # NULL
    /\ modules' = <<m>> \o modules
    /\ next_module_id' = next_module_id + 1
    /\ creating' = [creating EXCEPT ![t] = NULL]
    /\ UNCHANGED <<id, handlers, is_running, queueVars, loopVars, due, destroying>>

(***************************************************************************)
(* module_register_handler and module_enable_handler, on a module that is  *)
(* in the list or in its init function: one entry per message type.        *)
(* Neither takes a lock and the first reallocates the table.  Client rule: *)
(* while the loop runs, the handlers of a listed module are set by the     *)
(* callbacks of the loop only.                                             *)
(***************************************************************************)
SetHandler(m, ty, value) ==
    /\ m \in Listed \cup Initialising
    /\ handlers' = [handlers EXCEPT ![m][ty] = value]
    /\ due' = {k \in due : handlers'[k][msg.sent] = "on"}
    /\ UNCHANGED <<listVars, is_running, queueVars, loopVars, destroying>>

MayCall(t, m) == \/ Free(t) /\ (t = "app" => loop = "out")
                 \/ destroying = "no" /\ creating[t] = m

RegisterHandler(t, m, ty) == MayCall(t, m) /\ SetHandler(m, ty, "on")
EnableHandler(t, m, ty, value) ==
    MayCall(t, m) /\ handlers[m][ty] # "none" /\ SetHandler(m, ty, value)

(***************************************************************************)
(* framework_send_message, module_send_message.  msg_queue_send copies the *)
(* fields of a T_Msg out of the T_ModuleMsg it is given: the receiver is   *)
(* copied as a string, the type, the data and its length are not copied,   *)
(* and what arrives is of type 0.                                          *)
(***************************************************************************)
Sent == {m \in Messages : m.type = m.sent}
Cast(m) == [m EXCEPT !.type = 0]

(* A message occupies a slot from the send until it is released.           *)
Used == Len(queue) + (IF msg = NULL THEN 0 ELSE 1)

MaySend(t, m) == Free(t) /\ is_running /\ m \in Listed

SendPuts(t, m, message) ==
    /\ MaySend(t, m) /\ Used < MaxMsgs
    /\ queue' = Append(queue, Cast(message))
    /\ UNCHANGED <<listVars, handlers, is_running, blocked, loopVars, due, destroying>>

(* Client rule: only app waits in a send; a callback of the loop that did  *)
(* would wait for itself.                                                  *)
SendBlocks(m, message) ==
    /\ MaySend("app", m) /\ Used = MaxMsgs
    /\ blocked' = message
    /\ UNCHANGED <<listVars, handlers, is_running, queue, loopVars, due, destroying>>

SendResumes ==
    /\ blocked # NULL /\ Used < MaxMsgs
    /\ queue' = Append(queue, Cast(blocked))
    /\ blocked' = NULL
    /\ UNCHANGED <<listVars, handlers, is_running, loopVars, due, destroying>>

(* framework_stop_main_loop *)
Stop(t) ==
    /\ Free(t)
    /\ is_running' = FALSE
    /\ UNCHANGED <<listVars, handlers, queueVars, loopVars, due, destroying>>
-----------------------------------------------------------------------------
(***************************************************************************)
(* framework_start_main_loop and process_framework_message_queue.          *)
(***************************************************************************)
Start ==
    /\ loop = "out" /\ ~is_running /\ destroying = "no"
    /\ is_running' = TRUE
    /\ loop' = "process"
    /\ UNCHANGED <<listVars, handlers, queueVars, current, msg, served, due, destroying>>

Addressed(m) == {k \in Listed : m.receiver \in {Broadcast, id[k]}}

Receive ==
    /\ loop = "process" /\ is_running /\ queue # <<>>
    /\ msg' = Head(queue) /\ queue' = Tail(queue)
    /\ current' = IF msg'.receiver = Broadcast THEN First ELSE ModuleById(msg'.receiver)
    /\ served' = <<>>
    /\ due' = {m \in Addressed(msg') : handlers[m][msg'.sent] = "on"}
    /\ loop' = "dispatch"
    /\ UNCHANGED <<listVars, handlers, is_running, blocked, destroying>>

NextReceiver == IF msg.receiver = Broadcast THEN After(current) ELSE NULL

CallHandler ==
    /\ loop = "dispatch" /\ current # NULL /\ handlers[current][msg.type] = "on"
    /\ served' = Append(served, current)
    /\ loop' = "handling"
    /\ UNCHANGED <<listVars, handlers, is_running, queueVars, current, msg, due, destroying>>

SkipModule ==
    /\ loop = "dispatch" /\ current # NULL /\ handlers[current][msg.type] # "on"
    /\ current' = NextReceiver
    /\ UNCHANGED <<listVars, handlers, is_running, queueVars, loop, msg, served, due, destroying>>

HandlerReturnsEarly ==   \* fault: a broadcast ends with the first handler
    /\ loop = "handling" /\ creating["loop"] = NULL
    /\ current' = NULL
    /\ loop' = "dispatch"
    /\ UNCHANGED <<listVars, handlers, is_running, queueVars, msg, served, due, destroying>>

HandlerReturns ==
    /\ loop = "handling" /\ creating["loop"] = NULL
    /\ current' = NextReceiver
    /\ loop' = "dispatch"
    /\ UNCHANGED <<listVars, handlers, is_running, queueVars, msg, served, due, destroying>>

Processed == loop = "dispatch" /\ current = NULL

ReleaseIfServed ==   \* fault: a message nobody handles keeps its slot
    /\ Processed /\ served # <<>>
    /\ msg' = NULL /\ served' = <<>> /\ due' = {}
    /\ loop' = "process"
    /\ UNCHANGED <<listVars, handlers, is_running, queueVars, current, destroying>>

Release ==
    /\ Processed
    /\ msg' = NULL /\ served' = <<>> /\ due' = {}
    /\ loop' = "process"
    /\ UNCHANGED <<listVars, handlers, is_running, queueVars, current, destroying>>

ProcessEnds ==
    /\ loop = "process" /\ (queue = <<>> \/ ~is_running)
    /\ current' = First
    /\ loop' = "runAll"
    /\ UNCHANGED <<listVars, handlers, is_running, queueVars, msg, served, due, destroying>>

RunModule ==
    /\ loop = "runAll" /\ current # NULL /\ is_running
    /\ loop' = "running"
    /\ UNCHANGED <<listVars, handlers, is_running, queueVars, current, msg, served, due, destroying>>

RunReturns ==
    /\ loop = "running" /\ creating["loop"] = NULL
    /\ current' = After(current)
    /\ loop' = "runAll"
    /\ UNCHANGED <<listVars, handlers, is_running, queueVars, msg, served, due, destroying>>

RoundEndsDrained ==   \* fault: the loop goes on while there are messages, which it no longer receives
    /\ loop = "runAll" /\ (current = NULL \/ ~is_running)
    /\ current' = NULL
    /\ loop' = IF is_running \/ queue # <<>> THEN "process" ELSE "out"
    /\ UNCHANGED <<listVars, handlers, is_running, queueVars, msg, served, due, destroying>>

(* The end of a round, and of the loop when it has been stopped.           *)
RoundEnds ==
    /\ loop = "runAll" /\ (current = NULL \/ ~is_running)
    /\ current' = NULL
    /\ loop' = IF is_running THEN "process" ELSE "out"
    /\ UNCHANGED <<listVars, handlers, is_running, queueVars, msg, served, due, destroying>>
-----------------------------------------------------------------------------
(***************************************************************************)
(* framework_destroy stops the loop, destroys the modules and the queue.   *)
(* Client rules: the loop has returned and app is in no call; the messages *)
(* still queued are shallow copies (the T_Msg of a deep one has no body    *)
(* that msg_queue_destroy could free).                                     *)
(***************************************************************************)
DestroyBegins ==
    /\ destroying = "no" /\ loop = "out" /\ Free("app")
    /\ is_running' = FALSE
    /\ destroying' = "modules"
    /\ UNCHANGED <<listVars, handlers, queueVars, loopVars, due>>

DestroyModule ==
    /\ destroying = "modules" /\ modules # <<>>
    /\ modules' = Tail(modules)
    /\ id' = [id EXCEPT ![First] = 0]
    /\ handlers' = [handlers EXCEPT ![First] = [ty \in Types |-> "none"]]
    /\ UNCHANGED <<next_module_id, creating, is_running, queueVars, loopVars, due, destroying>>

DestroyQueue ==
    /\ destroying = "modules" /\ modules = <<>>
    /\ queue' = <<>>
    /\ destroying' = "done"
    /\ UNCHANGED <<listVars, handlers, is_running, blocked, loopVars, due>>

InitReturns(t) == InitFails(t) \/ RegisterAdds(t)
CallStep(t) ==
    \/ RegisterBegins(t) \/ InitReturns(t) \/ Stop(t)
    \/ \E m \in Mods, ty \in Types :
          RegisterHandler(t, m, ty) \/ \E value \in {"on", "off"} : EnableHandler(t, m, ty, value)
    \/ \E m \in Mods, message \in Sent : SendPuts(t, m, message)
AppWaits == SendResumes \/ \E m \in Mods, message \in Sent : SendBlocks(m, message)
LoopStep == \/ Receive \/ CallHandler \/ SkipModule \/ Release \/ ProcessEnds
            \/ RunModule \/ RoundEnds
DestroyStep == DestroyBegins \/ DestroyModule \/ DestroyQueue

Next == \/ \E t \in Threads : CallStep(t)
        \/ AppWaits \/ Start \/ LoopStep \/ HandlerReturns \/ RunReturns \/ DestroyStep
Spec == Init /\ [][Next]_vars

(* The loop's thread runs, every callback returns, and the pthread calls of *)
(* the queue let a waiting sender through if its slot keeps coming free.   *)
Fairness ==
    /\ WF_vars(LoopStep) /\ SF_vars(HandlerReturns) /\ SF_vars(RunReturns)
    /\ \A t \in Threads : WF_vars(InitReturns(t))
    /\ SF_vars(SendResumes)
FairSpec == Spec /\ Fairness
-----------------------------------------------------------------------------
(***************************************************************************)
(* Properties.                                                             *)
(***************************************************************************)

(* The id framework_register_module returns names one module for ever: no  *)
(* two modules have the same, whichever init functions failed in between.  *)
IdsUnique ==
    /\ \A m, k \in Listed \cup Initialising : m # k => id[m] # id[k]
    /\ \A m \in Listed : id[m] \in 1 .. next_module_id - 1

(* A message calls only modules it is addressed to, each once, and one that *)
(* was sent with the type it arrives with reaches all that have a handler  *)
(* for it, although handlers register modules and switch handlers while the*)
(* list is being traversed.                                                *)
Reached == {served[i] : i \in DOMAIN served}
DeliveredAsAddressed ==
    msg # NULL =>
        /\ \A i, j \in DOMAIN served : served[i] = served[j] => i = j
        /\ \A m \in Reached : msg.receiver \in {Broadcast, id[m]}
        /\ Processed /\ msg.sent = msg.type => due \subseteq Reached

(* framework_stop_main_loop ends a running loop, however many messages wait *)
(* and whatever the callbacks send.                                        *)
StopEndsLoop == ~is_running ~> loop = "out"

(* A thread that waits for room in the queue gets it, unless the loop is   *)
(* stopped under it.                                                       *)
SendersServed == blocked # NULL ~> (blocked = NULL \/ ~is_running)
=============================================================================
