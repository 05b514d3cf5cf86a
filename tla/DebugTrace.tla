----------------------------- MODULE DebugTrace -----------------------------
(***************************************************************************)
(* The log and its remote trace: log_write of src/common/log/log.c calls,  *)
(* under the log's mutex, the callback that src/common/log/debugtrace.c    *)
(* has registered, which sends the line under the server's mutex to the    *)
(* client that is connected.  The server's own thread accepts one client   *)
(* at a time, executes its commands, logs while it does, and drops a       *)
(* client that is silent for too long.  debug_init and debug_destroy come  *)
(* from the owner's thread.                                                *)
(*                                                                         *)
(* Client rules: no other thread is between log_write's test of the        *)
(* callback and its return when debug_destroy unregisters it; the          *)
(* interface of the server exists and its port is free.                    *)
(***************************************************************************)
EXTENDS Integers, FiniteSets

CONSTANTS Writers,      \* threads that log
          MaxClients,   \* bound: connections made
          Timeout       \* TIMEOUT_INTERVAL

ASSUME DebugTraceAssumption ==
    /\ MaxClients \in Nat /\ Timeout \in Nat
    /\ Writers \cap {"server", "owner", "nobody"} = {}

Threads == Writers \cup {"server", "owner"}
TraceClients == 1 .. MaxClients
NoClient == 0

VARIABLES log_mutex, mutex,   \* who holds them
          logPc,              \* where each thread is in log_write
          tracecb,            \* whether a callback is registered
          owner,              \* where the owner is in debug_init, debug_destroy
          trace_bTskDone,
          thread,             \* where debug_trace_thread and handle_client are
          accepted,           \* the thread's local client_socket
          client_socket,
          age,                \* seconds since last_heartbeat_time
          conn,               \* of each client
          room,               \* whether its receive buffer has room
          input               \* what it has sent

logVars == <<log_mutex, mutex, logPc>>
serverVars == <<thread, accepted, client_socket>>
traceOwnerVars == <<tracecb, owner, trace_bTskDone>>
traceClientVars == <<conn, room, input>>
traceVars == <<logVars, serverVars, age, traceOwnerVars, traceClientVars>>

TraceTypeOK ==
    /\ log_mutex \in Threads \cup {"nobody"} /\ mutex \in Threads \cup {"nobody"}
    /\ logPc \in [Threads -> {"idle", "begin", "locked", "calling", "sending", "unlock"}]
    /\ tracecb \in BOOLEAN /\ trace_bTskDone \in BOOLEAN
    /\ owner \in {"none", "started", "up", "joining"}
    /\ thread \in {"none", "created", "listening", "accepted", "serving", "checking",
                   "closing", "ended"}
    /\ accepted \in TraceClients \cup {NoClient} /\ client_socket \in TraceClients \cup {NoClient}
    /\ age \in 0 .. Timeout + 1
    /\ conn \in [TraceClients -> {"new", "waiting", "open", "gone", "closed"}]
    /\ room \in [TraceClients -> BOOLEAN]
    /\ input \in [TraceClients -> {"none", "heartbeat", "command"}]

TraceInit ==
    /\ log_mutex = "nobody" /\ mutex = "nobody"
    /\ logPc = [t \in Threads |-> "idle"]
    /\ tracecb = FALSE /\ owner = "none" /\ trace_bTskDone = FALSE
    /\ thread = "none" /\ accepted = NoClient /\ client_socket = NoClient /\ age = 0
    /\ conn = [c \in TraceClients |-> "new"]
    /\ room = [c \in TraceClients |-> TRUE] /\ input = [c \in TraceClients |-> "none"]

(***************************************************************************)
(* log_write, and debug_trace when it is registered.                       *)
(***************************************************************************)
LogGoes(t, from, to) == logPc[t] = from /\ logPc' = [logPc EXCEPT ![t] = to]

LogBegins(t) == /\ LogGoes(t, "idle", "begin")
                /\ UNCHANGED <<log_mutex, mutex, serverVars, age, traceOwnerVars, traceClientVars>>

LogLocks(t) ==
    /\ LogGoes(t, "begin", "locked") /\ log_mutex = "nobody"
    /\ log_mutex' = t
    /\ UNCHANGED <<mutex, serverVars, age, traceOwnerVars, traceClientVars>>

LogTests(t) ==
    /\ LogGoes(t, "locked", IF tracecb THEN "calling" ELSE "unlock")
    /\ UNCHANGED <<log_mutex, mutex, serverVars, age, traceOwnerVars, traceClientVars>>

TraceLocks(t) ==
    /\ mutex = "nobody"
    /\ LogGoes(t, "calling", IF client_socket = NoClient THEN "unlock" ELSE "sending")
    /\ mutex' = IF client_socket = NoClient THEN mutex ELSE t
    /\ UNCHANGED <<log_mutex, serverVars, age, traceOwnerVars, traceClientVars>>

(* send blocks while a live client's buffer is full, and may fill it up.   *)
TraceSends(t) ==
    /\ LogGoes(t, "sending", "unlock")
    /\ room[client_socket] \/ conn[client_socket] = "gone"
    /\ mutex' = "nobody"
    /\ room' \in {room, [room EXCEPT ![client_socket] = FALSE]}
    /\ UNCHANGED <<log_mutex, serverVars, age, traceOwnerVars, conn, input>>

LogUnlocks(t) ==
    /\ LogGoes(t, "unlock", "idle")
    /\ log_mutex' = "nobody"
    /\ UNCHANGED <<mutex, serverVars, age, traceOwnerVars, traceClientVars>>
-----------------------------------------------------------------------------
(***************************************************************************)
(* debug_trace_thread and handle_client.  A step of theirs that logs leaves *)
(* the thread at the beginning of log_write, and its next step follows it. *)
(***************************************************************************)
Moves(from, to) == logPc["server"] = "idle" /\ thread = from /\ thread' = to
Logs == logPc' = [logPc EXCEPT !["server"] = "begin"]

ThreadListens ==
    /\ Moves("created", "listening")
    /\ UNCHANGED <<logVars, accepted, client_socket, age, traceOwnerVars, traceClientVars>>

(* socket, setsockopt or listen fails *)
ThreadFails ==
    /\ Moves("created", "ended")
    /\ UNCHANGED <<logVars, accepted, client_socket, age, traceOwnerVars, traceClientVars>>

ThreadAccepts(c) ==
    /\ ~trace_bTskDone /\ Moves("listening", "accepted") /\ conn[c] \in {"waiting", "gone"}
    /\ accepted' = c
    /\ conn' = [conn EXCEPT ![c] = IF @ = "waiting" THEN "open" ELSE @]
    /\ UNCHANGED <<logVars, client_socket, age, traceOwnerVars, room, input>>

ThreadEnds ==
    /\ trace_bTskDone /\ Moves("listening", "ended")
    /\ conn' = [c \in TraceClients |-> IF conn[c] = "waiting" THEN "closed" ELSE conn[c]]
    /\ UNCHANGED <<logVars, accepted, client_socket, age, traceOwnerVars, room, input>>

ServeBegins ==
    /\ Moves("accepted", "serving") /\ mutex = "nobody"
    /\ client_socket' = accepted /\ age' = 0
    /\ Logs
    /\ UNCHANGED <<log_mutex, mutex, accepted, traceOwnerVars, traceClientVars>>

(* recv under the mutex, then debugtrace_msg_handle.                       *)
ServeReads ==
    /\ ~trace_bTskDone /\ Moves("serving", "checking") /\ mutex = "nobody"
    /\ input[client_socket] # "none"
    /\ input' = [input EXCEPT ![client_socket] = "none"]
    /\ IF input[client_socket] = "heartbeat" THEN age' = 0 /\ UNCHANGED logPc
                                             ELSE Logs /\ UNCHANGED age
    /\ UNCHANGED <<log_mutex, mutex, accepted, client_socket, traceOwnerVars, conn, room>>

ServeFindsGone ==
    /\ ~trace_bTskDone /\ Moves("serving", "closing") /\ mutex = "nobody"
    /\ conn[client_socket] = "gone" /\ input[client_socket] = "none"
    /\ Logs
    /\ UNCHANGED <<log_mutex, mutex, accepted, client_socket, age, traceOwnerVars, traceClientVars>>

ServeWaitsOn ==   \* fault: the heartbeat is not checked when select times out
    /\ ~trace_bTskDone /\ Moves("serving", "serving")
    /\ UNCHANGED <<logVars, accepted, client_socket, age, traceOwnerVars, traceClientVars>>

(* select times out, or is interrupted *)
ServeWaits ==
    /\ ~trace_bTskDone /\ Moves("serving", "checking")
    /\ UNCHANGED <<logVars, accepted, client_socket, age, traceOwnerVars, traceClientVars>>

ServeChecks ==
    /\ age <= Timeout /\ Moves("checking", "serving")
    /\ UNCHANGED <<logVars, accepted, client_socket, age, traceOwnerVars, traceClientVars>>

ServeTimesOut ==
    /\ age > Timeout /\ Moves("checking", "closing")
    /\ Logs
    /\ UNCHANGED <<log_mutex, mutex, accepted, client_socket, age, traceOwnerVars, traceClientVars>>

ServeStops ==
    /\ trace_bTskDone /\ Moves("serving", "closing")
    /\ UNCHANGED <<logVars, accepted, client_socket, age, traceOwnerVars, traceClientVars>>

ServeClosesUnlocked ==   \* fault: the socket is closed without the mutex
    /\ Moves("closing", "listening")
    /\ conn' = [conn EXCEPT ![client_socket] = "closed"]
    /\ client_socket' = NoClient /\ accepted' = NoClient
    /\ UNCHANGED <<logVars, age, traceOwnerVars, room, input>>

ServeCloses ==
    /\ Moves("closing", "listening") /\ mutex = "nobody"
    /\ conn' = [conn EXCEPT ![client_socket] = "closed"]
    /\ client_socket' = NoClient /\ accepted' = NoClient
    /\ UNCHANGED <<logVars, age, traceOwnerVars, room, input>>
-----------------------------------------------------------------------------
(***************************************************************************)
(* debug_init starts the thread before it registers the callback;          *)
(* debug_destroy unregisters it, ends the thread and frees the server.     *)
(***************************************************************************)
InitStarts ==
    /\ owner = "none" /\ logPc["owner"] = "idle"
    /\ owner' = "started" /\ trace_bTskDone' = FALSE
    /\ thread' = "created"
    /\ UNCHANGED <<logVars, accepted, client_socket, age, tracecb, traceClientVars>>

InitRegisters ==
    /\ owner = "started"
    /\ owner' = "up" /\ tracecb' = TRUE
    /\ logPc' = [logPc EXCEPT !["owner"] = "begin"]
    /\ UNCHANGED <<log_mutex, mutex, serverVars, age, trace_bTskDone, traceClientVars>>

DestroyUnregisters ==
    /\ owner = "up" /\ logPc["owner"] = "idle"
    /\ \A t \in Writers : logPc[t] \notin {"calling", "sending"}
    /\ owner' = "joining" /\ tracecb' = FALSE /\ trace_bTskDone' = TRUE
    /\ UNCHANGED <<logVars, serverVars, age, traceClientVars>>

DestroyJoins ==
    /\ owner = "joining" /\ thread = "ended" /\ logPc["server"] = "idle"
    /\ owner' = "none" /\ thread' = "none"
    /\ UNCHANGED <<logVars, accepted, client_socket, age, tracecb, trace_bTskDone, traceClientVars>>

(***************************************************************************)
(* The clients of the trace port, and time.                                *)
(***************************************************************************)
ClientConnects(c) ==
    /\ conn[c] = "new" /\ thread \notin {"none", "created", "ended"}
    /\ \A d \in TraceClients : d < c => conn[d] # "new"
    /\ conn' = [conn EXCEPT ![c] = "waiting"]
    /\ UNCHANGED <<logVars, serverVars, age, traceOwnerVars, room, input>>

ClientSends(c) ==
    /\ conn[c] = "open" /\ input[c] = "none"
    /\ \E what \in {"heartbeat", "command"} : input' = [input EXCEPT ![c] = what]
    /\ UNCHANGED <<logVars, serverVars, age, traceOwnerVars, conn, room>>

ClientReads(c) ==
    /\ conn[c] = "open" /\ ~room[c]
    /\ room' = [room EXCEPT ![c] = TRUE]
    /\ UNCHANGED <<logVars, serverVars, age, traceOwnerVars, conn, input>>

ClientLeaves(c) ==
    /\ conn[c] \in {"waiting", "open"}
    /\ conn' = [conn EXCEPT ![c] = "gone"]
    /\ UNCHANGED <<logVars, serverVars, age, traceOwnerVars, room, input>>

Tick ==
    /\ client_socket # NoClient /\ age <= Timeout
    /\ age' = age + 1
    /\ UNCHANGED <<logVars, serverVars, traceOwnerVars, traceClientVars>>

LogGoesOn(t) == LogTests(t) \/ TraceLocks(t) \/ TraceSends(t) \/ LogUnlocks(t)
ServerStep ==
    \/ ThreadListens \/ ThreadFails \/ ThreadEnds \/ ServeBegins \/ ServeReads
    \/ ServeFindsGone \/ ServeWaits \/ ServeChecks \/ ServeTimesOut \/ ServeStops \/ ServeCloses
    \/ \E c \in TraceClients : ThreadAccepts(c)
OwnerStep == InitStarts \/ InitRegisters \/ DestroyUnregisters \/ DestroyJoins
ClientStep(c) == ClientConnects(c) \/ ClientSends(c) \/ ClientReads(c) \/ ClientLeaves(c)

TraceNext ==
    \/ \E t \in Writers : LogBegins(t)
    \/ \E t \in Threads : LogLocks(t) \/ LogGoesOn(t)
    \/ ServerStep \/ OwnerStep \/ Tick
    \/ \E c \in TraceClients : ClientStep(c)
TraceSpec == TraceInit /\ [][TraceNext]_traceVars

(* Threads run and get a mutex that keeps being released; the server's is   *)
(* free when the thread that holds the log's wants it.  A connected client  *)
(* reads what it is sent, or leaves; debug_init and debug_destroy run to    *)
(* their end.                                                               *)
TraceFairness ==
    /\ \A t \in Threads : SF_traceVars(LogLocks(t)) /\ WF_traceVars(LogGoesOn(t))
    /\ WF_traceVars(ServerStep) /\ SF_traceVars(ServeBegins) /\ SF_traceVars(ServeCloses)
    /\ WF_traceVars(InitRegisters \/ DestroyJoins)
    /\ \A c \in TraceClients : WF_traceVars(ClientReads(c))
TraceFairSpec == TraceSpec /\ TraceFairness
-----------------------------------------------------------------------------
(***************************************************************************)
(* Properties.                                                             *)
(***************************************************************************)

(* debug_trace sends to the socket of the client that is connected: it is  *)
(* not closed under a thread that is sending, whose line would go to       *)
(* whatever has got the descriptor next.                                   *)
TraceOnOpenSocket ==
    \A t \in Threads : logPc[t] = "sending" =>
        mutex = t /\ client_socket # NoClient /\ conn[client_socket] \in {"open", "gone"}

(* Every log_write and every debug_destroy returns, and a client that is   *)
(* silent for longer than the timeout is dropped: no thread waits for ever *)
(* for one of the two mutexes, or keeps the server from its checks.        *)
NobodyStalls ==
    /\ \A t \in Threads : logPc[t] = "begin" ~> logPc[t] = "idle"
    /\ owner = "joining" ~> owner = "none"
    /\ \A c \in TraceClients :
          (client_socket = c /\ age > Timeout) ~> (client_socket # c \/ age <= Timeout)
=============================================================================
