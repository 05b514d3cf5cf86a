------------------------------ MODULE JsonRpc ------------------------------
(***************************************************************************)
(* JSON-RPC over TCP: the clients of src/common/jsonrpc/jsonrpcClient.c    *)
(* and the service of src/common/jsonrpc/jsonrpcService.c.                 *)
(*                                                                         *)
(* A client sends a request and reads whatever comes next on its           *)
(* connection as the answer; ids are not compared.  The service accepts    *)
(* connections in its main loop and answers each in a thread of its own;   *)
(* stop has to get the main loop out of accept.  Answering a request that  *)
(* has an id frees the id twice, so the service may die after any answer.  *)
(*                                                                         *)
(* An answer that does not fit the client's buffer fails the call, but its *)
(* body stays on the connection, which stays connected: later calls read   *)
(* lengths out of it, four bytes of text each, that are refused as well.   *)
(*                                                                         *)
(* Client rules: one thread per client, no JsonRpcServerReply (it would be *)
(* a second answer), and start and stop from one thread.                   *)
(***************************************************************************)
EXTENDS Integers, Sequences, FiniteSets

CONSTANTS Clients,
          MaxCalls,     \* bound: calls made
          BodyReads,    \* how many lengths an answer too long for the buffer is taken for
          MaxConns,     \* bound: connections made
          MaxStarts     \* bound: starts of the service

ASSUME JsonRpcAssumption ==
    /\ MaxCalls \in Nat /\ MaxConns \in Nat \ {0} /\ MaxStarts \in Nat
    /\ BodyReads \in Nat \ {0}

Conns == 1 .. MaxConns
None == 0

VARIABLES request_id,   \* the next request id, shared by all clients
          pc,           \* where each client's thread is in jsonrpc_client_call
          connected,
          sock_fd,      \* the client's connection, None before the first
          asked,        \* the id of the client's last request
          got,          \* the id of the answer its last call returned, or None
          stage,        \* of each connection, as the service sees it
          held,         \* whether the client's end is open
          toServer,
          toClient,     \* what each read of a length finds: an answer, or None: it is refused
          spoilt,       \* the connections an answer too long was sent on
          serving,      \* the request a connection's thread is handling
          loop,         \* where service_main_loop is
          server_fd,
          bTskDone,
          svc,          \* where the service's owner is
          starts,
          crashed

clientVars == <<request_id, pc, connected, sock_fd, asked, got>>
netVars == <<stage, held, toServer, toClient, spoilt>>
ownerVars == <<bTskDone, svc, starts>>
serviceVars == <<serving, loop, server_fd, ownerVars, crashed>>
vars == <<clientVars, netVars, serviceVars>>

TypeOK ==
    /\ request_id \in 1 .. MaxCalls + 1
    /\ pc \in [Clients -> {"idle", "connecting", "sending", "waiting", "freed"}]
    /\ connected \in [Clients -> BOOLEAN]
    /\ sock_fd \in [Clients -> Conns \cup {None}]
    /\ asked \in [Clients -> 0 .. MaxCalls] /\ got \in [Clients -> 0 .. MaxCalls]
    /\ stage \in [Conns -> {"unused", "backlog", "open", "closed"}]
    /\ held \in [Conns -> BOOLEAN]
    /\ toServer \in [Conns -> Seq(1 .. MaxCalls)] /\ toClient \in [Conns -> Seq(0 .. MaxCalls)]
    /\ spoilt \in SUBSET Conns
    /\ serving \in [Conns -> 0 .. MaxCalls]
    /\ loop \in {"none", "created", "socket", "bound", "checking", "accepting", "ended"}
    /\ server_fd \in {"none", "open", "listening", "stale"}
    /\ bTskDone \in BOOLEAN /\ crashed \in BOOLEAN
    /\ svc \in {"idle", "started", "marked", "joining", "freed"}
    /\ starts \in 0 .. MaxStarts

(* jsonrpc_client_create and jsonrpc_service_create *)
Init ==
    /\ request_id = 1
    /\ pc = [c \in Clients |-> "idle"] /\ connected = [c \in Clients |-> FALSE]
    /\ sock_fd = [c \in Clients |-> None]
    /\ asked = [c \in Clients |-> None] /\ got = [c \in Clients |-> None]
    /\ stage = [k \in Conns |-> "unused"] /\ held = [k \in Conns |-> FALSE]
    /\ toServer = [k \in Conns |-> <<>>] /\ toClient = [k \in Conns |-> <<>>] /\ spoilt = {}
    /\ serving = [k \in Conns |-> None]
    /\ loop = "none" /\ server_fd = "none" /\ bTskDone = FALSE
    /\ svc = "idle" /\ starts = 0 /\ crashed = FALSE

(***************************************************************************)
(* jsonrpc_client_call.  A call that fails returns with got = None.        *)
(***************************************************************************)
Go(c, from, to) == pc[c] = from /\ pc' = [pc EXCEPT ![c] = to]

CallBegins(c) ==
    /\ request_id <= MaxCalls
    /\ Go(c, "idle", IF connected[c] THEN "sending" ELSE "connecting")
    /\ asked' = [asked EXCEPT ![c] = request_id]
    /\ got' = [got EXCEPT ![c] = None]
    /\ request_id' = request_id + 1
    /\ UNCHANGED <<connected, sock_fd, netVars, serviceVars>>

(* client_connect.  The socket of an earlier, failed call is not closed.   *)
Connect(c) ==
    \E k \in Conns :
        /\ stage[k] = "unused" /\ \A j \in Conns : j < k => stage[j] # "unused"
        /\ server_fd = "listening" /\ ~crashed
        /\ Go(c, "connecting", "sending")
        /\ connected' = [connected EXCEPT ![c] = TRUE]
        /\ sock_fd' = [sock_fd EXCEPT ![c] = k]
        /\ stage' = [stage EXCEPT ![k] = "backlog"]
        /\ held' = [held EXCEPT ![k] = TRUE]
        /\ UNCHANGED <<request_id, asked, got, toServer, toClient, spoilt, serviceVars>>

ConnectFails(c) ==
    /\ Go(c, "connecting", "idle")
    /\ UNCHANGED <<request_id, connected, sock_fd, asked, got, netVars, serviceVars>>

(* client_send_request.  Data sent on a connection the service has closed  *)
(* is lost.                                                                *)
Send(c) ==
    LET k == sock_fd[c] IN
    /\ Go(c, "sending", "waiting")
    /\ toServer' = IF stage[k] = "closed" THEN toServer
                   ELSE [toServer EXCEPT ![k] = Append(@, asked[c])]
    /\ UNCHANGED <<request_id, connected, sock_fd, asked, got, stage, held, toClient, spoilt, serviceVars>>

(* Part of the request may have been sent: the service cannot use it.      *)
SendFails(c) ==
    /\ Go(c, "sending", "idle")
    /\ connected' = [connected EXCEPT ![c] = FALSE]
    /\ UNCHANGED <<request_id, sock_fd, asked, got, netVars, serviceVars>>

(* The length is refused, and the call fails, when the answer is too long   *)
(* or the length was read from the body of one.                            *)
Receive(c) ==
    LET k == sock_fd[c] IN
    /\ Go(c, "waiting", "idle") /\ toClient[k] # <<>>
    /\ got' = [got EXCEPT ![c] = Head(toClient[k])]
    /\ toClient' = [toClient EXCEPT ![k] = Tail(@)]
    /\ UNCHANGED <<request_id, connected, sock_fd, asked, stage, held, toServer, spoilt, serviceVars>>

ReceiveFailsConnected(c) ==   \* fault: connected is not reset
    /\ Go(c, "waiting", "idle")
    /\ UNCHANGED <<request_id, connected, sock_fd, asked, got, netVars, serviceVars>>

(* recv is interrupted, or finds the connection closed.                    *)
ReceiveFails(c) ==
    /\ Go(c, "waiting", "idle")
    /\ connected' = [connected EXCEPT ![c] = FALSE]
    /\ UNCHANGED <<request_id, sock_fd, asked, got, netVars, serviceVars>>

FindsClosed(c) ==
    /\ pc[c] = "waiting" /\ stage[sock_fd[c]] = "closed" /\ toClient[sock_fd[c]] = <<>>
    /\ ReceiveFails(c)

(* jsonrpc_client_free *)
Free(c) ==
    /\ Go(c, "idle", "freed")
    /\ held' = [k \in Conns |-> held[k] /\ k # sock_fd[c]]
    /\ UNCHANGED <<request_id, connected, sock_fd, asked, got, stage, toServer, toClient, spoilt,
                   serviceVars>>
-----------------------------------------------------------------------------
(***************************************************************************)
(* handle_client_connection, one thread per connection: it reads a request,*)
(* handle_jsonrpc_request answers it, until the client has gone.           *)
(***************************************************************************)
ServeReceives(k) ==
    /\ ~crashed /\ stage[k] = "open" /\ serving[k] = None /\ toServer[k] # <<>>
    /\ serving' = [serving EXCEPT ![k] = Head(toServer[k])]
    /\ toServer' = [toServer EXCEPT ![k] = Tail(@)]
    /\ UNCHANGED <<clientVars, stage, held, toClient, spoilt, loop, server_fd, ownerVars, crashed>>

(* An answer is refused because it is too long, or because what is left of  *)
(* one before it is no multiple of four bytes.                             *)
Refused == [i \in 1 .. 1 + BodyReads |-> None]

Answered(k) ==
    /\ ~crashed /\ serving[k] # None
    /\ \E reads \in {<<serving[k]>>, Refused} :
          /\ toClient' = IF held[k] THEN [toClient EXCEPT ![k] = @ \o reads] ELSE toClient
          /\ spoilt' = IF reads = Refused THEN spoilt \cup {k} ELSE spoilt
    /\ serving' = [serving EXCEPT ![k] = None]

ServeSilent(k) ==   \* fault: an unknown method gets no error answer
    /\ ~crashed /\ serving[k] # None
    /\ serving' = [serving EXCEPT ![k] = None]
    /\ UNCHANGED <<clientVars, netVars, loop, server_fd, ownerVars, crashed>>

ServeAnswers(k) ==
    /\ Answered(k)
    /\ UNCHANGED <<clientVars, stage, held, toServer, loop, server_fd, ownerVars, crashed>>

(* The id is deleted with the answer and again with the request.           *)
ServeCrashes(k) ==
    /\ Answered(k)
    /\ crashed' = TRUE
    /\ stage' = [j \in Conns |-> IF stage[j] = "unused" THEN "unused" ELSE "closed"]
    /\ UNCHANGED <<clientVars, held, toServer, loop, server_fd, ownerVars>>

ServeEnds(k) ==
    /\ ~crashed /\ stage[k] = "open" /\ serving[k] = None
    /\ toServer[k] = <<>> /\ ~held[k]
    /\ stage' = [stage EXCEPT ![k] = "closed"]
    /\ UNCHANGED <<clientVars, held, toServer, toClient, spoilt, serviceVars>>
-----------------------------------------------------------------------------
(***************************************************************************)
(* service_main_loop.  stop may close server_fd and set it to -1 between   *)
(* any two of its steps.                                                   *)
(***************************************************************************)
LoopGoes(from, to) == ~crashed /\ loop = from /\ loop' = to

LoopSocket ==
    /\ LoopGoes("created", "socket")
    /\ server_fd' = "open"
    /\ UNCHANGED <<clientVars, netVars, serving, ownerVars, crashed>>

LoopBinds ==
    /\ LoopGoes("socket", "bound") /\ server_fd = "open"
    /\ UNCHANGED <<clientVars, netVars, serving, server_fd, ownerVars, crashed>>

LoopListens ==
    /\ LoopGoes("bound", "checking") /\ server_fd = "open"
    /\ server_fd' = "listening"
    /\ UNCHANGED <<clientVars, netVars, serving, ownerVars, crashed>>

(* close(service->server_fd) leaves the number in server_fd.               *)
LoopCloses ==
    /\ server_fd' = IF server_fd = "none" THEN "none" ELSE "stale"
    /\ stage' = [k \in Conns |-> IF stage[k] = "backlog" THEN "closed" ELSE stage[k]]
    /\ UNCHANGED <<clientVars, held, toServer, toClient, spoilt, serving, ownerVars, crashed>>

LoopSetupFails == (LoopGoes("socket", "ended") \/ LoopGoes("bound", "ended")) /\ LoopCloses

LoopChecks ==
    /\ ~bTskDone /\ LoopGoes("checking", "accepting")
    /\ UNCHANGED <<clientVars, netVars, serving, server_fd, ownerVars, crashed>>

LoopEnds == bTskDone /\ LoopGoes("checking", "ended") /\ LoopCloses

LoopAccepts(k) ==
    /\ LoopGoes("accepting", "checking") /\ server_fd = "listening" /\ stage[k] = "backlog"
    /\ stage' = [stage EXCEPT ![k] = "open"]
    /\ UNCHANGED <<clientVars, held, toServer, toClient, spoilt, serving, server_fd, ownerVars, crashed>>

AcceptFails ==
    /\ LoopGoes("accepting", "checking") /\ server_fd # "listening"
    /\ UNCHANGED <<clientVars, netVars, serving, server_fd, ownerVars, crashed>>
-----------------------------------------------------------------------------
(***************************************************************************)
(* jsonrpc_service_start, jsonrpc_service_stop and jsonrpc_service_free.   *)
(***************************************************************************)
ServiceStart ==
    /\ svc = "idle" /\ starts < MaxStarts /\ ~crashed
    /\ svc' = "started" /\ starts' = starts + 1
    /\ bTskDone' = FALSE
    /\ loop' = "created"
    /\ UNCHANGED <<clientVars, netVars, serving, server_fd, crashed>>

StopMarks ==
    /\ svc = "started" /\ ~crashed
    /\ svc' = "marked" /\ bTskDone' = TRUE
    /\ UNCHANGED <<clientVars, netVars, serving, loop, server_fd, starts, crashed>>

StopLeavesOpen ==   \* fault: the listening socket is not shut down
    /\ svc = "marked" /\ ~crashed
    /\ svc' = "joining"
    /\ UNCHANGED <<clientVars, netVars, serving, loop, server_fd, bTskDone, starts, crashed>>

StopShuts ==
    /\ svc = "marked" /\ ~crashed
    /\ svc' = "joining"
    /\ server_fd' = "none"
    /\ stage' = [k \in Conns |-> IF stage[k] = "backlog" THEN "closed" ELSE stage[k]]
    /\ UNCHANGED <<clientVars, held, toServer, toClient, spoilt, serving, loop, bTskDone, starts, crashed>>

StopJoins ==
    /\ svc = "joining" /\ loop = "ended" /\ ~crashed
    /\ svc' = "idle"
    /\ UNCHANGED <<clientVars, netVars, serving, loop, server_fd, bTskDone, starts, crashed>>

(* Client rule: no thread of a connection is left to use the service.      *)
ServiceFree ==
    /\ svc = "idle" /\ starts > 0 /\ ~crashed
    /\ \A k \in Conns : stage[k] # "open"
    /\ svc' = "freed"
    /\ UNCHANGED <<clientVars, netVars, serving, loop, server_fd, bTskDone, starts, crashed>>

ServeStep(k) == ServeReceives(k) \/ ServeAnswers(k) \/ ServeCrashes(k) \/ ServeEnds(k)
LoopStep == \/ LoopSocket \/ LoopBinds \/ LoopListens \/ LoopSetupFails
            \/ LoopChecks \/ LoopEnds \/ AcceptFails \/ \E k \in Conns : LoopAccepts(k)
StopStep == StopShuts \/ StopJoins

Next ==
    \/ \E c \in Clients : \/ CallBegins(c) \/ Connect(c) \/ ConnectFails(c) \/ Send(c)
                          \/ SendFails(c) \/ Receive(c) \/ ReceiveFails(c) \/ Free(c)
    \/ \E k \in Conns : ServeStep(k)
    \/ LoopStep \/ ServiceStart \/ StopMarks \/ StopStep \/ ServiceFree
Spec == Init /\ [][Next]_vars

(* Threads run, handlers return, and the kernel reports a closed connection.*)
Fairness ==
    /\ \A k \in Conns : WF_vars(ServeStep(k))
    /\ WF_vars(LoopStep) /\ WF_vars(StopStep)
    /\ \A c \in Clients : WF_vars(Receive(c)) /\ WF_vars(FindsClosed(c))
FairSpec == Spec /\ Fairness
-----------------------------------------------------------------------------
(***************************************************************************)
(* Properties.                                                             *)
(***************************************************************************)

(* Although nobody compares ids, the answer a call returns is the answer to *)
(* its own request, through failed calls, new connections and restarts, on *)
(* every connection that no answer too long for the buffer has come on.    *)
AnswersOwnRequest ==
    \A c \in Clients : got[c] # None /\ sock_fd[c] \notin spoilt => got[c] = asked[c]

(* A client waits without a timeout: the service answers every request it  *)
(* has accepted the connection of, or the connection is closed, also when  *)
(* the service stops or dies before it has accepted it.                    *)
CallReturns == \A c \in Clients : pc[c] = "waiting" ~> pc[c] # "waiting"

(* jsonrpc_service_stop gets the main loop out of accept, or out of its    *)
(* setup, wherever it is.                                                  *)
StopReturns == svc = "joining" ~> (svc = "idle" \/ crashed)
=============================================================================
