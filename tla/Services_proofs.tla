-------------------------- MODULE Services_proofs ---------------------------
(***************************************************************************)
(* Proofs about what processes talk through: JsonRpc, for every set of     *)
(* clients and any number of calls, connections and starts of the service; *)
(* DebugTrace, for every set of threads that log, any number of            *)
(* connections and any timeout; LogFile, for any number of seconds, lines, *)
(* lines to a file and seconds they are kept; and the serial port, for any *)
(* number of bytes, and its settings from whatever settings it had.        *)
(***************************************************************************)
EXTENDS JsonRpc, DebugTrace, LogFile, Serial, UartSettings,
        SequenceTheorems, FiniteSetTheorems, TLAPS

(* What is on its way on connection k, in either direction or in the hands *)
(* of the service: nothing, or at most the request with number n.          *)
Quiet(k) == toServer[k] = <<>> /\ serving[k] = None /\ toClient[k] = <<>>
AtMost(k, n) ==
    \/ Quiet(k)
    \/ toServer[k] = <<n>> /\ serving[k] = None /\ toClient[k] = <<>>
    \/ toServer[k] = <<>> /\ serving[k] = n /\ toClient[k] = <<>>
    \/ toServer[k] = <<>> /\ serving[k] = None /\ toClient[k] = <<n>>

(* A connected client has its connection to itself, and on it there is     *)
(* nothing but the request it waits for, unless it is spoilt by an answer  *)
(* too long for the buffer; what an earlier call has left behind otherwise *)
(* is on a connection that it has given up.                                *)
ClientsOK ==
    /\ \A c \in Clients : pc[c] \in {"connecting", "sending", "waiting"} => asked[c] # None /\ got[c] = None
    /\ \A c \in Clients : pc[c] \in {"sending", "waiting"} => connected[c]
    /\ \A c \in Clients : connected[c] =>
          /\ sock_fd[c] \in Conns /\ stage[sock_fd[c]] # "unused"
          /\ sock_fd[c] \notin spoilt =>
                IF pc[c] = "waiting" THEN AtMost(sock_fd[c], asked[c]) ELSE Quiet(sock_fd[c])
    /\ \A c, d \in Clients : connected[c] /\ connected[d] /\ c # d => sock_fd[c] # sock_fd[d]
    /\ \A k \in Conns : stage[k] = "unused" => Quiet(k)

IInv == TypeOK /\ ClientsOK /\ AnswersOwnRequest
-----------------------------------------------------------------------------
(* What an answer that is refused adds to a connection.                    *)
LEMMA RefusedIs == Refused \in Seq(0 .. MaxCalls)
  <1>1. 1 + BodyReads \in Nat /\ None \in 0 .. MaxCalls
    BY JsonRpcAssumption DEF JsonRpcAssumption, None
  <1>2. Refused \in [1 .. 1 + BodyReads -> 0 .. MaxCalls]
    BY <1>1 DEF Refused
  <1> QED
    BY <1>1, <1>2, SeqDef

LEMMA ConnsAre == None \notin Conns /\ Conns \subseteq Nat
  BY JsonRpcAssumption DEF JsonRpcAssumption, Conns, None

(***************************************************************************)
(* The clients.                                                            *)
(***************************************************************************)
LEMMA BeginsKeeps ==
    ASSUME IInv, NEW c \in Clients, CallBegins(c)
    PROVE  IInv'
  <1> USE DEF IInv
  <1>1. /\ request_id \in 0 .. MaxCalls /\ None \in 0 .. MaxCalls
        /\ request_id # None /\ request_id + 1 \in 1 .. MaxCalls + 1
    BY JsonRpcAssumption DEF CallBegins, TypeOK, JsonRpcAssumption, None
  <1>2. TypeOK'
    BY <1>1 DEF CallBegins, Go, TypeOK, netVars, serviceVars, ownerVars
  <1>3. ClientsOK'
    BY <1>1 DEF CallBegins, Go, TypeOK, ClientsOK, Quiet, AtMost, netVars, serviceVars, ownerVars
  <1>4. AnswersOwnRequest'
    BY DEF CallBegins, TypeOK, AnswersOwnRequest, netVars
  <1> QED
    BY <1>2, <1>3, <1>4

LEMMA ConnectKeeps ==
    ASSUME IInv, NEW c \in Clients, Connect(c)
    PROVE  IInv'
  <1> USE DEF IInv
  <1>1. PICK k \in Conns :
            /\ stage[k] = "unused"
            /\ sock_fd' = [sock_fd EXCEPT ![c] = k]
            /\ stage' = [stage EXCEPT ![k] = "backlog"]
            /\ held' = [held EXCEPT ![k] = TRUE]
    BY DEF Connect
  <1>2. /\ Go(c, "connecting", "sending") /\ connected' = [connected EXCEPT ![c] = TRUE]
        /\ UNCHANGED <<request_id, asked, got, toServer, toClient, spoilt, serviceVars>>
    BY DEF Connect
  <1>3. TypeOK'
    BY <1>1, <1>2 DEF Go, TypeOK, serviceVars, ownerVars
  <1>4. Quiet(k) /\ \A d \in Clients : connected[d] => sock_fd[d] # k
    BY <1>1 DEF ClientsOK
  <1>5. ClientsOK'
    BY <1>1, <1>2, <1>4 DEF Go, TypeOK, ClientsOK, Quiet, AtMost, serviceVars
  <1>6. AnswersOwnRequest'
    BY <1>1, <1>2 DEF AnswersOwnRequest, ClientsOK, Go, TypeOK
  <1> QED
    BY <1>3, <1>5, <1>6

LEMMA SendKeeps ==
    ASSUME IInv, NEW c \in Clients, Send(c)
    PROVE  IInv'
  <1> USE DEF IInv
  <1> DEFINE k == sock_fd[c]
  <1>1. /\ pc[c] = "sending" /\ pc' = [pc EXCEPT ![c] = "waiting"]
        /\ toServer' = IF stage[k] = "closed" THEN toServer
                       ELSE [toServer EXCEPT ![k] = Append(@, asked[c])]
        /\ UNCHANGED <<request_id, connected, sock_fd, asked, got, stage, held, toClient, spoilt,
                       serviceVars>>
    BY DEF Send, Go
  <1>2. /\ asked[c] \in 1 .. MaxCalls /\ k \in Conns /\ connected[c]
        /\ k \notin spoilt => toServer[k] = <<>> /\ serving[k] = None /\ toClient[k] = <<>>
    BY <1>1, JsonRpcAssumption DEF ClientsOK, TypeOK, Quiet, None, JsonRpcAssumption
  <1>3. \A d \in Clients : connected[d] /\ d # c => sock_fd[d] # k
    BY <1>2 DEF ClientsOK
  <1>4. /\ Append(toServer[k], asked[c]) \in Seq(1 .. MaxCalls)
        /\ k \notin spoilt => Append(toServer[k], asked[c]) = <<asked[c]>>
    <2>1. toServer[k] \in Seq(1 .. MaxCalls)
      BY <1>2 DEF TypeOK
    <2>2. Append(toServer[k], asked[c]) \in Seq(1 .. MaxCalls)
      BY <1>2, <2>1, AppendProperties
    <2>3. ASSUME k \notin spoilt
          PROVE  Append(toServer[k], asked[c]) = <<asked[c]>>
      <3>1. toServer[k] = <<>> /\ asked[c] \in 1 .. MaxCalls
        BY <1>2, <2>3
      <3> QED
        BY <3>1
    <2> QED
      BY <2>2, <2>3
  <1>5. TypeOK'
    BY <1>1, <1>2, <1>4 DEF TypeOK, serviceVars, ownerVars
  <1>6. \A j \in Conns : j # k => toServer'[j] = toServer[j]
    BY <1>1 DEF TypeOK
  <1>7. k \notin spoilt => toServer'[k] = <<>> \/ toServer'[k] = <<asked[c]>>
    BY <1>1, <1>2, <1>4 DEF TypeOK
  <1>8. stage[k] # "unused"
    BY <1>2 DEF ClientsOK
  <1>9. ClientsOK'
    <2>1. \A d \in Clients : connected'[d] =>
              /\ sock_fd'[d] \in Conns /\ stage'[sock_fd'[d]] # "unused"
              /\ sock_fd'[d] \notin spoilt' =>
                    IF pc'[d] = "waiting" THEN AtMost(sock_fd[d], asked[d])' ELSE Quiet(sock_fd[d])'
      <3> SUFFICES ASSUME NEW d \in Clients, connected[d]
                   PROVE  /\ sock_fd[d] \in Conns /\ stage[sock_fd[d]] # "unused"
                          /\ sock_fd[d] \notin spoilt =>
                                IF pc'[d] = "waiting" THEN AtMost(sock_fd[d], asked[d])' ELSE Quiet(sock_fd[d])'
        BY <1>1
      <3>1. CASE d = c
        BY <1>1, <1>2, <1>7, <1>8, <3>1 DEF AtMost, Quiet, TypeOK, serviceVars
      <3>2. CASE d # c
        BY <1>1, <1>3, <1>6, <3>2 DEF ClientsOK, AtMost, Quiet, TypeOK, serviceVars
      <3> QED
        BY <3>1, <3>2
    <2>2. \A j \in Conns : stage'[j] = "unused" => Quiet(j)'
      BY <1>1, <1>6, <1>8 DEF ClientsOK, Quiet, serviceVars
    <2>3. \A d \in Clients : pc'[d] \in {"sending", "waiting"} => connected'[d]
      BY <1>1, <1>2 DEF ClientsOK, TypeOK
    <2>4. \A d \in Clients : pc'[d] \in {"connecting", "sending", "waiting"} => asked'[d] # None /\ got'[d] = None
      BY <1>1 DEF ClientsOK, TypeOK
    <2> QED
      BY <1>1, <2>1, <2>2, <2>3, <2>4 DEF ClientsOK
  <1>10. AnswersOwnRequest'
    BY <1>1 DEF AnswersOwnRequest
  <1> QED
    BY <1>5, <1>9, <1>10

LEMMA ReceiveKeeps ==
    ASSUME IInv, NEW c \in Clients, Receive(c)
    PROVE  IInv'
  <1> USE DEF IInv
  <1> DEFINE k == sock_fd[c]
  <1>1. /\ pc[c] = "waiting" /\ pc' = [pc EXCEPT ![c] = "idle"] /\ toClient[k] # <<>>
        /\ got' = [got EXCEPT ![c] = Head(toClient[k])]
        /\ toClient' = [toClient EXCEPT ![k] = Tail(@)]
        /\ UNCHANGED <<request_id, connected, sock_fd, asked, stage, held, toServer, spoilt, serviceVars>>
    BY DEF Receive, Go
  <1>2. /\ connected[c] /\ k \in Conns /\ asked[c] \in 0 .. MaxCalls
        /\ k \notin spoilt => AtMost(k, asked[c])
    BY <1>1 DEF ClientsOK, TypeOK
  <1>3. k \notin spoilt => toServer[k] = <<>> /\ serving[k] = None /\ toClient[k] = <<asked[c]>>
    BY <1>1, <1>2 DEF AtMost, Quiet
  <1>4. /\ Head(toClient[k]) \in 0 .. MaxCalls /\ Tail(toClient[k]) \in Seq(0 .. MaxCalls)
        /\ k \notin spoilt => Head(toClient[k]) = asked[c] /\ Tail(toClient[k]) = <<>>
    <2>1. toClient[k] \in Seq(0 .. MaxCalls) /\ toClient[k] # <<>>
      BY <1>1, <1>2 DEF TypeOK
    <2>2. Head(toClient[k]) \in 0 .. MaxCalls /\ Tail(toClient[k]) \in Seq(0 .. MaxCalls)
      BY <2>1, HeadTailProperties
    <2>3. ASSUME k \notin spoilt
          PROVE  Head(toClient[k]) = asked[c] /\ Tail(toClient[k]) = <<>>
      <3>1. toClient[k] = <<asked[c]>>
        BY <1>3, <2>3
      <3> QED
        BY <3>1
    <2> QED
      BY <2>2, <2>3
  <1>5. TypeOK'
    BY <1>1, <1>2, <1>4 DEF TypeOK, serviceVars, ownerVars
  <1>6. \A j \in Conns : /\ j # k => toClient'[j] = toClient[j]
                         /\ j = k /\ k \notin spoilt => toClient'[j] = <<>>
    BY <1>1, <1>2, <1>4 DEF TypeOK
  <1>7. \A d \in Clients : connected[d] /\ d # c => sock_fd[d] # k
    BY <1>2 DEF ClientsOK
  <1>8. ClientsOK'
    <2>1. \A d \in Clients : connected'[d] =>
              /\ sock_fd'[d] \in Conns /\ stage'[sock_fd'[d]] # "unused"
              /\ sock_fd'[d] \notin spoilt' =>
                    IF pc'[d] = "waiting" THEN AtMost(sock_fd[d], asked[d])' ELSE Quiet(sock_fd[d])'
      <3> SUFFICES ASSUME NEW d \in Clients, connected[d]
                   PROVE  /\ sock_fd[d] \in Conns /\ stage[sock_fd[d]] # "unused"
                          /\ sock_fd[d] \notin spoilt =>
                                IF pc'[d] = "waiting" THEN AtMost(sock_fd[d], asked[d])' ELSE Quiet(sock_fd[d])'
        BY <1>1
      <3>0. sock_fd[d] \in Conns /\ stage[sock_fd[d]] # "unused"
        BY DEF ClientsOK
      <3>1. CASE d = c
        BY <1>1, <1>2, <1>3, <1>6, <3>0, <3>1 DEF Quiet, TypeOK, serviceVars
      <3>2. CASE d # c
        BY <1>1, <1>6, <1>7, <3>0, <3>2 DEF ClientsOK, AtMost, Quiet, TypeOK, serviceVars
      <3> QED
        BY <3>0, <3>1, <3>2
    <2>2. \A j \in Conns : stage'[j] = "unused" => Quiet(j)'
      BY <1>1, <1>2, <1>6 DEF ClientsOK, Quiet, serviceVars
    <2>3. \A d \in Clients : /\ pc'[d] \in {"sending", "waiting"} => connected'[d]
                             /\ pc'[d] \in {"connecting", "sending", "waiting"} => asked'[d] # None /\ got'[d] = None
      BY <1>1 DEF ClientsOK, TypeOK
    <2> QED
      BY <1>1, <2>1, <2>2, <2>3 DEF ClientsOK
  <1>9. AnswersOwnRequest'
    BY <1>1, <1>4 DEF AnswersOwnRequest, TypeOK
  <1> QED
    BY <1>5, <1>8, <1>9

(* A call that fails, and the end of a client. *)
LEMMA GivesUpKeeps ==
    ASSUME IInv, NEW c \in Clients, ConnectFails(c) \/ SendFails(c) \/ ReceiveFails(c) \/ Free(c)
    PROVE  IInv'
  <1> USE DEF IInv
  <1>1. /\ UNCHANGED <<request_id, sock_fd, asked, got, stage, toServer, toClient, spoilt, serviceVars>>
        /\ held' \in [Conns -> BOOLEAN]
    BY DEF ConnectFails, SendFails, ReceiveFails, Free, netVars, TypeOK
  <1>2. \/ pc' = [pc EXCEPT ![c] = "idle"] /\ connected' = [connected EXCEPT ![c] = FALSE]
        \/ /\ pc[c] # "waiting" /\ connected' = connected
           /\ pc' = [pc EXCEPT ![c] = "idle"] \/ pc' = [pc EXCEPT ![c] = "freed"]
    BY DEF ConnectFails, SendFails, ReceiveFails, Free, Go
  <1>3. TypeOK'
    BY <1>1, <1>2 DEF TypeOK, serviceVars, ownerVars
  <1>4. ClientsOK'
    <2>1. /\ \A d \in Clients : pc'[d] \in {"connecting", "sending", "waiting"} => pc[d] = pc'[d]
          /\ \A d \in Clients : pc'[d] \in {"sending", "waiting"} => connected'[d] = connected[d]
          /\ \A d \in Clients : connected'[d] => connected[d] /\ (pc'[d] = "waiting" <=> pc[d] = "waiting")
      BY <1>2 DEF TypeOK
    <2> QED
      BY <1>1, <2>1 DEF ClientsOK, AtMost, Quiet, serviceVars
  <1>5. AnswersOwnRequest'
    BY <1>1 DEF AnswersOwnRequest
  <1> QED
    BY <1>3, <1>4, <1>5
-----------------------------------------------------------------------------
(***************************************************************************)
(* The service.                                                            *)
(***************************************************************************)

(* A step that moves a request along its connection, or loses it.          *)
Carries(k) ==
    /\ \A j \in Conns : j # k => /\ toServer'[j] = toServer[j] /\ serving'[j] = serving[j]
                                 /\ toClient'[j] = toClient[j]
    /\ spoilt \subseteq spoilt'
    /\ k \notin spoilt' => /\ \A n : AtMost(k, n) => AtMost(k, n)'
                           /\ Quiet(k) => Quiet(k)'
    /\ stage[k] = "unused" => UNCHANGED <<toServer[k], serving[k], toClient[k]>>

LEMMA CarriesClients ==
    ASSUME IInv, NEW k \in Conns, Carries(k), UNCHANGED clientVars,
           \A j \in Conns : stage'[j] = "unused" <=> stage[j] = "unused"
    PROVE  ClientsOK'
  <1> USE DEF IInv, clientVars
  <1>1. \A j \in Conns : j \notin spoilt' => /\ j \notin spoilt
                                             /\ \A n : AtMost(j, n) => AtMost(j, n)'
                                             /\ Quiet(j) => Quiet(j)'
    BY DEF Carries, AtMost, Quiet
  <1>2. \A c \in Clients : connected'[c] =>
            /\ sock_fd'[c] \in Conns /\ stage'[sock_fd'[c]] # "unused"
            /\ sock_fd'[c] \notin spoilt' =>
                  IF pc'[c] = "waiting" THEN AtMost(sock_fd[c], asked[c])' ELSE Quiet(sock_fd[c])'
    <2> SUFFICES ASSUME NEW c \in Clients, connected[c]
                 PROVE  /\ sock_fd'[c] \in Conns /\ stage'[sock_fd'[c]] # "unused"
                        /\ sock_fd'[c] \notin spoilt' =>
                              IF pc'[c] = "waiting" THEN AtMost(sock_fd[c], asked[c])' ELSE Quiet(sock_fd[c])'
      OBVIOUS
    <2>1. /\ sock_fd[c] \in Conns /\ stage[sock_fd[c]] # "unused"
          /\ sock_fd[c] \notin spoilt =>
                IF pc[c] = "waiting" THEN AtMost(sock_fd[c], asked[c]) ELSE Quiet(sock_fd[c])
      BY DEF ClientsOK
    <2>2. \A j, n : j = sock_fd[c] /\ n = asked[c] =>
              /\ AtMost(sock_fd[c], asked[c])' <=> AtMost(j, n)'
              /\ Quiet(sock_fd[c])' <=> Quiet(j)'
      BY DEF AtMost, Quiet
    <2>3. \A j, n : j = sock_fd[c] /\ n = asked[c] /\ j \notin spoilt' =>
              IF pc[c] = "waiting" THEN AtMost(j, n)' ELSE Quiet(j)'
      BY <1>1, <2>1
    <2> QED
      BY <2>1, <2>2, <2>3
  <1>3. \A j \in Conns : stage'[j] = "unused" => Quiet(j)'
    BY DEF ClientsOK, Carries, Quiet
  <1> QED
    BY <1>2, <1>3 DEF ClientsOK

LEMMA ServeKeeps ==
    ASSUME IInv, NEW k \in Conns, ServeStep(k)
    PROVE  IInv'
  <1> USE DEF IInv
  <1>1. UNCHANGED clientVars
    BY DEF ServeStep, ServeReceives, ServeAnswers, ServeCrashes, ServeEnds
  <1>2. \A j \in Conns : stage'[j] = "unused" <=> stage[j] = "unused"
    BY DEF ServeStep, ServeReceives, ServeAnswers, ServeCrashes, ServeEnds, TypeOK
  <1>3. AnswersOwnRequest'
    BY <1>1 DEF AnswersOwnRequest, clientVars, ServeStep, ServeReceives, ServeAnswers, ServeCrashes, ServeEnds,
                Answered
  <1>4. CASE ServeReceives(k)
    <2>1. toServer[k] \in Seq(1 .. MaxCalls) /\ toServer[k] # <<>> /\ serving[k] = None
      BY <1>4 DEF ServeReceives, TypeOK
    <2>2. Head(toServer[k]) \in 1 .. MaxCalls /\ Tail(toServer[k]) \in Seq(1 .. MaxCalls)
      BY <2>1, HeadTailProperties
    <2>3. TypeOK'
      BY <1>4, <2>2 DEF ServeReceives, TypeOK, clientVars, ownerVars
    <2>4. /\ toServer' = [toServer EXCEPT ![k] = Tail(@)] /\ toClient' = toClient
          /\ serving' = [serving EXCEPT ![k] = Head(toServer[k])]
      BY <1>4 DEF ServeReceives
    <2>5. ASSUME NEW n, AtMost(k, n)
          PROVE  AtMost(k, n)'
      <3>1. toServer[k] = <<n>> /\ toClient[k] = <<>>
        BY <2>1, <2>5 DEF AtMost, Quiet
      <3>2. Head(toServer[k]) = n /\ Tail(toServer[k]) = <<>>
        BY <3>1
      <3> QED
        BY <2>4, <3>1, <3>2 DEF AtMost, TypeOK
    <2>6. Carries(k)
      BY <1>4, <2>1, <2>4, <2>5 DEF Carries, Quiet, TypeOK, ServeReceives
    <2> QED
      BY <1>1, <1>2, <1>3, <2>3, <2>6, CarriesClients
  <1>5. CASE ServeAnswers(k) \/ ServeCrashes(k)
    <2>1. Answered(k)
      BY <1>5 DEF ServeAnswers, ServeCrashes
    <2>2. PICK reads \in {<<serving[k]>>, Refused} :
              /\ toClient' = IF held[k] THEN [toClient EXCEPT ![k] = @ \o reads] ELSE toClient
              /\ spoilt' = IF reads = Refused THEN spoilt \cup {k} ELSE spoilt
      BY <2>1 DEF Answered
    <2>3. serving[k] \in 0 .. MaxCalls /\ toClient[k] \in Seq(0 .. MaxCalls) /\ Refused \in Seq(0 .. MaxCalls)
      BY RefusedIs DEF TypeOK
    <2>4. /\ toClient' \in [Conns -> Seq(0 .. MaxCalls)] /\ serving' \in [Conns -> 0 .. MaxCalls]
          /\ spoilt' \in SUBSET Conns
      <3>1. reads \in Seq(0 .. MaxCalls)
        <4>1. <<serving[k]>> \in Seq(0 .. MaxCalls)
          BY <2>3
        <4> QED
          BY <2>2, <2>3, <4>1
      <3>2. toClient[k] \o reads \in Seq(0 .. MaxCalls)
        BY <2>3, <3>1, ConcatProperties
      <3> QED
        <4>1. toClient' \in [Conns -> Seq(0 .. MaxCalls)]
          BY <2>2, <3>2 DEF TypeOK
        <4>2. serving' \in [Conns -> 0 .. MaxCalls]
          BY <2>1, JsonRpcAssumption DEF Answered, TypeOK, None, JsonRpcAssumption
        <4>3. spoilt' \in SUBSET Conns
          BY <2>2 DEF TypeOK
        <4> QED
          BY <4>1, <4>2, <4>3
    <2>5. /\ stage' \in [Conns -> {"unused", "backlog", "open", "closed"}] /\ crashed' \in BOOLEAN
          /\ UNCHANGED <<clientVars, held, toServer, loop, server_fd, ownerVars>>
      BY <1>5 DEF ServeAnswers, ServeCrashes, TypeOK
    <2>6. TypeOK'
      BY <2>4, <2>5 DEF TypeOK, clientVars, ownerVars
    <2>7. ASSUME NEW n, AtMost(k, n), k \notin spoilt'
          PROVE  AtMost(k, n)'
      <3>1. toServer[k] = <<>> /\ serving[k] = n /\ toClient[k] = <<>> /\ reads = <<n>>
        BY <2>1, <2>2, <2>7 DEF AtMost, Quiet, Answered
      <3>2. toClient[k] \o reads = <<n>>
        BY <3>1
      <3>3. serving'[k] = None /\ toServer'[k] = <<>> /\ (toClient'[k] = <<n>> \/ toClient'[k] = <<>>)
        BY <2>1, <2>2, <2>5, <3>1, <3>2 DEF Answered, TypeOK
      <3> QED
        BY <3>3 DEF AtMost, Quiet
    <2>8. serving[k] # None /\ stage[k] # "unused"
      BY <2>1 DEF Answered, ClientsOK, Quiet
    <2>9. Carries(k)
      BY <2>1, <2>2, <2>5, <2>7, <2>8 DEF Carries, Answered, Quiet, TypeOK
    <2> QED
      BY <1>1, <1>2, <1>3, <2>6, <2>9, CarriesClients
  <1>6. CASE ServeEnds(k)
    <2>1. TypeOK'
      BY <1>6 DEF ServeEnds, TypeOK, clientVars, serviceVars, ownerVars
    <2>2. Carries(k)
      BY <1>6 DEF ServeEnds, Carries, AtMost, Quiet, serviceVars
    <2> QED
      BY <1>1, <1>2, <1>3, <2>1, <2>2, CarriesClients
  <1> QED
    BY <1>4, <1>5, <1>6 DEF ServeStep

(* The main loop and the owner only move connections from backlog on.      *)
LEMMA OthersKeep ==
    ASSUME IInv, LoopStep \/ ServiceStart \/ StopMarks \/ StopStep \/ ServiceFree
    PROVE  IInv'
  <1> USE DEF IInv
  <1>1. UNCHANGED <<clientVars, held, toServer, toClient, spoilt, serving>>
    BY DEF LoopStep, LoopSocket, LoopBinds, LoopListens, LoopSetupFails, LoopCloses, LoopChecks, LoopEnds,
           AcceptFails, LoopAccepts, ServiceStart, StopMarks, StopStep, StopShuts, StopJoins, ServiceFree,
           netVars
  <1>2. /\ stage' \in [Conns -> {"unused", "backlog", "open", "closed"}]
        /\ \A j \in Conns : stage'[j] = "unused" <=> stage[j] = "unused"
    BY DEF LoopStep, LoopSocket, LoopBinds, LoopListens, LoopSetupFails, LoopCloses, LoopChecks, LoopEnds,
           AcceptFails, LoopAccepts, ServiceStart, StopMarks, StopStep, StopShuts, StopJoins, ServiceFree,
           netVars, TypeOK
  <1>3. /\ loop' \in {"none", "created", "socket", "bound", "checking", "accepting", "ended"}
        /\ server_fd' \in {"none", "open", "listening", "stale"}
        /\ bTskDone' \in BOOLEAN /\ crashed' \in BOOLEAN
        /\ svc' \in {"idle", "started", "marked", "joining", "freed"}
    BY DEF LoopStep, LoopSocket, LoopBinds, LoopListens, LoopSetupFails, LoopGoes, LoopCloses, LoopChecks,
           LoopEnds, AcceptFails, LoopAccepts, ServiceStart, StopMarks, StopStep, StopShuts, StopJoins,
           ServiceFree, ownerVars, TypeOK
  <1>4. starts' \in 0 .. MaxStarts
    BY JsonRpcAssumption
       DEF LoopStep, LoopSocket, LoopBinds, LoopListens, LoopSetupFails, LoopCloses, LoopChecks,
           LoopEnds, AcceptFails, LoopAccepts, ServiceStart, StopMarks, StopStep, StopShuts, StopJoins,
           ServiceFree, ownerVars, TypeOK, JsonRpcAssumption
  <1>5. TypeOK'
    BY <1>1, <1>2, <1>3, <1>4 DEF TypeOK, clientVars
  <1>6. \A k \in Conns : Carries(k)
    BY <1>1 DEF Carries, AtMost, Quiet
  <1>7. 1 \in Conns
    BY JsonRpcAssumption DEF JsonRpcAssumption, Conns
  <1>8. ClientsOK'
    BY <1>1, <1>2, <1>6, <1>7, CarriesClients
  <1>9. AnswersOwnRequest'
    BY <1>1 DEF AnswersOwnRequest, clientVars
  <1> QED
    BY <1>5, <1>8, <1>9

(* Types, and what the connections carry, at every reachable state.       *)
THEOREM Invariance == Spec => []IInv
  <1>1. Init => IInv
    <2> SUFFICES ASSUME Init PROVE IInv
      OBVIOUS
    <2>1. request_id \in 1 .. MaxCalls + 1 /\ starts \in 0 .. MaxStarts /\ None \in 0 .. MaxCalls
      BY JsonRpcAssumption DEF Init, JsonRpcAssumption, None
    <2>2. /\ toServer \in [Conns -> Seq(1 .. MaxCalls)] /\ toClient \in [Conns -> Seq(0 .. MaxCalls)]
          /\ serving \in [Conns -> 0 .. MaxCalls]
          /\ asked \in [Clients -> 0 .. MaxCalls] /\ got \in [Clients -> 0 .. MaxCalls]
      BY <2>1 DEF Init
    <2>3. TypeOK
      BY <2>1, <2>2 DEF Init, TypeOK
    <2>4. ClientsOK /\ AnswersOwnRequest
      BY DEF Init, ClientsOK, AnswersOwnRequest, Quiet
    <2> QED
      BY <2>3, <2>4 DEF IInv
  <1>2. IInv /\ [Next]_vars => IInv'
    <2> SUFFICES ASSUME IInv, [Next]_vars
                 PROVE  IInv'
      OBVIOUS
    <2>1. CASE UNCHANGED vars
      BY <2>1 DEF vars, clientVars, netVars, serviceVars, ownerVars, IInv, TypeOK, ClientsOK,
                  AnswersOwnRequest, AtMost, Quiet
    <2>2. CASE Next
      BY <2>2, BeginsKeeps, ConnectKeeps, SendKeeps, ReceiveKeeps, GivesUpKeeps, ServeKeeps, OthersKeep
         DEF Next
    <2> QED
      BY <2>1, <2>2
  <1> QED
    BY <1>1, <1>2, PTL DEF Spec

(* Every variable keeps its type. *)
THEOREM TypeCorrect == Spec => []TypeOK
  BY Invariance, PTL DEF IInv

(* Nobody compares ids, and each call gets the answer to its own request,  *)
(* until one too long for the buffer comes on its connection.              *)
THEOREM AnswersMatch == Spec => []AnswersOwnRequest
  BY Invariance, PTL DEF IInv
-----------------------------------------------------------------------------
(***************************************************************************)
(* DebugTrace.                                                             *)
(***************************************************************************)
(* The server's thread has put a client into client_socket exactly while   *)
(* it serves it, and from the time it has accepted it nobody else closes   *)
(* its connection; there is no thread when there is no owner.              *)
ServingOK ==
    /\ client_socket # NoClient <=> thread \in {"serving", "checking", "closing"}
    /\ client_socket # NoClient => client_socket = accepted
    /\ thread \in {"accepted", "serving", "checking", "closing"} =>
          accepted # NoClient /\ conn[accepted] \in {"open", "gone"}
    /\ owner = "none" => thread = "none"

(* A thread that sends holds the server's mutex, and somebody is served.   *)
SendingOK == \A t \in Threads : logPc[t] = "sending" => mutex = t /\ client_socket # NoClient

TraceIInv == TraceTypeOK /\ ServingOK /\ SendingOK
-----------------------------------------------------------------------------
LEMMA NobodyIs ==
    /\ "server" \in Threads /\ "owner" \in Threads /\ "nobody" \notin Threads
    /\ NoClient \notin TraceClients
    /\ TraceClients \subseteq Nat
  BY DebugTraceAssumption DEF DebugTraceAssumption, Threads, TraceClients, NoClient

(* The steps of log_write and debug_trace. *)
LEMMA LogKeeps ==
    ASSUME TraceIInv, NEW t \in Threads, LogBegins(t) \/ LogLocks(t) \/ LogGoesOn(t)
    PROVE  TraceIInv'
  <1> USE DEF TraceIInv
  <1>1. UNCHANGED <<serverVars, age, traceOwnerVars, conn, input>>
    BY DEF LogBegins, LogLocks, LogGoesOn, LogTests, TraceLocks, TraceSends, LogUnlocks,
           traceClientVars
  <1>2. TraceTypeOK'
    <2>1. CASE LogBegins(t)
      BY <2>1 DEF LogBegins, LogGoes, TraceTypeOK, serverVars, traceOwnerVars, traceClientVars
    <2>2. CASE LogLocks(t)
      BY <2>2 DEF LogLocks, LogGoes, TraceTypeOK, serverVars, traceOwnerVars, traceClientVars
    <2>3. CASE LogTests(t)
      BY <2>3 DEF LogTests, LogGoes, TraceTypeOK, serverVars, traceOwnerVars, traceClientVars
    <2>4. CASE TraceLocks(t)
      BY <2>4 DEF TraceLocks, LogGoes, TraceTypeOK, serverVars, traceOwnerVars, traceClientVars
    <2>5. CASE TraceSends(t)
      <3>1. room' \in [TraceClients -> BOOLEAN]
        BY <2>5 DEF TraceSends, TraceTypeOK
      <3> QED
        BY <2>5, <3>1 DEF TraceSends, LogGoes, TraceTypeOK, serverVars, traceOwnerVars
    <2>6. CASE LogUnlocks(t)
      BY <2>6 DEF LogUnlocks, LogGoes, TraceTypeOK, serverVars, traceOwnerVars, traceClientVars
    <2> QED
      BY <2>1, <2>2, <2>3, <2>4, <2>5, <2>6 DEF LogGoesOn
  <1>3. ServingOK'
    BY <1>1 DEF ServingOK, serverVars, traceOwnerVars
  <1>4. SendingOK'
    <2>1. CASE LogBegins(t) \/ LogLocks(t) \/ LogTests(t) \/ LogUnlocks(t)
      BY <1>1, <2>1
         DEF LogBegins, LogLocks, LogTests, LogUnlocks, LogGoes, SendingOK, TraceTypeOK,
             serverVars
    <2>2. CASE TraceLocks(t)
      BY <1>1, <2>2, NobodyIs DEF TraceLocks, LogGoes, SendingOK, TraceTypeOK, serverVars
    <2>3. CASE TraceSends(t)
      <3>1. mutex = t /\ logPc' = [logPc EXCEPT ![t] = "unlock"]
        BY <2>3 DEF TraceSends, LogGoes, SendingOK
      <3> QED
        BY <3>1 DEF SendingOK, TraceTypeOK
    <2> QED
      BY <2>1, <2>2, <2>3 DEF LogGoesOn
  <1> QED
    BY <1>2, <1>3, <1>4

(* The steps of the server's thread. *)
LEMMA ServerKeeps ==
    ASSUME TraceIInv, ServerStep
    PROVE  TraceIInv'
  <1> USE DEF TraceIInv
  <1>1. CASE ThreadListens
    BY <1>1, NobodyIs
       DEF ThreadListens, Moves, TraceTypeOK, ServingOK, SendingOK, logVars, traceOwnerVars,
           traceClientVars
  <1>2. ASSUME NEW c \in TraceClients, ThreadAccepts(c)
        PROVE  TraceIInv'
    BY <1>2, NobodyIs
       DEF ThreadAccepts, Moves, TraceTypeOK, ServingOK, SendingOK, logVars, traceOwnerVars
  <1>3. CASE ThreadEnds
    BY <1>3, NobodyIs
       DEF ThreadEnds, Moves, TraceTypeOK, ServingOK, SendingOK, logVars, traceOwnerVars
  <1>4. CASE ThreadFails
    BY <1>4, NobodyIs
       DEF ThreadFails, Moves, TraceTypeOK, ServingOK, SendingOK, logVars, traceOwnerVars,
           traceClientVars
  <1>5. CASE ServeBegins
    <2>1. \A t \in Threads : logPc[t] # "sending"
      BY <1>5, NobodyIs DEF ServeBegins, SendingOK
    <2>2. accepted \in TraceClients /\ accepted # NoClient
      BY <1>5 DEF ServeBegins, Moves, ServingOK, TraceTypeOK
    <2>3. TraceTypeOK'
      <3>1. age' \in 0 .. Timeout + 1
        BY <1>5, DebugTraceAssumption DEF ServeBegins, DebugTraceAssumption
      <3>2. logPc' \in [Threads -> {"idle", "begin", "locked", "calling", "sending", "unlock"}]
        BY <1>5 DEF ServeBegins, Logs, TraceTypeOK
      <3>3. thread' = "serving" /\ client_socket' \in TraceClients \cup {NoClient}
        BY <1>5, <2>2 DEF ServeBegins, Moves
      <3> QED
        BY <1>5, <3>1, <3>2, <3>3 DEF ServeBegins, TraceTypeOK, traceOwnerVars, traceClientVars
    <2>4. ServingOK'
      BY <1>5, <2>2 DEF ServeBegins, Moves, ServingOK, traceOwnerVars, traceClientVars
    <2>5. SendingOK'
      BY <1>5, <2>1 DEF ServeBegins, Logs, SendingOK, TraceTypeOK
    <2> QED
      BY <2>3, <2>4, <2>5
  <1>6. CASE ServeReads
    <2>1. logPc' \in [Threads -> {"idle", "begin", "locked", "calling", "sending", "unlock"}]
          /\ \A t \in Threads : logPc'[t] = "sending" => logPc[t] = "sending"
      BY <1>6 DEF ServeReads, Logs, TraceTypeOK
    <2>2. age' \in 0 .. Timeout + 1
      BY <1>6, DebugTraceAssumption DEF ServeReads, TraceTypeOK, DebugTraceAssumption
    <2>3. TraceTypeOK'
      BY <1>6, <2>1, <2>2 DEF ServeReads, Moves, TraceTypeOK, traceOwnerVars
    <2>4. ServingOK'
      BY <1>6 DEF ServeReads, Moves, ServingOK, traceOwnerVars
    <2>5. SendingOK'
      BY <1>6, <2>1 DEF ServeReads, SendingOK
    <2> QED
      BY <2>3, <2>4, <2>5
  <1>7. CASE ServeFindsGone \/ ServeTimesOut
    <2>1. TraceTypeOK'
      BY <1>7
         DEF ServeFindsGone, ServeTimesOut, Moves, Logs, TraceTypeOK, traceOwnerVars,
             traceClientVars
    <2>2. ServingOK'
      BY <1>7
         DEF ServeFindsGone, ServeTimesOut, Moves, ServingOK, traceOwnerVars, traceClientVars
    <2>3. SendingOK'
      BY <1>7 DEF ServeFindsGone, ServeTimesOut, Logs, SendingOK, TraceTypeOK
    <2> QED
      BY <2>1, <2>2, <2>3
  <1>8. CASE ServeWaits \/ ServeChecks \/ ServeStops
    <2>1. UNCHANGED <<logVars, accepted, client_socket, age, traceOwnerVars, traceClientVars>>
      BY <1>8 DEF ServeWaits, ServeChecks, ServeStops
    <2>2. thread \in {"serving", "checking"} /\ thread' \in {"serving", "checking", "closing"}
      BY <1>8 DEF ServeWaits, ServeChecks, ServeStops, Moves
    <2> QED
      BY <2>1, <2>2
         DEF TraceTypeOK, ServingOK, SendingOK, logVars, traceOwnerVars, traceClientVars
  <1>9. CASE ServeCloses
    <2>1. \A t \in Threads : logPc[t] # "sending"
      BY <1>9, NobodyIs DEF ServeCloses, SendingOK
    <2>2. TraceTypeOK'
      BY <1>9 DEF ServeCloses, Moves, TraceTypeOK, logVars, traceOwnerVars
    <2>3. ServingOK'
      BY <1>9 DEF ServeCloses, Moves, ServingOK, traceOwnerVars
    <2>4. SendingOK'
      BY <1>9, <2>1 DEF ServeCloses, SendingOK, logVars
    <2> QED
      BY <2>2, <2>3, <2>4
  <1> QED
    BY <1>1, <1>2, <1>3, <1>4, <1>5, <1>6, <1>7, <1>8, <1>9 DEF ServerStep

(* The steps of the owner. *)
LEMMA OwnerKeeps ==
    ASSUME TraceIInv, OwnerStep
    PROVE  TraceIInv'
  <1> USE DEF TraceIInv
  <1>1. CASE InitStarts
    BY <1>1 DEF InitStarts, TraceTypeOK, ServingOK, SendingOK, logVars, traceClientVars
  <1>2. CASE InitRegisters
    <2>1. TraceTypeOK'
      BY <1>2 DEF InitRegisters, TraceTypeOK, serverVars, traceClientVars
    <2>2. ServingOK'
      BY <1>2 DEF InitRegisters, ServingOK, serverVars, traceClientVars
    <2>3. SendingOK'
      BY <1>2 DEF InitRegisters, SendingOK, TraceTypeOK, serverVars
    <2> QED
      BY <2>1, <2>2, <2>3
  <1>3. CASE DestroyUnregisters
    BY <1>3
       DEF DestroyUnregisters, TraceTypeOK, ServingOK, SendingOK, logVars, serverVars,
           traceClientVars
  <1>4. CASE DestroyJoins
    BY <1>4 DEF DestroyJoins, TraceTypeOK, ServingOK, SendingOK, logVars, traceClientVars
  <1> QED
    BY <1>1, <1>2, <1>3, <1>4 DEF OwnerStep

(* The steps of the clients of the trace port. *)
LEMMA ClientKeeps ==
    ASSUME TraceIInv, NEW c \in TraceClients, ClientStep(c)
    PROVE  TraceIInv'
  <1> USE DEF TraceIInv
  <1>1. UNCHANGED <<logVars, serverVars, age, traceOwnerVars>>
    BY DEF ClientStep, ClientConnects, ClientSends, ClientReads, ClientLeaves
  <1>2. /\ conn' \in [TraceClients -> {"new", "waiting", "open", "gone", "closed"}]
        /\ room' \in [TraceClients -> BOOLEAN]
        /\ input' \in [TraceClients -> {"none", "heartbeat", "command"}]
    BY DEF ClientStep, ClientConnects, ClientSends, ClientReads, ClientLeaves, TraceTypeOK
  <1>3. \A d \in TraceClients : conn[d] \in {"open", "gone"} => conn'[d] \in {"open", "gone"}
    BY DEF ClientStep, ClientConnects, ClientSends, ClientReads, ClientLeaves, TraceTypeOK
  <1>4. TraceTypeOK'
    BY <1>1, <1>2 DEF TraceTypeOK, logVars, serverVars, traceOwnerVars
  <1>5. ServingOK'
    BY <1>1, <1>3 DEF ServingOK, TraceTypeOK, serverVars, traceOwnerVars
  <1>6. SendingOK'
    BY <1>1 DEF SendingOK, logVars, serverVars
  <1> QED
    BY <1>4, <1>5, <1>6

(* Types, and where the server's thread and the threads that log stand.    *)
THEOREM TraceInvariance == TraceSpec => []TraceIInv
  <1>1. TraceInit => TraceIInv
    <2> SUFFICES ASSUME TraceInit PROVE TraceIInv
      OBVIOUS
    <2>1. /\ age \in 0 .. Timeout + 1
          /\ logPc \in [Threads -> {"idle", "begin", "locked", "calling", "sending", "unlock"}]
          /\ conn \in [TraceClients -> {"new", "waiting", "open", "gone", "closed"}]
          /\ room \in [TraceClients -> BOOLEAN]
          /\ input \in [TraceClients -> {"none", "heartbeat", "command"}]
      BY DebugTraceAssumption DEF TraceInit, DebugTraceAssumption
    <2>2. TraceTypeOK
      BY <2>1 DEF TraceInit, TraceTypeOK
    <2>3. ServingOK /\ SendingOK
      BY DEF TraceInit, ServingOK, SendingOK
    <2> QED
      BY <2>2, <2>3 DEF TraceIInv
  <1>2. TraceIInv /\ [TraceNext]_traceVars => TraceIInv'
    <2> SUFFICES ASSUME TraceIInv, [TraceNext]_traceVars
                 PROVE  TraceIInv'
      OBVIOUS
    <2>1. CASE Tick
      BY <2>1, DebugTraceAssumption
         DEF Tick, TraceIInv, TraceTypeOK, ServingOK, SendingOK, logVars, serverVars,
             traceOwnerVars, traceClientVars,
             DebugTraceAssumption
    <2>2. CASE UNCHANGED traceVars
      BY <2>2
         DEF traceVars, TraceIInv, TraceTypeOK, ServingOK, SendingOK, logVars, serverVars,
             traceOwnerVars, traceClientVars
    <2> QED
      BY <2>1, <2>2, LogKeeps, ServerKeeps, OwnerKeeps, ClientKeeps DEF TraceNext, Threads
  <1> QED
    BY <1>1, <1>2, PTL DEF TraceSpec

(* Every variable keeps its type. *)
THEOREM TraceTypeCorrect == TraceSpec => []TraceTypeOK
  BY TraceInvariance, PTL DEF TraceIInv

(* A line is only sent to the client that is connected, under the mutex    *)
(* without which its connection is not closed.                             *)
THEOREM TraceSocketOpen == TraceSpec => []TraceOnOpenSocket
  <1>1. TraceIInv => TraceOnOpenSocket
    BY DEF TraceIInv, ServingOK, SendingOK, TraceOnOpenSocket
  <1> QED
    BY <1>1, TraceInvariance, PTL
-----------------------------------------------------------------------------
(***************************************************************************)
(* LogFile.                                                                *)
(***************************************************************************)
Names == Current \cup Old
LinesIn(f, n) == {f[n].lines[k] : k \in DOMAIN f[n].lines}

(* The names of a log that a process started at t has made: the current    *)
(* one, and where a later process moves it.                                *)
LogOf(t) == <<"dir", "start", t>>
MovedLogOf(t) == <<"old", "start", t>>

(* The files f hold the lines stamped s: each holds its own in order, none *)
(* stamped after the file was last written to, no line is in two files,    *)
(* and every line of the last week is in one.                              *)
LinesKept(f, s) ==
    /\ \A n \in Names : \A l \in LinesIn(f, n) : l \in DOMAIN s /\ s[l] <= f[n].mtime
    /\ \A n \in Names : \A j, k \in DOMAIN f[n].lines : j < k => f[n].lines[j] < f[n].lines[k]
    /\ \A m, n \in Names : m # n => LinesIn(f, m) \cap LinesIn(f, n) = {}
    /\ \A l \in DOMAIN s : s[l] >= now - Keep => \E n \in Names : l \in LinesIn(f, n)

(* A log is not where it was made and where it is moved to. *)
OnePlace(f) == \A t \in Times : f[LogOf(t)] = Absent \/ f[MovedLogOf(t)] = Absent

FilesInv ==
    /\ FilesTypeOK /\ Len(stamp) <= MaxLines /\ \A l \in DOMAIN stamp : stamp[l] <= now
    /\ LinesKept(files, stamp)
    /\ OnePlace(files)
    /\ log_file => running /\ files[MovedLogOf(current_log_path[3])] = Absent
-----------------------------------------------------------------------------
File == [lines : Seq(1 .. MaxLines), mtime : Times \cup {-1}]

LEMMA NamesAre ==
    /\ \A n \in Names : n \in Current \/ n \in Old
    /\ Current \subseteq Names /\ Old \subseteq Names
    /\ \A t \in Times : LogOf(t) \in Current /\ MovedLogOf(t) \in Old
                        /\ <<"old", "rotated", t>> \in Old
    /\ \A n \in Current : n[3] \in Times /\ n = LogOf(n[3]) /\ n[2] = "start"
    /\ \A n \in Old : n[3] \in Times /\ (n[2] = "start" => n = MovedLogOf(n[3]))
    /\ \A n \in Current, m \in Old : n # m
  BY DEF Names, Current, Old, LogOf, MovedLogOf

LEMMA AbsentIs == Absent.lines = <<>> /\ Absent.mtime = -1 /\ Absent \in File
  BY DEF Absent, File

LEMMA EmptyHolds ==
    ASSUME NEW f, NEW n, f[n].lines = <<>>
    PROVE  LinesIn(f, n) = {} /\ DOMAIN f[n].lines = {}
  BY DEF LinesIn

(* Files that got new names, or were removed a week after they were        *)
(* written, still hold the lines: from says what each was called before.   *)
LEMMA Renamed ==
    ASSUME NEW f, NEW g, NEW s, LinesKept(f, s),
           NEW from \in [Names -> Names],
           \A n \in Names : g[n].lines = <<>> \/ g[n] = f[from[n]],
           \A m, n \in Names : m # n => g[m].lines = <<>> \/ g[n].lines = <<>> \/ from[m] # from[n],
           \A m \in Names : \/ f[m].lines = <<>>
                            \/ \E n \in Names : g[n] = f[m]
                            \/ f[m].mtime < now - Keep,
           s \in Seq(Times), \A m \in Names : f[m].mtime \in Int, now \in Int, Keep \in Int
    PROVE  LinesKept(g, s)
  <1>1. \A n \in Names : LinesIn(g, n) = {} \/ (g[n] = f[from[n]] /\ LinesIn(g, n) = LinesIn(f, from[n]))
    <2> TAKE n \in Names
    <2>1. CASE g[n].lines = <<>>
      BY <2>1, EmptyHolds
    <2>2. CASE g[n] = f[from[n]]
      BY <2>2 DEF LinesIn
    <2> QED
      BY <2>1, <2>2
  <1>2. \A n \in Names : \A l \in LinesIn(g, n) : l \in DOMAIN s /\ s[l] <= g[n].mtime
    BY <1>1 DEF LinesKept
  <1>3. \A n \in Names : \A j, k \in DOMAIN g[n].lines : j < k => g[n].lines[j] < g[n].lines[k]
    BY EmptyHolds DEF LinesKept
  <1>4. \A m, n \in Names : m # n => LinesIn(g, m) \cap LinesIn(g, n) = {}
    <2> SUFFICES ASSUME NEW m \in Names, NEW n \in Names, m # n
                 PROVE  LinesIn(g, m) \cap LinesIn(g, n) = {}
      OBVIOUS
    <2>1. CASE g[m].lines = <<>> \/ g[n].lines = <<>>
      BY <2>1, EmptyHolds
    <2>2. CASE from[m] # from[n]
      BY <1>1, <2>2 DEF LinesKept
    <2> QED
      BY <2>1, <2>2
  <1>5. ASSUME NEW l \in DOMAIN s, s[l] >= now - Keep
        PROVE  \E n \in Names : l \in LinesIn(g, n)
    <2>1. PICK m \in Names : l \in LinesIn(f, m)
      BY <1>5 DEF LinesKept
    <2>2. f[m].lines # <<>> /\ s[l] <= f[m].mtime
      BY <2>1, EmptyHolds DEF LinesKept
    <2>3. s[l] \in Int
      <3>1. s[l] \in Times /\ Times \subseteq Int
        BY LogFileAssumption DEF Times, LogFileAssumption
      <3> QED
        BY <3>1
    <2>4. PICK n \in Names : g[n] = f[m]
      BY <1>5, <2>2, <2>3
    <2> QED
      BY <2>1, <2>4 DEF LinesIn
  <1> QED
    BY <1>2, <1>3, <1>4, <1>5 DEF LinesKept

(* What a set of files has to keep through the parts of an action. *)
Kept(f, s) == f \in [Names -> File] /\ LinesKept(f, s) /\ OnePlace(f)

LEMMA TimesAre == now \in Times => now \in Int /\ now # -1 /\ Times \subseteq Nat /\ Keep \in Nat
  BY LogFileAssumption DEF LogFileAssumption, Times

LEMMA FileIs ==
    ASSUME NEW f \in [Names -> File]
    PROVE  /\ DOMAIN f = Names
           /\ \A n \in Names : f[n] \in File /\ f[n].mtime \in Int
  <1>1. \A x \in File : x.mtime \in Int
    BY LogFileAssumption DEF File, Times, LogFileAssumption
  <1> QED
    BY <1>1

LEMMA CleanedKeeps ==
    ASSUME FilesTypeOK, NEW f, Kept(f, stamp), NEW g \in Cleaned(f)
    PROVE  Kept(g, stamp) /\ \A n \in Names : f[n] = Absent => g[n] = Absent
  <1>1. PICK gone \in SUBSET {n \in Old : f[n] # Absent /\ f[n].mtime < now - Keep} :
           g = [n \in DOMAIN f |-> IF n \in gone THEN Absent ELSE f[n]]
    BY DEF Cleaned
  <1>2. f \in [Names -> File] /\ DOMAIN f = Names /\ \A n \in Names : f[n].mtime \in Int
    BY FileIs DEF Kept
  <1>3. \A n \in Names : g[n] = Absent \/ g[n] = f[n]
    BY <1>1, <1>2
  <1>4. g \in [Names -> File]
    BY <1>1, <1>2, AbsentIs
  <1>5. LinesKept(g, stamp)
    <2> DEFINE from == [n \in Names |-> n]
    <2>1. from \in [Names -> Names] /\ \A n \in Names : from[n] = n
      OBVIOUS
    <2> HIDE DEF from
    <2>2. \A n \in Names : g[n].lines = <<>> \/ g[n] = f[from[n]]
      BY <1>3, <2>1, AbsentIs
    <2>3. \A m \in Names : g[m] = f[m] \/ f[m].mtime < now - Keep
      BY <1>1, <1>2
    <2>4. stamp \in Seq(Times) /\ now \in Int /\ Keep \in Int
      BY TimesAre DEF FilesTypeOK
    <2> QED
      BY <1>2, <2>1, <2>2, <2>3, <2>4, Renamed DEF Kept
  <1>6. OnePlace(g)
    BY <1>3, NamesAre DEF Kept, OnePlace
  <1> QED
    BY <1>3, <1>4, <1>5, <1>6 DEF Kept

LEMMA MigratedKeeps ==
    ASSUME FilesTypeOK, NEW f, Kept(f, stamp), NEW g \in Migrated(f)
    PROVE  /\ Kept(g, stamp)
           /\ \A t \in Times : f[LogOf(t)] = Absent /\ f[MovedLogOf(t)] = Absent
                                  => g[MovedLogOf(t)] = Absent
  <1>1. PICK moved \in SUBSET {n \in Current : f[n] # Absent} :
           g = [n \in DOMAIN f |->
                  IF n \in moved THEN Absent
                  ELSE IF n[2] = "start" /\ <<"dir", "start", n[3]>> \in moved
                       THEN f[<<"dir", "start", n[3]>>]
                  ELSE f[n]]
    BY DEF Migrated
  <1>2. f \in [Names -> File] /\ DOMAIN f = Names /\ \A n \in Names : f[n].mtime \in Int
    BY FileIs DEF Kept
  <1>3. /\ \A n \in moved : n \in Current /\ n \in Names /\ f[n] # Absent /\ g[n] = Absent
        /\ \A n \in Current \ moved : g[n] = f[n]
    BY <1>1, <1>2, NamesAre DEF LogOf
  <1>4. \A n \in Old : \/ g[n] = f[n] /\ (n[2] = "start" => LogOf(n[3]) \notin moved)
                       \/ /\ LogOf(n[3]) \in moved /\ g[n] = f[LogOf(n[3])]
                          /\ n = MovedLogOf(n[3]) /\ f[n] = Absent
    <2> TAKE n \in Old
    <2>1. n \in Names /\ n \notin moved /\ n[3] \in Times
      BY <1>3, NamesAre
    <2>2. CASE n[2] = "start" /\ LogOf(n[3]) \in moved
      <3>1. n = MovedLogOf(n[3]) /\ g[n] = f[LogOf(n[3])]
        BY <1>1, <1>2, <2>1, <2>2, NamesAre DEF LogOf
      <3>2. f[n] = Absent
        BY <1>3, <2>1, <2>2, <3>1 DEF Kept, OnePlace
      <3> QED
        BY <2>2, <3>1, <3>2
    <2>3. CASE ~(n[2] = "start" /\ LogOf(n[3]) \in moved)
      BY <1>1, <1>2, <2>1, <2>3 DEF LogOf
    <2> QED
      BY <2>2, <2>3
  <1>5. \A n \in Names : g[n] = Absent \/ g[n] \in File
    BY <1>2, <1>3, <1>4, NamesAre
  <1>6. g \in [Names -> File]
    BY <1>1, <1>2, <1>5, AbsentIs
  <1>7. LinesKept(g, stamp)
    <2> DEFINE Gets(n) == n[2] = "start" /\ LogOf(n[3]) \in moved
               from == [n \in Names |-> IF n \in Old /\ Gets(n) THEN LogOf(n[3]) ELSE n]
    <2>1. from \in [Names -> Names]
      BY NamesAre
    <2>2. /\ \A n \in Current : from[n] = n
          /\ \A n \in Old : from[n] = IF Gets(n) THEN LogOf(n[3]) ELSE n
      BY NamesAre
    <2>3. \A n \in Old : Gets(n) => g[n] = f[LogOf(n[3])] /\ n = MovedLogOf(n[3])
      BY <1>4
    <2>4. \A n \in Old : ~Gets(n) => g[n] = f[n]
      <3>1. \A n \in Old : n = MovedLogOf(n[3]) => n[2] = "start"
        BY DEF MovedLogOf
      <3> QED
        BY <1>4, <3>1
    <2>5. \A n \in Old : Gets(n) => LogOf(n[3]) \in moved /\ LogOf(n[3])[3] = n[3]
      BY DEF LogOf
    <2>6. \A t \in Times : LogOf(t) \in moved => Gets(MovedLogOf(t))
      BY DEF MovedLogOf
    <2> HIDE DEF from, Gets
    <2>7. \A n \in Names : g[n].lines = <<>> \/ g[n] = f[from[n]]
      BY <1>3, <2>2, <2>3, <2>4, NamesAre, AbsentIs
    <2>8. \A n \in Old : \/ from[n] = n
                         \/ from[n] \in moved /\ n = MovedLogOf(from[n][3])
      BY <2>2, <2>3, <2>5
    <2>9. \A m, n \in Names : m # n => g[m].lines = <<>> \/ g[n].lines = <<>> \/ from[m] # from[n]
      <3>1. \A n \in Names : n \in moved => g[n].lines = <<>>
        BY <1>3, AbsentIs
      <3> QED
        BY <1>3, <2>2, <2>8, <3>1, NamesAre
    <2>10. \A m \in Names : f[m].lines = <<>> \/ \E n \in Names : g[n] = f[m]
      <3> TAKE m \in Names
      <3>1. CASE m \in moved
        <4>1. m \in Current /\ m[3] \in Times /\ m = LogOf(m[3]) /\ MovedLogOf(m[3]) \in Old
          BY <1>3, <3>1, NamesAre
        <4>2. MovedLogOf(m[3])[3] = m[3] /\ Gets(MovedLogOf(m[3]))
          BY <2>6, <3>1, <4>1 DEF MovedLogOf
        <4>3. g[MovedLogOf(m[3])] = f[m]
          BY <2>3, <4>1, <4>2
        <4> QED
          BY <4>1, <4>3, NamesAre
      <3>2. CASE m \in Current \ moved
        BY <1>3, <3>2
      <3>3. CASE m \in Old
        BY <1>4, <3>3, AbsentIs
      <3> QED
        BY <3>1, <3>2, <3>3, NamesAre
    <2>11. stamp \in Seq(Times) /\ now \in Int /\ Keep \in Int
      BY TimesAre DEF FilesTypeOK
    <2> QED
      BY <1>2, <2>1, <2>7, <2>10, <2>11, <2>9, Renamed DEF Kept
  <1>8. \A t \in Times : MovedLogOf(t)[3] = t /\ MovedLogOf(t)[2] = "start"
    BY DEF MovedLogOf
  <1>9. OnePlace(g)
    BY <1>3, <1>4, <1>8, NamesAre DEF Kept, OnePlace
  <1>10. \A t \in Times : f[LogOf(t)] = Absent /\ f[MovedLogOf(t)] = Absent => g[MovedLogOf(t)] = Absent
    BY <1>3, <1>4, <1>8, NamesAre
  <1> QED
    BY <1>6, <1>7, <1>9, <1>10 DEF Kept

(* The rename of a log that has grown too long.  The stamps s are those    *)
(* after the line that made it so.                                         *)
LEMMA MovedKeeps ==
    ASSUME FilesTypeOK, NEW f, NEW s \in Seq(Times), Kept(f, s),
           NEW n0 \in Current, NEW to \in Old, f[to] = Absent, \A t \in Times : to # MovedLogOf(t)
    PROVE  Kept(Moved(f, n0, to), s)
  <1> DEFINE g == Moved(f, n0, to)
  <1>1. f \in [Names -> File] /\ DOMAIN f = Names /\ \A n \in Names : f[n].mtime \in Int
    BY FileIs DEF Kept
  <1>2. n0 \in Names /\ to \in Names /\ n0 # to
    BY NamesAre
  <1>3. /\ g[n0] = Absent /\ g[to] = f[n0]
        /\ \A n \in Names : n # n0 /\ n # to => g[n] = f[n]
    BY <1>1, <1>2 DEF Moved
  <1>4. g \in [Names -> File]
    BY <1>1, <1>2, AbsentIs DEF Moved
  <1> HIDE DEF g
  <1>5. LinesKept(g, s)
    <2> DEFINE from == [n \in Names |-> IF n = to THEN n0 ELSE n]
    <2>1. /\ from \in [Names -> Names]
          /\ \A n \in Names : from[n] = IF n = to THEN n0 ELSE n
      BY <1>2
    <2> HIDE DEF from
    <2>2. \A n \in Names : g[n].lines = <<>> \/ g[n] = f[from[n]]
      BY <1>3, <2>1, AbsentIs
    <2>3. \A m, n \in Names : m # n => g[m].lines = <<>> \/ g[n].lines = <<>> \/ from[m] # from[n]
      BY <1>3, <2>1, AbsentIs
    <2>4. \A m \in Names : f[m].lines = <<>> \/ \E n \in Names : g[n] = f[m]
      BY <1>2, <1>3, AbsentIs
    <2>5. now \in Int /\ Keep \in Int
      BY TimesAre DEF FilesTypeOK
    <2> QED
      BY <1>1, <2>1, <2>2, <2>3, <2>4, <2>5, Renamed DEF Kept
  <1>6. OnePlace(g)
    <2> SUFFICES ASSUME NEW t \in Times
                 PROVE  g[LogOf(t)] = Absent \/ g[MovedLogOf(t)] = Absent
      BY DEF OnePlace
    <2>1. LogOf(t) \in Names /\ LogOf(t) # to /\ MovedLogOf(t) \in Names
          /\ MovedLogOf(t) # to /\ MovedLogOf(t) # n0
      BY NamesAre
    <2>2. g[MovedLogOf(t)] = f[MovedLogOf(t)] /\ (g[LogOf(t)] = f[LogOf(t)] \/ g[LogOf(t)] = Absent)
      BY <1>3, <2>1
    <2> QED
      BY <2>2 DEF Kept, OnePlace
  <1> QED
    BY <1>4, <1>5, <1>6 DEF Kept, g

LEMMA OpenedKeeps ==
    ASSUME FilesTypeOK, NEW f, NEW s \in Seq(Times), Kept(f, s),
           NEW n0 \in Current, f[MovedLogOf(n0[3])] = Absent
    PROVE  /\ Kept(Opened(f, n0), s)
           /\ \A n \in Names : n # n0 => Opened(f, n0)[n] = f[n]
  <1> DEFINE g == Opened(f, n0)
  <1>1. f \in [Names -> File] /\ DOMAIN f = Names /\ \A n \in Names : f[n].mtime \in Int
    BY FileIs DEF Kept
  <1>2. n0 \in Names
    BY NamesAre
  <1>3. CASE f[n0] # Absent
    BY <1>3 DEF Opened
  <1>4. CASE f[n0] = Absent
    <2>1. g = [f EXCEPT ![n0] = [lines |-> <<>>, mtime |-> now]]
      <3>1. [f[n0] EXCEPT !.mtime = now] = [lines |-> <<>>, mtime |-> now]
        BY <1>4 DEF Absent
      <3> QED
        BY <1>1, <1>2, <1>4, <3>1 DEF Opened
    <2>2. [lines |-> <<>>, mtime |-> now] \in File
      BY DEF File, FilesTypeOK
    <2>3. g \in [Names -> File] /\ g[n0].lines = <<>> /\ \A n \in Names : n # n0 => g[n] = f[n]
      BY <1>1, <1>2, <2>1, <2>2
    <2> HIDE DEF g
    <2>4. LinesKept(g, s)
      <3> DEFINE from == [n \in Names |-> n]
      <3>1. from \in [Names -> Names] /\ \A n \in Names : from[n] = n
        OBVIOUS
      <3> HIDE DEF from
      <3>2. \A n \in Names : g[n].lines = <<>> \/ g[n] = f[from[n]]
        BY <2>3, <3>1
      <3>3. \A m \in Names : f[m].lines = <<>> \/ \E n \in Names : g[n] = f[m]
        BY <1>4, <2>3, AbsentIs
      <3>4. now \in Int /\ Keep \in Int
        BY TimesAre DEF FilesTypeOK
      <3> QED
        BY <1>1, <3>1, <3>2, <3>3, <3>4, Renamed DEF Kept
    <2>5. OnePlace(g)
      <3> SUFFICES ASSUME NEW t \in Times
                   PROVE  g[LogOf(t)] = Absent \/ g[MovedLogOf(t)] = Absent
        BY DEF OnePlace
      <3>1. /\ LogOf(t) \in Names /\ MovedLogOf(t) \in Names /\ MovedLogOf(t) # n0
            /\ LogOf(t) = n0 => t = n0[3]
        BY NamesAre DEF LogOf
      <3> QED
        BY <2>3, <3>1 DEF Kept, OnePlace
    <2> QED
      BY <2>3, <2>4, <2>5 DEF Kept, g
  <1> QED
    BY <1>3, <1>4

(* A line that is written: it is the last one of its file, and of all.     *)
LEMMA AppendedKeeps ==
    ASSUME FilesInv, log_file, Len(stamp) < MaxLines
    PROVE  /\ Kept(Appended, Append(stamp, now))
           /\ \A n \in Names : n # current_log_path => Appended[n] = files[n]
  <1> DEFINE c == current_log_path
             x == Len(stamp) + 1
             s == Append(stamp, now)
             old == files[c].lines
             new == Append(old, x)
             x0 == Len(old) + 1
             g == Appended
  <1>1. files \in [Names -> File] /\ c \in Names /\ c \in Current /\ now \in Int /\ stamp \in Seq(Times)
    BY NamesAre, TimesAre DEF FilesInv, FilesTypeOK, File, Names
  <1>2. g = [files EXCEPT ![c] = [lines |-> new, mtime |-> now]]
    BY <1>1 DEF Appended
  <1>3. x \in Nat /\ x \in 1 .. MaxLines /\ now \in Times
    BY <1>1, LogFileAssumption DEF LogFileAssumption, FilesInv, FilesTypeOK
  <1>4. old \in Seq(1 .. MaxLines) /\ new \in Seq(1 .. MaxLines)
    BY <1>1, <1>3 DEF File
  <1>5. [lines |-> new, mtime |-> now] \in File
    BY <1>3, <1>4 DEF File
  <1>6. /\ g \in [Names -> File] /\ g[c].lines = new /\ g[c].mtime = now
        /\ \A n \in Names : n # c => g[n] = files[n]
    BY <1>1, <1>2, <1>5
  <1>7. /\ LinesIn(g, c) = LinesIn(files, c) \cup {x}
        /\ \A n \in Names : n # c => LinesIn(g, n) = LinesIn(files, n)
    <2>1. DOMAIN new = DOMAIN old \cup {x0} /\ new[x0] = x /\ \A k \in DOMAIN old : new[k] = old[k]
      BY <1>4
    <2>2. LinesIn(g, c) = LinesIn(files, c) \cup {x}
      BY <1>6, <2>1 DEF LinesIn
    <2> QED
      BY <1>6, <2>2 DEF LinesIn
  <1>8. /\ DOMAIN s = DOMAIN stamp \cup {x} /\ x \notin DOMAIN stamp /\ s[x] = now
        /\ \A l \in DOMAIN stamp : s[l] = stamp[l] /\ stamp[l] \in Int /\ l \in Nat /\ l < x
    <2>1. Times \subseteq Int /\ \A l \in DOMAIN stamp : stamp[l] \in Times
      BY <1>1, <1>3, TimesAre
    <2>2. DOMAIN stamp = 1 .. Len(stamp) /\ Len(stamp) \in Nat
      BY <1>1
    <2>3. DOMAIN s = 1 .. x /\ s[x] = now /\ \A l \in 1 .. Len(stamp) : s[l] = stamp[l]
      BY <1>1, <1>3
    <2> HIDE DEF s
    <2>4. DOMAIN s = DOMAIN stamp \cup {x} /\ x \notin DOMAIN stamp
      BY <2>2, <2>3
    <2>5. x = Len(stamp) + 1
      OBVIOUS
    <2> HIDE DEF x
    <2>6. ASSUME NEW l \in DOMAIN stamp
          PROVE  s[l] = stamp[l] /\ stamp[l] \in Int /\ l \in Nat /\ l < x
      <3>1. l \in 1 .. Len(stamp)
        BY <2>2
      <3>2. s[l] = stamp[l] /\ stamp[l] \in Int
        BY <2>1, <2>3, <3>1
      <3>3. l \in Nat /\ l < x
        BY <2>2, <2>5, <3>1
      <3> QED
        BY <3>2, <3>3
    <2> QED
      BY <2>3, <2>4, <2>6
  <1>9. \A n \in Names : \A l \in LinesIn(files, n) : l \in DOMAIN stamp /\ stamp[l] <= files[n].mtime
    BY DEF FilesInv, LinesKept
  <1>10. \A n \in Names : files[n].mtime \in Int
    BY <1>1, FileIs
  <1> HIDE DEF g, s, x, new, old
  <1>11. \A n \in Names : \A l \in LinesIn(g, n) : l \in DOMAIN s /\ s[l] <= g[n].mtime
    <2> SUFFICES ASSUME NEW n \in Names, NEW l \in LinesIn(g, n)
                 PROVE  l \in DOMAIN s /\ s[l] <= g[n].mtime
      OBVIOUS
    <2>1. CASE l = x
      <3>1. n = c
        BY <1>7, <1>8, <1>9, <2>1
      <3> QED
        BY <1>1, <1>6, <1>8, <2>1, <3>1
    <2>2. CASE l # x
      <3>1. l \in LinesIn(files, n) /\ l \in DOMAIN stamp /\ stamp[l] <= files[n].mtime
        BY <1>7, <1>9, <2>2
      <3>2. stamp[l] <= now
        BY <3>1 DEF FilesInv
      <3> QED
        BY <1>6, <1>8, <3>1, <3>2
    <2> QED
      BY <2>1, <2>2
  <1>12. \A n \in Names : \A j, k \in DOMAIN g[n].lines : j < k => g[n].lines[j] < g[n].lines[k]
    <2>1. \A n \in Names : \A j, k \in DOMAIN files[n].lines : j < k => files[n].lines[j] < files[n].lines[k]
      BY DEF FilesInv, LinesKept
    <2>2. \A j, k \in DOMAIN new : j < k => new[j] < new[k]
      <3>1. /\ DOMAIN old = 1 .. Len(old) /\ Len(old) \in Nat
            /\ DOMAIN new = 1 .. Len(old) + 1 /\ new[Len(old) + 1] = x
            /\ \A k \in DOMAIN old : new[k] = old[k]
        BY <1>4 DEF new
      <3>2. \A k \in DOMAIN old : old[k] \in LinesIn(files, c) /\ old[k] \in Nat /\ old[k] < x
        BY <1>1, <1>8, <1>9 DEF old, LinesIn
      <3>3. \A j, k \in DOMAIN old : j < k => old[j] < old[k]
        BY <1>1, <2>1 DEF old
      <3> QED
        BY <3>1, <3>2, <3>3
    <2> QED
      BY <1>6, <2>1, <2>2
  <1>13. \A m, n \in Names : m # n => LinesIn(g, m) \cap LinesIn(g, n) = {}
    <2>1. \A m, n \in Names : m # n => LinesIn(files, m) \cap LinesIn(files, n) = {}
      BY DEF FilesInv, LinesKept
    <2>2. \A n \in Names : x \notin LinesIn(files, n)
      BY <1>8, <1>9
    <2> QED
      BY <1>7, <2>1, <2>2
  <1>14. \A l \in DOMAIN s : s[l] >= now - Keep => \E n \in Names : l \in LinesIn(g, n)
    <2>1. \A l \in DOMAIN stamp : stamp[l] >= now - Keep => \E n \in Names : l \in LinesIn(files, n)
      BY DEF FilesInv, LinesKept
    <2> QED
      BY <1>1, <1>7, <1>8, <2>1
  <1>15. OnePlace(g)
    <2> SUFFICES ASSUME NEW t \in Times
                 PROVE  g[LogOf(t)] = Absent \/ g[MovedLogOf(t)] = Absent
      BY DEF OnePlace
    <2>1. /\ LogOf(t) \in Names /\ MovedLogOf(t) \in Names /\ MovedLogOf(t) # c
          /\ LogOf(t) = c => t = c[3]
      BY <1>1, NamesAre DEF LogOf
    <2>2. g[MovedLogOf(t)] = files[MovedLogOf(t)] /\ (LogOf(t) # c => g[LogOf(t)] = files[LogOf(t)])
      BY <1>6, <2>1
    <2> QED
      BY <2>1, <2>2 DEF FilesInv, OnePlace
  <1> QED
    BY <1>6, <1>11, <1>12, <1>13, <1>14, <1>15 DEF Kept, LinesKept, g, s

LEMMA InitStep ==
    ASSUME FilesInv, log_init
    PROVE  FilesInv'
  <1>1. FilesTypeOK /\ Kept(files, stamp) /\ now \in Times /\ log_file = FALSE
    BY DEF FilesInv, FilesTypeOK, Kept, File, Names, log_init
  <1>2. files[LogOf(now)] = Absent /\ files[MovedLogOf(now)] = Absent
    BY DEF log_init, Exists, LogOf, MovedLogOf
  <1>3. PICK f \in Cleaned(files) :
           \/ files' = f /\ UNCHANGED <<current_log_path, log_file>>
           \/ \E g \in Migrated(f) :
                /\ current_log_path' = <<"dir", "start", now>>
                /\ log_file' \in BOOLEAN
                /\ files' = IF log_file' THEN Opened(g, current_log_path') ELSE g
    BY DEF log_init
  <1>4. Kept(f, stamp) /\ f[LogOf(now)] = Absent /\ f[MovedLogOf(now)] = Absent
    BY <1>1, <1>2, <1>3, CleanedKeeps, NamesAre
  <1>5. running' = TRUE /\ UNCHANGED <<now, stamp>>
    BY DEF log_init
  <1>6. /\ Kept(files', stamp)
        /\ current_log_path' \in Current /\ log_file' \in BOOLEAN
        /\ log_file' => files'[MovedLogOf(current_log_path'[3])] = Absent
    <2>1. CASE files' = f /\ UNCHANGED <<current_log_path, log_file>>
      BY <1>1, <1>4, <2>1 DEF FilesTypeOK
    <2>2. ASSUME NEW g \in Migrated(f),
                 current_log_path' = <<"dir", "start", now>>, log_file' \in BOOLEAN,
                 files' = IF log_file' THEN Opened(g, current_log_path') ELSE g
          PROVE  /\ Kept(files', stamp)
                 /\ current_log_path' \in Current
                 /\ log_file' => files'[MovedLogOf(current_log_path'[3])] = Absent
      <3>1. Kept(g, stamp) /\ g[MovedLogOf(now)] = Absent
        BY <1>1, <1>4, MigratedKeeps
      <3>2. /\ current_log_path' = LogOf(now) /\ current_log_path' \in Current
            /\ current_log_path'[3] = now
        BY <1>1, <2>2, NamesAre DEF LogOf
      <3>3. /\ Kept(Opened(g, LogOf(now)), stamp)
            /\ \A n \in Names : n # LogOf(now) => Opened(g, LogOf(now))[n] = g[n]
        BY <1>1, <3>1, <3>2, OpenedKeeps DEF FilesTypeOK
      <3>4. MovedLogOf(now) \in Names /\ MovedLogOf(now) # LogOf(now)
        BY <1>1, NamesAre
      <3> QED
        BY <2>2, <3>1, <3>2, <3>3, <3>4
    <2> QED
      BY <1>3, <2>1, <2>2
  <1> QED
    BY <1>1, <1>5, <1>6 DEF FilesInv, FilesTypeOK, Kept, File, Names, LinesKept, OnePlace

LEMMA WriteStep ==
    ASSUME FilesInv, log_write \/ check_rotate_log
    PROVE  FilesInv'
  <1>1. /\ FilesTypeOK /\ running /\ log_file /\ Len(stamp) < MaxLines
        /\ stamp' = Append(stamp, now) /\ UNCHANGED <<now, current_log_path, running>>
    BY DEF FilesInv, log_write, check_rotate_log
  <1>2. /\ stamp' \in Seq(Times) /\ Len(stamp') <= MaxLines
        /\ \A l \in DOMAIN stamp' : stamp'[l] <= now
    <2>1. stamp \in Seq(Times) /\ now \in Times /\ now <= now /\ \A l \in DOMAIN stamp : stamp[l] <= now
      BY <1>1, TimesAre DEF FilesInv, FilesTypeOK
    <2>2. \A l \in DOMAIN stamp' : (l \in DOMAIN stamp /\ stamp'[l] = stamp[l]) \/ stamp'[l] = now
      BY <1>1, <2>1
    <2>3. stamp' \in Seq(Times) /\ Len(stamp') = Len(stamp) + 1 /\ Len(stamp) \in Nat
      BY <1>1, <2>1
    <2> QED
      BY <1>1, <2>1, <2>2, <2>3, LogFileAssumption DEF LogFileAssumption
  <1> DEFINE c == current_log_path
             to == <<"old", "rotated", now>>
             moved == MovedLogOf(c[3])
  <1>3. /\ c \in Current /\ c[3] \in Times /\ to \in Old /\ \A t \in Times : to # MovedLogOf(t)
        /\ moved \in Names /\ moved # c /\ moved # to /\ to \in Names /\ to # c
    BY <1>1, NamesAre DEF FilesTypeOK, MovedLogOf
  <1>4. files[moved] = Absent
    BY <1>1 DEF FilesInv
  <1>5. Kept(Appended, stamp') /\ \A n \in Names : n # c => Appended[n] = files[n]
    BY <1>1, AppendedKeeps
  <1>6. log_file' \in BOOLEAN /\ Kept(files', stamp') /\ files'[moved] = Absent
    <2>1. CASE log_write
      BY <1>1, <1>3, <1>4, <1>5, <2>1 DEF log_write
    <2>2. CASE check_rotate_log
      <3>1. files[to] = Absent
        BY <2>2 DEF check_rotate_log, Exists
      <3>2. PICK f \in {Appended, Moved(Appended, c, to)} :
               files' = IF log_file' THEN Opened(f, c) ELSE f
        BY <2>2 DEF check_rotate_log
      <3>3. Kept(f, stamp') /\ f[moved] = Absent
        <4>1. CASE f = Appended
          BY <1>3, <1>4, <1>5, <4>1
        <4>2. CASE f = Moved(Appended, c, to)
          <5>1. Appended[to] = Absent
            BY <1>3, <1>5, <3>1
          <5>2. DOMAIN Appended = Names
            BY <1>5, FileIs DEF Kept
          <5>3. f[moved] = Appended[moved]
            BY <1>3, <4>2, <5>2 DEF Moved
          <5> QED
            BY <1>1, <1>2, <1>3, <1>4, <1>5, <4>2, <5>1, <5>3, MovedKeeps
        <4> QED
          BY <3>2, <4>1, <4>2
      <3>4. /\ Kept(Opened(f, c), stamp')
            /\ \A n \in Names : n # c => Opened(f, c)[n] = f[n]
        BY <1>1, <1>2, <1>3, <3>3, OpenedKeeps
      <3> QED
        BY <1>3, <2>2, <3>2, <3>3, <3>4 DEF check_rotate_log
    <2> QED
      BY <2>1, <2>2
  <1> QED
    BY <1>1, <1>2, <1>6 DEF FilesInv, FilesTypeOK, Kept, File, Names, LinesKept, OnePlace

(* Types, and which lines are in which files, at every reachable state.    *)
THEOREM FilesInvariance == FilesSpec => []FilesInv
  <1>1. FilesInit => FilesInv
    <2> SUFFICES ASSUME FilesInit PROVE FilesInv
      OBVIOUS
    <2>1. now \in Times /\ <<"dir", "start", 0>> \in Current /\ Len(stamp) = 0 /\ DOMAIN stamp = {}
      BY LogFileAssumption DEF FilesInit, LogFileAssumption, Times, Current
    <2>2. FilesTypeOK
      <3>1. files \in [Current \cup Old -> File]
        BY AbsentIs DEF FilesInit
      <3>2. stamp \in Seq(Times)
        BY DEF FilesInit
      <3> QED
        BY <2>1, <3>1, <3>2 DEF FilesInit, FilesTypeOK, File
    <2>3. \A n \in Names : files[n] = Absent
      BY DEF FilesInit, Names
    <2>4. LinesKept(files, stamp)
      BY <2>1, <2>3, AbsentIs, EmptyHolds DEF LinesKept
    <2>5. OnePlace(files)
      BY <2>3, NamesAre DEF OnePlace
    <2> QED
      BY <2>1, <2>2, <2>4, <2>5, LogFileAssumption DEF FilesInv, FilesInit, LogFileAssumption
  <1>2. FilesInv /\ [FilesNext]_fileVars => FilesInv'
    <2> SUFFICES ASSUME FilesInv, [FilesNext]_fileVars
                 PROVE  FilesInv'
      OBVIOUS
    <2>1. CASE Crash
      BY <2>1 DEF Crash, FilesInv, FilesTypeOK, LinesKept, OnePlace
    <2>2. CASE ClockTicks
      <3>1. now \in Nat /\ now' = now + 1 /\ now' \in Times /\ Keep \in Nat
            /\ UNCHANGED <<files, current_log_path, log_file, running, stamp>>
        BY <2>2, LogFileAssumption DEF ClockTicks, FilesInv, FilesTypeOK, Times, LogFileAssumption
      <3>2. \A l \in DOMAIN stamp : stamp[l] \in Int
        BY TimesAre DEF FilesInv, FilesTypeOK
      <3>3. LinesKept(files, stamp)'
        <4>1. LinesKept(files, stamp)
          BY DEF FilesInv
        <4>2. \A l \in DOMAIN stamp : stamp[l] >= now' - Keep => stamp[l] >= now - Keep
          BY <3>1, <3>2
        <4>3. \A l \in DOMAIN stamp : stamp[l] >= now' - Keep => \E n \in Names : l \in LinesIn(files, n)
          BY <4>1, <4>2 DEF LinesKept
        <4>4. /\ \A n \in Names : \A l \in LinesIn(files, n) : l \in DOMAIN stamp /\ stamp[l] <= files[n].mtime
              /\ \A n \in Names : \A j, k \in DOMAIN files[n].lines : j < k => files[n].lines[j] < files[n].lines[k]
              /\ \A m, n \in Names : m # n => LinesIn(files, m) \cap LinesIn(files, n) = {}
          BY <4>1 DEF LinesKept
        <4>5. files' = files /\ stamp' = stamp /\ Names' = Names
          BY <3>1 DEF Names
        <4>6. \A n \in Names : LinesIn(files, n)' = LinesIn(files, n)
          BY <4>5 DEF LinesIn
        <4> QED
          BY <4>3, <4>4, <4>5, <4>6 DEF LinesKept
      <3>4. \A l \in DOMAIN stamp : stamp[l] <= now + 1
        BY <3>1, <3>2 DEF FilesInv
      <3> QED
        BY <3>1, <3>3, <3>4 DEF FilesInv, FilesTypeOK, OnePlace
    <2>3. CASE UNCHANGED fileVars
      BY <2>3 DEF fileVars, FilesInv, FilesTypeOK, LinesKept, OnePlace
    <2> QED
      BY <2>1, <2>2, <2>3, InitStep, WriteStep DEF FilesNext
  <1> QED
    BY <1>1, <1>2, PTL DEF FilesSpec

(* A line of the log is in one file, once and in order, for a week: through *)
(* any number of rotations, restarts, failed renames and cleanups.         *)
THEOREM LogLinesKept == FilesSpec => []LogKeepsLines
  <1>1. FilesInv => LogKeepsLines
    <2> SUFFICES ASSUME FilesInv PROVE LogKeepsLines
      OBVIOUS
    <2>1. DOMAIN files = Names
      BY DEF FilesInv, FilesTypeOK, Names
    <2>2. ASSUME NEW l \in DOMAIN stamp, stamp[l] >= now - Keep
          PROVE  Cardinality({n \in DOMAIN files : l \in {files[n].lines[k] : k \in DOMAIN files[n].lines}}) = 1
      <3>1. PICK n0 \in Names : l \in LinesIn(files, n0)
        BY <2>2 DEF FilesInv, LinesKept
      <3>2. {n \in DOMAIN files : l \in {files[n].lines[k] : k \in DOMAIN files[n].lines}} = {n0}
        BY <2>1, <3>1 DEF FilesInv, LinesKept, LinesIn
      <3> QED
        BY <3>2, FS_Singleton
    <2> QED
      BY <2>1, <2>2 DEF LogKeepsLines, FilesInv, LinesKept
  <1> QED
    BY <1>1, FilesInvariance, PTL
-----------------------------------------------------------------------------
(***************************************************************************)
(* Serial.                                                                 *)
(***************************************************************************)
(* Who is where: the port and its mutex exist while the owner has not closed *)
(* them, the receiving thread is gone and nobody writes when it does, and   *)
(* the thread has a byte exactly while it calls back.                      *)
PortInUse ==
    /\ fd <=> opener # "down"
    /\ fd <=> tMutex # "none"
    /\ opener = "down" => reader \in {"none", "ended"}
    /\ opener # "up" => writer = "idle"
    /\ IF reader = "callback" THEN Len(byte) = 1 ELSE byte = <<>>
    /\ reader = "lock" => arriving # <<>>

PortInv == PortTypeOK /\ PortInUse /\ SerialDelivers
-----------------------------------------------------------------------------
(* Three sequences, end to end. *)
LEMMA Joined ==
    ASSUME NEW S, NEW a \in Seq(S), NEW b \in Seq(S), NEW c \in Seq(S)
    PROVE  /\ a \o b \o c \in Seq(S)
           /\ Len(a \o b \o c) = Len(a) + Len(b) + Len(c)
           /\ a \o <<>> = a /\ <<>> \o a = a
           /\ (a \o b) \o c = a \o (b \o c)
  OBVIOUS

LEMMA FrontMoves ==
    ASSUME NEW S, NEW s \in Seq(S), s # <<>>
    PROVE  /\ <<Head(s)>> \o Tail(s) = s /\ Len(Tail(s)) = Len(s) - 1
           /\ Head(s) \in S /\ Tail(s) \in Seq(S) /\ Len(s) \in Nat
  OBVIOUS

Bytes == Seq(1 .. MaxBytes)

LEMMA FrontIsByte ==
    ASSUME NEW s \in Bytes, s # <<>>
    PROVE  <<Head(s)>> \in Bytes /\ Tail(s) \in Bytes
  <1> DEFINE Numbers == 1 .. MaxBytes
  <1>1. s \in Seq(Numbers)
    BY DEF Bytes
  <1> HIDE DEF Numbers
  <1>2. <<Head(s)>> \in Seq(Numbers) /\ Tail(s) \in Seq(Numbers)
    BY <1>1, FrontMoves
  <1> QED
    BY <1>2 DEF Bytes, Numbers

LEMMA Regrouped ==
    ASSUME NEW a \in Bytes, NEW b \in Bytes, NEW c \in Bytes
    PROVE  (a \o b) \o c = a \o (b \o c)
  BY Joined DEF Bytes

(* Bytes that move on without overtaking each other stay in order. *)
LEMMA MovesInOrder ==
    ASSUME PortTypeOK, PortTypeOK', SerialDelivers,
           received' \o byte' \o arriving' = received \o byte \o arriving
    PROVE  received' \o byte' \o arriving' = [k \in 1 .. Arrived' |-> k] /\ Arrived' = Arrived
  <1> DEFINE bytes == received \o byte \o arriving
  <1>1. Len(bytes) = Arrived /\ Len(bytes') = Arrived'
    BY Joined DEF Arrived, PortTypeOK
  <1> QED
    BY <1>1 DEF SerialDelivers

LEMMA ByteInOrder ==
    ASSUME PortTypeOK, SerialDelivers, ByteArrives
    PROVE  received' \o byte' \o arriving' = [k \in 1 .. Arrived' |-> k] /\ Arrived' = Arrived + 1
  <1> DEFINE bytes == received \o byte \o arriving
  <1>1. /\ bytes \in Seq(1 .. MaxBytes) /\ Len(bytes) = Arrived
        /\ received \o byte \in Seq(1 .. MaxBytes) /\ Arrived \in Nat
    BY Joined DEF Arrived, PortTypeOK
  <1>2. Arrived + 1 \in 1 .. MaxBytes
    BY <1>1, SerialAssumption DEF ByteArrives, SerialAssumption
  <1>3. received' \o byte' \o arriving' = Append(bytes, Arrived + 1)
    BY <1>1, <1>2 DEF ByteArrives, PortTypeOK
  <1>4. Arrived' = Arrived + 1
    BY <1>1 DEF ByteArrives, Arrived, PortTypeOK
  <1>5. bytes = [k \in 1 .. Arrived |-> k]
    BY DEF SerialDelivers
  <1>6. Append(bytes, Arrived + 1) = [k \in 1 .. Arrived + 1 |-> k]
    BY <1>1, <1>5
  <1> QED
    BY <1>3, <1>4, <1>6

LEMMA PortTypeStep ==
    ASSUME PortInv, PortNext
    PROVE  PortTypeOK'
  <1> USE DEF PortInv, PortTypeOK
  <1>1. CASE InitSucceeds \/ InitUndone
    <2>1. <<>> \in Seq(1 .. MaxBytes)
      OBVIOUS
    <2> QED
      BY <1>1, <2>1 DEF InitSucceeds, InitUndone
  <1>6. CASE InitFails
    <2>1. lost' \in 0 .. MaxOpens
      BY <1>6, SerialAssumption DEF InitFails, SerialAssumption
    <2> QED
      BY <1>6, <2>1 DEF InitFails
  <1>2. CASE DeinitStops \/ DeinitCloses \/ ReaderEnds \/ ReaderSelects \/ WriteLocks \/ WriteReturns
    BY <1>2 DEF DeinitStops, DeinitCloses, ReaderEnds, ReaderSelects, WriteLocks, WriteReturns
  <1>3. CASE ReaderReads
    <2>1. arriving # <<>> /\ arriving \in Seq(1 .. MaxBytes)
      BY <1>3 DEF ReaderReads, PortInUse
    <2>2. <<Head(arriving)>> \in Seq(1 .. MaxBytes) /\ Tail(arriving) \in Seq(1 .. MaxBytes)
      BY <2>1, FrontIsByte DEF Bytes
    <2>3. byte' \in Seq(1 .. MaxBytes) /\ arriving' \in Seq(1 .. MaxBytes)
      BY <1>3, <2>2 DEF ReaderReads
    <2>4. reader' \in {"callback", "loop"}
          /\ UNCHANGED <<fd, lost, tMutex, stop_thread, opener, writer, received>>
      BY <1>3 DEF ReaderReads
    <2> QED
      BY <2>3, <2>4
  <1>4. CASE ReaderCalls
    BY <1>4, Joined DEF ReaderCalls
  <1>5. CASE ByteArrives
    <2>1. Arrived \in Nat
      BY DEF Arrived
    <2>2. Arrived + 1 \in 1 .. MaxBytes
      BY <1>5, <2>1, SerialAssumption DEF ByteArrives, SerialAssumption
    <2> QED
      BY <1>5, <2>2 DEF ByteArrives
  <1> QED
    BY <1>1, <1>2, <1>3, <1>4, <1>5, <1>6 DEF PortNext

LEMMA PortUseStep ==
    ASSUME PortInv, PortNext
    PROVE  PortInUse'
  <1> USE DEF PortInv, PortInUse
  <1>1. CASE InitSucceeds \/ InitFails \/ InitUndone
    BY <1>1 DEF InitSucceeds, InitFails, InitUndone
  <1>2. CASE DeinitStops \/ DeinitCloses
    BY <1>2 DEF DeinitStops, DeinitCloses
  <1>3. CASE ReaderEnds \/ ReaderSelects
    BY <1>3 DEF ReaderEnds, ReaderSelects
  <1>4. CASE ReaderReads
    BY <1>4, FrontMoves DEF ReaderReads, PortTypeOK
  <1>5. CASE ReaderCalls
    BY <1>5 DEF ReaderCalls
  <1>6. CASE WriteLocks \/ WriteReturns
    BY <1>6 DEF WriteLocks, WriteReturns, SerialDelivers
  <1>7. CASE ByteArrives
    <2>1. arriving' # <<>>
      BY <1>7 DEF ByteArrives, PortTypeOK
    <2> QED
      BY <1>7, <2>1 DEF ByteArrives
  <1> QED
    BY <1>1, <1>2, <1>3, <1>4, <1>5, <1>6, <1>7 DEF PortNext

LEMMA DeliveryStep ==
    ASSUME PortInv, PortTypeOK', PortInUse', PortNext
    PROVE  SerialDelivers'
  <1> USE DEF PortInv
  <1>1. /\ reader' \in {"loop", "lock", "callback"} => fd' /\ tMutex' # "none"
        /\ (writer' = "write") <=> (tMutex' = "writer")
    BY DEF PortNext, SerialDelivers, PortInUse, PortTypeOK, InitSucceeds, InitFails, InitUndone,
           DeinitStops, DeinitCloses, ReaderEnds, ReaderSelects, ReaderReads, ReaderCalls,
           WriteLocks, WriteReturns, ByteArrives
  <1>2. received' \o byte' \o arriving' = [k \in 1 .. Arrived' |-> k]
    <2>1. CASE ByteArrives
      BY <2>1, ByteInOrder
    <2>2. CASE InitSucceeds
      BY <2>2 DEF InitSucceeds, Arrived
    <2>3. CASE InitUndone
      \* what has arrived is behind everything else
      <3>1. byte = <<>> /\ byte' = <<>> /\ received' = received /\ arriving' = <<>>
        BY <2>3 DEF InitUndone, PortInUse
      <3>2. received \in Seq(1 .. MaxBytes) /\ arriving \in Seq(1 .. MaxBytes)
        BY DEF PortTypeOK
      <3>3. received \o arriving = [k \in 1 .. Len(received) + Len(arriving) |-> k]
        BY <3>1, <3>2 DEF SerialDelivers, Arrived
      <3>4. received = [k \in 1 .. Len(received) |-> k]
        <4>1. \A k \in 1 .. Len(received) : received[k] = (received \o arriving)[k]
          BY <3>2
        <4>2. \A k \in 1 .. Len(received) : k \in 1 .. Len(received) + Len(arriving)
          BY <3>2
        <4>3. \A k \in 1 .. Len(received) : received[k] = k
          BY <3>3, <4>1, <4>2
        <4> QED
          BY <3>2, <4>3
      <3> QED
        BY <3>1, <3>2, <3>4 DEF Arrived
    <2>4. CASE ReaderReads
      <3>1. CASE reader' = "callback"
        <4>1. byte = <<>> /\ byte' = <<Head(arriving)>> /\ arriving' = Tail(arriving) /\ arriving # <<>>
          BY <2>4, <3>1 DEF ReaderReads, PortInUse
        <4>2. byte' \o arriving' = byte \o arriving /\ received' = received
          BY <2>4, <4>1, FrontMoves, Joined DEF ReaderReads, PortTypeOK
        <4>3. received' \o byte' \o arriving' = received \o byte \o arriving
          <5>1. /\ received \in Bytes /\ byte \in Bytes /\ arriving \in Bytes
                /\ received' \in Bytes /\ byte' \in Bytes /\ arriving' \in Bytes
            BY DEF PortTypeOK, Bytes
          <5>2. received' \o byte' \o arriving' = received' \o (byte' \o arriving')
            BY <5>1, Regrouped
          <5>3. received \o byte \o arriving = received \o (byte \o arriving)
            BY <5>1, Regrouped
          <5> QED
            BY <4>2, <5>2, <5>3
        <4> QED
          BY <4>3, MovesInOrder
      <3>2. CASE reader' # "callback"
        BY <2>4, <3>2, MovesInOrder DEF ReaderReads
      <3> QED
        BY <3>1, <3>2
    <2>5. CASE ReaderCalls
      <3>1. received' = received \o byte /\ byte' = <<>> /\ arriving' = arriving
        BY <2>5 DEF ReaderCalls
      <3>2. received \o byte \in Seq(1 .. MaxBytes)
        BY DEF PortTypeOK
      <3>3. received' \o byte' \o arriving' = received \o byte \o arriving
        BY <3>1, <3>2, Joined
      <3> QED
        BY <3>3, MovesInOrder
    <2>6. CASE UNCHANGED <<arriving, byte, received>>
      BY <2>6, MovesInOrder
    <2> QED
      BY <2>1, <2>2, <2>3, <2>4, <2>5, <2>6
         DEF PortNext, InitFails, DeinitStops, DeinitCloses, ReaderEnds, ReaderSelects,
             WriteLocks, WriteReturns
  <1> QED
    BY <1>1, <1>2 DEF SerialDelivers

(* Types, who uses the port, and where its bytes are.                      *)
THEOREM PortInvariance == PortSpec => []PortInv
  <1>1. PortInit => PortInv
    <2> SUFFICES ASSUME PortInit PROVE PortInv
      OBVIOUS
    <2>1. PortTypeOK
      <3>1. <<>> \in Seq(1 .. MaxBytes) /\ 0 \in 0 .. MaxOpens
        BY SerialAssumption DEF SerialAssumption
      <3> QED
        BY <3>1 DEF PortInit, PortTypeOK
    <2>2. <<>> \o <<>> \o <<>> = [k \in 1 .. Len(<<>>) + Len(<<>>) + Len(<<>>) |-> k]
      OBVIOUS
    <2>3. SerialDelivers
      BY <2>2 DEF PortInit, SerialDelivers, Arrived
    <2>4. PortInUse
      BY DEF PortInit, PortInUse
    <2> QED
      BY <2>1, <2>3, <2>4 DEF PortInv
  <1>2. PortInv /\ [PortNext]_portVars => PortInv'
    <2>1. ASSUME PortInv, UNCHANGED portVars
          PROVE  PortInv'
      BY <2>1 DEF portVars, PortInv, PortTypeOK, PortInUse, SerialDelivers, Arrived
    <2> QED
      BY <2>1, PortTypeStep, PortUseStep, DeliveryStep DEF PortInv
  <1> QED
    BY <1>1, <1>2, PTL DEF PortSpec

(* Whatever the owner, the writer and the device do, the callback gets the *)
(* bytes in their order, and nobody uses a port that was closed.           *)
THEOREM BytesInOrder == PortSpec => []SerialDelivers
  BY PortInvariance, PTL DEF PortInv
-----------------------------------------------------------------------------
(***************************************************************************)
(* UartSettings.                                                           *)
(***************************************************************************)
(* init_uart leaves the port with the width, the stop bits and the parity  *)
(* it was asked for, whatever flags it had before (odd and even parity: if *)
(* it had no mark or space parity), and setting them again changes nothing.*)
THEOREM SettingsTakeEffect ==
    ASSUME NEW flags, NEW wordWidth, NEW stopBits, NEW parity \in Parities
    PROVE  ConfiguresPort(flags, wordWidth, stopBits, parity)
  <1> DEFINE f == ConfigUart(flags, wordWidth, stopBits, parity)
  <1>1. (parity \in {"ODD", "EVEN"} => "CMSPAR" \notin flags) => ParityOf(f) = parity
    BY DEF ConfigUart, ParityOf, Parities, FlagsOf, Cleared
  <1>2. Cardinality(f \cap {"CS5", "CS6", "CS7", "CS8"}) = 1
    <2> DEFINE width == CASE wordWidth = 5 -> "CS5" [] wordWidth = 6 -> "CS6"
                          [] wordWidth = 7 -> "CS7" [] OTHER -> "CS8"
    <2>1. width \in {"CS5", "CS6", "CS7", "CS8"} /\ width \in f
      BY DEF ConfigUart
    <2>2. \A w \in f \cap {"CS5", "CS6", "CS7", "CS8"} : w = width
      BY DEF ConfigUart, Parities, FlagsOf, Cleared
    <2>3. f \cap {"CS5", "CS6", "CS7", "CS8"} = {width}
      <3> HIDE DEF f, width
      <3> QED
        BY <2>1, <2>2
    <2> QED
      BY <2>3, FS_Singleton
  <1>3. (wordWidth = 7) <=> ("CS7" \in f)
    BY DEF ConfigUart, Parities, FlagsOf, Cleared
  <1>4. (stopBits = 2) <=> ("CSTOPB" \in f)
    BY DEF ConfigUart, Parities, FlagsOf, Cleared
  <1>5. f \cap {"CRTSCTS", "OPOST", "ICANON", "ECHO", "ISIG", "IXON"} = {}
    BY DEF ConfigUart, Parities, FlagsOf, Cleared
  <1>6. ConfigUart(f, wordWidth, stopBits, parity) = f
    BY DEF ConfigUart, Parities, FlagsOf, Cleared
  <1> QED
    BY <1>1, <1>2, <1>3, <1>4, <1>5, <1>6 DEF ConfiguresPort
=============================================================================
