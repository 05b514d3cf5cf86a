------------------------------ MODULE MsgQueue ------------------------------
(***************************************************************************)
(* The message queue of src/common/msgqueue.c: a CommQue whose slots are   *)
(* T_Msg records.  msg_queue_send takes an empty slot, copies the caller's *)
(* message into it outside the mutex and puts it into the full queue; the  *)
(* receiver works on the slot in place and releases it.  The heap block    *)
(* pcBody travels by pointer: whoever holds the message owns it.           *)
(*                                                                         *)
(* A message is identified by its body; the fields copied after pcBody     *)
(* (uiCallId, uiCommand, strMsgId) are one component, so that a half-copied*)
(* message is a state.                                                     *)
(***************************************************************************)
EXTENDS Integers, FiniteSets

CONSTANTS Senders, Receivers,
          Owner,        \* the thread that calls msg_queue_destroy
          Bodies,       \* heap blocks for pcBody
          NoBody,       \* NULL
          MaxMsgs       \* max_msg_count

ASSUME MsgQueueAssumption ==
    /\ MaxMsgs \in Nat \ {0}
    /\ Senders \cap Receivers = {} /\ Owner \notin Senders \cup Receivers
    /\ NoBody \notin Bodies

VARIABLES write, read, fullCount, emptyCount, isDestroyed, freed, pc, slot, timed,
          pool,       \* the T_Msg in each slot
          outgoing,   \* the body a sender is sending
          copied,     \* how many of the two parts of the message it has copied
          live,       \* allocated bodies
          unread,     \* receivers that have not yet read the message they hold
          destroying  \* msg_queue_destroy has been called

queVars == <<write, read, fullCount, emptyCount, isDestroyed, freed, pc, slot, timed>>
msgVars == <<pool, outgoing, copied, live, unread, destroying>>
vars == <<queVars, msgVars>>

Q == INSTANCE CommQue WITH
        Producers <- Senders, Consumers <- Receivers \cup {Owner},
        MaxCount <- MaxMsgs, SleepSuffices <- TRUE

BlankMsg == [body |-> NoBody, rest |-> NoBody]

TypeOK ==
    /\ Q!TypeOK
    /\ pool \in [Q!Slots -> [body : Bodies \cup {NoBody}, rest : Bodies \cup {NoBody}]]
    /\ outgoing \in [Senders -> Bodies \cup {NoBody}]
    /\ copied \in [Senders -> 0 .. 2]
    /\ live \in SUBSET Bodies
    /\ unread \in SUBSET (Receivers \cup {Owner})
    /\ destroying \in BOOLEAN

Init ==
    /\ Q!Init
    /\ pool = [s \in Q!Slots |-> BlankMsg]
    /\ outgoing = [t \in Senders |-> NoBody]
    /\ copied = [t \in Senders |-> 0]
    /\ live = {} /\ unread = {} /\ destroying = FALSE

(***************************************************************************)
(* msg_queue_send.  When GetEmpty returns NULL the code is TIME_OUT and the*)
(* body stays with the caller, who frees it.                               *)
(***************************************************************************)
SendBegins(t, b) ==
    /\ b \notin live
    /\ Q!GetEmpty(t)
    /\ outgoing' = [outgoing EXCEPT ![t] = b]
    /\ live' = live \cup {b}
    /\ UNCHANGED <<pool, copied, unread, destroying>>

SendFails(t) ==
    /\ Q!WaitTimesOut(t) \/ (isDestroyed /\ Q!ResumeEmpty(t))
    /\ live' = live \ {outgoing[t]}
    /\ outgoing' = [outgoing EXCEPT ![t] = NoBody]
    /\ UNCHANGED <<pool, copied, unread, destroying>>

SendResumes(t) ==
    /\ ~isDestroyed /\ Q!ResumeEmpty(t)
    /\ UNCHANGED msgVars

SendCopies(t) ==
    /\ t \in Q!HeldEmpty /\ copied[t] < 2 /\ ~freed
    /\ pool' = [pool EXCEPT ![slot[t]] = IF copied[t] = 0 THEN [@ EXCEPT !.body = outgoing[t]]
                                                          ELSE [@ EXCEPT !.rest = outgoing[t]]]
    /\ copied' = [copied EXCEPT ![t] = @ + 1]
    /\ UNCHANGED <<queVars, outgoing, live, unread, destroying>>

SendPutsEarly(t) ==   \* fault: the slot is published before the last field is copied
    /\ copied[t] >= 1
    /\ Q!PutFull(t)
    /\ outgoing' = [outgoing EXCEPT ![t] = NoBody]
    /\ copied' = [copied EXCEPT ![t] = 0]
    /\ UNCHANGED <<pool, live, unread, destroying>>

SendPuts(t) ==
    /\ copied[t] = 2
    /\ Q!PutFull(t)
    /\ outgoing' = [outgoing EXCEPT ![t] = NoBody]
    /\ copied' = [copied EXCEPT ![t] = 0]
    /\ UNCHANGED <<pool, live, unread, destroying>>

(***************************************************************************)
(* msg_queue_receive, the receiver's work on the message (it frees the     *)
(* body and leaves the pointer in the slot) and msg_queue_release_msg.     *)
(***************************************************************************)
ReceiveBegins(t) ==
    /\ Q!GetFull(t)
    /\ unread' = IF pc'[t] = "holdFull" THEN unread \cup {t} ELSE unread
    /\ UNCHANGED <<pool, outgoing, copied, live, destroying>>

ReceiveResumes(t) ==
    /\ Q!ResumeFull(t) \/ Q!WaitTimesOut(t)
    /\ unread' = IF pc'[t] = "holdFull" THEN unread \cup {t} ELSE unread
    /\ UNCHANGED <<pool, outgoing, copied, live, destroying>>

Consume(t) ==
    /\ t \in unread /\ ~freed
    /\ live' = live \ {pool[slot[t]].body}
    /\ unread' = unread \ {t}
    /\ UNCHANGED <<queVars, pool, outgoing, copied, destroying>>

Release(t) ==
    /\ t \notin unread
    /\ Q!PutEmpty(t)
    /\ UNCHANGED msgVars

(***************************************************************************)
(* msg_queue_destroy: clear_queue takes full messages without waiting,     *)
(* frees their bodies and releases them until there is none; then the      *)
(* CommQue is deleted.                                                     *)
(***************************************************************************)
DestroyBegins ==
    /\ ~destroying
    /\ destroying' = TRUE
    /\ UNCHANGED <<queVars, pool, outgoing, copied, live, unread>>

DrainTakes ==
    /\ destroying /\ pc[Owner] = "idle" /\ Q!TakeFull(Owner)
    /\ unread' = unread \cup {Owner}
    /\ UNCHANGED <<pool, outgoing, copied, live, destroying>>

DrainFrees ==
    /\ Owner \in unread
    /\ live' = live \ {pool[slot[Owner]].body}
    /\ pool' = [pool EXCEPT ![slot[Owner]].body = NoBody]
    /\ unread' = unread \ {Owner}
    /\ UNCHANGED <<queVars, outgoing, copied, destroying>>

DrainPuts ==
    /\ Owner \notin unread /\ Q!PutEmpty(Owner)
    /\ UNCHANGED msgVars

DestroyDeletesFull ==   \* fault: clear_queue is not called first
    /\ destroying /\ pc[Owner] = "idle"
    /\ Q!DeleteMark
    /\ UNCHANGED msgVars

DestroyDeletes ==
    /\ destroying /\ pc[Owner] = "idle" /\ fullCount = 0
    /\ Q!DeleteMark
    /\ UNCHANGED msgVars

DestroyFrees == destroying /\ Q!DeleteFree /\ UNCHANGED msgVars

(***************************************************************************)
(* Clients start no call once the queue is being destroyed, and are out of *)
(* their calls by then, except receivers blocked in an empty queue.        *)
(***************************************************************************)
ClientsQuiet ==
    /\ \A t \in Senders : pc[t] = "idle"
    /\ \A t \in Receivers : pc[t] = "idle" \/ (pc[t] = "waitFull" /\ fullCount = 0)

SendStep(t) == \/ ~destroying /\ \E b \in Bodies : SendBegins(t, b)
               \/ SendFails(t) \/ SendResumes(t) \/ SendCopies(t) \/ SendPuts(t)
ReceiveStep(t) == \/ ~destroying /\ ReceiveBegins(t)
                  \/ ReceiveResumes(t) \/ Consume(t) \/ Release(t)
DestroyStep == DrainTakes \/ DrainFrees \/ DrainPuts \/ DestroyDeletes \/ DestroyFrees

Next ==
    \/ \E t \in Senders : SendStep(t)
    \/ \E t \in Receivers : ReceiveStep(t)
    \/ (\E t \in Senders \cup Receivers : Q!SpuriousWakeup(t)) /\ UNCHANGED msgVars
    \/ ClientsQuiet /\ DestroyBegins
    \/ DestroyStep
Spec == Init /\ [][Next]_vars

(* Woken threads get the mutex, a receiver keeps receiving and finishes the *)
(* message it holds, and msg_queue_destroy runs to its end.                *)
Fairness ==
    /\ \A t \in Receivers : WF_vars(~destroying /\ ReceiveBegins(t)) /\ WF_vars(ReceiveResumes(t))
                            /\ WF_vars(Consume(t)) /\ WF_vars(Release(t))
    /\ WF_vars(DestroyStep)
FairSpec == Spec /\ Fairness
-----------------------------------------------------------------------------
(***************************************************************************)
(* Properties.                                                             *)
(***************************************************************************)
Queued == {pool[(read + i) % MaxMsgs].body : i \in 0 .. fullCount - 1}

(* What a receiver is about to read is a message some sender filled to its *)
(* last field, and its body has not been freed meanwhile.                  *)
ReceivedMessageFilled ==
    \A t \in unread : LET m == pool[slot[t]] IN m.body = m.rest /\ m.body \in live

(* Every allocated body has exactly one owner: the sender that has not yet *)
(* put its message, the queue until msg_queue_destroy has freed it, or the  *)
(* thread that received it.  A body in none of them is leaked, one in two of *)
(* them will be freed twice.                                                *)
BodyOwners(b) ==
    Cardinality({t \in Senders : outgoing[t] = b})
      + Cardinality({i \in 0 .. fullCount - 1 :
                        ~freed /\ pool[(read + i) % MaxMsgs].body = b})
      + Cardinality({t \in unread : pool[slot[t]].body = b})
EveryBodyOwnedOnce ==
    \A b \in Bodies : BodyOwners(b) = IF b \in live THEN 1 ELSE 0

(* Every message that was sent is received, or freed by destroy.           *)
SentIsConsumed == \A b \in Bodies : (b \in Queued /\ b \in live) ~> (b \notin Queued \/ b \notin live)

(* With one sender and one receiver the queue is a bounded FIFO of messages.*)
QueueIsFifo == INSTANCE Fifo WITH
    Items <- Bodies, Readers <- Receivers \cup {Owner}, Capacity <- MaxMsgs,
    items <- [i \in 1 .. fullCount |-> pool[(read + i - 1) % MaxMsgs].body],
    inHand <- [t \in Receivers \cup {Owner} |->
                   IF t \in Q!HeldFull THEN {pool[slot[t]].rest} ELSE {}]
ImplementsFifo == QueueIsFifo!FifoSpec
=============================================================================
