------------------------------- MODULE Serial -------------------------------
(***************************************************************************)
(* The serial port of src/common/uart/uart.c: a thread that reads the port *)
(* byte by byte and hands each byte to a callback, a client that writes,   *)
(* and an owner that opens and closes the port.                            *)
(*                                                                         *)
(* Client rules: the owner closes what it has opened, once, when no write  *)
(* is under way and not from the callback; nobody writes to a closed port. *)
(***************************************************************************)
EXTENDS Integers, Sequences, FiniteSets

CONSTANTS MaxBytes,   \* bound: bytes that arrive while the port is open
          MaxOpens    \* bound: descriptors open at a time

ASSUME SerialAssumption == MaxBytes \in Nat /\ MaxOpens \in Nat

VARIABLES fd,            \* whether param->fd is open
          lost,          \* descriptors left open by an init_uart that failed
          tMutex,        \* "none", "free" or who holds it
          stop_thread,
          opener,        \* the owner: "down", "up", "joining"
          reader,        \* where the receiving thread stands
          writer,
          arriving,      \* bytes that have arrived and not been read
          byte,          \* the byte the thread has read
          received       \* the bytes the callback was called with

portVars == <<fd, lost, tMutex, stop_thread, opener, reader, writer, arriving, byte, received>>
Arrived == Len(received) + Len(byte) + Len(arriving)

PortTypeOK ==
    /\ fd \in BOOLEAN /\ lost \in 0 .. MaxOpens
    /\ tMutex \in {"none", "free", "writer"} /\ stop_thread \in BOOLEAN
    /\ opener \in {"down", "up", "joining"}
    /\ reader \in {"none", "loop", "lock", "callback", "ended"}
    /\ writer \in {"idle", "write"}
    /\ arriving \in Seq(1 .. MaxBytes)
    /\ byte \in Seq(1 .. MaxBytes) /\ received \in Seq(1 .. MaxBytes)

PortInit ==
    /\ fd = FALSE /\ lost = 0 /\ tMutex = "none" /\ stop_thread = FALSE
    /\ opener = "down" /\ reader = "none" /\ writer = "idle"
    /\ arriving = <<>> /\ byte = <<>> /\ received = <<>>
-----------------------------------------------------------------------------
(* init_uart: what has arrived before is flushed.                          *)
InitSucceeds ==
    /\ opener = "down" /\ lost < MaxOpens
    /\ fd' = TRUE /\ tMutex' = "free" /\ stop_thread' = FALSE
    /\ opener' = "up" /\ reader' = "loop"
    /\ arriving' = <<>> /\ byte' = <<>> /\ received' = <<>>
    /\ UNCHANGED <<lost, writer>>

(* fcntl or ConfigUart fails: the descriptor stays open.                   *)
InitFails ==
    /\ opener = "down" /\ lost < MaxOpens
    /\ lost' = lost + 1
    /\ UNCHANGED <<fd, tMutex, stop_thread, opener, reader, writer, arriving, byte, received>>

(* pthread_create fails: everything is undone.                             *)
InitUndone ==
    /\ opener = "down" /\ lost < MaxOpens
    /\ stop_thread' = FALSE /\ arriving' = <<>>
    /\ UNCHANGED <<fd, lost, tMutex, opener, reader, writer, byte, received>>

DeinitStops ==
    /\ opener = "up" /\ writer = "idle"
    /\ stop_thread' = TRUE /\ opener' = "joining"
    /\ UNCHANGED <<fd, lost, tMutex, reader, writer, arriving, byte, received>>

DeinitClosesAtOnce ==   \* fault: the thread is not waited for
    /\ opener = "joining"
    /\ tMutex' = "none" /\ fd' = FALSE /\ opener' = "down"
    /\ UNCHANGED <<lost, stop_thread, reader, writer, arriving, byte, received>>

DeinitCloses ==
    /\ opener = "joining" /\ reader = "ended"
    /\ tMutex' = "none" /\ fd' = FALSE /\ opener' = "down"
    /\ UNCHANGED <<lost, stop_thread, reader, writer, arriving, byte, received>>
-----------------------------------------------------------------------------
(* uart_recv_thread and uart_read.                                         *)
ReaderEnds ==
    /\ reader = "loop" /\ stop_thread
    /\ reader' = "ended"
    /\ UNCHANGED <<fd, lost, tMutex, stop_thread, opener, writer, arriving, byte, received>>

(* select: a byte, or the timeout, a signal or an error.                   *)
ReaderSelects ==
    /\ reader = "loop" /\ ~stop_thread
    /\ reader' \in (IF arriving = <<>> THEN {} ELSE {"lock"}) \cup {"loop"}
    /\ UNCHANGED <<fd, lost, tMutex, stop_thread, opener, writer, arriving, byte, received>>

(* read, which may fail.                                                   *)
ReaderReads ==
    /\ reader = "lock" /\ tMutex = "free"
    /\ \/ reader' = "callback" /\ byte' = <<Head(arriving)>> /\ arriving' = Tail(arriving)
       \/ reader' = "loop" /\ UNCHANGED <<byte, arriving>>
    /\ UNCHANGED <<fd, lost, tMutex, stop_thread, opener, writer, received>>

ReaderCalls ==
    /\ reader = "callback"
    /\ reader' = "loop" /\ received' = received \o byte /\ byte' = <<>>
    /\ UNCHANGED <<fd, lost, tMutex, stop_thread, opener, writer, arriving>>
-----------------------------------------------------------------------------
(* uart_write, which holds the mutex while the device takes the bytes.     *)
WriteLocks ==
    /\ opener = "up" /\ writer = "idle" /\ tMutex = "free"
    /\ writer' = "write" /\ tMutex' = "writer"
    /\ UNCHANGED <<fd, lost, stop_thread, opener, reader, arriving, byte, received>>

WriteReturns ==
    /\ writer = "write"
    /\ writer' = "idle" /\ tMutex' = "free"
    /\ UNCHANGED <<fd, lost, stop_thread, opener, reader, arriving, byte, received>>

ByteArrives ==
    /\ fd /\ Arrived < MaxBytes
    /\ arriving' = Append(arriving, Arrived + 1)
    /\ UNCHANGED <<fd, lost, tMutex, stop_thread, opener, reader, writer, byte, received>>

PortNext ==
    \/ InitSucceeds \/ InitFails \/ InitUndone \/ DeinitStops \/ DeinitCloses
    \/ ReaderEnds \/ ReaderSelects \/ ReaderReads \/ ReaderCalls
    \/ WriteLocks \/ WriteReturns \/ ByteArrives
PortSpec == PortInit /\ [][PortNext]_portVars
-----------------------------------------------------------------------------
(* The callback gets the bytes in the order they arrived, each once, and   *)
(* the port and its mutex are there as long as anyone uses them.           *)
SerialDelivers ==
    /\ received \o byte \o arriving = [k \in 1 .. Arrived |-> k]
    /\ reader \in {"loop", "lock", "callback"} => fd /\ tMutex # "none"
    /\ (writer = "write") <=> (tMutex = "writer")
=============================================================================
