----------------------------- MODULE SerialLink -----------------------------
(***************************************************************************)
(* The serial link manager (SerialLinkManager): one lock, one current      *)
(* handle, and threads that keep a handle across the lock: callers that    *)
(* open, close or write, and the reader thread each open starts.           *)
(*                                                                         *)
(* A handle is the number of the open that made it; reader n is the thread *)
(* started for handle n.  A block under the lock is one step, and so is    *)
(* each blocking call between two blocks.  Reads and writes may fail at    *)
(* any time (the device is unplugged or reset), and must fail on a closed  *)
(* handle.  Received data is known by the number of buffer clears that     *)
(* came before it was read.                                                *)
(***************************************************************************)
EXTENDS Naturals

CONSTANTS
  Callers,     \* threads of the API server and the downlink thread
  MaxHandles,  \* bound: handles opened
  MaxClears,   \* bound: buffer clears told apart
  TxAttempts   \* SIM_SERIAL_TX_MAX_ATTEMPTS

ASSUME SerialConstants ==
  /\ MaxHandles \in Nat \ {0}
  /\ MaxClears \in Nat
  /\ TxAttempts \in Nat \ {0}

VARIABLES
  serial,   \* the current handle, or none
  running,  \* _reader_running
  opened,   \* number of handles made so far
  isOpen,   \* the handles that are open
  caller,   \* what each caller is doing, with which handle
  reader,   \* what each reader thread is doing, with which handle
  clears,   \* number of buffer clears
  rxBuffer, \* _rx_buffer: bytes not yet decoded
  rxFrames  \* _rx_frames: decoded frames not yet polled

rxVars == <<rxBuffer, rxFrames>>
serialVars == <<serial, running, opened, isOpen, caller, reader, clears, rxBuffer, rxFrames>>

-----------------------------------------------------------------------------
none == 0
Handle == 1 .. MaxHandles

CallerState ==
  [at : {"idle", "opening", "openFailed", "install", "start", "close", "send",
         "writing", "writeFailed"},
   handle : Handle \cup {none}, attempt : 0 .. TxAttempts]

ReaderState ==
  [at : {"unborn", "loop", "reading", "received", "crashed", "failed", "close", "dead"},
   handle : Handle \cup {none}, clears : 0 .. MaxClears]

IdleCaller == [at |-> "idle", handle |-> none, attempt |-> 0]

SerialInit ==
  /\ serial = none /\ running = FALSE /\ opened = 0 /\ isOpen = {}
  /\ caller = [c \in Callers |-> IdleCaller]
  /\ reader = [r \in Handle |-> [at |-> "unborn", handle |-> none, clears |-> 0]]
  /\ clears = 0 /\ rxBuffer = {} /\ rxFrames = {}

PortOpen == serial # none /\ serial \in isOpen

Goto(c, at, handle) == caller' = [caller EXCEPT ![c] = [@ EXCEPT !.at = at, !.handle = handle]]

Return(c) == caller' = [caller EXCEPT ![c] = IdleCaller]

(* _detach_serial_locked: whatever handle is current is dropped. *)
Detach == serial' = none /\ running' = FALSE

KeepPort == UNCHANGED <<serial, running>>

-----------------------------------------------------------------------------
(* open_port: the check and the installation hold the lock, the open        *)
(* itself does not.                                                         *)

OpenPort(c) ==
  /\ caller[c].at = "idle"
  /\ ~PortOpen
  /\ Goto(c, "opening", none)
  /\ UNCHANGED <<serial, running, opened, isOpen, reader, clears, rxVars>>

OpenHandle(c) ==
  /\ caller[c].at = "opening"
  /\ \/ /\ opened < MaxHandles
        /\ opened' = opened + 1
        /\ isOpen' = isOpen \cup {opened'}
        /\ Goto(c, "install", opened')
     \/ /\ Goto(c, "openFailed", none)
        /\ UNCHANGED <<opened, isOpen>>
  /\ UNCHANGED <<serial, running, reader, clears, rxVars>>

(* The current handle is dropped although another caller may have installed *)
(* it; its reader keeps running.                                            *)
OpenFailure(c) ==
  /\ caller[c].at = "openFailed"
  /\ serial' = none
  /\ Return(c)
  /\ UNCHANGED <<running, opened, isOpen, reader, clears, rxVars>>

InstallBeforeRun(handle) == serial' = handle /\ UNCHANGED running  \* mutant: the flag is not set
SetCurrent(handle) == serial' = handle /\ running' = TRUE

Install(c) ==
  /\ caller[c].at = "install"
  /\ IF PortOpen
     THEN /\ isOpen' = isOpen \ {caller[c].handle}
          /\ Return(c) /\ KeepPort
     ELSE /\ SetCurrent(caller[c].handle)
          /\ Goto(c, "start", caller[c].handle)
          /\ UNCHANGED isOpen
  /\ UNCHANGED <<opened, reader, clears, rxVars>>

StartReader(c) ==
  /\ caller[c].at = "start"
  /\ reader' = [reader EXCEPT ![caller[c].handle].at = "loop"]
  /\ Return(c)
  /\ UNCHANGED <<serial, running, opened, isOpen, clears, rxVars>>

-----------------------------------------------------------------------------
(* close_port and force_release_port.  The reader is given 0.3 s to end,    *)
(* which it may exceed.                                                     *)

ClosePortKeeps == UNCHANGED serial /\ running' = FALSE  \* mutant: the handle stays current
TakePort == serial' = none /\ running' = FALSE

ClosePort(c) ==
  /\ caller[c].at = "idle"
  /\ TakePort
  /\ Goto(c, "close", serial)
  /\ UNCHANGED <<opened, isOpen, reader, clears, rxVars>>

(* The handle taken under the lock is closed after it. *)
CloseHandle(c) ==
  /\ caller[c].at = "close"
  /\ isOpen' = isOpen \ {caller[c].handle}
  /\ Return(c)
  /\ UNCHANGED <<serial, running, opened, reader, clears, rxVars>>

-----------------------------------------------------------------------------
(* send_frame: each attempt takes the current handle under the lock and     *)
(* writes without it.                                                       *)

SendFrame(c) ==
  /\ \/ caller[c].at = "idle"
     \/ caller[c].at = "send"
  /\ IF PortOpen
     THEN caller' = [caller EXCEPT ![c] = [at |-> "writing", handle |-> serial,
                                           attempt |-> @.attempt + 1]]
     ELSE Return(c)
  /\ UNCHANGED <<serial, running, opened, isOpen, reader, clears, rxVars>>

Write(c) ==
  /\ caller[c].at = "writing"
  /\ \/ caller[c].handle \in isOpen /\ Return(c)
     \/ Goto(c, "writeFailed", caller[c].handle)
  /\ UNCHANGED <<serial, running, opened, isOpen, reader, clears, rxVars>>

(* Whether the handle that failed is still the current one. *)
StillActive(handle) == PortOpen /\ serial = handle

OneMoreAttempt(c) == caller[c].attempt <= TxAttempts  \* mutant
MayResend(c) == caller[c].attempt < TxAttempts

WriteFailure(c) ==
  /\ caller[c].at = "writeFailed"
  /\ \/ /\ StillActive(caller[c].handle) /\ MayResend(c)
        /\ Goto(c, "send", none) /\ KeepPort
     \/ /\ StillActive(caller[c].handle)
        /\ Detach /\ Goto(c, "close", serial)
     \/ /\ ~StillActive(caller[c].handle)
        /\ Return(c) /\ KeepPort
  /\ UNCHANGED <<opened, isOpen, reader, clears, rxVars>>

ClearBuffers ==
  /\ rxBuffer' = {} /\ rxFrames' = {}
  /\ clears' = IF clears < MaxClears THEN clears + 1 ELSE clears
  /\ UNCHANGED <<serial, running, opened, isOpen, caller, reader>>

PopReceivedFrames ==
  /\ rxFrames' = {}
  /\ UNCHANGED <<serial, running, opened, isOpen, caller, reader, clears, rxBuffer>>

-----------------------------------------------------------------------------
(* _reader_loop: the running flag and the handle are those of the manager,  *)
(* not of the thread, and are read without the lock.                        *)

ReadsOn == TRUE  \* mutant: the flag is not tested
KeepsRunning == running

ReaderLoop(r) ==
  /\ reader[r].at = "loop"
  /\ IF ~KeepsRunning THEN reader' = [reader EXCEPT ![r].at = "dead"]
     ELSE serial # none /\ reader' = [reader EXCEPT ![r] = [@ EXCEPT !.at = "reading", !.handle = serial]]
  /\ UNCHANGED <<serial, running, opened, isOpen, caller, clears, rxVars>>

(* Data, a read timeout, or an exception. *)
Read(r) ==
  /\ reader[r].at = "reading"
  /\ \/ /\ reader[r].handle \in isOpen
        /\ \/ reader' = [reader EXCEPT ![r] = [@ EXCEPT !.at = "received", !.clears = clears]]
           \/ reader' = [reader EXCEPT ![r].at = "loop"]
     \/ reader' = [reader EXCEPT ![r].at = "failed"]
  /\ UNCHANGED <<serial, running, opened, isOpen, caller, clears, rxVars>>

(* The chunk joins the buffered bytes, and what can be decoded becomes       *)
(* frames.  A decoding error loses the frames decoded with it; any other     *)
(* exception ends the thread.                                                *)
Received(r) ==
  /\ reader[r].at = "received"
  /\ \E next \in {"loop", "crashed"} : reader' = [reader EXCEPT ![r].at = next]
  /\ LET bytes == rxBuffer \cup {reader[r].clears}
     IN /\ rxBuffer' \in SUBSET bytes
        /\ rxFrames' \in {rxFrames, rxFrames \cup bytes}
  /\ UNCHANGED <<serial, running, opened, isOpen, caller, clears>>

(* The handler of _reader_loop detaches the current handle without closing   *)
(* it.                                                                       *)
ReaderCrash(r) ==
  /\ reader[r].at = "crashed"
  /\ Detach
  /\ reader' = [reader EXCEPT ![r].at = "dead"]
  /\ UNCHANGED <<opened, isOpen, caller, clears, rxVars>>

(* The thread detaches and then closes whatever handle is current. *)
ReadFailure(r) ==
  /\ reader[r].at = "failed"
  /\ Detach
  /\ reader' = [reader EXCEPT ![r] = [@ EXCEPT !.at = "close", !.handle = serial]]
  /\ UNCHANGED <<opened, isOpen, caller, clears, rxVars>>

ReaderClose(r) ==
  /\ reader[r].at = "close"
  /\ isOpen' = isOpen \ {reader[r].handle}
  /\ reader' = [reader EXCEPT ![r].at = "dead"]
  /\ UNCHANGED <<serial, running, opened, caller, clears, rxVars>>

ReaderStep(r) ==
  ReaderLoop(r) \/ Read(r) \/ Received(r) \/ ReaderCrash(r) \/ ReadFailure(r) \/ ReaderClose(r)

CallerStep(c) ==
  \/ OpenPort(c) \/ OpenHandle(c) \/ OpenFailure(c) \/ Install(c) \/ StartReader(c)
  \/ ClosePort(c) \/ CloseHandle(c)
  \/ SendFrame(c) \/ Write(c) \/ WriteFailure(c)

SerialNext ==
  \/ \E c \in Callers : CallerStep(c)
  \/ \E r \in Handle : ReaderStep(r)
  \/ ClearBuffers \/ PopReceivedFrames

SerialSpec == SerialInit /\ [][SerialNext]_serialVars

(* Reads time out, so a reader thread always goes on. *)
SerialFairSpec == SerialSpec /\ \A r \in Handle : WF_serialVars(ReaderStep(r))

-----------------------------------------------------------------------------
(* Properties. *)

(* The manager's attributes and the threads keep their types. *)
SerialTypeOK ==
  /\ serial \in Handle \cup {none} /\ running \in BOOLEAN
  /\ opened \in 0 .. MaxHandles /\ isOpen \subseteq Handle
  /\ caller \in [Callers -> CallerState] /\ reader \in [Handle -> ReaderState]
  /\ clears \in 0 .. MaxClears
  /\ rxBuffer \subseteq 0 .. MaxClears /\ rxFrames \subseteq 0 .. MaxClears

(* An open port is never deaf: the current handle has its own reader        *)
(* thread, running or about to be started by the caller that installed it,  *)
(* and the flag that keeps it running is set, however opens, closes,        *)
(* failing writes and dying readers overlapped before.                      *)
Alive(r) == reader[r].at \in {"loop", "reading", "received", "crashed", "failed"}

NoDeafPort ==
  serial # none =>
    running /\ (Alive(serial) \/ \E c \in Callers : caller[c].at = "start" /\ caller[c].handle = serial)

(* Nobody closes a handle that is still the current one: every close acts   *)
(* on a handle taken away under the lock before.                            *)
CurrentIsOpen == serial # none => serial \in isOpen

(* clear_buffers: "stop stale transport traffic from leaking into the next  *)
(* low-level controller session": what is buffered was read after the last  *)
(* clear, whatever the readers were doing when it came.                     *)
NoStaleTraffic == rxBuffer \cup rxFrames \subseteq {clears}

(* A closed port loses its readers: unless the port is opened again, every  *)
(* reader thread that was started ends.                                     *)
ReadersRetire ==
  ~running ~> (running \/ \A r \in Handle : reader[r].at \in {"unborn", "dead"})

(* _detach_serial_locked: "The simulator must stop using that stale handle  *)
(* and return the port to a closed state": a reader whose read failed drops *)
(* the handle it read from, not one that was opened since.                  *)
ReaderDetachesOwn ==
  [][\A r \in Handle :
       reader[r].at = "failed" /\ reader'[r].at = "close" /\ serial # none
         => reader[r].handle = serial]_serialVars

=============================================================================
