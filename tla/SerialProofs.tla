---------------------------- MODULE SerialProofs ----------------------------
(***************************************************************************)
(* Safety of the serial link manager, for any number of callers, handles,  *)
(* buffer clears and write attempts.                                       *)
(*                                                                         *)
(* The invariant follows the ownership of handles.  A handle that a caller *)
(* is about to install is open and belongs to that caller alone; a handle  *)
(* that some thread is about to close is no longer the current one.  Hence *)
(* no close can hit the current handle, and no handle is installed that    *)
(* somebody is about to close.                                             *)
(***************************************************************************)
EXTENDS SerialLink, TLAPS

(* Every handle that is known to anybody was made by an earlier open. *)
Made ==
  /\ serial <= opened
  /\ \A x \in isOpen : x <= opened
  /\ \A c \in Callers : caller[c].handle <= opened
  /\ \A r \in Handle : reader[r].handle <= opened

Holds(c, x) == caller[c].at \in {"install", "close"} /\ caller[c].handle = x

(* A handle to be installed is open, and nobody else holds it. *)
InstallOwned ==
  \A c \in Callers : caller[c].at = "install" =>
    /\ caller[c].handle # none /\ caller[c].handle \in isOpen /\ caller[c].handle # serial
    /\ \A d \in Callers : d # c => ~Holds(d, caller[c].handle)
    /\ \A r \in Handle : ~(reader[r].at = "close" /\ reader[r].handle = caller[c].handle)

(* A handle to be closed is not the current one. *)
CloseTaken ==
  /\ \A c \in Callers : caller[c].at = "close" => caller[c].handle = none \/ caller[c].handle # serial
  /\ \A r \in Handle : reader[r].at = "close" => reader[r].handle = none \/ reader[r].handle # serial

StartReal == \A c \in Callers : caller[c].at = "start" => caller[c].handle # none

(* An attempt is left before the port is taken again. *)
AttemptLeft ==
  \A c \in Callers : caller[c].at \in {"idle", "send"} => caller[c].attempt < TxAttempts

SerialInv ==
  /\ SerialTypeOK /\ Made /\ InstallOwned /\ CloseTaken /\ StartReal /\ AttemptLeft
  /\ NoDeafPort /\ CurrentIsOpen

-----------------------------------------------------------------------------
(* What the two ways of changing a caller do. *)

LEMMA GotoFacts ==
  ASSUME caller \in [Callers -> CallerState], NEW c \in Callers,
         NEW at \in {"idle", "opening", "openFailed", "install", "start", "close", "send",
                     "writing", "writeFailed"},
         NEW x \in Handle \cup {none}, Goto(c, at, x)
  PROVE  /\ caller' \in [Callers -> CallerState]
         /\ caller'[c].at = at /\ caller'[c].handle = x
         /\ caller'[c].attempt = caller[c].attempt
         /\ \A d \in Callers : d # c => caller'[d] = caller[d]
BY DEF Goto, CallerState

LEMMA ReturnFacts ==
  ASSUME caller \in [Callers -> CallerState], NEW c \in Callers, Return(c)
  PROVE  /\ caller' \in [Callers -> CallerState]
         /\ caller'[c].at = "idle" /\ caller'[c].handle = none
         /\ caller'[c].attempt = 0
         /\ \A d \in Callers : d # c => caller'[d] = caller[d]
BY SerialConstants DEF Return, IdleCaller, CallerState, none

LEMMA InitInv == SerialInit => SerialInv
<1> SUFFICES ASSUME SerialInit PROVE SerialInv
  OBVIOUS
<1> USE SerialConstants DEF SerialInit
<1>1. IdleCaller \in CallerState
  BY DEF IdleCaller, CallerState, none
<1>2. [at |-> "unborn", handle |-> none, clears |-> 0] \in ReaderState
  BY DEF ReaderState, none
<1>3. caller \in [Callers -> CallerState] /\ reader \in [Handle -> ReaderState]
  BY <1>1, <1>2
<1>4. 0 \in 0 .. MaxHandles /\ 0 \in 0 .. MaxClears
  OBVIOUS
<1>5. SerialTypeOK
  BY <1>3, <1>4 DEF SerialTypeOK
<1>6. Made /\ InstallOwned /\ CloseTaken /\ StartReal /\ AttemptLeft
  BY DEF Made, InstallOwned, CloseTaken, StartReal, AttemptLeft, IdleCaller, none
<1>7. NoDeafPort /\ CurrentIsOpen
  BY DEF NoDeafPort, CurrentIsOpen
<1> QED BY <1>5, <1>6, <1>7 DEF SerialInv

(* A step that changes one caller and nothing else about the port, and takes *)
(* no handle to install or to close, keeps the invariant.                    *)
LEMMA CallerMoves ==
  ASSUME SerialInv, NEW c \in Callers,
         UNCHANGED <<serial, running, opened, isOpen, reader, clears, rxVars>>,
         caller' \in [Callers -> CallerState],
         \A d \in Callers : d # c => caller'[d] = caller[d],
         caller[c].at # "start",
         caller'[c].at \notin {"install", "close", "start"},
         caller'[c].handle <= opened,
         caller'[c].at \in {"idle", "send"} => caller'[c].attempt < TxAttempts
  PROVE  SerialInv'
<1> USE DEF SerialInv
<1>1. SerialTypeOK'
  BY DEF SerialTypeOK, rxVars
<1>2. Made'
  BY DEF Made
<1>3. InstallOwned'
  BY DEF InstallOwned, Holds
<1>4. CloseTaken' /\ StartReal' /\ AttemptLeft'
  BY DEF CloseTaken, StartReal, AttemptLeft
<1>5. NoDeafPort' /\ CurrentIsOpen'
  BY DEF NoDeafPort, CurrentIsOpen, Alive
<1> QED BY <1>1, <1>2, <1>3, <1>4, <1>5

(* A step of a reader thread that stays in its loop keeps the invariant. *)
LEMMA ReaderMoves ==
  ASSUME SerialInv, NEW r \in Handle,
         UNCHANGED <<serial, running, opened, isOpen, caller, clears>>,
         rxBuffer' \subseteq 0 .. MaxClears, rxFrames' \subseteq 0 .. MaxClears,
         reader' \in [Handle -> ReaderState],
         \A q \in Handle : q # r => reader'[q] = reader[q],
         reader'[r].at \in {"loop", "reading", "received", "crashed", "failed"},
         reader'[r].handle <= opened
  PROVE  SerialInv'
<1> USE DEF SerialInv
<1>1. SerialTypeOK'
  BY DEF SerialTypeOK
<1>2. Made'
  BY DEF Made
<1>3. InstallOwned'
  BY DEF InstallOwned, Holds
<1>4. CloseTaken' /\ StartReal' /\ AttemptLeft'
  BY DEF CloseTaken, StartReal, AttemptLeft
<1>5. NoDeafPort' /\ CurrentIsOpen'
  BY DEF NoDeafPort, CurrentIsOpen, Alive, SerialTypeOK, none
<1> QED BY <1>1, <1>2, <1>3, <1>4, <1>5

-----------------------------------------------------------------------------
(* The steps of open_port. *)

LEMMA OpenPortInv ==
  ASSUME SerialInv, NEW c \in Callers, OpenPort(c)  PROVE SerialInv'
<1>1. /\ caller' \in [Callers -> CallerState]
      /\ caller'[c].at = "opening" /\ caller'[c].handle = none
      /\ \A d \in Callers : d # c => caller'[d] = caller[d]
  BY GotoFacts DEF OpenPort, SerialInv, SerialTypeOK, none
<1>2. none <= opened
  BY SerialConstants DEF SerialInv, SerialTypeOK, none
<1> QED BY <1>1, <1>2, CallerMoves DEF OpenPort

LEMMA OpenHandleInv ==
  ASSUME SerialInv, NEW c \in Callers, OpenHandle(c)  PROVE SerialInv'
<1> USE DEF SerialInv
<1>1. CASE Goto(c, "openFailed", none) /\ UNCHANGED <<opened, isOpen>>
  <2>1. /\ caller' \in [Callers -> CallerState]
        /\ caller'[c].at = "openFailed" /\ caller'[c].handle = none
        /\ \A d \in Callers : d # c => caller'[d] = caller[d]
    BY <1>1, GotoFacts DEF SerialTypeOK, none
  <2>2. none <= opened
    BY SerialConstants DEF SerialTypeOK, none
  <2> QED BY <1>1, <2>1, <2>2, CallerMoves DEF OpenHandle
<1>2. CASE opened < MaxHandles /\ opened' = opened + 1 /\ isOpen' = isOpen \cup {opened'}
           /\ Goto(c, "install", opened')
  <2>1. opened' \in Handle /\ opened' \in 0 .. MaxHandles /\ opened' > opened
    BY <1>2, SerialConstants DEF SerialTypeOK, Handle
  <2>2. /\ caller' \in [Callers -> CallerState]
        /\ caller'[c].at = "install" /\ caller'[c].handle = opened'
        /\ \A d \in Callers : d # c => caller'[d] = caller[d]
    BY <1>2, <2>1, GotoFacts DEF SerialTypeOK
  <2>3. UNCHANGED <<serial, running, reader, clears, rxBuffer, rxFrames>> /\ caller[c].at = "opening"
    BY DEF OpenHandle, rxVars
  <2>4. SerialTypeOK'
    BY <1>2, <2>1, <2>2, <2>3 DEF SerialTypeOK
  <2>5. \A h \in Handle \cup {none} : h <= opened => h <= opened' /\ h # opened'
    BY <2>1, SerialConstants DEF SerialTypeOK, Handle, none
  <2>6. /\ \A d \in Callers : caller[d].handle \in Handle \cup {none}
        /\ \A r \in Handle : reader[r].handle \in Handle \cup {none}
    BY DEF SerialTypeOK, CallerState, ReaderState
  <2>7. Made'
    BY <1>2, <2>1, <2>2, <2>3, <2>5, <2>6, SerialConstants DEF Made, SerialTypeOK, Handle, none
  <2>8. InstallOwned'
    BY <1>2, <2>1, <2>2, <2>3, <2>5, <2>6, SerialConstants
       DEF InstallOwned, Holds, Made, SerialTypeOK, Handle, none
  <2>9. CloseTaken' /\ StartReal' /\ AttemptLeft'
    BY <2>2, <2>3 DEF CloseTaken, StartReal, AttemptLeft
  <2>10. NoDeafPort' /\ CurrentIsOpen'
    BY <1>2, <2>2, <2>3 DEF NoDeafPort, CurrentIsOpen, Alive
  <2> QED BY <2>4, <2>7, <2>8, <2>9, <2>10
<1> QED BY <1>1, <1>2 DEF OpenHandle

LEMMA OpenFailureInv ==
  ASSUME SerialInv, NEW c \in Callers, OpenFailure(c)  PROVE SerialInv'
<1> USE DEF SerialInv
<1>1. /\ caller' \in [Callers -> CallerState]
      /\ caller'[c].at = "idle" /\ caller'[c].handle = none /\ caller'[c].attempt = 0
      /\ \A d \in Callers : d # c => caller'[d] = caller[d]
  BY ReturnFacts DEF OpenFailure, SerialTypeOK
<1>2. serial' = none /\ UNCHANGED <<running, opened, isOpen, reader, clears, rxBuffer, rxFrames>>
  BY DEF OpenFailure, rxVars
<1>3. SerialTypeOK'
  BY <1>1, <1>2 DEF SerialTypeOK
<1>4. Made'
  BY <1>1, <1>2, SerialConstants DEF Made, SerialTypeOK, none
<1>5. InstallOwned'
  BY <1>1, <1>2 DEF InstallOwned, Holds
<1>6. CloseTaken' /\ StartReal' /\ AttemptLeft'
  BY <1>1, <1>2, SerialConstants DEF CloseTaken, StartReal, AttemptLeft
<1>7. NoDeafPort' /\ CurrentIsOpen'
  BY <1>2 DEF NoDeafPort, CurrentIsOpen
<1> QED BY <1>3, <1>4, <1>5, <1>6, <1>7

LEMMA InstallInv ==
  ASSUME SerialInv, NEW c \in Callers, Install(c)  PROVE SerialInv'
<1> USE DEF SerialInv
<1>1. /\ caller[c].at = "install" /\ caller[c].handle \in Handle \cup {none}
      /\ UNCHANGED <<opened, reader, clears, rxBuffer, rxFrames>>
  BY DEF Install, rxVars, SerialTypeOK, CallerState
<1>2. CASE PortOpen
  <2>1. /\ isOpen' = isOpen \ {caller[c].handle}
        /\ UNCHANGED <<serial, running>>
    BY <1>2 DEF Install, KeepPort
  <2>2. /\ caller' \in [Callers -> CallerState]
        /\ caller'[c].at = "idle" /\ caller'[c].handle = none /\ caller'[c].attempt = 0
        /\ \A d \in Callers : d # c => caller'[d] = caller[d]
    BY <1>2, ReturnFacts DEF Install, SerialTypeOK
  <2>3. SerialTypeOK'
    BY <1>1, <2>1, <2>2 DEF SerialTypeOK
  <2>4. Made'
    BY <1>1, <2>1, <2>2, SerialConstants DEF Made, SerialTypeOK, none
  <2>5. InstallOwned'
    BY <1>1, <2>1, <2>2 DEF InstallOwned, Holds
  <2>6. CloseTaken' /\ StartReal' /\ AttemptLeft'
    BY <1>1, <2>1, <2>2, SerialConstants DEF CloseTaken, StartReal, AttemptLeft
  <2>7. NoDeafPort' /\ CurrentIsOpen'
    BY <1>1, <2>1, <2>2 DEF NoDeafPort, CurrentIsOpen, Alive, InstallOwned
  <2> QED BY <2>3, <2>4, <2>5, <2>6, <2>7
<1>3. CASE ~PortOpen
  <2>1. serial' = caller[c].handle /\ running' = TRUE /\ UNCHANGED isOpen
    BY <1>3 DEF Install, SetCurrent
  <2>2. /\ caller' \in [Callers -> CallerState]
        /\ caller'[c].at = "start" /\ caller'[c].handle = caller[c].handle
        /\ \A d \in Callers : d # c => caller'[d] = caller[d]
    BY <1>1, <1>3, GotoFacts DEF Install, SerialTypeOK
  <2>3. SerialTypeOK'
    BY <1>1, <2>1, <2>2 DEF SerialTypeOK
  <2>4. Made'
    BY <1>1, <2>1, <2>2 DEF Made
  <2>5. InstallOwned'
    BY <1>1, <2>1, <2>2 DEF InstallOwned, Holds
  <2>6. CloseTaken' /\ StartReal' /\ AttemptLeft'
    BY <1>1, <2>1, <2>2 DEF CloseTaken, StartReal, AttemptLeft, InstallOwned, Holds
  <2>7. NoDeafPort' /\ CurrentIsOpen'
    BY <1>1, <2>1, <2>2 DEF NoDeafPort, CurrentIsOpen, InstallOwned
  <2> QED BY <2>3, <2>4, <2>5, <2>6, <2>7
<1> QED BY <1>2, <1>3

LEMMA StartReaderInv ==
  ASSUME SerialInv, NEW c \in Callers, StartReader(c)  PROVE SerialInv'
<1> USE DEF SerialInv
<1> DEFINE x == caller[c].handle
<1>1. /\ caller[c].at = "start" /\ x \in Handle
      /\ UNCHANGED <<serial, running, opened, isOpen, clears, rxBuffer, rxFrames>>
  BY DEF StartReader, rxVars, SerialTypeOK, CallerState, StartReal
<1>2. /\ caller' \in [Callers -> CallerState]
      /\ caller'[c].at = "idle" /\ caller'[c].handle = none /\ caller'[c].attempt = 0
      /\ \A d \in Callers : d # c => caller'[d] = caller[d]
  BY ReturnFacts DEF StartReader, SerialTypeOK
<1>3. /\ reader' \in [Handle -> ReaderState]
      /\ reader'[x].at = "loop" /\ reader'[x].handle = reader[x].handle
      /\ \A q \in Handle : q # x => reader'[q] = reader[q]
  BY <1>1 DEF StartReader, SerialTypeOK, ReaderState
<1> HIDE DEF x
<1>4. SerialTypeOK'
  BY <1>1, <1>2, <1>3 DEF SerialTypeOK
<1>5. Made'
  BY <1>1, <1>2, <1>3, SerialConstants DEF Made, SerialTypeOK, none
<1>6. InstallOwned'
  BY <1>1, <1>2, <1>3 DEF InstallOwned, Holds
<1>7. CloseTaken' /\ StartReal' /\ AttemptLeft'
  BY <1>1, <1>2, <1>3, SerialConstants DEF CloseTaken, StartReal, AttemptLeft
<1>8. NoDeafPort'
  <2> SUFFICES ASSUME serial # none
               PROVE  /\ running
                      /\ \/ Alive(serial)'
                         \/ \E d \in Callers : caller'[d].at = "start" /\ caller'[d].handle = serial
    BY <1>1 DEF NoDeafPort, Alive
  <2>1. running /\ serial \in Handle
    BY DEF NoDeafPort, SerialTypeOK
  <2>2. CASE serial = x
    BY <1>1, <1>3, <2>1, <2>2 DEF Alive
  <2>3. CASE serial # x
    <3>1. CASE Alive(serial)
      BY <1>1, <1>3, <2>1, <2>3, <3>1 DEF Alive
    <3>2. CASE \E d \in Callers : caller[d].at = "start" /\ caller[d].handle = serial
      BY <1>2, <2>1, <2>3, <3>2 DEF x
    <3> QED BY <3>1, <3>2 DEF NoDeafPort
  <2> QED BY <2>2, <2>3
<1>9. CurrentIsOpen'
  BY <1>1 DEF CurrentIsOpen
<1> QED BY <1>4, <1>5, <1>6, <1>7, <1>8, <1>9

-----------------------------------------------------------------------------
(* The steps of close_port. *)

LEMMA ClosePortInv ==
  ASSUME SerialInv, NEW c \in Callers, ClosePort(c)  PROVE SerialInv'
<1> USE DEF SerialInv
<1>1. /\ caller[c].at = "idle" /\ serial' = none
      /\ UNCHANGED <<opened, isOpen, reader, clears, rxBuffer, rxFrames>>
      /\ running' \in BOOLEAN
  BY DEF ClosePort, TakePort, rxVars
<1>2. /\ caller' \in [Callers -> CallerState]
      /\ caller'[c].at = "close" /\ caller'[c].handle = serial
      /\ \A d \in Callers : d # c => caller'[d] = caller[d]
  BY GotoFacts DEF ClosePort, SerialTypeOK
<1>3. SerialTypeOK'
  BY <1>1, <1>2 DEF SerialTypeOK
<1>4. Made'
  BY <1>1, <1>2, SerialConstants DEF Made, SerialTypeOK, none
<1>5. InstallOwned'
  BY <1>1, <1>2 DEF InstallOwned, Holds
<1>6. CloseTaken' /\ StartReal' /\ AttemptLeft'
  BY <1>1, <1>2 DEF CloseTaken, StartReal, AttemptLeft
<1>7. NoDeafPort' /\ CurrentIsOpen'
  BY <1>1 DEF NoDeafPort, CurrentIsOpen
<1> QED BY <1>3, <1>4, <1>5, <1>6, <1>7

LEMMA CloseHandleInv ==
  ASSUME SerialInv, NEW c \in Callers, CloseHandle(c)  PROVE SerialInv'
<1> USE DEF SerialInv
<1>1. /\ caller[c].at = "close" /\ isOpen' = isOpen \ {caller[c].handle}
      /\ UNCHANGED <<serial, running, opened, reader, clears, rxBuffer, rxFrames>>
  BY DEF CloseHandle, rxVars
<1>2. /\ caller' \in [Callers -> CallerState]
      /\ caller'[c].at = "idle" /\ caller'[c].handle = none /\ caller'[c].attempt = 0
      /\ \A d \in Callers : d # c => caller'[d] = caller[d]
  BY ReturnFacts DEF CloseHandle, SerialTypeOK
<1>3. SerialTypeOK'
  BY <1>1, <1>2 DEF SerialTypeOK
<1>4. Made'
  BY <1>1, <1>2, SerialConstants DEF Made, SerialTypeOK, none
<1>5. InstallOwned'
  BY <1>1, <1>2 DEF InstallOwned, Holds
<1>6. CloseTaken' /\ StartReal' /\ AttemptLeft'
  BY <1>1, <1>2, SerialConstants DEF CloseTaken, StartReal, AttemptLeft
<1>7. NoDeafPort' /\ CurrentIsOpen'
  BY <1>1, <1>2 DEF NoDeafPort, CurrentIsOpen, Alive, CloseTaken
<1> QED BY <1>3, <1>4, <1>5, <1>6, <1>7

-----------------------------------------------------------------------------
(* The steps of send_frame. *)

LEMMA SendFrameInv ==
  ASSUME SerialInv, NEW c \in Callers, SendFrame(c)  PROVE SerialInv'
<1> USE DEF SerialInv
<1>1. caller[c] \in CallerState /\ caller[c].at \in {"idle", "send"}
  BY DEF SendFrame, SerialTypeOK
<1>2. CASE PortOpen
  <2> DEFINE w == [at |-> "writing", handle |-> serial, attempt |-> caller[c].attempt + 1]
  <2>1. caller[c].attempt + 1 \in 0 .. TxAttempts
    BY <1>1, SerialConstants DEF AttemptLeft, CallerState
  <2>2. w \in CallerState
    BY <2>1 DEF CallerState, SerialTypeOK
  <2>3. caller' = [caller EXCEPT ![c] = w]
    BY <1>2 DEF SendFrame
  <2> HIDE DEF w
  <2>4. /\ caller' \in [Callers -> CallerState] /\ caller'[c] = w
        /\ \A d \in Callers : d # c => caller'[d] = caller[d]
    BY <2>2, <2>3 DEF SerialTypeOK
  <2>5. w.at = "writing" /\ w.handle <= opened
    BY DEF w, Made
  <2> QED BY <1>1, <2>4, <2>5, CallerMoves DEF SendFrame
<1>3. CASE ~PortOpen
  <2>1. /\ caller' \in [Callers -> CallerState]
        /\ caller'[c].at = "idle" /\ caller'[c].handle = none /\ caller'[c].attempt = 0
        /\ \A d \in Callers : d # c => caller'[d] = caller[d]
    BY <1>3, ReturnFacts DEF SendFrame, SerialTypeOK
  <2>2. none <= opened /\ 0 < TxAttempts
    BY SerialConstants DEF SerialTypeOK, none
  <2> QED BY <1>1, <2>1, <2>2, CallerMoves DEF SendFrame
<1> QED BY <1>2, <1>3

LEMMA WriteInv ==
  ASSUME SerialInv, NEW c \in Callers, Write(c)  PROVE SerialInv'
<1> USE DEF SerialInv
<1>1. CASE Return(c)
  <2>1. /\ caller' \in [Callers -> CallerState]
        /\ caller'[c].at = "idle" /\ caller'[c].handle = none /\ caller'[c].attempt = 0
        /\ \A d \in Callers : d # c => caller'[d] = caller[d]
    BY <1>1, ReturnFacts DEF SerialTypeOK
  <2>2. none <= opened /\ 0 < TxAttempts
    BY SerialConstants DEF SerialTypeOK, none
  <2> QED BY <2>1, <2>2, CallerMoves DEF Write
<1>2. CASE Goto(c, "writeFailed", caller[c].handle)
  <2>1. caller[c].handle \in Handle \cup {none} /\ caller[c].handle <= opened
    BY DEF SerialTypeOK, CallerState, Made
  <2>2. /\ caller' \in [Callers -> CallerState]
        /\ caller'[c].at = "writeFailed" /\ caller'[c].handle = caller[c].handle
        /\ \A d \in Callers : d # c => caller'[d] = caller[d]
    BY <1>2, <2>1, GotoFacts DEF SerialTypeOK
  <2> QED BY <2>1, <2>2, CallerMoves DEF Write
<1> QED BY <1>1, <1>2 DEF Write

LEMMA WriteFailureInv ==
  ASSUME SerialInv, NEW c \in Callers, WriteFailure(c)  PROVE SerialInv'
<1> USE DEF SerialInv
<1>1. CASE MayResend(c) /\ Goto(c, "send", none) /\ KeepPort
  <2>1. /\ caller' \in [Callers -> CallerState]
        /\ caller'[c].at = "send" /\ caller'[c].handle = none
        /\ caller'[c].attempt = caller[c].attempt
        /\ \A d \in Callers : d # c => caller'[d] = caller[d]
    BY <1>1, GotoFacts DEF SerialTypeOK
  <2>2. none <= opened /\ caller[c].attempt < TxAttempts
    BY <1>1, SerialConstants DEF SerialTypeOK, none, MayResend
  <2> QED BY <1>1, <2>1, <2>2, CallerMoves DEF WriteFailure, KeepPort
<1>2. CASE Detach /\ Goto(c, "close", serial)
  <2>1. /\ caller[c].at = "writeFailed" /\ serial' = none /\ running' = FALSE
        /\ UNCHANGED <<opened, isOpen, reader, clears, rxBuffer, rxFrames>>
    BY <1>2 DEF WriteFailure, Detach, rxVars
  <2>2. /\ caller' \in [Callers -> CallerState]
        /\ caller'[c].at = "close" /\ caller'[c].handle = serial
        /\ \A d \in Callers : d # c => caller'[d] = caller[d]
    BY <1>2, GotoFacts DEF SerialTypeOK
  <2>3. SerialTypeOK'
    BY <2>1, <2>2 DEF SerialTypeOK
  <2>4. Made'
    BY <2>1, <2>2, SerialConstants DEF Made, SerialTypeOK, none
  <2>5. InstallOwned'
    BY <2>1, <2>2 DEF InstallOwned, Holds
  <2>6. CloseTaken' /\ StartReal' /\ AttemptLeft'
    BY <2>1, <2>2 DEF CloseTaken, StartReal, AttemptLeft
  <2>7. NoDeafPort' /\ CurrentIsOpen'
    BY <2>1 DEF NoDeafPort, CurrentIsOpen
  <2> QED BY <2>3, <2>4, <2>5, <2>6, <2>7
<1>3. CASE Return(c) /\ KeepPort
  <2>1. /\ caller' \in [Callers -> CallerState]
        /\ caller'[c].at = "idle" /\ caller'[c].handle = none /\ caller'[c].attempt = 0
        /\ \A d \in Callers : d # c => caller'[d] = caller[d]
    BY <1>3, ReturnFacts DEF SerialTypeOK
  <2>2. none <= opened /\ 0 < TxAttempts
    BY SerialConstants DEF SerialTypeOK, none
  <2> QED BY <1>3, <2>1, <2>2, CallerMoves DEF WriteFailure, KeepPort
<1> QED BY <1>1, <1>2, <1>3 DEF WriteFailure

-----------------------------------------------------------------------------
(* The steps of a reader thread. *)

LEMMA ReaderLoopInv ==
  ASSUME SerialInv, NEW r \in Handle, ReaderLoop(r)  PROVE SerialInv'
<1> USE DEF SerialInv
<1>1. /\ UNCHANGED <<serial, running, opened, isOpen, caller, clears, rxBuffer, rxFrames>>
      /\ reader[r].at = "loop" /\ reader[r] \in ReaderState
  BY DEF ReaderLoop, rxVars, SerialTypeOK
<1>2. CASE running
  <2> DEFINE w == [reader[r] EXCEPT !.at = "reading", !.handle = serial]
  <2>1. w \in ReaderState /\ w.at = "reading" /\ w.handle = serial
    BY <1>1 DEF ReaderState, SerialTypeOK
  <2>2. reader' = [reader EXCEPT ![r] = w]
    BY <1>2 DEF ReaderLoop, KeepsRunning
  <2> HIDE DEF w
  <2>3. /\ reader' \in [Handle -> ReaderState] /\ reader'[r] = w
        /\ \A q \in Handle : q # r => reader'[q] = reader[q]
    BY <2>1, <2>2 DEF SerialTypeOK
  <2>4. rxBuffer' \subseteq 0 .. MaxClears /\ rxFrames' \subseteq 0 .. MaxClears
    BY <1>1 DEF SerialTypeOK
  <2> QED BY <1>1, <2>1, <2>3, <2>4, ReaderMoves DEF Made
<1>3. CASE ~running
  <2>1. /\ reader' \in [Handle -> ReaderState]
        /\ reader'[r].at = "dead" /\ reader'[r].handle = reader[r].handle
        /\ \A q \in Handle : q # r => reader'[q] = reader[q]
    BY <1>1, <1>3 DEF ReaderLoop, KeepsRunning, SerialTypeOK, ReaderState
  <2>2. serial = none
    BY <1>3 DEF NoDeafPort
  <2>3. SerialTypeOK'
    BY <1>1, <2>1 DEF SerialTypeOK
  <2>4. Made'
    BY <1>1, <2>1 DEF Made
  <2>5. InstallOwned'
    BY <1>1, <2>1 DEF InstallOwned, Holds
  <2>6. CloseTaken' /\ StartReal' /\ AttemptLeft'
    BY <1>1, <2>1 DEF CloseTaken, StartReal, AttemptLeft
  <2>7. NoDeafPort' /\ CurrentIsOpen'
    BY <1>1, <2>2 DEF NoDeafPort, CurrentIsOpen
  <2> QED BY <2>3, <2>4, <2>5, <2>6, <2>7
<1> QED BY <1>2, <1>3

LEMMA ReadInv ==
  ASSUME SerialInv, NEW r \in Handle, Read(r)  PROVE SerialInv'
<1> USE DEF SerialInv
<1>1. /\ UNCHANGED <<serial, running, opened, isOpen, caller, clears, rxBuffer, rxFrames>>
      /\ reader[r] \in ReaderState /\ clears \in 0 .. MaxClears
  BY DEF Read, rxVars, SerialTypeOK
<1> DEFINE got == [reader[r] EXCEPT !.at = "received", !.clears = clears]
           again == [reader[r] EXCEPT !.at = "loop"]
           bad == [reader[r] EXCEPT !.at = "failed"]
<1>2. \A w \in {got, again, bad} :
        /\ w \in ReaderState /\ w.at \in {"received", "loop", "failed"}
        /\ w.handle = reader[r].handle
  BY <1>1 DEF ReaderState
<1>3. PICK w \in {got, again, bad} : reader' = [reader EXCEPT ![r] = w]
  BY DEF Read
<1> HIDE DEF got, again, bad
<1>4. /\ reader' \in [Handle -> ReaderState] /\ reader'[r] = w
      /\ \A q \in Handle : q # r => reader'[q] = reader[q]
  BY <1>2, <1>3 DEF SerialTypeOK
<1>5. rxBuffer' \subseteq 0 .. MaxClears /\ rxFrames' \subseteq 0 .. MaxClears
  BY <1>1 DEF SerialTypeOK
<1>6. reader'[r].handle <= opened /\ reader'[r].at \in {"received", "loop", "failed"}
  BY <1>2, <1>3, <1>4 DEF Made
<1> QED BY <1>1, <1>4, <1>5, <1>6, ReaderMoves

LEMMA ReceivedInv ==
  ASSUME SerialInv, NEW r \in Handle, Received(r)  PROVE SerialInv'
<1> USE DEF SerialInv
<1>1. reader[r] \in ReaderState /\ reader[r].clears \in 0 .. MaxClears
  BY DEF SerialTypeOK, ReaderState
<1>2. PICK next \in {"loop", "crashed"} : reader' = [reader EXCEPT ![r].at = next]
  BY DEF Received
<1>3. /\ reader' \in [Handle -> ReaderState]
      /\ reader'[r].at = next /\ reader'[r].handle = reader[r].handle
      /\ \A q \in Handle : q # r => reader'[q] = reader[q]
  BY <1>1, <1>2 DEF SerialTypeOK, ReaderState
<1>4. rxBuffer' \subseteq 0 .. MaxClears /\ rxFrames' \subseteq 0 .. MaxClears
  BY <1>1 DEF Received, SerialTypeOK
<1>5. reader'[r].handle <= opened /\ reader'[r].at \in {"loop", "crashed"}
  BY <1>3 DEF Made
<1> QED BY <1>3, <1>4, <1>5, ReaderMoves DEF Received

(* A step that leaves no current handle keeps the invariant if it leaves the *)
(* callers alone and the reader takes the handle that was current, if any.   *)
LEMMA ReaderDetaches ==
  ASSUME SerialInv, NEW r \in Handle, Detach,
         UNCHANGED <<opened, isOpen, caller, clears, rxBuffer, rxFrames>>,
         reader' \in [Handle -> ReaderState],
         \A q \in Handle : q # r => reader'[q] = reader[q],
         \/ reader'[r].at = "dead" /\ reader'[r].handle = reader[r].handle
         \/ reader'[r].at = "close" /\ reader'[r].handle = serial
  PROVE  SerialInv'
<1> USE DEF SerialInv
<1>1. serial' = none /\ running' = FALSE
  BY DEF Detach
<1>2. SerialTypeOK'
  BY <1>1 DEF SerialTypeOK
<1>3. Made'
  BY <1>1, SerialConstants DEF Made, SerialTypeOK, none
<1>4. InstallOwned'
  BY <1>1 DEF InstallOwned, Holds
<1>5. CloseTaken' /\ StartReal' /\ AttemptLeft'
  BY <1>1 DEF CloseTaken, StartReal, AttemptLeft
<1>6. NoDeafPort' /\ CurrentIsOpen'
  BY <1>1 DEF NoDeafPort, CurrentIsOpen
<1> QED BY <1>2, <1>3, <1>4, <1>5, <1>6

LEMMA ReaderCrashInv ==
  ASSUME SerialInv, NEW r \in Handle, ReaderCrash(r)  PROVE SerialInv'
<1>1. /\ reader' \in [Handle -> ReaderState]
      /\ reader'[r].at = "dead" /\ reader'[r].handle = reader[r].handle
      /\ \A q \in Handle : q # r => reader'[q] = reader[q]
  BY DEF ReaderCrash, SerialInv, SerialTypeOK, ReaderState
<1> QED BY <1>1, ReaderDetaches DEF ReaderCrash, rxVars

LEMMA ReadFailureInv ==
  ASSUME SerialInv, NEW r \in Handle, ReadFailure(r)  PROVE SerialInv'
<1>1. /\ reader' \in [Handle -> ReaderState]
      /\ reader'[r].at = "close" /\ reader'[r].handle = serial
      /\ \A q \in Handle : q # r => reader'[q] = reader[q]
  BY DEF ReadFailure, SerialInv, SerialTypeOK, ReaderState
<1> QED BY <1>1, ReaderDetaches DEF ReadFailure, rxVars

LEMMA ReaderCloseInv ==
  ASSUME SerialInv, NEW r \in Handle, ReaderClose(r)  PROVE SerialInv'
<1> USE DEF SerialInv
<1>1. /\ reader[r].at = "close" /\ isOpen' = isOpen \ {reader[r].handle}
      /\ UNCHANGED <<serial, running, opened, caller, clears, rxBuffer, rxFrames>>
  BY DEF ReaderClose, rxVars
<1>2. /\ reader' \in [Handle -> ReaderState]
      /\ reader'[r].at = "dead" /\ reader'[r].handle = reader[r].handle
      /\ \A q \in Handle : q # r => reader'[q] = reader[q]
  BY DEF ReaderClose, SerialTypeOK, ReaderState
<1>3. SerialTypeOK'
  BY <1>1, <1>2 DEF SerialTypeOK
<1>4. Made'
  BY <1>1, <1>2 DEF Made
<1>5. InstallOwned'
  BY <1>1, <1>2 DEF InstallOwned, Holds
<1>6. CloseTaken' /\ StartReal' /\ AttemptLeft'
  BY <1>1, <1>2 DEF CloseTaken, StartReal, AttemptLeft
<1>7. CurrentIsOpen'
  BY <1>1 DEF CurrentIsOpen, CloseTaken
<1>8. NoDeafPort'
  <2>1. serial # none => serial \in Handle /\ (Alive(serial) => Alive(serial)')
    BY <1>1, <1>2 DEF SerialTypeOK, Alive
  <2> QED BY <1>1, <2>1 DEF NoDeafPort, Alive
<1> QED BY <1>3, <1>4, <1>5, <1>6, <1>7, <1>8

-----------------------------------------------------------------------------
(* Steps that touch only the received data. *)

LEMMA BufferInv ==
  ASSUME SerialInv, ClearBuffers \/ PopReceivedFrames \/ UNCHANGED serialVars
  PROVE  SerialInv'
<1> USE DEF SerialInv
<1>1. UNCHANGED <<serial, running, opened, isOpen, caller, reader>>
  BY DEF ClearBuffers, PopReceivedFrames, serialVars
<1>2. clears' \in 0 .. MaxClears
  BY SerialConstants DEF ClearBuffers, PopReceivedFrames, serialVars, SerialTypeOK
<1>3. rxBuffer' \subseteq 0 .. MaxClears /\ rxFrames' \subseteq 0 .. MaxClears
  BY DEF ClearBuffers, PopReceivedFrames, serialVars, SerialTypeOK
<1>4. SerialTypeOK'
  BY <1>1, <1>2, <1>3 DEF SerialTypeOK
<1>5. Made' /\ InstallOwned' /\ CloseTaken' /\ StartReal' /\ AttemptLeft'
  BY <1>1 DEF Made, InstallOwned, Holds, CloseTaken, StartReal, AttemptLeft
<1>6. NoDeafPort' /\ CurrentIsOpen'
  BY <1>1 DEF NoDeafPort, CurrentIsOpen, Alive
<1> QED BY <1>4, <1>5, <1>6

-----------------------------------------------------------------------------
(* The ownership invariant holds in every reachable state. *)
THEOREM OwnershipInvariant == SerialSpec => []SerialInv
<1>1. SerialInv /\ [SerialNext]_serialVars => SerialInv'
  <2> SUFFICES ASSUME SerialInv, [SerialNext]_serialVars PROVE SerialInv'
    OBVIOUS
  <2>1. ASSUME NEW c \in Callers, CallerStep(c) PROVE SerialInv'
    BY <2>1, OpenPortInv, OpenHandleInv, OpenFailureInv, InstallInv, StartReaderInv,
       ClosePortInv, CloseHandleInv, SendFrameInv, WriteInv, WriteFailureInv DEF CallerStep
  <2>2. ASSUME NEW r \in Handle, ReaderStep(r) PROVE SerialInv'
    BY <2>2, ReaderLoopInv, ReadInv, ReceivedInv, ReaderCrashInv, ReadFailureInv,
       ReaderCloseInv DEF ReaderStep
  <2> QED BY <2>1, <2>2, BufferInv DEF SerialNext
<1> QED BY InitInv, <1>1, PTL DEF SerialSpec

(* The manager's attributes and the threads always have their types; in      *)
(* particular no frame is written more often than send_frame's limit.        *)
THEOREM SerialTypeCorrect == SerialSpec => []SerialTypeOK
<1>1. SerialInv => SerialTypeOK
  BY DEF SerialInv
<1> QED BY OwnershipInvariant, <1>1, PTL

(* However opens, closes, failing writes and dying readers overlap, an open  *)
(* port has its reader thread (open_port, _reader_loop).                     *)
THEOREM NeverDeaf == SerialSpec => []NoDeafPort
<1>1. SerialInv => NoDeafPort
  BY DEF SerialInv
<1> QED BY OwnershipInvariant, <1>1, PTL

(* close_port, send_frame and _reader_loop close only handles that are no    *)
(* longer current.                                                           *)
THEOREM CurrentStaysOpen == SerialSpec => []CurrentIsOpen
<1>1. SerialInv => CurrentIsOpen
  BY DEF SerialInv
<1> QED BY OwnershipInvariant, <1>1, PTL

=============================================================================
