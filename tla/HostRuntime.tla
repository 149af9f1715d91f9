---------------------------- MODULE HostRuntime ----------------------------
(***************************************************************************)
(* The simulator's transport runtime (LinkRuntime): the PC host's view of  *)
(* the bridge.  FastAPI runs the API calls in a thread pool; one Lock      *)
(* serialises them, so what a call does under the Lock is one step here.   *)
(* A call that works outside the Lock too takes several steps.  The port   *)
(* may be lost at any write (the parameter ok): the serial reader thread   *)
(* and the data payload thread do not take the Lock for what they change.  *)
(*                                                                         *)
(* The attributes are the fields of the record h, and a method that        *)
(* updates them is an operator from records to records.  h.out is what the *)
(* step wrote to the serial port, h.port the port's state as the serial    *)
(* manager reports it, h.brew the brew flag of the data payload manager.   *)
(* Left out: counters, log lines, timestamps, and the attributes that only *)
(* the display reads.                                                      *)
(***************************************************************************)
EXTENDS Naturals, Sequences

CONSTANTS
  Live,          \* the values of a live integer in a frame
  BridgeFrames,  \* the frames the bridge may send
  MaxRx,         \* bound: frames buffered between two polls
  OpenAttempts   \* SERIAL_OPEN_RETRY_LIMIT

ASSUME HostConstants ==
  /\ Live \subseteq Nat /\ 0 \in Live
  /\ MaxRx \in Nat \ {0}
  /\ OpenAttempts \in Nat \ {0}

VARIABLES
  h,      \* the runtime's attributes
  rx,     \* frames decoded by the reader thread, not yet popped
  opener, \* open_transport, which holds the Lock only now and then
  closer, \* close_transport or force_release_transport before its Lock
  dl,     \* the downlink thread
  owed    \* history: a brew ran since the last shot_done_success

hostVars == <<h, rx, opener, closer, dl, owed>>

-----------------------------------------------------------------------------
(* Types. *)

Keepalive == {"SERVER_SEND", "CLIENT_RETURN"}
LinkState == {"RESET", "INITIALIZE", "CONNECT", "DISCONNECT", "ERROR"} \cup Keepalive

Frame == [type : {"ACK", "ERROR", "KEEPALIVE", "DATA"},
          tag : {"ka_req", "ka_resp", "keepalive_retry_exhausted",
                 "halted_tcp_client_closed", "tcp_connected", "client_connected",
                 "connect_ack", "connect_success",
                 "disconnect_ack", "reset_ack", "initialize_ack",
                 "start_brew", "stop_brew", "simulation_on", "command", "other"},
          server : Live, client : Live]

ASSUME BridgeFramesAssumption == BridgeFrames \subseteq Frame

Command == {"RESET", "INITIALIZE", "text", "wifi_enable", "wifi_disable",
            "telemetry_reset", "shot_done", "downlink"}

Runtime ==
  [state : LinkState, fault : BOOLEAN, armed : BOOLEAN,
   pending : {"none", "INITIALIZE", "CONNECT"},
   cfg : BOOLEAN, wifiEnabled : BOOLEAN, wifiReady : BOOLEAN, wifiConn : BOOLEAN,
   tcpConn : BOOLEAN, initDone : BOOLEAN, connDone : BOOLEAN,
   brewSeen : BOOLEAN, shot : BOOLEAN,
   port : BOOLEAN, brew : BOOLEAN, out : Seq(Command)]

(* The calls that first consume the received frames. *)
PollingCall == {"get_snapshot", "initialize", "send_keepalive", "send_data"}

Opener == [pc : {"idle", "opening", "failed", "opened", "ready"}, attempt : 0 .. OpenAttempts]

(* "framed": between building a packet under the Lock and writing it;       *)
(* "leaving": the same, but told to stop (the stopping call waits for the   *)
(* thread for a second only, less than a serial write may take).            *)
Downlink == {"stopped", "idle", "framed", "leaving"}

-----------------------------------------------------------------------------
(* Methods of the runtime, as operators on its attributes. *)

(* A write on a closed port raises; a failed write detaches the port.       *)
Send(s, cmd, ok) ==
  IF s.port /\ ok THEN [s EXCEPT !.out = Append(@, cmd)] ELSE [s EXCEPT !.port = FALSE]

ClearRuntimeFlow(s) ==
  [s EXCEPT !.armed = FALSE, !.initDone = FALSE, !.connDone = FALSE, !.pending = "none",
            !.brewSeen = FALSE, !.shot = FALSE]

(* Mutant of SetRuntimeFault: the flow is not cleared. *)
FaultKeepsFlow(s) ==
  [s EXCEPT !.tcpConn = FALSE, !.wifiConn = FALSE, !.fault = TRUE, !.state = "ERROR"]

SetRuntimeFault(s) ==
  [ClearRuntimeFlow(s) EXCEPT !.tcpConn = FALSE, !.wifiConn = FALSE, !.fault = TRUE,
                              !.state = "ERROR"]

(* _try_send_command_locked *)
TrySend(s, cmd, ok) ==
  IF s.port /\ ok THEN Send(s, cmd, ok) ELSE SetRuntimeFault(Send(s, cmd, ok))

BeginInitialize(s, ok) ==
  IF ~s.cfg \/ ~s.wifiEnabled \/ ~s.port THEN SetRuntimeFault(s)
  ELSE LET i == TrySend([s EXCEPT !.wifiReady = TRUE, !.wifiConn = FALSE, !.tcpConn = FALSE,
                                  !.state = "INITIALIZE"],
                        "INITIALIZE", ok)
       IN IF ok THEN [i EXCEPT !.pending = "CONNECT"] ELSE i

BeginConnect(s) ==
  IF ~s.wifiReady THEN SetRuntimeFault(s)
  ELSE [s EXCEPT !.pending = "none", !.initDone = TRUE, !.wifiConn = FALSE,
                 !.tcpConn = FALSE, !.state = "CONNECT"]

AdvanceAutomaticFlow(s, ok) ==
  IF s.state = "RESET" /\ s.pending = "INITIALIZE" THEN BeginInitialize(s, ok)
  ELSE IF s.state = "INITIALIZE" /\ s.pending = "CONNECT" THEN BeginConnect(s)
  ELSE s

(* The states in which an open port is expected. *)
Active == {"INITIALIZE", "CONNECT"} \cup Keepalive

PortAssumedAlive(s) == s  \* mutant: a lost port is not noticed
CheckPortAlive(s) == IF s.state \in Active /\ ~s.port THEN SetRuntimeFault(s) ELSE s

(* The pending shot_done_success is sent, or skipped without a session. *)
ShotLeftPending(s, ok) == Send(s, "shot_done", ok)  \* mutant
ForwardShotDone(s, ok) ==
  IF s.port /\ s.tcpConn /\ s.state \in Keepalive
  THEN [Send(s, "shot_done", ok) EXCEPT !.shot = ~ok]
  ELSE [s EXCEPT !.shot = FALSE]

(* _snapshot_locked, which also notices the end of a brew and forwards it   *)
(* to the client once its delay is over.                                    *)
Snapshot(s, due, ok) ==
  LET ended == s.brewSeen /\ ~s.brew
      shot  == ~s.brew /\ (ended \/ s.shot)
      seen  == [s EXCEPT !.shot = shot, !.brewSeen = s.brew]
  IN IF shot /\ ~ended /\ due THEN ForwardShotDone(seen, ok) ELSE seen

-----------------------------------------------------------------------------
(* _poll_received_frames_locked, for one frame. *)

EvenOdd(f) == f.server % 2 = 0 /\ f.client % 2 = 1

(* A keepalive exchange seen on USB proves every earlier stage. *)
KeepaliveSeen(s) ==
  [s EXCEPT !.armed = TRUE, !.wifiConn = TRUE, !.tcpConn = TRUE,
            !.initDone = TRUE, !.connDone = TRUE, !.fault = FALSE]

OnKeepaliveFrame(s, f) ==
  IF ~EvenOdd(f) \/ f.client + 1 # f.server THEN s
  ELSE CASE f.tag = "ka_req" ->
              [KeepaliveSeen(s) EXCEPT !.pending = "none", !.state = "CLIENT_RETURN"]
         [] f.tag = "ka_resp" -> [KeepaliveSeen(s) EXCEPT !.state = "SERVER_SEND"]
         [] OTHER -> s

(* Mutant of OnErrorFrame: a closed client leaves the state as it is. *)
OnErrorFrameStays(s, f) ==
  IF f.tag = "halted_tcp_client_closed"
  THEN [s EXCEPT !.armed = FALSE, !.tcpConn = FALSE, !.connDone = FALSE, !.shot = FALSE] ELSE s

OnErrorFrame(s, f) ==
  CASE f.tag = "keepalive_retry_exhausted" ->
         [s EXCEPT !.armed = FALSE, !.wifiConn = FALSE, !.tcpConn = FALSE,
                   !.state = "INITIALIZE"]
    [] f.tag = "halted_tcp_client_closed" ->
         [s EXCEPT !.armed = FALSE, !.tcpConn = FALSE, !.connDone = FALSE,
                   !.shot = FALSE, !.state = "CONNECT"]
    [] OTHER -> s

(* _handle_client_data_command_locked: a failed echo is only logged. *)
OnDataFrame(s, f, ok) ==
  CASE f.tag = "start_brew" -> Send([s EXCEPT !.brew = TRUE], "text", ok)
    [] f.tag = "stop_brew" -> Send([s EXCEPT !.brew = FALSE], "text", ok)
    [] f.tag = "simulation_on" -> [s EXCEPT !.brew = FALSE]
    [] f.tag = "command" -> Send(s, "text", ok)
    [] OTHER -> s

OnAckFrame(s, f) ==
  CASE f.tag = "tcp_connected" ->
         [s EXCEPT !.wifiConn = TRUE, !.tcpConn = TRUE, !.state = "CONNECT"]
    [] f.tag = "client_connected" ->
         [s EXCEPT !.pending = "none", !.connDone = TRUE, !.armed = FALSE, !.wifiConn = TRUE,
                   !.tcpConn = TRUE, !.state = "CONNECT"]
    [] f.tag = "connect_ack" ->
         [s EXCEPT !.wifiConn = TRUE, !.tcpConn = FALSE, !.state = "CONNECT"]
    [] f.tag = "connect_success" /\ s.state = "CONNECT" ->
         [s EXCEPT !.pending = "none", !.connDone = TRUE, !.armed = FALSE, !.wifiConn = TRUE,
                   !.tcpConn = TRUE]
    [] f.tag = "disconnect_ack" ->
         [s EXCEPT !.tcpConn = FALSE, !.armed = FALSE, !.state = "DISCONNECT"]
    [] f.tag = "reset_ack" ->
         [ClearRuntimeFlow(s) EXCEPT !.wifiReady = FALSE, !.wifiConn = FALSE,
                                     !.tcpConn = FALSE, !.state = "RESET"]
    [] f.tag = "initialize_ack" ->
         [s EXCEPT !.wifiReady = TRUE, !.wifiConn = FALSE, !.tcpConn = FALSE,
                   !.initDone = TRUE, !.state = "INITIALIZE"]
    [] OTHER -> s

OnFrame(s, f, ok) ==
  CASE f.type = "ERROR" -> OnErrorFrame(s, f)
    [] f.type = "KEEPALIVE" -> OnKeepaliveFrame(s, f)
    [] f.type = "DATA" -> OnDataFrame(s, f, ok)
    [] f.type = "ACK" -> OnAckFrame(s, f)

-----------------------------------------------------------------------------
(* The commands. *)

DoReset(s, ok) ==
  LET r == TrySend([ClearRuntimeFlow(s) EXCEPT
                      !.wifiReady = FALSE, !.wifiConn = FALSE,
                      !.tcpConn = FALSE, !.fault = FALSE,
                      !.state = "RESET"], "RESET", ok)
  IN IF s.port /\ ok THEN [r EXCEPT !.pending = "INITIALIZE"] ELSE r

DoInitialize(s, ok) ==
  IF s.state = "ERROR" THEN s ELSE BeginInitialize(ClearRuntimeFlow(s), ok)

DoSendData(s, ok) ==
  IF s.state \in Keepalive
  THEN TrySend([s EXCEPT !.initDone = TRUE, !.connDone = TRUE], "text", ok)
  ELSE s

(* The brew was ended before; one started since then survives.              *)
DoClose(s) ==
  [ClearRuntimeFlow(s) EXCEPT !.port = FALSE, !.wifiReady = FALSE, !.wifiConn = FALSE,
                              !.tcpConn = FALSE, !.state = "RESET"]

(* Mutant of DoToggleWifi: an armed stage is kept. *)
ToggleKeepsStage(s, ok) ==
  [s EXCEPT !.wifiEnabled = ~@, !.wifiReady = FALSE, !.state = "RESET"]

DoToggleWifi(s, ok) ==
  LET on == ~s.wifiEnabled
      t  == IF s.port THEN Send(s, IF on THEN "wifi_enable" ELSE "wifi_disable", ok) ELSE s
  IN [ClearRuntimeFlow(t) EXCEPT !.wifiEnabled = on, !.wifiReady = FALSE, !.wifiConn = FALSE,
                                 !.tcpConn = FALSE, !.fault = FALSE,
                                 !.state = "RESET"]

(* A command forwarded only when the port is open; a failure is logged. *)
Forward(s, cmd, ok) == IF s.port THEN Send(s, cmd, ok) ELSE s

-----------------------------------------------------------------------------
(* Actions. *)

HostInit ==
  /\ h = [state |-> "RESET", fault |-> FALSE, armed |-> FALSE, pending |-> "none",
          cfg |-> TRUE, wifiEnabled |-> TRUE, wifiReady |-> FALSE, wifiConn |-> FALSE,
          tcpConn |-> FALSE, initDone |-> FALSE, connDone |-> FALSE,
          brewSeen |-> FALSE, shot |-> FALSE, port |-> FALSE, brew |-> FALSE, out |-> <<>>]
  /\ rx = <<>>
  /\ opener = [pc |-> "idle", attempt |-> 0]
  /\ closer = "idle" /\ dl = "stopped" /\ owed = FALSE

FreshOut(s) == [s EXCEPT !.out = <<>>]

Wrote(s, cmd) == \E i \in DOMAIN s.out : s.out[i] = cmd

Become(s) ==
  /\ h' = s
  /\ owed' = (s.brew \/ (owed /\ ~Wrote(s, "shot_done")))

(* A call that holds the Lock and returns a snapshot of what it did. *)
Locked(s) ==
  \E t \in {Snapshot(s, due, ok) : due, ok \in BOOLEAN} : Become(t)

(* All received frames, in order; the port is lost after the k-th.          *)
HandleAll(s, frames, k) ==
  LET after[i \in 0 .. Len(frames)] ==
        IF i = 0 THEN s ELSE OnFrame(after[i - 1], frames[i], i <= k)
  IN after[Len(frames)]

(* What the call does once the frames are consumed. *)
Body(call, s, ok) ==
  CASE call = "get_snapshot" -> AdvanceAutomaticFlow(CheckPortAlive(s), ok)
    [] call = "initialize" -> DoInitialize(s, ok)
    [] call = "send_data" -> DoSendData(s, ok)
    [] call = "send_keepalive" -> s

Poll(call, ok) ==
  /\ \E s \in {HandleAll(FreshOut(h), rx, k) : k \in 0 .. Len(rx)} : Locked(Body(call, s, ok))
  /\ rx' = <<>>
  /\ UNCHANGED <<opener, closer, dl>>

Reset(ok) ==
  /\ Locked(DoReset(FreshOut(h), ok))
  /\ rx' = <<>>
  /\ UNCHANGED <<opener, closer, dl>>

ToggleWifiEnabled(ok) ==
  Locked(DoToggleWifi(FreshOut(h), ok)) /\ UNCHANGED <<rx, opener, closer, dl>>

ConfigureTransport(valid) ==
  Locked([FreshOut(h) EXCEPT !.cfg = valid]) /\ UNCHANGED <<rx, opener, closer, dl>>

(* configure_data_simulation and configure_lcd_home_data: turning the       *)
(* simulation on ends a brew, before the Lock is taken; what is forwarded   *)
(* follows under the Lock.  Any number of API threads may be between the    *)
(* two, and the second may come without the first (the simulation is on     *)
(* already, or is turned off).                                              *)
TurnSimulationOn ==
  /\ Become([FreshOut(h) EXCEPT !.brew = FALSE])
  /\ UNCHANGED <<rx, opener, closer, dl>>

ForwardSimulation(ok) ==
  Locked(Forward(FreshOut(h), "text", ok)) /\ UNCHANGED <<rx, opener, closer, dl>>

(* reset_total_errors and reset_transport_max_delay. *)
ResetTelemetry(ok) ==
  Locked(Forward(FreshOut(h), "telemetry_reset", ok)) /\ UNCHANGED <<rx, opener, closer, dl>>

(* The fail-safe of the API routes. *)
CaptureInternalFailure ==
  Locked(SetRuntimeFault(FreshOut(h))) /\ UNCHANGED <<rx, opener, closer, dl>>

(* close_transport and force_release_transport stop the data payload thread *)
(* before they take the Lock.                                               *)
StopPayload(call) ==
  /\ closer = "idle" /\ closer' = call
  /\ Become([FreshOut(h) EXCEPT !.brew = FALSE])
  /\ dl' = IF dl \in {"framed", "leaving"} THEN "leaving" ELSE "stopped"
  /\ UNCHANGED <<rx, opener>>

CloseTransport ==
  /\ closer = "close" /\ closer' = "idle"
  /\ Locked(DoClose(FreshOut(h)))
  /\ UNCHANGED <<rx, opener, dl>>

ForceReleaseTransport ==
  /\ closer = "release" /\ closer' = "idle"
  /\ Locked([DoClose(FreshOut(h)) EXCEPT !.fault = FALSE])
  /\ UNCHANGED <<rx, opener, dl>>

(* open_transport: the port is opened, with retries, outside the Lock. *)
OpenTransport ==
  /\ opener.pc = "idle"
  /\ Locked(FreshOut(h))
  /\ opener' = IF h.port THEN opener ELSE [pc |-> "opening", attempt |-> 1]
  /\ UNCHANGED <<rx, closer, dl>>

MayRetryAlways(o) == TRUE  \* mutant
MayRetry(o) == o.attempt < OpenAttempts

(* A transient failure is retried, possibly after a forced release. *)
OpenAttempt ==
  /\ opener.pc = "opening"
  /\ \/ /\ Become([FreshOut(h) EXCEPT !.port = TRUE])
        /\ opener' = [opener EXCEPT !.pc = "opened"]
     \/ /\ MayRetry(opener)
        /\ Become([FreshOut(h) EXCEPT !.port = FALSE])
        /\ opener' = [opener EXCEPT !.attempt = @ + 1]
     \/ /\ Become([FreshOut(h) EXCEPT !.port = FALSE])
        /\ opener' = [opener EXCEPT !.pc = "failed"]
  /\ UNCHANGED <<rx, closer, dl>>

OpenFailed ==
  /\ opener.pc = "failed"
  /\ Locked(SetRuntimeFault(FreshOut(h)))
  /\ opener' = [pc |-> "idle", attempt |-> 0]
  /\ UNCHANGED <<rx, closer, dl>>

(* The buffers are cleared and the data payload manager is restarted; a     *)
(* thread still in its write misses the stop request, which start clears.   *)
OpenPrepare ==
  /\ opener.pc = "opened"
  /\ Become([FreshOut(h) EXCEPT !.brew = FALSE])
  /\ opener' = [opener EXCEPT !.pc = "ready"]
  /\ rx' = <<>>
  /\ dl' = IF dl \in {"framed", "leaving"} THEN "framed" ELSE "idle"
  /\ UNCHANGED closer

OpenReset(ok) ==
  /\ opener.pc = "ready"
  /\ Locked(DoReset(FreshOut(h), ok))
  /\ opener' = [pc |-> "idle", attempt |-> 0]
  /\ rx' = <<>>
  /\ UNCHANGED <<closer, dl>>

(* send_downlink_data_packet: the state is checked and the frame built      *)
(* under the Lock, the write happens after its release.  Whether a packet   *)
(* is due (a brew or the simulation is on) is left open.                    *)
DownlinkFrame ==
  /\ dl = "idle" /\ h.state \in Keepalive
  /\ Become(FreshOut(h)) /\ dl' = "framed"
  /\ UNCHANGED <<rx, opener, closer>>

DownlinkWrite(ok) ==
  /\ dl \in {"framed", "leaving"}
  /\ Become(Send(FreshOut(h), "downlink", ok))
  /\ dl' = IF dl = "leaving" THEN "stopped" ELSE "idle"
  /\ UNCHANGED <<rx, opener, closer>>

(* The brew time is over (data payload thread). *)
BrewComplete ==
  /\ h.brew /\ dl # "stopped"
  /\ Become([FreshOut(h) EXCEPT !.brew = FALSE])
  /\ UNCHANGED <<rx, opener, closer, dl>>

(* The reader thread: a decoded frame, or a read error that detaches the port. *)
ReceiveFrame(f) ==
  /\ h.port /\ Len(rx) < MaxRx
  /\ rx' = Append(rx, f)
  /\ Become(FreshOut(h))
  /\ UNCHANGED <<opener, closer, dl>>

LosePort ==
  /\ h.port
  /\ Become([FreshOut(h) EXCEPT !.port = FALSE])
  /\ UNCHANGED <<rx, opener, closer, dl>>

(* Everything but the arrival of a frame. *)
HostStep ==
  \/ \E ok \in BOOLEAN :
       \/ \E call \in PollingCall : Poll(call, ok)
       \/ Reset(ok) \/ ToggleWifiEnabled(ok) \/ OpenReset(ok) \/ DownlinkWrite(ok)
       \/ ForwardSimulation(ok) \/ ResetTelemetry(ok)
  \/ \E valid \in BOOLEAN : ConfigureTransport(valid)
  \/ \E call \in {"close", "release"} : StopPayload(call)
  \/ CloseTransport \/ ForceReleaseTransport \/ CaptureInternalFailure \/ TurnSimulationOn
  \/ OpenTransport \/ OpenAttempt \/ OpenFailed \/ OpenPrepare
  \/ DownlinkFrame \/ BrewComplete \/ LosePort

HostNext == HostStep \/ \E f \in BridgeFrames : ReceiveFrame(f)

HostSpec == HostInit /\ [][HostNext]_hostVars

-----------------------------------------------------------------------------
(* Properties. *)

(* The attributes keep their types. *)
HostTypeOK ==
  /\ h \in Runtime
  /\ rx \in Seq(Frame) /\ opener \in Opener /\ closer \in {"idle", "close", "release"}
  /\ dl \in Downlink /\ owed \in BOOLEAN

(* A keepalive state on the host means that every earlier stage is proven,  *)
(* whatever mix of frames, faults, toggles and reopenings came before: the  *)
(* watchdog is armed, both links are up and no fault is latched.            *)
Proven(s) ==
  s.state \in Keepalive =>
    /\ s.armed /\ s.wifiConn /\ s.tcpConn /\ s.initDone /\ s.connDone /\ ~s.fault

KeepaliveProven == Proven(h)

(* The fault "initialize did not complete before connect" of                *)
(* _begin_connect_locked is unreachable: an armed connect stage always      *)
(* finds the Wi-Fi stage ready.                                             *)
ConnectStageReady == h.pending = "CONNECT" => h.wifiReady

(* ERROR is never shown without its fault, nor with supervision still       *)
(* running or a stage still armed.                                          *)
ErrorIsInert ==
  h.state = "ERROR" => h.fault /\ ~h.armed /\ ~h.tcpConn /\ h.pending = "none"

(* transport_contract.md on the fault state: "No implicit recovery          *)
(* allowed".  It is left for RESET only, whatever frames were still under   *)
(* way when the fault was latched.                                          *)
FaultLatched == [][h.state = "ERROR" => h'.state \in {"ERROR", "RESET"}]_hostVars

(* transport_contract.md: "Reset completed and the runtime still owns a     *)
(* valid transport path" leads to initialize on its own: the stage that     *)
(* reset armed stays armed as long as the host is in RESET with its port    *)
(* and its Wi-Fi setting.                                                   *)
StageStaysArmed ==
  [][h.state = "RESET" /\ h.pending = "INITIALIZE"
     /\ h'.state = "RESET" /\ h'.port /\ h'.wifiEnabled = h.wifiEnabled
       => h'.pending = "INITIALIZE"]_hostVars

(* One brew yields at most one shot_done_success, sent in a keepalive state *)
(* and never while a brew runs.                                             *)
OneShotDonePerBrew ==
  [][Wrote(h', "shot_done") => owed /\ ~h'.brew /\ h'.state \in Keepalive]_hostVars

=============================================================================
