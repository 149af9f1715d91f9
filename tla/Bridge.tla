------------------------------- MODULE Bridge -------------------------------
(***************************************************************************)
(* The ESP32-C3 bridge firmware (CommunicationFunctions.c): one FreeRTOS   *)
(* task that owns the static link state, serves the USB host and one TCP   *)
(* client, and runs the keepalive exchange.                                *)
(*                                                                         *)
(* The C statics are the fields of the record b.  A C function that        *)
(* updates them is an operator from records to records, so that a handler  *)
(* is the composition of the calls it makes, in their order; an action     *)
(* is one pass through such a handler.  b.usb is what the step wrote to    *)
(* USB.  The TCP client is arbitrary: it may send any frame at any time.   *)
(*                                                                         *)
(* Time is abstracted: the keepalive period and the response window may    *)
(* elapse whenever they are running, so a timeout races every late answer. *)
(* A send to the client succeeds or fails (the parameter ok).              *)
(***************************************************************************)
EXTENDS Naturals, Sequences

CONSTANTS
  LiveMod,      \* the live integers are counted modulo LiveMod (2^32)
  IdMod,        \* session and request ids are counted modulo IdMod (2^32)
  RxMod,        \* the staged byte count is a size_t: modulo RxMod (2^32)
  RetryLimit,   \* BRIDGE_RUNNING_INTEGER_RETRY_LIMIT
  MaxStaged,    \* bound: complete frames one poll can stage
  MaxSid,       \* bound: sessions opened per boot
  MaxReq,       \* bound: request ids issued per session
  MaxAccepted,  \* bound: exchanges completed per boot
  FullReads,    \* whether a recv may fill the whole temporary buffer
  ClientFrames  \* the keepalive frames the client may send

ASSUME BridgeConstants ==
  /\ LiveMod \in Nat /\ LiveMod >= 4 /\ LiveMod % 2 = 0
  /\ IdMod \in Nat /\ IdMod >= 3
  /\ RetryLimit \in Nat \ {0}
  /\ MaxStaged \in Nat \ {0}
  /\ RxMod \in Nat /\ RxMod > MaxStaged + 1
  /\ MaxSid \in Nat /\ MaxSid < IdMod - 1
  /\ MaxReq \in Nat
  /\ MaxAccepted \in Nat
  /\ FullReads \in BOOLEAN

VARIABLES
  b,         \* the bridge's statics, plus the USB output of the last step
  issued,    \* history: the keepalive requests sent to a client this boot
  accepted   \* history: the responses the bridge accepted this boot, in order

vars == <<b, issued, accepted>>

-----------------------------------------------------------------------------
(* Types. *)

Live == 0 .. (LiveMod - 1)
Id == 0 .. (IdMod - 1)

Keepalive == {"SERVER_SEND", "CLIENT_RETURN"}

State == {"RESET", "INITIALIZE", "CONNECT", "DISCONNECT", "ERROR"} \cup Keepalive

MessageType == {"ACK", "ERROR", "KEEPALIVE", "DATA"}

Tag ==
  {"tcp_connected", "client_connected", "reset_ack", "initialize_ack", "disconnect_ack",
   "error_ack", "unsupported", "usb_keepalive_not_supported", "ka_req", "ka_resp",
   "keepalive_retry_exhausted", "halted_tcp_client_closed", "halted_not_in_keepalive",
   "tcp_frame_parse_failed",
   "data_interface_version_mismatch", "critical_error_data_interface_version_mismatch",
   "wifi_disabled", "wifi_enabled", "wifi_enable_failed",
   "telemetry", "telemetry_reset", "telemetry_reset_max_delay",
   "text", "uplink", "data_ack", "data_forwarded_tcp", "data_tcp_not_connected",
   "data_ignored_not_in_keepalive_session"}

(* The two reasons of a realtime_data_halted report. *)
Halts == {"halted_tcp_client_closed", "halted_not_in_keepalive"}

(* What the host can tell apart in a frame's payload; sid and req are the   *)
(* payload's key=value fields, server and client the header's counters.     *)
UsbFrame ==
  [type : MessageType, tag : Tag, sid : Id, req : Id, server : Live, client : Live]

Statics ==
  [boot : {"init", "run", "halted"}, state : State,
   server : Live, client : Live,
   wifi : BOOLEAN, listen : BOOLEAN, conn : BOOLEAN,
   rx : 0 .. (RxMod - 1), blocked : BOOLEAN,
   waiting : BOOLEAN, window : BOOLEAN, txed : BOOLEAN,
   retry : 0 .. RetryLimit,
   sid : Id, nextSid : Id, nextReq : Id, pending : Id, completed : Id,
   delay : BOOLEAN, stream : BOOLEAN, version : BOOLEAN,
   usb : Seq(UsbFrame)]

(* A keepalive frame of the client: its header counters, and its payload's  *)
(* sid, req and rver (meta: sid and req are both present; ver: rver is the  *)
(* bridge's data interface version).                                        *)
KeepaliveFrame ==
  [meta : BOOLEAN, ver : BOOLEAN, sid : Id, req : Id, server : Live, client : Live]

ASSUME ClientFramesAssumption == ClientFrames \subseteq KeepaliveFrame

Exchange == [sid : Id, req : Id, server : Live]

Transport == {"USB", "TCP"}

-----------------------------------------------------------------------------
(* Helpers of the firmware, as operators on the statics. *)

\* ++ on the unsigned counters
IncNoWrap(x) == x + 1  \* mutant: the width is forgotten
Inc(x) == IF x = LiveMod - 1 THEN 0 ELSE x + 1
IncIdStuck(x) == x  \* mutant: the id is not advanced
IncId(x) == IF x = IdMod - 1 THEN 0 ELSE x + 1
EvenUp(x) == IF x % 2 = 1 THEN Inc(x) ELSE x
OddUp(x) == IF x % 2 = 0 THEN Inc(x) ELSE x

UsbSend(s, type, tag, sid, req) ==
  [s EXCEPT !.usb = Append(@, [type |-> type, tag |-> tag, sid |-> sid, req |-> req,
                               server |-> s.server, client |-> s.client])]

UsbFault(s, tag) == UsbSend(s, "ERROR", tag, 0, 0)

(* bridge_close_tcp_client: the state machine keeps its state. *)
DropClient(s) ==
  [s EXCEPT !.conn = FALSE, !.txed = FALSE, !.waiting = FALSE,
            !.window = FALSE, !.retry = 0, !.sid = 0, !.pending = 0,
            !.completed = 0, !.nextReq = 1, !.rx = 0,
            !.version = FALSE, !.stream = FALSE]

CloseTcpClientQuietly(s) == DropClient(s)  \* mutant: the host is not told

CloseTcpClient(s) ==
  IF s.stream THEN UsbFault(DropClient(s), "halted_tcp_client_closed") ELSE DropClient(s)

(* bridge_enter_state: leaving the keepalive phases halts the realtime      *)
(* stream and drops the staged TCP bytes; entering RESET clears the session.*)
EnterState(s, next) ==
  LET leaves == s.state \in Keepalive /\ next \notin Keepalive
      halted == IF leaves /\ s.stream THEN UsbFault(s, "halted_not_in_keepalive") ELSE s
      moved  == [halted EXCEPT !.stream = IF leaves THEN FALSE ELSE @,
                               !.rx = IF leaves THEN 0 ELSE @,
                               !.state = next,
                               !.delay = IF next \in Keepalive THEN @ ELSE FALSE]
      told   == IF s.state # next THEN UsbSend(moved, "DATA", "telemetry", 0, 0) ELSE moved
  IN IF next = "RESET"
     THEN [told EXCEPT !.retry = 0, !.window = FALSE, !.sid = 0, !.pending = 0,
                       !.completed = 0, !.nextReq = 1, !.stream = FALSE]
     ELSE told

(* bridge_send_tcp_all: a failed send closes the client. *)
SendTcp(s, ok) == IF s.conn /\ ~ok THEN CloseTcpClient(s) ELSE s

(* bridge_send_frame to the transport a request came from. *)
Reply(s, tr, type, tag, sid, ok) ==
  IF tr = "USB" THEN UsbSend(s, type, tag, sid, 0) ELSE SendTcp(s, ok)

VersionMismatch(s, tr, ok) ==
  UsbFault(Reply(EnterState(s, "ERROR"), tr, "ERROR", "data_interface_version_mismatch", 0, ok),
           "critical_error_data_interface_version_mismatch")

(* bridge_send_server_keepalive: what follows the send runs even when the   *)
(* send failed and closed the client.                                       *)
SendServerKeepalive(s, reuse, ok) ==
  IF ~s.conn \/ s.sid = 0 THEN s
  ELSE LET again == reuse /\ s.pending # 0
           req   == IF again THEN s.pending ELSE s.nextReq
           made  == [s EXCEPT !.pending = req,
                              !.nextReq = IF again THEN @ ELSE IncId(@),
                              !.server = EvenUp(@), !.client = OddUp(@)]
           sent  == UsbSend(SendTcp(made, ok), "KEEPALIVE", "ka_req", s.sid, req)
       IN EnterState([sent EXCEPT !.txed = TRUE, !.waiting = TRUE, !.window = TRUE],
                     "CLIENT_RETURN")

(* bridge_send_realtime_data_packet: the stream counts as active afterwards *)
(* even when the send closed the client.                                    *)
SendRealtimeData(s, ok) ==
  IF ~s.conn THEN s ELSE [SendTcp(s, ok) EXCEPT !.stream = TRUE]

(* Mutant of RunningIntegerFailure: the state is assigned past              *)
(* bridge_enter_state.                                                      *)
FailureWithoutEnter(s) ==
  [CloseTcpClient(UsbFault(s, "keepalive_retry_exhausted"))
     EXCEPT !.state = "INITIALIZE", !.server = 0, !.client = 1, !.retry = 0]

(* bridge_handle_running_integer_failure *)
RunningIntegerFailure(s) ==
  [EnterState(CloseTcpClient(UsbFault(s, "keepalive_retry_exhausted")), "INITIALIZE")
     EXCEPT !.server = 0, !.client = 1, !.retry = 0]

-----------------------------------------------------------------------------
(* bridge_handle_frame, one operator per message type. *)

OnReset(s, tr, ok) ==
  LET r == [EnterState(s, "RESET") EXCEPT !.server = 0, !.client = 0, !.txed = FALSE,
                                          !.waiting = FALSE, !.version = FALSE]
  IN CloseTcpClient(Reply(r, tr, "ACK", "reset_ack", 0, ok))

(* The response-pending flag and the last send time are not cleared. *)
OnInitialize(s, tr, verOk, ok) ==
  LET i == [EnterState(s, "INITIALIZE") EXCEPT !.retry = 0, !.window = FALSE, !.sid = 0,
                                               !.pending = 0, !.completed = 0,
                                               !.nextReq = 1, !.stream = FALSE]
  IN IF verOk
     THEN Reply([i EXCEPT !.version = TRUE], tr, "ACK", "initialize_ack", 0, ok)
     ELSE VersionMismatch(i, tr, ok)

NewSession(s) ==
  [EnterState(s, "CONNECT") EXCEPT !.server = 0, !.client = 1, !.retry = 0,
                                   !.txed = FALSE, !.waiting = FALSE,
                                   !.window = FALSE, !.sid = s.nextSid,
                                   !.nextSid = IncId(@), !.pending = 0,
                                   !.completed = 0, !.nextReq = 1]

(* Mutant of OnConnect: the version is not checked. *)
OnConnectUnchecked(s, tr, ok) ==
  LET c     == NewSession(s)
      acked == Reply(c, tr, "ACK", "client_connected", c.sid, ok)
  IN EnterState(UsbSend(acked, "ACK", "client_connected", c.sid, 0), "SERVER_SEND")

OnConnect(s, tr, ok) ==
  LET c     == NewSession(s)
      acked == Reply(c, tr, "ACK", "client_connected", c.sid, ok)
  IN IF ~c.version THEN VersionMismatch(c, tr, ok)
     ELSE IF tr = "TCP" \/ acked.conn
          THEN EnterState(UsbSend(acked, "ACK", "client_connected", c.sid, 0), "SERVER_SEND")
          ELSE acked

OnDisconnect(s, tr, ok) ==
  LET d == Reply(EnterState(s, "DISCONNECT"), tr, "ACK", "disconnect_ack", 0, ok)
  IN IF tr = "TCP" THEN CloseTcpClient(d) ELSE d

(* Mutant of Expected: the session alone is checked. *)
ExpectedSession(s, f) == f.meta /\ f.sid = s.sid

(* The validation of a client's keepalive response: its session, a pending  *)
(* request, the state; then the version; then the request and the counters. *)
Expected(s, f) ==
  /\ f.meta /\ f.sid = s.sid
  /\ s.waiting /\ s.pending # 0
  /\ s.state = "CLIENT_RETURN"

(* Mutants of Accepts: any request of the session, any counters. *)
AcceptsAnyRequest(s, f) ==
  Expected(s, f) /\ f.ver /\ f.server = s.server /\ f.client = Inc(s.server)

AcceptsAnyCounters(s, f) == Expected(s, f) /\ f.ver /\ f.req = s.pending

Accepts(s, f) ==
  /\ Expected(s, f) /\ f.ver
  /\ f.req = s.pending
  /\ f.server = s.server /\ f.client = Inc(s.server)
  /\ f.server % 2 = 0 /\ f.client % 2 = 1

Complete(s, f, ok) ==
  LET done == [s EXCEPT !.delay = TRUE, !.client = f.client,
                        !.server = EvenUp(Inc(f.client)),
                        !.waiting = FALSE, !.window = FALSE, !.pending = 0,
                        !.completed = f.req, !.retry = 0]
  IN SendRealtimeData(UsbSend(EnterState(done, "SERVER_SEND"),
                              "KEEPALIVE", "ka_resp", s.sid, f.req), ok)

OnKeepalive(s, f, ok) ==
  IF Accepts(s, f) THEN Complete(s, f, ok)
  ELSE IF Expected(s, f) /\ ~f.ver THEN VersionMismatch(s, "TCP", ok)
  ELSE s

KeepaliveSession(s) == s.sid # 0 /\ s.state \in Keepalive

(* DATA from the host: text is acknowledged, the binary downlink is not.    *)
OnUsbData(s, kind, ok) ==
  LET fwd == SendTcp(s, ok)
      tag == IF ~KeepaliveSession(s) THEN "data_ignored_not_in_keepalive_session"
             ELSE IF s.conn THEN "data_forwarded_tcp" ELSE "data_tcp_not_connected"
      out == IF KeepaliveSession(s) THEN fwd ELSE s
  IN CASE kind = "text"     -> UsbSend(out, "ACK", tag, 0, 0)
       [] kind = "downlink" -> out
       [] kind = "empty"    -> UsbSend(s, "ACK", "data_ack", 0, 0)

(* DATA from the client: forwarded to USB within a keepalive session.       *)
OnTcpData(s, kind, ok) ==
  LET fwd == IF KeepaliveSession(s) THEN UsbSend(s, "DATA", kind, 0, 0) ELSE s
  IN CASE kind = "uplink" -> fwd
       [] kind = "text"   -> SendTcp(fwd, ok)
       [] kind = "empty"  -> SendTcp(s, ok)

OnTelemetryReset(s, tag) ==
  LET r == IF tag = "telemetry_reset" /\ s.state \notin Keepalive
           THEN [s EXCEPT !.delay = FALSE] ELSE s
  IN UsbSend(UsbSend(r, "ACK", tag, 0, 0), "DATA", "telemetry", 0, 0)

OnError(s, tr, ok) == Reply(EnterState(s, "ERROR"), tr, "ACK", "error_ack", 0, ok)

OnUnsupported(s, tr, ok) == Reply(s, tr, "ERROR", "unsupported", 0, ok)

WifiDisable(s) ==
  UsbSend(EnterState([CloseTcpClient(s) EXCEPT !.listen = FALSE, !.wifi = FALSE], "RESET"),
          "ACK", "wifi_disabled", 0, 0)

(* apUp: the SoftAP started (which alone enables the service loop again);   *)
(* srvUp: the listener could be opened.                                     *)
WifiEnable(s, apUp, srvUp) ==
  LET up == [s EXCEPT !.wifi = @ \/ apUp, !.listen = @ \/ (apUp /\ srvUp)]
  IN IF apUp /\ up.listen THEN UsbSend(up, "ACK", "wifi_enabled", 0, 0)
     ELSE UsbSend(up, "ERROR", "wifi_enable_failed", 0, 0)

(* The new client replaces the old one; the version flag is reset only by   *)
(* closing an old client.                                                   *)
TakeClient(s, ok) ==
  LET closed == IF s.conn THEN CloseTcpClient(s) ELSE s
      fresh  == EnterState([closed EXCEPT !.conn = TRUE, !.txed = FALSE, !.rx = 0],
                           "CONNECT")
      set    == [fresh EXCEPT !.server = 0, !.client = 1, !.waiting = FALSE,
                              !.window = FALSE, !.retry = 0, !.sid = 0,
                              !.pending = 0, !.completed = 0, !.nextReq = 1]
  IN UsbSend(SendTcp(set, ok), "ACK", "tcp_connected", 0, 0)

-----------------------------------------------------------------------------
(* Actions. *)

Fresh(s) == [s EXCEPT !.usb = <<>>]

BootState ==
  [boot |-> "init", state |-> "RESET", server |-> 0, client |-> 0,
   wifi |-> TRUE, listen |-> FALSE, conn |-> FALSE, rx |-> 0, blocked |-> FALSE,
   waiting |-> FALSE, window |-> FALSE, txed |-> FALSE, retry |-> 0,
   sid |-> 0, nextSid |-> 1, nextReq |-> 1, pending |-> 0, completed |-> 0,
   delay |-> FALSE, stream |-> FALSE, version |-> FALSE, usb |-> <<>>]

Init == b = BootState /\ issued = {} /\ accepted = <<>>

(* The request a send left outstanding with the client. *)
Outstanding(s) ==
  IF s.conn /\ s.sid # 0 /\ s.pending # 0
  THEN {[sid |-> s.sid, req |-> s.pending, server |-> s.server]} ELSE {}

Step(s) == b' = s /\ UNCHANGED <<issued, accepted>>

SendStep(s) ==
  /\ b' = s
  /\ issued' = issued \cup Outstanding(s)
  /\ UNCHANGED accepted

(* The start of communication_functions_run: a failed driver, SoftAP or     *)
(* listener start parks the task in ERROR for good.                         *)
Boot ==
  /\ b.boot = "init"
  /\ \/ Step([Fresh(b) EXCEPT !.boot = "run", !.listen = TRUE])
     \/ Step([EnterState(Fresh(b), "ERROR") EXCEPT !.boot = "halted"])

(* Power loss, or the fault taken when the staged byte count has wrapped.   *)
Reboot ==
  /\ b' = BootState
  /\ issued' = {} /\ accepted' = <<>>

(* The loop is between two calls: no staged TCP frame is left to handle.    *)
Idle == b.boot = "run" /\ b.rx = 0 /\ ~b.blocked

AcceptTcpClient(ok) ==
  Idle /\ b.wifi /\ b.listen /\ Step(TakeClient(Fresh(b), ok))

(* bridge_poll_tcp_client: the socket is never made non-blocking, so a recv *)
(* that fills the buffer is followed by one that waits for more.            *)
PollTcpClient ==
  /\ b.boot = "run" /\ b.rx = 0 /\ b.wifi /\ b.conn
  /\ \/ \E n \in 0 .. MaxStaged : Step([Fresh(b) EXCEPT !.rx = n, !.blocked = FALSE])
     \/ FullReads /\ Step([Fresh(b) EXCEPT !.blocked = TRUE])

(* recv returns 0, or the staged bytes exceed the buffer. *)
PeerClosed ==
  /\ b.boot = "run" /\ b.rx = 0 /\ b.wifi /\ b.conn
  /\ Step([CloseTcpClient(Fresh(b)) EXCEPT !.blocked = FALSE])

TcpFrameReady == b.boot = "run" /\ b.rx \in 1 .. MaxStaged

(* An oversized or undecodable frame closes the client. *)
MalformedTcpFrame ==
  /\ TcpFrameReady
  /\ \/ Step(CloseTcpClient(Fresh(b)))
     \/ Step(CloseTcpClient(UsbFault(Fresh(b), "tcp_frame_parse_failed")))

(* After the handler the frame's bytes are taken off the staged count,      *)
(* whatever the handler did to that count.                                  *)
Consume(s) == [s EXCEPT !.rx = IF @ = 0 THEN RxMod - 1 ELSE @ - 1]

Ready(tr) == IF tr = "USB" THEN Idle ELSE TcpFrameReady

Handled(tr, s) == IF tr = "TCP" THEN Consume(s) ELSE s

HandleReset(tr, ok) ==
  Ready(tr) /\ Step(Handled(tr, OnReset(Fresh(b), tr, ok)))

HandleInitialize(tr, verOk, ok) ==
  Ready(tr) /\ Step(Handled(tr, OnInitialize(Fresh(b), tr, verOk, ok)))

HandleConnect(tr, ok) ==
  /\ Ready(tr) /\ b.nextSid <= MaxSid
  /\ Step(Handled(tr, OnConnect(Fresh(b), tr, ok)))

HandleDisconnect(tr, ok) ==
  Ready(tr) /\ Step(Handled(tr, OnDisconnect(Fresh(b), tr, ok)))

HandleKeepalive(f, ok) ==
  /\ TcpFrameReady
  /\ b' = Consume(OnKeepalive(Fresh(b), f, ok))
  /\ accepted' = IF Accepts(b, f) THEN Append(accepted, f) ELSE accepted
  /\ UNCHANGED issued

HandleUsbKeepalive ==
  Idle /\ Step(UsbSend(Fresh(b), "ACK", "usb_keepalive_not_supported", 0, 0))

HandleUsbData(kind, ok) == Idle /\ Step(OnUsbData(Fresh(b), kind, ok))

HandleTcpData(kind, ok) == TcpFrameReady /\ Step(Consume(OnTcpData(Fresh(b), kind, ok)))

HandleTelemetryReset(tag) == Idle /\ Step(OnTelemetryReset(Fresh(b), tag))

HandleWifiDisable == Idle /\ Step(WifiDisable(Fresh(b)))

HandleWifiEnable(apUp, srvUp) == Idle /\ Step(WifiEnable(Fresh(b), apUp, srvUp))

HandleError(tr, ok) == Ready(tr) /\ Step(Handled(tr, OnError(Fresh(b), tr, ok)))

HandleUnsupported(tr, ok) == Ready(tr) /\ Step(Handled(tr, OnUnsupported(Fresh(b), tr, ok)))

(* bridge_service_keepalive_engine, once the period has elapsed. *)
ServiceKeepaliveEngine(ok) ==
  /\ Idle /\ b.wifi /\ b.conn /\ ~b.waiting /\ b.state = "SERVER_SEND"
  /\ b.nextReq <= MaxReq /\ Len(accepted) < MaxAccepted
  /\ SendStep(SendServerKeepalive(Fresh(b), FALSE, ok))

(* One more window has elapsed without an answer. *)
NotCounted(s) == s  \* mutant
CountRetry(s) == [s EXCEPT !.retry = @ + 1]

ExhaustedLate(s) == s.retry > RetryLimit  \* mutant
Exhausted(s) == s.retry >= RetryLimit

ResendAfresh(s, ok) ==  \* mutant: a new request instead of the pending one
  SendServerKeepalive(EnterState(s, "SERVER_SEND"), FALSE, ok)
Resend(s, ok) == SendServerKeepalive(EnterState(s, "SERVER_SEND"), TRUE, ok)

(* bridge_service_transport_watchdog, once the window has elapsed. *)
ServiceTransportWatchdog(ok) ==
  /\ Idle /\ b.wifi /\ b.conn /\ b.waiting /\ b.txed /\ b.state = "CLIENT_RETURN"
  /\ IF ~b.window THEN Step([Fresh(b) EXCEPT !.window = TRUE])
     ELSE LET late == CountRetry(Fresh(b))
          IN IF Exhausted(late) THEN Step(RunningIntegerFailure(late))
             ELSE SendStep(Resend(late, ok))

TcpFrameStep ==
  \/ MalformedTcpFrame
  \/ \E ok \in BOOLEAN :
       \/ \E f \in ClientFrames : HandleKeepalive(f, ok)
       \/ \E kind \in {"text", "uplink", "empty"} : HandleTcpData(kind, ok)
       \/ HandleReset("TCP", ok) \/ HandleConnect("TCP", ok) \/ HandleDisconnect("TCP", ok)
       \/ HandleError("TCP", ok) \/ HandleUnsupported("TCP", ok)
       \/ \E verOk \in BOOLEAN : HandleInitialize("TCP", verOk, ok)

UsbFrameStep ==
  \/ HandleUsbKeepalive \/ HandleWifiDisable
  \/ \E apUp, srvUp \in BOOLEAN : HandleWifiEnable(apUp, srvUp)
  \/ \E tag \in {"telemetry_reset", "telemetry_reset_max_delay"} : HandleTelemetryReset(tag)
  \/ \E ok \in BOOLEAN, kind \in {"text", "downlink", "empty"} : HandleUsbData(kind, ok)
  \/ HandleReset("USB", TRUE) \/ HandleConnect("USB", TRUE) \/ HandleDisconnect("USB", TRUE)
  \/ HandleError("USB", TRUE) \/ HandleUnsupported("USB", TRUE)
  \/ \E verOk \in BOOLEAN : HandleInitialize("USB", verOk, TRUE)

ServiceStep ==
  \/ PollTcpClient \/ PeerClosed
  \/ \E ok \in BOOLEAN :
       AcceptTcpClient(ok) \/ ServiceKeepaliveEngine(ok) \/ ServiceTransportWatchdog(ok)

Next == Boot \/ Reboot \/ ServiceStep \/ TcpFrameStep \/ UsbFrameStep

Spec == Init /\ [][Next]_vars

(* The loop handles every staged frame and reaches both service calls in    *)
(* every pass, so each runs whenever it is due again and again, however     *)
(* many frames arrive in between.                                           *)
FairSpec ==
  /\ Spec
  /\ WF_vars(TcpFrameStep)
  /\ SF_vars(\E ok \in BOOLEAN : ServiceKeepaliveEngine(ok))
  /\ SF_vars(\E ok \in BOOLEAN : ServiceTransportWatchdog(ok))

-----------------------------------------------------------------------------
(* Properties. *)

(* The statics stay within their C types and the histories are well formed. *)
TypeOK ==
  /\ b \in Statics
  /\ issued \subseteq Exchange
  /\ accepted \in Seq(KeepaliveFrame)

(* The keepalive exchange is never stranded: with a client attached, the    *)
(* bridge is either due to send (nothing pending, a session to send in) or  *)
(* waiting with its timeout armed.  Either phase without the other's flags  *)
(* would be served neither by bridge_service_keepalive_engine nor by        *)
(* bridge_service_transport_watchdog.                                       *)
Armed(s) ==
  s.conn => /\ s.state = "SERVER_SEND" => ~s.waiting /\ s.sid # 0
            /\ s.state = "CLIENT_RETURN" => s.waiting /\ s.txed /\ s.window /\ s.sid # 0

KeepaliveArmed == Armed(b)

(* No keepalive phase with a client before the data interface version was   *)
(* agreed, whichever transport carried INITIALIZE and CONNECT.              *)
Negotiated(s) == s.conn /\ s.state \in Keepalive => s.version

NegotiatedBeforeKeepalive == Negotiated(b)

(* The live integers stay coupled through retries, reconnects and wrap:     *)
(* the server integer is even, and with a client in keepalive the client    *)
(* integer is the odd number next to it.                                    *)
InStep(s) ==
  /\ s.server % 2 = 0
  /\ s.conn /\ s.state \in Keepalive =>
       \/ s.server = 0 /\ s.client = 1
       \/ s.server = Inc(s.client) /\ s.client % 2 = 1

CountersInStep == InStep(b)

(* Retries belong to a request that is being waited for, and never reach    *)
(* the limit without the session having been given up.                      *)
RetryOk(s) == s.retry > 0 => s.waiting /\ s.retry < RetryLimit

RetriesBounded == RetryOk(b)

(* Every accepted response answers a request the bridge really sent in that *)
(* session, with the counters it was sent with.                             *)
AcceptedWasIssued ==
  \A i \in DOMAIN accepted :
    /\ [sid |-> accepted[i].sid, req |-> accepted[i].req,
        server |-> accepted[i].server] \in issued
    /\ accepted[i].client = Inc(accepted[i].server)

(* Requests complete at most once and in the order they were issued: no     *)
(* duplicate or late response of an earlier request or session is taken.    *)
AcceptedInOrder ==
  \A i, j \in DOMAIN accepted :
    i < j => \/ accepted[i].sid < accepted[j].sid
             \/ accepted[i].sid = accepted[j].sid /\ accepted[i].req < accepted[j].req

(* A measured delay is reported only in the keepalive phases. *)
DelayOnlyInKeepalive == b.delay => b.state \in Keepalive

(* A resend repeats the exchange: while one request is waited for, neither  *)
(* its id nor the server integer a valid answer must echo changes.          *)
ResendRepeatsRequest ==
  [][b.conn /\ b.waiting /\ b.sid # 0 /\ b.pending # 0
     /\ b'.conn /\ b'.waiting /\ b'.sid = b.sid
       => b'.pending = b.pending /\ b'.server = b.server]_vars

(* Whenever the realtime stream stops, the step that stops it tells the     *)
(* host (an ERROR frame realtime_data_halted).                              *)
StreamHaltReported ==
  [][b.stream /\ ~b'.stream /\ b'.boot = "run"
       => \E i \in DOMAIN b'.usb : b'.usb[i].tag \in Halts]_vars

(* A client that stops answering is given up: the wait in CLIENT_RETURN     *)
(* ends with an answer, with the client closed, or in another state.        *)
SilentClientGivenUp ==
  [](b.conn /\ b.state = "CLIENT_RETURN" => <>(~b.conn \/ b.state # "CLIENT_RETURN"))

(* The invariant of the statics the proofs are by induction on: besides the *)
(* properties above, session ids are handed out in increasing order, and    *)
(* the realtime stream runs in the keepalive phases only.                   *)
LinkInv(s) ==
  /\ Armed(s) /\ Negotiated(s) /\ InStep(s) /\ RetryOk(s)
  /\ s.nextSid \in 1 .. (MaxSid + 1) /\ s.sid < s.nextSid
  /\ s.delay \/ s.stream => s.state \in Keepalive

(* The session is the newest one, and its pending request was allocated in  *)
(* it.                                                                      *)
PendingInv(s) ==
  /\ s.sid # 0 => s.nextSid = s.sid + 1
  /\ s.pending # 0 => s.conn /\ s.sid # 0 /\ s.pending < s.nextReq
  /\ s.conn /\ s.state = "CLIENT_RETURN" => s.pending # 0
  /\ s.nextReq > 0 /\ s.nextReq <= MaxReq + 1

(* What the histories add: everything accepted is older than the pending    *)
(* request, and the pending request has been sent.                          *)
HistoryInv ==
  /\ b.pending # 0 => [sid |-> b.sid, req |-> b.pending, server |-> b.server] \in issued
  /\ \A i \in DOMAIN accepted :
       /\ accepted[i].sid \in 1 .. (b.nextSid - 1)
       /\ accepted[i].sid = b.sid => /\ accepted[i].req < b.nextReq
                                     /\ b.pending # 0 => accepted[i].req < b.pending

(* The whole inductive invariant behind AcceptedWasIssued and               *)
(* AcceptedInOrder: what bridge_handle_frame accepts stays tied to what     *)
(* bridge_send_server_keepalive sent.                                       *)
BridgeInv ==
  /\ LinkInv(b) /\ PendingInv(b) /\ HistoryInv
  /\ AcceptedWasIssued /\ AcceptedInOrder

(* Closing the client clears the stream buffer, as the comment on           *)
(* bridge_close_tcp_client says: no staged bytes are counted afterwards.    *)
ClosedBufferEmpty == ~b.conn => b.rx = 0

=============================================================================
