-------------------------------- MODULE Link --------------------------------
(***************************************************************************)
(* The host runtime and the bridge, joined by the USB line.  The handlers  *)
(* are those of HostRuntime and Bridge; what a step of one side writes is  *)
(* carried to the other in order.                                          *)
(*                                                                         *)
(* On the line are the frames that the other side's handlers act on, and   *)
(* the host's tests of a keepalive frame's counters are made when it is    *)
(* put there.  The reader thread and _rx_frames are part of the line: a    *)
(* poll takes what has been read so far.  The bridge ignores the result of *)
(* its USB writes: without an open port they are lost.  A port that is     *)
(* cleared or lost loses some of what is under way, and a reboot takes the *)
(* port away.  The brew and the data streams do not touch the link's state *)
(* and are left out.                                                       *)
(***************************************************************************)
EXTENDS Naturals, Sequences

CONSTANTS
  LiveMod, IdMod, RxMod, RetryLimit,  \* see Bridge
  MaxSid,  \* bound: sessions opened per boot
  MaxLine  \* bound: frames on the line, either way, before more are added

ASSUME LinkConstants ==
  /\ LiveMod \in Nat /\ LiveMod >= 4 /\ LiveMod % 2 = 0
  /\ RxMod \in Nat /\ RxMod > 2
  /\ RetryLimit \in Nat \ {0}
  /\ MaxSid \in Nat /\ IdMod \in Nat /\ IdMod > MaxSid + 1
  /\ MaxLine \in Nat \ {0}

VARIABLES
  h,         \* the runtime's attributes (HostRuntime)
  opening,   \* open_transport is between its port and its reset
  b,         \* the bridge's statics (Bridge)
  toHost,    \* frames written by the bridge and not yet handled
  toBridge,  \* commands written by the host and not yet handled
  ended      \* history: how the last session ended

linkVars == <<h, opening, b, toHost, toBridge, ended>>

C3 == INSTANCE Bridge WITH
  MaxStaged <- 1, MaxReq <- IdMod, MaxAccepted <- 1, FullReads <- FALSE, ClientFrames <- {},
  issued <- {}, accepted <- <<>>

PC == INSTANCE HostRuntime WITH
  Live <- C3!Live, BridgeFrames <- {}, MaxRx <- MaxLine, OpenAttempts <- 1,
  rx <- <<>>, opener <- [pc |-> "idle", attempt |-> 0], closer <- "idle", dl <- "stopped",
  owed <- FALSE

Keepalive == C3!Keepalive

-----------------------------------------------------------------------------
(* The line. *)

(* The payloads the host's handlers act on. *)
Heard == {"ka_req", "ka_resp", "keepalive_retry_exhausted", "halted_tcp_client_closed",
          "tcp_connected", "client_connected", "disconnect_ack", "reset_ack",
          "initialize_ack"}

(* A frame as the host's handlers see it; the counters of a keepalive frame *)
(* are valid (2, 1) or not (0, 1).                                          *)
Seen(f) ==
  LET valid == f.type = "KEEPALIVE" /\ PC!EvenOdd(f) /\ f.client + 1 = f.server
  IN [type |-> f.type, tag |-> f.tag, server |-> IF valid THEN 2 ELSE 0, client |-> 1]

Put(line, f) == IF f.tag \in Heard THEN Append(line, Seen(f)) ELSE line

OnLine(frames) ==
  LET line[i \in 0 .. Len(frames)] == IF i = 0 THEN <<>> ELSE Put(line[i - 1], frames[i])
  IN line[Len(frames)]

First(q, n) == SubSeq(q, 1, n)
From(q, n) == SubSeq(q, n + 1, Len(q))

SessionUp(s) == s.boot = "run" /\ s.conn /\ s.state \in Keepalive

-----------------------------------------------------------------------------
(* The host.  s is what a call makes of the attributes, after n frames of   *)
(* the line were handled or discarded.                                      *)

HostDoes(s, n) ==
  /\ h' = PC!FreshOut(s)
  /\ toHost' = IF s.port THEN From(toHost, n) ELSE <<>>
  /\ UNCHANGED <<b, ended>>

Delivered(s) == toBridge' = toBridge \o s.out

Room == Len(toBridge) < MaxLine

(* A polling call, after the reader has decoded n frames. *)
HostPolls(call, n, ok) ==
  LET s == PC!Body(call, PC!HandleAll(h, First(toHost, n), n), ok)
  IN HostDoes(s, n) /\ Delivered(s) /\ UNCHANGED opening

(* clear_buffers discards what waits in the buffers of the port. *)
ResetWith(ok) ==
  LET s == PC!DoReset(h, ok)
  IN /\ \E n \in 0 .. Len(toHost) : HostDoes(s, n)
     /\ \E n \in 0 .. Len(toBridge) : toBridge' = First(toBridge, n) \o s.out

HostResets(ok) == Room /\ ResetWith(ok) /\ UNCHANGED opening

HostTogglesWifi(ok) ==
  /\ Room
  /\ LET s == PC!DoToggleWifi(h, ok) IN HostDoes(s, 0) /\ Delivered(s)
  /\ UNCHANGED opening

(* open_transport: the port, and some time later the reset. *)
HostOpens ==
  /\ ~h.port /\ ~opening /\ Room
  /\ \/ HostDoes([h EXCEPT !.port = TRUE], 0) /\ opening' = TRUE
     \/ HostDoes(PC!SetRuntimeFault(h), 0) /\ UNCHANGED opening
  /\ UNCHANGED toBridge

OpenResets(ok) == opening /\ opening' = FALSE /\ ResetWith(ok)

(* close_transport, force_release_transport and a lost port; what was       *)
(* written may still arrive.                                                *)
PortGoes ==
  /\ \/ HostDoes(PC!DoClose(h), 0)
     \/ HostDoes([PC!DoClose(h) EXCEPT !.fault = FALSE], 0)
     \/ h.port /\ HostDoes([h EXCEPT !.port = FALSE], 0)
  /\ \E n \in 0 .. Len(toBridge) : toBridge' = First(toBridge, n)
  /\ UNCHANGED opening

-----------------------------------------------------------------------------
(* The bridge. *)

BridgeDoes(s, cause) ==
  /\ Len(toHost) < MaxLine
  /\ b' = C3!Fresh(s)
  /\ toHost' = IF h.port THEN toHost \o OnLine(s.usb) ELSE toHost
  /\ ended' = IF SessionUp(s) THEN "not" ELSE IF SessionUp(b) THEN cause ELSE ended
  /\ UNCHANGED <<h, opening>>

(* The calls of the service loop; the period or the window has elapsed.     *)
BridgeBoots ==
  /\ b.boot = "init"
  /\ \/ BridgeDoes([b EXCEPT !.boot = "run", !.listen = TRUE], "closed")
     \/ BridgeDoes([C3!EnterState(b, "ERROR") EXCEPT !.boot = "halted"], "closed")

TakesClient(ok) == C3!Idle /\ b.wifi /\ b.listen /\ BridgeDoes(C3!TakeClient(b, ok), "closed")

ClientGoes == C3!Idle /\ b.wifi /\ b.conn /\ BridgeDoes(C3!CloseTcpClient(b), "closed")

EngineRuns(ok) ==
  /\ C3!Idle /\ b.wifi /\ b.conn /\ ~b.waiting /\ b.state = "SERVER_SEND"
  /\ BridgeDoes(C3!SendServerKeepalive(b, FALSE, ok), "send")

WatchdogRuns(ok) ==
  /\ C3!Idle /\ b.wifi /\ b.conn /\ b.waiting /\ b.txed /\ b.window /\ b.state = "CLIENT_RETURN"
  /\ LET late == C3!CountRetry(b)
     IN BridgeDoes(IF C3!Exhausted(late) THEN C3!RunningIntegerFailure(late)
                   ELSE C3!Resend(late, ok),
                   IF C3!Exhausted(late) THEN "given up" ELSE "send")

(* The client's right answer; any other changes nothing, but for a wrong    *)
(* interface version.                                                       *)
Answer(s, ver) ==
  [meta |-> TRUE, ver |-> ver, sid |-> s.sid, req |-> s.pending,
   server |-> s.server, client |-> C3!Inc(s.server)]

(* What the handler of a client's frame can make of the statics. *)
AfterFrame(s, ok) ==
  {C3!OnReset(s, "TCP", ok), C3!OnDisconnect(s, "TCP", ok), C3!OnError(s, "TCP", ok),
   C3!OnUnsupported(s, "TCP", ok), C3!OnTcpData(s, "text", ok)}
  \cup {C3!OnInitialize(s, "TCP", ver, ok) : ver \in BOOLEAN}
  \cup {C3!OnKeepalive(s, Answer(s, ver), ok) : ver \in BOOLEAN}
  \cup (IF s.nextSid <= MaxSid THEN {C3!OnConnect(s, "TCP", ok)} ELSE {})

(* One frame is staged, handled and consumed. *)
ClientSpeaks(ok) ==
  /\ C3!Idle /\ b.wifi /\ b.conn
  /\ \E s \in AfterFrame([b EXCEPT !.rx = 1], ok) : BridgeDoes(C3!Consume(s), "client")

(* The handler of a host's command.  The payload of the host's INITIALIZE   *)
(* (_build_initialize_payload) has no data_ver, so the bridge refuses it.   *)
Obeyed(cmd) ==
  CASE cmd = "RESET" -> {C3!OnReset(b, "USB", TRUE)}
    [] cmd = "INITIALIZE" -> {C3!OnInitialize(b, "USB", FALSE, TRUE)}
    [] cmd = "wifi_disable" -> {C3!WifiDisable(b)}
    [] cmd = "wifi_enable" -> {C3!WifiEnable(b, up[1], up[2]) : up \in BOOLEAN \X BOOLEAN}

BridgeObeys ==
  /\ C3!Idle /\ toBridge # <<>>
  /\ \E s \in Obeyed(Head(toBridge)) :
       BridgeDoes(s, IF Head(toBridge) = "INITIALIZE" THEN "initialize" ELSE "host")
  /\ toBridge' = Tail(toBridge)

(* The USB device goes away with the bridge. *)
BridgeReboots ==
  /\ b' = C3!BootState
  /\ h' = [h EXCEPT !.port = FALSE]
  /\ toHost' = <<>> /\ toBridge' = <<>> /\ ended' = "reboot"
  /\ UNCHANGED opening

-----------------------------------------------------------------------------
LinkInit ==
  /\ PC!HostInit /\ C3!Init
  /\ opening = FALSE /\ toHost = <<>> /\ toBridge = <<>> /\ ended = "not"

HostStep ==
  \/ HostOpens \/ PortGoes
  \/ \E ok \in BOOLEAN :
       \/ HostResets(ok) \/ OpenResets(ok) \/ HostTogglesWifi(ok)
       \/ \E n \in 0 .. Len(toHost) : \/ HostPolls("get_snapshot", n, ok)
                                      \/ Room /\ HostPolls("initialize", n, ok)

BridgeStep ==
  /\ \/ BridgeBoots \/ ClientGoes
     \/ \E ok \in BOOLEAN : TakesClient(ok) \/ EngineRuns(ok) \/ WatchdogRuns(ok) \/ ClientSpeaks(ok)
  /\ UNCHANGED toBridge

LinkNext == HostStep \/ BridgeStep \/ BridgeObeys \/ BridgeReboots

LinkSpec == LinkInit /\ [][LinkNext]_linkVars

(* The page polls every second, and the reader keeps decoding: a frame on   *)
(* the line is handled in the end.                                          *)
PollsOn ==
  \E ok \in BOOLEAN, n \in 0 .. Len(toHost) :
    (toHost = <<>> \/ n > 0) /\ HostPolls("get_snapshot", n, ok)

(* Besides, an open_transport that has its port goes on to its reset.       *)
LinkFairness ==
  /\ WF_linkVars(PollsOn)
  /\ WF_linkVars(\E ok \in BOOLEAN : OpenResets(ok))

LinkLiveSpec == LinkSpec /\ LinkFairness

-----------------------------------------------------------------------------
(* Properties. *)

(* The two records and the line keep their types. *)
LinkTypeOK ==
  /\ h \in PC!Runtime /\ b \in C3!Statics
  /\ toHost \in Seq(PC!Frame)
  /\ toBridge \in Seq({"RESET", "INITIALIZE", "wifi_disable", "wifi_enable"})
  /\ opening \in BOOLEAN
  /\ ended \in {"not", "closed", "send", "given up", "client", "host", "initialize", "reboot"}

Settled == h.port /\ ~opening /\ toHost = <<>> /\ toBridge = <<>>

(* The host is in a keepalive state, nobody is at the other end, and        *)
(* nothing is under way that would tell it.                                 *)
Ghost == Settled /\ h.state \in Keepalive /\ ~SessionUp(b)

(* The ends of a session of which the host does not learn.  Of one in the   *)
(* handler of a frame of the client's (its DISCONNECT, say) the bridge      *)
(* tells the client only.  On an INITIALIZE of the host's it writes ERROR   *)
(* frames, which the host logs.  After a keepalive request that failed, the *)
(* mirror of the request follows the report of the closed client.           *)
Unreported == {"client", "send", "initialize"}

(* _handle_bridge_error_frame_locked: handling the bridge's reports "keeps  *)
(* the host runtime synchronized and avoids follow-up sends on stale        *)
(* sessions": once everything under way has been handled, a host in a       *)
(* keepalive state has a client at the other end, unless the session ended  *)
(* in one of the other two ways.                                            *)
NoGhostSession == Ghost => ended \in Unreported \ {"send"}

(* The same of a session that ended with the bridge's refusal of an         *)
(* INITIALIZE of the host's, which the bridge reports in ERROR frames.      *)
NoGhostAfterRefusal == Ghost => ended \in Unreported \ {"initialize"}

(* The same, but for all three.  Sessions given up, closed or replaced,     *)
(* resets, toggles of the Wi-Fi, lost ports and reboots leave no host       *)
(* behind in a keepalive state, nor do frames of an earlier session that    *)
(* survive the clearing of the buffers.                                     *)
NoGhostAfterReport == Ghost => ended \in Unreported

(* The frames that take the host out of the keepalive states, and those     *)
(* that take it there.                                                      *)
Reports == Heard \ {"ka_req", "ka_resp"}

Confirms(f) == f.type = "KEEPALIVE" /\ f.server = 2

(* A host is in a keepalive state once it has handled q; ka: it is in one   *)
(* before.                                                                  *)
EndsInKeepalive(ka, q) ==
  \/ ka /\ \A i \in DOMAIN q : q[i].tag \notin Reports
  \/ \E i \in DOMAIN q : /\ Confirms(q[i])
                         /\ \A j \in DOMAIN q : j > i => q[j].tag \notin Reports

(* The invariant behind NoGhostAfterReport.  When the host will be in a     *)
(* keepalive state after what is on the line (while the port is being       *)
(* opened, the state it still has does not count: a reset follows), the     *)
(* session is up and its stream runs, so that closing it is reported, or it *)
(* ended in one of the three ways of which the host does not learn.  A      *)
(* session without its stream is one in which nothing was answered yet: its *)
(* requests still have the counters the host takes for invalid.             *)
NoGhostComing ==
  /\ h.port /\ EndsInKeepalive(~opening /\ h.state \in Keepalive, toHost)
       => (SessionUp(b) /\ b.stream) \/ ended \in Unreported
  /\ SessionUp(b) => ended = "not" /\ (b.stream \/ (b.server = 0 /\ b.client = 1))

(* A host whose session is gone leaves the keepalive states in the end,     *)
(* also when the port went with it and nothing can be reported any more;    *)
(* again but for the three ends of which it does not learn.                 *)
LossLearned ==
  (h.state \in Keepalive /\ ~SessionUp(b) /\ ended \notin Unreported)
    ~> (h.state \notin Keepalive \/ SessionUp(b) \/ ended \in Unreported)

=============================================================================
