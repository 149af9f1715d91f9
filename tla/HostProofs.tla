----------------------------- MODULE HostProofs -----------------------------
(***************************************************************************)
(* Proofs about the transport runtime (HostRuntime), for every set of      *)
(* bridge frames, every number of frames between two polls and every       *)
(* number of open attempts.                                                *)
(***************************************************************************)
EXTENDS HostRuntime, Iteration

-----------------------------------------------------------------------------
(* The inductive invariant, on the attributes. *)

StageReady(s) == s.pending = "CONNECT" => s.wifiReady

Inert(s) == s.state = "ERROR" => s.fault /\ ~s.armed /\ ~s.tcpConn /\ s.pending = "none"

Consistent(s) == s \in Runtime /\ Proven(s) /\ StageReady(s) /\ Inert(s)

(* No shot_done_success has been written. *)
Unsent(s) == \A i \in DOMAIN s.out : s.out[i] # "shot_done"

(* A method that keeps the invariant, announces no shot, and sends none. *)
Keeps(s, t) ==
  /\ Consistent(t)
  /\ t.shot => s.shot
  /\ t.brewSeen => s.brewSeen
  /\ Unsent(s) => Unsent(t)

LEMMA KeepsTrans ==
  ASSUME NEW r, NEW s, NEW t, Keeps(r, s), Keeps(s, t)
  PROVE  Keeps(r, t)
  BY DEF Keeps

LEMMA KeepsRefl ==
  ASSUME NEW s, Consistent(s)
  PROVE  Keeps(s, s)
  BY DEF Keeps

-----------------------------------------------------------------------------
(* The attributes. *)

(* An assignment to an attribute keeps the type of the record. *)
LEMMA Updates ==
  ASSUME NEW s \in Runtime
  PROVE  /\ \A x \in BOOLEAN :
              /\ [s EXCEPT !.fault = x] \in Runtime /\ [s EXCEPT !.armed = x] \in Runtime
              /\ [s EXCEPT !.cfg = x] \in Runtime /\ [s EXCEPT !.wifiEnabled = x] \in Runtime
              /\ [s EXCEPT !.wifiReady = x] \in Runtime /\ [s EXCEPT !.wifiConn = x] \in Runtime
              /\ [s EXCEPT !.tcpConn = x] \in Runtime /\ [s EXCEPT !.initDone = x] \in Runtime
              /\ [s EXCEPT !.connDone = x] \in Runtime /\ [s EXCEPT !.brewSeen = x] \in Runtime
              /\ [s EXCEPT !.shot = x] \in Runtime /\ [s EXCEPT !.port = x] \in Runtime
              /\ [s EXCEPT !.brew = x] \in Runtime
         /\ \A x \in LinkState : [s EXCEPT !.state = x] \in Runtime
         /\ \A x \in {"none", "INITIALIZE", "CONNECT"} : [s EXCEPT !.pending = x] \in Runtime
  <1>1. ASSUME NEW x \in BOOLEAN
        PROVE  [s EXCEPT !.fault = x] \in Runtime
    BY DEF Runtime
  <1>2. ASSUME NEW x \in BOOLEAN
        PROVE  [s EXCEPT !.armed = x] \in Runtime
    BY DEF Runtime
  <1>3. ASSUME NEW x \in BOOLEAN
        PROVE  [s EXCEPT !.cfg = x] \in Runtime
    BY DEF Runtime
  <1>4. ASSUME NEW x \in BOOLEAN
        PROVE  [s EXCEPT !.wifiEnabled = x] \in Runtime
    BY DEF Runtime
  <1>5. ASSUME NEW x \in BOOLEAN
        PROVE  [s EXCEPT !.wifiReady = x] \in Runtime
    BY DEF Runtime
  <1>6. ASSUME NEW x \in BOOLEAN
        PROVE  [s EXCEPT !.wifiConn = x] \in Runtime
    BY DEF Runtime
  <1>7. ASSUME NEW x \in BOOLEAN
        PROVE  [s EXCEPT !.tcpConn = x] \in Runtime
    BY DEF Runtime
  <1>8. ASSUME NEW x \in BOOLEAN
        PROVE  [s EXCEPT !.initDone = x] \in Runtime
    BY DEF Runtime
  <1>9. ASSUME NEW x \in BOOLEAN
        PROVE  [s EXCEPT !.connDone = x] \in Runtime
    BY DEF Runtime
  <1>10. ASSUME NEW x \in BOOLEAN
        PROVE  [s EXCEPT !.brewSeen = x] \in Runtime
    BY DEF Runtime
  <1>11. ASSUME NEW x \in BOOLEAN
        PROVE  [s EXCEPT !.shot = x] \in Runtime
    BY DEF Runtime
  <1>12. ASSUME NEW x \in BOOLEAN
        PROVE  [s EXCEPT !.port = x] \in Runtime
    BY DEF Runtime
  <1>13. ASSUME NEW x \in BOOLEAN
        PROVE  [s EXCEPT !.brew = x] \in Runtime
    BY DEF Runtime
  <1>14. ASSUME NEW x \in LinkState
        PROVE  [s EXCEPT !.state = x] \in Runtime
    BY DEF Runtime
  <1>15. ASSUME NEW x \in {"none", "INITIALIZE", "CONNECT"}
        PROVE  [s EXCEPT !.pending = x] \in Runtime
    BY DEF Runtime
  <1> QED
    BY <1>1, <1>2, <1>3, <1>4, <1>5, <1>6, <1>7, <1>8, <1>9, <1>10, <1>11, <1>12, <1>13,
       <1>14, <1>15

LEMMA ClearRuntimeFlowFacts ==
  ASSUME NEW s \in Runtime
  PROVE  LET c == ClearRuntimeFlow(s) IN
         /\ c \in Runtime /\ c.pending = "none" /\ ~c.shot /\ ~c.brewSeen /\ ~c.armed
         /\ c.out = s.out /\ c.port = s.port
  <1>1. ClearRuntimeFlow(s) \in Runtime
    BY Updates, Zenon DEF ClearRuntimeFlow
  <1> QED
    BY <1>1 DEF ClearRuntimeFlow, Runtime

-----------------------------------------------------------------------------
(* Writing. *)

(* An update that leaves alone the attributes the invariant speaks of. *)
Aside(s, t) ==
  /\ t.state = s.state /\ t.fault = s.fault /\ t.armed = s.armed /\ t.pending = s.pending
  /\ t.wifiReady = s.wifiReady /\ t.wifiConn = s.wifiConn /\ t.tcpConn = s.tcpConn
  /\ t.initDone = s.initDone /\ t.connDone = s.connDone
  /\ t.brewSeen = s.brewSeen /\ t.shot = s.shot

LEMMA SendFacts ==
  ASSUME NEW s \in Runtime, NEW cmd \in Command, NEW ok \in BOOLEAN
  PROVE  /\ Send(s, cmd, ok) \in Runtime /\ Aside(s, Send(s, cmd, ok))
         /\ Send(s, cmd, ok).brew = s.brew
         /\ cmd # "shot_done" /\ Unsent(s) => Unsent(Send(s, cmd, ok))
  <1>1. CASE s.port /\ ok
    <2> DEFINE t == [s EXCEPT !.out = Append(s.out, cmd)]
    <2>1. Send(s, cmd, ok) = t
      BY <1>1 DEF Send
    <2>2. s.out \in Seq(Command) /\ Append(s.out, cmd) \in Seq(Command)
      BY DEF Runtime
    <2>3. t \in Runtime
      BY <2>2 DEF Runtime
    <2>4. Aside(s, t) /\ t.brew = s.brew
      BY DEF Runtime, Aside
    <2>5. cmd # "shot_done" /\ Unsent(s) => Unsent(t)
      <3> SUFFICES ASSUME cmd # "shot_done", Unsent(s), NEW i \in DOMAIN t.out
                   PROVE  t.out[i] # "shot_done"
        BY DEF Unsent
      <3>1. t.out = Append(s.out, cmd)
        BY DEF Runtime
      <3>2. i \in 1 .. Len(s.out) + 1
        BY <2>2, <3>1
      <3>3. CASE i = Len(s.out) + 1
        BY <2>2, <3>1, <3>3
      <3>4. CASE i \in 1 .. Len(s.out)
        <4>1. i \in DOMAIN s.out /\ t.out[i] = s.out[i]
          BY <2>2, <3>1, <3>4
        <4> QED
          BY <4>1 DEF Unsent
      <3> QED
        BY <2>2, <3>2, <3>3, <3>4
    <2> QED
      BY <2>1, <2>3, <2>4, <2>5
  <1>2. CASE ~ (s.port /\ ok)
    <2> DEFINE t == [s EXCEPT !.port = FALSE]
    <2>1. Send(s, cmd, ok) = t
      BY <1>2 DEF Send
    <2>2. t \in Runtime /\ t.out = s.out /\ Aside(s, t) /\ t.brew = s.brew
      BY DEF Runtime, Aside
    <2> QED
      BY <2>1, <2>2 DEF Unsent
  <1> QED
    BY <1>1, <1>2

LEMMA SendKeeps ==
  ASSUME NEW s, Consistent(s), NEW cmd \in Command \ {"shot_done"}, NEW ok \in BOOLEAN
  PROVE  Keeps(s, Send(s, cmd, ok))
  <1> DEFINE t == Send(s, cmd, ok)
  <1>1. t \in Runtime /\ Aside(s, t) /\ (Unsent(s) => Unsent(t))
    BY SendFacts DEF Consistent
  <1> HIDE DEF t
  <1>2. Consistent(t)
    BY <1>1 DEF Consistent, Proven, StageReady, Inert, Aside
  <1> QED
    BY <1>1, <1>2 DEF Keeps, Aside, t

LEMMA FaultKeeps ==
  ASSUME NEW s \in Runtime
  PROVE  Keeps(s, SetRuntimeFault(s))
  <1> DEFINE t == SetRuntimeFault(s)
  <1>1. t \in Runtime
    BY ClearRuntimeFlowFacts, Updates, Zenon DEF SetRuntimeFault, LinkState
  <1>2. /\ t.state = "ERROR" /\ t.fault /\ ~t.armed /\ ~t.tcpConn /\ t.pending = "none"
        /\ ~t.shot /\ ~t.brewSeen /\ t.out = s.out
    BY DEF SetRuntimeFault, ClearRuntimeFlow, Runtime
  <1> HIDE DEF t
  <1> QED
    BY <1>1, <1>2 DEF Keeps, Consistent, Proven, StageReady, Inert, Unsent, Keepalive, t

LEMMA TrySendKeeps ==
  ASSUME NEW s, Consistent(s), NEW cmd \in Command \ {"shot_done"}, NEW ok \in BOOLEAN
  PROVE  Keeps(s, TrySend(s, cmd, ok))
  <1>1. Keeps(s, Send(s, cmd, ok))
    BY SendKeeps
  <1>2. Keeps(Send(s, cmd, ok), SetRuntimeFault(Send(s, cmd, ok)))
    BY <1>1, FaultKeeps DEF Keeps, Consistent
  <1> QED
    BY <1>1, <1>2, KeepsTrans DEF TrySend

LEMMA ForwardKeeps ==
  ASSUME NEW s, Consistent(s), NEW cmd \in Command \ {"shot_done"}, NEW ok \in BOOLEAN
  PROVE  Keeps(s, Forward(s, cmd, ok))
  BY SendKeeps, KeepsRefl DEF Forward

(* Clearing the flow and leaving for another state than keepalive and ERROR. *)
LEMMA ClearedKeeps ==
  ASSUME NEW s \in Runtime, NEW t \in Runtime,
         t.state \notin Keepalive \cup {"ERROR"}, t.pending = "none",
         ~ t.shot, ~ t.brewSeen, t.out = s.out
  PROVE  Keeps(s, t)
  BY DEF Keeps, Consistent, Proven, StageReady, Inert, Unsent

LEMMA AsideKeeps ==
  ASSUME NEW s, Consistent(s), NEW t \in Runtime, Aside(s, t), t.out = s.out
  PROVE  Keeps(s, t)
  BY DEF Keeps, Consistent, Proven, StageReady, Inert, Unsent, Aside

-----------------------------------------------------------------------------
(* The automatic flow. *)

LEMMA BeginInitializeKeeps ==
  ASSUME NEW s \in Runtime, NEW ok \in BOOLEAN
  PROVE  Keeps(s, BeginInitialize(s, ok))
  <1> DEFINE r == [s EXCEPT !.wifiReady = TRUE, !.wifiConn = FALSE, !.tcpConn = FALSE,
                            !.state = "INITIALIZE"]
             i == TrySend(r, "INITIALIZE", ok)
             t == [i EXCEPT !.pending = "CONNECT"]
  <1>1. CASE ~s.cfg \/ ~s.wifiEnabled \/ ~s.port
    BY <1>1, FaultKeeps DEF BeginInitialize
  <1>2. CASE ~ (~s.cfg \/ ~s.wifiEnabled \/ ~s.port)
    <2>1. r \in Runtime
      BY DEF Runtime, LinkState
    <2>2. /\ r.state = "INITIALIZE" /\ r.wifiReady /\ r.shot = s.shot
          /\ r.brewSeen = s.brewSeen /\ r.out = s.out /\ r.port = s.port
      BY DEF Runtime
    <2>3. BeginInitialize(s, ok) = IF ok THEN t ELSE i
      BY <1>2 DEF BeginInitialize
    <2> HIDE DEF r
    <2>4. Keeps(s, r)
      BY <2>1, <2>2 DEF Keeps, Consistent, Proven, StageReady, Inert, Unsent, Keepalive
    <2>5. Keeps(r, i)
      BY <2>4, TrySendKeeps DEF Keeps, Command
    <2>6. Keeps(s, i)
      BY <2>4, <2>5, KeepsTrans
    <2>7. CASE ok
      <3>1. i = Send(r, "INITIALIZE", ok) /\ i \in Runtime
        BY <1>2, <2>2, <2>6, <2>7 DEF TrySend, Keeps, Consistent
      <3>2. Aside(r, Send(r, "INITIALIZE", ok))
        BY <2>1, SendFacts DEF Command
      <3> HIDE DEF i
      <3>3. i.state = "INITIALIZE" /\ i.wifiReady
        BY <2>2, <3>1, <3>2 DEF Aside
      <3>4. /\ t \in Runtime /\ t.state = i.state /\ t.wifiReady = i.wifiReady
            /\ t.shot = i.shot /\ t.brewSeen = i.brewSeen /\ t.out = i.out
        BY <3>1 DEF Runtime
      <3> HIDE DEF t
      <3>5. Keeps(i, t)
        BY <3>3, <3>4 DEF Keeps, Consistent, Proven, StageReady, Inert, Unsent, Keepalive
      <3> QED
        BY <2>3, <2>6, <2>7, <3>5, KeepsTrans
    <2> QED
      BY <2>3, <2>6, <2>7
  <1> QED
    BY <1>1, <1>2

LEMMA BeginConnectKeeps ==
  ASSUME NEW s, Consistent(s)
  PROVE  Keeps(s, BeginConnect(s))
  <1> DEFINE t == [s EXCEPT !.pending = "none", !.initDone = TRUE, !.wifiConn = FALSE,
                            !.tcpConn = FALSE, !.state = "CONNECT"]
  <1>1. /\ t \in Runtime /\ t.state = "CONNECT" /\ t.pending = "none" /\ t.shot = s.shot
        /\ t.brewSeen = s.brewSeen /\ t.out = s.out
    BY DEF Consistent, Runtime, LinkState
  <1>2. BeginConnect(s) = t \/ BeginConnect(s) = SetRuntimeFault(s)
    BY DEF BeginConnect
  <1> HIDE DEF t
  <1>3. Keeps(s, t)
    BY <1>1 DEF Keeps, Consistent, Proven, StageReady, Inert, Unsent, Keepalive
  <1> QED
    BY <1>2, <1>3, FaultKeeps DEF Consistent

LEMMA CheckPortAliveKeeps ==
  ASSUME NEW s, Consistent(s)
  PROVE  Keeps(s, CheckPortAlive(s))
  BY FaultKeeps, KeepsRefl DEF CheckPortAlive, Consistent

LEMMA AdvanceKeeps ==
  ASSUME NEW s, Consistent(s), NEW ok \in BOOLEAN
  PROVE  Keeps(s, AdvanceAutomaticFlow(s, ok))
  BY BeginInitializeKeeps, BeginConnectKeeps, KeepsRefl DEF AdvanceAutomaticFlow, Consistent

-----------------------------------------------------------------------------
(* Received frames. *)

LEMMA OnKeepaliveFrameKeeps ==
  ASSUME NEW s, Consistent(s), NEW f \in Frame
  PROVE  Keeps(s, OnKeepaliveFrame(s, f))
  <1> DEFINE req == [KeepaliveSeen(s) EXCEPT !.pending = "none", !.state = "CLIENT_RETURN"]
             resp == [KeepaliveSeen(s) EXCEPT !.state = "SERVER_SEND"]
  <1>1. /\ req \in Runtime /\ req.state = "CLIENT_RETURN" /\ req.pending = "none"
        /\ req.armed /\ req.wifiConn /\ req.tcpConn /\ req.initDone /\ req.connDone /\ ~req.fault
        /\ req.shot = s.shot /\ req.brewSeen = s.brewSeen /\ req.out = s.out
    BY DEF KeepaliveSeen, Consistent, Runtime, LinkState, Keepalive
  <1>2. /\ resp \in Runtime /\ resp.state = "SERVER_SEND" /\ resp.pending = s.pending
        /\ resp.wifiReady = s.wifiReady
        /\ resp.armed /\ resp.wifiConn /\ resp.tcpConn /\ resp.initDone /\ resp.connDone
        /\ ~resp.fault /\ resp.shot = s.shot /\ resp.brewSeen = s.brewSeen /\ resp.out = s.out
    BY DEF KeepaliveSeen, Consistent, Runtime, LinkState, Keepalive
  <1>3. OnKeepaliveFrame(s, f) \in {s, req, resp}
    BY DEF OnKeepaliveFrame
  <1> HIDE DEF req, resp
  <1>4. Keeps(s, req)
    BY <1>1 DEF Keeps, Consistent, Proven, StageReady, Inert, Unsent
  <1>5. Keeps(s, resp)
    BY <1>2 DEF Keeps, Consistent, Proven, StageReady, Inert, Unsent
  <1> QED
    BY <1>3, <1>4, <1>5, KeepsRefl

LEMMA OnErrorFrameKeeps ==
  ASSUME NEW s, Consistent(s), NEW f \in Frame
  PROVE  Keeps(s, OnErrorFrame(s, f))
  <1> DEFINE a == [s EXCEPT !.armed = FALSE, !.wifiConn = FALSE, !.tcpConn = FALSE,
                            !.state = "INITIALIZE"]
             b == [s EXCEPT !.armed = FALSE, !.tcpConn = FALSE, !.connDone = FALSE,
                            !.shot = FALSE, !.state = "CONNECT"]
  <1>1. /\ a \in Runtime /\ a.state = "INITIALIZE" /\ a.pending = s.pending
        /\ a.wifiReady = s.wifiReady /\ a.shot = s.shot /\ a.brewSeen = s.brewSeen /\ a.out = s.out
    BY DEF Consistent, Runtime, LinkState
  <1>2. /\ b \in Runtime /\ b.state = "CONNECT" /\ b.pending = s.pending
        /\ b.wifiReady = s.wifiReady /\ ~b.shot /\ b.brewSeen = s.brewSeen /\ b.out = s.out
    BY DEF Consistent, Runtime, LinkState
  <1>3. OnErrorFrame(s, f) \in {s, a, b}
    BY DEF OnErrorFrame
  <1> HIDE DEF a, b
  <1>4. Keeps(s, a)
    BY <1>1 DEF Keeps, Consistent, Proven, StageReady, Inert, Unsent, Keepalive
  <1>5. Keeps(s, b)
    BY <1>2 DEF Keeps, Consistent, Proven, StageReady, Inert, Unsent, Keepalive
  <1> QED
    BY <1>3, <1>4, <1>5, KeepsRefl

LEMMA BrewKeeps ==
  ASSUME NEW s, Consistent(s), NEW on \in BOOLEAN
  PROVE  Keeps(s, [s EXCEPT !.brew = on])
  <1> DEFINE t == [s EXCEPT !.brew = on]
  <1>1. t \in Runtime /\ Aside(s, t) /\ t.out = s.out
    BY DEF Consistent, Runtime, Aside
  <1> HIDE DEF t
  <1>2. Keeps(s, t)
    BY <1>1, AsideKeeps
  <1> QED
    BY <1>2 DEF t

LEMMA OnDataFrameKeeps ==
  ASSUME NEW s, Consistent(s), NEW f \in Frame, NEW ok \in BOOLEAN
  PROVE  Keeps(s, OnDataFrame(s, f, ok))
  <1>1. \A on \in BOOLEAN : Keeps(s, [s EXCEPT !.brew = on])
    BY BrewKeeps
  <1>2. \A on \in BOOLEAN : Keeps([s EXCEPT !.brew = on], Send([s EXCEPT !.brew = on], "text", ok))
    BY <1>1, SendKeeps DEF Keeps, Command
  <1>3. \A on \in BOOLEAN : Keeps(s, Send([s EXCEPT !.brew = on], "text", ok))
    BY <1>1, <1>2, KeepsTrans
  <1>4. Keeps(s, Send(s, "text", ok))
    BY SendKeeps DEF Command
  <1>5. OnDataFrame(s, f, ok) \in
          {s, [s EXCEPT !.brew = FALSE], Send([s EXCEPT !.brew = TRUE], "text", ok),
           Send([s EXCEPT !.brew = FALSE], "text", ok), Send(s, "text", ok)}
    BY DEF OnDataFrame
  <1> QED
    BY <1>1, <1>3, <1>4, <1>5, KeepsRefl

LEMMA OnAckFrameKeeps ==
  ASSUME NEW s, Consistent(s), NEW f \in Frame
  PROVE  Keeps(s, OnAckFrame(s, f))
  <1> DEFINE t == OnAckFrame(s, f)
  <1>1. CASE f.tag = "reset_ack"
    <2>1. /\ t \in Runtime /\ t.state = "RESET" /\ t.pending = "none" /\ ~t.shot /\ ~t.brewSeen
          /\ t.out = s.out
      <3> DEFINE c == ClearRuntimeFlow(s)
      <3>1. /\ c \in Runtime /\ c.pending = "none" /\ ~c.shot /\ ~c.brewSeen /\ c.out = s.out
        BY ClearRuntimeFlowFacts DEF Consistent
      <3>2. t = [c EXCEPT !.wifiReady = FALSE, !.wifiConn = FALSE, !.tcpConn = FALSE,
                          !.state = "RESET"]
        BY <1>1 DEF OnAckFrame
      <3> HIDE DEF c, t
      <3>3. t \in Runtime
        BY <3>1, <3>2, Updates, Zenon DEF LinkState
      <3>4. t.state = "RESET" /\ t.pending = c.pending /\ t.shot = c.shot
            /\ t.brewSeen = c.brewSeen /\ t.out = c.out
        BY <3>1, <3>2 DEF Runtime
      <3> QED
        BY <3>1, <3>3, <3>4
    <2> HIDE DEF t
    <2> QED
      BY <2>1, ClearedKeeps DEF Consistent, Keepalive, t
  <1>2. CASE \/ f.tag \in {"tcp_connected", "client_connected", "connect_ack",
                           "disconnect_ack", "initialize_ack"}
             \/ f.tag = "connect_success" /\ s.state = "CONNECT"
    <2>1. t \in Runtime
      <3>0. s \in Runtime /\ {"CONNECT", "DISCONNECT", "INITIALIZE"} \subseteq LinkState
        BY DEF Consistent, LinkState
      <3>1. CASE f.tag = "tcp_connected"
        <4>1. t = [s EXCEPT !.wifiConn = TRUE, !.tcpConn = TRUE, !.state = "CONNECT"]
          BY <3>1 DEF OnAckFrame
        <4> HIDE DEF t
        <4> QED
          BY <3>0, <4>1, Updates, Zenon
      <3>2. CASE f.tag = "client_connected"
        <4>1. t = [s EXCEPT !.pending = "none", !.connDone = TRUE, !.armed = FALSE,
                            !.wifiConn = TRUE, !.tcpConn = TRUE, !.state = "CONNECT"]
          BY <3>2 DEF OnAckFrame
        <4> HIDE DEF t
        <4> QED
          BY <3>0, <4>1, Updates, Zenon
      <3>3. CASE f.tag = "connect_ack"
        <4>1. t = [s EXCEPT !.wifiConn = TRUE, !.tcpConn = FALSE, !.state = "CONNECT"]
          BY <3>3 DEF OnAckFrame
        <4> HIDE DEF t
        <4> QED
          BY <3>0, <4>1, Updates, Zenon
      <3>4. CASE f.tag = "connect_success" /\ s.state = "CONNECT"
        <4>1. t = [s EXCEPT !.pending = "none", !.connDone = TRUE, !.armed = FALSE,
                            !.wifiConn = TRUE, !.tcpConn = TRUE]
          BY <3>4 DEF OnAckFrame
        <4> HIDE DEF t
        <4> QED
          BY <3>0, <4>1, Updates, Zenon
      <3>5. CASE f.tag = "disconnect_ack"
        <4>1. t = [s EXCEPT !.tcpConn = FALSE, !.armed = FALSE, !.state = "DISCONNECT"]
          BY <3>5 DEF OnAckFrame
        <4> HIDE DEF t
        <4> QED
          BY <3>0, <4>1, Updates, Zenon
      <3>6. CASE f.tag = "initialize_ack"
        <4>1. t = [s EXCEPT !.wifiReady = TRUE, !.wifiConn = FALSE, !.tcpConn = FALSE,
                            !.initDone = TRUE, !.state = "INITIALIZE"]
          BY <3>6 DEF OnAckFrame
        <4> HIDE DEF t
        <4> QED
          BY <3>0, <4>1, Updates, Zenon
      <3> QED
        BY <1>2, <3>1, <3>2, <3>3, <3>4, <3>5, <3>6
    <2>2. /\ t.state \in {"CONNECT", "DISCONNECT", "INITIALIZE"}
          /\ t.pending \in {"none", s.pending} /\ (s.wifiReady => t.wifiReady)
          /\ t.shot = s.shot /\ t.brewSeen = s.brewSeen /\ t.out = s.out
      BY <1>2 DEF OnAckFrame, Consistent, Runtime
    <2> HIDE DEF t
    <2>3. Keeps(s, t)
      BY <2>1, <2>2 DEF Keeps, Consistent, Proven, StageReady, Inert, Unsent, Keepalive
    <2> QED
      BY <2>3 DEF t
  <1>3. CASE ~ (\/ f.tag \in {"reset_ack", "tcp_connected", "client_connected", "connect_ack",
                              "disconnect_ack", "initialize_ack"}
                \/ f.tag = "connect_success" /\ s.state = "CONNECT")
    <2>1. t = s
      BY <1>3 DEF OnAckFrame
    <2> QED
      BY <2>1, KeepsRefl
  <1> QED
    BY <1>1, <1>2, <1>3

LEMMA OnFrameKeeps ==
  ASSUME NEW s, Consistent(s), NEW f \in Frame, NEW ok \in BOOLEAN
  PROVE  Keeps(s, OnFrame(s, f, ok))
  <1>1. f.type \in {"ACK", "ERROR", "KEEPALIVE", "DATA"}
    BY DEF Frame
  <1> QED
    BY <1>1, OnErrorFrameKeeps, OnKeepaliveFrameKeeps, OnDataFrameKeeps, OnAckFrameKeeps
    DEF OnFrame

-----------------------------------------------------------------------------
(* All the frames of a poll, however many: induction on their number, by the *)
(* least-number principle.                                                   *)

(* The attributes after each of the first n frames. *)
Trace(g, s, frames, k, n) ==
  g = [i \in 0 .. n |-> IF i = 0 THEN s ELSE OnFrame(g[i - 1], frames[i], i <= k)]

LEMMA TraceExists ==
  ASSUME NEW s, NEW frames, NEW k
  PROVE  \A n \in Nat : \E g : Trace(g, s, frames, k, n)
  <1> DEFINE Has(n) == \E g : Trace(g, s, frames, k, n)
             T == {n \in Nat : ~ Has(n)}
  <1> HIDE DEF Has
  <1>1. ASSUME NEW n \in T, \A y \in T : n <= y
        PROVE  FALSE
    <2>1. n \in Nat /\ ~ Has(n)
      OBVIOUS
    <2>2. CASE n = 0
      <3>1. Trace([i \in 0 .. 0 |-> s], s, frames, k, 0)
        BY DEF Trace
      <3> QED
        BY <2>1, <2>2, <3>1 DEF Has
    <2>3. CASE n # 0
      <3>1. n - 1 \in Nat /\ ~ (n <= n - 1)
        BY <2>1, <2>3
      <3>2. Has(n - 1)
        BY <1>1, <3>1
      <3>3. PICK g : Trace(g, s, frames, k, n - 1)
        BY <3>2 DEF Has
      <3> DEFINE last == OnFrame(g[n - 1], frames[n], n <= k)
                 e == [i \in 0 .. n |-> IF i = n THEN last ELSE g[i]]
      <3>4. \A i \in 0 .. n - 1 : e[i] = g[i]
        BY <3>1
      <3>5. \A i \in 0 .. n - 1 :
              g[i] = IF i = 0 THEN s ELSE OnFrame(g[i - 1], frames[i], i <= k)
        BY <3>3 DEF Trace
      <3>6. ASSUME NEW i \in 0 .. n
            PROVE  e[i] = IF i = 0 THEN s ELSE OnFrame(e[i - 1], frames[i], i <= k)
        <4>1. CASE i = n
          <5>1. e[n - 1] = g[n - 1] /\ e[n] = last
            BY <3>1, <3>4
          <5> QED
            BY <2>3, <4>1, <5>1
        <4>2. CASE i = 0
          BY <3>4, <3>5, <3>1, <4>2
        <4>3. CASE i # n /\ i # 0
          <5>1. i \in 0 .. n - 1 /\ i - 1 \in 0 .. n - 1
            BY <4>3, <2>1
          <5> HIDE DEF e
          <5> QED
            BY <3>4, <3>5, <4>3, <5>1
        <4> QED
          BY <4>1, <4>2, <4>3
      <3>7. e = [i \in 0 .. n |-> e[i]]
        OBVIOUS
      <3> HIDE DEF e
      <3>8. Trace(e, s, frames, k, n)
        BY <3>6, <3>7 DEF Trace
      <3> QED
        BY <2>1, <3>8 DEF Has
    <2> QED
      BY <2>2, <2>3
  <1>2. T = {}
    <2>1. T \in SUBSET Nat
      OBVIOUS
    <2> HIDE DEF T
    <2> QED
      BY <1>1, <2>1, LeastNat
  <1> QED
    BY <1>2 DEF Has

LEMMA TraceKeeps ==
  ASSUME NEW s, Consistent(s), NEW frames \in Seq(Frame), NEW k \in Nat, NEW g,
         Trace(g, s, frames, k, Len(frames))
  PROVE  \A n \in 0 .. Len(frames) : Keeps(s, g[n])
  <1> DEFINE T == {n \in 0 .. Len(frames) : ~ Keeps(s, g[n])}
  <1>1. \A n \in 0 .. Len(frames) :
          g[n] = IF n = 0 THEN s ELSE OnFrame(g[n - 1], frames[n], n <= k)
    BY DEF Trace
  <1>2. ASSUME NEW n \in T, \A y \in T : n <= y
        PROVE  FALSE
    <2>1. n \in 0 .. Len(frames) /\ Len(frames) \in Nat /\ ~ Keeps(s, g[n])
      OBVIOUS
    <2>2. n # 0
      BY <1>1, <2>1, KeepsRefl
    <2>3. n - 1 \in 0 .. Len(frames) /\ ~ (n <= n - 1)
      BY <2>1, <2>2
    <2>4. Keeps(s, g[n - 1])
      BY <1>2, <2>3
    <2>5. frames[n] \in Frame /\ (n <= k) \in BOOLEAN
      BY <2>1, <2>2
    <2>6. Keeps(g[n - 1], OnFrame(g[n - 1], frames[n], n <= k))
      BY <2>4, <2>5, OnFrameKeeps DEF Keeps
    <2> QED
      BY <1>1, <2>1, <2>2, <2>4, <2>6, KeepsTrans
  <1>3. T = {}
    <2>1. T \in SUBSET Nat
      OBVIOUS
    <2> HIDE DEF T
    <2> QED
      BY <1>2, <2>1, LeastNat
  <1> QED
    BY <1>3

LEMMA HandleAllKeeps ==
  ASSUME NEW s, Consistent(s), NEW frames \in Seq(Frame), NEW k \in Nat
  PROVE  Keeps(s, HandleAll(s, frames, k))
  <1> DEFINE after == CHOOSE g : Trace(g, s, frames, k, Len(frames))
  <1>1. Len(frames) \in Nat
    OBVIOUS
  <1>2. Trace(after, s, frames, k, Len(frames))
    BY <1>1, TraceExists
  <1>3. HandleAll(s, frames, k) = after[Len(frames)]
    BY DEF HandleAll, Trace
  <1> HIDE DEF after
  <1> QED
    BY <1>1, <1>2, <1>3, TraceKeeps

-----------------------------------------------------------------------------
(* The commands. *)

LEMMA DoResetKeeps ==
  ASSUME NEW s, Consistent(s), NEW ok \in BOOLEAN
  PROVE  Keeps(s, DoReset(s, ok))
  <1> DEFINE c == [ClearRuntimeFlow(s) EXCEPT !.wifiReady = FALSE, !.wifiConn = FALSE,
                     !.tcpConn = FALSE, !.fault = FALSE, !.state = "RESET"]
             r == TrySend(c, "RESET", ok)
             t == [r EXCEPT !.pending = "INITIALIZE"]
  <1>1. /\ c \in Runtime /\ c.state = "RESET" /\ c.pending = "none" /\ ~c.shot /\ ~c.brewSeen
        /\ c.out = s.out /\ c.port = s.port
    <2>1. c \in Runtime
      BY ClearRuntimeFlowFacts, Updates, Zenon DEF Consistent, LinkState
    <2> QED
      BY <2>1, ClearRuntimeFlowFacts DEF Consistent, Runtime
  <1>2. DoReset(s, ok) = IF s.port /\ ok THEN t ELSE r
    BY DEF DoReset
  <1> HIDE DEF c
  <1>3. Keeps(s, c)
    BY <1>1, ClearedKeeps DEF Consistent, Keepalive
  <1>4. Keeps(c, r)
    BY <1>3, TrySendKeeps DEF Keeps, Command
  <1>5. Keeps(s, r)
    BY <1>3, <1>4, KeepsTrans
  <1>6. CASE s.port /\ ok
    <2>1. r = Send(c, "RESET", ok) /\ r \in Runtime
      BY <1>1, <1>5, <1>6 DEF TrySend, Keeps, Consistent
    <2>2. Aside(c, Send(c, "RESET", ok))
      BY <1>1, SendFacts DEF Command
    <2> HIDE DEF r
    <2>3. r.state = "RESET"
      BY <1>1, <2>1, <2>2 DEF Aside
    <2>4. /\ t \in Runtime /\ t.state = r.state /\ t.pending = "INITIALIZE"
          /\ t.shot = r.shot /\ t.brewSeen = r.brewSeen /\ t.out = r.out
      BY <2>1 DEF Runtime
    <2> HIDE DEF t
    <2>5. Keeps(r, t)
      BY <2>3, <2>4 DEF Keeps, Consistent, Proven, StageReady, Inert, Unsent, Keepalive
    <2> QED
      BY <1>2, <1>5, <1>6, <2>5, KeepsTrans
  <1> QED
    BY <1>2, <1>5, <1>6

LEMMA DoInitializeKeeps ==
  ASSUME NEW s, Consistent(s), NEW ok \in BOOLEAN
  PROVE  Keeps(s, DoInitialize(s, ok))
  <1> DEFINE c == ClearRuntimeFlow(s)
  <1>1. CASE s.state = "ERROR"
    BY <1>1, KeepsRefl DEF DoInitialize
  <1>2. CASE s.state # "ERROR"
    <2>1. c \in Runtime /\ ~c.shot /\ ~c.brewSeen /\ c.out = s.out
      BY ClearRuntimeFlowFacts DEF Consistent
    <2>2. DoInitialize(s, ok) = BeginInitialize(c, ok)
      BY <1>2 DEF DoInitialize
    <2> HIDE DEF c
    <2>3. Keeps(c, BeginInitialize(c, ok))
      BY <2>1, BeginInitializeKeeps
    <2> QED
      BY <2>1, <2>2, <2>3 DEF Keeps, Unsent
  <1> QED
    BY <1>1, <1>2

LEMMA DoSendDataKeeps ==
  ASSUME NEW s, Consistent(s), NEW ok \in BOOLEAN
  PROVE  Keeps(s, DoSendData(s, ok))
  <1> DEFINE c == [s EXCEPT !.initDone = TRUE, !.connDone = TRUE]
  <1>1. /\ c \in Runtime /\ c.state = s.state /\ c.fault = s.fault /\ c.armed = s.armed
        /\ c.pending = s.pending /\ c.wifiReady = s.wifiReady /\ c.wifiConn = s.wifiConn
        /\ c.tcpConn = s.tcpConn /\ c.initDone /\ c.connDone
        /\ c.shot = s.shot /\ c.brewSeen = s.brewSeen /\ c.out = s.out
    BY DEF Consistent, Runtime
  <1>2. DoSendData(s, ok) \in {s, TrySend(c, "text", ok)}
    BY DEF DoSendData
  <1> HIDE DEF c
  <1>3. Keeps(s, c)
    BY <1>1 DEF Keeps, Consistent, Proven, StageReady, Inert, Unsent
  <1>4. Keeps(c, TrySend(c, "text", ok))
    BY <1>3, TrySendKeeps DEF Keeps, Command
  <1> QED
    BY <1>2, <1>3, <1>4, KeepsTrans, KeepsRefl

LEMMA DoCloseKeeps ==
  ASSUME NEW s, Consistent(s)
  PROVE  Keeps(s, DoClose(s)) /\ Keeps(s, [DoClose(s) EXCEPT !.fault = FALSE])
  <1> DEFINE c == DoClose(s)
             d == [c EXCEPT !.fault = FALSE]
  <1>1. /\ c \in Runtime /\ c.state = "RESET" /\ c.pending = "none" /\ ~c.shot /\ ~c.brewSeen
        /\ c.out = s.out
    <2>1. c \in Runtime
      BY ClearRuntimeFlowFacts, Updates, Zenon DEF DoClose, Consistent, LinkState
    <2> QED
      BY <2>1, ClearRuntimeFlowFacts DEF DoClose, Consistent, Runtime
  <1>2. Keeps(s, c)
    <2> HIDE DEF c
    <2> QED
      BY <1>1, ClearedKeeps DEF Consistent, Keepalive
  <1>3. Keeps(s, d)
    <2> HIDE DEF c
    <2>1. /\ d \in Runtime /\ d.state = "RESET" /\ d.pending = "none" /\ ~d.shot /\ ~d.brewSeen
          /\ d.out = s.out
      BY <1>1 DEF Runtime
    <2> HIDE DEF d
    <2> QED
      BY <2>1, ClearedKeeps DEF Consistent, Keepalive
  <1> QED
    BY <1>2, <1>3

LEMMA DoToggleWifiKeeps ==
  ASSUME NEW s, Consistent(s), NEW ok \in BOOLEAN
  PROVE  Keeps(s, DoToggleWifi(s, ok))
  <1> DEFINE on == ~s.wifiEnabled
             r == IF s.port THEN Send(s, IF on THEN "wifi_enable" ELSE "wifi_disable", ok) ELSE s
             t == [ClearRuntimeFlow(r) EXCEPT !.wifiEnabled = on, !.wifiReady = FALSE,
                     !.wifiConn = FALSE, !.tcpConn = FALSE, !.fault = FALSE, !.state = "RESET"]
  <1>1. DoToggleWifi(s, ok) = t
    BY DEF DoToggleWifi
  <1>2. Keeps(s, r)
    BY SendKeeps, KeepsRefl DEF Command
  <1>3. r \in Runtime /\ on \in BOOLEAN
    BY <1>2 DEF Keeps, Consistent
  <1> HIDE DEF r, on
  <1>4. /\ t \in Runtime /\ t.state = "RESET" /\ t.pending = "none" /\ ~t.shot /\ ~t.brewSeen
        /\ t.out = r.out
    <2>1. t \in Runtime
      BY <1>3, ClearRuntimeFlowFacts, Updates, Zenon DEF LinkState
    <2> QED
      BY <1>3, <2>1, ClearRuntimeFlowFacts DEF Runtime
  <1> HIDE DEF t
  <1>5. Keeps(r, t)
    BY <1>3, <1>4, ClearedKeeps DEF Keepalive
  <1> QED
    BY <1>1, <1>2, <1>5, KeepsTrans

LEMMA BodyKeeps ==
  ASSUME NEW s, Consistent(s), NEW call \in PollingCall, NEW ok \in BOOLEAN
  PROVE  Keeps(s, Body(call, s, ok))
  <1>1. CASE call = "get_snapshot"
    <2>1. Keeps(s, CheckPortAlive(s))
      BY CheckPortAliveKeeps
    <2>2. Keeps(CheckPortAlive(s), AdvanceAutomaticFlow(CheckPortAlive(s), ok))
      BY <2>1, AdvanceKeeps DEF Keeps
    <2> QED
      BY <1>1, <2>1, <2>2, KeepsTrans DEF Body
  <1>2. CASE call # "get_snapshot"
    BY <1>2, DoInitializeKeeps, DoSendDataKeeps, KeepsRefl DEF Body, PollingCall
  <1> QED
    BY <1>1, <1>2

-----------------------------------------------------------------------------
(* The snapshot, and the shot_done_success it may send. *)

(* A step of the runtime from s, on which nothing is written yet, to t.  A   *)
(* shot is announced, or a brew remembered, only after a brew was seen.      *)
Announces(s, t) ==
  /\ Consistent(t)
  /\ t.shot => s.shot \/ s.brewSeen
  /\ t.brewSeen => t.brew \/ s.brewSeen
  /\ Wrote(t, "shot_done") =>
       /\ s.shot \/ s.brewSeen
       /\ ~t.brew /\ ~t.shot /\ ~t.brewSeen /\ t.state \in Keepalive

LEMMA KeepsAnnounces ==
  ASSUME NEW s, NEW t, Unsent(s), Keeps(s, t)
  PROVE  Announces(s, t)
  BY DEF Keeps, Announces, Unsent, Wrote

LEMMA SnapshotAnnounces ==
  ASSUME NEW s, Consistent(s), Unsent(s), NEW due \in BOOLEAN, NEW ok \in BOOLEAN
  PROVE  Announces(s, Snapshot(s, due, ok))
  <1> DEFINE ended == s.brewSeen /\ ~s.brew
             shot == ~s.brew /\ (ended \/ s.shot)
             seen == [s EXCEPT !.shot = shot, !.brewSeen = s.brew]
             sent == Send(seen, "shot_done", ok)
             done == [sent EXCEPT !.shot = ~ok]
             skip == [seen EXCEPT !.shot = FALSE]
  <1>1. /\ seen \in Runtime /\ seen.state = s.state /\ seen.fault = s.fault
        /\ seen.armed = s.armed /\ seen.pending = s.pending /\ seen.wifiReady = s.wifiReady
        /\ seen.wifiConn = s.wifiConn /\ seen.tcpConn = s.tcpConn
        /\ seen.initDone = s.initDone /\ seen.connDone = s.connDone
        /\ seen.shot = shot /\ seen.brewSeen = s.brew /\ seen.brew = s.brew /\ seen.out = s.out
    <2>1. s \in Runtime /\ shot \in BOOLEAN /\ s.brew \in BOOLEAN
      BY DEF Consistent, Runtime
    <2> HIDE DEF shot
    <2>2. seen \in Runtime
      BY <2>1, Updates, Zenon
    <2> QED
      BY <2>1, <2>2 DEF Runtime
  <1>2. \/ Snapshot(s, due, ok) = seen
        \/ shot /\ Snapshot(s, due, ok) = ForwardShotDone(seen, ok)
    BY DEF Snapshot
  <1>3. ~s.brew /\ (s.shot \/ s.brewSeen) <=> shot
    BY DEF Consistent, Runtime
  <1> HIDE DEF seen, shot
  <1>4. Consistent(seen) /\ Unsent(seen)
    BY <1>1 DEF Consistent, Proven, StageReady, Inert, Unsent
  <1>5. Announces(s, seen)
    BY <1>1, <1>3, <1>4 DEF Announces, Unsent, Wrote
  <1>6. ASSUME shot
        PROVE  Announces(s, ForwardShotDone(seen, ok))
    <2>1. CASE seen.port /\ seen.tcpConn /\ seen.state \in Keepalive
      <3>1. sent \in Runtime /\ Aside(seen, sent) /\ sent.brew = seen.brew
        BY <1>1, SendFacts DEF Command
      <3>2. ok \/ sent.out = seen.out
        BY <1>1 DEF Send, Runtime
      <3>3. ForwardShotDone(seen, ok) = done
        BY <2>1 DEF ForwardShotDone
      <3> HIDE DEF sent
      <3>4. /\ sent.state = s.state /\ sent.fault = s.fault
            /\ sent.armed = s.armed /\ sent.pending = s.pending /\ sent.wifiReady = s.wifiReady
            /\ sent.wifiConn = s.wifiConn /\ sent.tcpConn = s.tcpConn
            /\ sent.initDone = s.initDone /\ sent.connDone = s.connDone
            /\ sent.brewSeen = s.brew /\ sent.brew = s.brew
        BY <1>1, <3>1 DEF Aside
      <3>5. /\ done \in Runtime /\ done.state = s.state /\ done.fault = s.fault
            /\ done.armed = s.armed /\ done.pending = s.pending /\ done.wifiReady = s.wifiReady
            /\ done.wifiConn = s.wifiConn /\ done.tcpConn = s.tcpConn
            /\ done.initDone = s.initDone /\ done.connDone = s.connDone
            /\ done.brewSeen = s.brew /\ done.brew = s.brew /\ done.out = sent.out
            /\ done.shot = ~ok
        BY <3>1, <3>4 DEF Runtime
      <3> HIDE DEF done
      <3>6. Consistent(done)
        BY <3>5 DEF Consistent, Proven, StageReady, Inert
      <3>7. Wrote(done, "shot_done") => ok
        BY <1>4, <3>2, <3>5 DEF Wrote, Unsent
      <3>8. done.state \in Keepalive
        BY <1>1, <2>1, <3>5
      <3> QED
        BY <1>3, <1>6, <3>3, <3>5, <3>6, <3>7, <3>8 DEF Announces
    <2>2. CASE ~ (seen.port /\ seen.tcpConn /\ seen.state \in Keepalive)
      <3>1. /\ skip \in Runtime /\ skip.state = s.state /\ skip.fault = s.fault
            /\ skip.armed = s.armed /\ skip.pending = s.pending /\ skip.wifiReady = s.wifiReady
            /\ skip.wifiConn = s.wifiConn /\ skip.tcpConn = s.tcpConn
            /\ skip.initDone = s.initDone /\ skip.connDone = s.connDone
            /\ skip.brewSeen = s.brew /\ skip.brew = s.brew /\ skip.out = s.out /\ ~skip.shot
        BY <1>1 DEF Runtime
      <3>2. ForwardShotDone(seen, ok) = skip
        BY <2>2 DEF ForwardShotDone
      <3> HIDE DEF skip
      <3>3. Consistent(skip)
        BY <3>1 DEF Consistent, Proven, StageReady, Inert
      <3> QED
        BY <3>1, <3>2, <3>3 DEF Announces, Wrote, Unsent
    <2> QED
      BY <2>1, <2>2
  <1> QED
    BY <1>2, <1>5, <1>6

-----------------------------------------------------------------------------
(* The steps. *)

(* A brew that runs, was seen to run or waits to be announced is owed. *)
ShotOwed == h.shot \/ h.brewSeen \/ h.brew => owed

HostInv == HostTypeOK /\ Consistent(h) /\ ShotOwed

(* The next attributes, as a method computes them from this step's start. *)
Told == \E t : Become(t) /\ Announces(FreshOut(h), t)

LEMMA FreshOutFacts ==
  ASSUME NEW s, Consistent(s)
  PROVE  /\ Consistent(FreshOut(s)) /\ Unsent(FreshOut(s))
         /\ FreshOut(s).shot = s.shot /\ FreshOut(s).brewSeen = s.brewSeen
  <1> DEFINE none == <<>>
             t == [s EXCEPT !.out = none]
  <1>1. none \in Seq(Command) /\ DOMAIN none = {}
    OBVIOUS
  <1>2. FreshOut(s) = t
    BY DEF FreshOut
  <1> HIDE DEF none
  <1>3. t \in Runtime /\ Aside(s, t) /\ t.out = none
    BY <1>1 DEF Consistent, Runtime, Aside
  <1> HIDE DEF t
  <1>4. Consistent(t)
    BY <1>3 DEF Consistent, Proven, StageReady, Inert, Aside
  <1>5. Unsent(t)
    BY <1>1, <1>3 DEF Unsent
  <1> QED
    BY <1>2, <1>3, <1>4, <1>5 DEF Aside

LEMMA LockedTold ==
  ASSUME Consistent(h), NEW s, Keeps(FreshOut(h), s), Locked(s)
  PROVE  Told
  <1>1. Consistent(s) /\ Unsent(s)
    BY FreshOutFacts DEF Keeps
  <1>2. PICK t \in {Snapshot(s, due, ok) : due, ok \in BOOLEAN} : Become(t)
    BY DEF Locked
  <1>3. PICK due \in BOOLEAN, ok \in BOOLEAN : t = Snapshot(s, due, ok)
    OBVIOUS
  <1>4. Announces(s, t)
    BY <1>1, <1>3, SnapshotAnnounces
  <1>5. Announces(FreshOut(h), t)
    BY <1>4 DEF Announces, Keeps
  <1> QED
    BY <1>2, <1>5 DEF Told

LEMMA BecomeTold ==
  ASSUME Consistent(h), NEW s, Keeps(FreshOut(h), s), Become(s)
  PROVE  Told
  BY FreshOutFacts, KeepsAnnounces DEF Told

(* The small updates the steps start from. *)
LEMMA SmallUpdates ==
  ASSUME NEW s, Consistent(s), NEW on \in BOOLEAN
  PROVE  Keeps(s, [s EXCEPT !.port = on]) /\ Keeps(s, [s EXCEPT !.cfg = on])
  <1> DEFINE p == [s EXCEPT !.port = on]
             c == [s EXCEPT !.cfg = on]
  <1>1. p \in Runtime /\ Aside(s, p) /\ p.out = s.out
    BY DEF Consistent, Runtime, Aside
  <1>2. c \in Runtime /\ Aside(s, c) /\ c.out = s.out
    BY DEF Consistent, Runtime, Aside
  <1> HIDE DEF p, c
  <1>3. Keeps(s, p) /\ Keeps(s, c)
    BY <1>1, <1>2, AsideKeeps
  <1> QED
    BY <1>3 DEF p, c

LEMMA NextTold ==
  ASSUME HostTypeOK, Consistent(h), HostNext
  PROVE  Told
  <1> DEFINE s == FreshOut(h)
  <1>1. Consistent(s) /\ s \in Runtime
    BY FreshOutFacts DEF Consistent
  <1> HIDE DEF s
  <1>2. ASSUME NEW call \in PollingCall, NEW ok \in BOOLEAN, Poll(call, ok)
        PROVE  Told
    <2>1. PICK k \in 0 .. Len(rx) : Locked(Body(call, HandleAll(s, rx, k), ok))
      BY <1>2 DEF Poll, s
    <2>2. rx \in Seq(Frame) /\ k \in Nat
      BY DEF HostTypeOK
    <2>3. Keeps(s, HandleAll(s, rx, k))
      BY <1>1, <2>2, HandleAllKeeps
    <2>4. Keeps(HandleAll(s, rx, k), Body(call, HandleAll(s, rx, k), ok))
      BY <2>3, BodyKeeps DEF Keeps
    <2>5. Keeps(s, Body(call, HandleAll(s, rx, k), ok))
      BY <2>3, <2>4, KeepsTrans
    <2> QED
      BY <2>1, <2>5, LockedTold DEF s
  <1>3. ASSUME NEW ok \in BOOLEAN, Reset(ok) \/ OpenReset(ok)
        PROVE  Told
    <2>1. Keeps(s, DoReset(s, ok))
      BY <1>1, DoResetKeeps
    <2> QED
      BY <1>3, <2>1, LockedTold DEF Reset, OpenReset, s
  <1>4. ASSUME NEW ok \in BOOLEAN, ToggleWifiEnabled(ok)
        PROVE  Told
    <2>1. Keeps(s, DoToggleWifi(s, ok))
      BY <1>1, DoToggleWifiKeeps
    <2> QED
      BY <1>4, <2>1, LockedTold DEF ToggleWifiEnabled, s
  <1>5. ASSUME NEW ok \in BOOLEAN, DownlinkWrite(ok)
        PROVE  Told
    <2>1. Keeps(s, Send(s, "downlink", ok))
      BY <1>1, SendKeeps DEF Command
    <2> QED
      BY <1>5, <2>1, BecomeTold DEF DownlinkWrite, s
  <1>6. ASSUME NEW ok \in BOOLEAN, ForwardSimulation(ok)
        PROVE  Told
    <2>1. Keeps(s, Forward(s, "text", ok))
      BY <1>1, ForwardKeeps DEF Command
    <2> QED
      BY <1>6, <2>1, LockedTold DEF ForwardSimulation, s
  <1>7. ASSUME NEW ok \in BOOLEAN, ResetTelemetry(ok)
        PROVE  Told
    <2>1. Keeps(s, Forward(s, "telemetry_reset", ok))
      BY <1>1, ForwardKeeps DEF Command
    <2> QED
      BY <1>7, <2>1, LockedTold DEF ResetTelemetry, s
  <1>8. ASSUME NEW valid \in BOOLEAN, ConfigureTransport(valid)
        PROVE  Told
    <2>1. Keeps(s, [s EXCEPT !.cfg = valid])
      BY <1>1, SmallUpdates
    <2> QED
      BY <1>8, <2>1, LockedTold DEF ConfigureTransport, s
  <1>9. ASSUME NEW call \in {"close", "release"}, StopPayload(call)
        PROVE  Told
    <2>1. Keeps(s, [s EXCEPT !.brew = FALSE])
      BY <1>1, BrewKeeps
    <2> QED
      BY <1>9, <2>1, BecomeTold DEF StopPayload, s
  <1>10. ASSUME CloseTransport \/ ForceReleaseTransport
         PROVE  Told
    <2>1. Keeps(s, DoClose(s)) /\ Keeps(s, [DoClose(s) EXCEPT !.fault = FALSE])
      BY <1>1, DoCloseKeeps
    <2> QED
      BY <1>10, <2>1, LockedTold DEF CloseTransport, ForceReleaseTransport, s
  <1>11. ASSUME CaptureInternalFailure \/ OpenFailed
         PROVE  Told
    <2>1. Keeps(s, SetRuntimeFault(s))
      BY <1>1, FaultKeeps
    <2> QED
      BY <1>11, <2>1, LockedTold DEF CaptureInternalFailure, OpenFailed, s
  <1>12. ASSUME OpenTransport \/ DownlinkFrame \/ (\E f \in BridgeFrames : ReceiveFrame(f))
         PROVE  Told
    <2>1. Keeps(s, s)
      BY <1>1, KeepsRefl
    <2> QED
      BY <1>12, <2>1, LockedTold, BecomeTold DEF OpenTransport, DownlinkFrame, ReceiveFrame, s
  <1>13. ASSUME OpenAttempt \/ LosePort
         PROVE  Told
    <2>1. Keeps(s, [s EXCEPT !.port = TRUE]) /\ Keeps(s, [s EXCEPT !.port = FALSE])
      BY <1>1, SmallUpdates
    <2> QED
      BY <1>13, <2>1, BecomeTold DEF OpenAttempt, LosePort, s
  <1>14. ASSUME OpenPrepare \/ BrewComplete \/ TurnSimulationOn
         PROVE  Told
    <2>1. Keeps(s, [s EXCEPT !.brew = FALSE])
      BY <1>1, BrewKeeps
    <2> QED
      BY <1>14, <2>1, BecomeTold DEF OpenPrepare, BrewComplete, TurnSimulationOn, s
  <1> QED
    BY <1>2, <1>3, <1>4, <1>5, <1>6, <1>7, <1>8, <1>9, <1>10, <1>11, <1>12, <1>13, <1>14
    DEF HostNext, HostStep

-----------------------------------------------------------------------------
(* The invariant, and what it implies. *)

LEMMA HostInitInv == HostInit => HostInv
  <1> SUFFICES ASSUME HostInit
               PROVE  HostInv
    OBVIOUS
  <1> DEFINE none == <<>>
  <1>1. none \in Seq(Command) /\ none \in Seq(Frame)
    OBVIOUS
  <1>2. /\ h = [state |-> "RESET", fault |-> FALSE, armed |-> FALSE, pending |-> "none",
                cfg |-> TRUE, wifiEnabled |-> TRUE, wifiReady |-> FALSE, wifiConn |-> FALSE,
                tcpConn |-> FALSE, initDone |-> FALSE, connDone |-> FALSE, brewSeen |-> FALSE,
                shot |-> FALSE, port |-> FALSE, brew |-> FALSE, out |-> none]
        /\ rx = none
    BY DEF HostInit
  <1> HIDE DEF none
  <1>3. h \in Runtime
    BY <1>1, <1>2 DEF Runtime, LinkState
  <1>4. h.state = "RESET" /\ h.pending = "none" /\ ~h.shot /\ ~h.brewSeen /\ ~h.brew
    BY <1>2
  <1>5. opener \in Opener /\ closer \in {"idle", "close", "release"}
    BY HostConstants DEF HostInit, Opener
  <1>6. dl \in Downlink /\ owed \in BOOLEAN
    BY DEF HostInit, Downlink
  <1>7. Consistent(h)
    BY <1>3, <1>4 DEF Consistent, Proven, StageReady, Inert, Keepalive
  <1> QED
    BY <1>1, <1>2, <1>3, <1>4, <1>5, <1>6, <1>7 DEF HostInv, HostTypeOK, ShotOwed

(* A step keeps what it says of the attributes and of the history. *)
LEMMA ToldKeeps ==
  ASSUME HostInv, Told
  PROVE  /\ Consistent(h)' /\ ShotOwed' /\ owed' \in BOOLEAN
         /\ Wrote(h', "shot_done") => owed /\ ~h'.brew /\ h'.state \in Keepalive
  <1>1. PICK t : Become(t) /\ Announces(FreshOut(h), t)
    BY DEF Told
  <1>2. FreshOut(h).shot = h.shot /\ FreshOut(h).brewSeen = h.brewSeen
    BY FreshOutFacts DEF HostInv
  <1>3. h' = t /\ owed' = (t.brew \/ (owed /\ ~Wrote(t, "shot_done")))
    BY <1>1 DEF Become
  <1>4. Consistent(t)
    BY <1>1 DEF Announces
  <1>5. owed' \in BOOLEAN
    BY <1>3
  <1>6. Wrote(t, "shot_done") => owed /\ ~t.brew /\ ~t.shot /\ ~t.brewSeen /\ t.state \in Keepalive
    BY <1>1, <1>2 DEF Announces, HostInv, ShotOwed
  <1>7. t.shot \/ t.brewSeen \/ t.brew => owed'
    BY <1>1, <1>2, <1>3, <1>6 DEF Announces, HostInv, ShotOwed
  <1>8. Consistent(h)'
    BY <1>3, <1>4 DEF Consistent, Proven, StageReady, Inert
  <1> QED
    BY <1>3, <1>5, <1>6, <1>7, <1>8 DEF ShotOwed

(* A step keeps the types of what is not an attribute. *)
LEMMA NextTypes ==
  ASSUME HostTypeOK, HostNext
  PROVE  /\ rx' \in Seq(Frame) /\ opener' \in Opener
         /\ closer' \in {"idle", "close", "release"} /\ dl' \in Downlink
  <1>1. /\ rx \in Seq(Frame) /\ opener \in Opener
        /\ closer \in {"idle", "close", "release"} /\ dl \in Downlink
    BY DEF HostTypeOK
  <1>2. rx' \in Seq(Frame)
    <2>1. rx' = rx \/ rx' = <<>> \/ \E f \in BridgeFrames : rx' = Append(rx, f)
      BY DEF HostNext, HostStep, Poll, Reset, ToggleWifiEnabled, OpenReset, DownlinkWrite,
             TurnSimulationOn, ForwardSimulation, ResetTelemetry, ConfigureTransport, StopPayload,
             CloseTransport, ForceReleaseTransport, CaptureInternalFailure, OpenTransport,
             OpenAttempt, OpenFailed, OpenPrepare, DownlinkFrame, BrewComplete, LosePort,
             ReceiveFrame
    <2>2. CASE rx' = <<>>
      BY <2>2
    <2>3. ASSUME NEW f \in BridgeFrames, rx' = Append(rx, f)
          PROVE  rx' \in Seq(Frame)
      <3>1. f \in Frame
        BY BridgeFramesAssumption
      <3> QED
        BY <1>1, <2>3, <3>1
    <2> QED
      BY <1>1, <2>1, <2>2, <2>3
  <1>3. opener' \in Opener
    <2>1. \/ opener' \in {opener, [pc |-> "idle", attempt |-> 0], [pc |-> "opening", attempt |-> 1],
                          [opener EXCEPT !.pc = "opened"], [opener EXCEPT !.pc = "failed"],
                          [opener EXCEPT !.pc = "ready"]}
          \/ opener.attempt < OpenAttempts /\ opener' = [opener EXCEPT !.attempt = @ + 1]
      BY DEF HostNext, HostStep, Poll, Reset, ToggleWifiEnabled, OpenReset, DownlinkWrite,
             TurnSimulationOn, ForwardSimulation, ResetTelemetry, ConfigureTransport, StopPayload,
             CloseTransport, ForceReleaseTransport, CaptureInternalFailure, OpenTransport,
             OpenAttempt, OpenFailed, OpenPrepare, DownlinkFrame, BrewComplete, LosePort,
             ReceiveFrame, MayRetry
    <2> QED
      BY <1>1, <2>1, HostConstants DEF Opener
  <1>4. closer' \in {"idle", "close", "release"}
    BY <1>1 DEF HostNext, HostStep, Poll, Reset, ToggleWifiEnabled, OpenReset, DownlinkWrite,
             TurnSimulationOn, ForwardSimulation, ResetTelemetry, ConfigureTransport, StopPayload,
             CloseTransport, ForceReleaseTransport, CaptureInternalFailure, OpenTransport,
             OpenAttempt, OpenFailed, OpenPrepare, DownlinkFrame, BrewComplete, LosePort,
             ReceiveFrame
  <1>5. dl' \in Downlink
    BY <1>1 DEF Downlink, HostNext, HostStep, Poll, Reset, ToggleWifiEnabled, OpenReset,
             DownlinkWrite, TurnSimulationOn, ForwardSimulation, ResetTelemetry, ConfigureTransport, StopPayload,
             CloseTransport, ForceReleaseTransport, CaptureInternalFailure, OpenTransport,
             OpenAttempt, OpenFailed, OpenPrepare, DownlinkFrame, BrewComplete, LosePort,
             ReceiveFrame
  <1> QED
    BY <1>2, <1>3, <1>4, <1>5

LEMMA HostNextInv == HostInv /\ [HostNext]_hostVars => HostInv'
  <1>1. ASSUME HostInv, HostNext
        PROVE  HostInv'
    <2>1. Told
      BY <1>1, NextTold DEF HostInv
    <2>2. Consistent(h)' /\ ShotOwed' /\ owed' \in BOOLEAN
      BY <1>1, <2>1, ToldKeeps
    <2>3. HostTypeOK'
      BY <1>1, <2>2, NextTypes DEF HostInv, HostTypeOK, Consistent
    <2> QED
      BY <2>2, <2>3 DEF HostInv
  <1>2. ASSUME HostInv, UNCHANGED hostVars
        PROVE  HostInv'
    BY <1>2 DEF hostVars, HostInv, HostTypeOK, Consistent, Proven, StageReady, Inert, ShotOwed
  <1> QED
    BY <1>1, <1>2

LEMMA HostInvariant == HostSpec => []HostInv
  BY HostInitInv, HostNextInv, PTL DEF HostSpec

(* The attributes keep their types, whatever the frames received and however *)
(* many of them one poll consumes.                                           *)
THEOREM HostTypeCorrect == HostSpec => []HostTypeOK
  <1>1. HostInv => HostTypeOK
    BY DEF HostInv
  <1> QED
    BY <1>1, HostInvariant, PTL

(* A keepalive state on the host means that every earlier stage is proven    *)
(* (SERVER_SEND and CLIENT_RETURN of LinkRuntime).                           *)
THEOREM KeepaliveStateProven == HostSpec => []KeepaliveProven
  <1>1. HostInv => KeepaliveProven
    BY DEF HostInv, Consistent, KeepaliveProven
  <1> QED
    BY <1>1, HostInvariant, PTL

(* An armed connect stage always finds the Wi-Fi stage ready: the fault of   *)
(* _begin_connect_locked is unreachable.                                     *)
THEOREM ConnectNeverEarly == HostSpec => []ConnectStageReady
  <1>1. HostInv => ConnectStageReady
    BY DEF HostInv, Consistent, StageReady, ConnectStageReady
  <1> QED
    BY <1>1, HostInvariant, PTL

(* ERROR always has its fault and leaves nothing armed.                      *)
THEOREM ErrorAlwaysInert == HostSpec => []ErrorIsInert
  <1>1. HostInv => ErrorIsInert
    BY DEF HostInv, Consistent, Inert, ErrorIsInert
  <1> QED
    BY <1>1, HostInvariant, PTL

(* One brew yields at most one shot_done_success, in a keepalive state and   *)
(* never while a brew runs (_snapshot_locked and what it forwards).          *)
THEOREM AtMostOneShotDone == HostSpec => OneShotDonePerBrew
  <1>1. HostInv /\ [HostNext]_hostVars =>
          [Wrote(h', "shot_done") => owed /\ ~h'.brew /\ h'.state \in Keepalive]_hostVars
    <2>1. ASSUME HostInv, HostNext
          PROVE  Wrote(h', "shot_done") => owed /\ ~h'.brew /\ h'.state \in Keepalive
      <3>1. Told
        BY <2>1, NextTold DEF HostInv
      <3> QED
        BY <2>1, <3>1, ToldKeeps
    <2> QED
      BY <2>1
  <1> QED
    BY <1>1, HostInvariant, PTL DEF HostSpec, OneShotDonePerBrew

=============================================================================
