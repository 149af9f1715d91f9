---------------------------- MODULE BridgeProofs ----------------------------
(***************************************************************************)
(* Proofs about Bridge, for every width of its counters, every retry limit *)
(* and every set of frames a client may send.                              *)
(*                                                                         *)
(* The firmware's helpers are operators on the statics, so the proofs go   *)
(* bottom up: one lemma per helper says which fields it changes, one lemma *)
(* per frame handler says that it preserves the invariant of the statics   *)
(* (Good), and the theorems lift these to the actions.                     *)
(***************************************************************************)
EXTENDS Bridge, TLAPS

(* Request ids do not wrap within the bound on requests. *)
NoWrap == MaxReq < IdMod - 1

(* The frames in q tell the host that the realtime stream stopped. *)
Told(q) == \E i \in DOMAIN q : q[i].tag \in Halts

(* u and s agree on every static the invariants read. *)
Alike(u, s) ==
  /\ u.state = s.state /\ u.server = s.server /\ u.client = s.client
  /\ u.conn = s.conn /\ u.waiting = s.waiting /\ u.window = s.window
  /\ u.txed = s.txed /\ u.retry = s.retry /\ u.sid = s.sid
  /\ u.nextSid = s.nextSid /\ u.nextReq = s.nextReq /\ u.pending = s.pending
  /\ u.delay = s.delay /\ u.version = s.version /\ u.stream = s.stream

(* The same, within one step: what was written to USB stays written.        *)
Same(u, s) == Alike(u, s) /\ (Told(s.usb) => Told(u.usb))

(* c is s after its client was closed. *)
Closed(c, s) ==
  /\ c.state = s.state /\ c.server = s.server /\ c.client = s.client
  /\ c.nextSid = s.nextSid /\ c.delay = s.delay
  /\ ~c.conn /\ ~c.waiting /\ c.retry = 0 /\ c.sid = 0 /\ c.pending = 0
  /\ c.nextReq = 1
  /\ ~c.stream /\ (s.stream \/ Told(s.usb) => Told(c.usb))

(* e is s after it entered state n. *)
Entered(e, s, n) ==
  /\ e.state = n /\ e.server = s.server /\ e.client = s.client
  /\ e.conn = s.conn /\ e.waiting = s.waiting /\ e.txed = s.txed
  /\ e.nextSid = s.nextSid /\ e.version = s.version
  /\ e.delay => n \in Keepalive
  /\ n # "RESET" => /\ e.window = s.window /\ e.retry = s.retry /\ e.sid = s.sid
                    /\ e.nextReq = s.nextReq /\ e.pending = s.pending
  /\ n = "RESET" => /\ e.retry = 0 /\ e.sid = 0 /\ e.pending = 0 /\ e.nextReq = 1
  /\ Told(s.usb) => Told(e.usb)
  /\ n \in Keepalive => e.stream = s.stream
  /\ n \notin Keepalive /\ (s.stream => s.state \in Keepalive) =>
       ~e.stream /\ (s.stream => Told(e.usb))

(* How one step may move the session and the pending request: the session   *)
(* is dropped, or a new one is opened, or it goes on and its request ids    *)
(* only grow.                                                               *)
Evolves(s, t) ==
  /\ t.nextSid >= s.nextSid
  /\ \/ t.sid = 0 /\ t.pending = 0
     \/ t.sid = s.nextSid /\ t.nextSid > s.nextSid /\ t.pending = 0
     \/ /\ t.sid = s.sid /\ t.nextReq >= s.nextReq
        /\ \/ t.pending = 0
           \/ t.pending = s.pending /\ t.server = s.server

(* How a keepalive send moves them: the request it leaves pending is the    *)
(* one already pending or the next one; a failed send drops the session.    *)
Sends(s, t) ==
  /\ t.nextSid = s.nextSid
  /\ \/ t.sid = 0 /\ t.pending = 0
     \/ /\ t.conn /\ t.sid = s.sid /\ t.server = s.server
        /\ \/ t.pending = s.pending /\ t.pending # 0 /\ t.nextReq = s.nextReq
           \/ t.pending = s.nextReq /\ t.nextReq > s.nextReq

(* While a session waits for the same request, the request and the counter  *)
(* its answer must echo stay.                                               *)
Repeats(s, t) ==
  s.waiting /\ s.sid # 0 /\ s.pending # 0 /\ t.waiting /\ t.sid = s.sid
    => t.pending = s.pending /\ t.server = s.server

(* If the stream stopped, the host was told. *)
Reports(s, t) == s.stream /\ ~t.stream => Told(t.usb)

(* The step from s to t preserves the invariant of the statics. *)
Good(s, t) ==
  /\ t \in Statics
  /\ LinkInv(t) /\ Repeats(s, t) /\ Reports(s, t)
  /\ NoWrap /\ PendingInv(s) => PendingInv(t) /\ Evolves(s, t)

-----------------------------------------------------------------------------
(* The helpers. *)

LEMMA Small == /\ 0 \in Live /\ 1 \in Live /\ 0 \in Id /\ 1 \in Id
               /\ 0 \in 0 .. (RxMod - 1) /\ 0 \in 0 .. RetryLimit
  BY BridgeConstants DEF Live, Id

(* An assignment to a static keeps the type of the record. *)
LEMMA Updates ==
  ASSUME NEW s \in Statics
  PROVE  /\ \A x \in BOOLEAN :
              /\ [s EXCEPT !.conn = x] \in Statics /\ [s EXCEPT !.txed = x] \in Statics
              /\ [s EXCEPT !.waiting = x] \in Statics /\ [s EXCEPT !.window = x] \in Statics
              /\ [s EXCEPT !.delay = x] \in Statics /\ [s EXCEPT !.stream = x] \in Statics
              /\ [s EXCEPT !.version = x] \in Statics /\ [s EXCEPT !.wifi = x] \in Statics
              /\ [s EXCEPT !.listen = x] \in Statics
         /\ \A x \in Live :
              /\ [s EXCEPT !.server = x] \in Statics /\ [s EXCEPT !.client = x] \in Statics
         /\ \A x \in Id :
              /\ [s EXCEPT !.sid = x] \in Statics /\ [s EXCEPT !.nextSid = x] \in Statics
              /\ [s EXCEPT !.pending = x] \in Statics /\ [s EXCEPT !.completed = x] \in Statics
              /\ [s EXCEPT !.nextReq = x] \in Statics
         /\ \A x \in 0 .. RetryLimit : [s EXCEPT !.retry = x] \in Statics
         /\ \A x \in 0 .. (RxMod - 1) : [s EXCEPT !.rx = x] \in Statics
         /\ \A x \in State : [s EXCEPT !.state = x] \in Statics
  <1>1. ASSUME NEW x \in BOOLEAN
        PROVE  [s EXCEPT !.conn = x] \in Statics
    BY DEF Statics
  <1>2. ASSUME NEW x \in BOOLEAN
        PROVE  [s EXCEPT !.txed = x] \in Statics
    BY DEF Statics
  <1>3. ASSUME NEW x \in BOOLEAN
        PROVE  [s EXCEPT !.waiting = x] \in Statics
    BY DEF Statics
  <1>4. ASSUME NEW x \in BOOLEAN
        PROVE  [s EXCEPT !.window = x] \in Statics
    BY DEF Statics
  <1>5. ASSUME NEW x \in BOOLEAN
        PROVE  [s EXCEPT !.delay = x] \in Statics
    BY DEF Statics
  <1>6. ASSUME NEW x \in BOOLEAN
        PROVE  [s EXCEPT !.stream = x] \in Statics
    BY DEF Statics
  <1>7. ASSUME NEW x \in BOOLEAN
        PROVE  [s EXCEPT !.version = x] \in Statics
    BY DEF Statics
  <1>8. ASSUME NEW x \in Live
        PROVE  [s EXCEPT !.server = x] \in Statics
    BY DEF Statics
  <1>9. ASSUME NEW x \in Live
        PROVE  [s EXCEPT !.client = x] \in Statics
    BY DEF Statics
  <1>10. ASSUME NEW x \in Id
        PROVE  [s EXCEPT !.sid = x] \in Statics
    BY DEF Statics
  <1>11. ASSUME NEW x \in Id
        PROVE  [s EXCEPT !.nextSid = x] \in Statics
    BY DEF Statics
  <1>12. ASSUME NEW x \in Id
        PROVE  [s EXCEPT !.pending = x] \in Statics
    BY DEF Statics
  <1>13. ASSUME NEW x \in Id
        PROVE  [s EXCEPT !.completed = x] \in Statics
    BY DEF Statics
  <1>14. ASSUME NEW x \in Id
        PROVE  [s EXCEPT !.nextReq = x] \in Statics
    BY DEF Statics
  <1>15. ASSUME NEW x \in 0 .. RetryLimit
        PROVE  [s EXCEPT !.retry = x] \in Statics
    BY DEF Statics
  <1>16. ASSUME NEW x \in 0 .. (RxMod - 1)
        PROVE  [s EXCEPT !.rx = x] \in Statics
    BY DEF Statics
  <1>17. ASSUME NEW x \in State
        PROVE  [s EXCEPT !.state = x] \in Statics
    BY DEF Statics
  <1>18. ASSUME NEW x \in BOOLEAN
        PROVE  [s EXCEPT !.wifi = x] \in Statics
    BY DEF Statics
  <1>19. ASSUME NEW x \in BOOLEAN
        PROVE  [s EXCEPT !.listen = x] \in Statics
    BY DEF Statics
  <1> QED
    BY <1>1, <1>2, <1>3, <1>4, <1>5, <1>6, <1>7, <1>8, <1>9, <1>10, <1>11, <1>12, <1>13,
       <1>14, <1>15, <1>16, <1>17, <1>18, <1>19

(* A frame written to USB leaves the link state alone. *)
LEMMA UsbSendFacts ==
  ASSUME NEW s \in Statics, NEW type \in MessageType, NEW tag \in Tag,
         NEW sid \in Id, NEW req \in Id
  PROVE  /\ UsbSend(s, type, tag, sid, req) \in Statics
         /\ Same(UsbSend(s, type, tag, sid, req), s)
         /\ UsbSend(s, type, tag, sid, req).rx = s.rx
         /\ tag \in Halts => Told(UsbSend(s, type, tag, sid, req).usb)
  <1> DEFINE f == [type |-> type, tag |-> tag, sid |-> sid, req |-> req,
                   server |-> s.server, client |-> s.client]
  <1>1. f \in UsbFrame
    BY DEF UsbFrame, Statics
  <1>2. Append(s.usb, f) \in Seq(UsbFrame)
    BY <1>1 DEF Statics
  <1>3. UsbSend(s, type, tag, sid, req) \in Statics
        /\ Alike(UsbSend(s, type, tag, sid, req), s)
        /\ UsbSend(s, type, tag, sid, req).rx = s.rx
        /\ UsbSend(s, type, tag, sid, req).usb = Append(s.usb, f)
    BY <1>2 DEF UsbSend, Statics, Alike
  <1>4. /\ Told(s.usb) => Told(Append(s.usb, f))
        /\ tag \in Halts => Told(Append(s.usb, f))
    <2>1. s.usb \in Seq(UsbFrame) /\ Len(s.usb) \in Nat /\ f.tag = tag
      BY DEF Statics
    <2> HIDE DEF f
    <2>2. /\ DOMAIN Append(s.usb, f) = 1 .. (Len(s.usb) + 1)
          /\ \A i \in DOMAIN s.usb : i \in DOMAIN Append(s.usb, f) /\ Append(s.usb, f)[i] = s.usb[i]
          /\ Append(s.usb, f)[Len(s.usb) + 1] = f
      BY <2>1
    <2> QED
      BY <2>1, <2>2 DEF Told
  <1> QED
    BY <1>3, <1>4 DEF Same, Alike

LEMMA UsbFaultFacts ==
  ASSUME NEW s \in Statics, NEW tag \in Tag
  PROVE  /\ UsbFault(s, tag) \in Statics /\ Same(UsbFault(s, tag), s)
         /\ tag \in Halts => Told(UsbFault(s, tag).usb)
  BY UsbSendFacts, Small DEF UsbFault, MessageType

(* bridge_close_tcp_client drops the session and keeps the state. *)
LEMMA CloseFacts ==
  ASSUME NEW s \in Statics
  PROVE  CloseTcpClient(s) \in Statics /\ Closed(CloseTcpClient(s), s)
  <1> DEFINE c == DropClient(s)
             u == UsbFault(c, "halted_tcp_client_closed")
  <1>1. c \in Statics
    <2> DEFINE d == [s EXCEPT !.conn = FALSE, !.txed = FALSE, !.waiting = FALSE,
                              !.window = FALSE, !.retry = 0, !.sid = 0]
    <2>1. d \in Statics
      BY Small, Updates, Zenon
    <2>2. c = [d EXCEPT !.pending = 0, !.completed = 0, !.nextReq = 1, !.rx = 0,
                        !.version = FALSE, !.stream = FALSE]
      BY DEF DropClient
    <2> HIDE DEF d, c
    <2> QED
      BY <2>1, <2>2, Small, Updates, Zenon
  <1>11. c.usb = s.usb
    BY DEF DropClient, Statics
  <1>2. /\ c.state = s.state /\ c.server = s.server /\ c.client = s.client
        /\ c.nextSid = s.nextSid /\ c.delay = s.delay
        /\ ~c.conn /\ ~c.waiting /\ c.retry = 0 /\ c.sid = 0 /\ c.pending = 0
        /\ c.nextReq = 1 /\ ~c.stream
    BY DEF DropClient, Statics
  <1> HIDE DEF c
  <1>3. u \in Statics /\ Same(u, c) /\ Told(u.usb)
    BY <1>1, UsbFaultFacts DEF Tag, Halts
  <1> HIDE DEF u
  <1>4. Closed(u, s)
    BY <1>2, <1>3 DEF Closed, Same, Alike
  <1>5. ~s.stream => Closed(c, s)
    BY <1>11, <1>2 DEF Closed
  <1> QED
    BY <1>1, <1>3, <1>4, <1>5 DEF CloseTcpClient, c, u

(* bridge_enter_state changes the state, and the session only on RESET. *)
LEMMA EnterFacts ==
  ASSUME NEW s \in Statics, NEW n \in State
  PROVE  EnterState(s, n) \in Statics /\ Entered(EnterState(s, n), s, n)
  <1> DEFINE leaves == s.state \in Keepalive /\ n \notin Keepalive
             halted == IF leaves /\ s.stream THEN UsbFault(s, "halted_not_in_keepalive") ELSE s
             moved  == [halted EXCEPT !.stream = IF leaves THEN FALSE ELSE @,
                               !.rx = IF leaves THEN 0 ELSE @,
                               !.state = n,
                               !.delay = IF n \in Keepalive THEN @ ELSE FALSE]
             told   == IF s.state # n THEN UsbSend(moved, "DATA", "telemetry", 0, 0) ELSE moved
  <1>1. halted \in Statics /\ Same(halted, s) /\ (leaves /\ s.stream => Told(halted.usb))
    BY UsbFaultFacts DEF Same, Alike, Tag, Halts
  <1> HIDE DEF halted
  <1>2. moved \in Statics
    <2> DEFINE stream == IF leaves THEN FALSE ELSE halted.stream
               rx == IF leaves THEN 0 ELSE halted.rx
               delay == IF n \in Keepalive THEN halted.delay ELSE FALSE
    <2>1. stream \in BOOLEAN /\ delay \in BOOLEAN
      BY <1>1 DEF Statics
    <2>2. rx \in 0 .. (RxMod - 1)
      BY <1>1, Small DEF Statics
    <2>3. moved = [halted EXCEPT !.stream = stream, !.rx = rx, !.state = n, !.delay = delay]
      OBVIOUS
    <2> HIDE DEF stream, rx, delay, moved
    <2> QED
      BY <1>1, <2>1, <2>2, <2>3, Updates, Zenon
  <1>3. /\ moved.state = n /\ moved.server = s.server /\ moved.client = s.client
        /\ moved.conn = s.conn /\ moved.waiting = s.waiting /\ moved.txed = s.txed
        /\ moved.nextSid = s.nextSid /\ moved.version = s.version
        /\ moved.delay => n \in Keepalive
        /\ moved.window = s.window /\ moved.retry = s.retry /\ moved.sid = s.sid
        /\ moved.nextReq = s.nextReq /\ moved.pending = s.pending
        /\ moved.stream = IF leaves THEN FALSE ELSE s.stream
        /\ moved.usb = halted.usb
    BY <1>1 DEF Statics, Same, Alike
  <1> HIDE DEF moved
  <1>4. told \in Statics /\ Same(told, moved)
    <2>1. moved \in Statics /\ Same(moved, moved)
      BY <1>2 DEF Same, Alike
    <2>2. /\ UsbSend(moved, "DATA", "telemetry", 0, 0) \in Statics
          /\ Same(UsbSend(moved, "DATA", "telemetry", 0, 0), moved)
      BY <1>2, UsbSendFacts, Small DEF MessageType, Tag
    <2> QED
      BY <2>1, <2>2
  <1> HIDE DEF told
  <1>41. /\ Told(s.usb) => Told(told.usb)
         /\ n \in Keepalive => told.stream = s.stream
         /\ n \notin Keepalive /\ (s.stream => s.state \in Keepalive) =>
              ~told.stream /\ (s.stream => Told(told.usb))
    BY <1>1, <1>3, <1>4 DEF Same, Alike, Statics
  <1>5. CASE n = "RESET"
    <2> DEFINE reset == [told EXCEPT !.retry = 0, !.window = FALSE, !.sid = 0,
                                     !.pending = 0, !.completed = 0, !.nextReq = 1,
                                     !.stream = FALSE]
    <2>1. EnterState(s, n) = reset
      BY <1>5 DEF EnterState, told, moved, halted
    <2>2. reset \in Statics
      BY <1>4, Small DEF Statics
    <2>3. Entered(reset, s, n)
      BY <1>3, <1>4, <1>41, <1>5 DEF Statics, Same, Alike, Entered, Keepalive
    <2> QED
      BY <2>1, <2>2, <2>3
  <1>6. CASE n # "RESET"
    <2>1. EnterState(s, n) = told
      BY <1>6 DEF EnterState, told, moved, halted
    <2> QED
      BY <2>1, <1>3, <1>4, <1>41, <1>6 DEF Same, Alike, Entered
  <1> QED
    BY <1>5, <1>6

LEMMA SendTcpFacts ==
  ASSUME NEW s \in Statics, NEW ok \in BOOLEAN
  PROVE  /\ SendTcp(s, ok) \in Statics
         /\ Same(SendTcp(s, ok), s) \/ Closed(SendTcp(s, ok), s)
  BY CloseFacts DEF SendTcp, Same, Alike

LEMMA ReplyFacts ==
  ASSUME NEW s \in Statics, NEW tr \in Transport, NEW type \in MessageType,
         NEW tag \in Tag, NEW sid \in Id, NEW ok \in BOOLEAN
  PROVE  /\ Reply(s, tr, type, tag, sid, ok) \in Statics
         /\ \/ Same(Reply(s, tr, type, tag, sid, ok), s)
            \/ Closed(Reply(s, tr, type, tag, sid, ok), s)
  BY SendTcpFacts, UsbSendFacts, Small DEF Reply

-----------------------------------------------------------------------------
(* Preservation of the invariant of the statics, by the helpers. *)

LEMMA GoodSame ==
  ASSUME NEW s \in Statics, LinkInv(s), NEW t \in Statics, Same(t, s)
  PROVE  Good(s, t)
  <1>1. LinkInv(t)
    BY DEF LinkInv, Armed, Negotiated, InStep, RetryOk, Same, Alike
  <1>2. PendingInv(s) => PendingInv(t) /\ Evolves(s, t)
    BY DEF PendingInv, Evolves, Same, Alike, Statics, Id
  <1>3. Repeats(s, t) /\ Reports(s, t)
    BY DEF Repeats, Reports, Same, Alike
  <1> QED
    BY <1>1, <1>2, <1>3 DEF Good

LEMMA GoodThenSame ==
  ASSUME NEW s \in Statics, NEW t \in Statics, Good(s, t), NEW u \in Statics, Same(u, t)
  PROVE  Good(s, u)
  <1>1. LinkInv(u)
    BY DEF Good, LinkInv, Armed, Negotiated, InStep, RetryOk, Same, Alike
  <1>2. PendingInv(t) /\ Evolves(s, t) => PendingInv(u) /\ Evolves(s, u)
    BY DEF PendingInv, Evolves, Same, Alike
  <1>3. Repeats(s, u) /\ Reports(s, u)
    BY DEF Good, Repeats, Reports, Same, Alike
  <1> QED
    BY <1>1, <1>2, <1>3 DEF Good

LEMMA GoodThenClosed ==
  ASSUME NEW s \in Statics, NEW t \in Statics, Good(s, t), NEW u \in Statics, Closed(u, t)
  PROVE  Good(s, u)
  <1>1. LinkInv(u)
    BY DEF Good, LinkInv, Armed, Negotiated, InStep, RetryOk, Closed
  <1>2. PendingInv(t) /\ Evolves(s, t) => PendingInv(u) /\ Evolves(s, u)
    BY BridgeConstants DEF PendingInv, Evolves, Closed, Statics
  <1>3. Repeats(s, u) /\ Reports(s, u)
    BY DEF Good, Repeats, Reports, Closed
  <1> QED
    BY <1>1, <1>2, <1>3 DEF Good

(* Entering a state outside keepalive is always safe. *)
LEMMA GoodThenEnter ==
  ASSUME NEW s \in Statics, NEW t \in Statics, Good(s, t),
         NEW n \in {"INITIALIZE", "CONNECT", "DISCONNECT", "ERROR"}
  PROVE  Good(s, EnterState(t, n)) /\ Entered(EnterState(t, n), t, n)
  <1> DEFINE e == EnterState(t, n)
  <1>1. e \in Statics /\ Entered(e, t, n)
    BY EnterFacts DEF State
  <1> HIDE DEF e
  <1>2. LinkInv(e)
    BY <1>1 DEF Good, LinkInv, Armed, Negotiated, InStep, RetryOk, Entered, Keepalive
  <1>3. PendingInv(t) /\ Evolves(s, t) => PendingInv(e) /\ Evolves(s, e)
    BY <1>1 DEF PendingInv, Evolves, Entered
  <1>4. Repeats(s, e) /\ Reports(s, e)
    BY <1>1 DEF Good, Repeats, Reports, Entered, LinkInv, Keepalive
  <1> QED
    BY <1>1, <1>2, <1>3, <1>4 DEF Good, e

LEMMA GoodRefl ==
  ASSUME NEW s \in Statics, LinkInv(s)
  PROVE  Good(s, s)
  BY GoodSame DEF Same, Alike

LEMMA GoodReply ==
  ASSUME NEW s \in Statics, NEW t \in Statics, Good(s, t), NEW tr \in Transport,
         NEW type \in MessageType, NEW tag \in Tag, NEW sid \in Id, NEW ok \in BOOLEAN
  PROVE  Good(s, Reply(t, tr, type, tag, sid, ok))
  BY ReplyFacts, GoodThenSame, GoodThenClosed

LEMMA GoodMismatch ==
  ASSUME NEW s \in Statics, NEW t \in Statics, Good(s, t), NEW tr \in Transport,
         NEW ok \in BOOLEAN
  PROVE  Good(s, VersionMismatch(t, tr, ok))
  <1> DEFINE e == EnterState(t, "ERROR")
             r == Reply(e, tr, "ERROR", "data_interface_version_mismatch", 0, ok)
  <1>1. e \in Statics /\ Good(s, e)
    BY GoodThenEnter DEF Good
  <1> HIDE DEF e
  <1>2. r \in Statics /\ Good(s, r)
    BY <1>1, GoodReply, Small DEF Good, MessageType, Tag
  <1> HIDE DEF r
  <1> QED
    BY <1>2, UsbFaultFacts, GoodThenSame DEF VersionMismatch, r, e, Tag

-----------------------------------------------------------------------------
(* Preservation by the frame handlers. *)

LEMMA GoodReset ==
  ASSUME NEW s \in Statics, LinkInv(s), NEW tr \in Transport, NEW ok \in BOOLEAN
  PROVE  Good(s, OnReset(s, tr, ok))
  <1> DEFINE e == EnterState(s, "RESET")
             r == [e EXCEPT !.server = 0, !.client = 0, !.txed = FALSE,
                            !.waiting = FALSE, !.version = FALSE]
             a == Reply(r, tr, "ACK", "reset_ack", 0, ok)
  <1>1. e \in Statics /\ Entered(e, s, "RESET")
    BY EnterFacts DEF State
  <1> HIDE DEF e
  <1>2. /\ r \in Statics /\ r.state = "RESET" /\ r.server = 0 /\ r.nextSid = s.nextSid
        /\ ~r.delay /\ r.sid = 0 /\ r.pending = 0 /\ r.nextReq = 1 /\ r.retry = 0
        /\ ~r.stream /\ (s.stream => Told(r.usb))
    <2>1. r \in Statics
      BY <1>1, Small, Updates, Zenon
    <2>2. /\ r.state = e.state /\ r.server = 0 /\ r.nextSid = e.nextSid /\ r.usb = e.usb
          /\ r.delay = e.delay /\ r.sid = e.sid /\ r.pending = e.pending /\ r.nextReq = e.nextReq
          /\ r.retry = e.retry /\ r.stream = e.stream
      BY <1>1 DEF Statics
    <2> HIDE DEF r
    <2> QED
      BY <1>1, <2>1, <2>2 DEF Entered, Keepalive, LinkInv
  <1> HIDE DEF r
  <1>3. Good(s, r)
    <2>1. LinkInv(r)
      BY <1>2 DEF LinkInv, Armed, Negotiated, InStep, RetryOk, Keepalive, Statics
    <2>2. PendingInv(r) /\ Evolves(s, r)
      BY <1>2, BridgeConstants DEF PendingInv, Evolves, Statics, Id
    <2>3. Repeats(s, r) /\ Reports(s, r)
      BY <1>2 DEF Repeats, Reports
    <2> QED
      BY <1>2, <2>1, <2>2, <2>3 DEF Good
  <1>4. a \in Statics /\ Good(s, a)
    BY <1>2, <1>3, GoodReply, Small DEF Good, MessageType, Tag
  <1> HIDE DEF a
  <1> QED
    BY <1>4, CloseFacts, GoodThenClosed DEF OnReset, a, r, e

LEMMA GoodInitialize ==
  ASSUME NEW s \in Statics, LinkInv(s), NEW tr \in Transport, NEW verOk \in BOOLEAN,
         NEW ok \in BOOLEAN
  PROVE  Good(s, OnInitialize(s, tr, verOk, ok))
  <1> DEFINE e == EnterState(s, "INITIALIZE")
             i == [e EXCEPT !.retry = 0, !.window = FALSE, !.sid = 0, !.pending = 0,
                            !.completed = 0, !.nextReq = 1, !.stream = FALSE]
             v == [i EXCEPT !.version = TRUE]
  <1>1. e \in Statics /\ Good(s, e) /\ Entered(e, s, "INITIALIZE")
    BY GoodRefl, GoodThenEnter DEF Good
  <1> HIDE DEF e
  <1>2. /\ i \in Statics /\ i.state = "INITIALIZE" /\ i.server = s.server
        /\ i.nextSid = s.nextSid
        /\ ~i.delay /\ i.sid = 0 /\ i.pending = 0 /\ i.nextReq = 1 /\ i.retry = 0
        /\ ~i.stream /\ (s.stream => Told(i.usb))
    <2>1. i \in Statics
      BY <1>1, Small, Updates, Zenon
    <2>2. /\ i.state = e.state /\ i.server = e.server /\ i.nextSid = e.nextSid /\ i.usb = e.usb
          /\ i.delay = e.delay /\ i.sid = 0 /\ i.pending = 0 /\ i.nextReq = 1 /\ i.retry = 0
          /\ ~i.stream
      BY <1>1 DEF Statics
    <2> HIDE DEF i
    <2> QED
      BY <1>1, <2>1, <2>2 DEF Entered, Keepalive, LinkInv
  <1> HIDE DEF i
  <1>3. /\ v \in Statics /\ v.state = "INITIALIZE" /\ v.server = s.server
        /\ v.nextSid = s.nextSid
        /\ ~v.delay /\ v.sid = 0 /\ v.pending = 0 /\ v.nextReq = 1 /\ v.retry = 0
        /\ ~v.stream /\ v.usb = i.usb
    BY <1>2 DEF Statics
  <1> HIDE DEF v
  <1>4. ASSUME NEW x \in Statics, x.state = "INITIALIZE", x.server = s.server,
               x.nextSid = s.nextSid, ~x.delay, x.sid = 0, x.pending = 0,
               x.nextReq = 1, x.retry = 0, ~x.stream, s.stream => Told(x.usb)
        PROVE  Good(s, x)
    <2>1. LinkInv(x)
      BY <1>4 DEF LinkInv, Armed, Negotiated, InStep, RetryOk, Keepalive, Statics
    <2>2. PendingInv(x) /\ Evolves(s, x)
      BY <1>4, BridgeConstants DEF PendingInv, Evolves, Statics, Id
    <2>3. Repeats(s, x) /\ Reports(s, x)
      BY <1>4 DEF Repeats, Reports
    <2> QED
      BY <2>1, <2>2, <2>3 DEF Good
  <1>5. Good(s, i) /\ Good(s, v)
    BY <1>2, <1>3, <1>4
  <1>6. CASE verOk
    <2>1. OnInitialize(s, tr, verOk, ok) = Reply(v, tr, "ACK", "initialize_ack", 0, ok)
      BY <1>6 DEF OnInitialize, v, i, e
    <2> QED
      BY <2>1, <1>3, <1>5, GoodReply, Small DEF MessageType, Tag
  <1>7. CASE ~verOk
    <2>1. OnInitialize(s, tr, verOk, ok) = VersionMismatch(i, tr, ok)
      BY <1>7 DEF OnInitialize, v, i, e
    <2> QED
      BY <2>1, <1>2, <1>5, GoodMismatch
  <1> QED
    BY <1>6, <1>7

LEMMA GoodConnect ==
  ASSUME NEW s \in Statics, LinkInv(s), s.nextSid <= MaxSid,
         NEW tr \in Transport, NEW ok \in BOOLEAN
  PROVE  Good(s, OnConnect(s, tr, ok))
  <1> DEFINE e == EnterState(s, "CONNECT")
             c == NewSession(s)
             a == Reply(c, tr, "ACK", "client_connected", c.sid, ok)
             u == UsbSend(a, "ACK", "client_connected", c.sid, 0)
             k == EnterState(u, "SERVER_SEND")
  <1>1. e \in Statics /\ Entered(e, s, "CONNECT")
    BY EnterFacts DEF State
  <1> HIDE DEF e
  <1>2. IncId(e.nextSid) = s.nextSid + 1 /\ IncId(e.nextSid) \in Id
    <2>1. e.nextSid = s.nextSid /\ s.nextSid \in 1 .. (MaxSid + 1)
      BY <1>1 DEF Entered, LinkInv
    <2> QED
      BY <2>1, BridgeConstants DEF IncId, Id
  <1>3. /\ c \in Statics /\ c.state = "CONNECT" /\ c.server = 0 /\ c.client = 1
        /\ c.retry = 0 /\ ~c.waiting /\ c.sid = s.nextSid /\ c.nextSid = s.nextSid + 1
        /\ c.pending = 0 /\ c.nextReq = 1 /\ ~c.delay
        /\ ~c.stream /\ (s.stream => Told(c.usb))
    <2>0. c = [e EXCEPT !.server = 0, !.client = 1, !.retry = 0, !.txed = FALSE,
                        !.waiting = FALSE, !.window = FALSE, !.sid = s.nextSid,
                        !.nextSid = IncId(e.nextSid), !.pending = 0, !.completed = 0, !.nextReq = 1]
      BY DEF NewSession, e
    <2> HIDE DEF c
    <2>a. s.nextSid \in Id
      BY DEF Statics
    <2> DEFINE d == [e EXCEPT !.server = 0, !.client = 1, !.retry = 0, !.txed = FALSE,
                              !.waiting = FALSE, !.window = FALSE]
    <2>b. d \in Statics
      BY <1>1, Small, Updates, Zenon
    <2>d. c = [d EXCEPT !.sid = s.nextSid, !.nextSid = IncId(e.nextSid), !.pending = 0,
                        !.completed = 0, !.nextReq = 1]
      BY <2>0
    <2> HIDE DEF d
    <2>1. c \in Statics
      BY <1>2, <2>a, <2>b, <2>d, Small, Updates, Zenon
    <2>2. /\ c.state = e.state /\ c.server = 0 /\ c.client = 1 /\ c.retry = 0 /\ ~c.waiting
          /\ c.delay = e.delay /\ c.stream = e.stream /\ c.usb = e.usb
      BY <1>1, <2>0 DEF Statics
    <2>3. /\ c.sid = s.nextSid /\ c.nextSid = IncId(e.nextSid) /\ c.pending = 0 /\ c.nextReq = 1
      BY <1>1, <2>0 DEF Statics
    <2>4. e.state = "CONNECT" /\ ~e.delay /\ ~e.stream /\ (s.stream => Told(e.usb))
      BY <1>1 DEF Entered, Keepalive, LinkInv
    <2> QED
      BY <1>2, <2>1, <2>2, <2>3, <2>4
  <1> HIDE DEF c
  <1>4. Good(s, c)
    <2>1. LinkInv(c)
      <3>1. c.sid < c.nextSid /\ c.nextSid \in 1 .. (MaxSid + 1)
        <4>1. s.nextSid \in 1 .. (MaxSid + 1)
          BY DEF LinkInv
        <4> QED
          BY <1>3, <4>1, BridgeConstants
      <3>2. InStep(c)
        BY <1>3 DEF InStep, Keepalive
      <3>3. Armed(c) /\ Negotiated(c) /\ RetryOk(c)
        BY <1>3 DEF Armed, Negotiated, RetryOk, Keepalive
      <3> QED
        BY <1>3, <3>1, <3>2, <3>3 DEF LinkInv
    <2>2. PendingInv(c) /\ Evolves(s, c)
      <3>1. s.nextSid \in Nat /\ MaxReq \in Nat
        BY BridgeConstants DEF LinkInv
      <3>2. PendingInv(c)
        BY <1>3, <3>1 DEF PendingInv
      <3> QED
        BY <1>3, <3>1, <3>2 DEF Evolves
    <2>3. Repeats(s, c) /\ Reports(s, c)
      BY <1>3 DEF Repeats, Reports
    <2> QED
      BY <1>3, <2>1, <2>2, <2>3 DEF Good
  <1>41. c.sid \in Id
    BY <1>3 DEF Statics
  <1>42. "ACK" \in MessageType /\ "client_connected" \in Tag
    BY DEF MessageType, Tag
  <1>5. a \in Statics /\ Good(s, a) /\ (Same(a, c) \/ Closed(a, c))
    BY <1>3, <1>4, <1>41, <1>42, ReplyFacts, GoodReply, Zenon
  <1> HIDE DEF a
  <1>6. u \in Statics /\ Good(s, u) /\ Same(u, a)
    <2>1. u \in Statics /\ Same(u, a)
      BY <1>41, <1>42, <1>5, UsbSendFacts, Small
    <2> QED
      BY <1>5, <2>1, GoodThenSame
  <1> HIDE DEF u
  <1>7. k \in Statics /\ Entered(k, u, "SERVER_SEND")
    BY <1>6, EnterFacts DEF State, Keepalive
  <1> HIDE DEF k
  <1>8. c.version => Good(s, k)
    <2>1. LinkInv(u) /\ u.server = 0 /\ u.client = 1 /\ ~u.waiting
          /\ (u.conn => u.sid # 0 /\ u.version = c.version)
          /\ u.retry = 0
      BY <1>3, <1>5, <1>6 DEF Good, Same, Alike, Closed, LinkInv
    <2>2. c.version => LinkInv(k)
      BY <2>1, <1>7 DEF LinkInv, Armed, Negotiated, InStep, RetryOk, Entered, Keepalive
    <2>3. PendingInv(u) /\ Evolves(s, u) => PendingInv(k) /\ Evolves(s, k)
      BY <1>7 DEF PendingInv, Evolves, Entered
    <2>4. Repeats(s, k) /\ Reports(s, k)
      BY <1>6, <1>7 DEF Good, Repeats, Reports, Entered, Keepalive
    <2> QED
      BY <1>6, <1>7, <2>2, <2>3, <2>4 DEF Good
  <1>9. \/ OnConnect(s, tr, ok) = VersionMismatch(c, tr, ok)
        \/ OnConnect(s, tr, ok) = k /\ c.version
        \/ OnConnect(s, tr, ok) = a
    BY DEF OnConnect, k, u, a, c
  <1> QED
    BY <1>3, <1>4, <1>5, <1>8, <1>9, GoodMismatch

LEMMA GoodDisconnect ==
  ASSUME NEW s \in Statics, LinkInv(s), NEW tr \in Transport, NEW ok \in BOOLEAN
  PROVE  Good(s, OnDisconnect(s, tr, ok))
  <1> DEFINE e == EnterState(s, "DISCONNECT")
             d == Reply(e, tr, "ACK", "disconnect_ack", 0, ok)
  <1>1. e \in Statics /\ Good(s, e)
    BY GoodRefl, GoodThenEnter DEF Good
  <1> HIDE DEF e
  <1>2. d \in Statics /\ Good(s, d)
    BY <1>1, GoodReply, Small DEF Good, MessageType, Tag
  <1> HIDE DEF d
  <1> QED
    BY <1>2, CloseFacts, GoodThenClosed DEF OnDisconnect, d, e

LEMMA GoodError ==
  ASSUME NEW s \in Statics, LinkInv(s), NEW tr \in Transport, NEW ok \in BOOLEAN
  PROVE  Good(s, OnError(s, tr, ok))
  <1>1. EnterState(s, "ERROR") \in Statics /\ Good(s, EnterState(s, "ERROR"))
    BY GoodRefl, GoodThenEnter DEF Good
  <1> QED
    BY <1>1, GoodReply, Small DEF OnError, MessageType, Tag

LEMMA GoodUnsupported ==
  ASSUME NEW s \in Statics, LinkInv(s), NEW tr \in Transport, NEW ok \in BOOLEAN
  PROVE  Good(s, OnUnsupported(s, tr, ok))
  BY GoodRefl, GoodReply, Small DEF OnUnsupported, MessageType, Tag

(* Accepting a response keeps the counters in step and frees the request. *)
LEMMA CounterFacts ==
  ASSUME NEW x \in Live, x % 2 = 0
  PROVE  /\ Inc(x) \in Live /\ Inc(x) % 2 = 1
         /\ Inc(Inc(x)) \in Live /\ Inc(Inc(x)) % 2 = 0
         /\ EvenUp(Inc(Inc(x))) = Inc(Inc(x))
         /\ EvenUp(x) = x
  <1>1. x # LiveMod - 1 /\ Inc(x) = x + 1
    BY BridgeConstants DEF Live, Inc
  <1>2. Inc(x) \in Live /\ Inc(x) % 2 = 1
    BY <1>1, BridgeConstants DEF Live
  <1>3. Inc(Inc(x)) \in Live /\ Inc(Inc(x)) % 2 = 0
    BY <1>1, <1>2, BridgeConstants DEF Live, Inc
  <1> QED
    BY <1>2, <1>3 DEF EvenUp

(* The stream may be taken as active in the keepalive phases. *)
LEMMA GoodThenStream ==
  ASSUME NEW s \in Statics, NEW t \in Statics, Good(s, t), t.state \in Keepalive
  PROVE  /\ Good(s, [t EXCEPT !.stream = TRUE])
         /\ [t EXCEPT !.stream = TRUE].pending = t.pending
  <1> DEFINE w == [t EXCEPT !.stream = TRUE]
  <1>1. /\ w \in Statics /\ w.state = t.state /\ w.server = t.server /\ w.client = t.client
        /\ w.conn = t.conn /\ w.waiting = t.waiting /\ w.window = t.window
        /\ w.txed = t.txed /\ w.retry = t.retry /\ w.sid = t.sid
        /\ w.nextSid = t.nextSid /\ w.nextReq = t.nextReq /\ w.pending = t.pending
        /\ w.delay = t.delay /\ w.version = t.version /\ w.stream
    BY DEF Statics
  <1> HIDE DEF w
  <1>2. LinkInv(w)
    BY <1>1 DEF Good, LinkInv, Armed, Negotiated, InStep, RetryOk
  <1>3. PendingInv(t) /\ Evolves(s, t) => PendingInv(w) /\ Evolves(s, w)
    BY <1>1 DEF PendingInv, Evolves
  <1>4. Repeats(s, w) /\ Reports(s, w)
    BY <1>1 DEF Good, Repeats, Reports
  <1> QED
    BY <1>1, <1>2, <1>3, <1>4 DEF Good, w

LEMMA GoodComplete ==
  ASSUME NEW s \in Statics, LinkInv(s), NEW f \in KeepaliveFrame, NEW ok \in BOOLEAN,
         Accepts(s, f)
  PROVE  /\ Good(s, Complete(s, f, ok))
         /\ Complete(s, f, ok).pending = 0
  <1> DEFINE d == [s EXCEPT !.delay = TRUE, !.client = f.client,
                        !.server = EvenUp(Inc(f.client)),
                        !.waiting = FALSE, !.window = FALSE, !.pending = 0,
                        !.completed = f.req, !.retry = 0]
             e == EnterState(d, "SERVER_SEND")
             u == UsbSend(e, "KEEPALIVE", "ka_resp", s.sid, f.req)
             t == SendTcp(u, ok)
  <1>1. /\ s.server % 2 = 0 /\ f.client = Inc(s.server)
        /\ EvenUp(Inc(f.client)) = Inc(f.client) /\ Inc(f.client) \in Live
        /\ Inc(f.client) % 2 = 0 /\ f.client % 2 = 1 /\ f.client \in Live
    BY CounterFacts DEF Accepts, LinkInv, InStep, Statics
  <1>2. /\ d \in Statics /\ d.client = f.client /\ d.server = Inc(f.client)
        /\ ~d.waiting /\ d.pending = 0 /\ d.retry = 0 /\ d.conn = s.conn /\ d.sid = s.sid
        /\ d.nextSid = s.nextSid /\ d.nextReq = s.nextReq /\ d.version = s.version
        /\ d.stream = s.stream
    BY <1>1, Small DEF Statics, KeepaliveFrame
  <1> HIDE DEF d
  <1>3. e \in Statics /\ Entered(e, d, "SERVER_SEND")
    BY <1>2, EnterFacts DEF State, Keepalive
  <1> HIDE DEF e
  <1>4. s.state = "CLIENT_RETURN" /\ (s.conn => s.sid # 0 /\ s.version)
    BY DEF Accepts, Expected, LinkInv, Armed, Negotiated, Keepalive
  <1>5. Good(s, e)
    <2>1. LinkInv(e)
      BY <1>1, <1>2, <1>3, <1>4 DEF LinkInv, Armed, Negotiated, InStep, RetryOk, Entered,
           Keepalive
    <2>2. PendingInv(s) => PendingInv(e) /\ Evolves(s, e)
      BY <1>2, <1>3 DEF PendingInv, Evolves, Entered, Statics, Id
    <2>3. Repeats(s, e) /\ Reports(s, e)
      BY <1>2, <1>3 DEF Repeats, Reports, Entered, Keepalive
    <2> QED
      BY <1>3, <2>1, <2>2, <2>3 DEF Good
  <1>6. u \in Statics /\ Good(s, u) /\ Same(u, e)
    <2>1. s.sid \in Id /\ f.req \in Id
      BY DEF Statics, KeepaliveFrame
    <2>2. "KEEPALIVE" \in MessageType /\ "ka_resp" \in Tag
      BY DEF MessageType, Tag
    <2>3. u \in Statics /\ Same(u, e)
      BY <1>3, <2>1, <2>2, UsbSendFacts
    <2> HIDE DEF u
    <2> QED
      BY <1>3, <1>5, <2>3, GoodThenSame
  <1> HIDE DEF u
  <1>7. t \in Statics /\ Good(s, t) /\ t.pending = 0 /\ t.state \in Keepalive
    BY <1>2, <1>3, <1>6, SendTcpFacts, GoodThenSame, GoodThenClosed
    DEF Same, Alike, Closed, Entered, Keepalive
  <1> HIDE DEF t
  <1>8. Good(s, [t EXCEPT !.stream = TRUE]) /\ [t EXCEPT !.stream = TRUE].pending = 0
    BY <1>7, GoodThenStream
  <1>9. \/ Complete(s, f, ok) = u
        \/ Complete(s, f, ok) = [t EXCEPT !.stream = TRUE]
    BY DEF Complete, SendRealtimeData, t, u, e, d
  <1>10. u.pending = 0
    BY <1>2, <1>3, <1>6 DEF Same, Alike, Entered
  <1> QED
    BY <1>6, <1>8, <1>9, <1>10

LEMMA GoodKeepalive ==
  ASSUME NEW s \in Statics, LinkInv(s), NEW f \in KeepaliveFrame, NEW ok \in BOOLEAN
  PROVE  Good(s, OnKeepalive(s, f, ok))
  BY GoodComplete, GoodRefl, GoodMismatch DEF OnKeepalive, Transport

LEMMA GoodUsbData ==
  ASSUME NEW s \in Statics, LinkInv(s), NEW kind \in {"text", "downlink", "empty"},
         NEW ok \in BOOLEAN
  PROVE  Good(s, OnUsbData(s, kind, ok))
  <1> DEFINE tag == IF ~KeepaliveSession(s) THEN "data_ignored_not_in_keepalive_session"
                    ELSE IF s.conn THEN "data_forwarded_tcp" ELSE "data_tcp_not_connected"
             out == IF KeepaliveSession(s) THEN SendTcp(s, ok) ELSE s
  <1>1. tag \in Tag /\ "data_ack" \in Tag
    BY DEF Tag
  <1> HIDE DEF tag
  <1>2. out \in Statics /\ Good(s, out)
    BY SendTcpFacts, GoodRefl, GoodThenSame, GoodThenClosed
  <1> HIDE DEF out
  <1>3. UsbSend(out, "ACK", tag, 0, 0) \in Statics /\ Good(s, UsbSend(out, "ACK", tag, 0, 0))
    BY <1>1, <1>2, UsbSendFacts, GoodThenSame, Small DEF MessageType
  <1>4. UsbSend(s, "ACK", "data_ack", 0, 0) \in Statics /\ Good(s, UsbSend(s, "ACK", "data_ack", 0, 0))
    BY <1>1, UsbSendFacts, GoodSame, Small DEF MessageType
  <1>5. \/ OnUsbData(s, kind, ok) = UsbSend(out, "ACK", tag, 0, 0)
        \/ OnUsbData(s, kind, ok) = out
        \/ OnUsbData(s, kind, ok) = UsbSend(s, "ACK", "data_ack", 0, 0)
    BY DEF OnUsbData, out, tag
  <1> QED
    BY <1>2, <1>3, <1>4, <1>5

LEMMA GoodTcpData ==
  ASSUME NEW s \in Statics, LinkInv(s), NEW kind \in {"text", "uplink", "empty"},
         NEW ok \in BOOLEAN
  PROVE  Good(s, OnTcpData(s, kind, ok))
  <1>1. /\ UsbSend(s, "DATA", "text", 0, 0) \in Statics
        /\ Good(s, UsbSend(s, "DATA", "text", 0, 0))
        /\ UsbSend(s, "DATA", "uplink", 0, 0) \in Statics
        /\ Good(s, UsbSend(s, "DATA", "uplink", 0, 0))
    BY UsbSendFacts, GoodSame, Small DEF MessageType, Tag
  <1>2. \A x \in Statics : Good(s, x) => Good(s, SendTcp(x, ok))
    BY SendTcpFacts, GoodThenSame, GoodThenClosed
  <1>3. OnTcpData(s, kind, ok) \in
          {s, UsbSend(s, "DATA", "uplink", 0, 0), SendTcp(s, ok),
           SendTcp(UsbSend(s, "DATA", "text", 0, 0), ok)}
    BY DEF OnTcpData
  <1> QED
    BY <1>1, <1>2, <1>3, GoodRefl

-----------------------------------------------------------------------------
(* Preservation by the service calls. *)

(* A send arms the wait and the timeout, whether the send worked or not. *)
LEMMA SendFacts ==
  ASSUME NEW s \in Statics, NEW reuse \in BOOLEAN, NEW ok \in BOOLEAN,
         s.conn, s.sid # 0, s.version, InStep(s), s.state = "SERVER_SEND",
         s.nextSid \in 1 .. (MaxSid + 1), s.sid < s.nextSid, s.retry < RetryLimit
  PROVE  /\ SendServerKeepalive(s, reuse, ok) \in Statics
         /\ LinkInv(SendServerKeepalive(s, reuse, ok))
         /\ /\ NoWrap /\ s.nextSid = s.sid + 1
            /\ s.nextReq > 0 /\ s.nextReq <= MaxReq + 1
            /\ reuse => s.pending # 0 /\ s.pending < s.nextReq
            /\ ~reuse => s.nextReq <= MaxReq
            => /\ PendingInv(SendServerKeepalive(s, reuse, ok))
               /\ Sends(s, SendServerKeepalive(s, reuse, ok))
         /\ reuse => Repeats(s, SendServerKeepalive(s, reuse, ok))
         /\ Reports(s, SendServerKeepalive(s, reuse, ok))
  <1> DEFINE again == reuse /\ s.pending # 0
             req   == IF again THEN s.pending ELSE s.nextReq
             nxt   == IF again THEN s.nextReq ELSE IncId(s.nextReq)
             made  == [s EXCEPT !.pending = req, !.nextReq = IF again THEN @ ELSE IncId(@),
                                !.server = EvenUp(@), !.client = OddUp(@)]
             tcp   == SendTcp(made, ok)
             usb   == UsbSend(tcp, "KEEPALIVE", "ka_req", s.sid, req)
             armed == [usb EXCEPT !.txed = TRUE, !.waiting = TRUE, !.window = TRUE]
             t     == EnterState(armed, "CLIENT_RETURN")
  <1>1. s.server \in Live /\ s.client \in Live /\ EvenUp(s.server) = s.server
        /\ OddUp(s.client) = s.client
    <2>1. s.server \in Live /\ s.client \in Live
      BY DEF Statics
    <2>2. s.server % 2 = 0 /\ s.client % 2 = 1
      BY DEF InStep, Keepalive
    <2> QED
      BY <2>1, <2>2, CounterFacts DEF OddUp, Live
  <1>2. s.sid \in Id /\ req \in Id /\ nxt \in Id
    BY BridgeConstants DEF Statics, Id, IncId
  <1>3. /\ made \in Statics /\ made.pending = req /\ made.nextReq = nxt
        /\ made.server = s.server /\ made.client = s.client /\ made.conn = s.conn
        /\ made.sid = s.sid /\ made.nextSid = s.nextSid /\ made.retry = s.retry
        /\ made.version = s.version /\ made.stream = s.stream
    BY <1>1, <1>2 DEF Statics
  <1> HIDE DEF made
  <1>4. tcp \in Statics /\ (Same(tcp, made) \/ Closed(tcp, made))
    BY <1>3, SendTcpFacts
  <1> HIDE DEF tcp
  <1>5. "KEEPALIVE" \in MessageType /\ "ka_req" \in Tag
    BY DEF MessageType, Tag
  <1> HIDE DEF req
  <1>6. usb \in Statics /\ Same(usb, tcp)
    BY <1>2, <1>4, <1>5, UsbSendFacts
  <1> HIDE DEF usb
  <1>7. /\ armed \in Statics /\ armed.txed /\ armed.waiting /\ armed.window
        /\ armed.server = usb.server /\ armed.client = usb.client
        /\ armed.conn = usb.conn /\ armed.sid = usb.sid /\ armed.nextSid = usb.nextSid
        /\ armed.retry = usb.retry /\ armed.version = usb.version
        /\ armed.pending = usb.pending /\ armed.nextReq = usb.nextReq
        /\ armed.stream = usb.stream /\ armed.usb = usb.usb /\ armed.state = usb.state
    BY <1>6 DEF Statics
  <1> HIDE DEF armed
  <1>8. t \in Statics /\ Entered(t, armed, "CLIENT_RETURN")
    BY <1>7, EnterFacts DEF State, Keepalive
  <1> HIDE DEF t
  <1>9. SendServerKeepalive(s, reuse, ok) = t
    BY DEF SendServerKeepalive, t, armed, usb, tcp, made, req
  <1>10. /\ t.state = "CLIENT_RETURN" /\ t.txed /\ t.waiting /\ t.window
         /\ t.server = s.server /\ t.client = s.client /\ t.nextSid = s.nextSid
         /\ \/ /\ t.conn /\ t.sid = s.sid /\ t.version /\ t.retry = s.retry
               /\ t.pending = req /\ t.nextReq = nxt
            \/ ~t.conn /\ t.sid = 0 /\ t.pending = 0 /\ t.nextReq = 1 /\ t.retry = 0
    <2> HIDE DEF nxt
    <2>0. /\ t.state = "CLIENT_RETURN" /\ t.txed /\ t.waiting /\ t.window
          /\ t.server = usb.server /\ t.client = usb.client /\ t.nextSid = usb.nextSid
          /\ t.conn = usb.conn /\ t.sid = usb.sid /\ t.version = usb.version
          /\ t.retry = usb.retry /\ t.pending = usb.pending /\ t.nextReq = usb.nextReq
      <3>1. /\ t.state = "CLIENT_RETURN" /\ t.txed = armed.txed /\ t.waiting = armed.waiting
            /\ t.server = armed.server /\ t.client = armed.client /\ t.nextSid = armed.nextSid
            /\ t.conn = armed.conn /\ t.version = armed.version
        BY <1>8 DEF Entered
      <3>2. /\ t.window = armed.window /\ t.sid = armed.sid /\ t.retry = armed.retry
            /\ t.pending = armed.pending /\ t.nextReq = armed.nextReq
        BY <1>8 DEF Entered
      <3> QED
        BY <1>7, <3>1, <3>2
    <2>1. CASE Same(tcp, made)
      <3>0. Alike(usb, tcp) /\ Alike(tcp, made)
        BY <2>1, <1>6 DEF Same
      <3>1. /\ usb.conn /\ usb.sid = s.sid /\ usb.pending = req /\ usb.nextReq = nxt
            /\ usb.retry = s.retry /\ usb.server = s.server /\ usb.client = s.client
            /\ usb.nextSid = s.nextSid /\ usb.version
        BY <1>3, <3>0 DEF Alike
      <3> QED
        BY <2>0, <3>1
    <2>2. CASE Closed(tcp, made)
      <3>1. /\ ~usb.conn /\ usb.sid = 0 /\ usb.pending = 0 /\ usb.nextReq = 1
            /\ usb.retry = 0 /\ usb.server = s.server /\ usb.client = s.client
            /\ usb.nextSid = s.nextSid
        BY <2>2, <1>3, <1>6 DEF Same, Alike, Closed
      <3> QED
        BY <2>0, <3>1
    <2> QED
      BY <2>1, <2>2, <1>4
  <1>101. Repeats(s, t) \/ ~reuse
    <2> HIDE DEF nxt
    <2> QED
      BY <1>10 DEF Repeats, req
  <1>102. Reports(s, t)
    <2>1. s.stream /\ ~usb.stream => Told(usb.usb)
      BY <1>3, <1>4, <1>6 DEF Same, Alike, Closed
    <2> QED
      BY <2>1, <1>7, <1>8 DEF Entered, Reports, Keepalive
  <1>11. LinkInv(t)
    BY <1>8, <1>10, BridgeConstants DEF LinkInv, Armed, Negotiated, InStep, RetryOk, Keepalive
  <1>12. ASSUME NoWrap, s.nextSid = s.sid + 1, s.nextReq > 0, s.nextReq <= MaxReq + 1,
                reuse => s.pending # 0 /\ s.pending < s.nextReq,
                ~reuse => s.nextReq <= MaxReq
         PROVE  PendingInv(t) /\ Sends(s, t)
    <2> s.pending \in Nat /\ s.nextReq \in Nat
      BY BridgeConstants DEF Statics, Id
    <2>1. CASE reuse
      <3>1. req = s.pending /\ nxt = s.nextReq
        BY <1>12, <2>1 DEF req
      <3> HIDE DEF nxt
      <3> QED
        BY <1>10, <1>12, <2>1, <3>1, BridgeConstants DEF PendingInv, Sends
    <2>2. CASE ~reuse
      <3>1. req = s.nextReq /\ nxt = s.nextReq + 1
        BY <1>12, <2>2, BridgeConstants DEF req, IncId, NoWrap, Statics, Id
      <3> HIDE DEF nxt
      <3> QED
        BY <1>10, <1>12, <2>2, <3>1, BridgeConstants DEF PendingInv, Sends
    <2> QED
      BY <2>1, <2>2
  <1> QED
    BY <1>8, <1>9, <1>101, <1>102, <1>11, <1>12

(* Giving the client up after the last retry. *)
LEMMA FailureGood ==
  ASSUME NEW s \in Statics, NEW t \in Statics, LinkInv(s),
         t.nextSid = s.nextSid, t.server = s.server, t.state = s.state, t.delay = s.delay,
         t.stream = s.stream
  PROVE  Good(s, RunningIntegerFailure(t))
  <1> DEFINE f == UsbFault(t, "keepalive_retry_exhausted")
             c == CloseTcpClient(f)
             e == EnterState(c, "INITIALIZE")
             r == [e EXCEPT !.server = 0, !.client = 1, !.retry = 0]
  <1>1. f \in Statics /\ Same(f, t)
    BY UsbFaultFacts DEF Tag
  <1> HIDE DEF f
  <1>2. c \in Statics /\ Closed(c, f)
    BY <1>1, CloseFacts
  <1> HIDE DEF c
  <1>3. e \in Statics /\ Entered(e, c, "INITIALIZE")
    BY <1>2, EnterFacts DEF State
  <1> HIDE DEF e
  <1>4. /\ r \in Statics /\ r.state = "INITIALIZE" /\ r.server = 0 /\ r.retry = 0 /\ ~r.conn
        /\ r.sid = 0 /\ r.pending = 0 /\ r.nextReq = 1 /\ r.nextSid = s.nextSid /\ ~r.delay
        /\ ~r.stream /\ (s.stream => Told(r.usb))
    <2>1. r \in Statics
      BY <1>3, Small DEF Statics
    <2>2. /\ e.state = "INITIALIZE" /\ ~e.conn /\ e.sid = 0 /\ e.pending = 0
          /\ e.nextReq = 1 /\ e.nextSid = s.nextSid /\ ~e.delay
          /\ ~e.stream /\ (s.stream => Told(e.usb))
      BY <1>1, <1>2, <1>3 DEF Same, Alike, Closed, Entered, Keepalive
    <2> QED
      BY <2>1, <2>2, <1>3 DEF Statics
  <1> HIDE DEF r
  <1>5. LinkInv(r)
    BY <1>4 DEF LinkInv, Armed, Negotiated, InStep, RetryOk, Keepalive, Statics
  <1>6. PendingInv(r) /\ Evolves(s, r)
    BY <1>4, BridgeConstants DEF PendingInv, Evolves, Statics, Id
  <1>7. Repeats(s, r) /\ Reports(s, r)
    BY <1>4 DEF Repeats, Reports
  <1> QED
    BY <1>4, <1>5, <1>6, <1>7 DEF Good, RunningIntegerFailure, r, e, c, f

LEMMA GoodThenReset ==
  ASSUME NEW s \in Statics, NEW t \in Statics, Good(s, t)
  PROVE  Good(s, EnterState(t, "RESET"))
  <1> DEFINE e == EnterState(t, "RESET")
  <1>1. e \in Statics /\ Entered(e, t, "RESET")
    BY EnterFacts DEF State
  <1> HIDE DEF e
  <1>2. LinkInv(e)
    BY <1>1 DEF Good, LinkInv, Armed, Negotiated, InStep, RetryOk, Entered, Keepalive, Statics
  <1>3. PendingInv(t) /\ Evolves(s, t) => PendingInv(e) /\ Evolves(s, e)
    BY <1>1, BridgeConstants DEF PendingInv, Evolves, Entered
  <1>4. Repeats(s, e) /\ Reports(s, e)
    BY <1>1 DEF Good, Repeats, Reports, Entered, LinkInv, Keepalive
  <1> QED
    BY <1>1, <1>2, <1>3, <1>4 DEF Good, e

LEMMA GoodWifiDisable ==
  ASSUME NEW s \in Statics, LinkInv(s)
  PROVE  Good(s, WifiDisable(s))
  <1> DEFINE c == CloseTcpClient(s)
             d == [c EXCEPT !.listen = FALSE, !.wifi = FALSE]
             e == EnterState(d, "RESET")
  <1>1. c \in Statics /\ Good(s, c)
    BY CloseFacts, GoodRefl, GoodThenClosed
  <1> HIDE DEF c
  <1>2. d \in Statics /\ Same(d, c)
    BY <1>1 DEF Statics, Same, Alike
  <1> HIDE DEF d
  <1>3. e \in Statics /\ Good(s, e)
    BY <1>1, <1>2, GoodThenSame, GoodThenReset DEF Good
  <1> HIDE DEF e
  <1> QED
    BY <1>3, UsbSendFacts, GoodThenSame, Small DEF WifiDisable, e, d, c, MessageType, Tag

LEMMA GoodWifiEnable ==
  ASSUME NEW s \in Statics, LinkInv(s), NEW apUp \in BOOLEAN, NEW srvUp \in BOOLEAN
  PROVE  Good(s, WifiEnable(s, apUp, srvUp))
  <1> DEFINE up == [s EXCEPT !.wifi = @ \/ apUp, !.listen = @ \/ (apUp /\ srvUp)]
  <1>1. up \in Statics /\ Same(up, s)
    <2>1. (s.wifi \/ apUp) \in BOOLEAN /\ (s.listen \/ (apUp /\ srvUp)) \in BOOLEAN
      BY DEF Statics
    <2>2. up \in Statics
      BY <2>1, Updates, Zenon
    <2>3. Alike(up, s) /\ up.usb = s.usb
      BY DEF Statics, Alike
    <2> QED
      BY <2>2, <2>3 DEF Same
  <1> HIDE DEF up
  <1>2. Good(s, up)
    BY <1>1, GoodSame
  <1>3. WifiEnable(s, apUp, srvUp) \in {UsbSend(up, "ACK", "wifi_enabled", 0, 0),
                                        UsbSend(up, "ERROR", "wifi_enable_failed", 0, 0)}
    BY DEF WifiEnable, up
  <1>4. /\ "ACK" \in MessageType /\ "wifi_enabled" \in Tag
        /\ "ERROR" \in MessageType /\ "wifi_enable_failed" \in Tag
    BY DEF MessageType, Tag
  <1>5. /\ UsbSend(up, "ACK", "wifi_enabled", 0, 0) \in Statics
        /\ Same(UsbSend(up, "ACK", "wifi_enabled", 0, 0), up)
        /\ UsbSend(up, "ERROR", "wifi_enable_failed", 0, 0) \in Statics
        /\ Same(UsbSend(up, "ERROR", "wifi_enable_failed", 0, 0), up)
    BY <1>1, <1>4, UsbSendFacts, Small
  <1> QED
    BY <1>1, <1>2, <1>3, <1>5, GoodThenSame

LEMMA GoodTelemetryReset ==
  ASSUME NEW s \in Statics, LinkInv(s),
         NEW tag \in {"telemetry_reset", "telemetry_reset_max_delay"}
  PROVE  Good(s, OnTelemetryReset(s, tag))
  <1> DEFINE r == IF tag = "telemetry_reset" /\ s.state \notin Keepalive
                  THEN [s EXCEPT !.delay = FALSE] ELSE s
             u == UsbSend(r, "ACK", tag, 0, 0)
  <1>1. r \in Statics /\ Same(r, s)
    <2>1. s.state \notin Keepalive => s.delay = FALSE
      BY DEF Statics, LinkInv
    <2>2. [s EXCEPT !.delay = FALSE] \in Statics
      BY DEF Statics
    <2>3. s.delay = FALSE => Same([s EXCEPT !.delay = FALSE], s)
      BY DEF Statics, Same, Alike
    <2>4. Same(s, s)
      BY DEF Same, Alike
    <2> QED
      BY <2>1, <2>2, <2>3, <2>4
  <1> HIDE DEF r
  <1>2. "ACK" \in MessageType /\ "DATA" \in MessageType /\ tag \in Tag /\ "telemetry" \in Tag
    BY DEF MessageType, Tag
  <1>3. u \in Statics /\ Same(u, r)
    BY <1>1, <1>2, UsbSendFacts, Small
  <1> HIDE DEF u
  <1>4. Good(s, u)
    BY <1>1, <1>3, GoodSame DEF Same, Alike
  <1> QED
    BY <1>2, <1>3, <1>4, UsbSendFacts, GoodThenSame, Small DEF OnTelemetryReset, u, r

(* A newly accepted client starts outside keepalive, without a session. *)
LEMMA GoodAccept ==
  ASSUME NEW s \in Statics, LinkInv(s), NEW ok \in BOOLEAN
  PROVE  Good(s, TakeClient(s, ok))
  <1> DEFINE c == IF s.conn THEN CloseTcpClient(s) ELSE s
             d == [c EXCEPT !.conn = TRUE, !.txed = FALSE, !.rx = 0]
             e == EnterState(d, "CONNECT")
             x == [e EXCEPT !.server = 0, !.client = 1, !.waiting = FALSE,
                            !.window = FALSE, !.retry = 0, !.sid = 0,
                            !.pending = 0, !.completed = 0, !.nextReq = 1]
             t == SendTcp(x, ok)
  <1>1. /\ c \in Statics /\ c.nextSid = s.nextSid
        /\ (c.stream => c.state \in Keepalive) /\ (s.stream /\ ~c.stream => Told(c.usb))
    BY CloseFacts DEF Closed, LinkInv
  <1> HIDE DEF c
  <1>2. /\ d \in Statics /\ d.nextSid = s.nextSid
        /\ d.stream = c.stream /\ d.state = c.state /\ d.usb = c.usb
    BY <1>1, Small DEF Statics
  <1> HIDE DEF d
  <1>3. e \in Statics /\ Entered(e, d, "CONNECT")
    BY <1>2, EnterFacts DEF State
  <1> HIDE DEF e
  <1>4. /\ x \in Statics /\ x.state = "CONNECT" /\ x.server = 0 /\ x.nextSid = s.nextSid
        /\ ~x.delay /\ x.sid = 0 /\ x.pending = 0 /\ x.nextReq = 1 /\ x.retry = 0
        /\ x.stream = e.stream /\ x.usb = e.usb
    <2>1. x \in Statics
      BY <1>3, Small, Updates, Zenon
    <2>2. /\ x.state = e.state /\ x.server = 0 /\ x.nextSid = e.nextSid /\ x.delay = e.delay
          /\ x.sid = 0 /\ x.pending = 0 /\ x.nextReq = 1 /\ x.retry = 0
          /\ x.stream = e.stream /\ x.usb = e.usb
      BY <1>3 DEF Statics
    <2> HIDE DEF x
    <2> QED
      BY <1>2, <1>3, <2>1, <2>2 DEF Entered, Keepalive
  <1>41. ~x.stream /\ (s.stream => Told(x.usb))
    BY <1>1, <1>2, <1>3, <1>4 DEF Entered, Keepalive
  <1> HIDE DEF x
  <1>5. Good(s, x)
    <2>1. LinkInv(x)
      BY <1>4, <1>41 DEF LinkInv, Armed, Negotiated, InStep, RetryOk, Keepalive, Statics
    <2>2. PendingInv(x) /\ Evolves(s, x)
      BY <1>4, BridgeConstants DEF PendingInv, Evolves, Statics, Id
    <2>3. Repeats(s, x) /\ Reports(s, x)
      BY <1>4, <1>41 DEF Repeats, Reports
    <2> QED
      BY <1>4, <2>1, <2>2, <2>3 DEF Good
  <1>6. t \in Statics /\ Good(s, t)
    BY <1>4, <1>5, SendTcpFacts, GoodThenSame, GoodThenClosed
  <1> HIDE DEF t
  <1>7. "ACK" \in MessageType /\ "tcp_connected" \in Tag
    BY DEF MessageType, Tag
  <1> QED
    BY <1>6, <1>7, UsbSendFacts, GoodThenSame, Small DEF TakeClient, t, x, e, d, c


(* The send that the engine makes when nothing is pending. *)
LEMMA EngineSend ==
  ASSUME NEW s \in Statics, LinkInv(s), NEW ok \in BOOLEAN,
         s.conn, ~s.waiting, s.state = "SERVER_SEND", s.nextReq <= MaxReq
  PROVE  /\ SendServerKeepalive(s, FALSE, ok) \in Statics
         /\ LinkInv(SendServerKeepalive(s, FALSE, ok))
         /\ NoWrap /\ PendingInv(s) => /\ PendingInv(SendServerKeepalive(s, FALSE, ok))
                                       /\ Sends(s, SendServerKeepalive(s, FALSE, ok))
         /\ Repeats(s, SendServerKeepalive(s, FALSE, ok))
         /\ Reports(s, SendServerKeepalive(s, FALSE, ok))
  <1>1. /\ s.sid # 0 /\ s.version /\ InStep(s) /\ s.nextSid \in 1 .. (MaxSid + 1)
        /\ s.sid < s.nextSid
    BY DEF LinkInv, Armed, Negotiated, Keepalive
  <1>2. s.retry < RetryLimit
    BY BridgeConstants DEF LinkInv, RetryOk, Statics
  <1>3. /\ SendServerKeepalive(s, FALSE, ok) \in Statics
        /\ LinkInv(SendServerKeepalive(s, FALSE, ok))
        /\ NoWrap /\ s.nextSid = s.sid + 1 /\ s.nextReq > 0 /\ s.nextReq <= MaxReq + 1
           => /\ PendingInv(SendServerKeepalive(s, FALSE, ok))
              /\ Sends(s, SendServerKeepalive(s, FALSE, ok))
        /\ Reports(s, SendServerKeepalive(s, FALSE, ok))
    BY <1>1, <1>2, SendFacts
  <1>4. Repeats(s, SendServerKeepalive(s, FALSE, ok))
    BY DEF Repeats
  <1> QED
    BY <1>1, <1>3, <1>4 DEF PendingInv

(* The resend after an elapsed window that is not the last one. *)
LEMMA WatchdogSend ==
  ASSUME NEW s \in Statics, LinkInv(s), NEW ok \in BOOLEAN,
         s.conn, s.waiting, s.state = "CLIENT_RETURN", s.retry + 1 < RetryLimit,
         NEW t, t = SendServerKeepalive(EnterState([s EXCEPT !.retry = @ + 1], "SERVER_SEND"),
                                        TRUE, ok)
  PROVE  /\ t \in Statics /\ LinkInv(t)
         /\ NoWrap /\ PendingInv(s) => PendingInv(t) /\ Sends(s, t)
         /\ Repeats(s, t) /\ Reports(s, t)
  <1> DEFINE l == [s EXCEPT !.retry = @ + 1]
             e == EnterState(l, "SERVER_SEND")
  <1>1. /\ s.sid # 0 /\ s.version /\ InStep(s) /\ s.nextSid \in 1 .. (MaxSid + 1)
        /\ s.sid < s.nextSid
    BY DEF LinkInv, Armed, Negotiated, Keepalive
  <1>2. s.retry \in Nat /\ s.retry + 1 \in 0 .. RetryLimit
    <2>1. s.retry \in 0 .. RetryLimit
      BY DEF Statics
    <2> QED
      BY <2>1, BridgeConstants
  <1>3. /\ l \in Statics /\ l.conn = s.conn /\ l.sid = s.sid /\ l.version = s.version
        /\ l.server = s.server /\ l.client = s.client /\ l.nextSid = s.nextSid
        /\ l.retry = s.retry + 1 /\ l.pending = s.pending /\ l.nextReq = s.nextReq
        /\ l.waiting = s.waiting /\ l.stream = s.stream
    BY <1>2 DEF Statics
  <1> HIDE DEF l
  <1>4. e \in Statics /\ Entered(e, l, "SERVER_SEND")
    BY <1>3, EnterFacts DEF State, Keepalive
  <1> HIDE DEF e
  <1>5. /\ e.state = "SERVER_SEND" /\ e.conn /\ e.sid = s.sid /\ e.sid # 0 /\ e.version
        /\ e.server = s.server /\ e.client = s.client /\ e.nextSid = s.nextSid
        /\ e.retry = s.retry + 1 /\ e.pending = s.pending /\ e.nextReq = s.nextReq
        /\ e.waiting = s.waiting /\ e.stream = s.stream
    BY <1>1, <1>3, <1>4 DEF Entered, Keepalive
  <1>6. InStep(e) /\ e.sid < e.nextSid /\ e.nextSid \in 1 .. (MaxSid + 1) /\ e.retry < RetryLimit
    BY <1>1, <1>5 DEF InStep, Keepalive
  <1>7. t = SendServerKeepalive(e, TRUE, ok)
    BY DEF e, l
  <1>8. /\ t \in Statics /\ LinkInv(t)
        /\ /\ NoWrap /\ e.nextSid = e.sid + 1 /\ e.nextReq > 0 /\ e.nextReq <= MaxReq + 1
           /\ e.pending # 0 /\ e.pending < e.nextReq
           => PendingInv(t) /\ Sends(e, t)
        /\ Repeats(e, t) /\ Reports(e, t)
    BY <1>4, <1>5, <1>6, <1>7, SendFacts
  <1>9. Sends(e, t) => Sends(s, t)
    BY <1>5 DEF Sends
  <1>10. PendingInv(s) => /\ e.nextSid = e.sid + 1
                          /\ e.nextReq > 0 /\ e.nextReq <= MaxReq + 1
                          /\ e.pending # 0 /\ e.pending < e.nextReq
    BY <1>5 DEF PendingInv
  <1>11. Repeats(s, t) /\ Reports(s, t)
    BY <1>5, <1>8 DEF Repeats, Reports
  <1> QED
    BY <1>8, <1>9, <1>10, <1>11

-----------------------------------------------------------------------------
(* The actions. *)

LEMMA GoodFrom ==
  ASSUME NEW s \in Statics, NEW u \in Statics, Alike(u, s), NEW t, Good(u, t)
  PROVE  Good(s, t)
  <1>1. PendingInv(s) => PendingInv(u)
    BY DEF PendingInv, Alike
  <1>2. Evolves(u, t) => Evolves(s, t)
    BY DEF Evolves, Alike
  <1>3. Repeats(s, t) /\ Reports(s, t)
    BY DEF Good, Repeats, Reports, Alike
  <1> QED
    BY <1>1, <1>2, <1>3 DEF Good

LEMMA FreshFacts ==
  ASSUME NEW s \in Statics, LinkInv(s)
  PROVE  Fresh(s) \in Statics /\ Alike(Fresh(s), s) /\ LinkInv(Fresh(s))
  <1>1. <<>> \in Seq(UsbFrame)
    OBVIOUS
  <1>2. Fresh(s) \in Statics /\ Alike(Fresh(s), s)
    BY <1>1 DEF Fresh, Statics, Alike
  <1> QED
    BY <1>2 DEF Alike, LinkInv, Armed, Negotiated, InStep, RetryOk

LEMMA ConsumeFacts ==
  ASSUME NEW s \in Statics, NEW tr \in Transport
  PROVE  /\ Consume(s) \in Statics /\ Same(Consume(s), s)
         /\ Handled(tr, s) \in Statics /\ Same(Handled(tr, s), s)
  <1>1. (IF s.rx = 0 THEN RxMod - 1 ELSE s.rx - 1) \in 0 .. (RxMod - 1)
    BY BridgeConstants DEF Statics
  <1>2. Consume(s) \in Statics /\ Same(Consume(s), s)
    BY <1>1 DEF Consume, Statics, Same, Alike
  <1> QED
    BY <1>2 DEF Handled, Same, Alike

(* What a handler does to the statics, the loop's bookkeeping included. *)
LEMMA GoodHandled ==
  ASSUME NEW s \in Statics, LinkInv(s), NEW t, Good(Fresh(s), t), NEW tr \in Transport
  PROVE  Good(s, t) /\ Good(s, Handled(tr, t)) /\ Good(s, Consume(t))
  <1>1. t \in Statics /\ Good(s, t)
    BY FreshFacts, GoodFrom DEF Good
  <1> QED
    BY <1>1, ConsumeFacts, GoodThenSame

(* The four kinds of step: an ordinary one, the acceptance of a response, a *)
(* keepalive send, and a reboot.                                            *)
Quiet == Good(b, b') /\ UNCHANGED <<issued, accepted>>

Accepting ==
  /\ Good(b, b') /\ b'.pending = 0 /\ UNCHANGED issued
  /\ \E f \in KeepaliveFrame : Accepts(b, f) /\ accepted' = Append(accepted, f)

Sending ==
  /\ b' \in Statics /\ LinkInv(b') /\ Repeats(b, b') /\ Reports(b, b')
  /\ NoWrap /\ PendingInv(b) => PendingInv(b') /\ Sends(b, b')
  /\ issued' = issued \cup Outstanding(b')
  /\ UNCHANGED accepted


LEMMA ServiceCases ==
  ASSUME TypeOK, LinkInv(b), ServiceStep
  PROVE  Quiet \/ Sending
  <1> DEFINE s == Fresh(b)
  <1>1. b \in Statics /\ s \in Statics /\ Alike(s, b) /\ LinkInv(s)
    BY FreshFacts DEF TypeOK
  <1>2. /\ s.conn = b.conn /\ s.waiting = b.waiting /\ s.state = b.state
        /\ s.retry = b.retry /\ s.nextReq = b.nextReq
    BY <1>1 DEF Same, Alike
  <1> HIDE DEF s
  <1>3. ASSUME NEW t, Good(s, t), b' = t, UNCHANGED <<issued, accepted>>
        PROVE  Quiet
    BY <1>1, <1>3, GoodFrom DEF Quiet
  <1>4. ASSUME NEW t \in Statics, LinkInv(t),
               NoWrap /\ PendingInv(s) => PendingInv(t) /\ Sends(s, t),
               Repeats(s, t), Reports(s, t), SendStep(t)
        PROVE  Sending
    <2>1. PendingInv(b) => PendingInv(s)
      BY <1>1 DEF PendingInv, Same, Alike
    <2>2. Sends(s, t) => Sends(b, t)
      BY <1>1 DEF Sends, Alike
    <2>3. Repeats(b, t) /\ Reports(b, t)
      BY <1>1, <1>4 DEF Repeats, Reports, Alike
    <2> QED
      BY <1>4, <2>1, <2>2, <2>3 DEF Sending, SendStep
  <1>5. CASE PollTcpClient
    <2>1. PICK n \in {b.rx} \cup 0 .. MaxStaged, x \in BOOLEAN :
            /\ b' = [s EXCEPT !.rx = n, !.blocked = x]
            /\ UNCHANGED <<issued, accepted>>
      <3>1. CASE \E n \in 0 .. MaxStaged : Step([Fresh(b) EXCEPT !.rx = n, !.blocked = FALSE])
        BY <3>1 DEF Step, s
      <3>2. CASE Step([Fresh(b) EXCEPT !.blocked = TRUE])
        <4>1. [s EXCEPT !.blocked = TRUE] = [s EXCEPT !.rx = b.rx, !.blocked = TRUE]
          BY <1>1 DEF s, Fresh, Statics
        <4> QED
          BY <3>2, <4>1 DEF Step, s
      <3> QED
        BY <1>5, <3>1, <3>2 DEF PollTcpClient
    <2>2. n \in 0 .. (RxMod - 1)
      <3>1. b.rx \in 0 .. (RxMod - 1)
        BY <1>1 DEF Statics
      <3>2. RxMod \in Nat /\ MaxStaged \in Nat /\ MaxStaged < RxMod
        BY BridgeConstants
      <3>3. CASE n \in 0 .. MaxStaged
        BY <3>2, <3>3
      <3> QED
        BY <3>1, <3>3
    <2>3. b' \in Statics /\ Same(b', s)
      BY <1>1, <2>1, <2>2 DEF Statics, Same, Alike
    <2> QED
      BY <1>1, <1>3, <2>1, <2>3, GoodSame
  <1>6. CASE PeerClosed
    <2> DEFINE c == CloseTcpClient(s)
    <2>1. c \in Statics /\ Good(s, c)
      BY <1>1, CloseFacts, GoodRefl, GoodThenClosed
    <2> HIDE DEF c
    <2>2. [c EXCEPT !.blocked = FALSE] \in Statics /\ Same([c EXCEPT !.blocked = FALSE], c)
      BY <2>1 DEF Statics, Same, Alike
    <2>3. Good(s, [c EXCEPT !.blocked = FALSE])
      BY <1>1, <2>1, <2>2, GoodThenSame
    <2> QED
      BY <1>3, <1>6, <2>3 DEF PeerClosed, Step, c, s
  <1>7. ASSUME NEW ok \in BOOLEAN, AcceptTcpClient(ok)
        PROVE  Quiet
    BY <1>1, <1>3, <1>7, GoodAccept DEF AcceptTcpClient, Step, s
  <1>8. ASSUME NEW ok \in BOOLEAN, ServiceKeepaliveEngine(ok)
        PROVE  Sending
    <2>1. /\ s.conn /\ ~s.waiting /\ s.state = "SERVER_SEND" /\ s.nextReq <= MaxReq
          /\ SendStep(SendServerKeepalive(s, FALSE, ok))
      BY <1>2, <1>8 DEF ServiceKeepaliveEngine, s
    <2> QED
      BY <1>1, <1>4, <2>1, EngineSend
  <1>9. ASSUME NEW ok \in BOOLEAN, ServiceTransportWatchdog(ok)
        PROVE  Quiet \/ Sending
    <2> DEFINE late == [s EXCEPT !.retry = @ + 1]
               t == SendServerKeepalive(EnterState(late, "SERVER_SEND"), TRUE, ok)
    <2>1. s.conn /\ s.waiting /\ s.state = "CLIENT_RETURN"
      BY <1>2, <1>9 DEF ServiceTransportWatchdog
    <2>2. s.retry \in Nat /\ s.retry < RetryLimit /\ s.retry + 1 \in 0 .. RetryLimit
      BY <1>1, BridgeConstants DEF Statics, LinkInv, RetryOk
    <2>3. /\ late \in Statics /\ late.retry = s.retry + 1 /\ late.nextSid = s.nextSid
          /\ late.server = s.server /\ late.state = s.state /\ late.delay = s.delay
          /\ late.stream = s.stream
      BY <1>1, <2>2 DEF Statics
    <2>4. CASE ~b.window
      <3>1. s.window
        BY <1>1, <2>1 DEF LinkInv, Armed
      <3> QED
        BY <1>1, <2>4, <3>1 DEF Same, Alike
    <2>5. CASE b.window /\ late.retry >= RetryLimit
      <3>1. Step(RunningIntegerFailure(late))
        BY <1>9, <2>5 DEF ServiceTransportWatchdog, CountRetry, Exhausted, s
      <3> HIDE DEF late
      <3>2. Good(s, RunningIntegerFailure(late))
        BY <1>1, <2>3, FailureGood
      <3> QED
        BY <1>3, <3>1, <3>2 DEF Step
    <2>6. CASE b.window /\ ~(late.retry >= RetryLimit)
      <3>1. SendStep(t)
        BY <1>9, <2>6 DEF ServiceTransportWatchdog, CountRetry, Exhausted, Resend, s
      <3>2. s.retry + 1 < RetryLimit
        BY <2>2, <2>3, <2>6, BridgeConstants
      <3> HIDE DEF t
      <3>3. /\ t \in Statics /\ LinkInv(t)
            /\ NoWrap /\ PendingInv(s) => PendingInv(t) /\ Sends(s, t)
            /\ Repeats(s, t) /\ Reports(s, t)
        BY <1>1, <2>1, <3>2, WatchdogSend DEF t
      <3> QED
        BY <1>4, <3>1, <3>3
    <2> QED
      BY <2>4, <2>5, <2>6
  <1> QED
    BY <1>5, <1>6, <1>7, <1>8, <1>9 DEF ServiceStep


LEMMA TcpFrameCases ==
  ASSUME TypeOK, LinkInv(b), TcpFrameStep
  PROVE  Quiet \/ Accepting
  <1> DEFINE s == Fresh(b)
  <1>1. b \in Statics /\ s \in Statics /\ Alike(s, b) /\ LinkInv(s)
    BY FreshFacts DEF TypeOK
  <1> HIDE DEF s
  <1>2. ASSUME NEW t, Good(s, t), b' = t \/ b' = Handled("TCP", t) \/ b' = Consume(t),
               UNCHANGED <<issued, accepted>>
        PROVE  Quiet
    BY <1>1, <1>2, GoodHandled DEF Quiet, s, Transport
  <1>3. "TCP" \in Transport /\ TRUE \in BOOLEAN
    BY DEF Transport
  <1>4. CASE MalformedTcpFrame
    <2>1. Good(s, CloseTcpClient(s))
      BY <1>1, CloseFacts, GoodRefl, GoodThenClosed
    <2> DEFINE u == UsbFault(s, "tcp_frame_parse_failed")
    <2>2. u \in Statics /\ Same(u, s)
      BY <1>1, UsbFaultFacts DEF Tag
    <2> HIDE DEF u
    <2>3. Good(s, CloseTcpClient(u))
      BY <1>1, <2>2, GoodSame, CloseFacts, GoodThenClosed
    <2> QED
      BY <1>2, <1>4, <2>1, <2>3 DEF MalformedTcpFrame, Step, u, s
  <1>5. ASSUME NEW f \in ClientFrames, NEW ok \in BOOLEAN, HandleKeepalive(f, ok)
        PROVE  Quiet \/ Accepting
    <2>1. f \in KeepaliveFrame
      BY ClientFramesAssumption
    <2>2. Good(s, OnKeepalive(s, f, ok))
      BY <1>1, <2>1, GoodKeepalive
    <2>3. b' = Consume(OnKeepalive(s, f, ok)) /\ UNCHANGED issued
      BY <1>5 DEF HandleKeepalive, s
    <2>4. CASE ~Accepts(b, f)
      BY <1>2, <1>5, <2>2, <2>3, <2>4 DEF HandleKeepalive
    <2>5. CASE Accepts(b, f)
      <3>1. Accepts(s, f)
        BY <1>1, <2>5 DEF Accepts, Expected, Same, Alike
      <3>2. OnKeepalive(s, f, ok) = Complete(s, f, ok)
        BY <3>1 DEF OnKeepalive
      <3>3. Complete(s, f, ok) \in Statics /\ Complete(s, f, ok).pending = 0
        BY <1>1, <2>1, <3>1, GoodComplete DEF Good
      <3>4. Good(b, b')
        BY <1>1, <1>3, <2>2, <2>3, GoodHandled DEF s
      <3>5. b'.pending = 0
        BY <1>3, <2>3, <3>2, <3>3, ConsumeFacts DEF Same, Alike
      <3>6. accepted' = Append(accepted, f)
        BY <1>5, <2>5 DEF HandleKeepalive
      <3> QED
        BY <2>1, <2>3, <2>5, <3>4, <3>5, <3>6 DEF Accepting
    <2> QED
      BY <2>4, <2>5
  <1>6. ASSUME NEW kind \in {"text", "uplink", "empty"}, NEW ok \in BOOLEAN,
               HandleTcpData(kind, ok)
        PROVE  Quiet
    BY <1>1, <1>2, <1>6, GoodTcpData DEF HandleTcpData, Step, s
  <1>7. ASSUME NEW ok \in BOOLEAN, HandleReset("TCP", ok)
        PROVE  Quiet
    BY <1>1, <1>2, <1>3, <1>7, GoodReset DEF HandleReset, Step, s
  <1>8. ASSUME NEW ok \in BOOLEAN, HandleConnect("TCP", ok)
        PROVE  Quiet
    <2>1. s.nextSid <= MaxSid
      BY <1>1, <1>8 DEF HandleConnect, Same, Alike
    <2> QED
      BY <1>1, <1>2, <1>3, <1>8, <2>1, GoodConnect DEF HandleConnect, Step, s
  <1>9. ASSUME NEW ok \in BOOLEAN, HandleDisconnect("TCP", ok)
        PROVE  Quiet
    BY <1>1, <1>2, <1>3, <1>9, GoodDisconnect DEF HandleDisconnect, Step, s
  <1>10. ASSUME NEW ok \in BOOLEAN, HandleError("TCP", ok)
         PROVE  Quiet
    BY <1>1, <1>2, <1>3, <1>10, GoodError DEF HandleError, Step, s
  <1>11. ASSUME NEW ok \in BOOLEAN, HandleUnsupported("TCP", ok)
         PROVE  Quiet
    BY <1>1, <1>2, <1>3, <1>11, GoodUnsupported DEF HandleUnsupported, Step, s
  <1>12. ASSUME NEW ok \in BOOLEAN, NEW verOk \in BOOLEAN, HandleInitialize("TCP", verOk, ok)
         PROVE  Quiet
    BY <1>1, <1>2, <1>3, <1>12, GoodInitialize DEF HandleInitialize, Step, s
  <1> QED
    BY <1>4, <1>5, <1>6, <1>7, <1>8, <1>9, <1>10, <1>11, <1>12 DEF TcpFrameStep

LEMMA UsbFrameCases ==
  ASSUME TypeOK, LinkInv(b), UsbFrameStep
  PROVE  Quiet
  <1> DEFINE s == Fresh(b)
  <1>1. b \in Statics /\ s \in Statics /\ Alike(s, b) /\ LinkInv(s)
    BY FreshFacts DEF TypeOK
  <1> HIDE DEF s
  <1>2. ASSUME NEW t, Good(s, t), b' = t \/ b' = Handled("USB", t),
               UNCHANGED <<issued, accepted>>
        PROVE  Quiet
    BY <1>1, <1>2, GoodHandled DEF Quiet, s, Transport
  <1>3. "USB" \in Transport /\ TRUE \in BOOLEAN
    BY DEF Transport
  <1>4. CASE HandleUsbKeepalive
    <2>1. "ACK" \in MessageType /\ "usb_keepalive_not_supported" \in Tag
      BY DEF MessageType, Tag
    <2> DEFINE u == UsbSend(s, "ACK", "usb_keepalive_not_supported", 0, 0)
    <2>2. u \in Statics /\ Same(u, s)
      BY <1>1, <2>1, UsbSendFacts, Small
    <2> HIDE DEF u
    <2>3. Good(s, u)
      BY <1>1, <2>2, GoodSame
    <2> QED
      BY <1>2, <1>4, <2>3 DEF HandleUsbKeepalive, Step, u, s
  <1>5. CASE HandleWifiDisable
    BY <1>1, <1>2, <1>5, GoodWifiDisable DEF HandleWifiDisable, Step, s
  <1>6. ASSUME NEW apUp \in BOOLEAN, NEW srvUp \in BOOLEAN, HandleWifiEnable(apUp, srvUp)
        PROVE  Quiet
    BY <1>1, <1>2, <1>6, GoodWifiEnable DEF HandleWifiEnable, Step, s
  <1>7. ASSUME NEW tag \in {"telemetry_reset", "telemetry_reset_max_delay"},
               HandleTelemetryReset(tag)
        PROVE  Quiet
    BY <1>1, <1>2, <1>7, GoodTelemetryReset DEF HandleTelemetryReset, Step, s
  <1>8. ASSUME NEW ok \in BOOLEAN, NEW kind \in {"text", "downlink", "empty"},
               HandleUsbData(kind, ok)
        PROVE  Quiet
    BY <1>1, <1>2, <1>8, GoodUsbData DEF HandleUsbData, Step, s
  <1>9. CASE HandleReset("USB", TRUE)
    BY <1>1, <1>2, <1>3, <1>9, GoodReset DEF HandleReset, Step, s
  <1>10. CASE HandleConnect("USB", TRUE)
    <2>1. s.nextSid <= MaxSid
      BY <1>1, <1>10 DEF HandleConnect, Same, Alike
    <2> QED
      BY <1>1, <1>2, <1>3, <1>10, <2>1, GoodConnect DEF HandleConnect, Step, s
  <1>11. CASE HandleDisconnect("USB", TRUE)
    BY <1>1, <1>2, <1>3, <1>11, GoodDisconnect DEF HandleDisconnect, Step, s
  <1>12. CASE HandleError("USB", TRUE)
    BY <1>1, <1>2, <1>3, <1>12, GoodError DEF HandleError, Step, s
  <1>13. CASE HandleUnsupported("USB", TRUE)
    BY <1>1, <1>2, <1>3, <1>13, GoodUnsupported DEF HandleUnsupported, Step, s
  <1>14. ASSUME NEW verOk \in BOOLEAN, HandleInitialize("USB", verOk, TRUE)
         PROVE  Quiet
    BY <1>1, <1>2, <1>3, <1>14, GoodInitialize DEF HandleInitialize, Step, s
  <1> QED
    BY <1>4, <1>5, <1>6, <1>7, <1>8, <1>9, <1>10, <1>11, <1>12, <1>13, <1>14 DEF UsbFrameStep


LEMMA BootFacts ==
  /\ BootState \in Statics /\ LinkInv(BootState) /\ PendingInv(BootState)
  /\ BootState.pending = 0
  <1>1. <<>> \in Seq(UsbFrame)
    OBVIOUS
  <1>2. BootState \in Statics
    BY <1>1, Small DEF BootState, Statics, State
  <1>3. LinkInv(BootState)
    BY BridgeConstants
    DEF BootState, LinkInv, Armed, Negotiated, InStep, RetryOk, Keepalive
  <1> QED
    BY <1>2, <1>3, BridgeConstants DEF BootState, PendingInv

LEMMA BootCase ==
  ASSUME TypeOK, LinkInv(b), Boot
  PROVE  Quiet
  <1> DEFINE s == Fresh(b)
  <1>1. b \in Statics /\ s \in Statics /\ Alike(s, b) /\ LinkInv(s)
    BY FreshFacts DEF TypeOK
  <1> HIDE DEF s
  <1>2. CASE Step([s EXCEPT !.boot = "run", !.listen = TRUE])
    <2>1. b' \in Statics /\ Same(b', s)
      BY <1>1, <1>2 DEF Step, Statics, Same, Alike
    <2> QED
      BY <1>1, <1>2, <2>1, GoodSame, GoodFrom DEF Quiet, Step
  <1>3. CASE Step([EnterState(s, "ERROR") EXCEPT !.boot = "halted"])
    <2> DEFINE e == EnterState(s, "ERROR")
    <2>1. e \in Statics /\ Good(s, e)
      BY <1>1, GoodRefl, GoodThenEnter DEF Good
    <2> HIDE DEF e
    <2>2. [e EXCEPT !.boot = "halted"] \in Statics /\ Same([e EXCEPT !.boot = "halted"], e)
      BY <2>1 DEF Statics, Same, Alike
    <2>3. Good(s, [e EXCEPT !.boot = "halted"])
      BY <1>1, <2>1, <2>2, GoodThenSame
    <2> QED
      BY <1>1, <1>3, <2>3, GoodFrom DEF Quiet, Step, e
  <1> QED
    BY <1>2, <1>3 DEF Boot, s

(* Every step is of one of the four kinds. *)
LEMMA NextCases ==
  ASSUME TypeOK, LinkInv(b), [Next]_vars
  PROVE  Quiet \/ Accepting \/ Sending \/ Reboot
  <1>1. CASE UNCHANGED vars
    <2>1. Good(b, b')
      BY <1>1, GoodRefl DEF TypeOK, vars
    <2> QED
      BY <1>1, <2>1 DEF Quiet, vars
  <1> QED
    BY <1>1, BootCase, ServiceCases, TcpFrameCases, UsbFrameCases DEF Next

-----------------------------------------------------------------------------
(* The theorems. *)

(* The invariant of the statics is inductive. *)
LEMMA LinkInductive ==
  ASSUME TypeOK, LinkInv(b), [Next]_vars
  PROVE  TypeOK' /\ LinkInv(b)'
  <1>1. CASE Quiet
    BY <1>1 DEF Quiet, Good, TypeOK
  <1>2. CASE Accepting
    BY <1>2 DEF Accepting, Good, TypeOK
  <1>3. CASE Sending
    <2>1. Outstanding(b') \subseteq Exchange
      BY <1>3 DEF Sending, Outstanding, Statics, Exchange
    <2> QED
      BY <1>3, <2>1 DEF Sending, TypeOK
  <1>4. CASE Reboot
    BY <1>4, BootFacts DEF Reboot, TypeOK
  <1> QED
    BY <1>1, <1>2, <1>3, <1>4, NextCases

LEMMA LinkInvariance == Spec => [](TypeOK /\ LinkInv(b))
  <1>1. Init => TypeOK /\ LinkInv(b)
    BY BootFacts DEF Init, TypeOK
  <1>2. TypeOK /\ LinkInv(b) /\ [Next]_vars => (TypeOK /\ LinkInv(b))'
    BY LinkInductive
  <1> QED
    BY <1>1, <1>2, PTL DEF Spec

(* The statics and the histories keep their types, for every width of the   *)
(* counters: no handler of CommunicationFunctions.c leaves them.            *)
THEOREM TypeCorrect == Spec => []TypeOK
  BY LinkInvariance, PTL

(* With a client attached the keepalive exchange is never stranded: one of  *)
(* bridge_service_keepalive_engine and bridge_service_transport_watchdog    *)
(* will serve it.                                                           *)
THEOREM NeverStranded == Spec => []KeepaliveArmed
  <1>1. LinkInv(b) => KeepaliveArmed
    BY DEF LinkInv, KeepaliveArmed
  <1> QED
    BY <1>1, LinkInvariance, PTL

(* No keepalive with a client whose data interface version was not agreed.  *)
THEOREM VersionFirst == Spec => []NegotiatedBeforeKeepalive
  <1>1. LinkInv(b) => NegotiatedBeforeKeepalive
    BY DEF LinkInv, NegotiatedBeforeKeepalive
  <1> QED
    BY <1>1, LinkInvariance, PTL

(* The live integers stay coupled, through retries, reconnects and the wrap *)
(* of their counters.                                                       *)
THEOREM CountersCoupled == Spec => []CountersInStep
  <1>1. LinkInv(b) => CountersInStep
    BY DEF LinkInv, CountersInStep
  <1> QED
    BY <1>1, LinkInvariance, PTL

(* The retry counter stays below the limit and is zero when nothing waits.  *)
THEOREM RetryBound == Spec => []RetriesBounded
  <1>1. LinkInv(b) => RetriesBounded
    BY DEF LinkInv, RetriesBounded
  <1> QED
    BY <1>1, LinkInvariance, PTL

(* No path out of the keepalive phases leaves the delay of the last         *)
(* exchange behind (bridge_update_transport_last_delay_for_state).          *)
THEOREM DelayFresh == Spec => []DelayOnlyInKeepalive
  <1>1. LinkInv(b) => DelayOnlyInKeepalive
    BY DEF LinkInv, DelayOnlyInKeepalive
  <1> QED
    BY <1>1, LinkInvariance, PTL

-----------------------------------------------------------------------------
(* The accepted responses. *)

LEMMA QuietHistory ==
  ASSUME NoWrap, TypeOK, LinkInv(b), BridgeInv, Quiet
  PROVE  HistoryInv'
  <1>1. Evolves(b, b') /\ PendingInv(b)'
    BY DEF BridgeInv, Quiet, Good
  <1>2. accepted' = accepted /\ issued' = issued
    BY DEF Quiet
  <1>3. b'.pending # 0 => [sid |-> b'.sid, req |-> b'.pending, server |-> b'.server] \in issued
    BY <1>1 DEF Evolves, BridgeInv, HistoryInv
  <1>4. b \in Statics /\ b' \in Statics
    BY DEF TypeOK, Quiet, Good
  <1>5. /\ b.nextSid \in Nat /\ b'.nextSid \in Nat /\ b.sid \in Nat /\ b'.sid \in Nat
        /\ b.nextReq \in Nat /\ b'.nextReq \in Nat /\ b.pending \in Nat /\ b'.pending \in Nat
    BY <1>4, BridgeConstants DEF Statics, Id
  <1>6. ASSUME NEW i \in DOMAIN accepted
        PROVE  /\ accepted[i].sid \in 1 .. (b'.nextSid - 1)
               /\ accepted[i].sid = b'.sid => /\ accepted[i].req < b'.nextReq
                                              /\ b'.pending # 0 => accepted[i].req < b'.pending
    <2>1. accepted[i].req \in Nat
      <3>1. accepted[i] \in KeepaliveFrame
        BY DEF TypeOK
      <3> QED
        BY <3>1, BridgeConstants DEF KeepaliveFrame, Id
    <2>2. /\ accepted[i].sid \in 1 .. (b.nextSid - 1)
          /\ accepted[i].sid = b.sid => /\ accepted[i].req < b.nextReq
                                        /\ b.pending # 0 => accepted[i].req < b.pending
      BY DEF BridgeInv, HistoryInv
    <2> QED
      BY <1>1, <1>5, <2>1, <2>2 DEF Evolves
  <1> QED
    BY <1>2, <1>3, <1>6 DEF HistoryInv

LEMMA SendingHistory ==
  ASSUME NoWrap, TypeOK, LinkInv(b), BridgeInv, Sending
  PROVE  HistoryInv'
  <1>1. Sends(b, b') /\ PendingInv(b)'
    BY DEF BridgeInv, Sending
  <1>2. accepted' = accepted /\ issued' = issued \cup Outstanding(b')
    BY DEF Sending
  <1>3. b'.pending # 0 => [sid |-> b'.sid, req |-> b'.pending, server |-> b'.server] \in issued'
    BY <1>1, <1>2 DEF PendingInv, Outstanding
  <1>4. b \in Statics /\ b' \in Statics
    BY DEF TypeOK, Sending
  <1>5. /\ b.nextSid \in Nat /\ b'.nextSid \in Nat /\ b.sid \in Nat /\ b'.sid \in Nat
        /\ b.nextReq \in Nat /\ b'.nextReq \in Nat /\ b.pending \in Nat /\ b'.pending \in Nat
    BY <1>4, BridgeConstants DEF Statics, Id
  <1>6. ASSUME NEW i \in DOMAIN accepted
        PROVE  /\ accepted[i].sid \in 1 .. (b'.nextSid - 1)
               /\ accepted[i].sid = b'.sid => /\ accepted[i].req < b'.nextReq
                                              /\ b'.pending # 0 => accepted[i].req < b'.pending
    <2>1. accepted[i].req \in Nat
      <3>1. accepted[i] \in KeepaliveFrame
        BY DEF TypeOK
      <3> QED
        BY <3>1, BridgeConstants DEF KeepaliveFrame, Id
    <2>2. /\ accepted[i].sid \in 1 .. (b.nextSid - 1)
          /\ accepted[i].sid = b.sid => /\ accepted[i].req < b.nextReq
                                        /\ b.pending # 0 => accepted[i].req < b.pending
      BY DEF BridgeInv, HistoryInv
    <2> QED
      BY <1>1, <1>5, <2>1, <2>2 DEF Sends
  <1> QED
    BY <1>2, <1>3, <1>6 DEF HistoryInv

LEMMA AcceptingHistory ==
  ASSUME NoWrap, TypeOK, LinkInv(b), BridgeInv, Accepting
  PROVE  HistoryInv' /\ AcceptedWasIssued' /\ AcceptedInOrder'
  <1>1. Evolves(b, b') /\ PendingInv(b)' /\ b'.pending = 0 /\ issued' = issued
    BY DEF BridgeInv, Accepting, Good
  <1>2. PICK f \in KeepaliveFrame : Accepts(b, f) /\ accepted' = Append(accepted, f)
    BY DEF Accepting
  <1>3. /\ f.sid = b.sid /\ f.req = b.pending /\ f.server = b.server
        /\ f.client = Inc(f.server) /\ b.pending # 0
    BY <1>2 DEF Accepts, Expected
  <1>4. b \in Statics /\ b' \in Statics /\ accepted \in Seq(KeepaliveFrame)
    BY DEF TypeOK, Accepting, Good
  <1>5. /\ b.nextSid \in Nat /\ b'.nextSid \in Nat /\ b.sid \in Nat /\ b'.sid \in Nat
        /\ b.nextReq \in Nat /\ b'.nextReq \in Nat /\ b.pending \in Nat
    BY <1>4, BridgeConstants DEF Statics, Id
  <1>6. b.sid # 0 /\ b.pending < b.nextReq /\ b.nextSid = b.sid + 1
    BY <1>3 DEF BridgeInv, PendingInv
  <1>7. ASSUME NEW i \in DOMAIN accepted
        PROVE  /\ accepted[i].req \in Nat /\ accepted[i].sid \in 1 .. (b.nextSid - 1)
               /\ accepted[i].sid = b.sid => accepted[i].req < b.pending
               /\ [sid |-> accepted[i].sid, req |-> accepted[i].req,
                   server |-> accepted[i].server] \in issued
               /\ accepted[i].client = Inc(accepted[i].server)
    <2>1. accepted[i] \in KeepaliveFrame
      BY <1>4
    <2> QED
      BY <1>3, <2>1, BridgeConstants
      DEF BridgeInv, HistoryInv, AcceptedWasIssued, KeepaliveFrame, Id
  <1> DEFINE n == Len(accepted) + 1
             A == Append(accepted, f)
  <1>8. /\ DOMAIN A = 1 .. n /\ A[n] = f
        /\ \A i \in 1 .. (n - 1) : i \in DOMAIN accepted /\ A[i] = accepted[i]
        /\ n \in Nat
    BY <1>4
  <1> HIDE DEF A, n
  <1>9. accepted' = A
    BY <1>2 DEF A
  <1>10. HistoryInv'
    <2>1. ASSUME NEW i \in DOMAIN A
          PROVE  /\ A[i].sid \in 1 .. (b'.nextSid - 1)
                 /\ A[i].sid = b'.sid => A[i].req < b'.nextReq
      <3>1. CASE i = n
        BY <1>1, <1>3, <1>5, <1>6, <1>8, <3>1 DEF Evolves
      <3>2. CASE i # n
        <4>1. i \in DOMAIN accepted /\ A[i] = accepted[i]
          BY <1>8, <3>2
        <4>2. /\ A[i].req \in Nat /\ A[i].sid \in 1 .. (b.nextSid - 1)
              /\ A[i].sid = b.sid => A[i].req < b.pending
          BY <1>7, <4>1
        <4> QED
          BY <1>1, <1>5, <1>6, <4>2 DEF Evolves
      <3> QED
        BY <3>1, <3>2
    <2> QED
      BY <1>1, <1>9, <2>1 DEF HistoryInv
  <1>11. AcceptedWasIssued'
    <2>1. [sid |-> f.sid, req |-> f.req, server |-> f.server] \in issued
      BY <1>3 DEF BridgeInv, HistoryInv
    <2>2. ASSUME NEW i \in DOMAIN A
          PROVE  /\ [sid |-> A[i].sid, req |-> A[i].req, server |-> A[i].server] \in issued
                 /\ A[i].client = Inc(A[i].server)
      <3>1. CASE i = n
        BY <1>3, <1>8, <2>1, <3>1
      <3>2. CASE i # n
        <4>1. i \in DOMAIN accepted /\ A[i] = accepted[i]
          BY <1>8, <3>2
        <4> QED
          BY <1>7, <4>1
      <3> QED
        BY <3>1, <3>2
    <2> QED
      BY <1>1, <1>9, <2>2 DEF AcceptedWasIssued
  <1>12. AcceptedInOrder'
    <2>1. ASSUME NEW i \in DOMAIN A, NEW j \in DOMAIN A, i < j
          PROVE  \/ A[i].sid < A[j].sid
                 \/ A[i].sid = A[j].sid /\ A[i].req < A[j].req
      <3>1. i \in DOMAIN accepted /\ A[i] = accepted[i]
        BY <1>8, <2>1
      <3>2. CASE j = n
        <4>1. /\ A[i].req \in Nat /\ A[i].sid \in 1 .. (b.nextSid - 1)
              /\ A[i].sid = b.sid => A[i].req < b.pending
          BY <1>7, <3>1
        <4> QED
          BY <1>3, <1>5, <1>6, <1>8, <3>2, <4>1
      <3>3. CASE j # n
        <4>1. j \in DOMAIN accepted /\ A[j] = accepted[j]
          BY <1>8, <3>3
        <4> QED
          BY <2>1, <3>1, <4>1 DEF BridgeInv, AcceptedInOrder
      <3> QED
        BY <3>2, <3>3
    <2> QED
      BY <1>9, <2>1 DEF AcceptedInOrder
  <1> QED
    BY <1>10, <1>11, <1>12

(* The invariant of the exchange is inductive while request ids do not wrap. *)
LEMMA BridgeInductive ==
  ASSUME NoWrap, TypeOK, BridgeInv, [Next]_vars
  PROVE  BridgeInv'
  <1>1. LinkInv(b) /\ LinkInv(b)'
    BY LinkInductive DEF BridgeInv
  <1>2. CASE Quiet
    <2>1. PendingInv(b)'
      BY <1>2 DEF BridgeInv, Quiet, Good
    <2>2. AcceptedWasIssued' /\ AcceptedInOrder'
      BY <1>2 DEF BridgeInv, Quiet, AcceptedWasIssued, AcceptedInOrder
    <2> QED
      BY <1>1, <1>2, <2>1, <2>2, QuietHistory DEF BridgeInv
  <1>3. CASE Accepting
    <2>1. PendingInv(b)'
      BY <1>3 DEF BridgeInv, Accepting, Good
    <2> QED
      BY <1>1, <1>3, <2>1, AcceptingHistory DEF BridgeInv
  <1>4. CASE Sending
    <2>1. PendingInv(b)'
      BY <1>4 DEF BridgeInv, Sending
    <2>2. AcceptedWasIssued' /\ AcceptedInOrder'
      BY <1>4 DEF BridgeInv, Sending, AcceptedWasIssued, AcceptedInOrder
    <2> QED
      BY <1>1, <1>4, <2>1, <2>2, SendingHistory DEF BridgeInv
  <1>5. CASE Reboot
    <2>1. b' = BootState /\ accepted' = <<>> /\ issued' = {}
      BY <1>5 DEF Reboot
    <2>2. PendingInv(b)' /\ b'.pending = 0
      BY <2>1, BootFacts
    <2>3. HistoryInv' /\ AcceptedWasIssued' /\ AcceptedInOrder'
      BY <2>1, <2>2 DEF HistoryInv, AcceptedWasIssued, AcceptedInOrder
    <2> QED
      BY <1>1, <2>2, <2>3 DEF BridgeInv
  <1> QED
    BY <1>1, <1>2, <1>3, <1>4, <1>5, NextCases

LEMMA BridgeInvariance == NoWrap => (Spec => [](TypeOK /\ BridgeInv))
  <1> SUFFICES ASSUME NoWrap
               PROVE  Spec => [](TypeOK /\ BridgeInv)
    OBVIOUS
  <1>1. Init => TypeOK /\ BridgeInv
    BY BootFacts
    DEF Init, TypeOK, BridgeInv, HistoryInv, AcceptedWasIssued, AcceptedInOrder
  <1>2. TypeOK /\ BridgeInv /\ [Next]_vars => (TypeOK /\ BridgeInv)'
    BY LinkInductive, BridgeInductive DEF BridgeInv
  <1> QED
    BY <1>1, <1>2, PTL DEF Spec

(* bridge_handle_frame accepts a keepalive response only for a request that *)
(* bridge_send_server_keepalive sent, as long as request ids do not wrap.   *)
THEOREM OnlyIssuedAccepted == NoWrap => (Spec => []AcceptedWasIssued)
  <1>1. BridgeInv => AcceptedWasIssued
    BY DEF BridgeInv
  <1> QED
    BY <1>1, BridgeInvariance, PTL

(* Each request completes at most once, and in the order of issue: no       *)
(* duplicate, late or foreign response is taken by bridge_handle_frame.     *)
THEOREM ExactlyOnceInOrder == NoWrap => (Spec => []AcceptedInOrder)
  <1>1. BridgeInv => AcceptedInOrder
    BY DEF BridgeInv
  <1> QED
    BY <1>1, BridgeInvariance, PTL

-----------------------------------------------------------------------------
(* The step properties. *)

LEMMA StepFacts ==
  ASSUME TypeOK, LinkInv(b), [Next]_vars
  PROVE  \/ Repeats(b, b') /\ Reports(b, b')
         \/ b' = BootState
  BY NextCases DEF Quiet, Accepting, Sending, Reboot, Good

(* While bridge_service_transport_watchdog resends, the request id and the  *)
(* server integer a valid answer must echo stay as they were first sent,    *)
(* whatever handlers run in between; ids that wrap make no difference.      *)
THEOREM ResendRepeats == Spec => ResendRepeatsRequest
  <1>1. TypeOK /\ LinkInv(b) /\ [Next]_vars =>
          [b.conn /\ b.waiting /\ b.sid # 0 /\ b.pending # 0
           /\ b'.conn /\ b'.waiting /\ b'.sid = b.sid
             => b'.pending = b.pending /\ b'.server = b.server]_vars
    <2> SUFFICES ASSUME TypeOK, LinkInv(b), [Next]_vars, b.waiting, b.sid # 0, b.pending # 0,
                        b'.waiting, b'.sid = b.sid
                 PROVE  b'.pending = b.pending /\ b'.server = b.server
      OBVIOUS
    <2>1. ~BootState.waiting
      BY DEF BootState
    <2> QED
      BY <2>1, StepFacts DEF Repeats
  <1> QED
    BY <1>1, LinkInvariance, PTL DEF Spec, ResendRepeatsRequest

(* bridge_close_tcp_client and bridge_enter_state between them report every *)
(* end of the realtime stream: INITIALIZE and the entry into RESET, which   *)
(* also clear the flag themselves, never find it set unreported.            *)
THEOREM HaltsAreReported == Spec => StreamHaltReported
  <1>1. TypeOK /\ LinkInv(b) /\ [Next]_vars =>
          [b.stream /\ ~b'.stream /\ b'.boot = "run"
             => \E i \in DOMAIN b'.usb : b'.usb[i].tag \in Halts]_vars
    <2> SUFFICES ASSUME TypeOK, LinkInv(b), [Next]_vars, b.stream, ~b'.stream, b'.boot = "run"
                 PROVE  \E i \in DOMAIN b'.usb : b'.usb[i].tag \in Halts
      OBVIOUS
    <2>1. BootState.boot # "run"
      BY DEF BootState
    <2> QED
      BY <2>1, StepFacts DEF Reports, Told
  <1> QED
    BY <1>1, LinkInvariance, PTL DEF Spec, StreamHaltReported

=============================================================================
