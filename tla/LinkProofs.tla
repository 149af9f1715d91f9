----------------------------- MODULE LinkProofs -----------------------------
(***************************************************************************)
(* Proofs about the composition of host and bridge (Link), for every width *)
(* of the counters, every retry limit, every number of sessions and any    *)
(* number of frames on the line.                                           *)
(*                                                                         *)
(* The firmware's helpers are followed bottom up, as in BridgeProofs, but  *)
(* for another question: what the frames a handler writes will make of the *)
(* host that handles them.                                                 *)
(***************************************************************************)
EXTENDS Link, Iteration

(* The type that goes with a payload the host acts on. *)
Shaped(type, tag) ==
  /\ tag \in {"ka_req", "ka_resp"} => type = "KEEPALIVE"
  /\ tag \in {"keepalive_retry_exhausted", "halted_tcp_client_closed"} => type = "ERROR"
  /\ tag \in {"tcp_connected", "client_connected", "disconnect_ack", "reset_ack",
              "initialize_ack"} => type = "ACK"

LineFrame ==
  {f \in PC!Frame : f.tag \in Heard /\ Shaped(f.type, f.tag)
                    /\ f.server \in {0, 2} /\ f.client = 1}

(* What the host knew, and what was on the line, before a step of the       *)
(* bridge.                                                                  *)
Context == [ka : BOOLEAN, q : Seq(LineFrame)]

(* The host ends in a keepalive state after the line and the frames u. *)
Ends(c, u) == EndsInKeepalive(c.ka, c.q \o OnLine(u))

(* The host takes the counters for those of a running exchange. *)
Valid(server, client) == server % 2 = 0 /\ client % 2 = 1 /\ client + 1 = server

-----------------------------------------------------------------------------
(* The line. *)

LEMMA SeenFrame ==
  ASSUME NEW f \in C3!UsbFrame, Shaped(f.type, f.tag), f.tag \in Heard
  PROVE  /\ Seen(f) \in LineFrame /\ Seen(f).tag = f.tag
         /\ Confirms(Seen(f)) <=> f.type = "KEEPALIVE" /\ Valid(f.server, f.client)
  <1>1. 0 \in C3!Live /\ 1 \in C3!Live /\ 2 \in C3!Live
    BY LinkConstants DEF C3!Live
  <1>2. f.type \in {"ACK", "ERROR", "KEEPALIVE", "DATA"}
    BY DEF C3!UsbFrame, C3!MessageType
  <1>3. Seen(f) \in PC!Frame
    BY <1>1, <1>2 DEF Seen, PC!Frame, Heard
  <1> QED
    BY <1>2, <1>3 DEF Seen, LineFrame, Confirms, PC!EvenOdd, Valid

LEMMA PutTyped ==
  ASSUME NEW line \in Seq(LineFrame), NEW f \in C3!UsbFrame, Shaped(f.type, f.tag)
  PROVE  Put(line, f) \in Seq(LineFrame)
  BY SeenFrame DEF Put

(* A run of OnLine. *)
LineRun(g, u) == g = [i \in 0 .. Len(u) |-> IF i = 0 THEN <<>> ELSE Put(g[i - 1], u[i])]

ShapedFrames == {f \in C3!UsbFrame : Shaped(f.type, f.tag)}

LEMMA OnLineRuns ==
  ASSUME NEW u \in Seq(ShapedFrames)
  PROVE  \E g \in [0 .. Len(u) -> Seq(LineFrame)] :
           /\ OnLine(u) = g[Len(u)] /\ g[0] = <<>>
           /\ \A i \in 1 .. Len(u) : g[i] = Put(g[i - 1], u[i])
  <1> DEFINE S == Seq(LineFrame)
             F == [n \in 1 .. Len(u) |-> [line \in S |-> Put(line, u[n])]]
  <1>1. Len(u) \in Nat /\ \A n \in 1 .. Len(u) : u[n] \in ShapedFrames
    OBVIOUS
  <1>2. <<>> \in S
    OBVIOUS
  <1>3. F \in [1 .. Len(u) -> [S -> S]]
    BY <1>1, PutTyped DEF ShapedFrames
  <1>4. PICK g \in [0 .. Len(u) -> S] :
          g[0] = <<>> /\ \A n \in 1 .. Len(u) : g[n] = F[n][g[n - 1]]
    <2> HIDE DEF F, S
    <2>1. \E g : Rounds(g, S, <<>>, Len(u), F)
      BY <1>1, <1>2, <1>3, Iterates
    <2> QED
      BY <2>1 DEF Rounds
  <1>5. ASSUME NEW n \in 1 .. Len(u)
        PROVE  g[n] = Put(g[n - 1], u[n])
    <2>1. n - 1 \in 0 .. Len(u)
      BY <1>1
    <2>2. g[n - 1] \in S
      BY <1>4, <2>1
    <2>3. F[n][g[n - 1]] = Put(g[n - 1], u[n])
      BY <2>2
    <2> QED
      BY <1>4, <2>3
  <1>6. LineRun(g, u)
    <2>1. g = [i \in 0 .. Len(u) |-> g[i]]
      BY <1>4
    <2>2. \A i \in 0 .. Len(u) : g[i] = IF i = 0 THEN <<>> ELSE Put(g[i - 1], u[i])
      BY <1>1, <1>4, <1>5
    <2> QED
      BY <2>1, <2>2 DEF LineRun
  <1> DEFINE line == CHOOSE l : LineRun(l, u)
  <1>7. LineRun(line, u)
    BY <1>6
  <1>8. OnLine(u) = line[Len(u)]
    BY DEF OnLine, LineRun
  <1> HIDE DEF line
  <1>9. \A i \in 0 .. Len(u) : line[i] = IF i = 0 THEN <<>> ELSE Put(line[i - 1], u[i])
    BY <1>7 DEF LineRun
  <1> DEFINE T == {n \in 0 .. Len(u) : line[n] = g[n]}
  <1>10. 0 \in T
    BY <1>1, <1>4, <1>9
  <1>11. ASSUME NEW n \in 1 .. Len(u), n - 1 \in T
         PROVE  n \in T
    BY <1>1, <1>5, <1>9, <1>11
  <1> HIDE DEF T
  <1>12. 0 .. Len(u) \subseteq T
    BY <1>1, <1>10, <1>11, BoundedInduction
  <1>13. line[Len(u)] = g[Len(u)]
    BY <1>1, <1>12 DEF T
  <1> QED
    BY <1>4, <1>5, <1>8, <1>13

LEMMA OnLineEmpty == OnLine(<<>>) = <<>>
  <1>1. <<>> \in Seq(ShapedFrames) /\ Len(<<>>) = 0
    OBVIOUS
  <1> QED
    BY <1>1, OnLineRuns

LEMMA OnLineTyped ==
  ASSUME NEW u \in Seq(ShapedFrames)
  PROVE  OnLine(u) \in Seq(LineFrame)
  <1>1. PICK g \in [0 .. Len(u) -> Seq(LineFrame)] : OnLine(u) = g[Len(u)]
    BY OnLineRuns
  <1>2. Len(u) \in 0 .. Len(u)
    OBVIOUS
  <1> QED
    BY <1>1, <1>2

LEMMA OnLineAppend ==
  ASSUME NEW u \in Seq(ShapedFrames), NEW f \in ShapedFrames
  PROVE  OnLine(Append(u, f)) = Put(OnLine(u), f) /\ OnLine(u) \in Seq(LineFrame)
  <1> DEFINE v == Append(u, f)
             n == Len(u)
  <1>1. v \in Seq(ShapedFrames) /\ Len(v) = n + 1 /\ n \in Nat /\ v[n + 1] = f
        /\ \A i \in 1 .. n : v[i] = u[i]
    OBVIOUS
  <1> HIDE DEF v
  <1>2. PICK g \in [0 .. n -> Seq(LineFrame)] :
          /\ OnLine(u) = g[n] /\ g[0] = <<>>
          /\ \A i \in 1 .. n : g[i] = Put(g[i - 1], u[i])
    BY OnLineRuns
  <1>3. PICK k \in [0 .. Len(v) -> Seq(LineFrame)] :
          /\ OnLine(v) = k[Len(v)] /\ k[0] = <<>>
          /\ \A i \in 1 .. Len(v) : k[i] = Put(k[i - 1], v[i])
    BY <1>1, OnLineRuns
  <1> HIDE DEF n
  <1> DEFINE T == {i \in 0 .. n : k[i] = g[i]}
  <1>4. 0 \in T
    BY <1>1, <1>2, <1>3
  <1>5. ASSUME NEW i \in 1 .. n, i - 1 \in T
        PROVE  i \in T
    BY <1>1, <1>2, <1>3, <1>5
  <1> HIDE DEF T
  <1>6. 0 .. n \subseteq T
    BY <1>1, <1>4, <1>5, BoundedInduction
  <1>7. k[n] = g[n]
    BY <1>1, <1>6 DEF T
  <1>8. k[n + 1] = Put(k[n], v[n + 1])
    BY <1>1, <1>3
  <1> QED
    BY <1>1, <1>2, <1>3, <1>7, <1>8 DEF v

(* One more frame on the line. *)
LEMMA EndsAppend ==
  ASSUME NEW ka \in BOOLEAN, NEW q \in Seq(LineFrame), NEW f \in LineFrame
  PROVE  EndsInKeepalive(ka, Append(q, f)) <=>
           Confirms(f) \/ (EndsInKeepalive(ka, q) /\ f.tag \notin Reports)
  <1> DEFINE r == Append(q, f)
             n == Len(q)
  <1>1. /\ n \in Nat /\ DOMAIN q = 1 .. n /\ DOMAIN r = 1 .. (n + 1) /\ r[n + 1] = f
        /\ \A i \in 1 .. n : r[i] = q[i]
    OBVIOUS
  <1>2. Confirms(f) => f.tag \notin Reports
    BY DEF Confirms, Reports, LineFrame, Shaped, Heard
  <1> HIDE DEF r, n
  <1>3. CASE Confirms(f)
    <2>1. \A j \in 1 .. (n + 1) : ~ (j > n + 1)
      BY <1>1
    <2> QED
      BY <1>1, <1>3, <2>1 DEF EndsInKeepalive, r
  <1>4. CASE ~ Confirms(f) /\ f.tag \in Reports
    <2>1. ~ EndsInKeepalive(ka, r)
      <3>1. \A i \in 1 .. (n + 1) : i # n + 1 => i \in 1 .. n /\ n + 1 > i
        BY <1>1
      <3>2. n + 1 \in 1 .. (n + 1)
        BY <1>1
      <3> QED
        BY <1>1, <1>4, <3>1, <3>2 DEF EndsInKeepalive
    <2> QED
      BY <1>4, <2>1 DEF r
  <1>5. CASE ~ Confirms(f) /\ f.tag \notin Reports
    <2>1. \A i \in 1 .. (n + 1) : i \in 1 .. n \/ i = n + 1
      BY <1>1
    <2>2. \A i \in 1 .. n : i \in 1 .. (n + 1)
      BY <1>1
    <2>3. (\A i \in DOMAIN r : r[i].tag \notin Reports) <=> (\A i \in DOMAIN q : q[i].tag \notin Reports)
      BY <1>1, <1>5, <2>1, <2>2
    <2>4. ASSUME NEW i \in 1 .. n
          PROVE  (\A j \in DOMAIN r : j > i => r[j].tag \notin Reports)
                   <=> (\A j \in DOMAIN q : j > i => q[j].tag \notin Reports)
      BY <1>1, <1>5, <2>1, <2>2
    <2> QED
      BY <1>1, <1>5, <2>1, <2>2, <2>3, <2>4 DEF EndsInKeepalive, r
  <1> QED
    BY <1>3, <1>4, <1>5

LEMMA ConcatAppend ==
  ASSUME NEW p \in Seq(LineFrame), NEW q \in Seq(LineFrame), NEW x \in LineFrame
  PROVE  p \o Append(q, x) = Append(p \o q, x)
  OBVIOUS

(* One more frame written by the bridge. *)
LEMMA EndsSend ==
  ASSUME NEW c \in Context, NEW u \in Seq(ShapedFrames), NEW f \in ShapedFrames
  PROVE  Ends(c, Append(u, f)) <=>
           \/ f.tag \in Heard /\ f.type = "KEEPALIVE" /\ Valid(f.server, f.client)
           \/ Ends(c, u) /\ f.tag \notin Reports
  <1>1. OnLine(Append(u, f)) = Put(OnLine(u), f) /\ OnLine(u) \in Seq(LineFrame)
    BY OnLineAppend
  <1>2. c.ka \in BOOLEAN /\ c.q \in Seq(LineFrame) /\ c.q \o OnLine(u) \in Seq(LineFrame)
    BY <1>1 DEF Context
  <1>3. CASE f.tag \in Heard
    <2>1. /\ Seen(f) \in LineFrame /\ Seen(f).tag = f.tag
          /\ Confirms(Seen(f)) <=> f.type = "KEEPALIVE" /\ Valid(f.server, f.client)
      BY <1>3, SeenFrame DEF ShapedFrames
    <2>2. c.q \o OnLine(Append(u, f)) = Append(c.q \o OnLine(u), Seen(f))
      <3>1. OnLine(Append(u, f)) = Append(OnLine(u), Seen(f))
        BY <1>1, <1>3 DEF Put
      <3>2. c.q \o Append(OnLine(u), Seen(f)) = Append(c.q \o OnLine(u), Seen(f))
        BY <1>1, <1>2, <2>1, ConcatAppend
      <3> QED
        BY <3>1, <3>2
    <2>3. EndsInKeepalive(c.ka, Append(c.q \o OnLine(u), Seen(f))) <=>
            Confirms(Seen(f)) \/ (EndsInKeepalive(c.ka, c.q \o OnLine(u)) /\ f.tag \notin Reports)
      BY <1>2, <2>1, EndsAppend
    <2> QED
      BY <1>3, <2>1, <2>2, <2>3 DEF Ends
  <1>4. CASE f.tag \notin Heard
    BY <1>1, <1>4 DEF Put, Ends, Reports
  <1> QED
    BY <1>3, <1>4

-----------------------------------------------------------------------------
(* The helpers of the firmware. *)

Typed(s) == s \in C3!Statics /\ s.usb \in Seq(ShapedFrames)

LEMMA Small == /\ 0 \in C3!Live /\ 1 \in C3!Live /\ 0 \in C3!Id /\ 1 \in C3!Id
               /\ 0 \in 0 .. (RxMod - 1) /\ 1 \in 0 .. (RxMod - 1) /\ RxMod - 1 \in 0 .. (RxMod - 1)
               /\ 0 \in 0 .. RetryLimit
  BY LinkConstants DEF C3!Live, C3!Id

(* An assignment to a static keeps the types. *)
LEMMA BridgeUpdates ==
  ASSUME NEW s, Typed(s)
  PROVE  /\ \A x \in BOOLEAN :
              /\ Typed([s EXCEPT !.conn = x]) /\ Typed([s EXCEPT !.txed = x])
              /\ Typed([s EXCEPT !.waiting = x]) /\ Typed([s EXCEPT !.window = x])
              /\ Typed([s EXCEPT !.delay = x]) /\ Typed([s EXCEPT !.stream = x])
              /\ Typed([s EXCEPT !.version = x]) /\ Typed([s EXCEPT !.wifi = x])
              /\ Typed([s EXCEPT !.listen = x])
         /\ \A x \in C3!Live :
              /\ Typed([s EXCEPT !.server = x]) /\ Typed([s EXCEPT !.client = x])
         /\ \A x \in C3!Id :
              /\ Typed([s EXCEPT !.sid = x]) /\ Typed([s EXCEPT !.nextSid = x])
              /\ Typed([s EXCEPT !.pending = x]) /\ Typed([s EXCEPT !.completed = x])
              /\ Typed([s EXCEPT !.nextReq = x])
         /\ \A x \in 0 .. RetryLimit : Typed([s EXCEPT !.retry = x])
         /\ \A x \in 0 .. (RxMod - 1) : Typed([s EXCEPT !.rx = x])
         /\ \A x \in C3!State : Typed([s EXCEPT !.state = x])
  <1>1. ASSUME NEW x \in BOOLEAN
        PROVE  Typed([s EXCEPT !.conn = x])
    BY DEF Typed, C3!Statics
  <1>2. ASSUME NEW x \in BOOLEAN
        PROVE  Typed([s EXCEPT !.txed = x])
    BY DEF Typed, C3!Statics
  <1>3. ASSUME NEW x \in BOOLEAN
        PROVE  Typed([s EXCEPT !.waiting = x])
    BY DEF Typed, C3!Statics
  <1>4. ASSUME NEW x \in BOOLEAN
        PROVE  Typed([s EXCEPT !.window = x])
    BY DEF Typed, C3!Statics
  <1>5. ASSUME NEW x \in BOOLEAN
        PROVE  Typed([s EXCEPT !.delay = x])
    BY DEF Typed, C3!Statics
  <1>6. ASSUME NEW x \in BOOLEAN
        PROVE  Typed([s EXCEPT !.stream = x])
    BY DEF Typed, C3!Statics
  <1>7. ASSUME NEW x \in BOOLEAN
        PROVE  Typed([s EXCEPT !.version = x])
    BY DEF Typed, C3!Statics
  <1>8. ASSUME NEW x \in BOOLEAN
        PROVE  Typed([s EXCEPT !.wifi = x])
    BY DEF Typed, C3!Statics
  <1>9. ASSUME NEW x \in BOOLEAN
        PROVE  Typed([s EXCEPT !.listen = x])
    BY DEF Typed, C3!Statics
  <1>10. ASSUME NEW x \in C3!Live
        PROVE  Typed([s EXCEPT !.server = x])
    BY DEF Typed, C3!Statics
  <1>11. ASSUME NEW x \in C3!Live
        PROVE  Typed([s EXCEPT !.client = x])
    BY DEF Typed, C3!Statics
  <1>12. ASSUME NEW x \in C3!Id
        PROVE  Typed([s EXCEPT !.sid = x])
    BY DEF Typed, C3!Statics
  <1>13. ASSUME NEW x \in C3!Id
        PROVE  Typed([s EXCEPT !.nextSid = x])
    BY DEF Typed, C3!Statics
  <1>14. ASSUME NEW x \in C3!Id
        PROVE  Typed([s EXCEPT !.pending = x])
    BY DEF Typed, C3!Statics
  <1>15. ASSUME NEW x \in C3!Id
        PROVE  Typed([s EXCEPT !.completed = x])
    BY DEF Typed, C3!Statics
  <1>16. ASSUME NEW x \in C3!Id
        PROVE  Typed([s EXCEPT !.nextReq = x])
    BY DEF Typed, C3!Statics
  <1>17. ASSUME NEW x \in 0 .. RetryLimit
        PROVE  Typed([s EXCEPT !.retry = x])
    BY DEF Typed, C3!Statics
  <1>18. ASSUME NEW x \in 0 .. (RxMod - 1)
        PROVE  Typed([s EXCEPT !.rx = x])
    BY DEF Typed, C3!Statics
  <1>19. ASSUME NEW x \in C3!State
        PROVE  Typed([s EXCEPT !.state = x])
    BY DEF Typed, C3!Statics
  <1> QED
    BY <1>1, <1>2, <1>3, <1>4, <1>5, <1>6, <1>7, <1>8, <1>9, <1>10, <1>11, <1>12, <1>13,
       <1>14, <1>15, <1>16, <1>17, <1>18, <1>19

(* t and s agree on the session. *)
Alike(t, s) ==
  /\ t.boot = s.boot /\ t.state = s.state /\ t.server = s.server /\ t.client = s.client
  /\ t.conn = s.conn /\ t.stream = s.stream /\ t.retry = s.retry

(* t is s after some calls, none of which opened a session or put the host  *)
(* into a keepalive state.                                                  *)
Settles(c, t, s) ==
  /\ Typed(t) /\ t.boot = s.boot /\ t.retry \in {0, s.retry}
  /\ t.conn => s.conn
  /\ Ends(c, t.usb) => Ends(c, s.usb)
  /\ SessionUp(t) =>
       SessionUp(s) /\ t.stream = s.stream /\ t.server = s.server /\ t.client = s.client

LEMMA SettlesTrans ==
  ASSUME NEW c, NEW r, NEW s, NEW t, Settles(c, s, r), Settles(c, t, s)
  PROVE  Settles(c, t, r)
  BY DEF Settles

LEMMA AlikeSettles ==
  ASSUME NEW c, NEW s, NEW t, Typed(t), Alike(t, s), Ends(c, t.usb) => Ends(c, s.usb)
  PROVE  Settles(c, t, s)
  BY DEF Settles, Alike, SessionUp

LEMMA SettlesRefl ==
  ASSUME NEW c, NEW s, Typed(s)
  PROVE  Settles(c, s, s)
  BY DEF Settles

LEMMA UsbSendFacts ==
  ASSUME NEW c \in Context, NEW s, Typed(s), NEW type \in C3!MessageType, NEW tag \in C3!Tag,
         Shaped(type, tag), NEW sid \in C3!Id, NEW req \in C3!Id
  PROVE  LET t == C3!UsbSend(s, type, tag, sid, req) IN
         /\ Typed(t) /\ Alike(t, s)
         /\ Ends(c, t.usb) <=>
              \/ tag \in Heard /\ type = "KEEPALIVE" /\ Valid(s.server, s.client)
              \/ Ends(c, s.usb) /\ tag \notin Reports
  <1> DEFINE f == [type |-> type, tag |-> tag, sid |-> sid, req |-> req,
                   server |-> s.server, client |-> s.client]
             t == C3!UsbSend(s, type, tag, sid, req)
  <1>1. f \in ShapedFrames /\ f.type = type /\ f.tag = tag
        /\ f.server = s.server /\ f.client = s.client
    BY DEF C3!UsbFrame, C3!Statics, Typed, ShapedFrames
  <1> HIDE DEF f
  <1>2. s.usb \in Seq(ShapedFrames) /\ Append(s.usb, f) \in Seq(ShapedFrames)
        /\ Append(s.usb, f) \in Seq(C3!UsbFrame)
    BY <1>1 DEF Typed, C3!Statics, ShapedFrames
  <1>3. t = [s EXCEPT !.usb = Append(s.usb, f)]
    BY DEF C3!UsbSend, f
  <1>4. Typed(t) /\ Alike(t, s) /\ t.usb = Append(s.usb, f)
    <2> HIDE DEF t
    <2>1. t \in C3!Statics
      BY <1>2, <1>3 DEF Typed, C3!Statics
    <2>2. Alike(t, s) /\ t.usb = Append(s.usb, f)
      BY <1>3 DEF Typed, C3!Statics, Alike
    <2> QED
      BY <1>2, <2>1, <2>2 DEF Typed
  <1> HIDE DEF t
  <1>5. Ends(c, Append(s.usb, f)) <=>
           \/ tag \in Heard /\ type = "KEEPALIVE" /\ Valid(s.server, s.client)
           \/ Ends(c, s.usb) /\ tag \notin Reports
    BY <1>1, <1>2, EndsSend
  <1> QED
    BY <1>4, <1>5 DEF t

(* A frame that is not a keepalive mirror. *)
LEMMA UsbTellFacts ==
  ASSUME NEW c \in Context, NEW s, Typed(s), NEW type \in C3!MessageType \ {"KEEPALIVE"},
         NEW tag \in C3!Tag, Shaped(type, tag), NEW sid \in C3!Id
  PROVE  LET t == C3!UsbSend(s, type, tag, sid, 0) IN
         /\ Typed(t) /\ Alike(t, s) /\ Settles(c, t, s)
         /\ tag \in Reports => ~ Ends(c, t.usb)
  <1> DEFINE t == C3!UsbSend(s, type, tag, sid, 0)
  <1>1. /\ Typed(t) /\ Alike(t, s)
        /\ Ends(c, t.usb) <=> Ends(c, s.usb) /\ tag \notin Reports
    BY Small, UsbSendFacts
  <1> HIDE DEF t
  <1> QED
    BY <1>1, AlikeSettles DEF t

LEMMA UsbFaultFacts ==
  ASSUME NEW c \in Context, NEW s, Typed(s), NEW tag \in C3!Tag, Shaped("ERROR", tag)
  PROVE  LET t == C3!UsbFault(s, tag) IN
         /\ Typed(t) /\ Alike(t, s) /\ Settles(c, t, s)
         /\ tag \in Reports => ~ Ends(c, t.usb)
  BY Small, UsbTellFacts DEF C3!UsbFault, C3!MessageType

(* bridge_close_tcp_client tells the host, if the stream runs. *)
LEMMA CloseFacts ==
  ASSUME NEW c \in Context, NEW s, Typed(s)
  PROVE  LET t == C3!CloseTcpClient(s) IN
         /\ Settles(c, t, s) /\ t.state = s.state /\ ~ t.conn
         /\ s.stream => ~ Ends(c, t.usb)
  <1> DEFINE d == C3!DropClient(s)
             u == C3!UsbFault(d, "halted_tcp_client_closed")
  <1>1. /\ Typed(d) /\ d.usb = s.usb /\ d.boot = s.boot /\ d.state = s.state /\ ~ d.conn
        /\ d.retry = 0
    <2>1. Typed(d)
      <3> DEFINE e == [s EXCEPT !.conn = FALSE, !.txed = FALSE, !.waiting = FALSE,
                                !.window = FALSE, !.retry = 0, !.sid = 0]
      <3>1. Typed(e)
        BY Small, BridgeUpdates, Zenon
      <3>2. d = [e EXCEPT !.pending = 0, !.completed = 0, !.nextReq = 1, !.rx = 0,
                          !.version = FALSE, !.stream = FALSE]
        BY DEF C3!DropClient
      <3> HIDE DEF e, d
      <3> QED
        BY <3>1, <3>2, Small, BridgeUpdates, Zenon
    <2>2. d.usb = s.usb /\ d.boot = s.boot /\ d.state = s.state /\ ~ d.conn /\ d.retry = 0
      BY DEF C3!DropClient, C3!Statics, Typed
    <2> QED
      BY <2>1, <2>2
  <1> HIDE DEF d
  <1>2. Settles(c, d, s)
    BY <1>1 DEF Settles, SessionUp
  <1>3. Typed(u) /\ Alike(u, d) /\ Settles(c, u, d) /\ ~ Ends(c, u.usb)
    BY <1>1, UsbFaultFacts DEF C3!Tag, Shaped, Reports, Heard
  <1> HIDE DEF u
  <1>4. Settles(c, u, s)
    BY <1>2, <1>3, SettlesTrans
  <1> QED
    BY <1>1, <1>2, <1>3, <1>4 DEF C3!CloseTcpClient, Alike, d, u

LEMMA EnterFacts ==
  ASSUME NEW c \in Context, NEW s, Typed(s), NEW n \in C3!State
  PROVE  LET t == C3!EnterState(s, n) IN
         /\ Typed(t) /\ t.state = n /\ t.boot = s.boot /\ t.conn = s.conn
         /\ t.server = s.server /\ t.client = s.client /\ t.retry \in {0, s.retry}
         /\ n \in Keepalive => t.stream = s.stream
         /\ Ends(c, t.usb) => Ends(c, s.usb)
  <1> DEFINE leaves == s.state \in C3!Keepalive /\ n \notin C3!Keepalive
             halted == IF leaves /\ s.stream
                       THEN C3!UsbFault(s, "halted_not_in_keepalive") ELSE s
             moved  == [halted EXCEPT !.stream = IF leaves THEN FALSE ELSE @,
                               !.rx = IF leaves THEN 0 ELSE @,
                               !.state = n,
                               !.delay = IF n \in C3!Keepalive THEN @ ELSE FALSE]
             told   == IF s.state # n THEN C3!UsbSend(moved, "DATA", "telemetry", 0, 0)
                       ELSE moved
             reset  == [told EXCEPT !.retry = 0, !.window = FALSE, !.sid = 0,
                                    !.pending = 0, !.completed = 0, !.nextReq = 1,
                                    !.stream = FALSE]
  <1>1. Typed(halted) /\ Alike(halted, s) /\ (Ends(c, halted.usb) => Ends(c, s.usb))
    BY UsbFaultFacts DEF Settles, Alike, C3!Tag, Shaped
  <1> HIDE DEF halted
  <1>2. Typed(moved)
    <2> DEFINE stream == IF leaves THEN FALSE ELSE halted.stream
               rx == IF leaves THEN 0 ELSE halted.rx
               delay == IF n \in C3!Keepalive THEN halted.delay ELSE FALSE
    <2>1. stream \in BOOLEAN /\ delay \in BOOLEAN
      BY <1>1 DEF Typed, C3!Statics
    <2>2. rx \in 0 .. (RxMod - 1)
      BY <1>1, Small DEF Typed, C3!Statics
    <2>3. moved = [halted EXCEPT !.stream = stream, !.rx = rx, !.state = n, !.delay = delay]
      OBVIOUS
    <2> HIDE DEF stream, rx, delay, moved
    <2> QED
      BY <1>1, <2>1, <2>2, <2>3, BridgeUpdates, Zenon
  <1>3. /\ moved.state = n /\ moved.boot = s.boot /\ moved.conn = s.conn
        /\ moved.server = s.server /\ moved.client = s.client /\ moved.retry = s.retry
        /\ n \in C3!Keepalive => moved.stream = s.stream
        /\ moved.usb = halted.usb
    BY <1>1 DEF C3!Statics, Typed, Alike
  <1> HIDE DEF moved
  <1>4. Typed(told) /\ Alike(told, moved) /\ (Ends(c, told.usb) => Ends(c, moved.usb))
    <2> DEFINE d == C3!UsbSend(moved, "DATA", "telemetry", 0, 0)
    <2>1. /\ "DATA" \in C3!MessageType \ {"KEEPALIVE"} /\ "telemetry" \in C3!Tag
          /\ Shaped("DATA", "telemetry")
      BY DEF C3!MessageType, C3!Tag, Shaped
    <2>2. Typed(d) /\ Alike(d, moved) /\ Settles(c, d, moved)
      BY <1>2, <2>1, UsbTellFacts, Small
    <2>3. Typed(moved) /\ Alike(moved, moved)
      BY <1>2 DEF Alike
    <2> HIDE DEF d
    <2> QED
      BY <2>2, <2>3 DEF Settles, d
  <1> HIDE DEF told
  <1>5. CASE n = "RESET"
    <2>1. C3!EnterState(s, n) = reset
      BY <1>5 DEF C3!EnterState, told, moved, halted
    <2>2. Typed(reset)
      BY <1>4, Small, BridgeUpdates, Zenon
    <2>3. /\ reset.state = told.state /\ reset.boot = told.boot /\ reset.conn = told.conn
          /\ reset.server = told.server /\ reset.client = told.client /\ reset.retry = 0
          /\ reset.usb = told.usb
      BY <1>4 DEF C3!Statics, Typed
    <2> HIDE DEF reset
    <2> QED
      BY <1>1, <1>3, <1>4, <1>5, <2>1, <2>2, <2>3 DEF Alike, Keepalive, C3!Keepalive
  <1>6. CASE n # "RESET"
    <2>1. C3!EnterState(s, n) = told
      BY <1>6 DEF C3!EnterState, told, moved, halted
    <2> QED
      BY <1>1, <1>3, <1>4, <2>1 DEF Alike, Keepalive
  <1> QED
    BY <1>5, <1>6

(* Entering a state outside keepalive. *)
LEMMA LeaveFacts ==
  ASSUME NEW c \in Context, NEW s, Typed(s), NEW n \in C3!State \ Keepalive
  PROVE  LET t == C3!EnterState(s, n) IN
         Settles(c, t, s) /\ t.state = n /\ t.conn = s.conn
  <1> DEFINE t == C3!EnterState(s, n)
  <1>1. /\ Typed(t) /\ t.state = n /\ t.boot = s.boot /\ t.conn = s.conn
        /\ t.retry \in {0, s.retry}
        /\ Ends(c, t.usb) => Ends(c, s.usb)
    BY EnterFacts
  <1> HIDE DEF t
  <1> QED
    BY <1>1 DEF Settles, SessionUp, t

LEMMA SendTcpFacts ==
  ASSUME NEW c \in Context, NEW s, Typed(s), NEW ok \in BOOLEAN
  PROVE  LET t == C3!SendTcp(s, ok) IN
         Settles(c, t, s) /\ t.state = s.state /\ (t = s \/ (s.conn /\ ~ t.conn))
  BY CloseFacts, SettlesRefl DEF C3!SendTcp

LEMMA ReplyFacts ==
  ASSUME NEW c \in Context, NEW s, Typed(s), NEW tr \in {"USB", "TCP"},
         NEW type \in C3!MessageType \ {"KEEPALIVE"}, NEW tag \in C3!Tag, Shaped(type, tag),
         NEW sid \in C3!Id, NEW ok \in BOOLEAN
  PROVE  LET t == C3!Reply(s, tr, type, tag, sid, ok) IN
         /\ Settles(c, t, s) /\ t.state = s.state
         /\ tr = "USB" /\ tag \in Reports => ~ Ends(c, t.usb)
  BY SendTcpFacts, UsbTellFacts DEF C3!Reply, Alike

LEMMA MismatchFacts ==
  ASSUME NEW c \in Context, NEW s, Typed(s), NEW tr \in {"USB", "TCP"}, NEW ok \in BOOLEAN
  PROVE  LET t == C3!VersionMismatch(s, tr, ok) IN Settles(c, t, s) /\ t.state = "ERROR"
  <1> DEFINE e == C3!EnterState(s, "ERROR")
             r == C3!Reply(e, tr, "ERROR", "data_interface_version_mismatch", 0, ok)
             t == C3!UsbFault(r, "critical_error_data_interface_version_mismatch")
  <1>1. Settles(c, e, s) /\ e.state = "ERROR"
    BY LeaveFacts DEF C3!State, Keepalive, C3!Keepalive
  <1> HIDE DEF e
  <1>2. Settles(c, r, e) /\ r.state = "ERROR"
    <2>1. /\ "ERROR" \in C3!MessageType \ {"KEEPALIVE"}
          /\ "data_interface_version_mismatch" \in C3!Tag
          /\ Shaped("ERROR", "data_interface_version_mismatch")
      BY DEF C3!MessageType, C3!Tag, Shaped
    <2>2. Typed(e)
      BY <1>1 DEF Settles
    <2> QED
      BY <1>1, <2>1, <2>2, ReplyFacts, Small
  <1> HIDE DEF r
  <1>3. Settles(c, t, r) /\ t.state = "ERROR"
    BY <1>2, UsbFaultFacts DEF Settles, Alike, C3!Tag, Shaped
  <1>4. C3!VersionMismatch(s, tr, ok) = t
    BY DEF C3!VersionMismatch, e, r
  <1> HIDE DEF t
  <1> QED
    BY <1>1, <1>2, <1>3, <1>4, SettlesTrans

-----------------------------------------------------------------------------
(* The handlers, and the calls of the service loop. *)

(* Before a step: a host that will be in a keepalive state and a session    *)
(* that is up go with a running stream.                                     *)
Before(c, s) ==
  /\ Typed(s) /\ s.retry < RetryLimit
  /\ s.boot # "run" => ~ s.conn
  /\ SessionUp(s) => s.stream \/ (s.server = 0 /\ s.client = 1)
  /\ SessionUp(s) /\ Ends(c, s.usb) => s.stream

(* After it: the same, and a session that ended leaves no host that will be *)
(* in a keepalive state, unless the cause is one of which the host does not *)
(* learn.                                                                   *)
After(c, t, s, silent) ==
  /\ Typed(t) /\ t.retry < RetryLimit
  /\ t.boot # "run" => ~ t.conn
  /\ SessionUp(t) => t.stream \/ (t.server = 0 /\ t.client = 1)
  /\ Ends(c, t.usb) => \/ SessionUp(t) /\ t.stream
                       \/ ~ SessionUp(t) /\ SessionUp(s) /\ silent
                       \/ ~ SessionUp(t) /\ ~ SessionUp(s) /\ Ends(c, s.usb)

LEMMA SettlesAfter ==
  ASSUME NEW c, NEW s, Before(c, s), NEW t, Settles(c, t, s), NEW silent \in BOOLEAN,
         silent \/ (SessionUp(s) /\ s.stream /\ Ends(c, t.usb) => SessionUp(t))
  PROVE  After(c, t, s, silent)
  <1>1. t.retry < RetryLimit
    BY LinkConstants DEF Before, Settles
  <1>2. t.boot # "run" => ~ t.conn
    BY DEF Before, Settles
  <1>3. SessionUp(t) => t.stream \/ (t.server = 0 /\ t.client = 1)
    BY DEF Before, Settles
  <1>4. Ends(c, t.usb) => \/ SessionUp(t) /\ t.stream
                          \/ ~ SessionUp(t) /\ SessionUp(s) /\ silent
                          \/ ~ SessionUp(t) /\ ~ SessionUp(s) /\ Ends(c, s.usb)
    BY DEF Before, Settles
  <1> QED
    BY <1>1, <1>2, <1>3, <1>4 DEF After, Settles

(* The staged byte count does not matter. *)
LEMMA AfterAlike ==
  ASSUME NEW c, NEW s, NEW t, NEW silent, After(c, t, s, silent),
         NEW r, Alike(s, r), s.usb = r.usb, NEW u, Typed(u), Alike(u, t), u.usb = t.usb
  PROVE  After(c, u, r, silent)
  BY DEF After, Alike, SessionUp

LEMMA ResetFacts ==
  ASSUME NEW c \in Context, NEW s, Typed(s), NEW tr \in {"USB", "TCP"}, NEW ok \in BOOLEAN
  PROVE  LET t == C3!OnReset(s, tr, ok) IN
         Settles(c, t, s) /\ (tr = "USB" => ~ Ends(c, t.usb))
  <1> DEFINE e == C3!EnterState(s, "RESET")
             r == [e EXCEPT !.server = 0, !.client = 0, !.txed = FALSE,
                            !.waiting = FALSE, !.version = FALSE]
             a == C3!Reply(r, tr, "ACK", "reset_ack", 0, ok)
             t == C3!CloseTcpClient(a)
  <1>1. Settles(c, e, s) /\ e.state = "RESET" /\ Typed(e)
    BY LeaveFacts DEF C3!State, Keepalive, C3!Keepalive, Settles
  <1> HIDE DEF e
  <1>2. Typed(r)
    BY <1>1, Small DEF Typed, C3!Statics
  <1>3. r.state = "RESET" /\ r.usb = e.usb /\ r.boot = e.boot /\ r.conn = e.conn /\ r.retry = e.retry
    BY <1>1 DEF Typed, C3!Statics
  <1> HIDE DEF r
  <1>4. Settles(c, r, e)
    BY <1>2, <1>3 DEF Settles, SessionUp, Keepalive, C3!Keepalive
  <1>5. "ACK" \in C3!MessageType \ {"KEEPALIVE"} /\ "reset_ack" \in C3!Tag
        /\ Shaped("ACK", "reset_ack") /\ "reset_ack" \in Reports
    BY DEF C3!MessageType, C3!Tag, Shaped, Reports, Heard
  <1>6. Settles(c, a, r) /\ Typed(a) /\ (tr = "USB" => ~ Ends(c, a.usb))
    BY <1>2, <1>5, ReplyFacts, Small DEF Settles
  <1> HIDE DEF a
  <1>7. Settles(c, t, a)
    BY <1>6, CloseFacts
  <1>8. C3!OnReset(s, tr, ok) = t
    BY DEF C3!OnReset, e, r, a
  <1> HIDE DEF t
  <1>9. Settles(c, t, s)
    BY <1>1, <1>4, <1>6, <1>7, SettlesTrans
  <1> QED
    BY <1>6, <1>7, <1>8, <1>9 DEF Settles

LEMMA InitializeFacts ==
  ASSUME NEW c \in Context, NEW s, Typed(s), NEW tr \in {"USB", "TCP"},
         NEW ver \in BOOLEAN, NEW ok \in BOOLEAN
  PROVE  LET t == C3!OnInitialize(s, tr, ver, ok) IN
         Settles(c, t, s) /\ (tr = "USB" /\ ver => ~ Ends(c, t.usb))
  <1> DEFINE e == C3!EnterState(s, "INITIALIZE")
             i == [e EXCEPT !.retry = 0, !.window = FALSE, !.sid = 0, !.pending = 0,
                            !.completed = 0, !.nextReq = 1, !.stream = FALSE]
             v == [i EXCEPT !.version = TRUE]
             a == C3!Reply(v, tr, "ACK", "initialize_ack", 0, ok)
             m == C3!VersionMismatch(i, tr, ok)
  <1>1. Settles(c, e, s) /\ e.state = "INITIALIZE" /\ Typed(e)
    BY LeaveFacts DEF C3!State, Keepalive, C3!Keepalive, Settles
  <1> HIDE DEF e
  <1>2. Typed(i)
    BY <1>1, Small DEF Typed, C3!Statics
  <1>3. i.state = "INITIALIZE" /\ i.usb = e.usb /\ i.boot = e.boot /\ i.conn = e.conn /\ i.retry = 0
    BY <1>1 DEF Typed, C3!Statics
  <1> HIDE DEF i
  <1>4. Settles(c, i, e)
    BY <1>2, <1>3 DEF Settles, SessionUp, Keepalive, C3!Keepalive
  <1>5. Settles(c, i, s)
    BY <1>1, <1>4, SettlesTrans
  <1>6. Typed(v) /\ Alike(v, i) /\ v.usb = i.usb
    BY <1>2 DEF Typed, C3!Statics, Alike
  <1> HIDE DEF v
  <1>7. Settles(c, v, i)
    BY <1>6, AlikeSettles
  <1>8. "ACK" \in C3!MessageType \ {"KEEPALIVE"} /\ "initialize_ack" \in C3!Tag
        /\ Shaped("ACK", "initialize_ack") /\ "initialize_ack" \in Reports
    BY DEF C3!MessageType, C3!Tag, Shaped, Reports, Heard
  <1>9. Settles(c, a, v) /\ (tr = "USB" => ~ Ends(c, a.usb))
    BY <1>6, <1>8, ReplyFacts, Small
  <1> HIDE DEF a
  <1>10. Settles(c, a, s)
    BY <1>5, <1>7, <1>9, SettlesTrans
  <1>11. Settles(c, m, i)
    BY <1>2, MismatchFacts
  <1> HIDE DEF m
  <1>12. Settles(c, m, s)
    BY <1>5, <1>11, SettlesTrans
  <1>13. C3!OnInitialize(s, tr, ver, ok) = IF ver THEN a ELSE m
    BY DEF C3!OnInitialize, e, i, v, a, m
  <1> QED
    BY <1>9, <1>10, <1>12, <1>13

LEMMA DisconnectFacts ==
  ASSUME NEW c \in Context, NEW s, Typed(s), NEW ok \in BOOLEAN
  PROVE  Settles(c, C3!OnDisconnect(s, "TCP", ok), s)
  <1> DEFINE e == C3!EnterState(s, "DISCONNECT")
             d == C3!Reply(e, "TCP", "ACK", "disconnect_ack", 0, ok)
  <1>1. Settles(c, e, s) /\ Typed(e)
    BY LeaveFacts DEF C3!State, Keepalive, C3!Keepalive, Settles
  <1> HIDE DEF e
  <1>2. "ACK" \in C3!MessageType \ {"KEEPALIVE"} /\ "disconnect_ack" \in C3!Tag
        /\ Shaped("ACK", "disconnect_ack")
    BY DEF C3!MessageType, C3!Tag, Shaped
  <1>3. Settles(c, d, e) /\ Typed(d)
    BY <1>1, <1>2, ReplyFacts, Small DEF Settles
  <1> HIDE DEF d
  <1>4. Settles(c, C3!CloseTcpClient(d), d)
    BY <1>3, CloseFacts
  <1>5. C3!OnDisconnect(s, "TCP", ok) = C3!CloseTcpClient(d)
    BY DEF C3!OnDisconnect, e, d
  <1> QED
    BY <1>1, <1>3, <1>4, <1>5, SettlesTrans

LEMMA ErrorFacts ==
  ASSUME NEW c \in Context, NEW s, Typed(s), NEW ok \in BOOLEAN
  PROVE  Settles(c, C3!OnError(s, "TCP", ok), s)
  <1> DEFINE e == C3!EnterState(s, "ERROR")
             d == C3!Reply(e, "TCP", "ACK", "error_ack", 0, ok)
  <1>1. Settles(c, e, s) /\ Typed(e)
    BY LeaveFacts DEF C3!State, Keepalive, C3!Keepalive, Settles
  <1> HIDE DEF e
  <1>2. "ACK" \in C3!MessageType \ {"KEEPALIVE"} /\ "error_ack" \in C3!Tag
        /\ Shaped("ACK", "error_ack")
    BY DEF C3!MessageType, C3!Tag, Shaped
  <1>3. Settles(c, d, e)
    BY <1>1, <1>2, ReplyFacts, Small
  <1>4. C3!OnError(s, "TCP", ok) = d
    BY DEF C3!OnError, e
  <1> QED
    BY <1>1, <1>3, <1>4, SettlesTrans

LEMMA UnsupportedFacts ==
  ASSUME NEW c \in Context, NEW s, Typed(s), NEW ok \in BOOLEAN
  PROVE  Settles(c, C3!OnUnsupported(s, "TCP", ok), s)
  BY SendTcpFacts DEF C3!OnUnsupported, C3!Reply

LEMMA TcpDataFacts ==
  ASSUME NEW c \in Context, NEW s, Typed(s), NEW ok \in BOOLEAN
  PROVE  Settles(c, C3!OnTcpData(s, "text", ok), s)
  <1> DEFINE u == C3!UsbSend(s, "DATA", "text", 0, 0)
             f == IF C3!KeepaliveSession(s) THEN u ELSE s
  <1>1. "DATA" \in C3!MessageType \ {"KEEPALIVE"} /\ "text" \in C3!Tag /\ Shaped("DATA", "text")
    BY DEF C3!MessageType, C3!Tag, Shaped
  <1>2. Settles(c, u, s) /\ Settles(c, s, s)
    BY <1>1, UsbTellFacts, SettlesRefl, Small
  <1>3. C3!OnTcpData(s, "text", ok) = C3!SendTcp(f, ok)
    BY DEF C3!OnTcpData
  <1> HIDE DEF u
  <1>4. Settles(c, f, s) /\ Typed(f)
    BY <1>2 DEF Settles
  <1> HIDE DEF f
  <1>5. Settles(c, C3!SendTcp(f, ok), f)
    BY <1>4, SendTcpFacts
  <1> QED
    BY <1>3, <1>4, <1>5, SettlesTrans

(* The acknowledged CONNECT takes the host out of keepalive, and the first  *)
(* request of the session has the counters 0 and 1.                         *)
LEMMA ConnectAfter ==
  ASSUME NEW c \in Context, NEW s, Before(c, s), NEW ok \in BOOLEAN
  PROVE  After(c, C3!OnConnect(s, "TCP", ok), s, TRUE)
  <1> DEFINE e == C3!EnterState(s, "CONNECT")
             n == C3!NewSession(s)
             a == C3!Reply(n, "TCP", "ACK", "client_connected", n.sid, ok)
             u == C3!UsbSend(a, "ACK", "client_connected", n.sid, 0)
             t == C3!EnterState(u, "SERVER_SEND")
             m == C3!VersionMismatch(n, "TCP", ok)
  <1>1. Typed(s) /\ s.nextSid \in C3!Id /\ C3!IncId(s.nextSid) \in C3!Id
    BY LinkConstants DEF Before, Typed, C3!Statics, C3!IncId, C3!Id
  <1>2. Settles(c, e, s) /\ e.state = "CONNECT" /\ Typed(e)
    BY <1>1, LeaveFacts DEF C3!State, Keepalive, C3!Keepalive, Settles
  <1>3. e.nextSid \in C3!Id /\ C3!IncId(e.nextSid) \in C3!Id
    BY <1>2, LinkConstants DEF Typed, C3!Statics, C3!IncId, C3!Id
  <1>4. n = [e EXCEPT !.server = 0, !.client = 1, !.retry = 0,
                      !.txed = FALSE, !.waiting = FALSE,
                      !.window = FALSE, !.sid = s.nextSid,
                      !.nextSid = C3!IncId(e.nextSid), !.pending = 0,
                      !.completed = 0, !.nextReq = 1]
    BY DEF C3!NewSession
  <1> HIDE DEF e, n
  <1>5. Typed(n) /\ n.sid \in C3!Id
    <2> DEFINE d == [e EXCEPT !.server = 0, !.client = 1, !.retry = 0, !.txed = FALSE,
                              !.waiting = FALSE, !.window = FALSE]
    <2>1. Typed(d)
      BY <1>2, Small, BridgeUpdates, Zenon
    <2>2. n = [d EXCEPT !.sid = s.nextSid, !.nextSid = C3!IncId(e.nextSid), !.pending = 0,
                        !.completed = 0, !.nextReq = 1]
      BY <1>4
    <2> HIDE DEF d
    <2>3. Typed(n)
      BY <1>1, <1>3, <2>1, <2>2, Small, BridgeUpdates, Zenon
    <2> QED
      BY <2>3 DEF Typed, C3!Statics
  <1>6. /\ n.state = "CONNECT" /\ n.usb = e.usb /\ n.boot = e.boot /\ n.conn = e.conn /\ n.retry = 0
        /\ n.server = 0 /\ n.client = 1
    BY <1>2, <1>4 DEF Typed, C3!Statics
  <1>7. Settles(c, n, s)
    <2>1. Settles(c, n, e)
      BY <1>5, <1>6 DEF Settles, SessionUp, Keepalive, C3!Keepalive
    <2> QED
      BY <1>2, <2>1, SettlesTrans
  <1>8. Settles(c, m, s)
    BY <1>5, <1>7, MismatchFacts, SettlesTrans
  <1> HIDE DEF m
  <1>9. After(c, m, s, TRUE)
    BY <1>8, SettlesAfter
  <1>10. "ACK" \in C3!MessageType \ {"KEEPALIVE"} /\ "client_connected" \in C3!Tag
         /\ Shaped("ACK", "client_connected") /\ "client_connected" \in Reports
    BY DEF C3!MessageType, C3!Tag, Shaped, Reports, Heard
  <1>11. Settles(c, a, n) /\ (a = n \/ ~ a.conn)
    BY <1>5, SendTcpFacts DEF C3!Reply
  <1> HIDE DEF a
  <1>12. Typed(a) /\ a.boot = s.boot /\ a.retry = 0 /\ (a.conn => s.conn)
         /\ (a.conn => a.server = 0 /\ a.client = 1)
    BY <1>6, <1>7, <1>11 DEF Settles
  <1>13. Typed(u) /\ Alike(u, a) /\ ~ Ends(c, u.usb)
    BY <1>5, <1>10, <1>12, UsbTellFacts
  <1> HIDE DEF u
  <1>14. /\ Typed(t) /\ t.boot = u.boot /\ t.conn = u.conn /\ t.server = u.server
         /\ t.client = u.client /\ t.retry \in {0, u.retry} /\ (Ends(c, t.usb) => Ends(c, u.usb))
    BY <1>13, EnterFacts DEF C3!State, C3!Keepalive
  <1> HIDE DEF t
  <1>15. After(c, t, s, TRUE)
    BY <1>12, <1>13, <1>14, LinkConstants DEF After, Before, Alike, SessionUp
  <1>16. C3!OnConnect(s, "TCP", ok) = IF ~ n.version THEN m ELSE t
    BY DEF C3!OnConnect, n, a, u, t, m
  <1> QED
    BY <1>9, <1>15, <1>16

(* A completed exchange starts the stream; if its send closes the client,   *)
(* the session ended in the handler of a client's frame.                    *)
LEMMA CompleteAfter ==
  ASSUME NEW c \in Context, NEW s, Before(c, s), SessionUp(s),
         NEW f \in C3!KeepaliveFrame, NEW ok \in BOOLEAN
  PROVE  After(c, C3!Complete(s, f, ok), s, TRUE)
  <1> DEFINE sv == C3!EvenUp(C3!Inc(f.client))
             d == [s EXCEPT !.delay = TRUE, !.client = f.client, !.server = sv,
                            !.waiting = FALSE, !.window = FALSE, !.pending = 0,
                            !.completed = f.req, !.retry = 0]
             e == C3!EnterState(d, "SERVER_SEND")
             u == C3!UsbSend(e, "KEEPALIVE", "ka_resp", s.sid, f.req)
             x == C3!SendTcp(u, ok)
             t == [x EXCEPT !.stream = TRUE]
  <1>1. f.client \in C3!Live /\ f.req \in C3!Id /\ s.sid \in C3!Id /\ Typed(s)
    BY DEF C3!KeepaliveFrame, Before, Typed, C3!Statics
  <1>2. sv \in C3!Live
    BY <1>1, LinkConstants DEF C3!Live, C3!EvenUp, C3!Inc
  <1> HIDE DEF sv
  <1>3. Typed(d)
    BY <1>1, <1>2, Small DEF Typed, C3!Statics
  <1>4. d.boot = s.boot /\ d.conn = s.conn /\ d.retry = 0
    BY <1>1 DEF Typed, C3!Statics
  <1> HIDE DEF d
  <1>5. Typed(e) /\ e.boot = s.boot /\ e.conn = s.conn /\ e.retry = 0
    BY <1>3, <1>4, EnterFacts DEF C3!State, C3!Keepalive
  <1> HIDE DEF e
  <1>6. "KEEPALIVE" \in C3!MessageType /\ "ka_resp" \in C3!Tag /\ Shaped("KEEPALIVE", "ka_resp")
    BY DEF C3!MessageType, C3!Tag, Shaped
  <1>7. Typed(u) /\ Alike(u, e)
    BY <1>1, <1>5, <1>6, UsbSendFacts
  <1> HIDE DEF u
  <1>8. Typed(x) /\ x.boot = s.boot /\ x.retry = 0
    BY <1>5, <1>7, SendTcpFacts DEF Settles, Alike
  <1> HIDE DEF x
  <1>9. Typed(t)
    BY <1>8 DEF Typed, C3!Statics
  <1>10. t.stream /\ t.boot = s.boot /\ t.retry = 0
    BY <1>8 DEF Typed, C3!Statics
  <1>11. s.boot = "run" /\ u.conn
    BY <1>5, <1>7 DEF SessionUp, Alike
  <1>12. C3!Complete(s, f, ok) = t
    BY <1>11 DEF C3!Complete, C3!SendRealtimeData, t, x, u, e, d, sv
  <1> HIDE DEF t
  <1>13. After(c, t, s, TRUE)
    BY <1>9, <1>10, <1>11, LinkConstants DEF After
  <1> QED
    BY <1>12, <1>13

LEMMA KeepaliveAfter ==
  ASSUME NEW c \in Context, NEW s, Before(c, s), s.boot = "run", s.conn,
         NEW f \in C3!KeepaliveFrame, NEW ok \in BOOLEAN
  PROVE  After(c, C3!OnKeepalive(s, f, ok), s, TRUE)
  <1>1. Typed(s) /\ After(c, s, s, TRUE)
    BY SettlesRefl, SettlesAfter DEF Before
  <1>2. CASE C3!Accepts(s, f)
    <2>1. SessionUp(s)
      BY <1>2 DEF C3!Accepts, C3!Expected, SessionUp, Keepalive, C3!Keepalive
    <2> QED
      BY <1>2, <2>1, CompleteAfter DEF C3!OnKeepalive
  <1>3. CASE ~ C3!Accepts(s, f) /\ C3!Expected(s, f) /\ ~ f.ver
    <2>1. Settles(c, C3!VersionMismatch(s, "TCP", ok), s)
      BY <1>1, MismatchFacts
    <2>2. After(c, C3!VersionMismatch(s, "TCP", ok), s, TRUE)
      BY <2>1, SettlesAfter
    <2> QED
      BY <1>3, <2>2 DEF C3!OnKeepalive
  <1>4. CASE ~ C3!Accepts(s, f) /\ ~ (C3!Expected(s, f) /\ ~ f.ver)
    BY <1>1, <1>4 DEF C3!OnKeepalive
  <1> QED
    BY <1>2, <1>3, <1>4

(* Before the first answer the request carries 0 and 1, which the host does *)
(* not take for an exchange; a failed send ends the session silently.       *)
LEMMA ServerKeepaliveAfter ==
  ASSUME NEW c \in Context, NEW s, Before(c, s), SessionUp(s),
         NEW reuse \in BOOLEAN, NEW ok \in BOOLEAN
  PROVE  After(c, C3!SendServerKeepalive(s, reuse, ok), s, TRUE)
  <1>0. Typed(s) /\ After(c, s, s, TRUE) /\ s.boot = "run" /\ s.conn
    BY SettlesRefl, SettlesAfter DEF Before, SessionUp
  <1>1. CASE s.sid = 0
    BY <1>0, <1>1 DEF C3!SendServerKeepalive
  <1>2. CASE s.sid # 0
    <2> DEFINE again == reuse /\ s.pending # 0
               req == IF again THEN s.pending ELSE s.nextReq
               nx == IF again THEN s.nextReq ELSE C3!IncId(s.nextReq)
               m == [s EXCEPT !.pending = req, !.nextReq = nx,
                              !.server = C3!EvenUp(s.server), !.client = C3!OddUp(s.client)]
               x == C3!SendTcp(m, ok)
               u == C3!UsbSend(x, "KEEPALIVE", "ka_req", s.sid, req)
               w == [u EXCEPT !.txed = TRUE, !.waiting = TRUE, !.window = TRUE]
               t == C3!EnterState(w, "CLIENT_RETURN")
    <2>1. C3!SendServerKeepalive(s, reuse, ok) = t
      BY <1>0, <1>2 DEF C3!SendServerKeepalive
    <2>2. s.server \in C3!Live /\ s.client \in C3!Live /\ s.sid \in C3!Id /\ s.pending \in C3!Id
          /\ s.nextReq \in C3!Id
      BY <1>0 DEF Typed, C3!Statics
    <2>3. req \in C3!Id /\ nx \in C3!Id
      BY <2>2, LinkConstants DEF C3!IncId, C3!Id
    <2>4. C3!EvenUp(s.server) \in C3!Live /\ C3!OddUp(s.client) \in C3!Live
      BY <2>2, LinkConstants DEF C3!Live, C3!EvenUp, C3!OddUp, C3!Inc
    <2>5. s.server = 0 /\ s.client = 1 => C3!EvenUp(s.server) = 0 /\ C3!OddUp(s.client) = 1
      BY DEF C3!EvenUp, C3!OddUp
    <2> HIDE DEF req, nx
    <2>6. Typed(m)
      BY <1>0, <2>3, <2>4 DEF Typed, C3!Statics
    <2>7. /\ m.boot = s.boot /\ m.conn = s.conn /\ m.stream = s.stream /\ m.retry = s.retry
          /\ m.usb = s.usb /\ m.server = C3!EvenUp(s.server) /\ m.client = C3!OddUp(s.client)
      BY <1>0 DEF Typed, C3!Statics
    <2> HIDE DEF m
    <2>8. Settles(c, x, m) /\ (x = m \/ ~ x.conn) /\ Typed(x)
      BY <2>6, SendTcpFacts DEF Settles
    <2> HIDE DEF x
    <2>9. "KEEPALIVE" \in C3!MessageType /\ "ka_req" \in C3!Tag /\ Shaped("KEEPALIVE", "ka_req")
      BY DEF C3!MessageType, C3!Tag, Shaped
    <2>10. /\ Typed(u) /\ Alike(u, x)
           /\ Ends(c, u.usb) => Valid(x.server, x.client) \/ Ends(c, x.usb)
      BY <2>2, <2>3, <2>8, <2>9, UsbSendFacts
    <2> HIDE DEF u
    <2>11. Typed(w) /\ Alike(w, u) /\ w.usb = u.usb
      BY <2>10 DEF Typed, C3!Statics, Alike
    <2> HIDE DEF w
    <2>12. /\ Typed(t) /\ t.boot = w.boot /\ t.conn = w.conn /\ t.state = "CLIENT_RETURN"
           /\ t.server = w.server /\ t.client = w.client /\ t.retry \in {0, w.retry}
           /\ t.stream = w.stream /\ (Ends(c, t.usb) => Ends(c, w.usb))
      BY <2>11, EnterFacts DEF C3!State, C3!Keepalive, Keepalive
    <2> HIDE DEF t
    <2>13. t.boot = "run" /\ t.retry \in {0, s.retry}
      BY <1>0, <2>7, <2>8, <2>10, <2>11, <2>12 DEF Settles, Alike
    <2>14. t.retry < RetryLimit
      BY <2>13, LinkConstants DEF Before
    <2>15. CASE x = m
      <3>1. /\ SessionUp(t) /\ t.stream = s.stream
            /\ t.server = C3!EvenUp(s.server) /\ t.client = C3!OddUp(s.client)
            /\ Ends(c, t.usb) =>
                 Valid(C3!EvenUp(s.server), C3!OddUp(s.client)) \/ Ends(c, s.usb)
        BY <1>0, <2>7, <2>10, <2>11, <2>12, <2>13, <2>15
        DEF Alike, SessionUp, Keepalive, C3!Keepalive
      <3>2. ~ Valid(0, 1)
        BY DEF Valid
      <3>3. s.stream \/ (s.server = 0 /\ s.client = 1)
        BY DEF Before
      <3>4. SessionUp(t) => t.stream \/ (t.server = 0 /\ t.client = 1)
        BY <2>5, <3>1, <3>3
      <3>5. Ends(c, t.usb) => t.stream
        BY <2>5, <3>1, <3>2, <3>3 DEF Before
      <3> QED
        BY <2>1, <2>12, <2>13, <2>14, <3>1, <3>4, <3>5 DEF After
    <2>16. CASE ~ x.conn
      <3>1. ~ SessionUp(t)
        BY <2>10, <2>11, <2>12, <2>16 DEF Alike, SessionUp
      <3> QED
        BY <2>1, <2>12, <2>13, <2>14, <3>1 DEF After
    <2> QED
      BY <2>8, <2>15, <2>16
  <1> QED
    BY <1>1, <1>2

LEMMA ResendAfter ==
  ASSUME NEW c \in Context, NEW s, Before(c, s), SessionUp(s), NEW ok \in BOOLEAN,
         ~ C3!Exhausted(C3!CountRetry(s))
  PROVE  After(c, C3!Resend(C3!CountRetry(s), ok), s, TRUE)
  <1> DEFINE l == C3!CountRetry(s)
             e == C3!EnterState(l, "SERVER_SEND")
             t == C3!SendServerKeepalive(e, TRUE, ok)
  <1>1. Typed(s) /\ s.retry \in Nat /\ s.retry + 1 \in 0 .. RetryLimit
    BY LinkConstants DEF Before, Typed, C3!Statics
  <1>2. Typed(l)
    BY <1>1 DEF C3!CountRetry, Typed, C3!Statics
  <1>3. /\ l.boot = s.boot /\ l.conn = s.conn /\ l.stream = s.stream /\ l.usb = s.usb
        /\ l.server = s.server /\ l.client = s.client /\ l.retry = s.retry + 1
    BY <1>1 DEF C3!CountRetry, Typed, C3!Statics
  <1>4. l.retry < RetryLimit
    BY <1>1, <1>3, LinkConstants DEF C3!Exhausted
  <1> HIDE DEF l
  <1>5. /\ Typed(e) /\ e.state = "SERVER_SEND" /\ e.boot = l.boot /\ e.conn = l.conn
        /\ e.server = l.server /\ e.client = l.client /\ e.retry \in {0, l.retry}
        /\ e.stream = l.stream
        /\ Ends(c, e.usb) => Ends(c, l.usb)
    BY <1>2, EnterFacts DEF C3!State, C3!Keepalive, Keepalive
  <1> HIDE DEF e
  <1>6. Before(c, e) /\ SessionUp(e)
    BY <1>3, <1>4, <1>5, LinkConstants DEF Before, SessionUp, Keepalive, C3!Keepalive
  <1>7. After(c, t, e, TRUE)
    BY <1>6, ServerKeepaliveAfter
  <1>8. C3!Resend(l, ok) = t
    BY DEF C3!Resend, e
  <1> HIDE DEF t
  <1>9. After(c, t, s, TRUE)
    BY <1>6, <1>7 DEF After
  <1> QED
    BY <1>8, <1>9 DEF l

(* A session that is given up is reported. *)
LEMMA GivenUpAfter ==
  ASSUME NEW c \in Context, NEW s, Before(c, s), s.boot = "run", NEW silent
  PROVE  After(c, C3!RunningIntegerFailure(C3!CountRetry(s)), s, silent)
  <1> DEFINE l == C3!CountRetry(s)
             f == C3!UsbFault(l, "keepalive_retry_exhausted")
             d == C3!CloseTcpClient(f)
             e == C3!EnterState(d, "INITIALIZE")
             t == [e EXCEPT !.server = 0, !.client = 1, !.retry = 0]
  <1>1. Typed(s) /\ s.retry \in Nat /\ s.retry + 1 \in 0 .. RetryLimit
    BY LinkConstants DEF Before, Typed, C3!Statics
  <1>2. Typed(l) /\ l.boot = s.boot
    BY <1>1 DEF C3!CountRetry, Typed, C3!Statics
  <1> HIDE DEF l
  <1>3. Typed(f) /\ Alike(f, l) /\ ~ Ends(c, f.usb)
    BY <1>2, UsbFaultFacts DEF C3!Tag, Shaped, Reports, Heard
  <1> HIDE DEF f
  <1>4. Typed(d) /\ d.boot = f.boot /\ ~ Ends(c, d.usb)
    BY <1>3, CloseFacts DEF Settles
  <1> HIDE DEF d
  <1>5. Typed(e) /\ e.boot = d.boot /\ ~ Ends(c, e.usb) /\ e.state = "INITIALIZE"
    BY <1>4, LeaveFacts DEF C3!State, Keepalive, C3!Keepalive, Settles
  <1> HIDE DEF e
  <1>6. Typed(t)
    BY <1>5, Small DEF Typed, C3!Statics
  <1>7. t.boot = e.boot /\ t.usb = e.usb /\ t.state = e.state /\ t.retry = 0
    BY <1>5 DEF Typed, C3!Statics
  <1>8. C3!RunningIntegerFailure(l) = t
    BY DEF C3!RunningIntegerFailure, e, d, f
  <1> HIDE DEF t
  <1>9. t.boot = "run" /\ ~ SessionUp(t) /\ ~ Ends(c, t.usb)
    BY <1>2, <1>3, <1>4, <1>5, <1>7 DEF Alike, SessionUp, Keepalive, C3!Keepalive
  <1>10. After(c, t, s, silent)
    BY <1>6, <1>7, <1>9, LinkConstants DEF After
  <1> QED
    BY <1>8, <1>10 DEF l

(* A new client is announced. *)
LEMMA TakeClientAfter ==
  ASSUME NEW c \in Context, NEW s, Before(c, s), s.boot = "run", NEW ok \in BOOLEAN, NEW silent
  PROVE  After(c, C3!TakeClient(s, ok), s, silent)
  <1> DEFINE d == IF s.conn THEN C3!CloseTcpClient(s) ELSE s
             g == [d EXCEPT !.conn = TRUE, !.txed = FALSE, !.rx = 0]
             e == C3!EnterState(g, "CONNECT")
             n == [e EXCEPT !.server = 0, !.client = 1, !.waiting = FALSE,
                            !.window = FALSE, !.retry = 0, !.sid = 0,
                            !.pending = 0, !.completed = 0, !.nextReq = 1]
             x == C3!SendTcp(n, ok)
             t == C3!UsbSend(x, "ACK", "tcp_connected", 0, 0)
  <1>1. Typed(d) /\ d.boot = s.boot
    BY CloseFacts DEF Before, Settles
  <1> HIDE DEF d
  <1>2. Typed(g) /\ g.boot = s.boot
    BY <1>1, Small DEF Typed, C3!Statics
  <1> HIDE DEF g
  <1>3. Typed(e) /\ e.boot = s.boot /\ e.state = "CONNECT"
    BY <1>2, EnterFacts DEF C3!State
  <1> HIDE DEF e
  <1>4. Typed(n)
    BY <1>3, Small DEF Typed, C3!Statics
  <1>5. n.boot = s.boot /\ n.state = "CONNECT" /\ n.retry = 0
    BY <1>3 DEF Typed, C3!Statics
  <1> HIDE DEF n
  <1>6. Typed(x) /\ x.boot = s.boot /\ x.state = "CONNECT" /\ x.retry = 0
    BY <1>4, <1>5, SendTcpFacts DEF Settles
  <1> HIDE DEF x
  <1>7. "ACK" \in C3!MessageType \ {"KEEPALIVE"} /\ "tcp_connected" \in C3!Tag
        /\ Shaped("ACK", "tcp_connected") /\ "tcp_connected" \in Reports
    BY DEF C3!MessageType, C3!Tag, Shaped, Reports, Heard
  <1>8. Typed(t) /\ Alike(t, x) /\ ~ Ends(c, t.usb)
    BY <1>6, <1>7, Small, UsbTellFacts
  <1>9. C3!TakeClient(s, ok) = t
    BY DEF C3!TakeClient, x, n, e, g, d
  <1> HIDE DEF t
  <1>10. After(c, t, s, silent)
    BY <1>6, <1>8, LinkConstants DEF After, Alike, SessionUp, Keepalive, C3!Keepalive
  <1> QED
    BY <1>9, <1>10

LEMMA WifiDisableFacts ==
  ASSUME NEW c \in Context, NEW s, Typed(s)
  PROVE  LET t == C3!WifiDisable(s) IN Settles(c, t, s) /\ (s.stream => ~ Ends(c, t.usb))
  <1> DEFINE d == C3!CloseTcpClient(s)
             g == [d EXCEPT !.listen = FALSE, !.wifi = FALSE]
             e == C3!EnterState(g, "RESET")
             t == C3!UsbSend(e, "ACK", "wifi_disabled", 0, 0)
  <1>1. Settles(c, d, s) /\ Typed(d) /\ (s.stream => ~ Ends(c, d.usb))
    BY CloseFacts DEF Settles
  <1> HIDE DEF d
  <1>2. Typed(g) /\ Alike(g, d) /\ g.usb = d.usb
    BY <1>1 DEF Typed, C3!Statics, Alike
  <1> HIDE DEF g
  <1>3. Settles(c, g, d)
    BY <1>2, AlikeSettles
  <1>4. Settles(c, e, g) /\ Typed(e)
    BY <1>2, LeaveFacts DEF C3!State, Keepalive, C3!Keepalive, Settles
  <1> HIDE DEF e
  <1>5. "ACK" \in C3!MessageType \ {"KEEPALIVE"} /\ "wifi_disabled" \in C3!Tag
        /\ Shaped("ACK", "wifi_disabled")
    BY DEF C3!MessageType, C3!Tag, Shaped
  <1>6. Settles(c, t, e)
    BY <1>4, <1>5, Small, UsbTellFacts
  <1>7. C3!WifiDisable(s) = t
    BY DEF C3!WifiDisable, e, g, d
  <1> HIDE DEF t
  <1>8. Settles(c, t, d)
    BY <1>3, <1>4, <1>6, SettlesTrans
  <1>9. Settles(c, t, s)
    BY <1>1, <1>8, SettlesTrans
  <1> QED
    BY <1>1, <1>7, <1>8, <1>9 DEF Settles

LEMMA WifiEnableFacts ==
  ASSUME NEW c \in Context, NEW s, Typed(s), NEW apUp \in BOOLEAN, NEW srvUp \in BOOLEAN
  PROVE  LET t == C3!WifiEnable(s, apUp, srvUp) IN Settles(c, t, s) /\ Alike(t, s)
  <1> DEFINE w == s.wifi \/ apUp
             l == s.listen \/ (apUp /\ srvUp)
             u == [s EXCEPT !.wifi = w, !.listen = l]
             t == C3!WifiEnable(s, apUp, srvUp)
  <1>1. w \in BOOLEAN /\ l \in BOOLEAN
    OBVIOUS
  <1>2. /\ {"ACK", "ERROR"} \subseteq C3!MessageType \ {"KEEPALIVE"}
        /\ "wifi_enabled" \in C3!Tag /\ Shaped("ACK", "wifi_enabled")
        /\ "wifi_enable_failed" \in C3!Tag /\ Shaped("ERROR", "wifi_enable_failed")
    BY DEF C3!MessageType, C3!Tag, Shaped
  <1>3. t \in {C3!UsbSend(u, "ACK", "wifi_enabled", 0, 0),
               C3!UsbSend(u, "ERROR", "wifi_enable_failed", 0, 0)}
    BY DEF C3!WifiEnable
  <1> HIDE DEF w, l, t
  <1>4. Typed(u) /\ Alike(u, s) /\ u.usb = s.usb
    BY <1>1 DEF Typed, C3!Statics, Alike
  <1> HIDE DEF u
  <1>5. Settles(c, u, s)
    BY <1>4, AlikeSettles
  <1>6. Settles(c, t, u) /\ Alike(t, u)
    BY <1>2, <1>3, <1>4, Small, UsbTellFacts
  <1> QED
    BY <1>4, <1>5, <1>6, SettlesTrans DEF Alike, t

-----------------------------------------------------------------------------
(* The inductive invariant. *)

Orders == {"RESET", "INITIALIZE", "wifi_disable", "wifi_enable"}

Causes == {"not", "closed", "send", "given up", "client", "host", "initialize", "reboot"}

BridgeSide ==
  Typed(b) /\ b.usb = <<>> /\ b.retry < RetryLimit /\ (b.boot # "run" => ~ b.conn)

LineSide ==
  /\ toHost \in Seq(LineFrame) /\ toBridge \in Seq(Orders)
  /\ ~ h.port => toHost = <<>>

HostSide == h \in PC!Runtime /\ h.out = <<>> /\ opening \in BOOLEAN

LinkInv == HostSide /\ BridgeSide /\ LineSide /\ ended \in Causes /\ NoGhostComing

(* What a step of the bridge starts from. *)
Now == [ka |-> h.port /\ ~ opening /\ h.state \in Keepalive, q |-> toHost]

LEMMA NowFacts ==
  ASSUME LinkInv
  PROVE  /\ Now \in Context /\ Before(Now, b)
         /\ Ends(Now, b.usb) => h.port /\ (SessionUp(b) \/ ended \in Unreported)
  <1> DEFINE ka == h.port /\ ~ opening /\ h.state \in Keepalive
  <1>1. ka \in BOOLEAN
    BY DEF LinkInv, HostSide, PC!Runtime
  <1>2. Now \in Context /\ Now.ka = ka /\ Now.q = toHost
    BY <1>1 DEF Now, Context, LinkInv, LineSide
  <1>3. toHost \o OnLine(b.usb) = toHost
    <2>1. toHost \in Seq(LineFrame) /\ OnLine(b.usb) = <<>>
      BY OnLineEmpty DEF LinkInv, LineSide, BridgeSide
    <2> QED
      BY <2>1
  <1>4. Ends(Now, b.usb) <=> EndsInKeepalive(ka, toHost)
    BY <1>2, <1>3 DEF Ends
  <1>5. CASE h.port
    <2>1. ka = (~ opening /\ h.state \in Keepalive)
      BY <1>5
    <2>2. Ends(Now, b.usb) => (SessionUp(b) /\ b.stream) \/ ended \in Unreported
      BY <1>4, <1>5, <2>1 DEF LinkInv, NoGhostComing
    <2>3. SessionUp(b) => ended = "not" /\ (b.stream \/ (b.server = 0 /\ b.client = 1))
      BY DEF LinkInv, NoGhostComing
    <2>4. Before(Now, b)
      BY <2>2, <2>3 DEF LinkInv, BridgeSide, Before, Unreported
    <2> QED
      BY <1>2, <1>5, <2>2, <2>4
  <1>6. CASE ~ h.port
    <2>1. ~ ka /\ toHost = <<>>
      BY <1>6 DEF LinkInv, LineSide
    <2> HIDE DEF ka
    <2>2. ~ EndsInKeepalive(ka, toHost)
      BY <2>1 DEF EndsInKeepalive
    <2>3. SessionUp(b) => (b.stream \/ (b.server = 0 /\ b.client = 1))
      BY DEF LinkInv, NoGhostComing
    <2>4. Before(Now, b)
      BY <1>4, <2>2, <2>3 DEF LinkInv, BridgeSide, Before
    <2> QED
      BY <1>2, <1>4, <2>2, <2>4
  <1> QED
    BY <1>5, <1>6

LEMMA BridgeDoesKeeps ==
  ASSUME LinkInv, NEW t, NEW cause \in Causes \ {"not"}, BridgeDoes(t, cause),
         After(Now, t, b, cause \in Unreported), toBridge' \in Seq(Orders)
  PROVE  LinkInv'
  <1>1. Typed(t) /\ OnLine(t.usb) \in Seq(LineFrame)
    <2>1. Typed(t) /\ t.usb \in Seq(ShapedFrames)
      BY DEF After, Typed
    <2> QED
      BY <2>1, OnLineTyped
  <1>2. b' = C3!Fresh(t) /\ h' = h /\ opening' = opening
    BY DEF BridgeDoes
  <1>3. /\ Typed(b') /\ b'.usb = <<>> /\ Alike(b', t)
    <2>1. <<>> \in Seq(ShapedFrames) /\ <<>> \in Seq(C3!UsbFrame)
      OBVIOUS
    <2> QED
      BY <1>1, <1>2, <2>1 DEF C3!Fresh, Typed, C3!Statics, Alike
  <1>4. SessionUp(b') <=> SessionUp(t)
    BY <1>3 DEF SessionUp, Alike
  <1>5. BridgeSide'
    BY <1>3 DEF BridgeSide, After, Alike
  <1>6. HostSide'
    BY <1>2 DEF LinkInv, HostSide
  <1>7. toHost' = IF h.port THEN toHost \o OnLine(t.usb) ELSE toHost
    BY DEF BridgeDoes
  <1>8. LineSide'
    BY <1>1, <1>2, <1>7 DEF LinkInv, LineSide
  <1>9. /\ ended' = IF SessionUp(t) THEN "not" ELSE IF SessionUp(b) THEN cause ELSE ended
        /\ ended' \in Causes
    BY DEF BridgeDoes, LinkInv, Causes
  <1>10. SessionUp(b') => ended' = "not" /\ (b'.stream \/ (b'.server = 0 /\ b'.client = 1))
    BY <1>3, <1>4, <1>9 DEF After, Alike
  <1>11. ASSUME h.port, EndsInKeepalive(~ opening /\ h.state \in Keepalive, toHost')
         PROVE  (SessionUp(b') /\ b'.stream) \/ ended' \in Unreported
    <2> DEFINE ka == h.port /\ ~ opening /\ h.state \in Keepalive
    <2>1. Now.ka = ka /\ Now.q = toHost /\ ka = (~ opening /\ h.state \in Keepalive)
      BY <1>11 DEF Now
    <2> HIDE DEF ka
    <2>2. Ends(Now, t.usb)
      BY <1>7, <1>11, <2>1 DEF Ends
    <2>3. \/ SessionUp(t) /\ t.stream
          \/ ~ SessionUp(t) /\ SessionUp(b) /\ cause \in Unreported
          \/ ~ SessionUp(t) /\ ~ SessionUp(b) /\ Ends(Now, b.usb)
      BY <2>2 DEF After
    <2>4. ~ SessionUp(b) /\ Ends(Now, b.usb) => ended \in Unreported
      BY NowFacts
    <2> QED
      BY <1>3, <1>4, <1>9, <2>3, <2>4 DEF Alike
  <1>12. NoGhostComing'
    BY <1>2, <1>10, <1>11 DEF NoGhostComing
  <1> QED
    BY <1>5, <1>6, <1>8, <1>9, <1>12 DEF LinkInv

-----------------------------------------------------------------------------
(* The steps of the bridge. *)

LEMMA BootsKeeps ==
  ASSUME LinkInv, BridgeBoots, toBridge' \in Seq(Orders)
  PROVE  LinkInv'
  <1> DEFINE r == [b EXCEPT !.boot = "run", !.listen = TRUE]
             e == C3!EnterState(b, "ERROR")
             d == [e EXCEPT !.boot = "halted"]
  <1>1. Now \in Context /\ Before(Now, b) /\ Typed(b) /\ ~ b.conn
    BY NowFacts DEF LinkInv, BridgeSide, BridgeBoots
  <1>2. ~ SessionUp(b)
    BY <1>1 DEF SessionUp
  <1>3. After(Now, r, b, FALSE)
    <2>1. Typed(r) /\ r.usb = b.usb /\ r.conn = b.conn /\ r.retry = b.retry
      BY <1>1 DEF Typed, C3!Statics
    <2> HIDE DEF r
    <2> QED
      BY <1>1, <1>2, <2>1 DEF After, Before, SessionUp
  <1>4. After(Now, d, b, FALSE)
    <2>1. Settles(Now, e, b) /\ Typed(e) /\ e.conn = b.conn
      BY <1>1, LeaveFacts DEF C3!State, Keepalive, C3!Keepalive, Settles
    <2> HIDE DEF e
    <2>2. Typed(d) /\ d.usb = e.usb /\ d.conn = e.conn /\ d.retry = e.retry
      BY <2>1 DEF Typed, C3!Statics
    <2> HIDE DEF d
    <2> QED
      BY <1>1, <1>2, <2>1, <2>2, LinkConstants DEF After, Before, Settles, SessionUp
  <1>5. BridgeDoes(r, "closed") \/ BridgeDoes(d, "closed")
    BY DEF BridgeBoots
  <1>6. "closed" \in Causes \ {"not"} /\ ("closed" \in Unreported) = FALSE
    BY DEF Causes, Unreported
  <1> HIDE DEF r, d
  <1> QED
    BY <1>3, <1>4, <1>5, <1>6, BridgeDoesKeeps

LEMMA TakesClientKeeps ==
  ASSUME LinkInv, NEW ok \in BOOLEAN, TakesClient(ok), toBridge' \in Seq(Orders)
  PROVE  LinkInv'
  <1>1. Now \in Context /\ Before(Now, b) /\ b.boot = "run"
    BY NowFacts DEF TakesClient, C3!Idle
  <1>2. After(Now, C3!TakeClient(b, ok), b, FALSE)
    BY <1>1, TakeClientAfter
  <1>3. "closed" \in Causes \ {"not"} /\ ("closed" \in Unreported) = FALSE
    BY DEF Causes, Unreported
  <1> QED
    BY <1>2, <1>3, BridgeDoesKeeps DEF TakesClient

LEMMA ClientGoesKeeps ==
  ASSUME LinkInv, ClientGoes, toBridge' \in Seq(Orders)
  PROVE  LinkInv'
  <1>1. Now \in Context /\ Before(Now, b) /\ Typed(b)
    BY NowFacts DEF Before
  <1>2. After(Now, C3!CloseTcpClient(b), b, FALSE)
    BY <1>1, CloseFacts, SettlesAfter
  <1>3. "closed" \in Causes \ {"not"} /\ ("closed" \in Unreported) = FALSE
    BY DEF Causes, Unreported
  <1> QED
    BY <1>2, <1>3, BridgeDoesKeeps DEF ClientGoes

LEMMA EngineKeeps ==
  ASSUME LinkInv, NEW ok \in BOOLEAN, EngineRuns(ok), toBridge' \in Seq(Orders)
  PROVE  LinkInv'
  <1>1. Now \in Context /\ Before(Now, b) /\ SessionUp(b)
    BY NowFacts DEF EngineRuns, C3!Idle, SessionUp, Keepalive, C3!Keepalive
  <1>2. After(Now, C3!SendServerKeepalive(b, FALSE, ok), b, TRUE)
    BY <1>1, ServerKeepaliveAfter
  <1>3. "send" \in Causes \ {"not"} /\ ("send" \in Unreported) = TRUE
    BY DEF Causes, Unreported
  <1> QED
    BY <1>2, <1>3, BridgeDoesKeeps DEF EngineRuns

LEMMA WatchdogKeeps ==
  ASSUME LinkInv, NEW ok \in BOOLEAN, WatchdogRuns(ok), toBridge' \in Seq(Orders)
  PROVE  LinkInv'
  <1> DEFINE l == C3!CountRetry(b)
  <1>1. Now \in Context /\ Before(Now, b) /\ SessionUp(b) /\ b.boot = "run"
    BY NowFacts DEF WatchdogRuns, C3!Idle, SessionUp, Keepalive, C3!Keepalive
  <1>2. "send" \in Causes \ {"not"} /\ "given up" \in Causes \ {"not"}
        /\ ("send" \in Unreported) = TRUE /\ ("given up" \in Unreported) = FALSE
    BY DEF Causes, Unreported
  <1>3. CASE C3!Exhausted(l)
    <2>1. BridgeDoes(C3!RunningIntegerFailure(l), "given up")
      BY <1>3 DEF WatchdogRuns
    <2>2. After(Now, C3!RunningIntegerFailure(l), b, FALSE)
      BY <1>1, GivenUpAfter
    <2> QED
      BY <1>2, <2>1, <2>2, BridgeDoesKeeps
  <1>4. CASE ~ C3!Exhausted(l)
    <2>1. BridgeDoes(C3!Resend(l, ok), "send")
      BY <1>4 DEF WatchdogRuns
    <2>2. After(Now, C3!Resend(l, ok), b, TRUE)
      BY <1>1, <1>4, ResendAfter
    <2> QED
      BY <1>2, <2>1, <2>2, BridgeDoesKeeps
  <1> QED
    BY <1>3, <1>4

LEMMA ClientSpeaksKeeps ==
  ASSUME LinkInv, NEW ok \in BOOLEAN, ClientSpeaks(ok), toBridge' \in Seq(Orders)
  PROVE  LinkInv'
  <1> DEFINE z == [b EXCEPT !.rx = 1]
  <1>1. Now \in Context /\ Before(Now, b) /\ Typed(b) /\ b.boot = "run" /\ b.conn
    BY NowFacts DEF ClientSpeaks, C3!Idle, Before
  <1>2. Typed(z) /\ Alike(z, b) /\ z.usb = b.usb
    BY <1>1, Small DEF Typed, C3!Statics, Alike
  <1>3. PICK s \in AfterFrame(z, ok) : BridgeDoes(C3!Consume(s), "client")
    BY DEF ClientSpeaks
  <1> HIDE DEF z
  <1>4. Before(Now, z) /\ z.boot = "run" /\ z.conn
    BY <1>1, <1>2 DEF Before, Alike, SessionUp
  <1>5. \A ver \in BOOLEAN : Answer(z, ver) \in C3!KeepaliveFrame
    <2>1. z.sid \in C3!Id /\ z.pending \in C3!Id /\ z.server \in C3!Live
      BY <1>2 DEF Typed, C3!Statics
    <2>2. C3!Inc(z.server) \in C3!Live
      BY <2>1, LinkConstants DEF C3!Inc, C3!Live
    <2> QED
      BY <2>1, <2>2 DEF Answer, C3!KeepaliveFrame
  <1>6. After(Now, s, z, TRUE)
    <2>1. Settles(Now, s, z) => After(Now, s, z, TRUE)
      BY <1>4, SettlesAfter
    <2>2. \/ s \in {C3!OnReset(z, "TCP", ok), C3!OnDisconnect(z, "TCP", ok),
                    C3!OnError(z, "TCP", ok), C3!OnUnsupported(z, "TCP", ok),
                    C3!OnTcpData(z, "text", ok)}
          \/ \E ver \in BOOLEAN : s = C3!OnInitialize(z, "TCP", ver, ok)
          \/ \E ver \in BOOLEAN : s = C3!OnKeepalive(z, Answer(z, ver), ok)
          \/ s = C3!OnConnect(z, "TCP", ok)
      BY <1>3 DEF AfterFrame
    <2>3. CASE s \in {C3!OnReset(z, "TCP", ok), C3!OnDisconnect(z, "TCP", ok),
                      C3!OnError(z, "TCP", ok), C3!OnUnsupported(z, "TCP", ok),
                      C3!OnTcpData(z, "text", ok)}
      <3>1. /\ Settles(Now, C3!OnReset(z, "TCP", ok), z)
            /\ Settles(Now, C3!OnDisconnect(z, "TCP", ok), z)
            /\ Settles(Now, C3!OnError(z, "TCP", ok), z)
            /\ Settles(Now, C3!OnUnsupported(z, "TCP", ok), z)
            /\ Settles(Now, C3!OnTcpData(z, "text", ok), z)
        BY <1>1, <1>2, ResetFacts, DisconnectFacts, ErrorFacts, UnsupportedFacts, TcpDataFacts
      <3> QED
        BY <2>1, <2>3, <3>1
    <2>4. CASE \E ver \in BOOLEAN : s = C3!OnInitialize(z, "TCP", ver, ok)
      <3>1. \A ver \in BOOLEAN : Settles(Now, C3!OnInitialize(z, "TCP", ver, ok), z)
        BY <1>1, <1>2, InitializeFacts
      <3> QED
        BY <2>1, <2>4, <3>1
    <2>5. CASE \E ver \in BOOLEAN : s = C3!OnKeepalive(z, Answer(z, ver), ok)
      <3>1. PICK ver \in BOOLEAN : s = C3!OnKeepalive(z, Answer(z, ver), ok)
        BY <2>5
      <3>2. Answer(z, ver) \in C3!KeepaliveFrame
        BY <1>5
      <3> QED
        BY <1>1, <1>4, <3>1, <3>2, KeepaliveAfter
    <2>6. CASE s = C3!OnConnect(z, "TCP", ok)
      BY <1>1, <1>4, <2>6, ConnectAfter
    <2> QED
      BY <2>2, <2>3, <2>4, <2>5, <2>6
  <1> DEFINE n == IF s.rx = 0 THEN RxMod - 1 ELSE s.rx - 1
             t == C3!Consume(s)
  <1>7. Typed(s) /\ n \in 0 .. (RxMod - 1) /\ t = [s EXCEPT !.rx = n]
    <2>1. Typed(s)
      BY <1>6 DEF After
    <2>2. s.rx \in 0 .. (RxMod - 1)
      BY <2>1 DEF Typed, C3!Statics
    <2> QED
      BY <2>1, <2>2, LinkConstants DEF C3!Consume
  <1> HIDE DEF n, t
  <1>8. Typed(t) /\ Alike(t, s) /\ t.usb = s.usb
    BY <1>7 DEF Typed, C3!Statics, Alike
  <1>9. After(Now, t, b, TRUE)
    BY <1>2, <1>6, <1>8, AfterAlike
  <1>10. "client" \in Causes \ {"not"} /\ ("client" \in Unreported) = TRUE
    BY DEF Causes, Unreported
  <1>11. BridgeDoes(t, "client")
    BY <1>3 DEF t
  <1> QED
    BY <1>9, <1>10, <1>11, BridgeDoesKeeps

LEMMA ObeysKeeps ==
  ASSUME LinkInv, BridgeObeys
  PROVE  LinkInv'
  <1>1. Now \in Context /\ Before(Now, b) /\ Typed(b)
    BY NowFacts DEF Before
  <1>2. Head(toBridge) \in Orders /\ toBridge' \in Seq(Orders)
    BY DEF BridgeObeys, LinkInv, LineSide
  <1> DEFINE cause == IF Head(toBridge) = "INITIALIZE" THEN "initialize" ELSE "host"
  <1>3. PICK s \in Obeyed(Head(toBridge)) : BridgeDoes(s, cause)
    BY DEF BridgeObeys
  <1>4. \/ s = C3!OnReset(b, "USB", TRUE)
        \/ s = C3!OnInitialize(b, "USB", FALSE, TRUE) /\ cause = "initialize"
        \/ s = C3!WifiDisable(b)
        \/ \E apUp, srvUp \in BOOLEAN : s = C3!WifiEnable(b, apUp, srvUp)
    <2>1. CASE Head(toBridge) = "RESET"
      BY <1>3, <2>1 DEF Obeyed
    <2>2. CASE Head(toBridge) = "INITIALIZE"
      BY <1>3, <2>2 DEF Obeyed
    <2>3. CASE Head(toBridge) = "wifi_disable"
      BY <1>3, <2>3 DEF Obeyed
    <2>4. CASE Head(toBridge) = "wifi_enable"
      BY <1>3, <2>4 DEF Obeyed
    <2> QED
      BY <1>2, <2>1, <2>2, <2>3, <2>4 DEF Orders
  <1>5. cause \in Causes \ {"not"} /\ (cause \in Unreported) = (cause = "initialize")
    BY DEF Causes, Unreported
  <1> HIDE DEF cause
  <1>6. PICK silent \in BOOLEAN : silent = (cause = "initialize")
    OBVIOUS
  <1>7. After(Now, s, b, silent)
    <2>1. CASE s = C3!OnReset(b, "USB", TRUE)
      BY <1>1, <2>1, ResetFacts, SettlesAfter
    <2>2. CASE s = C3!OnInitialize(b, "USB", FALSE, TRUE) /\ cause = "initialize"
      BY <1>1, <1>6, <2>2, InitializeFacts, SettlesAfter
    <2>3. CASE s = C3!WifiDisable(b)
      BY <1>1, <2>3, WifiDisableFacts, SettlesAfter
    <2>4. CASE \E apUp, srvUp \in BOOLEAN : s = C3!WifiEnable(b, apUp, srvUp)
      <3>1. Settles(Now, s, b) /\ Alike(s, b)
        BY <1>1, <2>4, WifiEnableFacts
      <3>2. SessionUp(b) => SessionUp(s)
        BY <3>1 DEF Alike, SessionUp
      <3> QED
        BY <1>1, <3>1, <3>2, SettlesAfter
    <2> QED
      BY <1>4, <2>1, <2>2, <2>3, <2>4
  <1> QED
    BY <1>2, <1>3, <1>5, <1>6, <1>7, BridgeDoesKeeps

-----------------------------------------------------------------------------
(* The methods of the runtime. *)

(* t is s after some calls, none of which opened the port or entered a      *)
(* keepalive state.                                                         *)
Calms(t, s) ==
  /\ t \in PC!Runtime
  /\ t.port => s.port
  /\ t.state \in Keepalive => s.state \in Keepalive
  /\ s.out \in Seq(Orders) => t.out \in Seq(Orders)

LEMMA CalmsTrans ==
  ASSUME NEW r, NEW s, NEW t, Calms(s, r), Calms(t, s)
  PROVE  Calms(t, r)
  BY DEF Calms

(* An assignment to an attribute keeps the type of the record. *)
LEMMA HostUpdates ==
  ASSUME NEW s \in PC!Runtime
  PROVE  /\ \A x \in BOOLEAN :
              /\ [s EXCEPT !.fault = x] \in PC!Runtime /\ [s EXCEPT !.armed = x] \in PC!Runtime
              /\ [s EXCEPT !.cfg = x] \in PC!Runtime /\ [s EXCEPT !.wifiEnabled = x] \in PC!Runtime
              /\ [s EXCEPT !.wifiReady = x] \in PC!Runtime /\ [s EXCEPT !.wifiConn = x] \in PC!Runtime
              /\ [s EXCEPT !.tcpConn = x] \in PC!Runtime /\ [s EXCEPT !.initDone = x] \in PC!Runtime
              /\ [s EXCEPT !.connDone = x] \in PC!Runtime /\ [s EXCEPT !.brewSeen = x] \in PC!Runtime
              /\ [s EXCEPT !.shot = x] \in PC!Runtime /\ [s EXCEPT !.port = x] \in PC!Runtime
              /\ [s EXCEPT !.brew = x] \in PC!Runtime
         /\ \A x \in PC!LinkState : [s EXCEPT !.state = x] \in PC!Runtime
         /\ \A x \in {"none", "INITIALIZE", "CONNECT"} : [s EXCEPT !.pending = x] \in PC!Runtime
  <1>1. ASSUME NEW x \in BOOLEAN
        PROVE  [s EXCEPT !.fault = x] \in PC!Runtime
    BY DEF PC!Runtime
  <1>2. ASSUME NEW x \in BOOLEAN
        PROVE  [s EXCEPT !.armed = x] \in PC!Runtime
    BY DEF PC!Runtime
  <1>3. ASSUME NEW x \in BOOLEAN
        PROVE  [s EXCEPT !.cfg = x] \in PC!Runtime
    BY DEF PC!Runtime
  <1>4. ASSUME NEW x \in BOOLEAN
        PROVE  [s EXCEPT !.wifiEnabled = x] \in PC!Runtime
    BY DEF PC!Runtime
  <1>5. ASSUME NEW x \in BOOLEAN
        PROVE  [s EXCEPT !.wifiReady = x] \in PC!Runtime
    BY DEF PC!Runtime
  <1>6. ASSUME NEW x \in BOOLEAN
        PROVE  [s EXCEPT !.wifiConn = x] \in PC!Runtime
    BY DEF PC!Runtime
  <1>7. ASSUME NEW x \in BOOLEAN
        PROVE  [s EXCEPT !.tcpConn = x] \in PC!Runtime
    BY DEF PC!Runtime
  <1>8. ASSUME NEW x \in BOOLEAN
        PROVE  [s EXCEPT !.initDone = x] \in PC!Runtime
    BY DEF PC!Runtime
  <1>9. ASSUME NEW x \in BOOLEAN
        PROVE  [s EXCEPT !.connDone = x] \in PC!Runtime
    BY DEF PC!Runtime
  <1>10. ASSUME NEW x \in BOOLEAN
        PROVE  [s EXCEPT !.brewSeen = x] \in PC!Runtime
    BY DEF PC!Runtime
  <1>11. ASSUME NEW x \in BOOLEAN
        PROVE  [s EXCEPT !.shot = x] \in PC!Runtime
    BY DEF PC!Runtime
  <1>12. ASSUME NEW x \in BOOLEAN
        PROVE  [s EXCEPT !.port = x] \in PC!Runtime
    BY DEF PC!Runtime
  <1>13. ASSUME NEW x \in BOOLEAN
        PROVE  [s EXCEPT !.brew = x] \in PC!Runtime
    BY DEF PC!Runtime
  <1>14. ASSUME NEW x \in PC!LinkState
        PROVE  [s EXCEPT !.state = x] \in PC!Runtime
    BY DEF PC!Runtime
  <1>15. ASSUME NEW x \in {"none", "INITIALIZE", "CONNECT"}
        PROVE  [s EXCEPT !.pending = x] \in PC!Runtime
    BY DEF PC!Runtime
  <1> QED
    BY <1>1, <1>2, <1>3, <1>4, <1>5, <1>6, <1>7, <1>8, <1>9, <1>10, <1>11, <1>12, <1>13,
       <1>14, <1>15

LEMMA ClearFacts ==
  ASSUME NEW s \in PC!Runtime
  PROVE  LET t == PC!ClearRuntimeFlow(s) IN
         t \in PC!Runtime /\ t.state = s.state /\ t.port = s.port /\ t.out = s.out
  <1>1. PC!ClearRuntimeFlow(s) \in PC!Runtime
    BY HostUpdates, Zenon DEF PC!ClearRuntimeFlow
  <1> QED
    BY <1>1 DEF PC!ClearRuntimeFlow, PC!Runtime

LEMMA FaultCalms ==
  ASSUME NEW s \in PC!Runtime
  PROVE  Calms(PC!SetRuntimeFault(s), s) /\ PC!SetRuntimeFault(s).state = "ERROR"
  <1> DEFINE t == PC!SetRuntimeFault(s)
  <1>1. t \in PC!Runtime
    BY ClearFacts, HostUpdates, Zenon DEF PC!SetRuntimeFault, PC!LinkState
  <1>2. t.state = "ERROR" /\ t.port = s.port /\ t.out = s.out
    BY DEF PC!SetRuntimeFault, PC!ClearRuntimeFlow, PC!Runtime
  <1> HIDE DEF t
  <1> QED
    BY <1>1, <1>2 DEF Calms, Keepalive, C3!Keepalive, t

LEMMA SendCalms ==
  ASSUME NEW s \in PC!Runtime, NEW cmd \in Orders, NEW ok \in BOOLEAN
  PROVE  Calms(PC!Send(s, cmd, ok), s) /\ PC!Send(s, cmd, ok).state = s.state
  <1>1. cmd \in PC!Command
    BY DEF Orders, PC!Command
  <1>2. CASE s.port /\ ok
    <2> DEFINE t == [s EXCEPT !.out = Append(s.out, cmd)]
    <2>1. PC!Send(s, cmd, ok) = t
      BY <1>2 DEF PC!Send
    <2>2. Append(s.out, cmd) \in Seq(PC!Command)
      BY <1>1 DEF PC!Runtime
    <2>3. t \in PC!Runtime /\ t.port = s.port /\ t.state = s.state /\ t.out = Append(s.out, cmd)
      BY <2>2 DEF PC!Runtime
    <2> HIDE DEF t
    <2>4. s.out \in Seq(Orders) => t.out \in Seq(Orders)
      BY <2>3
    <2> QED
      BY <2>1, <2>3, <2>4 DEF Calms
  <1>3. CASE ~ (s.port /\ ok)
    <2> DEFINE t == [s EXCEPT !.port = FALSE]
    <2>1. PC!Send(s, cmd, ok) = t
      BY <1>3 DEF PC!Send
    <2>2. t \in PC!Runtime /\ ~ t.port /\ t.state = s.state /\ t.out = s.out
      BY DEF PC!Runtime
    <2> HIDE DEF t
    <2> QED
      BY <2>1, <2>2 DEF Calms
  <1> QED
    BY <1>2, <1>3

LEMMA TrySendCalms ==
  ASSUME NEW s \in PC!Runtime, NEW cmd \in Orders, NEW ok \in BOOLEAN
  PROVE  Calms(PC!TrySend(s, cmd, ok), s) /\ PC!TrySend(s, cmd, ok).state \in {s.state, "ERROR"}
  <1> DEFINE u == PC!Send(s, cmd, ok)
  <1>1. Calms(u, s) /\ u.state = s.state /\ u \in PC!Runtime
    BY SendCalms DEF Calms
  <1> HIDE DEF u
  <1>2. Calms(PC!SetRuntimeFault(u), u) /\ PC!SetRuntimeFault(u).state = "ERROR"
    BY <1>1, FaultCalms
  <1>3. Calms(PC!SetRuntimeFault(u), s)
    BY <1>1, <1>2, CalmsTrans
  <1>4. PC!TrySend(s, cmd, ok) = IF s.port /\ ok THEN u ELSE PC!SetRuntimeFault(u)
    BY DEF PC!TrySend, u
  <1> QED
    BY <1>1, <1>2, <1>3, <1>4

LEMMA BeginInitializeCalms ==
  ASSUME NEW s \in PC!Runtime, NEW ok \in BOOLEAN
  PROVE  Calms(PC!BeginInitialize(s, ok), s)
  <1> DEFINE r == [s EXCEPT !.wifiReady = TRUE, !.wifiConn = FALSE, !.tcpConn = FALSE,
                            !.state = "INITIALIZE"]
             i == PC!TrySend(r, "INITIALIZE", ok)
             t == [i EXCEPT !.pending = "CONNECT"]
  <1>1. r \in PC!Runtime
    BY DEF PC!Runtime, PC!LinkState
  <1>2. r.state = "INITIALIZE" /\ r.port = s.port /\ r.out = s.out
    BY DEF PC!Runtime
  <1> HIDE DEF r
  <1>3. Calms(r, s)
    BY <1>1, <1>2 DEF Calms, Keepalive, C3!Keepalive
  <1>4. Calms(i, r) /\ i \in PC!Runtime
    BY <1>1, TrySendCalms DEF Orders, Calms
  <1> HIDE DEF i
  <1>5. t \in PC!Runtime /\ t.state = i.state /\ t.port = i.port /\ t.out = i.out
    BY <1>4 DEF PC!Runtime
  <1> HIDE DEF t
  <1>6. Calms(t, i)
    BY <1>5 DEF Calms
  <1>7. Calms(i, s) /\ Calms(t, s)
    BY <1>3, <1>4, <1>6, CalmsTrans
  <1>8. PC!BeginInitialize(s, ok) \in {PC!SetRuntimeFault(s), t, i}
    BY DEF PC!BeginInitialize, t, i, r
  <1> QED
    BY <1>7, <1>8, FaultCalms

LEMMA BodyCalms ==
  ASSUME NEW s \in PC!Runtime, NEW call \in {"get_snapshot", "initialize"}, NEW ok \in BOOLEAN
  PROVE  Calms(PC!Body(call, s, ok), s)
  <1>0. Calms(s, s)
    BY DEF Calms
  <1>1. CASE call = "get_snapshot"
    <2> DEFINE k == PC!CheckPortAlive(s)
               t == [k EXCEPT !.pending = "none", !.initDone = TRUE, !.wifiConn = FALSE,
                              !.tcpConn = FALSE, !.state = "CONNECT"]
    <2>1. Calms(k, s) /\ k \in PC!Runtime
      BY <1>0, FaultCalms DEF PC!CheckPortAlive, Calms
    <2> HIDE DEF k
    <2>2. t \in PC!Runtime
      BY <2>1 DEF PC!Runtime, PC!LinkState
    <2>3. t.state = "CONNECT" /\ t.port = k.port /\ t.out = k.out
      BY <2>1 DEF PC!Runtime
    <2>4. PC!BeginConnect(k) \in {PC!SetRuntimeFault(k), t}
      BY DEF PC!BeginConnect
    <2> HIDE DEF t
    <2>5. Calms(t, k)
      BY <2>2, <2>3 DEF Calms, Keepalive, C3!Keepalive
    <2>6. Calms(PC!BeginConnect(k), k) /\ Calms(PC!BeginInitialize(k, ok), k) /\ Calms(k, k)
      BY <2>1, <2>4, <2>5, FaultCalms, BeginInitializeCalms DEF Calms
    <2>7. Calms(PC!AdvanceAutomaticFlow(k, ok), k)
      BY <2>6 DEF PC!AdvanceAutomaticFlow
    <2>8. PC!Body(call, s, ok) = PC!AdvanceAutomaticFlow(k, ok)
      BY <1>1 DEF PC!Body, k
    <2> QED
      BY <2>1, <2>7, <2>8, CalmsTrans
  <1>2. CASE call = "initialize"
    <2> DEFINE k == PC!ClearRuntimeFlow(s)
    <2>1. k \in PC!Runtime /\ k.state = s.state /\ k.port = s.port /\ k.out = s.out
      BY ClearFacts
    <2> HIDE DEF k
    <2>2. Calms(k, s)
      BY <2>1 DEF Calms
    <2>3. Calms(PC!BeginInitialize(k, ok), k)
      BY <2>1, BeginInitializeCalms
    <2>4. PC!Body(call, s, ok) \in {s, PC!BeginInitialize(k, ok)}
      BY <1>2 DEF PC!Body, PC!DoInitialize, k
    <2> QED
      BY <1>0, <2>2, <2>3, <2>4, CalmsTrans
  <1> QED
    BY <1>1, <1>2

LEMMA DoResetCalms ==
  ASSUME NEW s \in PC!Runtime, NEW ok \in BOOLEAN
  PROVE  Calms(PC!DoReset(s, ok), s) /\ PC!DoReset(s, ok).state \notin Keepalive
  <1> DEFINE k == [PC!ClearRuntimeFlow(s) EXCEPT !.wifiReady = FALSE, !.wifiConn = FALSE,
                     !.tcpConn = FALSE, !.fault = FALSE, !.state = "RESET"]
             r == PC!TrySend(k, "RESET", ok)
             t == [r EXCEPT !.pending = "INITIALIZE"]
  <1>1. k \in PC!Runtime
    BY ClearFacts, HostUpdates, Zenon DEF PC!LinkState
  <1>2. k.state = "RESET" /\ k.port = s.port /\ k.out = s.out
    BY DEF PC!ClearRuntimeFlow, PC!Runtime
  <1>3. PC!DoReset(s, ok) \in {t, r}
    BY DEF PC!DoReset
  <1> HIDE DEF k
  <1>4. Calms(k, s)
    BY <1>1, <1>2 DEF Calms, Keepalive, C3!Keepalive
  <1>5. Calms(r, k) /\ r \in PC!Runtime /\ r.state \in {"RESET", "ERROR"}
    BY <1>1, <1>2, TrySendCalms DEF Orders, Calms
  <1> HIDE DEF r
  <1>6. t \in PC!Runtime /\ t.state = r.state /\ t.port = r.port /\ t.out = r.out
    BY <1>5 DEF PC!Runtime
  <1> HIDE DEF t
  <1>7. Calms(t, r)
    BY <1>6 DEF Calms
  <1>8. Calms(r, s) /\ Calms(t, s)
    BY <1>4, <1>5, <1>7, CalmsTrans
  <1> QED
    BY <1>3, <1>5, <1>6, <1>8 DEF Keepalive, C3!Keepalive

LEMMA DoToggleWifiCalms ==
  ASSUME NEW s \in PC!Runtime, NEW ok \in BOOLEAN
  PROVE  Calms(PC!DoToggleWifi(s, ok), s) /\ PC!DoToggleWifi(s, ok).state = "RESET"
  <1> DEFINE on == ~ s.wifiEnabled
             cmd == IF on THEN "wifi_enable" ELSE "wifi_disable"
             u == IF s.port THEN PC!Send(s, cmd, ok) ELSE s
             k == PC!ClearRuntimeFlow(u)
             t == [k EXCEPT
                     !.wifiEnabled = on, !.wifiReady = FALSE, !.wifiConn = FALSE,
                     !.tcpConn = FALSE, !.fault = FALSE, !.state = "RESET"]
  <1>1. PC!DoToggleWifi(s, ok) = t
    BY DEF PC!DoToggleWifi
  <1>2. on \in BOOLEAN
    OBVIOUS
  <1>3. cmd \in Orders
    BY DEF Orders
  <1> HIDE DEF on, cmd
  <1>4. Calms(u, s) /\ u \in PC!Runtime
    BY <1>3, SendCalms DEF Calms
  <1> HIDE DEF u
  <1>41. k \in PC!Runtime /\ k.port = u.port /\ k.out = u.out
    BY <1>4, ClearFacts
  <1> HIDE DEF k
  <1>5. t \in PC!Runtime
    BY <1>2, <1>41, HostUpdates, Zenon DEF PC!LinkState
  <1>6. t.state = "RESET" /\ t.port = u.port /\ t.out = u.out
    BY <1>41 DEF PC!Runtime
  <1> HIDE DEF t
  <1>7. Calms(t, u)
    BY <1>5, <1>6 DEF Calms, Keepalive, C3!Keepalive
  <1> QED
    BY <1>1, <1>4, <1>6, <1>7, CalmsTrans

LEMMA DoCloseFacts ==
  ASSUME NEW s \in PC!Runtime
  PROVE  /\ PC!DoClose(s) \in PC!Runtime /\ ~ PC!DoClose(s).port
         /\ [PC!DoClose(s) EXCEPT !.fault = FALSE] \in PC!Runtime
         /\ ~ [PC!DoClose(s) EXCEPT !.fault = FALSE].port
  <1> DEFINE k == PC!ClearRuntimeFlow(s)
             t == PC!DoClose(s)
  <1>0. /\ k \in PC!Runtime
        /\ t = [k EXCEPT !.port = FALSE, !.wifiReady = FALSE,
                         !.wifiConn = FALSE, !.tcpConn = FALSE, !.state = "RESET"]
    BY ClearFacts DEF PC!DoClose
  <1> HIDE DEF k, t
  <1>1. t \in PC!Runtime /\ ~ t.port
    <2>1. t \in PC!Runtime
      BY <1>0, HostUpdates, Zenon DEF PC!LinkState
    <2> QED
      BY <1>0, <2>1 DEF PC!Runtime
  <1>2. [t EXCEPT !.fault = FALSE] \in PC!Runtime /\ ~ [t EXCEPT !.fault = FALSE].port
    BY <1>1 DEF PC!Runtime
  <1> QED
    BY <1>1, <1>2 DEF t

-----------------------------------------------------------------------------
(* The received frames. *)

(* One frame takes the host into a keepalive state, or out of it, as        *)
(* EndsInKeepalive says.                                                    *)
LEMMA FrameFacts ==
  ASSUME NEW s \in PC!Runtime, NEW f \in LineFrame, NEW ok \in BOOLEAN
  PROVE  LET t == PC!OnFrame(s, f, ok) IN
         /\ t \in PC!Runtime /\ t.out = s.out /\ t.port = s.port
         /\ t.state \in Keepalive <=>
              Confirms(f) \/ (s.state \in Keepalive /\ f.tag \notin Reports)
  <1> DEFINE t == PC!OnFrame(s, f, ok)
             req == [PC!KeepaliveSeen(s) EXCEPT !.pending = "none", !.state = "CLIENT_RETURN"]
             resp == [PC!KeepaliveSeen(s) EXCEPT !.state = "SERVER_SEND"]
  <1>1. f.tag \in Heard /\ Shaped(f.type, f.tag) /\ f.server \in {0, 2} /\ f.client = 1
    BY DEF LineFrame
  <1>2. CASE f.tag \in {"ka_req", "ka_resp"}
    <2>1. f.type = "KEEPALIVE" /\ f.tag \notin Reports /\ (Confirms(f) <=> f.server = 2)
      BY <1>1, <1>2 DEF Shaped, Reports, Confirms
    <2>2. CASE f.server = 0
      <3>1. t = s
        BY <1>1, <2>1, <2>2 DEF PC!OnFrame, PC!OnKeepaliveFrame
      <3> QED
        BY <2>1, <2>2, <3>1
    <2>3. CASE f.server = 2
      <3>1. PC!EvenOdd(f) /\ f.client + 1 = f.server
        BY <1>1, <2>3 DEF PC!EvenOdd
      <3>2. t \in {req, resp}
        BY <1>2, <2>1, <3>1 DEF PC!OnFrame, PC!OnKeepaliveFrame
      <3>3. req \in PC!Runtime /\ req.state = "CLIENT_RETURN" /\ req.out = s.out /\ req.port = s.port
        BY DEF PC!KeepaliveSeen, PC!Runtime, PC!LinkState, PC!Keepalive
      <3>4. resp \in PC!Runtime /\ resp.state = "SERVER_SEND" /\ resp.out = s.out /\ resp.port = s.port
        BY DEF PC!KeepaliveSeen, PC!Runtime, PC!LinkState, PC!Keepalive
      <3> HIDE DEF req, resp, t
      <3> QED
        BY <2>1, <2>3, <3>2, <3>3, <3>4 DEF Keepalive, C3!Keepalive, t
    <2> QED
      BY <1>1, <2>2, <2>3
  <1>3. CASE f.tag \in {"keepalive_retry_exhausted", "halted_tcp_client_closed"}
    <2>1. f.type = "ERROR" /\ f.tag \in Reports /\ ~ Confirms(f)
      BY <1>1, <1>3 DEF Shaped, Reports, Heard, Confirms
    <2>2. t = PC!OnErrorFrame(s, f)
      BY <2>1 DEF PC!OnFrame
    <2> HIDE DEF t
    <2>3. t \in PC!Runtime /\ t.state \in {"INITIALIZE", "CONNECT"} /\ t.out = s.out /\ t.port = s.port
      <3>1. CASE f.tag = "keepalive_retry_exhausted"
        <4>1. t = [s EXCEPT !.armed = FALSE, !.wifiConn = FALSE, !.tcpConn = FALSE,
                            !.state = "INITIALIZE"]
          BY <2>2, <3>1 DEF PC!OnErrorFrame
        <4> QED
          BY <4>1 DEF PC!Runtime, PC!LinkState
      <3>2. CASE f.tag = "halted_tcp_client_closed"
        <4>1. t = [s EXCEPT !.armed = FALSE, !.tcpConn = FALSE, !.connDone = FALSE,
                            !.shot = FALSE, !.state = "CONNECT"]
          BY <2>2, <3>2 DEF PC!OnErrorFrame
        <4> QED
          BY <4>1 DEF PC!Runtime, PC!LinkState
      <3> QED
        BY <1>3, <3>1, <3>2
    <2> QED
      BY <2>1, <2>3 DEF Keepalive, C3!Keepalive, t
  <1>4. CASE f.tag \in {"tcp_connected", "client_connected", "disconnect_ack", "reset_ack",
                        "initialize_ack"}
    <2>1. f.type = "ACK" /\ f.tag \in Reports /\ ~ Confirms(f)
      BY <1>1, <1>4 DEF Shaped, Reports, Heard, Confirms
    <2>2. t = PC!OnAckFrame(s, f)
      BY <2>1 DEF PC!OnFrame
    <2>3. t \in PC!Runtime
      <3>1. CASE f.tag = "tcp_connected"
        <4>1. t = [s EXCEPT !.wifiConn = TRUE, !.tcpConn = TRUE, !.state = "CONNECT"]
          BY <2>2, <3>1 DEF PC!OnAckFrame
        <4> HIDE DEF t
        <4> QED
          BY <4>1, HostUpdates, Zenon DEF PC!LinkState
      <3>2. CASE f.tag = "client_connected"
        <4>1. t = [s EXCEPT !.pending = "none", !.connDone = TRUE, !.armed = FALSE,
                            !.wifiConn = TRUE, !.tcpConn = TRUE, !.state = "CONNECT"]
          BY <2>2, <3>2 DEF PC!OnAckFrame
        <4> HIDE DEF t
        <4> QED
          BY <4>1, HostUpdates, Zenon DEF PC!LinkState
      <3>3. CASE f.tag = "disconnect_ack"
        <4>1. t = [s EXCEPT !.tcpConn = FALSE, !.armed = FALSE, !.state = "DISCONNECT"]
          BY <2>2, <3>3 DEF PC!OnAckFrame
        <4> HIDE DEF t
        <4> QED
          BY <4>1, HostUpdates, Zenon DEF PC!LinkState
      <3>4. CASE f.tag = "initialize_ack"
        <4>1. t = [s EXCEPT !.wifiReady = TRUE, !.wifiConn = FALSE, !.tcpConn = FALSE,
                            !.initDone = TRUE, !.state = "INITIALIZE"]
          BY <2>2, <3>4 DEF PC!OnAckFrame
        <4> HIDE DEF t
        <4> QED
          BY <4>1, HostUpdates, Zenon DEF PC!LinkState
      <3>5. CASE f.tag = "reset_ack"
        <4>1. PICK c \in PC!Runtime : c = PC!ClearRuntimeFlow(s)
          BY ClearFacts
        <4>2. t = [c EXCEPT !.wifiReady = FALSE, !.wifiConn = FALSE, !.tcpConn = FALSE,
                            !.state = "RESET"]
          BY <2>2, <3>5, <4>1 DEF PC!OnAckFrame
        <4> HIDE DEF t
        <4> QED
          BY <4>1, <4>2, HostUpdates, Zenon DEF PC!LinkState
      <3> QED
        BY <1>4, <3>1, <3>2, <3>3, <3>4, <3>5
    <2>4. t.state \in {"CONNECT", "DISCONNECT", "INITIALIZE", "RESET"}
          /\ t.out = s.out /\ t.port = s.port
      BY <1>4, <2>2 DEF PC!OnAckFrame, PC!ClearRuntimeFlow, PC!Runtime
    <2> HIDE DEF t
    <2> QED
      BY <2>1, <2>3, <2>4 DEF Keepalive, C3!Keepalive, t
  <1> QED
    BY <1>1, <1>2, <1>3, <1>4 DEF Heard

LEMMA FirstFacts ==
  ASSUME NEW q \in Seq(LineFrame)
  PROVE  /\ First(q, 0) = <<>> /\ First(q, Len(q)) = q
         /\ \A n \in 0 .. Len(q) : First(q, n) \in Seq(LineFrame) /\ Len(First(q, n)) = n
         /\ \A n \in 1 .. Len(q) : First(q, n) = Append(First(q, n - 1), q[n])
  <1>1. \A n \in 0 .. Len(q) : First(q, n) \in Seq(LineFrame) /\ Len(First(q, n)) = n
    BY DEF First
  <1>2. First(q, 0) = <<>>
    BY DEF First
  <1>3. First(q, Len(q)) = q
    BY DEF First
  <1>4. ASSUME NEW n \in 1 .. Len(q)
        PROVE  First(q, n) = Append(First(q, n - 1), q[n])
    BY DEF First
  <1> QED
    BY <1>1, <1>2, <1>3, <1>4

(* The attributes after each of the first frames. *)
Trace(g, s, q, k) ==
  g = [i \in 0 .. Len(q) |-> IF i = 0 THEN s ELSE PC!OnFrame(g[i - 1], q[i], i <= k)]

LEMMA TraceExists ==
  ASSUME NEW s \in PC!Runtime, NEW q \in Seq(LineFrame), NEW k \in Nat
  PROVE  \E g : Trace(g, s, q, k)
  <1> DEFINE F == [n \in 1 .. Len(q) |-> [r \in PC!Runtime |-> PC!OnFrame(r, q[n], n <= k)]]
  <1>1. Len(q) \in Nat /\ \A n \in 1 .. Len(q) : q[n] \in LineFrame /\ (n <= k) \in BOOLEAN
    OBVIOUS
  <1>2. F \in [1 .. Len(q) -> [PC!Runtime -> PC!Runtime]]
    BY <1>1, FrameFacts
  <1>3. PICK g \in [0 .. Len(q) -> PC!Runtime] :
          g[0] = s /\ \A n \in 1 .. Len(q) : g[n] = F[n][g[n - 1]]
    <2> HIDE DEF F
    <2>1. \E g : Rounds(g, PC!Runtime, s, Len(q), F)
      BY <1>1, <1>2, Iterates
    <2> QED
      BY <2>1 DEF Rounds
  <1>4. ASSUME NEW n \in 1 .. Len(q)
        PROVE  g[n] = PC!OnFrame(g[n - 1], q[n], n <= k)
    <2>1. n - 1 \in 0 .. Len(q)
      BY <1>1
    <2>2. g[n - 1] \in PC!Runtime
      BY <1>3, <2>1
    <2>3. F[n][g[n - 1]] = PC!OnFrame(g[n - 1], q[n], n <= k)
      BY <2>2
    <2> QED
      BY <1>3, <2>3
  <1>5. \A i \in 0 .. Len(q) : g[i] = IF i = 0 THEN s ELSE PC!OnFrame(g[i - 1], q[i], i <= k)
    BY <1>1, <1>3, <1>4
  <1>6. g = [i \in 0 .. Len(q) |-> g[i]]
    BY <1>3
  <1>7. Trace(g, s, q, k)
    BY <1>5, <1>6 DEF Trace
  <1> QED
    BY <1>7

(* The state after a poll is the one EndsInKeepalive foresees. *)
LEMMA HandleAllFacts ==
  ASSUME NEW s \in PC!Runtime, NEW q \in Seq(LineFrame), NEW k \in Nat
  PROVE  LET t == PC!HandleAll(s, q, k) IN
         /\ t \in PC!Runtime /\ t.out = s.out /\ t.port = s.port
         /\ t.state \in Keepalive <=> EndsInKeepalive(s.state \in Keepalive, q)
  <1> DEFINE g == CHOOSE l : Trace(l, s, q, k)
             ka == s.state \in Keepalive
             Holds(n) == /\ g[n] \in PC!Runtime /\ g[n].out = s.out /\ g[n].port = s.port
                         /\ g[n].state \in Keepalive <=> EndsInKeepalive(ka, First(q, n))
             T == {n \in 0 .. Len(q) : Holds(n)}
  <1>1. Len(q) \in Nat
    OBVIOUS
  <1>2. Trace(g, s, q, k)
    BY TraceExists
  <1>3. PC!HandleAll(s, q, k) = g[Len(q)]
    BY DEF PC!HandleAll, Trace
  <1> HIDE DEF g
  <1>4. \A i \in 0 .. Len(q) : g[i] = IF i = 0 THEN s ELSE PC!OnFrame(g[i - 1], q[i], i <= k)
    BY <1>2 DEF Trace
  <1>5. Holds(0)
    <2>1. g[0] = s /\ First(q, 0) = <<>>
      BY <1>1, <1>4, FirstFacts
    <2>2. EndsInKeepalive(ka, <<>>) <=> ka
      BY DEF EndsInKeepalive
    <2> QED
      BY <2>1, <2>2
  <1>6. ASSUME NEW n \in 1 .. Len(q), Holds(n - 1)
        PROVE  Holds(n)
    <2> DEFINE p == First(q, n - 1)
    <2>1. n - 1 \in 0 .. Len(q) /\ n \in 0 .. Len(q) /\ n # 0 /\ q[n] \in LineFrame
          /\ (n <= k) \in BOOLEAN /\ ka \in BOOLEAN
      BY <1>1
    <2>2. g[n] = PC!OnFrame(g[n - 1], q[n], n <= k)
      BY <1>4, <2>1
    <2>3. /\ g[n] \in PC!Runtime /\ g[n].out = g[n - 1].out /\ g[n].port = g[n - 1].port
          /\ g[n].state \in Keepalive <=>
               Confirms(q[n]) \/ (g[n - 1].state \in Keepalive /\ q[n].tag \notin Reports)
      <3>1. PICK o \in BOOLEAN : o = (n <= k)
        BY <2>1
      <3>2. PICK r \in PC!Runtime, f \in LineFrame : r = g[n - 1] /\ f = q[n]
        BY <1>6, <2>1
      <3>3. g[n] = PC!OnFrame(r, f, o)
        BY <2>2, <3>1, <3>2
      <3> QED
        BY <3>2, <3>3, FrameFacts
    <2>4. First(q, n) = Append(p, q[n]) /\ p \in Seq(LineFrame)
      BY <2>1, FirstFacts
    <2> HIDE DEF ka
    <2>5. EndsInKeepalive(ka, First(q, n)) <=>
            Confirms(q[n]) \/ (EndsInKeepalive(ka, p) /\ q[n].tag \notin Reports)
      BY <2>1, <2>4, EndsAppend
    <2> QED
      BY <1>6, <2>3, <2>5
  <1> HIDE DEF ka, Holds
  <1>7. 0 \in T
    BY <1>1, <1>5
  <1>8. ASSUME NEW n \in 1 .. Len(q), n - 1 \in T
        PROVE  n \in T
    BY <1>1, <1>6, <1>8
  <1> HIDE DEF T
  <1>9. 0 .. Len(q) \subseteq T
    BY <1>1, <1>7, <1>8, BoundedInduction
  <1>10. Holds(Len(q))
    BY <1>1, <1>9 DEF T
  <1> QED
    BY <1>3, <1>10, FirstFacts DEF Holds, ka

(* What is left on the line after its first frames were handled, or lost. *)
LEMMA EndsFrom ==
  ASSUME NEW q \in Seq(LineFrame), NEW n \in 0 .. Len(q), NEW ka \in BOOLEAN,
         NEW now \in BOOLEAN, now => EndsInKeepalive(ka, First(q, n)),
         EndsInKeepalive(now, From(q, n))
  PROVE  EndsInKeepalive(ka, q) /\ From(q, n) \in Seq(LineFrame)
  <1> DEFINE p == First(q, n)
             r == From(q, n)
  <1>1. /\ Len(q) \in Nat /\ DOMAIN q = 1 .. Len(q) /\ DOMAIN p = 1 .. n
        /\ DOMAIN r = 1 .. (Len(q) - n) /\ r \in Seq(LineFrame)
        /\ \A i \in 1 .. n : p[i] = q[i]
    BY DEF First, From
  <1>2. ASSUME NEW j \in 1 .. Len(q), j > n
        PROVE  j - n \in DOMAIN r /\ r[j - n] = q[j]
    BY <1>1, <1>2 DEF From
  <1>3. ASSUME NEW i \in DOMAIN r
        PROVE  n + i \in DOMAIN q /\ r[i] = q[n + i] /\ n + i > n
    BY <1>1, <1>3 DEF From
  <1> HIDE DEF p, r
  <1>4. CASE \E i \in DOMAIN r : /\ Confirms(r[i])
                                 /\ \A j \in DOMAIN r : j > i => r[j].tag \notin Reports
    <2>1. PICK i \in DOMAIN r : /\ Confirms(r[i])
                                /\ \A j \in DOMAIN r : j > i => r[j].tag \notin Reports
      BY <1>4
    <2>2. n + i \in DOMAIN q /\ Confirms(q[n + i])
      BY <1>3, <2>1
    <2>3. ASSUME NEW j \in DOMAIN q, j > n + i
          PROVE  q[j].tag \notin Reports
      <3>1. i \in Nat /\ j \in 1 .. Len(q) /\ j > n /\ j - n > i
        BY <1>1, <2>3
      <3> QED
        BY <1>2, <2>1, <3>1
    <2>4. EndsInKeepalive(ka, q)
      BY <2>2, <2>3 DEF EndsInKeepalive
    <2> QED
      BY <1>1, <2>4 DEF r
  <1>5. CASE now /\ \A i \in DOMAIN r : r[i].tag \notin Reports
    <2>1. \A j \in DOMAIN q : j > n => q[j].tag \notin Reports
      BY <1>1, <1>2, <1>5
    <2>2. \A j \in DOMAIN q : j > n \/ j \in DOMAIN p
      BY <1>1
    <2>3. EndsInKeepalive(ka, p)
      BY <1>5 DEF p
    <2>4. CASE ka /\ \A i \in DOMAIN p : p[i].tag \notin Reports
      <3>1. \A j \in DOMAIN q : q[j].tag \notin Reports
        BY <1>1, <2>1, <2>2, <2>4
      <3> QED
        BY <1>1, <2>4, <3>1 DEF EndsInKeepalive, r
    <2>5. CASE \E i \in DOMAIN p : /\ Confirms(p[i])
                                   /\ \A j \in DOMAIN p : j > i => p[j].tag \notin Reports
      <3>1. PICK i \in DOMAIN p : /\ Confirms(p[i])
                                  /\ \A j \in DOMAIN p : j > i => p[j].tag \notin Reports
        BY <2>5
      <3>2. i \in DOMAIN q /\ Confirms(q[i])
        BY <1>1, <3>1
      <3>3. \A j \in DOMAIN q : j > i => q[j].tag \notin Reports
        BY <1>1, <2>1, <2>2, <3>1
      <3> QED
        BY <1>1, <3>2, <3>3 DEF EndsInKeepalive, r
    <2> QED
      BY <2>3, <2>4, <2>5 DEF EndsInKeepalive
  <1> QED
    BY <1>4, <1>5 DEF EndsInKeepalive, r

-----------------------------------------------------------------------------
(* The steps of the host. *)

LEMMA HostDoesKeeps ==
  ASSUME LinkInv, NEW s \in PC!Runtime, NEW n \in 0 .. Len(toHost), HostDoes(s, n),
         opening' \in BOOLEAN, toBridge' \in Seq(Orders),
         s.port /\ EndsInKeepalive(~ opening' /\ s.state \in Keepalive, From(toHost, n))
           => h.port /\ EndsInKeepalive(~ opening /\ h.state \in Keepalive, toHost)
  PROVE  LinkInv'
  <1>1. /\ h' = PC!FreshOut(s) /\ b' = b /\ ended' = ended
        /\ toHost' = IF s.port THEN From(toHost, n) ELSE <<>>
    BY DEF HostDoes
  <1>2. h' \in PC!Runtime /\ h'.out = <<>> /\ h'.port = s.port /\ h'.state = s.state
    <2>1. <<>> \in Seq(PC!Command)
      OBVIOUS
    <2> QED
      BY <1>1, <2>1 DEF PC!FreshOut, PC!Runtime
  <1>3. toHost \in Seq(LineFrame) /\ From(toHost, n) \in Seq(LineFrame) /\ <<>> \in Seq(LineFrame)
    BY DEF LinkInv, LineSide, From
  <1>4. LineSide'
    BY <1>1, <1>2, <1>3 DEF LineSide
  <1>5. HostSide'
    BY <1>2 DEF HostSide
  <1>6. BridgeSide'
    BY <1>1 DEF LinkInv, BridgeSide
  <1>7. SessionUp(b') <=> SessionUp(b)
    BY <1>1
  <1>8. NoGhostComing'
    <2>1. SessionUp(b') => ended' = "not" /\ (b'.stream \/ (b'.server = 0 /\ b'.client = 1))
      BY <1>1 DEF LinkInv, NoGhostComing
    <2>2. ASSUME h'.port, EndsInKeepalive(~ opening' /\ h'.state \in Keepalive, toHost')
          PROVE  (SessionUp(b') /\ b'.stream) \/ ended' \in Unreported
      <3>1. s.port /\ EndsInKeepalive(~ opening' /\ s.state \in Keepalive, From(toHost, n))
        BY <1>1, <1>2, <2>2
      <3>2. h.port /\ EndsInKeepalive(~ opening /\ h.state \in Keepalive, toHost)
        BY <3>1
      <3> QED
        BY <1>1, <3>2 DEF LinkInv, NoGhostComing
    <2> QED
      BY <2>1, <2>2 DEF NoGhostComing
  <1> QED
    BY <1>1, <1>4, <1>5, <1>6, <1>8 DEF LinkInv

(* A step that leaves the host out of keepalive, or a reset to come: what   *)
(* is left on the line decides, and it was on the line before.              *)
LEMMA OutOfKeepalive ==
  ASSUME LinkInv, NEW n \in 0 .. Len(toHost), NEW ka,
         ~ ka, EndsInKeepalive(ka, From(toHost, n))
  PROVE  EndsInKeepalive(~ opening /\ h.state \in Keepalive, toHost)
  <1>1. toHost \in Seq(LineFrame)
    BY DEF LinkInv, LineSide
  <1>2. PICK now \in BOOLEAN : now = (~ opening /\ h.state \in Keepalive)
    OBVIOUS
  <1>3. EndsInKeepalive(FALSE, From(toHost, n))
    BY DEF EndsInKeepalive
  <1>4. EndsInKeepalive(now, toHost)
    BY <1>1, <1>3, EndsFrom
  <1> QED
    BY <1>2, <1>4

\* Membership has a truth value, to name it by.
LEMMA Truth ==
  ASSUME NEW x, NEW S
  PROVE  \E t \in BOOLEAN : t = (x \in S)
  <1>1. CASE x \in S
    <2>1. TRUE = (x \in S)
      BY <1>1
    <2> QED
      BY <2>1
  <1>2. CASE x \notin S
    <2>1. FALSE = (x \in S)
      BY <1>2
    <2> QED
      BY <2>1
  <1> QED
    BY <1>1, <1>2

LEMMA PollsKeeps ==
  ASSUME LinkInv, NEW call \in {"get_snapshot", "initialize"}, NEW n \in 0 .. Len(toHost),
         NEW ok \in BOOLEAN, HostPolls(call, n, ok)
  PROVE  LinkInv'
  <1> DEFINE p == First(toHost, n)
             a == PC!HandleAll(h, p, n)
             s == PC!Body(call, a, ok)
  <1>1. toHost \in Seq(LineFrame) /\ p \in Seq(LineFrame) /\ n \in Nat /\ h \in PC!Runtime
        /\ h.out = <<>> /\ toBridge \in Seq(Orders) /\ opening \in BOOLEAN
    BY FirstFacts DEF LinkInv, LineSide, HostSide
  <1>2. HostDoes(s, n) /\ toBridge' = toBridge \o s.out /\ opening' = opening
    BY DEF HostPolls, Delivered
  <1> HIDE DEF p
  <1>3. /\ a \in PC!Runtime /\ a.out = h.out /\ a.port = h.port
        /\ a.state \in Keepalive <=> EndsInKeepalive(h.state \in Keepalive, p)
    BY <1>1, HandleAllFacts
  <1> HIDE DEF a
  <1>4. Calms(s, a)
    BY <1>3, BodyCalms
  <1> HIDE DEF s
  <1>5. s \in PC!Runtime /\ s.out \in Seq(Orders)
    <2>1. a.out \in Seq(Orders)
      BY <1>1, <1>3
    <2> QED
      BY <1>4, <2>1 DEF Calms
  <1>6. toBridge' \in Seq(Orders)
    BY <1>1, <1>2, <1>5
  <1>7. ASSUME s.port, EndsInKeepalive(~ opening /\ s.state \in Keepalive, From(toHost, n))
        PROVE  h.port /\ EndsInKeepalive(~ opening /\ h.state \in Keepalive, toHost)
    <2>1. h.port
      BY <1>3, <1>4, <1>7 DEF Calms
    <2>2. CASE opening
      BY <1>7, <2>1, <2>2, OutOfKeepalive
    <2>3. CASE ~ opening
      <3>1. PICK ka \in BOOLEAN : ka = (h.state \in Keepalive)
        BY Truth
      <3>a. PICK now \in BOOLEAN : now = (s.state \in Keepalive)
        BY Truth
      <3>2. now => EndsInKeepalive(ka, First(toHost, n))
        BY <1>3, <1>4, <3>1, <3>a DEF Calms, p
      <3>3. (~ opening /\ s.state \in Keepalive) = now /\ (~ opening /\ h.state \in Keepalive) = ka
        BY <2>3, <3>1, <3>a
      <3>4. EndsInKeepalive(now, From(toHost, n))
        BY <1>7, <3>3
      <3>5. EndsInKeepalive(ka, toHost)
        BY <1>1, <3>2, <3>4, EndsFrom
      <3> QED
        BY <2>1, <3>3, <3>5
    <2> QED
      BY <1>1, <2>2, <2>3
  <1> QED
    BY <1>1, <1>2, <1>5, <1>6, <1>7, HostDoesKeeps

LEMMA ResetWithKeeps ==
  ASSUME LinkInv, NEW ok \in BOOLEAN, ResetWith(ok), opening' \in BOOLEAN
  PROVE  LinkInv'
  <1> DEFINE s == PC!DoReset(h, ok)
  <1>1. h \in PC!Runtime /\ h.out \in Seq(Orders) /\ toBridge \in Seq(Orders)
        /\ toHost \in Seq(LineFrame)
    BY DEF LinkInv, LineSide, HostSide
  <1>2. PICK n \in 0 .. Len(toHost) : HostDoes(s, n)
    BY DEF ResetWith
  <1>3. PICK m \in 0 .. Len(toBridge) : toBridge' = First(toBridge, m) \o s.out
    BY DEF ResetWith
  <1>4. Calms(s, h) /\ s.state \notin Keepalive
    BY <1>1, DoResetCalms
  <1> HIDE DEF s
  <1>5. s \in PC!Runtime /\ s.out \in Seq(Orders) /\ (s.port => h.port)
    BY <1>1, <1>4 DEF Calms
  <1>6. First(toBridge, m) \in Seq(Orders)
    BY <1>1 DEF First
  <1>7. toBridge' \in Seq(Orders)
    BY <1>3, <1>5, <1>6
  <1>8. EndsInKeepalive(~ opening' /\ s.state \in Keepalive, From(toHost, n))
          => EndsInKeepalive(~ opening /\ h.state \in Keepalive, toHost)
    BY <1>4, OutOfKeepalive
  <1> QED
    BY <1>2, <1>5, <1>7, <1>8, HostDoesKeeps

LEMMA TogglesKeeps ==
  ASSUME LinkInv, NEW ok \in BOOLEAN, HostTogglesWifi(ok)
  PROVE  LinkInv'
  <1> DEFINE s == PC!DoToggleWifi(h, ok)
  <1>1. h \in PC!Runtime /\ h.out \in Seq(Orders) /\ toBridge \in Seq(Orders)
        /\ opening \in BOOLEAN /\ toHost \in Seq(LineFrame)
    BY DEF LinkInv, LineSide, HostSide
  <1>2. HostDoes(s, 0) /\ toBridge' = toBridge \o s.out /\ opening' = opening
    BY DEF HostTogglesWifi, Delivered
  <1>3. Calms(s, h) /\ s.state \notin Keepalive
    BY <1>1, DoToggleWifiCalms DEF Keepalive, C3!Keepalive
  <1> HIDE DEF s
  <1>4. s \in PC!Runtime /\ s.out \in Seq(Orders) /\ (s.port => h.port)
    BY <1>1, <1>3 DEF Calms
  <1>5. toBridge' \in Seq(Orders) /\ 0 \in 0 .. Len(toHost)
    BY <1>1, <1>2, <1>4
  <1>6. EndsInKeepalive(~ opening' /\ s.state \in Keepalive, From(toHost, 0))
          => EndsInKeepalive(~ opening /\ h.state \in Keepalive, toHost)
    BY <1>3, <1>5, OutOfKeepalive
  <1> QED
    BY <1>1, <1>2, <1>4, <1>5, <1>6, HostDoesKeeps

LEMMA OpensKeeps ==
  ASSUME LinkInv, HostOpens
  PROVE  LinkInv'
  <1>1. h \in PC!Runtime /\ toBridge' \in Seq(Orders) /\ opening \in BOOLEAN
        /\ toHost = <<>> /\ ~ h.port /\ 0 \in 0 .. Len(toHost)
    BY DEF LinkInv, LineSide, HostSide, HostOpens
  <1>2. CASE HostDoes([h EXCEPT !.port = TRUE], 0) /\ opening' = TRUE
    <2> DEFINE s == [h EXCEPT !.port = TRUE]
    <2>1. s \in PC!Runtime
      BY <1>1 DEF PC!Runtime
    <2> HIDE DEF s
    <2>2. From(toHost, 0) = <<>>
      BY <1>1 DEF From
    <2>3. ~ EndsInKeepalive(~ opening' /\ s.state \in Keepalive, From(toHost, 0))
      BY <1>2, <2>2 DEF EndsInKeepalive
    <2>4. HostDoes(s, 0) /\ opening' \in BOOLEAN
      BY <1>2 DEF s
    <2> QED
      BY <1>1, <2>1, <2>3, <2>4, HostDoesKeeps
  <1>3. CASE HostDoes(PC!SetRuntimeFault(h), 0) /\ opening' = opening
    <2> DEFINE s == PC!SetRuntimeFault(h)
    <2>1. s \in PC!Runtime /\ ~ s.port
      BY <1>1, FaultCalms DEF Calms
    <2> HIDE DEF s
    <2>2. HostDoes(s, 0) /\ opening' \in BOOLEAN
      BY <1>1, <1>3 DEF s
    <2> QED
      BY <1>1, <2>1, <2>2, HostDoesKeeps
  <1> QED
    BY <1>2, <1>3 DEF HostOpens

LEMMA PortGoesKeeps ==
  ASSUME LinkInv, PortGoes
  PROVE  LinkInv'
  <1>1. h \in PC!Runtime /\ toBridge \in Seq(Orders) /\ opening' \in BOOLEAN
        /\ toHost \in Seq(LineFrame)
    BY DEF LinkInv, LineSide, HostSide, PortGoes
  <1>2. toBridge' \in Seq(Orders)
    <2>1. PICK m \in 0 .. Len(toBridge) : toBridge' = First(toBridge, m)
      BY DEF PortGoes
    <2> QED
      BY <1>1, <2>1 DEF First
  <1>3. PICK s \in {PC!DoClose(h), [PC!DoClose(h) EXCEPT !.fault = FALSE], [h EXCEPT !.port = FALSE]} :
          HostDoes(s, 0)
    BY DEF PortGoes
  <1>4. [h EXCEPT !.port = FALSE] \in PC!Runtime /\ ~ [h EXCEPT !.port = FALSE].port
    BY <1>1 DEF PC!Runtime
  <1>5. s \in PC!Runtime /\ ~ s.port
    BY <1>1, <1>3, <1>4, DoCloseFacts
  <1>6. 0 \in 0 .. Len(toHost)
    BY <1>1
  <1> QED
    BY <1>1, <1>2, <1>3, <1>5, <1>6, HostDoesKeeps

LEMMA BootStateFacts ==
  /\ Typed(C3!BootState) /\ C3!BootState.usb = <<>> /\ C3!BootState.retry = 0
  /\ ~ C3!BootState.conn
  <1>1. <<>> \in Seq(C3!UsbFrame) /\ <<>> \in Seq(ShapedFrames)
    OBVIOUS
  <1> QED
    BY <1>1, Small DEF C3!BootState, Typed, C3!Statics, C3!State

LEMMA RebootsKeeps ==
  ASSUME LinkInv, BridgeReboots
  PROVE  LinkInv'
  <1>1. /\ b' = C3!BootState /\ h' = [h EXCEPT !.port = FALSE] /\ opening' = opening
        /\ toHost' = <<>> /\ toBridge' = <<>> /\ ended' = "reboot"
    BY DEF BridgeReboots
  <1>2. BridgeSide'
    BY <1>1, BootStateFacts, LinkConstants DEF BridgeSide
  <1>3. h' \in PC!Runtime /\ h'.out = <<>> /\ ~ h'.port
    BY <1>1 DEF LinkInv, HostSide, PC!Runtime
  <1>4. HostSide' /\ LineSide' /\ ended' \in Causes
    <2>1. <<>> \in Seq(LineFrame) /\ <<>> \in Seq(Orders)
      OBVIOUS
    <2>2. opening \in BOOLEAN
      BY DEF LinkInv, HostSide
    <2>3. HostSide'
      BY <1>1, <1>3, <2>2 DEF HostSide
    <2>4. LineSide'
      BY <1>1, <2>1 DEF LineSide
    <2> QED
      BY <1>1, <2>3, <2>4 DEF Causes
  <1>5. ~ SessionUp(b')
    BY <1>1, BootStateFacts DEF SessionUp
  <1>6. NoGhostComing'
    BY <1>3, <1>5 DEF NoGhostComing
  <1> QED
    BY <1>2, <1>4, <1>6 DEF LinkInv

-----------------------------------------------------------------------------
LEMMA LinkInvInit ==
  ASSUME LinkInit
  PROVE  LinkInv
  <1>1. b = C3!BootState /\ opening = FALSE /\ toHost = <<>> /\ toBridge = <<>> /\ ended = "not"
    BY DEF LinkInit, C3!Init
  <1>2. h \in PC!Runtime /\ h.out = <<>> /\ ~ h.port
    <2>1. <<>> \in Seq(PC!Command)
      OBVIOUS
    <2> QED
      BY <2>1 DEF LinkInit, PC!HostInit, PC!Runtime, PC!LinkState
  <1>3. BridgeSide
    BY <1>1, BootStateFacts, LinkConstants DEF BridgeSide
  <1>4. HostSide /\ LineSide /\ ended \in Causes
    <2>1. <<>> \in Seq(LineFrame) /\ <<>> \in Seq(Orders)
      OBVIOUS
    <2> QED
      BY <1>1, <1>2, <2>1 DEF HostSide, LineSide, Causes
  <1>5. NoGhostComing
    BY <1>1, <1>2, BootStateFacts DEF NoGhostComing, SessionUp
  <1> QED
    BY <1>3, <1>4, <1>5 DEF LinkInv

LEMMA LinkInvNext ==
  ASSUME LinkInv, [LinkNext]_linkVars
  PROVE  LinkInv'
  <1>1. CASE HostStep
    <2>1. CASE HostOpens
      BY <2>1, OpensKeeps
    <2>2. CASE PortGoes
      BY <2>2, PortGoesKeeps
    <2>3. ASSUME NEW ok \in BOOLEAN, HostResets(ok) \/ OpenResets(ok)
          PROVE  LinkInv'
      <3>1. ResetWith(ok) /\ opening' \in BOOLEAN
        BY <2>3 DEF HostResets, OpenResets, LinkInv, HostSide
      <3> QED
        BY <3>1, ResetWithKeeps
    <2>4. ASSUME NEW ok \in BOOLEAN, HostTogglesWifi(ok)
          PROVE  LinkInv'
      BY <2>4, TogglesKeeps
    <2>5. ASSUME NEW ok \in BOOLEAN, NEW n \in 0 .. Len(toHost),
                 HostPolls("get_snapshot", n, ok) \/ HostPolls("initialize", n, ok)
          PROVE  LinkInv'
      BY <2>5, PollsKeeps
    <2> QED
      BY <1>1, <2>1, <2>2, <2>3, <2>4, <2>5 DEF HostStep
  <1>2. CASE BridgeStep
    <2>1. toBridge' \in Seq(Orders)
      BY <1>2 DEF BridgeStep, LinkInv, LineSide
    <2>2. CASE BridgeBoots
      BY <2>1, <2>2, BootsKeeps
    <2>3. CASE ClientGoes
      BY <2>1, <2>3, ClientGoesKeeps
    <2>4. ASSUME NEW ok \in BOOLEAN,
                 TakesClient(ok) \/ EngineRuns(ok) \/ WatchdogRuns(ok) \/ ClientSpeaks(ok)
          PROVE  LinkInv'
      BY <2>1, <2>4, TakesClientKeeps, EngineKeeps, WatchdogKeeps, ClientSpeaksKeeps
    <2> QED
      BY <1>2, <2>2, <2>3, <2>4 DEF BridgeStep
  <1>3. CASE BridgeObeys
    BY <1>3, ObeysKeeps
  <1>4. CASE BridgeReboots
    BY <1>4, RebootsKeeps
  <1>5. CASE UNCHANGED linkVars
    <2>1. h' = h /\ opening' = opening /\ b' = b /\ toHost' = toHost /\ toBridge' = toBridge
          /\ ended' = ended
      BY <1>5 DEF linkVars
    <2> QED
      BY <2>1 DEF LinkInv, HostSide, BridgeSide, LineSide, NoGhostComing
  <1> QED
    BY <1>1, <1>2, <1>3, <1>4, <1>5 DEF LinkNext

LEMMA LinkInvariant == LinkSpec => []LinkInv
  BY LinkInvInit, LinkInvNext, PTL DEF LinkSpec

(* Every step of the composition keeps the types of both records and of     *)
(* the line, for every width of the counters and any number of frames.      *)
THEOREM LinkTypeCorrect == LinkSpec => []LinkTypeOK
  <1>1. ASSUME LinkInv
        PROVE  LinkTypeOK
    <2>1. toHost \in Seq(PC!Frame)
      <3>1. toHost \in Seq(LineFrame) /\ LineFrame \subseteq PC!Frame
        BY <1>1 DEF LinkInv, LineSide, LineFrame
      <3> QED
        BY <3>1
    <2> QED
      BY <1>1, <2>1
      DEF LinkInv, HostSide, BridgeSide, LineSide, Typed, LinkTypeOK, Orders, Causes
  <1> QED
    BY <1>1, LinkInvariant, PTL

(* What is on the line never takes the host into a keepalive state that     *)
(* nobody will take it out of.                                              *)
THEOREM NoGhostOnTheLine == LinkSpec => []NoGhostComing
  <1>1. LinkInv => NoGhostComing
    BY DEF LinkInv
  <1> QED
    BY <1>1, LinkInvariant, PTL

(* Once everything under way was handled, a host in a keepalive state has a *)
(* session at the other end, unless that session ended in the handler of a  *)
(* client's frame, with a failed keepalive request, or with an INITIALIZE   *)
(* of the host's, which the bridge refuses: whatever the order of polls,    *)
(* resets, reopenings, reboots, toggles, retries and closed clients.        *)
THEOREM NoGhostSessions == LinkSpec => []NoGhostAfterReport
  <1>1. ASSUME LinkInv
        PROVE  NoGhostAfterReport
    <2> SUFFICES ASSUME Settled, h.state \in Keepalive, ~ SessionUp(b)
                 PROVE  ended \in Unreported
      BY DEF NoGhostAfterReport, Ghost
    <2>1. h.port /\ ~ opening /\ toHost = <<>>
      BY DEF Settled
    <2>2. EndsInKeepalive(~ opening /\ h.state \in Keepalive, toHost)
      BY <2>1 DEF EndsInKeepalive
    <2> QED
      BY <1>1, <2>1, <2>2 DEF LinkInv, NoGhostComing
  <1> QED
    BY <1>1, LinkInvariant, PTL

=============================================================================
