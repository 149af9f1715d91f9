---------------------------- MODULE UplinkProofs ----------------------------
(***************************************************************************)
(* Proofs about UplinkPath, for every list of frames, every depth of the   *)
(* FIFO, chunks of every size and any number of faults.                    *)
(***************************************************************************)
EXTENDS UplinkPath, Iteration, FiniteSetTheorems

HostFrame == [type : MessageType, payload : Seq(Byte)]

(* The states of decode_frames. *)
Decoding == [left : Seq(Byte), got : Seq(HostFrame), loop : {"on", "ended", "raised"}]

-----------------------------------------------------------------------------
(* Sequences. *)

LEMMA DropFacts ==
  ASSUME NEW S, NEW s \in Seq(S), NEW k \in 0 .. Len(s)
  PROVE  /\ Drop(s, k) \in Seq(S) /\ Len(Drop(s, k)) = Len(s) - k
         /\ DOMAIN Drop(s, k) = 1 .. (Len(s) - k)
         /\ \A i \in 1 .. (Len(s) - k) : Drop(s, k)[i] = s[i + k]
  <1>1. Len(s) \in Nat /\ k + 1 \in 1 .. (Len(s) + 1)
    OBVIOUS
  <1> QED
    BY <1>1 DEF Drop

LEMMA TakeFacts ==
  ASSUME NEW S, NEW s \in Seq(S), NEW k \in 0 .. Len(s)
  PROVE  /\ SubSeq(s, 1, k) \in Seq(S) /\ Len(SubSeq(s, 1, k)) = k
         /\ DOMAIN SubSeq(s, 1, k) = 1 .. k
         /\ \A i \in 1 .. k : SubSeq(s, 1, k)[i] = s[i]
  OBVIOUS

LEMMA ConcatFacts ==
  ASSUME NEW S, NEW s \in Seq(S), NEW t \in Seq(S)
  PROVE  /\ s \o t \in Seq(S) /\ Len(s \o t) = Len(s) + Len(t)
         /\ DOMAIN (s \o t) = 1 .. (Len(s) + Len(t))
         /\ \A i \in 1 .. Len(s) : (s \o t)[i] = s[i]
         /\ \A i \in 1 .. Len(t) : (s \o t)[i + Len(s)] = t[i]
  OBVIOUS

LEMMA AppendFacts ==
  ASSUME NEW S, NEW s \in Seq(S), NEW x \in S
  PROVE  /\ Append(s, x) \in Seq(S) /\ Len(Append(s, x)) = Len(s) + 1
         /\ DOMAIN Append(s, x) = 1 .. (Len(s) + 1)
         /\ \A i \in 1 .. Len(s) : Append(s, x)[i] = s[i]
         /\ Append(s, x)[Len(s) + 1] = x
  OBVIOUS

(* The least element of a set of numbers. *)
LEMMA MinFacts ==
  ASSUME NEW T \in SUBSET Nat, T # {}
  PROVE  Min(T) \in T
  BY LeastNat DEF Min

-----------------------------------------------------------------------------
(* The decoder. *)

(* buffer.find(SOF) leaves a suffix of the buffer. *)
LEMMA AlignFacts ==
  ASSUME NEW s \in Seq(Byte)
  PROVE  \E k \in 0 .. Len(s) : Align(s) = Drop(s, k)
  <1>1. Len(s) \in Nat
    OBVIOUS
  <1>2. CASE Starts(s) = {}
    <2>1. Len(s) \in 0 .. Len(s)
      BY <1>1
    <2>2. Drop(s, Len(s)) \in Seq(Byte) /\ Len(Drop(s, Len(s))) = 0
      BY <1>1, <2>1, DropFacts
    <2>3. Drop(s, Len(s)) = <<>>
      BY <2>2
    <2> QED
      BY <1>2, <2>1, <2>3 DEF Align
  <1>3. CASE Starts(s) # {}
    <2>1. Starts(s) \in SUBSET (1 .. Len(s)) /\ Starts(s) \in SUBSET Nat
      BY <1>1 DEF Starts
    <2>2. Min(Starts(s)) \in 1 .. Len(s)
      BY <1>3, <2>1, MinFacts
    <2>3. Min(Starts(s)) - 1 \in 0 .. Len(s)
      BY <1>1, <2>2
    <2> QED
      BY <1>3, <2>3 DEF Align
  <1> QED
    BY <1>2, <1>3

(* What a pass finds once it neither waits nor has ended. *)
LEMMA PacketFacts ==
  ASSUME NEW buf \in Seq(Byte), Len(buf) >= HeaderSize + CrcSize, Len(buf) >= FrameEnd(buf)
  PROVE  /\ FrameEnd(buf) \in 5 .. Len(buf)
         /\ SubSeq(buf, 1, FrameEnd(buf)) \in Seq(Byte)
         /\ SubSeq(buf, 1, FrameEnd(buf))[3] = buf[3]
         /\ SubSeq(SubSeq(buf, 1, FrameEnd(buf)), 5, FrameEnd(buf) - 1) \in Seq(Byte)
         /\ Len(SubSeq(SubSeq(buf, 1, FrameEnd(buf)), 5, FrameEnd(buf) - 1)) = FrameEnd(buf) - 5
         /\ \A i \in 1 .. (FrameEnd(buf) - 5) :
              SubSeq(SubSeq(buf, 1, FrameEnd(buf)), 5, FrameEnd(buf) - 1)[i] = buf[i + 4]
  <1> DEFINE e == FrameEnd(buf)
             p == SubSeq(buf, 1, e)
  <1>1. Len(buf) \in Nat /\ Len(buf) >= 5
    BY DEF HeaderSize, CrcSize
  <1>2. buf[4] \in Byte
    BY <1>1
  <1>3. buf[4][1] \in Nat
    BY <1>2 DEF Byte
  <1>4. e \in 5 .. Len(buf)
    BY <1>1, <1>3 DEF FrameEnd, HeaderSize, CrcSize
  <1> HIDE DEF e
  <1>5. /\ p \in Seq(Byte) /\ Len(p) = e
        /\ \A i \in 1 .. e : p[i] = buf[i]
    BY <1>1, <1>4, TakeFacts
  <1>6. p[3] = buf[3]
    BY <1>4, <1>5
  <1> HIDE DEF p
  <1>7. /\ SubSeq(p, 5, e - 1) \in Seq(Byte) /\ Len(SubSeq(p, 5, e - 1)) = e - 5
        /\ \A i \in 1 .. (e - 5) : SubSeq(p, 5, e - 1)[i] = p[i + 4]
    <2>1. e \in Nat /\ e >= 5 /\ Len(p) = e
      BY <1>4, <1>5
    <2>2. CASE e = 5
      BY <2>1, <2>2, <1>5
    <2>3. CASE e > 5
      BY <2>1, <2>3, <1>5
    <2> QED
      BY <2>1, <2>2, <2>3
  <1>8. \A i \in 1 .. (e - 5) : i + 4 \in 1 .. e
    BY <1>4
  <1> QED
    BY <1>4, <1>5, <1>6, <1>7, <1>8 DEF e, p

(* t is what is left of s without its first k bytes. *)
Suffix(t, s, k) ==
  /\ k \in 0 .. Len(s)
  /\ t \in Seq(Byte) /\ Len(t) = Len(s) - k
  /\ \A i \in 1 .. Len(t) : t[i] = s[i + k]

LEMMA SuffixTwice ==
  ASSUME NEW s \in Seq(Byte), NEW t, NEW u, NEW k, NEW l, Suffix(t, s, k), Suffix(u, t, l)
  PROVE  Suffix(u, s, k + l)
  <1>1. Len(s) \in Nat /\ k \in Nat /\ l \in Nat /\ Len(t) = Len(s) - k /\ Len(u) = Len(t) - l
        /\ l <= Len(t)
    BY DEF Suffix
  <1>2. ASSUME NEW i \in 1 .. Len(u)
        PROVE  u[i] = s[i + (k + l)]
    <2>1. u[i] = t[i + l] /\ i + l \in 1 .. Len(t)
      BY <1>1 DEF Suffix
    <2>2. t[i + l] = s[(i + l) + k]
      BY <2>1 DEF Suffix
    <2> QED
      BY <1>1, <2>1, <2>2
  <1> QED
    BY <1>1, <1>2 DEF Suffix

LEMMA DropSuffix ==
  ASSUME NEW s \in Seq(Byte), NEW k \in 0 .. Len(s)
  PROVE  Suffix(Drop(s, k), s, k)
  BY DropFacts DEF Suffix

(* A pass takes bytes off the front of the buffer and adds at most one      *)
(* frame, whose payload ends in one of them.                                *)
LEMMA PassFacts ==
  ASSUME NEW d \in Decoding
  PROVE  /\ Pass(d) \in Decoding
         /\ \E k \in Nat :
              /\ Suffix(Pass(d).left, d.left, k)
              /\ \/ Pass(d).got = d.got
                 \/ \E f \in HostFrame :
                      /\ Pass(d).got = Append(d.got, f)
                      /\ f.payload # <<>> => \E i \in 1 .. k : d.left[i] = Last(f.payload)
  <1> DEFINE s == d.left
             buf == Align(s)
             e == FrameEnd(buf)
             packet == SubSeq(buf, 1, e)
             rest == Drop(buf, e)
             frame == [type |-> packet[3], payload |-> SubSeq(packet, 5, e - 1)]
             waits == Len(buf) < HeaderSize + CrcSize \/ Len(buf) < e
  <1>1. s \in Seq(Byte) /\ d.got \in Seq(HostFrame) /\ Len(s) \in Nat
    BY DEF Decoding
  <1>2. PICK k \in 0 .. Len(s) : buf = Drop(s, k)
    BY <1>1, AlignFacts
  <1>3. Suffix(buf, s, k) /\ buf \in Seq(Byte) /\ k \in Nat /\ Len(buf) \in Nat
    <2> HIDE DEF buf, s
    <2>1. Suffix(buf, s, k)
      BY <1>1, <1>2, DropSuffix
    <2>2. buf \in Seq(Byte)
      BY <2>1 DEF Suffix
    <2> QED
      BY <1>1, <2>1, <2>2
  <1>4. CASE d.loop # "on"
    <2>1. Pass(d) = d
      BY <1>4 DEF Pass
    <2>2. Suffix(s, s, 0) /\ 0 \in Nat
      BY <1>1 DEF Suffix
    <2> QED
      BY <2>1, <2>2
  <1>5. CASE d.loop = "on" /\ waits
    <2>1. Pass(d) = [d EXCEPT !.left = buf, !.loop = "ended"]
      BY <1>5 DEF Pass
    <2> HIDE DEF buf
    <2>2. Pass(d) \in Decoding /\ Pass(d).left = buf /\ Pass(d).got = d.got
      BY <1>3, <2>1 DEF Decoding
    <2> QED
      BY <1>3, <2>2
  <1>6. CASE d.loop = "on" /\ ~waits
    <2> HIDE DEF buf
    <2>1. Len(buf) >= HeaderSize + CrcSize /\ Len(buf) >= e
      <3>1. HeaderSize + CrcSize = 5
        BY DEF HeaderSize, CrcSize
      <3>2. Len(buf) >= HeaderSize + CrcSize
        BY <1>3, <1>6, <3>1
      <3>3. buf[4] \in Byte
        BY <1>3, <3>1, <3>2
      <3>4. e \in Nat
        BY <3>3 DEF Byte, FrameEnd, HeaderSize, CrcSize
      <3> HIDE DEF e
      <3> QED
        BY <1>3, <1>6, <3>2, <3>4
    <2>2. /\ e \in 5 .. Len(buf) /\ packet \in Seq(Byte) /\ packet[3] = buf[3]
          /\ frame.payload \in Seq(Byte) /\ Len(frame.payload) = e - 5
          /\ \A i \in 1 .. (e - 5) : frame.payload[i] = buf[i + 4]
      BY <1>3, <2>1, PacketFacts
    <2>3. Suffix(rest, buf, e) /\ Suffix(Drop(buf, 2), buf, 2)
      <3>1. e \in 0 .. Len(buf) /\ 2 \in 0 .. Len(buf)
        BY <1>3, <2>2
      <3> QED
        BY <1>3, <3>1, DropSuffix
    <2>4. /\ Suffix(rest, s, k + e) /\ k + e \in Nat
          /\ Suffix(Drop(buf, 2), s, k + 2) /\ k + 2 \in Nat
      <3>1. k + e \in Nat /\ k + 2 \in Nat
        BY <1>3, <2>2
      <3> HIDE DEF rest, e, s
      <3> QED
        BY <1>1, <1>3, <2>3, <3>1, SuffixTwice
    <2>5. rest \in Seq(Byte) /\ Drop(buf, 2) \in Seq(Byte)
      BY <2>3 DEF Suffix
    <2> DEFINE bad == ~CrcValid(packet)
               odd == packet[3] \notin MessageType
    <2>6. Pass(d) = IF bad THEN [d EXCEPT !.left = Drop(buf, 2), !.loop = "raised"]
                    ELSE IF odd THEN [d EXCEPT !.left = rest, !.loop = "raised"]
                    ELSE [d EXCEPT !.left = rest, !.got = Append(@, frame)]
      BY <1>6 DEF Pass, buf
    <2>7. frame.payload # <<>> => \E i \in 1 .. (k + e) : s[i] = Last(frame.payload)
      <3> SUFFICES ASSUME frame.payload # <<>>
                   PROVE  \E i \in 1 .. (k + e) : s[i] = Last(frame.payload)
        OBVIOUS
      <3>1. e \in Nat /\ e > 5
        <4>1. Len(frame.payload) # 0
          BY <2>2
        <4> HIDE DEF frame, e
        <4> QED
          BY <2>2, <4>1
      <3> HIDE DEF frame, e
      <3>2. e - 5 \in 1 .. (e - 5) /\ Last(frame.payload) = buf[(e - 5) + 4]
        BY <2>2, <3>1 DEF Last
      <3>3. (e - 5) + 4 \in 1 .. Len(buf)
        BY <1>3, <2>2, <3>1
      <3>4. buf[(e - 5) + 4] = s[((e - 5) + 4) + k]
        BY <1>3, <3>3 DEF Suffix
      <3>5. ((e - 5) + 4) + k \in 1 .. (k + e)
        BY <1>3, <3>1
      <3> QED
        BY <3>2, <3>4, <3>5
    <2>8. ~odd => frame \in HostFrame
      BY <2>2 DEF HostFrame
    <2> HIDE DEF rest, frame, bad, odd, e
    <2>9. CASE bad
      <3>1. Pass(d) \in Decoding /\ Pass(d).left = Drop(buf, 2) /\ Pass(d).got = d.got
        BY <2>5, <2>6, <2>9 DEF Decoding
      <3> QED
        BY <2>4, <3>1
    <2>10. CASE ~bad /\ odd
      <3>1. Pass(d) \in Decoding /\ Pass(d).left = rest /\ Pass(d).got = d.got
        BY <2>5, <2>6, <2>10 DEF Decoding
      <3> QED
        BY <2>4, <3>1
    <2>11. CASE ~bad /\ ~odd
      <3>1. Append(d.got, frame) \in Seq(HostFrame)
        BY <1>1, <2>8, <2>11
      <3>2. Pass(d) \in Decoding /\ Pass(d).left = rest /\ Pass(d).got = Append(d.got, frame)
        BY <2>5, <2>6, <2>11, <3>1 DEF Decoding
      <3> QED
        BY <2>4, <2>7, <2>8, <2>11, <3>2
    <2> QED
      BY <2>9, <2>10, <2>11
  <1> QED
    BY <1>4, <1>5, <1>6

-----------------------------------------------------------------------------
(* The loop of decode_frames. *)

(* g is the run of the loop over bytes. *)
DecodeRun(g, bytes) ==
  g = [n \in 0 .. Len(bytes) + 1 |->
         IF n = 0 THEN [left |-> bytes, got |-> <<>>, loop |-> "on"] ELSE Pass(g[n - 1])]

LEMMA DecodeRunExists ==
  ASSUME NEW bytes \in Seq(Byte)
  PROVE  \E g : /\ DecodeRun(g, bytes) /\ decode_frames(bytes) = g[Len(bytes) + 1]
                /\ \A n \in 0 .. Len(bytes) + 1 : g[n] \in Decoding
  <1> DEFINE N == Len(bytes) + 1
             x == [left |-> bytes, got |-> <<>>, loop |-> "on"]
             F == [n \in 1 .. N |-> [d \in Decoding |-> Pass(d)]]
  <1>1. N \in Nat
    OBVIOUS
  <1>2. x \in Decoding
    <2>1. <<>> \in Seq(HostFrame)
      OBVIOUS
    <2> QED
      BY <2>1 DEF Decoding
  <1> HIDE DEF N
  <1>3. F \in [1 .. N -> [Decoding -> Decoding]]
    BY PassFacts
  <1> HIDE DEF x
  <1>4. PICK g \in [0 .. N -> Decoding] : g[0] = x /\ \A n \in 1 .. N : g[n] = F[n][g[n - 1]]
    <2> HIDE DEF F
    <2>1. \E g : Rounds(g, Decoding, x, N, F)
      BY <1>1, <1>2, <1>3, Iterates
    <2> QED
      BY <2>1 DEF Rounds
  <1>5. ASSUME NEW n \in 0 .. N
        PROVE  g[n] = IF n = 0 THEN x ELSE Pass(g[n - 1])
    <2>1. CASE n # 0
      <3>1. n \in 1 .. N /\ n - 1 \in 0 .. N
        BY <1>1, <2>1
      <3> QED
        BY <1>4, <2>1, <3>1
    <2> QED
      BY <1>4, <2>1
  <1>6. g = [n \in 0 .. N |-> g[n]]
    BY <1>4
  <1>7. DecodeRun(g, bytes)
    BY <1>5, <1>6 DEF DecodeRun, x, N
  <1> DEFINE after == CHOOSE a : DecodeRun(a, bytes)
  <1>8. DecodeRun(after, bytes)
    BY <1>7
  <1>9. decode_frames(bytes) = after[Len(bytes) + 1]
    BY DEF decode_frames, DecodeRun
  <1> HIDE DEF after
  <1>10. \A n \in 0 .. N : after[n] = IF n = 0 THEN x ELSE Pass(after[n - 1])
    BY <1>8 DEF DecodeRun, x, N
  <1>11. after[0] \in Decoding
    BY <1>1, <1>2, <1>10
  <1>12. ASSUME NEW n \in 1 .. N, after[n - 1] \in Decoding
         PROVE  after[n] \in Decoding
    <2>1. n \in 0 .. N /\ n # 0
      BY <1>1
    <2> QED
      BY <1>10, <1>12, <2>1, PassFacts
  <1>13. \A n \in 0 .. N : after[n] \in Decoding
    BY <1>1, <1>11, <1>12, IterationStays
  <1> QED
    BY <1>8, <1>9, <1>13 DEF N

-----------------------------------------------------------------------------
(* The manager's FIFO. *)

(* The manager's FIFO and counters, within their bound and balanced. *)
Balanced ==
  {u \in [fifo : Seq(1 .. sent), rx : Nat, drop : Nat] :
     Len(u.fifo) <= FifoDepth /\ u.rx = Len(u.fifo) + u.drop + gone}

LEMMA PacketInFacts ==
  ASSUME NEW f, sent \in Nat, PacketIn(f) # {}
  PROVE  /\ Min(PacketIn(f)) \in 1 .. sent
         /\ f.type = DATA /\ Message[Min(PacketIn(f))] = f
  <1>1. PacketIn(f) \in SUBSET Nat
    BY DEF PacketIn
  <1>2. Min(PacketIn(f)) \in PacketIn(f)
    BY <1>1, MinFacts
  <1> QED
    BY <1>2 DEF PacketIn

(* The bounded deque: the new packet at the end, at most the oldest gone. *)
LEMMA KeepFacts ==
  ASSUME NEW S, NEW q \in Seq(S), NEW n \in S, Len(q) <= FifoDepth
  PROVE  /\ Keep(q, n) \in Seq(S) /\ Len(Keep(q, n)) <= FifoDepth
         /\ Len(Keep(q, n)) = IF FifoFull(q) THEN Len(q) ELSE Len(q) + 1
         /\ \/ Keep(q, n) = Append(q, n)
            \/ Keep(q, n) = Tail(Append(q, n))
  <1>1. Append(q, n) \in Seq(S) /\ Len(Append(q, n)) = Len(q) + 1 /\ Len(q) \in Nat
    BY AppendFacts
  <1>2. FifoDepth \in Nat
    BY PathConstants
  <1> DEFINE a == Append(q, n)
  <1>3. a # <<>>
    BY <1>1
  <1> HIDE DEF a
  <1>4. Tail(a) \in Seq(S) /\ Len(Tail(a)) = Len(q)
    BY <1>1, <1>3 DEF a
  <1>5. Keep(q, n) = IF Len(q) = FifoDepth THEN Tail(a) ELSE a
    BY DEF Keep, a
  <1>6. CASE Len(q) = FifoDepth
    BY <1>1, <1>2, <1>4, <1>5, <1>6 DEF FifoFull, a
  <1>7. CASE Len(q) # FifoDepth
    BY <1>1, <1>2, <1>5, <1>7 DEF FifoFull, a
  <1> QED
    BY <1>6, <1>7

LEMMA ReceiveBalanced ==
  ASSUME NEW u \in Balanced, NEW f, sent \in Nat, gone \in Nat
  PROVE  Receive(u, f) \in Balanced
  <1> DEFINE n == Min(PacketIn(f))
             q == Keep(u.fifo, n)
             more == IF FifoFull(u.fifo) THEN 1 ELSE 0
             t == [fifo |-> q, rx |-> u.rx + 1, drop |-> u.drop + more]
  <1>1. /\ u.fifo \in Seq(1 .. sent) /\ u.rx \in Nat /\ u.drop \in Nat
        /\ Len(u.fifo) <= FifoDepth /\ u.rx = Len(u.fifo) + u.drop + gone
        /\ Len(u.fifo) \in Nat
    BY DEF Balanced
  <1>2. CASE PacketIn(f) = {}
    BY <1>2 DEF Receive
  <1>3. CASE PacketIn(f) # {}
    <2>1. n \in 1 .. sent
      BY <1>3, PacketInFacts
    <2>2. Receive(u, f) = t
      BY <1>3 DEF Receive
    <2> HIDE DEF n
    <2>3. /\ q \in Seq(1 .. sent) /\ Len(q) <= FifoDepth
          /\ Len(q) = IF FifoFull(u.fifo) THEN Len(u.fifo) ELSE Len(u.fifo) + 1
      BY <1>1, <2>1, KeepFacts
    <2> HIDE DEF q
    <2>4. u.drop + more \in Nat /\ u.rx + 1 \in Nat /\ u.rx + 1 = Len(q) + (u.drop + more) + gone
      <3>1. PICK a \in Nat, c \in Nat, r \in Nat : a = Len(u.fifo) /\ c = u.drop /\ r = u.rx
        BY <1>1
      <3>2. r = a + c + gone
        BY <1>1, <3>1
      <3>3. more \in {0, 1} /\ Len(q) + more = a + 1 /\ Len(q) \in Nat
        <4>1. CASE FifoFull(u.fifo)
          BY <2>3, <3>1, <4>1
        <4>2. CASE ~FifoFull(u.fifo)
          BY <2>3, <3>1, <4>2
        <4> QED
          BY <4>1, <4>2
      <3>4. PICK l \in Nat : l = Len(q)
        BY <3>3
      <3> HIDE DEF more
      <3>5. c + more \in Nat /\ r + 1 \in Nat /\ r + 1 = l + (c + more) + gone
        BY <3>2, <3>3, <3>4
      <3> QED
        BY <3>1, <3>4, <3>5
    <2> HIDE DEF more
    <2>5. /\ t \in [fifo : Seq(1 .. sent), rx : Nat, drop : Nat]
          /\ t.fifo = q /\ t.rx = u.rx + 1 /\ t.drop = u.drop + more
      BY <2>3, <2>4
    <2> HIDE DEF t
    <2> QED
      BY <2>2, <2>3, <2>4, <2>5 DEF Balanced
  <1> QED
    BY <1>2, <1>3

(* g is the run of the loop over the frames of q. *)
ReceiveRun(g, u, q) ==
  g = [n \in 0 .. Len(q) |-> IF n = 0 THEN u ELSE Receive(g[n - 1], q[n])]

LEMMA ReceiveRunExists ==
  ASSUME sent \in Nat, gone \in Nat, NEW u \in Balanced, NEW q, Len(q) \in Nat
  PROVE  \E g : /\ ReceiveRun(g, u, q) /\ ReceiveAll(u, q) = g[Len(q)]
                /\ \A n \in 0 .. Len(q) : g[n] \in Balanced
  <1> DEFINE N == Len(q)
             F == [n \in 1 .. N |-> [d \in Balanced |-> Receive(d, q[n])]]
  <1>1. N \in Nat
    OBVIOUS
  <1>2. F \in [1 .. N -> [Balanced -> Balanced]]
    BY ReceiveBalanced
  <1> HIDE DEF N
  <1>3. PICK g \in [0 .. N -> Balanced] : g[0] = u /\ \A n \in 1 .. N : g[n] = F[n][g[n - 1]]
    <2> HIDE DEF F
    <2>1. \E g : Rounds(g, Balanced, u, N, F)
      BY <1>1, <1>2, Iterates
    <2> QED
      BY <2>1 DEF Rounds
  <1>4. ASSUME NEW n \in 0 .. N
        PROVE  g[n] = IF n = 0 THEN u ELSE Receive(g[n - 1], q[n])
    <2>1. CASE n # 0
      <3>1. n \in 1 .. N /\ n - 1 \in 0 .. N
        BY <1>1, <2>1
      <3> QED
        BY <1>3, <2>1, <3>1
    <2> QED
      BY <1>3, <2>1
  <1>5. g = [n \in 0 .. N |-> g[n]]
    BY <1>3
  <1>6. ReceiveRun(g, u, q)
    BY <1>4, <1>5 DEF ReceiveRun, N
  <1> DEFINE after == CHOOSE a : ReceiveRun(a, u, q)
  <1>7. ReceiveRun(after, u, q)
    BY <1>6
  <1>8. ReceiveAll(u, q) = after[Len(q)]
    BY DEF ReceiveAll, ReceiveRun
  <1> HIDE DEF after
  <1>9. \A n \in 0 .. N : after[n] = IF n = 0 THEN u ELSE Receive(after[n - 1], q[n])
    BY <1>7 DEF ReceiveRun, N
  <1>10. after[0] \in Balanced
    BY <1>1, <1>9
  <1>11. ASSUME NEW n \in 1 .. N, after[n - 1] \in Balanced
         PROVE  after[n] \in Balanced
    <2>1. n \in 0 .. N /\ n # 0
      BY <1>1
    <2> QED
      BY <1>9, <1>11, <2>1, ReceiveBalanced
  <1>12. \A n \in 0 .. N : after[n] \in Balanced
    BY <1>1, <1>10, <1>11, IterationStays
  <1> QED
    BY <1>7, <1>8, <1>12 DEF N

-----------------------------------------------------------------------------
(* Types and accounting. *)

LEMMA SeqGrows ==
  ASSUME NEW S, NEW T, S \subseteq T, NEW q \in Seq(S)
  PROVE  q \in Seq(T)
  <1>1. Len(q) \in Nat /\ \A i \in 1 .. Len(q) : q[i] \in T
    OBVIOUS
  <1>2. q = [i \in 1 .. Len(q) |-> q[i]]
    OBVIOUS
  <1> QED
    BY <1>1, <1>2

LEMMA MessageFacts ==
  ASSUME NEW n \in 1 .. Len(Message)
  PROVE  /\ Message[n] \in [type : Byte, payload : Seq(Byte)]
         /\ Message[n].type \in Byte /\ Message[n].payload \in Seq(Byte)
  <1> DEFINE M == [type : Byte, payload : Seq(Byte)]
  <1>1. Message \in Seq(M)
    BY PathConstants
  <1> HIDE DEF M
  <1>2. Message[n] \in M
    BY <1>1
  <1> QED
    BY <1>2 DEF M

(* A frame on the line: header, payload, CRC. *)
LEMMA EncodeFacts ==
  ASSUME NEW m \in [type : Byte, payload : Seq(Byte)]
  PROVE  LET s == encode_frame(m)
             L == Len(m.payload)
         IN /\ s \in Seq(Byte) /\ Len(s) = L + 5
            /\ s[1] = Mark1 /\ s[2] = Mark2 /\ s[3] = m.type /\ s[4] = <<L>>
            /\ \A i \in 1 .. L : s[i + 4] = m.payload[i]
            /\ Len(s[L + 5]) = L + 4
  <1> DEFINE L == Len(m.payload)
             head == <<Mark1, Mark2, m.type, <<L>>>>
             body == head \o m.payload
             crc == crc16(body)
  <1>1. L \in Nat /\ m.payload \in Seq(Byte) /\ m.type \in Byte
    OBVIOUS
  <1>2. <<L>> \in Byte
    BY <1>1 DEF Byte
  <1>3. Mark1 \in Byte /\ Mark2 \in Byte
    BY DEF Byte, Mark1, Mark2
  <1>4. /\ head \in Seq(Byte) /\ Len(head) = 4
        /\ head[1] = Mark1 /\ head[2] = Mark2 /\ head[3] = m.type /\ head[4] = <<L>>
    <2> HIDE DEF L
    <2> QED
      BY <1>1, <1>2, <1>3
  <1> HIDE DEF head
  <1>5. /\ body \in Seq(Byte) /\ Len(body) = L + 4
        /\ \A i \in 1 .. 4 : body[i] = head[i]
        /\ \A i \in 1 .. L : body[i + 4] = m.payload[i]
    <2> HIDE DEF body
    <2>1. /\ body \in Seq(Byte) /\ Len(body) = Len(head) + Len(m.payload)
          /\ \A i \in 1 .. Len(head) : body[i] = head[i]
          /\ \A i \in 1 .. Len(m.payload) : body[i + Len(head)] = m.payload[i]
      <3>1. PICK p \in Seq(Byte) : p = m.payload
        BY <1>1
      <3>2. /\ head \o p \in Seq(Byte) /\ Len(head \o p) = Len(head) + Len(p)
            /\ \A i \in 1 .. Len(head) : (head \o p)[i] = head[i]
            /\ \A i \in 1 .. Len(p) : (head \o p)[i + Len(head)] = p[i]
        <4>1. PICK hd \in Seq(Byte) : hd = head
          BY <1>4
        <4>2. /\ hd \o p \in Seq(Byte) /\ Len(hd \o p) = Len(hd) + Len(p)
              /\ \A i \in 1 .. Len(hd) : (hd \o p)[i] = hd[i]
              /\ \A i \in 1 .. Len(p) : (hd \o p)[i + Len(hd)] = p[i]
          BY ConcatFacts
        <4> QED
          BY <4>1, <4>2
      <3>3. body = head \o p
        BY <3>1 DEF body
      <3> QED
        BY <3>1, <3>2, <3>3
    <2> QED
      BY <1>1, <1>4, <2>1
  <1> HIDE DEF body
  <1>6. crc \in Byte /\ Len(crc) = L + 4
    <2>1. ASSUME NEW i \in 1 .. Len(body)
          PROVE  body[i] \in Byte /\ body[i][1] \in Nat
      <3>1. body[i] \in Byte
        BY <1>5
      <3> QED
        BY <3>1 DEF Byte
    <2>2. DOMAIN body = 1 .. Len(body)
      BY <1>5
    <2>3. crc = [i \in 1 .. Len(body) |-> body[i][1]]
      BY <2>2 DEF crc16
    <2>4. crc \in [1 .. Len(body) -> Nat] /\ Len(body) \in Nat
      BY <1>5, <2>1, <2>3
    <2>5. crc \in Seq(Nat) /\ Len(crc) = Len(body)
      BY <2>4
    <2> HIDE DEF crc
    <2> QED
      BY <1>1, <1>5, <2>5 DEF Byte
  <1> HIDE DEF crc
  <1> DEFINE s == Append(body, crc)
  <1>7. /\ s \in Seq(Byte) /\ Len(s) = L + 5 /\ \A i \in 1 .. (L + 4) : s[i] = body[i]
        /\ s[L + 5] = crc
    BY <1>1, <1>5, <1>6, AppendFacts
  <1>8. encode_frame(m) = s
    BY DEF encode_frame, s, crc, body, head
  <1> HIDE DEF s, L
  <1>9. /\ 1 \in 1 .. (L + 4) /\ 2 \in 1 .. (L + 4) /\ 3 \in 1 .. (L + 4) /\ 4 \in 1 .. (L + 4)
        /\ \A i \in 1 .. L : i + 4 \in 1 .. (L + 4)
    BY <1>1
  <1>10. /\ s[1] = Mark1 /\ s[2] = Mark2 /\ s[3] = m.type /\ s[4] = <<L>>
    BY <1>4, <1>5, <1>7, <1>9
  <1>11. \A i \in 1 .. L : s[i + 4] = m.payload[i]
    BY <1>5, <1>7, <1>9
  <1> QED
    BY <1>6, <1>7, <1>8, <1>10, <1>11 DEF L

(* A byte lost on the line: those before it and those behind it stay. *)
LEMMA RemoveFacts ==
  ASSUME NEW S, NEW s \in Seq(S), NEW i \in 1 .. Len(s)
  PROVE  /\ RemoveAt(s, i) \in Seq(S) /\ Len(RemoveAt(s, i)) = Len(s) - 1
         /\ \A j \in 1 .. (Len(s) - 1) : RemoveAt(s, i)[j] = IF j < i THEN s[j] ELSE s[j + 1]
  <1> DEFINE a == SubSeq(s, 1, i - 1)
             b == SubSeq(s, i + 1, Len(s))
  <1>1. Len(s) \in Nat /\ i \in Nat /\ i >= 1 /\ i <= Len(s) /\ i - 1 \in 0 .. Len(s) /\ i \in 0 .. Len(s)
    OBVIOUS
  <1>2. a \in Seq(S) /\ Len(a) = i - 1 /\ \A j \in 1 .. (i - 1) : a[j] = s[j]
    BY <1>1, TakeFacts
  <1>3. b \in Seq(S) /\ Len(b) = Len(s) - i /\ \A j \in 1 .. (Len(s) - i) : b[j] = s[j + i]
    BY <1>1, DropFacts DEF Drop
  <1>4. RemoveAt(s, i) = a \o b
    BY DEF RemoveAt
  <1> HIDE DEF a, b
  <1>5. /\ a \o b \in Seq(S) /\ Len(a \o b) = Len(a) + Len(b)
        /\ \A j \in 1 .. Len(a) : (a \o b)[j] = a[j]
        /\ \A j \in 1 .. Len(b) : (a \o b)[j + Len(a)] = b[j]
    <2>1. PICK x \in Seq(S), y \in Seq(S) : x = a /\ y = b
      BY <1>2, <1>3
    <2>2. /\ x \o y \in Seq(S) /\ Len(x \o y) = Len(x) + Len(y)
          /\ \A j \in 1 .. Len(x) : (x \o y)[j] = x[j]
          /\ \A j \in 1 .. Len(y) : (x \o y)[j + Len(x)] = y[j]
      BY ConcatFacts
    <2> QED
      BY <2>1, <2>2
  <1>6. ASSUME NEW j \in 1 .. (Len(s) - 1)
        PROVE  (a \o b)[j] = IF j < i THEN s[j] ELSE s[j + 1]
    <2>1. CASE j < i
      <3>1. j \in 1 .. (i - 1)
        BY <1>1, <2>1
      <3> QED
        BY <1>2, <1>5, <2>1, <3>1
    <2>2. CASE ~ (j < i)
      <3> DEFINE l == j - (i - 1)
      <3>1. l \in 1 .. (Len(s) - i) /\ l + (i - 1) = j /\ l + i = j + 1
        BY <1>1, <2>2
      <3> HIDE DEF l
      <3>2. (a \o b)[l + (i - 1)] = b[l] /\ b[l] = s[l + i]
        BY <1>2, <1>3, <1>5, <3>1
      <3> QED
        BY <2>2, <3>1, <3>2
    <2> QED
      BY <2>1, <2>2
  <1> QED
    BY <1>1, <1>2, <1>3, <1>4, <1>5, <1>6

(* What the reader thread keeps of a decoding. *)
LEMMA ReadFacts ==
  ASSUME NEW bytes \in Seq(Byte)
  PROVE  /\ decode_frames(bytes) \in Decoding
         /\ decode_frames(bytes).left \in Seq(Byte)
         /\ KeepDecoded(decode_frames(bytes)) \in Seq(HostFrame)
  <1>1. PICK g : /\ decode_frames(bytes) = g[Len(bytes) + 1]
                 /\ \A n \in 0 .. Len(bytes) + 1 : g[n] \in Decoding
    BY DecodeRunExists
  <1>2. Len(bytes) + 1 \in 0 .. Len(bytes) + 1
    OBVIOUS
  <1>3. decode_frames(bytes) \in Decoding
    BY <1>1, <1>2
  <1>4. <<>> \in Seq(HostFrame)
    OBVIOUS
  <1> QED
    BY <1>3, <1>4 DEF Decoding, KeepDecoded

(* What the poll makes of the queue and the counters. *)
LEMMA PollFacts ==
  ASSUME PathTypeOK, UplinkAccounted
  PROVE  /\ [fifo |-> fifo, rx |-> count.rx, drop |-> count.drop] \in Balanced
         /\ ReceiveAll([fifo |-> fifo, rx |-> count.rx, drop |-> count.drop], frames) \in Balanced
  <1> DEFINE u == [fifo |-> fifo, rx |-> count.rx, drop |-> count.drop]
  <1>1. sent \in Nat /\ gone \in Nat /\ Len(frames) \in Nat
    BY PathConstants DEF PathTypeOK
  <1>2. u \in Balanced
    BY DEF PathTypeOK, UplinkAccounted, Balanced
  <1> HIDE DEF u
  <1>3. PICK q : q = frames
    OBVIOUS
  <1>4. PICK g : /\ ReceiveAll(u, q) = g[Len(q)]
                 /\ \A n \in 0 .. Len(q) : g[n] \in Balanced
    BY <1>1, <1>2, <1>3, ReceiveRunExists
  <1>5. Len(q) \in 0 .. Len(q)
    BY <1>1, <1>3
  <1> QED
    BY <1>2, <1>3, <1>4, <1>5 DEF u

-----------------------------------------------------------------------------
(* The steps keep the types and the balance. *)

UplinkInv == PathTypeOK /\ UplinkAccounted

LEMMA WriteKeeps ==
  ASSUME UplinkInv, WriteFrame
  PROVE  UplinkInv'
  <1>1. /\ sent \in 0 .. Len(Message) /\ Len(Message) \in Nat /\ sent < Len(Message) /\ sent' = sent + 1
        /\ wire \in Seq(Byte) /\ wire' = wire \o encode_frame(Message[sent'])
        /\ fifo \in Seq(1 .. sent) /\ popped \in Seq(1 .. sent)
        /\ UNCHANGED <<chunk, buffer, frames, fifo, count, popped, gone, read, decoded, faults, split>>
    BY PathConstants DEF UplinkInv, PathTypeOK, WriteFrame
  <1>2. sent' \in 1 .. Len(Message) /\ sent' \in 0 .. Len(Message) /\ 1 .. sent \subseteq 1 .. sent'
    BY <1>1
  <1>3. Message[sent'] \in [type : Byte, payload : Seq(Byte)]
    BY <1>2, MessageFacts
  <1>4. encode_frame(Message[sent']) \in Seq(Byte)
    BY <1>3, EncodeFacts
  <1>5. wire' \in Seq(Byte)
    BY <1>1, <1>4, ConcatFacts
  <1>6. fifo' \in Seq(1 .. sent') /\ popped' \in Seq(1 .. sent')
    BY <1>1, <1>2, SeqGrows
  <1> QED
    BY <1>1, <1>2, <1>5, <1>6 DEF UplinkInv, PathTypeOK, UplinkAccounted

LEMMA FaultKeeps ==
  ASSUME UplinkInv, LineFault
  PROVE  UplinkInv'
  <1>1. /\ wire \in Seq(Byte) /\ faults \in 0 .. MaxFaults /\ faults < MaxFaults /\ faults' = faults + 1
        /\ UNCHANGED <<sent, chunk, buffer, frames, fifo, count, popped, gone, read, decoded, split>>
    BY DEF UplinkInv, PathTypeOK, LineFault
  <1>2. PICK i \in DOMAIN wire :
          wire' \in {[wire EXCEPT ![i] = b] : b \in Noise} \cup {RemoveAt(wire, i)}
    BY DEF LineFault
  <1>3. i \in 1 .. Len(wire)
    BY <1>1, <1>2
  <1>4. Noise \subseteq Byte
    BY DEF Noise, Byte
  <1>5. wire' \in Seq(Byte)
    <2>1. CASE wire' = RemoveAt(wire, i)
      BY <1>1, <1>3, <2>1, RemoveFacts
    <2>2. ASSUME NEW b \in Noise, wire' = [wire EXCEPT ![i] = b]
          PROVE  wire' \in Seq(Byte)
      BY <1>1, <1>4, <2>2
    <2> QED
      BY <1>2, <2>1, <2>2
  <1>6. faults' \in 0 .. MaxFaults
    BY <1>1, PathConstants
  <1> QED
    BY <1>1, <1>5, <1>6 DEF UplinkInv, PathTypeOK, UplinkAccounted

(* One reader's chunk changes. *)
LEMMA ChunkFacts ==
  ASSUME chunk \in [Readers -> Seq(Byte)], NEW r \in Readers, NEW x \in Seq(Byte),
         chunk' = [chunk EXCEPT ![r] = x]
  PROVE  /\ chunk[r] \in Seq(Byte) /\ chunk' \in [Readers -> Seq(Byte)] /\ chunk'[r] = x
         /\ \A q \in Readers : q # r => chunk'[q] = chunk[q]
  OBVIOUS

LEMMA ReadKeeps ==
  ASSUME UplinkInv, NEW r \in Readers, NEW n \in 1 .. Len(wire), ReadChunk(r, n)
  PROVE  UplinkInv'
  <1>1. /\ wire \in Seq(Byte) /\ chunk \in [Readers -> Seq(Byte)] /\ n \in 0 .. Len(wire)
        /\ chunk' = [chunk EXCEPT ![r] = SubSeq(wire, 1, n)] /\ wire' = Drop(wire, n)
        /\ UNCHANGED <<sent, buffer, frames, fifo, count, popped, gone, read, decoded, faults, split>>
    BY DEF UplinkInv, PathTypeOK, ReadChunk
  <1>2. SubSeq(wire, 1, n) \in Seq(Byte) /\ wire' \in Seq(Byte)
    BY <1>1, TakeFacts, DropFacts
  <1>3. chunk' \in [Readers -> Seq(Byte)]
    BY <1>1, <1>2, ChunkFacts
  <1> QED
    BY <1>1, <1>2, <1>3 DEF UplinkInv, PathTypeOK, UplinkAccounted

LEMMA TakeKeeps ==
  ASSUME UplinkInv, NEW r \in Readers, TakeChunk(r)
  PROVE  UplinkInv'
  <1> DEFINE bytes == buffer \o chunk[r]
             d == decode_frames(bytes)
             k == KeepDecoded(d)
  <1>1. /\ chunk \in [Readers -> Seq(Byte)] /\ buffer \in Seq(Byte) /\ frames \in Seq(HostFrame)
        /\ read \in Nat /\ decoded \in Nat /\ split \in BOOLEAN /\ chunk[r] \in Seq(Byte)
    BY DEF UplinkInv, PathTypeOK, HostFrame
  <1>2. Len(chunk[r]) \in Nat /\ <<>> \in Seq(Byte)
    BY <1>1
  <1>3. bytes \in Seq(Byte)
    BY <1>1, ConcatFacts
  <1> HIDE DEF bytes
  <1>4. d.left \in Seq(Byte) /\ k \in Seq(HostFrame)
    BY <1>3, ReadFacts
  <1>5. /\ chunk' = [chunk EXCEPT ![r] = <<>>] /\ buffer' = d.left /\ frames' = frames \o k
        /\ read' = read + Len(chunk[r]) /\ decoded' = decoded + Len(k)
        /\ split' = (split \/ (d.left = <<>> /\ Last(bytes) = Mark1))
        /\ UNCHANGED <<sent, wire, fifo, count, popped, gone, faults>>
    BY DEF TakeChunk, bytes
  <1> HIDE DEF d, k
  <1>6. frames' \in Seq(HostFrame) /\ Len(k) \in Nat
    BY <1>1, <1>4, <1>5, ConcatFacts
  <1>7. read' \in Nat /\ decoded' \in Nat
    BY <1>1, <1>2, <1>5, <1>6
  <1>8. split' \in BOOLEAN
    BY <1>1, <1>5, Zenon
  <1>9. chunk' \in [Readers -> Seq(Byte)]
    BY <1>1, <1>2, <1>5, ChunkFacts
  <1> QED
    BY <1>4, <1>5, <1>6, <1>7, <1>8, <1>9 DEF UplinkInv, PathTypeOK, UplinkAccounted, HostFrame

LEMMA PollKeeps ==
  ASSUME UplinkInv, PollFrames
  PROVE  UplinkInv'
  <1> DEFINE u == ReceiveAll([fifo |-> fifo, rx |-> count.rx, drop |-> count.drop], frames)
  <1>1. u \in Balanced
    BY PollFacts DEF UplinkInv
  <1>2. /\ frames' = <<>> /\ fifo' = u.fifo /\ count' = [rx |-> u.rx, drop |-> u.drop]
        /\ UNCHANGED <<sent, wire, chunk, buffer, popped, gone, read, decoded, faults, split>>
    BY DEF PollFrames
  <1> HIDE DEF u
  <1>3. /\ u.fifo \in Seq(1 .. sent) /\ u.rx \in Nat /\ u.drop \in Nat
        /\ Len(u.fifo) <= FifoDepth /\ u.rx = Len(u.fifo) + u.drop + gone
    BY <1>1 DEF Balanced
  <1>4. count' \in [rx : Nat, drop : Nat] /\ count'.rx = u.rx /\ count'.drop = u.drop
    BY <1>2, <1>3
  <1>5. <<>> \in Seq([type : MessageType, payload : Seq(Byte)])
    OBVIOUS
  <1> QED
    BY <1>2, <1>3, <1>4, <1>5 DEF UplinkInv, PathTypeOK, UplinkAccounted

LEMMA PopKeeps ==
  ASSUME UplinkInv, PopUplink
  PROVE  UplinkInv'
  <1>1. /\ fifo \in Seq(1 .. sent) /\ fifo # <<>> /\ Len(fifo) <= FifoDepth /\ sent \in Nat /\ FifoDepth \in Nat
        /\ popped \in Seq(1 .. sent) /\ popped' = Append(popped, Head(fifo))
        /\ fifo' = Tail(fifo) /\ gone' = gone + 1
        /\ gone \in Nat /\ count \in [rx : Nat, drop : Nat] /\ count.rx = Len(fifo) + count.drop + gone
        /\ UNCHANGED <<sent, wire, chunk, buffer, frames, count, read, decoded, faults, split>>
    BY PathConstants DEF UplinkInv, PathTypeOK, UplinkAccounted, PopUplink, Oldest
  <1>2. Head(fifo) \in 1 .. sent /\ Tail(fifo) \in Seq(1 .. sent) /\ Len(Tail(fifo)) = Len(fifo) - 1 /\ Len(fifo) \in Nat
    BY <1>1
  <1>3. popped' \in Seq(1 .. sent')
    BY <1>1, <1>2, AppendFacts
  <1>4. Len(fifo') <= FifoDepth /\ gone' \in Nat
    BY <1>1, <1>2
  <1>5. count'.rx = Len(fifo') + count'.drop + gone'
    <2>1. PICK l \in Nat, c \in Nat : l = Len(fifo) /\ c = count.drop
      BY <1>1, <1>2
    <2>2. l + c + gone = (l - 1) + c + (gone + 1) /\ Len(fifo') = l - 1
      BY <1>1, <1>2, <2>1
    <2> QED
      BY <1>1, <2>1, <2>2
  <1> QED
    BY <1>1, <1>2, <1>3, <1>4, <1>5 DEF UplinkInv, PathTypeOK, UplinkAccounted

LEMMA StopKeeps ==
  ASSUME UplinkInv, StopManager
  PROVE  UplinkInv'
  <1>1. /\ fifo \in Seq(1 .. sent) /\ fifo' = <<>> /\ gone' = gone + Len(fifo) /\ FifoDepth \in Nat
        /\ gone \in Nat /\ count \in [rx : Nat, drop : Nat] /\ count.rx = Len(fifo) + count.drop + gone
        /\ UNCHANGED <<sent, wire, chunk, buffer, frames, count, popped, read, decoded, faults, split>>
    BY PathConstants DEF UplinkInv, PathTypeOK, UplinkAccounted, StopManager
  <1>2. fifo' \in Seq(1 .. sent') /\ Len(fifo') = 0 /\ Len(fifo) \in Nat
    BY <1>1
  <1>3. Len(fifo') <= FifoDepth /\ gone' \in Nat
    BY <1>1, <1>2
  <1>4. count'.rx = Len(fifo') + count'.drop + gone'
    <2>1. PICK l \in Nat, c \in Nat : l = Len(fifo) /\ c = count.drop
      BY <1>1, <1>2
    <2>2. l + c + gone = 0 + c + (gone + l)
      BY <1>1, <2>1
    <2> QED
      BY <1>1, <1>2, <2>1, <2>2
  <1> QED
    BY <1>1, <1>2, <1>3, <1>4 DEF UplinkInv, PathTypeOK, UplinkAccounted

LEMMA ClearKeeps ==
  ASSUME UplinkInv, ClearBuffers
  PROVE  UplinkInv'
  <1>1. /\ wire \in Seq(Byte) /\ faults \in 0 .. MaxFaults /\ faults < MaxFaults /\ faults' = faults + 1
        /\ buffer' = <<>> /\ frames' = <<>>
        /\ UNCHANGED <<sent, chunk, fifo, count, popped, gone, read, decoded, split>>
    BY DEF UplinkInv, PathTypeOK, ClearBuffers
  <1>2. PICK n \in 0 .. Len(wire) : wire' = Drop(wire, n)
    BY DEF ClearBuffers
  <1>3. wire' \in Seq(Byte)
    BY <1>1, <1>2, DropFacts
  <1>4. faults' \in 0 .. MaxFaults
    BY <1>1, PathConstants
  <1>5. buffer' \in Seq(Byte) /\ frames' \in Seq([type : MessageType, payload : Seq(Byte)])
    BY <1>1
  <1> QED
    BY <1>1, <1>3, <1>4, <1>5 DEF UplinkInv, PathTypeOK, UplinkAccounted

LEMMA UplinkInvInit ==
  ASSUME PathInit
  PROVE  UplinkInv
  <1>1. /\ sent = 0 /\ wire = <<>> /\ buffer = <<>> /\ frames = <<>> /\ fifo = <<>>
        /\ count = [rx |-> 0, drop |-> 0] /\ popped = <<>> /\ gone = 0
        /\ chunk = [r \in Readers |-> <<>>]
        /\ read = 0 /\ decoded = 0 /\ faults = 0 /\ split = FALSE
    BY DEF PathInit
  <1>2. Len(Message) \in Nat /\ FifoDepth \in Nat /\ MaxFaults \in Nat
    BY PathConstants
  <1>3. Len(fifo) = 0 /\ fifo \in Seq(1 .. sent)
    BY <1>1
  <1>4. UplinkAccounted
    BY <1>1, <1>3 DEF UplinkAccounted
  <1>5. /\ wire \in Seq(Byte) /\ chunk \in [Readers -> Seq(Byte)] /\ buffer \in Seq(Byte)
        /\ frames \in Seq([type : MessageType, payload : Seq(Byte)])
    BY <1>1
  <1>6. /\ sent \in 0 .. Len(Message) /\ faults \in 0 .. MaxFaults /\ Len(fifo) <= FifoDepth
        /\ popped \in Seq(1 .. sent) /\ gone \in Nat /\ read \in Nat /\ decoded \in Nat
    BY <1>1, <1>2, <1>3
  <1>7. count \in [rx : Nat, drop : Nat] /\ split \in BOOLEAN
    BY <1>1
  <1>8. PathTypeOK
    BY <1>3, <1>5, <1>6, <1>7 DEF PathTypeOK
  <1> QED
    BY <1>4, <1>8 DEF UplinkInv

LEMMA UplinkInvStep ==
  ASSUME UplinkInv, [PathNext]_pathVars
  PROVE  UplinkInv'
  <1>1. CASE UNCHANGED pathVars
    BY <1>1 DEF pathVars, UplinkInv, PathTypeOK, UplinkAccounted
  <1>2. CASE PathNext
    BY <1>2, WriteKeeps, FaultKeeps, ReadKeeps, TakeKeeps, PollKeeps, PopKeeps, StopKeeps, ClearKeeps DEF PathNext
  <1> QED
    BY <1>1, <1>2

(* The reader's buffer, the decoded frames, the FIFO and the counters keep  *)
(* their types, and the FIFO never exceeds FIFO_DEPTH, for every list of    *)
(* frames on the line and however its bytes are damaged and cut.            *)
THEOREM PathTypeCorrect == PathSpec => []PathTypeOK
  <1>1. PathInit => UplinkInv
    BY UplinkInvInit
  <1>2. UplinkInv /\ [PathNext]_pathVars => UplinkInv'
    BY UplinkInvStep
  <1>3. UplinkInv => PathTypeOK
    BY DEF UplinkInv
  <1> QED
    BY <1>1, <1>2, <1>3, PTL DEF PathSpec

(* No packet the manager received disappears without being counted: each is *)
(* queued, popped, cleared by a stop, or in _ul_drop_count, for every depth *)
(* of the FIFO and every number of frames a poll hands over at once.        *)
THEOREM NothingUnaccounted == PathSpec => []UplinkAccounted
  <1>1. PathInit => UplinkInv
    BY UplinkInvInit
  <1>2. UplinkInv /\ [PathNext]_pathVars => UplinkInv'
    BY UplinkInvStep
  <1>3. UplinkInv => UplinkAccounted
    BY DEF UplinkInv
  <1> QED
    BY <1>1, <1>2, <1>3, PTL DEF PathSpec

-----------------------------------------------------------------------------
(* The stream of bytes on a line without faults. *)

Size(n) == Len(encode_frame(Message[n]))

(* e[n] bytes have been written once the n-th frame has. *)
Ends(e) ==
  /\ e \in [0 .. Len(Message) -> Nat]
  /\ e[0] = 0 /\ \A n \in 1 .. Len(Message) : e[n] = e[n - 1] + Size(n)

End == CHOOSE e : Ends(e)

(* The bytes of z are the frames behind the k-th, up to the m-th. *)
Framed(z, k, m) ==
  /\ Len(z) = End[m] - End[k]
  /\ \A n \in (k + 1) .. m : \A i \in 1 .. Size(n) :
       z[(End[n - 1] - End[k]) + i] = encode_frame(Message[n])[i]

(* So are those of s and of w behind it, and s holds no whole frame. *)
Rests(s, w, k, m) == Framed(s \o w, k, m) /\ (k < m => Len(s) < Size(k + 1))

LEMMA SizeFacts ==
  ASSUME NEW n \in 1 .. Len(Message)
  PROVE  LET s == encode_frame(Message[n])
         IN /\ s \in Seq(Byte) /\ Size(n) = Len(s) /\ Size(n) \in Nat /\ Size(n) >= 5
            /\ s[1] = Mark1 /\ s[2] = Mark2 /\ s[3] = Message[n].type /\ s[4] = <<Size(n) - 5>>
  <1> DEFINE m == Message[n]
             s == encode_frame(m)
             L == Len(m.payload)
  <1>1. m \in [type : Byte, payload : Seq(Byte)] /\ m.payload \in Seq(Byte)
    BY MessageFacts
  <1> HIDE DEF m
  <1>2. /\ s \in Seq(Byte) /\ Len(s) = L + 5
        /\ s[1] = Mark1 /\ s[2] = Mark2 /\ s[3] = m.type /\ s[4] = <<L>>
    BY <1>1, EncodeFacts
  <1>3. L \in Nat
    BY <1>1
  <1> HIDE DEF s, L
  <1>4. (L + 5) - 5 = L /\ L + 5 \in Nat /\ L + 5 >= 5
    BY <1>3
  <1>5. Size(n) = Len(s)
    BY DEF Size, s, m
  <1> QED
    BY <1>2, <1>4, <1>5 DEF s, m

(* The CRC of a frame as it was written is valid. *)
LEMMA EncodeCrc ==
  ASSUME NEW m \in [type : Byte, payload : Seq(Byte)]
  PROVE  CrcValid(encode_frame(m))
  <1> DEFINE body == <<Mark1, Mark2, m.type, <<Len(m.payload)>>>> \o m.payload
             c == crc16(body)
             s == encode_frame(m)
  <1>1. s = Append(body, c)
    BY DEF encode_frame
  <1>2. \E S : body \in Seq(S)
    <2>1. PICK p \in Seq(Byte) : p = m.payload
      OBVIOUS
    <2>2. <<Len(p)>> \in Byte /\ Mark1 \in Byte /\ Mark2 \in Byte /\ m.type \in Byte
      BY DEF Byte, Mark1, Mark2
    <2>3. PICK hd \in Seq(Byte) : hd = <<Mark1, Mark2, m.type, <<Len(p)>>>>
      <3>1. PICK l \in Byte, t \in Byte : l = <<Len(p)>> /\ t = m.type
        BY <2>2
      <3>2. <<Mark1, Mark2, t, l>> \in Seq(Byte)
        BY <2>2
      <3> QED
        BY <3>1, <3>2
    <2>4. hd \o p \in Seq(Byte)
      BY ConcatFacts
    <2> QED
      BY <2>1, <2>3, <2>4
  <1> HIDE DEF body
  <1>3. PICK S : body \in Seq(S)
    BY <1>2
  <1> HIDE DEF c, s
  <1>4. /\ Len(s) = Len(body) + 1 /\ Len(body) \in Nat /\ s[Len(body) + 1] = c
        /\ SubSeq(s, 1, Len(body)) = body
    <2>1. body \in Seq(S \cup {c}) /\ c \in S \cup {c}
      BY <1>3, SeqGrows
    <2>2. PICK W : body \in Seq(W) /\ c \in W
      BY <2>1
    <2>3. /\ s \in Seq(W) /\ Len(s) = Len(body) + 1 /\ s[Len(body) + 1] = c
          /\ \A i \in 1 .. Len(body) : s[i] = body[i]
      BY <1>1, <2>2, AppendFacts
    <2>4. Len(body) \in 0 .. Len(s) /\ Len(body) \in Nat
      BY <2>2, <2>3
    <2>5. /\ SubSeq(s, 1, Len(body)) \in Seq(W) /\ Len(SubSeq(s, 1, Len(body))) = Len(body)
          /\ \A i \in 1 .. Len(body) : SubSeq(s, 1, Len(body))[i] = s[i]
      BY <2>3, <2>4, TakeFacts
    <2>6. SubSeq(s, 1, Len(body)) = body
      BY <2>2, <2>3, <2>5
    <2> QED
      BY <2>3, <2>4, <2>6
  <1>5. Front(s) = body /\ Last(s) = c
    BY <1>4 DEF Front, Last
  <1> QED
    BY <1>5 DEF CrcValid, c, s

LEMMA EndFacts == Ends(End)
  <1> DEFINE N == Len(Message)
             F == [n \in 1 .. N |-> [a \in Nat |-> a + Size(n)]]
  <1>1. N \in Nat
    BY PathConstants
  <1>2. \A n \in 1 .. N : Size(n) \in Nat
    BY SizeFacts
  <1>3. F \in [1 .. N -> [Nat -> Nat]]
    BY <1>2
  <1> HIDE DEF N
  <1>4. PICK e \in [0 .. N -> Nat] : e[0] = 0 /\ \A n \in 1 .. N : e[n] = F[n][e[n - 1]]
    <2> HIDE DEF F
    <2>1. \E e : Rounds(e, Nat, 0, N, F)
      BY <1>1, <1>3, Iterates
    <2> QED
      BY <2>1 DEF Rounds
  <1>5. ASSUME NEW n \in 1 .. N
        PROVE  e[n] = e[n - 1] + Size(n)
    <2>1. n - 1 \in 0 .. N
      BY <1>1
    <2>2. e[n - 1] \in Nat
      BY <1>4, <2>1
    <2> QED
      BY <1>4, <2>2
  <1>6. Ends(e)
    BY <1>4, <1>5 DEF Ends, N
  <1> QED
    BY <1>6 DEF End

LEMMA EndStep ==
  /\ Len(Message) \in Nat /\ End[0] = 0
  /\ \A n \in 0 .. Len(Message) : End[n] \in Nat
  /\ \A n \in 1 .. Len(Message) : End[n] = End[n - 1] + Size(n)
  <1>1. Len(Message) \in Nat
    BY PathConstants
  <1>2. PICK e : e = End
    OBVIOUS
  <1>3. Ends(e)
    BY <1>2, EndFacts
  <1>4. /\ e[0] = 0 /\ \A n \in 0 .. Len(Message) : e[n] \in Nat
        /\ \A n \in 1 .. Len(Message) : e[n] = e[n - 1] + Size(n)
    BY <1>3 DEF Ends
  <1> QED
    BY <1>1, <1>2, <1>4

LEMMA EndGrows ==
  ASSUME NEW k \in 0 .. Len(Message), NEW m \in 0 .. Len(Message), k <= m
  PROVE  End[k] <= End[m]
  <1> DEFINE N == Len(Message)
             T == {n \in 0 .. N : k <= n => End[k] <= End[n]}
  <1>1. N \in Nat /\ End[k] \in Nat /\ \A n \in 0 .. N : End[n] \in Nat
    BY EndStep
  <1>2. \A n \in 1 .. N : End[n] = End[n - 1] + Size(n) /\ Size(n) \in Nat
    BY EndStep, SizeFacts
  <1> HIDE DEF N
  <1>3. 0 \in T
    <2>1. k <= 0 => k = 0
      BY <1>1 DEF N
    <2> QED
      BY <1>1, <2>1
  <1>4. ASSUME NEW n \in 1 .. N, n - 1 \in T
        PROVE  n \in T
    <2>1. n - 1 \in 0 .. N /\ n \in 0 .. N /\ n \in Nat
      BY <1>1
    <2>2. End[n - 1] \in Nat /\ End[n] \in Nat
      BY <1>1, <2>1
    <2>3. CASE k = n
      BY <1>1, <2>1, <2>2, <2>3
    <2>4. CASE k <= n - 1
      <3>1. End[k] <= End[n - 1]
        BY <1>4, <2>4
      <3>2. End[k] <= End[n]
        BY <1>1, <1>2, <2>2, <3>1
      <3> QED
        BY <2>1, <3>2
    <2>5. k <= n => k = n \/ k <= n - 1
      BY <2>1 DEF N
    <2> QED
      BY <2>1, <2>3, <2>4, <2>5
  <1> HIDE DEF T
  <1>5. 0 .. N \subseteq T
    BY <1>1, <1>3, <1>4, BoundedInduction
  <1> QED
    BY <1>5 DEF T, N

(* The frames that end within the first l bytes, by the same sums. *)
LEMMA ArrivedSums ==
  ASSUME NEW s \in 0 .. Len(Message), NEW l
  PROVE  (LET end[n \in 0 .. s] == IF n = 0 THEN 0 ELSE end[n - 1] + Len(encode_frame(Message[n]))
          IN {n \in 1 .. s : end[n] <= l})
           = {n \in 1 .. s : End[n] <= l}
  <1> DEFINE Sums(e) == e = [n \in 0 .. s |->
                               IF n = 0 THEN 0 ELSE e[n - 1] + Len(encode_frame(Message[n]))]
             r == [n \in 0 .. s |-> End[n]]
             end == CHOOSE e : Sums(e)
             T == {n \in 0 .. s : end[n] = End[n]}
  <1>1. /\ s \in Nat /\ End[0] = 0
        /\ \A n \in 1 .. s : End[n] = End[n - 1] + Len(encode_frame(Message[n]))
    <2>1. s \in Nat /\ \A n \in 1 .. s : n \in 1 .. Len(Message)
      BY EndStep
    <2> QED
      BY <2>1, EndStep DEF Size
  <1>2. Sums(r)
    <2>1. ASSUME NEW n \in 0 .. s
          PROVE  r[n] = IF n = 0 THEN 0 ELSE r[n - 1] + Len(encode_frame(Message[n]))
      <3>1. CASE n # 0
        <4>1. n \in 1 .. s /\ n - 1 \in 0 .. s
          BY <1>1, <3>1
        <4> QED
          BY <1>1, <3>1, <4>1
      <3> QED
        BY <1>1, <3>1
    <2>2. r = [n \in 0 .. s |-> r[n]]
      OBVIOUS
    <2> HIDE DEF r
    <2> QED
      BY <2>1, <2>2
  <1>3. Sums(end)
    <2> HIDE DEF Sums, r
    <2> QED
      BY <1>2
  <1>4. (LET end1[n \in 0 .. s] == IF n = 0 THEN 0 ELSE end1[n - 1] + Len(encode_frame(Message[n]))
         IN {n \in 1 .. s : end1[n] <= l})
          = {n \in 1 .. s : end[n] <= l}
    OBVIOUS
  <1> HIDE DEF end
  <1>5. \A n \in 0 .. s : end[n] = IF n = 0 THEN 0 ELSE end[n - 1] + Len(encode_frame(Message[n]))
    BY <1>3
  <1>6. 0 \in T
    BY <1>1, <1>5
  <1>7. ASSUME NEW n \in 1 .. s, n - 1 \in T
        PROVE  n \in T
    <2>1. n \in 0 .. s /\ n # 0
      BY <1>1
    <2>2. end[n - 1] = End[n - 1]
      BY <1>7
    <2> QED
      BY <1>1, <1>5, <2>1, <2>2
  <1> HIDE DEF T
  <1>8. 0 .. s \subseteq T
    BY <1>1, <1>6, <1>7, BoundedInduction
  <1>9. \A n \in 1 .. s : end[n] = End[n]
    BY <1>1, <1>8 DEF T
  <1>10. {n \in 1 .. s : end[n] <= l} = {n \in 1 .. s : End[n] <= l}
    BY <1>9
  <1> QED
    BY <1>4, <1>10

LEMMA ArrivedFacts ==
  /\ sent \in 0 .. Len(Message) => Arrived = {n \in 1 .. sent : End[n] <= read}
  /\ sent' \in 0 .. Len(Message) => Arrived' = {n \in 1 .. sent' : End[n] <= read'}
  BY ArrivedSums DEF Arrived

LEMMA CountUpTo ==
  ASSUME NEW n \in Nat
  PROVE  Cardinality(1 .. n) = n
  <1>1. 1 \in Int /\ n \in Int
    OBVIOUS
  <1>2. Cardinality(1 .. n) = IF 1 > n THEN 0 ELSE n - 1 + 1
    BY <1>1, FS_Interval
  <1> QED
    BY <1>2

(* Exactly the frames up to the k-th end within the bytes read.             *)
LEMMA ArrivedUpTo ==
  ASSUME sent \in 0 .. Len(Message), read \in Nat, NEW k \in 0 .. sent,
         End[k] <= read, k < sent => read < End[k + 1]
  PROVE  Arrived = 1 .. k /\ Cardinality(Arrived) = k
  <1>1. Len(Message) \in Nat /\ sent \in Nat /\ k \in Nat /\ k \in 0 .. Len(Message)
    BY EndStep
  <1>2. ASSUME NEW n \in 1 .. sent
        PROVE  End[n] <= read <=> n <= k
    <2>1. n \in 0 .. Len(Message) /\ n \in Nat
      BY <1>1
    <2>2. End[n] \in Nat /\ End[k] \in Nat
      BY <1>1, <2>1, EndStep
    <2>3. CASE n <= k
      <3>1. End[n] <= End[k]
        BY <1>1, <2>1, <2>3, EndGrows
      <3> QED
        BY <2>2, <2>3, <3>1
    <2>4. CASE ~ (n <= k)
      <3>1. k < sent /\ k + 1 \in 0 .. Len(Message) /\ k + 1 <= n
        BY <1>1, <2>1, <2>4
      <3>2. End[k + 1] <= End[n] /\ End[k + 1] \in Nat
        BY <2>1, <3>1, EndGrows, EndStep
      <3> QED
        BY <2>2, <2>4, <3>1, <3>2
    <2> QED
      BY <2>3, <2>4
  <1>3. {n \in 1 .. sent : End[n] <= read} = 1 .. k
    <2>1. {n \in 1 .. sent : n <= k} = 1 .. k
      BY <1>1
    <2> QED
      BY <1>2, <2>1
  <1> QED
    BY <1>1, <1>3, ArrivedFacts, CountUpTo

(* The first frame of a stream of frames, and what is behind it. *)
LEMMA FirstFramed ==
  ASSUME NEW k \in 0 .. Len(Message), NEW m \in 0 .. Len(Message), k < m, NEW z, Framed(z, k, m)
  PROVE  /\ Size(k + 1) <= Len(z) /\ Len(z) \in Nat
         /\ \A i \in 1 .. Size(k + 1) : z[i] = encode_frame(Message[k + 1])[i]
  <1>1. Len(Message) \in Nat /\ k + 1 \in 1 .. Len(Message) /\ k + 1 \in 0 .. Len(Message) /\ k + 1 <= m
    BY EndStep
  <1>2. /\ End[k] \in Nat /\ End[m] \in Nat /\ Size(k + 1) \in Nat
        /\ End[k + 1] = End[k] + Size(k + 1) /\ End[k + 1] <= End[m]
    <2>1. (k + 1) - 1 = k
      OBVIOUS
    <2>2. End[k + 1] = End[(k + 1) - 1] + Size(k + 1)
      BY <1>1, EndStep
    <2> QED
      BY <1>1, <2>1, <2>2, EndStep, EndGrows, SizeFacts
  <1>3. Size(k + 1) <= Len(z) /\ Len(z) \in Nat
    <2>1. Len(z) = End[m] - End[k]
      BY DEF Framed
    <2> QED
      BY <1>2, <2>1
  <1>4. ASSUME NEW i \in 1 .. Size(k + 1)
        PROVE  z[i] = encode_frame(Message[k + 1])[i]
    <2>1. k + 1 \in (k + 1) .. m /\ (k + 1) - 1 = k
      BY <1>1
    <2>2. z[(End[(k + 1) - 1] - End[k]) + i] = encode_frame(Message[k + 1])[i]
      BY <2>1 DEF Framed
    <2>3. (End[k] - End[k]) + i = i
      BY <1>2
    <2> QED
      BY <2>1, <2>2, <2>3
  <1> QED
    BY <1>3, <1>4

LEMMA FramedBehind ==
  ASSUME NEW k \in 0 .. Len(Message), NEW m \in 0 .. Len(Message), k < m, NEW z, Framed(z, k, m),
         NEW u, Suffix(u, z, Size(k + 1))
  PROVE  Framed(u, k + 1, m)
  <1>1. /\ Len(Message) \in Nat /\ k + 1 \in 1 .. Len(Message) /\ k + 1 \in 0 .. Len(Message)
        /\ k + 1 <= m /\ (k + 1) - 1 = k
    BY EndStep
  <1>2. /\ End[k] \in Nat /\ End[m] \in Nat /\ Size(k + 1) \in Nat
        /\ End[k + 1] = End[k] + Size(k + 1)
    BY <1>1, EndStep, SizeFacts
  <1>3. Len(z) = End[m] - End[k] /\ Len(u) = Len(z) - Size(k + 1)
        /\ \A i \in 1 .. Len(u) : u[i] = z[i + Size(k + 1)]
    BY DEF Framed, Suffix
  <1>4. Len(u) = End[m] - End[k + 1]
    BY <1>2, <1>3
  <1>5. ASSUME NEW n \in ((k + 1) + 1) .. m, NEW i \in 1 .. Size(n)
        PROVE  u[(End[n - 1] - End[k + 1]) + i] = encode_frame(Message[n])[i]
    <2>1. n \in 1 .. Len(Message) /\ n \in 0 .. Len(Message) /\ n - 1 \in 0 .. Len(Message)
          /\ k + 1 <= n - 1 /\ n <= m /\ n \in (k + 1) .. m
      BY <1>1
    <2>2. /\ Size(n) \in Nat /\ End[n - 1] \in Nat /\ End[n] = End[n - 1] + Size(n)
          /\ End[n] <= End[m] /\ End[k + 1] <= End[n - 1] /\ End[k + 1] \in Nat
      BY <1>1, <2>1, EndStep, SizeFacts, EndGrows
    <2> DEFINE a == End[n - 1]
               b == End[k + 1]
               c == End[m]
    <2>3. (a - b) + i \in 1 .. Len(u)
      <3>1. a \in Nat /\ b \in Nat /\ c \in Nat /\ Size(n) \in Nat /\ a + Size(n) <= c /\ b <= a /\ Len(u) = c - b
        BY <1>2, <1>4, <2>2
      <3> HIDE DEF a, b, c
      <3> QED
        BY <3>1
    <2>4. ((a - b) + i) + Size(k + 1) = (a - End[k]) + i
      <3>1. PICK e \in Nat, l \in Nat : e = End[k] /\ l = Size(k + 1)
        BY <1>2
      <3>2. a \in Nat /\ b = e + l
        BY <1>2, <2>2, <3>1
      <3> HIDE DEF a, b
      <3>3. ((a - b) + i) + l = (a - e) + i
        BY <3>2
      <3> QED
        BY <3>1, <3>3
    <2>5. z[(End[n - 1] - End[k]) + i] = encode_frame(Message[n])[i]
      BY <2>1 DEF Framed
    <2> QED
      BY <1>3, <2>3, <2>4, <2>5
  <1> QED
    BY <1>4, <1>5 DEF Framed

(* Without its first bytes, what the buffer and the line hold together.     *)
LEMMA SuffixConcat ==
  ASSUME NEW s \in Seq(Byte), NEW w \in Seq(Byte), NEW k, NEW t, Suffix(t, s, k)
  PROVE  Suffix(t \o w, s \o w, k)
  <1>1. /\ k \in 0 .. Len(s) /\ t \in Seq(Byte) /\ Len(t) = Len(s) - k
        /\ \A i \in 1 .. Len(t) : t[i] = s[i + k]
    BY DEF Suffix
  <1>2. /\ s \o w \in Seq(Byte) /\ Len(s \o w) = Len(s) + Len(w)
        /\ \A i \in 1 .. Len(s) : (s \o w)[i] = s[i]
        /\ \A i \in 1 .. Len(w) : (s \o w)[i + Len(s)] = w[i]
    BY ConcatFacts
  <1>3. /\ t \o w \in Seq(Byte) /\ Len(t \o w) = Len(t) + Len(w)
        /\ \A i \in 1 .. Len(t) : (t \o w)[i] = t[i]
        /\ \A i \in 1 .. Len(w) : (t \o w)[i + Len(t)] = w[i]
    <2>1. PICK v \in Seq(Byte) : v = t
      BY <1>1
    <2>2. /\ v \o w \in Seq(Byte) /\ Len(v \o w) = Len(v) + Len(w)
          /\ \A i \in 1 .. Len(v) : (v \o w)[i] = v[i]
          /\ \A i \in 1 .. Len(w) : (v \o w)[i + Len(v)] = w[i]
      BY ConcatFacts
    <2> QED
      BY <2>1, <2>2
  <1>4. Len(s) \in Nat /\ Len(w) \in Nat /\ k \in Nat /\ Len(t) \in Nat
    BY <1>1
  <1> DEFINE a == s \o w
             b == t \o w
  <1> HIDE DEF a, b
  <1>5. ASSUME NEW i \in 1 .. (Len(t) + Len(w))
        PROVE  b[i] = a[i + k]
    <2>1. CASE i <= Len(t)
      <3>1. i \in 1 .. Len(t) /\ i + k \in 1 .. Len(s)
        BY <1>1, <1>4, <2>1
      <3> QED
        BY <1>1, <1>2, <1>3, <3>1 DEF a, b
    <2>2. CASE ~ (i <= Len(t))
      <3>1. PICK j \in 1 .. Len(w) : j = i - Len(t)
        <4>1. i - Len(t) \in 1 .. Len(w)
          BY <1>4, <2>2
        <4> QED
          BY <4>1
      <3>2. j + Len(t) = i /\ j + Len(s) = i + k
        BY <1>1, <1>4, <3>1
      <3> QED
        BY <1>2, <1>3, <3>2 DEF a, b
    <2> QED
      BY <2>1, <2>2
  <1>6. k \in 0 .. (Len(s) + Len(w)) /\ Len(t) + Len(w) = (Len(s) + Len(w)) - k
    BY <1>1, <1>4
  <1> QED
    BY <1>2, <1>3, <1>5, <1>6 DEF Suffix, a, b

LEMMA AlignShort ==
  ASSUME NEW s \in Seq(Byte), Len(s) < 2
  PROVE  Align(s) = <<>>
  <1>1. Len(s) \in Nat
    OBVIOUS
  <1>2. 1 .. (Len(s) - 1) = {}
    BY <1>1
  <1>3. Starts(s) = {}
    BY <1>2 DEF Starts
  <1> QED
    BY <1>3 DEF Align

LEMMA AlignAtMark ==
  ASSUME NEW s \in Seq(Byte), Len(s) >= 2, s[1] = Mark1, s[2] = Mark2
  PROVE  Align(s) = s
  <1>1. Len(s) \in Nat
    OBVIOUS
  <1> DEFINE T == Starts(s)
  <1>2. T \in SUBSET Nat /\ 1 \in T /\ \A i \in T : 1 <= i
    <2>1. 1 \in 1 .. (Len(s) - 1) /\ 1 + 1 = 2
      BY <1>1
    <2> QED
      BY <1>1, <2>1 DEF Starts
  <1> HIDE DEF T
  <1>3. Min(T) = 1
    <2>1. Min(T) \in T /\ \A i \in T : Min(T) <= i
      BY <1>2, LeastNat DEF Min
    <2>2. Min(T) \in Nat /\ Min(T) <= 1 /\ 1 <= Min(T)
      BY <1>2, <2>1
    <2> QED
      BY <2>2
  <1>4. Align(s) = Drop(s, 0)
    <2>1. Align(s) = IF T = {} THEN <<>> ELSE Drop(s, Min(T) - 1)
      BY DEF Align, T
    <2>2. 1 - 1 = 0
      OBVIOUS
    <2> QED
      BY <1>2, <1>3, <2>1, <2>2
  <1>5. 0 \in 0 .. Len(s) /\ Len(s) - 0 = Len(s) /\ \A i \in 1 .. Len(s) : i + 0 = i
    BY <1>1
  <1>6. /\ Drop(s, 0) \in Seq(Byte) /\ Len(Drop(s, 0)) = Len(s)
        /\ \A i \in 1 .. Len(s) : Drop(s, 0)[i] = s[i]
    <2>1. /\ Drop(s, 0) \in Seq(Byte) /\ Len(Drop(s, 0)) = Len(s) - 0
          /\ \A i \in 1 .. (Len(s) - 0) : Drop(s, 0)[i] = s[i + 0]
      BY <1>5, DropFacts
    <2> QED
      BY <1>5, <2>1
  <1>7. Drop(s, 0) = s
    BY <1>6
  <1> QED
    BY <1>4, <1>7

(* The decoder keeps the beginning of a frame, takes a whole one, and       *)
(* clears a lone first byte of a start mark.                                *)
LEMMA PassFramed ==
  ASSUME NEW d \in Decoding, d.loop = "on", NEW w \in Seq(Byte),
         NEW k \in 0 .. Len(Message), NEW m \in 0 .. Len(Message), k <= m, Framed(d.left \o w, k, m),
         k < m /\ Size(k + 1) <= Len(d.left) => Known(k + 1)
  PROVE  \/ /\ k < m /\ Pass(d).loop = "on" /\ Len(Pass(d).got) = Len(d.got) + 1
            /\ Len(Pass(d).left) < Len(d.left) /\ Framed(Pass(d).left \o w, k + 1, m)
         \/ /\ Pass(d).loop = "ended" /\ Pass(d).got = d.got
            /\ Pass(d).left = d.left /\ (k < m => Len(d.left) < Size(k + 1))
         \/ /\ Pass(d).loop = "ended" /\ Pass(d).got = d.got
            /\ Pass(d).left = <<>> /\ Len(d.left) = 1 /\ d.left[1] = Mark1
  <1> DEFINE s == d.left
             x == encode_frame(Message[k + 1])
  <1>1. s \in Seq(Byte) /\ Len(s) \in Nat /\ d.got \in Seq(HostFrame) /\ Len(w) \in Nat
    BY DEF Decoding
  <1>2. /\ s \o w \in Seq(Byte) /\ Len(s \o w) = Len(s) + Len(w)
        /\ \A i \in 1 .. Len(s) : (s \o w)[i] = s[i]
    <2>1. PICK v \in Seq(Byte) : v = s
      BY <1>1
    <2>2. /\ v \o w \in Seq(Byte) /\ Len(v \o w) = Len(v) + Len(w)
          /\ \A i \in 1 .. Len(v) : (v \o w)[i] = v[i]
      BY ConcatFacts
    <2> QED
      BY <2>1, <2>2
  <1>3. k < m => /\ k + 1 \in 1 .. Len(Message) /\ k + 1 \in 1 .. m
    BY EndStep
  <1>4. k < m => /\ x \in Seq(Byte) /\ Len(x) = Size(k + 1) /\ Size(k + 1) \in Nat /\ Size(k + 1) >= 5
                 /\ x[1] = Mark1 /\ x[2] = Mark2 /\ x[3] = Message[k + 1].type
                 /\ x[4] = <<Size(k + 1) - 5>>
    BY <1>3, SizeFacts
  <1>5. ASSUME k < m, NEW i \in 1 .. Len(s), i <= Size(k + 1)
        PROVE  s[i] = x[i]
    <2>1. i \in 1 .. Size(k + 1)
      BY <1>1, <1>4, <1>5
    <2>2. (s \o w)[i] = x[i]
      BY <1>5, <2>1, FirstFramed
    <2> QED
      BY <1>2, <2>2
  <1>6. CASE Len(s) < 2
    <2>1. Align(s) = <<>> /\ Len(Align(s)) = 0
      BY <1>1, <1>6, AlignShort
    <2>2. 0 < HeaderSize + CrcSize
      BY DEF HeaderSize, CrcSize
    <2>3. Pass(d) = [d EXCEPT !.left = Align(s), !.loop = "ended"]
      BY <2>1, <2>2 DEF Pass
    <2>4. Pass(d).loop = "ended" /\ Pass(d).got = d.got /\ Pass(d).left = <<>>
      BY <2>1, <2>3 DEF Decoding
    <2>5. CASE Len(s) = 0
      <3>1. s = <<>>
        BY <1>1, <2>5
      <3>2. k < m => Len(s) < Size(k + 1)
        BY <1>4, <2>5
      <3> QED
        BY <2>4, <3>1, <3>2
    <2>6. CASE Len(s) = 1
      <3>1. k < m
        <4>1. Len(s \o w) = End[m] - End[k] /\ Len(s \o w) > 0
          BY <1>1, <1>2, <2>6 DEF Framed
        <4>2. End[k] \in Nat
          BY EndStep
        <4>3. k # m
          BY <4>1, <4>2
        <4> QED
          BY <4>3
      <3>2. 1 \in 1 .. Len(s) /\ 1 <= Size(k + 1)
        BY <1>4, <2>6, <3>1
      <3>3. s[1] = Mark1
        BY <1>4, <1>5, <3>1, <3>2
      <3> QED
        BY <2>4, <2>6, <3>3
    <2>7. Len(s) = 0 \/ Len(s) = 1
      <3>1. PICK l \in Nat : l = Len(s)
        BY <1>1
      <3>2. l < 2
        BY <1>6, <3>1
      <3>3. l = 0 \/ l = 1
        BY <3>2
      <3> QED
        BY <3>1, <3>3
    <2> QED
      BY <2>5, <2>6, <2>7
  <1>7. CASE Len(s) >= 2
    <2>1. k < m
      <3>1. Len(s \o w) = End[m] - End[k] /\ Len(s \o w) > 0
        BY <1>1, <1>2, <1>7 DEF Framed
      <3>2. End[k] \in Nat
        BY EndStep
      <3>3. k # m
        BY <3>1, <3>2
      <3> QED
        BY <3>3
    <2> DEFINE L == Size(k + 1)
    <2>2. L \in Nat /\ L >= 5 /\ Len(x) = L /\ x \in Seq(Byte)
      BY <1>4, <2>1
    <2>3. Align(s) = s
      <3>1. 1 \in 1 .. Len(s) /\ 1 <= L /\ 2 \in 1 .. Len(s) /\ 2 <= L
        BY <1>1, <1>7, <2>2
      <3>2. s[1] = Mark1 /\ s[2] = Mark2
        BY <1>4, <1>5, <2>1, <3>1
      <3> QED
        BY <1>1, <1>7, <3>2, AlignAtMark
    <2>4. HeaderSize + CrcSize = 5
      BY DEF HeaderSize, CrcSize
    <2>5. Len(s) >= 5 => FrameEnd(s) = L
      <3>1. SUFFICES ASSUME Len(s) >= 5
                     PROVE  FrameEnd(s) = L
        OBVIOUS
      <3>2. 4 \in 1 .. Len(s) /\ 4 <= L
        BY <1>1, <2>2, <3>1
      <3>3. s[4] = <<L - 5>>
        BY <1>4, <1>5, <2>1, <3>2
      <3>4. s[4][1] = L - 5
        BY <3>3
      <3> HIDE DEF L
      <3> QED
        BY <2>2, <3>4 DEF FrameEnd, HeaderSize, CrcSize
    <2>6. CASE Len(s) < L
      <3>1. Len(s) < HeaderSize + CrcSize \/ Len(s) < FrameEnd(s)
        <4> HIDE DEF L
        <4> QED
          BY <1>1, <2>4, <2>5, <2>6
      <3>2. Pass(d) = [d EXCEPT !.left = s, !.loop = "ended"]
        BY <2>3, <3>1 DEF Pass
      <3>3. Pass(d).loop = "ended" /\ Pass(d).got = d.got /\ Pass(d).left = s
        BY <3>2 DEF Decoding
      <3> QED
        BY <2>6, <3>3
    <2>7. CASE L <= Len(s)
      <3>1. Len(s) >= 5 /\ FrameEnd(s) = L /\ L \in 0 .. Len(s)
        <4>1. Len(s) >= 5 /\ L \in 0 .. Len(s)
          BY <1>1, <2>2, <2>7
        <4> QED
          BY <2>5, <4>1
      <3>2. SubSeq(s, 1, L) = x
        <4>1. /\ SubSeq(s, 1, L) \in Seq(Byte) /\ Len(SubSeq(s, 1, L)) = L
              /\ \A i \in 1 .. L : SubSeq(s, 1, L)[i] = s[i]
          BY <1>1, <3>1, TakeFacts
        <4>2. ASSUME NEW i \in 1 .. L
              PROVE  s[i] = x[i]
          <5>1. i \in 1 .. Len(s) /\ i <= L
            BY <2>2, <3>1
          <5> QED
            BY <1>5, <2>1, <5>1
        <4> HIDE DEF s, x, L
        <4> QED
          BY <2>2, <4>1, <4>2
      <3>3. CrcValid(x) /\ x[3] \in MessageType
        <4>1. Message[k + 1] \in [type : Byte, payload : Seq(Byte)]
          BY <1>3, <2>1, MessageFacts
        <4>2. Message[k + 1].type \in MessageType
          BY <2>1, <2>7 DEF Known
        <4> QED
          BY <1>4, <2>1, <4>1, <4>2, EncodeCrc
      <3> DEFINE rest == Drop(s, L)
                 frame == [type |-> x[3], payload |-> SubSeq(x, 5, L - 1)]
      <3>4. Pass(d) = [d EXCEPT !.left = rest, !.got = Append(@, frame)]
        <4>1. ~ (Len(s) < HeaderSize + CrcSize \/ Len(s) < FrameEnd(s))
          <5> HIDE DEF L
          <5> QED
            BY <1>1, <2>2, <2>4, <2>7, <3>1
        <4> HIDE DEF L, x
        <4> QED
          BY <2>3, <3>1, <3>2, <3>3, <4>1 DEF Pass
      <3> HIDE DEF frame
      <3>5. Pass(d).loop = "on" /\ Pass(d).got = Append(d.got, frame) /\ Pass(d).left = rest
        <4> HIDE DEF rest
        <4> QED
          BY <3>4 DEF Decoding
      <3>6. Len(Append(d.got, frame)) = Len(d.got) + 1
        BY <1>1
      <3>7. Suffix(rest, s, L)
        BY <1>1, <3>1, DropSuffix
      <3>8. Len(rest) < Len(s)
        <4>1. Len(rest) = Len(s) - L
          BY <3>7 DEF Suffix
        <4> HIDE DEF rest, L
        <4> QED
          BY <1>1, <2>2, <4>1
      <3>9. Suffix(rest \o w, s \o w, L)
        <4> HIDE DEF rest, L
        <4> QED
          BY <1>1, <3>7, SuffixConcat
      <3>10. Framed(rest \o w, k + 1, m)
        <4> HIDE DEF rest
        <4> QED
          BY <2>1, <3>9, FramedBehind
      <3> QED
        BY <2>1, <3>5, <3>6, <3>8, <3>10
    <2> QED
      BY <1>1, <2>2, <2>6, <2>7
  <1> QED
    BY <1>1, <1>6, <1>7

(* What a call of decode_frames leaves of such a stream. *)
LEMMA DecodeFramed ==
  ASSUME NEW bytes \in Seq(Byte), NEW w \in Seq(Byte),
         NEW k \in 0 .. Len(Message), NEW m \in 0 .. Len(Message), k <= m, Framed(bytes \o w, k, m),
         \A n \in (k + 1) .. m : End[n] - End[k] <= Len(bytes) => Known(n)
  PROVE  LET d == decode_frames(bytes)
         IN /\ d.loop = "ended" /\ k + Len(d.got) <= m
            /\ \/ Rests(d.left, w, k + Len(d.got), m)
               \/ d.left = <<>> /\ Last(bytes) = Mark1
  <1> DEFINE N == Len(bytes) + 1
             Ok(d, n) ==
               /\ \E j \in Nat : Suffix(d.left, bytes, j)
               /\ k + Len(d.got) <= m
               /\ \/ /\ d.loop = "on" /\ Framed(d.left \o w, k + Len(d.got), m)
                     /\ Len(d.left) + n <= Len(bytes)
                  \/ d.loop = "ended" /\ Rests(d.left, w, k + Len(d.got), m)
                  \/ d.loop = "ended" /\ d.left = <<>> /\ Last(bytes) = Mark1
  <1>1. Len(bytes) \in Nat /\ N \in Nat /\ Len(Message) \in Nat /\ k \in Nat /\ m \in Nat
    BY EndStep
  <1>2. PICK g : /\ DecodeRun(g, bytes) /\ decode_frames(bytes) = g[N]
                 /\ \A n \in 0 .. N : g[n] \in Decoding
    BY DecodeRunExists
  <1>3. \A n \in 0 .. N : g[n] = IF n = 0 THEN [left |-> bytes, got |-> <<>>, loop |-> "on"]
                                 ELSE Pass(g[n - 1])
    BY <1>2 DEF DecodeRun
  <1> DEFINE T == {n \in 0 .. N : Ok(g[n], n)}
  <1> HIDE DEF N
  <1>4. 0 \in T
    <2>1. g[0] = [left |-> bytes, got |-> <<>>, loop |-> "on"]
      BY <1>1, <1>3
    <2>2. g[0].left = bytes /\ g[0].got = <<>> /\ g[0].loop = "on" /\ Len(g[0].got) = 0
      BY <2>1
    <2>3. Suffix(bytes, bytes, 0) /\ 0 \in Nat
      BY <1>1 DEF Suffix
    <2>4. k + 0 = k /\ Len(bytes) + 0 <= Len(bytes)
      BY <1>1
    <2>5. Ok(g[0], 0)
      BY <2>2, <2>3, <2>4
    <2> QED
      BY <1>1, <2>5
  <1>5. ASSUME NEW n \in 1 .. N, n - 1 \in T
        PROVE  n \in T
    <2> DEFINE d == g[n - 1]
               e == g[n]
    <2>1. n - 1 \in 0 .. N /\ n \in 0 .. N /\ n # 0 /\ n \in Nat
      BY <1>1
    <2>2. d \in Decoding /\ e = Pass(d) /\ Ok(d, n - 1)
      BY <1>2, <1>3, <1>5, <2>1
    <2>3. PICK j \in Nat : Suffix(d.left, bytes, j)
      BY <2>2
    <2>4. e \in Decoding /\ \E i \in Nat : Suffix(e.left, d.left, i)
      BY <2>2, PassFacts
    <2>5. PICK i \in Nat : Suffix(e.left, d.left, i)
      BY <2>4
    <2> HIDE DEF d, e
    <2>6. j + i \in Nat /\ Suffix(e.left, bytes, j + i)
      <3>1. j + i \in Nat
        OBVIOUS
      <3> QED
        BY <2>3, <2>5, <3>1, SuffixTwice
    <2>7. /\ d.got \in Seq(HostFrame) /\ e.got \in Seq(HostFrame) /\ Len(d.got) \in Nat
          /\ d.left \in Seq(Byte) /\ e.left \in Seq(Byte) /\ Len(d.left) \in Nat /\ Len(e.left) \in Nat
      BY <2>2, <2>4 DEF Decoding
    <2>8. CASE d.loop = "ended"
      <3>1. e = d
        BY <2>2, <2>8 DEF Pass
      <3>2. Ok(e, n)
        BY <2>2, <2>8, <3>1
      <3> QED
        BY <2>1, <3>2 DEF e
    <2>9. CASE d.loop = "on"
      <3> DEFINE q == k + Len(d.got)
      <3>1. Framed(d.left \o w, q, m) /\ Len(d.left) + (n - 1) <= Len(bytes) /\ q <= m
        BY <2>2, <2>9
      <3>2. q \in 0 .. Len(Message) /\ q \in Nat
        BY <1>1, <2>7, <3>1
      <3> HIDE DEF q
      <3>3. \/ /\ q < m /\ e.loop = "on" /\ Len(e.got) = Len(d.got) + 1
               /\ Len(e.left) < Len(d.left) /\ Framed(e.left \o w, q + 1, m)
            \/ /\ e.loop = "ended" /\ e.got = d.got
               /\ e.left = d.left /\ (q < m => Len(d.left) < Size(q + 1))
            \/ /\ e.loop = "ended" /\ e.got = d.got
               /\ e.left = <<>> /\ Len(d.left) = 1 /\ d.left[1] = Mark1
        <4>1. q < m /\ Size(q + 1) <= Len(d.left) => Known(q + 1)
          <5> SUFFICES ASSUME q < m, Size(q + 1) <= Len(d.left)
                       PROVE  Known(q + 1)
            OBVIOUS
          <5>1. q + 1 \in (k + 1) .. m /\ q + 1 \in 1 .. Len(Message) /\ (q + 1) - 1 = q
            BY <1>1, <2>7, <3>2 DEF q
          <5>2. End[q + 1] = End[q] + Size(q + 1) /\ Size(q + 1) \in Nat
            BY <5>1, EndStep, SizeFacts
          <5>3. Len(bytes) + Len(w) = End[m] - End[k] /\ Len(d.left) + Len(w) = End[m] - End[q]
            <6>1. Len(bytes \o w) = Len(bytes) + Len(w)
              BY ConcatFacts
            <6>2. Len(d.left \o w) = Len(d.left) + Len(w)
              <7>1. PICK v \in Seq(Byte) : v = d.left
                BY <2>7
              <7>2. Len(v \o w) = Len(v) + Len(w)
                BY ConcatFacts
              <7> QED
                BY <7>1, <7>2
            <6> QED
              BY <3>1, <6>1, <6>2 DEF Framed
          <5>4. PICK a \in Nat, b \in Nat, c \in Nat, l \in Nat, x \in Nat, y \in Nat, z \in Nat :
                  /\ a = End[k] /\ b = End[m] /\ c = End[q] /\ l = Len(bytes) /\ x = Len(w)
                  /\ y = Len(d.left) /\ z = Size(q + 1)
            <6>1. Len(w) \in Nat
              OBVIOUS
            <6> QED
              BY <1>1, <2>7, <3>2, <5>2, <6>1, EndStep
          <5>5. l + x = b - a /\ y + x = b - c /\ z <= y
            BY <5>3, <5>4
          <5>6. (c + z) - a <= l
            BY <5>5
          <5>7. End[q + 1] - End[k] <= Len(bytes)
            BY <5>2, <5>4, <5>6
          <5> QED
            BY <5>1, <5>7
        <4> QED
          BY <2>2, <2>9, <3>1, <3>2, <4>1, PassFramed
      <3>4. CASE /\ q < m /\ e.loop = "on" /\ Len(e.got) = Len(d.got) + 1
                 /\ Len(e.left) < Len(d.left) /\ Framed(e.left \o w, q + 1, m)
        <4>1. k + Len(e.got) = q + 1 /\ q + 1 <= m /\ Len(e.left) + n <= Len(bytes)
          <5>1. PICK a \in Nat, b \in Nat, c \in Nat, l \in Nat :
                  a = Len(d.got) /\ b = Len(d.left) /\ c = Len(e.left) /\ l = Len(bytes)
            BY <1>1, <2>7
          <5>2. k + (a + 1) = (k + a) + 1
            BY <1>1
          <5>3. q + 1 <= m
            BY <1>1, <3>2, <3>4
          <5>4. b + (n - 1) <= l /\ c < b
            BY <3>1, <3>4, <5>1
          <5>5. c + n <= l
            BY <2>1, <5>4
          <5> QED
            BY <3>4, <5>1, <5>2, <5>3, <5>5 DEF q
        <4>2. Ok(e, n)
          BY <2>6, <3>4, <4>1
        <4> QED
          BY <2>1, <4>2 DEF e
      <3>5. CASE /\ e.loop = "ended" /\ e.got = d.got
                 /\ e.left = d.left /\ (q < m => Len(d.left) < Size(q + 1))
        <4>1. Rests(e.left, w, q, m) /\ q = k + Len(e.got)
          BY <3>1, <3>5 DEF Rests, q
        <4>2. Ok(e, n)
          BY <2>6, <3>1, <3>5, <4>1
        <4> QED
          BY <2>1, <4>2 DEF e
      <3>6. CASE /\ e.loop = "ended" /\ e.got = d.got
                 /\ e.left = <<>> /\ Len(d.left) = 1 /\ d.left[1] = Mark1
        <4>1. 1 = Len(bytes) - j /\ d.left[1] = bytes[1 + j]
          <5>1. Len(d.left) = Len(bytes) - j /\ \A l \in 1 .. Len(d.left) : d.left[l] = bytes[l + j]
            BY <2>3 DEF Suffix
          <5>2. 1 \in 1 .. Len(d.left)
            BY <3>6
          <5> QED
            BY <3>6, <5>1, <5>2
        <4>2. 1 + j = Len(bytes)
          BY <1>1, <4>1
        <4>3. Last(bytes) = Mark1
          BY <3>6, <4>1, <4>2 DEF Last
        <4>4. q = k + Len(e.got)
          BY <3>6 DEF q
        <4>5. Ok(e, n)
          BY <2>6, <3>1, <3>6, <4>3, <4>4
        <4> QED
          BY <2>1, <4>5 DEF e
      <3> QED
        BY <3>3, <3>4, <3>5, <3>6
    <2> QED
      BY <2>2, <2>8, <2>9
  <1> HIDE DEF T
  <1>6. 0 .. N \subseteq T
    BY <1>1, <1>4, <1>5, BoundedInduction
  <1>7. N \in 0 .. N
    BY <1>1
  <1>8. Ok(g[N], N) /\ g[N] \in Decoding
    BY <1>2, <1>6, <1>7 DEF T
  <1>9. g[N].loop # "on"
    <2>1. Len(g[N].left) \in Nat
      BY <1>8 DEF Decoding
    <2>2. ~ (Len(g[N].left) + N <= Len(bytes))
      <3>1. PICK a \in Nat, l \in Nat : a = Len(g[N].left) /\ l = Len(bytes)
        BY <1>1, <2>1
      <3>2. ~ (a + (l + 1) <= l)
        OBVIOUS
      <3> QED
        BY <3>1, <3>2 DEF N
    <2> QED
      BY <1>8, <2>2
  <1> QED
    BY <1>2, <1>8, <1>9

-----------------------------------------------------------------------------
(* What the reader has not decoded yet is still in its buffer or on the     *)
(* line.                                                                    *)

NoneUnknown == \A n \in Arrived : Known(n)

(* With r the one reader. *)
InStep(r) ==
  /\ decoded <= sent /\ (read + Len(chunk[r])) + Len(wire) = End[sent]
  /\ Rests(buffer, chunk[r] \o wire, decoded, sent)

StreamInv ==
  \A r \in Readers : Readers = {r} /\ faults = 0 /\ ~split /\ NoneUnknown => InStep(r)

LEMMA StreamTypes ==
  ASSUME UplinkInv
  PROVE  /\ sent \in 0 .. Len(Message) /\ Len(Message) \in Nat /\ sent \in Nat
         /\ read \in Nat /\ decoded \in Nat /\ faults \in Nat
         /\ wire \in Seq(Byte) /\ buffer \in Seq(Byte) /\ Len(wire) \in Nat /\ Len(buffer) \in Nat
         /\ \A r \in Readers : chunk[r] \in Seq(Byte) /\ Len(chunk[r]) \in Nat
  <1>1. /\ sent \in 0 .. Len(Message) /\ Len(Message) \in Nat /\ read \in Nat /\ decoded \in Nat
        /\ faults \in 0 .. MaxFaults /\ wire \in Seq(Byte) /\ buffer \in Seq(Byte)
        /\ chunk \in [Readers -> Seq(Byte)]
    BY EndStep DEF UplinkInv, PathTypeOK
  <1>2. sent \in Nat /\ faults \in Nat
    BY <1>1, PathConstants
  <1>3. ASSUME NEW r \in Readers
        PROVE  chunk[r] \in Seq(Byte) /\ Len(chunk[r]) \in Nat
    <2>1. chunk[r] \in Seq(Byte)
      BY <1>1
    <2> QED
      BY <2>1
  <1> QED
    BY <1>1, <1>2, <1>3

(* No frame that has arrived goes away. *)
LEMMA ArrivedStays ==
  ASSUME sent \in 0 .. Len(Message), sent' \in 0 .. Len(Message), sent <= sent',
         read \in Nat, read' \in Nat, read <= read', NoneUnknown'
  PROVE  NoneUnknown
  <1> SUFFICES ASSUME NEW n \in Arrived
               PROVE  Known(n)
    BY DEF NoneUnknown
  <1>1. Len(Message) \in Nat /\ n \in 1 .. sent /\ End[n] <= read
    BY ArrivedFacts, EndStep
  <1>2. n \in 1 .. sent' /\ n \in 0 .. Len(Message)
    BY <1>1
  <1>3. End[n] <= read'
    <2>1. End[n] \in Nat
      BY <1>2, EndStep
    <2> QED
      BY <1>1, <2>1
  <1>4. n \in Arrived'
    BY <1>2, <1>3, ArrivedFacts
  <1> QED
    BY <1>4 DEF NoneUnknown, Known

(* Where the decoder is in the stream. *)
LEMMA InStepPlace ==
  ASSUME UplinkInv, NEW r \in Readers, InStep(r)
  PROVE  decoded \in 0 .. Len(Message) /\ read = End[decoded] + Len(buffer)
  <1>1. /\ sent \in 0 .. Len(Message) /\ Len(Message) \in Nat /\ sent \in Nat /\ read \in Nat
        /\ decoded \in Nat /\ wire \in Seq(Byte) /\ buffer \in Seq(Byte) /\ chunk[r] \in Seq(Byte)
        /\ Len(wire) \in Nat /\ Len(buffer) \in Nat /\ Len(chunk[r]) \in Nat
    BY StreamTypes
  <1>2. /\ decoded <= sent /\ (read + Len(chunk[r])) + Len(wire) = End[sent]
        /\ Len(buffer \o (chunk[r] \o wire)) = End[sent] - End[decoded]
    BY DEF InStep, Rests, Framed
  <1>3. decoded \in 0 .. Len(Message)
    BY <1>1, <1>2
  <1>4. PICK a \in Nat, b \in Nat, l \in Nat, v \in Nat, u \in Nat :
          a = End[decoded] /\ b = End[sent] /\ l = Len(buffer) /\ v = Len(wire) /\ u = Len(chunk[r])
    BY <1>1, <1>3, EndStep
  <1>5. l + (u + v) = b - a
    <2>1. PICK c \in Seq(Byte) : c = chunk[r]
      BY <1>1
    <2>2. c \o wire \in Seq(Byte) /\ Len(c \o wire) = Len(c) + Len(wire)
      BY <1>1, ConcatFacts
    <2>3. Len(buffer \o (c \o wire)) = Len(buffer) + Len(c \o wire)
      BY <1>1, <2>2, ConcatFacts
    <2> QED
      BY <1>2, <1>4, <2>1, <2>2, <2>3
  <1>6. (read + u) + v = b
    BY <1>2, <1>4
  <1>7. read = a + l
    BY <1>1, <1>5, <1>6
  <1> QED
    BY <1>3, <1>4, <1>7

(* Such a state decodes every frame that has arrived, and no other. *)
LEMMA InStepDecodes ==
  ASSUME UplinkInv, NEW r \in Readers, InStep(r)
  PROVE  decoded = Cardinality(Arrived)
  <1>1. /\ sent \in 0 .. Len(Message) /\ Len(Message) \in Nat /\ sent \in Nat /\ read \in Nat
        /\ decoded \in Nat /\ Len(buffer) \in Nat
    BY StreamTypes
  <1>2. /\ decoded <= sent /\ decoded \in 0 .. Len(Message) /\ read = End[decoded] + Len(buffer)
        /\ decoded < sent => Len(buffer) < Size(decoded + 1)
    BY InStepPlace DEF InStep, Rests
  <1>3. End[decoded] \in Nat /\ decoded \in 0 .. sent
    BY <1>1, <1>2, EndStep
  <1>4. End[decoded] <= read
    BY <1>1, <1>2, <1>3
  <1>5. ASSUME decoded < sent
        PROVE  read < End[decoded + 1]
    <2>1. decoded + 1 \in 1 .. Len(Message) /\ (decoded + 1) - 1 = decoded
      BY <1>1, <1>3, <1>5
    <2>2. End[decoded + 1] = End[decoded] + Size(decoded + 1) /\ Size(decoded + 1) \in Nat
      BY <2>1, EndStep, SizeFacts
    <2> QED
      BY <1>1, <1>2, <1>3, <1>5, <2>2
  <1> QED
    BY <1>1, <1>3, <1>4, <1>5, ArrivedUpTo

(* A frame written behind a stream of frames. *)
LEMMA FramedAppend ==
  ASSUME NEW k \in 0 .. Len(Message), NEW m \in 0 .. Len(Message), k <= m, m < Len(Message),
         NEW z \in Seq(Byte), Framed(z, k, m), NEW y \in Seq(Byte),
         Len(y) = Len(z) + Size(m + 1),
         \A i \in 1 .. Len(z) : y[i] = z[i],
         \A i \in 1 .. Size(m + 1) : y[i + Len(z)] = encode_frame(Message[m + 1])[i]
  PROVE  Framed(y, k, m + 1)
  <1>1. /\ Len(Message) \in Nat /\ m + 1 \in 1 .. Len(Message) /\ m + 1 \in 0 .. Len(Message)
        /\ (m + 1) - 1 = m /\ m \in Nat /\ k \in Nat
    BY EndStep
  <1>2. /\ End[k] \in Nat /\ End[m] \in Nat /\ Size(m + 1) \in Nat
        /\ End[m + 1] = End[m] + Size(m + 1) /\ Len(z) = End[m] - End[k] /\ Len(z) \in Nat
    <2>1. Len(z) = End[m] - End[k]
      BY DEF Framed
    <2> QED
      <3>1. End[k] \in Nat /\ End[m] \in Nat
        BY EndStep
      <3>2. End[m + 1] = End[(m + 1) - 1] + Size(m + 1)
        BY <1>1, EndStep
      <3>3. Size(m + 1) \in Nat
        BY <1>1, SizeFacts
      <3> QED
        BY <1>1, <2>1, <3>1, <3>2, <3>3
  <1>3. Len(y) = End[m + 1] - End[k]
    <2>1. PICK a \in Nat, b \in Nat, c \in Nat : a = End[k] /\ b = End[m] /\ c = Size(m + 1)
      BY <1>2
    <2>2. (b - a) + c = (b + c) - a
      OBVIOUS
    <2> QED
      BY <1>2, <2>1, <2>2
  <1>4. ASSUME NEW n \in (k + 1) .. (m + 1), NEW i \in 1 .. Size(n)
        PROVE  y[(End[n - 1] - End[k]) + i] = encode_frame(Message[n])[i]
    <2>1. CASE n = m + 1
      <3>1. (End[n - 1] - End[k]) + i = i + Len(z)
        <4>1. PICK a \in Nat, b \in Nat : a = End[k] /\ b = End[m]
          BY <1>2
        <4>2. i \in Nat
          BY <1>2, <2>1
        <4>3. (b - a) + i = i + (b - a)
          BY <4>2
        <4> QED
          BY <1>1, <1>2, <2>1, <4>1, <4>3
      <3>2. i \in 1 .. Size(m + 1) /\ n = m + 1
        BY <2>1
      <3> QED
        BY <3>1, <3>2
    <2>2. CASE n # m + 1
      <3>1. /\ n \in (k + 1) .. m /\ n \in 1 .. Len(Message) /\ n \in 0 .. Len(Message)
            /\ n - 1 \in 0 .. Len(Message) /\ k <= n - 1 /\ n <= m
        BY <1>1, <2>2
      <3>2. /\ End[n - 1] \in Nat /\ End[n] = End[n - 1] + Size(n) /\ Size(n) \in Nat
            /\ End[n] <= End[m] /\ End[k] <= End[n - 1]
        BY <3>1, EndStep, EndGrows, SizeFacts
      <3>3. (End[n - 1] - End[k]) + i \in 1 .. Len(z)
        <4>1. PICK a \in Nat, b \in Nat, c \in Nat, l \in Nat :
                a = End[k] /\ b = End[m] /\ c = End[n - 1] /\ l = Size(n)
          BY <1>2, <3>2
        <4>2. c + l <= b /\ a <= c /\ Len(z) = b - a /\ i \in 1 .. l
          BY <1>2, <3>2, <4>1
        <4>3. (c - a) + i \in 1 .. (b - a)
          BY <4>2
        <4> QED
          BY <4>1, <4>2, <4>3
      <3>4. z[(End[n - 1] - End[k]) + i] = encode_frame(Message[n])[i]
        BY <3>1 DEF Framed
      <3> QED
        BY <3>3, <3>4
    <2> QED
      BY <2>1, <2>2
  <1> QED
    BY <1>3, <1>4 DEF Framed

LEMMA SameSeq ==
  ASSUME NEW s \in Seq(Byte), NEW t \in Seq(Byte), Len(s) = Len(t), \A i \in 1 .. Len(s) : s[i] = t[i]
  PROVE  s = t
  OBVIOUS

LEMMA ConcatAssoc ==
  ASSUME NEW s \in Seq(Byte), NEW t \in Seq(Byte), NEW u \in Seq(Byte)
  PROVE  (s \o t) \o u = s \o (t \o u)
  OBVIOUS

LEMMA TakeDrop ==
  ASSUME NEW s \in Seq(Byte), NEW n \in 0 .. Len(s)
  PROVE  SubSeq(s, 1, n) \o Drop(s, n) = s
  <1>1. /\ SubSeq(s, 1, n) \in Seq(Byte) /\ Len(SubSeq(s, 1, n)) = n
        /\ \A i \in 1 .. n : SubSeq(s, 1, n)[i] = s[i]
    BY TakeFacts
  <1>2. /\ Drop(s, n) \in Seq(Byte) /\ Len(Drop(s, n)) = Len(s) - n
        /\ \A i \in 1 .. (Len(s) - n) : Drop(s, n)[i] = s[i + n]
    BY DropFacts
  <1>3. PICK a \in Seq(Byte), b \in Seq(Byte) : a = SubSeq(s, 1, n) /\ b = Drop(s, n)
    BY <1>1, <1>2
  <1>4. Len(a) = n /\ Len(b) = Len(s) - n /\ Len(s) \in Nat /\ n \in Nat
    BY <1>1, <1>2, <1>3
  <1>5. /\ a \o b \in Seq(Byte) /\ Len(a \o b) = n + (Len(s) - n)
        /\ \A i \in 1 .. n : (a \o b)[i] = a[i]
        /\ \A i \in 1 .. (Len(s) - n) : (a \o b)[i + n] = b[i]
    <2>1. /\ a \o b \in Seq(Byte) /\ Len(a \o b) = Len(a) + Len(b)
          /\ \A i \in 1 .. Len(a) : (a \o b)[i] = a[i]
          /\ \A i \in 1 .. Len(b) : (a \o b)[i + Len(a)] = b[i]
      BY ConcatFacts
    <2> QED
      BY <1>4, <2>1
  <1>6. ASSUME NEW i \in 1 .. Len(s)
        PROVE  (a \o b)[i] = s[i]
    <2>1. CASE i <= n
      <3>1. i \in 1 .. n
        BY <1>4, <2>1
      <3> QED
        BY <1>1, <1>3, <1>5, <3>1
    <2>2. CASE ~ (i <= n)
      <3>1. i - n \in 1 .. (Len(s) - n) /\ (i - n) + n = i
        BY <1>4, <2>2
      <3>2. PICK j \in 1 .. (Len(s) - n) : j + n = i
        BY <3>1
      <3> QED
        BY <1>2, <1>3, <1>5, <3>2
    <2> QED
      BY <2>1, <2>2
  <1>7. Len(a \o b) = Len(s)
    BY <1>4, <1>5
  <1>8. a \o b = s
    BY <1>5, <1>6, <1>7, SameSeq
  <1> QED
    BY <1>3, <1>8

LEMMA WriteFramed ==
  ASSUME NEW k \in 0 .. Len(Message), NEW m \in 0 .. Len(Message), k <= m, m < Len(Message),
         NEW s \in Seq(Byte), NEW w \in Seq(Byte), Framed(s \o w, k, m)
  PROVE  Framed((s \o w) \o encode_frame(Message[m + 1]), k, m + 1)
  <1>1. m + 1 \in 1 .. Len(Message)
    BY EndStep
  <1>2. PICK x \in Seq(Byte) : x = encode_frame(Message[m + 1])
    BY <1>1, SizeFacts
  <1>3. Len(x) = Size(m + 1)
    BY <1>2 DEF Size
  <1>4. PICK z \in Seq(Byte) : z = s \o w
    BY ConcatFacts
  <1>5. PICK y \in Seq(Byte) : y = z \o x
    BY ConcatFacts
  <1>6. /\ Len(z \o x) = Len(z) + Len(x)
        /\ \A i \in 1 .. Len(z) : (z \o x)[i] = z[i]
        /\ \A i \in 1 .. Len(x) : (z \o x)[i + Len(z)] = x[i]
    BY ConcatFacts
  <1>7. /\ Len(y) = Len(z) + Size(m + 1)
        /\ \A i \in 1 .. Len(z) : y[i] = z[i]
        /\ \A i \in 1 .. Size(m + 1) : y[i + Len(z)] = encode_frame(Message[m + 1])[i]
    BY <1>2, <1>3, <1>5, <1>6
  <1>8. Framed(z, k, m)
    BY <1>4
  <1>9. Framed(y, k, m + 1)
    BY <1>7, <1>8, FramedAppend
  <1> QED
    BY <1>2, <1>4, <1>5, <1>9

LEMMA WriteInStep ==
  ASSUME UplinkInv, StreamInv, WriteFrame
  PROVE  StreamInv'
  <1>1. /\ sent \in 0 .. Len(Message) /\ Len(Message) \in Nat /\ sent \in Nat /\ read \in Nat
        /\ decoded \in Nat /\ wire \in Seq(Byte) /\ buffer \in Seq(Byte)
        /\ Len(wire) \in Nat /\ Len(buffer) \in Nat
    BY StreamTypes
  <1> DEFINE x == encode_frame(Message[sent + 1])
  <1>2. /\ sent < Len(Message) /\ sent' = sent + 1 /\ wire' = wire \o x
        /\ UNCHANGED <<chunk, buffer, read, decoded, faults, split>>
    BY DEF WriteFrame
  <1>3. sent + 1 \in 1 .. Len(Message) /\ (sent + 1) - 1 = sent
    BY <1>1, <1>2
  <1>4. x \in Seq(Byte) /\ Len(x) = Size(sent + 1) /\ Size(sent + 1) \in Nat /\ Size(sent + 1) >= 5
    BY <1>3, SizeFacts
  <1>5. End[sent + 1] = End[sent] + Size(sent + 1)
    BY <1>3, EndStep
  <1>6. NoneUnknown' => NoneUnknown
    BY <1>1, <1>2, ArrivedStays
  <1> SUFFICES ASSUME NEW r \in Readers, InStep(r)
               PROVE  InStep(r)'
    BY <1>2, <1>6 DEF StreamInv
  <1>7. PICK c \in Seq(Byte) : c = chunk[r] /\ Len(c) \in Nat
    BY StreamTypes
  <1>8. PICK v \in Seq(Byte) : v = c \o wire /\ Len(v) = Len(c) + Len(wire)
    BY <1>1, <1>7, ConcatFacts
  <1>9. /\ decoded <= sent /\ (read + Len(c)) + Len(wire) = End[sent]
        /\ Framed(buffer \o v, decoded, sent) /\ (decoded < sent => Len(buffer) < Size(decoded + 1))
    BY <1>7, <1>8 DEF InStep, Rests
  <1>10. decoded <= sent' /\ decoded \in 0 .. Len(Message)
    BY <1>1, <1>2, <1>9
  <1>11. Framed((buffer \o v) \o x, decoded, sent')
    BY <1>1, <1>2, <1>9, <1>10, WriteFramed
  <1> HIDE DEF x
  <1>12. wire' \in Seq(Byte) /\ Len(wire') = Len(wire) + Len(x)
    BY <1>1, <1>2, <1>4, ConcatFacts
  <1>13. (read + Len(c)) + Len(wire') = End[sent']
    <2>1. PICK a \in Nat, l \in Nat, k \in Nat : a = Len(wire) /\ l = Len(x) /\ k = Len(c)
      BY <1>1, <1>4, <1>7
    <2>2. (read + k) + (a + l) = ((read + k) + a) + l
      BY <1>1
    <2> QED
      BY <1>2, <1>4, <1>5, <1>9, <1>12, <2>1, <2>2
  <1>14. Framed(buffer \o (c \o wire'), decoded, sent')
    <2>1. PICK a \in Seq(Byte), b \in Seq(Byte), y \in Seq(Byte) : a = buffer /\ b = wire /\ y = x
      BY <1>1, <1>4
    <2>2. (a \o v) \o y = a \o (v \o y)
      BY ConcatAssoc, ZenonT(40)
    <2>3. (c \o b) \o y = c \o (b \o y)
      BY ConcatAssoc, ZenonT(40)
    <2> QED
      BY <1>2, <1>8, <1>11, <2>1, <2>2, <2>3
  <1>15. decoded < sent' => Len(buffer) < Size(decoded + 1)
    <2>1. CASE decoded < sent
      BY <1>9, <2>1
    <2>2. CASE decoded = sent
      <3>1. End[sent] \in Nat
        BY <1>1, EndStep
      <3>2. Len(buffer \o v) = End[sent] - End[sent]
        BY <1>9, <2>2 DEF Framed
      <3>3. Len(buffer \o v) = Len(buffer) + Len(v)
        BY <1>1, ConcatFacts
      <3>4. Len(v) \in Nat
        BY <1>1, <1>7, <1>8
      <3>5. Len(buffer) = 0
        BY <1>1, <3>1, <3>2, <3>3, <3>4
      <3> QED
        BY <1>4, <2>2, <3>5
    <2> QED
      BY <1>1, <1>9, <2>1, <2>2
  <1> QED
    BY <1>2, <1>7, <1>10, <1>13, <1>14, <1>15 DEF InStep, Rests

(* A read moves bytes from the line to the chunk: the stream is the same. *)
LEMMA ReadInStep ==
  ASSUME UplinkInv, StreamInv, NEW q \in Readers, NEW n \in 1 .. Len(wire), ReadChunk(q, n)
  PROVE  StreamInv'
  <1>1. /\ sent \in 0 .. Len(Message) /\ read \in Nat /\ wire \in Seq(Byte) /\ Len(wire) \in Nat
        /\ n \in 0 .. Len(wire) /\ n \in Nat /\ chunk \in [Readers -> Seq(Byte)]
    <2>1. Len(wire) \in Nat /\ chunk \in [Readers -> Seq(Byte)]
      BY StreamTypes DEF UplinkInv, PathTypeOK
    <2> QED
      BY <2>1, StreamTypes
  <1>2. /\ wire' = Drop(wire, n) /\ chunk[q] = <<>> /\ chunk' = [chunk EXCEPT ![q] = SubSeq(wire, 1, n)]
        /\ UNCHANGED <<sent, buffer, read, decoded, faults, split>>
    BY DEF ReadChunk
  <1>3. NoneUnknown' = NoneUnknown
    BY <1>2 DEF NoneUnknown, Arrived, Known
  <1> SUFFICES ASSUME NEW r \in Readers, Readers = {r}, InStep(r)
               PROVE  InStep(r)'
    BY <1>2, <1>3 DEF StreamInv
  <1>4. PICK a \in Seq(Byte), b \in Seq(Byte) :
          /\ a = SubSeq(wire, 1, n) /\ b = Drop(wire, n)
          /\ Len(a) = n /\ Len(b) = Len(wire) - n
    <2>1. SubSeq(wire, 1, n) \in Seq(Byte) /\ Len(SubSeq(wire, 1, n)) = n
      BY <1>1, TakeFacts
    <2>2. Drop(wire, n) \in Seq(Byte) /\ Len(Drop(wire, n)) = Len(wire) - n
      BY <1>1, DropFacts
    <2> QED
      BY <2>1, <2>2
  <1>5. r = q /\ chunk[r] = <<>> /\ chunk'[r] = a /\ wire' = b
    BY <1>1, <1>2, <1>4
  <1>6. a \o b = wire /\ <<>> \o wire = wire
    <2>1. a \o b = wire
      BY <1>1, <1>4, TakeDrop
    <2> QED
      BY <1>1, <2>1
  <1>7. (read + Len(a)) + Len(b) = (read + 0) + Len(wire)
    BY <1>1, <1>4
  <1>8. Len(<<>>) = 0
    OBVIOUS
  <1>9. decoded <= sent /\ (read + 0) + Len(wire) = End[sent] /\ Rests(buffer, wire, decoded, sent)
    BY <1>5, <1>6, <1>8 DEF InStep
  <1> QED
    BY <1>2, <1>5, <1>6, <1>7, <1>9 DEF InStep, Rests

LEMMA TakeInStep ==
  ASSUME UplinkInv, StreamInv, NEW q \in Readers, TakeChunk(q)
  PROVE  StreamInv'
  <1>1. /\ sent \in 0 .. Len(Message) /\ Len(Message) \in Nat /\ sent \in Nat /\ read \in Nat
        /\ decoded \in Nat /\ wire \in Seq(Byte) /\ buffer \in Seq(Byte)
        /\ Len(wire) \in Nat /\ Len(buffer) \in Nat /\ chunk \in [Readers -> Seq(Byte)]
    BY StreamTypes DEF UplinkInv, PathTypeOK
  <1> DEFINE bytes == buffer \o chunk[q]
             d == decode_frames(bytes)
  <1>2. /\ chunk' = [chunk EXCEPT ![q] = <<>>] /\ buffer' = d.left /\ read' = read + Len(chunk[q])
        /\ decoded' = decoded + Len(KeepDecoded(d))
        /\ split' = (split \/ (d.left = <<>> /\ Last(bytes) = Mark1))
        /\ UNCHANGED <<sent, wire, faults>>
    BY DEF TakeChunk
  <1> HIDE DEF bytes, d
  <1> SUFFICES ASSUME NEW r \in Readers, Readers = {r}, faults = 0, ~split', NoneUnknown'
               PROVE  InStep(r)'
    BY <1>2 DEF StreamInv
  <1>3. PICK c \in Seq(Byte) : c = chunk[r] /\ Len(c) \in Nat
    BY StreamTypes
  <1>4. r = q /\ chunk'[r] = <<>> /\ read' = read + Len(c) /\ read' \in Nat /\ read <= read'
    BY <1>1, <1>2, <1>3
  <1>5. ~split /\ ~ (d.left = <<>> /\ Last(bytes) = Mark1)
    BY <1>2
  <1>6. InStep(r)
    <2>1. NoneUnknown
      BY <1>1, <1>2, <1>4, ArrivedStays
    <2> QED
      BY <1>5, <2>1 DEF StreamInv
  <1>7. decoded \in 0 .. Len(Message) /\ read = End[decoded] + Len(buffer)
    BY <1>6, InStepPlace
  <1>8. bytes \in Seq(Byte) /\ Len(bytes) = Len(buffer) + Len(c)
    <2>1. buffer \o c \in Seq(Byte) /\ Len(buffer \o c) = Len(buffer) + Len(c)
      BY <1>1, ConcatFacts
    <2> QED
      BY <1>3, <1>4, <2>1 DEF bytes
  <1>9. /\ decoded <= sent /\ (read + Len(c)) + Len(wire) = End[sent]
        /\ Framed(bytes \o wire, decoded, sent)
    <2>1. PICK a \in Seq(Byte), b \in Seq(Byte) : a = buffer /\ b = wire
      BY <1>1
    <2>2. (a \o c) \o b = a \o (c \o b)
      BY ConcatAssoc, ZenonT(40)
    <2> QED
      BY <1>3, <1>4, <1>6, <2>1, <2>2 DEF InStep, Rests, bytes
  <1>10. ASSUME NEW n \in (decoded + 1) .. sent, End[n] - End[decoded] <= Len(bytes)
         PROVE  Known(n)
    <2>1. n \in 1 .. sent' /\ n \in 0 .. Len(Message)
      BY <1>1, <1>2
    <2>2. PICK a \in Nat, b \in Nat, l \in Nat, k \in Nat :
            a = End[decoded] /\ b = End[n] /\ l = Len(buffer) /\ k = Len(c)
      BY <1>1, <1>3, <1>7, <2>1, EndStep
    <2>3. b - a <= l + k /\ read' = (a + l) + k
      BY <1>4, <1>7, <1>8, <1>10, <2>2
    <2>4. b <= read'
      BY <2>3
    <2>5. n \in Arrived'
      BY <1>1, <1>2, <2>1, <2>2, <2>4, ArrivedFacts
    <2> QED
      BY <2>5 DEF NoneUnknown, Known
  <1>11. /\ d.loop = "ended" /\ decoded + Len(d.got) <= sent
         /\ \/ Rests(d.left, wire, decoded + Len(d.got), sent)
            \/ d.left = <<>> /\ Last(bytes) = Mark1
    BY <1>1, <1>7, <1>8, <1>9, <1>10, DecodeFramed DEF d
  <1>12. KeepDecoded(d) = d.got
    BY <1>11 DEF KeepDecoded
  <1>13. Rests(buffer', wire', decoded', sent') /\ decoded' <= sent'
    BY <1>2, <1>5, <1>11, <1>12
  <1>14. <<>> \o wire = wire /\ Len(<<>>) = 0
    BY <1>1
  <1>15. (read' + Len(chunk'[r])) + Len(wire') = End[sent']
    <2>1. (read + Len(c)) + 0 = read + Len(c)
      BY <1>1, <1>3
    <2> QED
      BY <1>2, <1>4, <1>9, <1>14, <2>1
  <1>16. Rests(buffer', chunk'[r] \o wire', decoded', sent')
    BY <1>2, <1>4, <1>13, <1>14
  <1> QED
    BY <1>13, <1>15, <1>16 DEF InStep

LEMMA StreamInvInit ==
  ASSUME PathInit
  PROVE  StreamInv
  <1> SUFFICES ASSUME NEW r \in Readers
               PROVE  InStep(r)
    BY DEF StreamInv
  <1>1. sent = 0 /\ wire = <<>> /\ buffer = <<>> /\ read = 0 /\ decoded = 0 /\ chunk[r] = <<>>
    BY DEF PathInit
  <1>2. End[0] = 0 /\ Len(<<>>) = 0 /\ <<>> \o <<>> = <<>>
    BY EndStep
  <1>3. 0 + 1 .. 0 = {}
    OBVIOUS
  <1>4. Framed(<<>>, 0, 0)
    <2>1. Len(<<>>) = End[0] - End[0]
      BY <1>2
    <2> QED
      BY <1>3, <2>1 DEF Framed
  <1>5. Rests(<<>>, <<>> \o <<>>, 0, 0)
    BY <1>2, <1>4 DEF Rests
  <1>6. (0 + 0) + 0 = 0 /\ 0 <= 0
    OBVIOUS
  <1> QED
    BY <1>1, <1>2, <1>5, <1>6 DEF InStep

LEMMA StreamInvStep ==
  ASSUME UplinkInv, StreamInv, [PathNext]_pathVars
  PROVE  StreamInv'
  <1>1. CASE UNCHANGED <<sent, wire, chunk, buffer, read, decoded, faults, split>>
    BY <1>1 DEF StreamInv, InStep, Rests, Framed, NoneUnknown, Arrived, Known
  <1>2. CASE LineFault \/ ClearBuffers
    <2>1. faults \in Nat /\ faults' = faults + 1
      BY <1>2, StreamTypes DEF LineFault, ClearBuffers
    <2>2. faults' # 0
      BY <2>1
    <2> QED
      BY <2>2 DEF StreamInv
  <1>3. CASE UNCHANGED pathVars
    BY <1>1, <1>3 DEF pathVars
  <1>4. CASE PollFrames \/ PopUplink \/ StopManager
    BY <1>1, <1>4 DEF PollFrames, PopUplink, StopManager
  <1> QED
    BY <1>2, <1>3, <1>4, WriteInStep, ReadInStep, TakeInStep DEF PathNext

(* On an intact line, read by one thread, decode_frames yields every frame  *)
(* with the chunk that brings its last byte, and none before, as long as no *)
(* frame of a type the host does not know has arrived and no chunk has      *)
(* ended between the two bytes of a start mark: for every list of frames,   *)
(* start marks in payloads included, and chunks of every size.              *)
THEOREM FramingKept == PathSpec => []StreamDecoded
  <1>1. PathInit => UplinkInv /\ StreamInv
    BY UplinkInvInit, StreamInvInit
  <1>2. (UplinkInv /\ StreamInv) /\ [PathNext]_pathVars => (UplinkInv /\ StreamInv)'
    BY UplinkInvStep, StreamInvStep
  <1>3. UplinkInv /\ StreamInv => StreamDecoded
    BY InStepDecodes DEF StreamInv, StreamDecoded, NoneUnknown, Intact, OneReader
  <1> QED
    BY <1>1, <1>2, <1>3, PTL DEF PathSpec

=============================================================================
