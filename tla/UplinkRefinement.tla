-------------------------- MODULE UplinkRefinement --------------------------
(***************************************************************************)
(* Proof that UplinkPath implements LossyChannel: what the application     *)
(* pops was sent, and is popped once, and with one reader in order, for    *)
(* every list of frames that can be told apart, any number of readers,     *)
(* every depth of the FIFO, chunks of every size and any number of damaged *)
(* bytes and cleared buffers.                                              *)
(*                                                                         *)
(* A packet passes the line, a reader's chunk, the buffer, the decoded     *)
(* frames and the FIFO.  At each stage it has a label (the last byte of    *)
(* its payload, its frame, its number), and the invariant is that no label *)
(* is there twice, within a stage or at two of them, and with one reader   *)
(* that they ascend within each stage and from each stage to those before  *)
(* it.                                                                     *)
(***************************************************************************)
EXTENDS UplinkProofs

(* The packets' labels on the line and in the reader's buffer, and in the   *)
(* FIFO; their label among the decoded frames is Message.                   *)
Marks == [n \in 1 .. Len(Message) |-> Last(Message[n].payload)]
Numbers == [n \in 1 .. Len(Message) |-> n]

(* The packets whose label is in s. *)
In(L, s) == {n \in DOMAIN L : \E i \in 1 .. Len(s) : s[i] = L[n]}

(* Packet n may be before packet m. *)
Prec(n, m) == IF OneReader THEN n < m ELSE n # m

(* The labels in s ascend, or, with several readers, differ. *)
Asc(L, s) ==
  \A i, j \in 1 .. Len(s) : \A n, m \in DOMAIN L : i < j /\ s[i] = L[n] /\ s[j] = L[m] => Prec(n, m)

Below(A, B) == \A a \in A : \A b \in B : Prec(a, b)

-----------------------------------------------------------------------------
(* Labels of sequences. *)

(* Bytes taken out or damaged leave no new label and no other order. *)
LEMMA Thinned ==
  ASSUME NEW L, NEW s, NEW t, NEW f, Len(s) \in Nat, Len(t) \in Nat,
         \A i \in 1 .. Len(t) : f[i] \in 1 .. Len(s),
         \A i, j \in 1 .. Len(t) : i < j => f[i] < f[j],
         \A i \in 1 .. Len(t) : t[i] = s[f[i]] \/ \A n \in DOMAIN L : t[i] # L[n]
  PROVE  In(L, t) \subseteq In(L, s) /\ (Asc(L, s) => Asc(L, t))
  <1>1. In(L, t) \subseteq In(L, s)
    BY DEF In
  <1>2. ASSUME Asc(L, s), NEW i \in 1 .. Len(t), NEW j \in 1 .. Len(t),
               NEW n \in DOMAIN L, NEW m \in DOMAIN L, i < j, t[i] = L[n], t[j] = L[m]
        PROVE  Prec(n, m)
    <2>1. t[i] = s[f[i]] /\ t[j] = s[f[j]] /\ f[i] < f[j] /\ f[i] \in 1 .. Len(s) /\ f[j] \in 1 .. Len(s)
      BY <1>2
    <2> QED
      BY <1>2, <2>1 DEF Asc
  <1> QED
    BY <1>1, <1>2 DEF Asc

LEMMA SuffixLabels ==
  ASSUME NEW L, NEW s \in Seq(Byte), NEW t, NEW k, Suffix(t, s, k)
  PROVE  In(L, t) \subseteq In(L, s) /\ (Asc(L, s) => Asc(L, t))
  <1> DEFINE f == [i \in 1 .. Len(t) |-> i + k]
  <1>1. Len(s) \in Nat /\ Len(t) \in Nat /\ k \in Nat /\ Len(t) = Len(s) - k
    BY DEF Suffix
  <1>2. \A i \in 1 .. Len(t) : f[i] \in 1 .. Len(s) /\ t[i] = s[f[i]]
    BY <1>1 DEF Suffix
  <1>3. \A i, j \in 1 .. Len(t) : i < j => f[i] < f[j]
    BY <1>1
  <1> HIDE DEF f
  <1> QED
    BY <1>1, <1>2, <1>3, Thinned

LEMMA TakeLabels ==
  ASSUME NEW S, NEW L, NEW s \in Seq(S), NEW k \in 0 .. Len(s)
  PROVE  In(L, SubSeq(s, 1, k)) \subseteq In(L, s) /\ (Asc(L, s) => Asc(L, SubSeq(s, 1, k)))
  <1> DEFINE t == SubSeq(s, 1, k)
             f == [i \in 1 .. k |-> i]
  <1>1. Len(s) \in Nat /\ k \in Nat /\ k <= Len(s) /\ Len(t) = k /\ \A i \in 1 .. k : t[i] = s[i]
    BY TakeFacts
  <1> HIDE DEF t
  <1>2. \A i \in 1 .. Len(t) : f[i] \in 1 .. Len(s) /\ t[i] = s[f[i]]
    BY <1>1
  <1>3. \A i, j \in 1 .. Len(t) : i < j => f[i] < f[j]
    BY <1>1
  <1> HIDE DEF f
  <1>4. In(L, t) \subseteq In(L, s) /\ (Asc(L, s) => Asc(L, t))
    BY <1>1, <1>2, <1>3, Thinned
  <1> QED
    BY <1>4 DEF t

(* Where a sequence is cut, the labels before the cut are below those       *)
(* behind it.                                                               *)
LEMMA CutLabels ==
  ASSUME NEW L, NEW s \in Seq(Byte), NEW t, NEW k, Suffix(t, s, k), Asc(L, s),
         NEW n \in DOMAIN L, NEW i \in 1 .. k, s[i] = L[n], NEW m \in In(L, t)
  PROVE  Prec(n, m)
  <1>1. PICK j \in 1 .. Len(t) : t[j] = L[m]
    BY DEF In
  <1>2. Len(s) \in Nat /\ k \in Nat /\ k <= Len(s) /\ Len(t) = Len(s) - k /\ t[j] = s[j + k] /\ m \in DOMAIN L
    BY <1>1 DEF Suffix, In
  <1>3. i \in 1 .. Len(s) /\ j + k \in 1 .. Len(s) /\ i < j + k
    BY <1>2
  <1> QED
    BY <1>1, <1>2, <1>3 DEF Asc

LEMMA ConcatLabels ==
  ASSUME NEW S, NEW L, NEW s \in Seq(S), NEW t \in Seq(S)
  PROVE  /\ In(L, s \o t) = In(L, s) \cup In(L, t)
         /\ Asc(L, s) /\ Asc(L, t) /\ Below(In(L, s), In(L, t)) => Asc(L, s \o t)
  <1> DEFINE c == s \o t
  <1>1. /\ Len(c) = Len(s) + Len(t) /\ Len(s) \in Nat /\ Len(t) \in Nat
        /\ \A i \in 1 .. Len(s) : c[i] = s[i]
        /\ \A i \in 1 .. Len(t) : c[i + Len(s)] = t[i]
    BY ConcatFacts
  <1> HIDE DEF c
  <1>2. ASSUME NEW i \in 1 .. Len(c)
        PROVE  \/ i \in 1 .. Len(s) /\ c[i] = s[i]
               \/ /\ i - Len(s) \in 1 .. Len(t) /\ c[i] = t[i - Len(s)]
                  /\ i > Len(s)
    <2>1. CASE i <= Len(s)
      BY <1>1, <2>1
    <2>2. CASE i > Len(s)
      <3>1. i - Len(s) \in 1 .. Len(t) /\ (i - Len(s)) + Len(s) = i
        BY <1>1, <2>2
      <3>2. c[(i - Len(s)) + Len(s)] = t[i - Len(s)]
        BY <1>1, <3>1
      <3> QED
        BY <2>2, <3>1, <3>2
    <2> QED
      BY <1>1, <2>1, <2>2
  <1>3. In(L, c) \subseteq In(L, s) \cup In(L, t)
    BY <1>2 DEF In
  <1>4. \A i \in 1 .. Len(s) : i \in 1 .. Len(c)
    BY <1>1
  <1>5. \A i \in 1 .. Len(t) : i + Len(s) \in 1 .. Len(c)
    BY <1>1
  <1>6. In(L, s) \subseteq In(L, c) /\ In(L, t) \subseteq In(L, c)
    BY <1>1, <1>4, <1>5 DEF In
  <1>7. ASSUME Asc(L, s), Asc(L, t), Below(In(L, s), In(L, t)),
               NEW i \in 1 .. Len(c), NEW j \in 1 .. Len(c),
               NEW n \in DOMAIN L, NEW m \in DOMAIN L, i < j, c[i] = L[n], c[j] = L[m]
        PROVE  Prec(n, m)
    <2>1. CASE i \in 1 .. Len(s) /\ c[i] = s[i]
      <3>1. CASE j \in 1 .. Len(s) /\ c[j] = s[j]
        BY <1>7, <2>1, <3>1 DEF Asc
      <3>2. CASE j - Len(s) \in 1 .. Len(t) /\ c[j] = t[j - Len(s)]
        <4>1. n \in In(L, s) /\ m \in In(L, t)
          BY <1>7, <2>1, <3>2 DEF In
        <4> QED
          BY <1>7, <4>1 DEF Below
      <3> QED
        BY <1>2, <3>1, <3>2
    <2>2. CASE i - Len(s) \in 1 .. Len(t) /\ c[i] = t[i - Len(s)] /\ i > Len(s)
      <3>1. ~ (j \in 1 .. Len(s))
        BY <1>1, <1>7, <2>2
      <3>2. j - Len(s) \in 1 .. Len(t) /\ c[j] = t[j - Len(s)]
        BY <1>2, <3>1
      <3>3. i - Len(s) < j - Len(s)
        BY <1>1, <1>7
      <3> QED
        BY <1>7, <2>2, <3>2, <3>3 DEF Asc
    <2> QED
      BY <1>2, <2>1, <2>2
  <1>8. Asc(L, s) /\ Asc(L, t) /\ Below(In(L, s), In(L, t)) => Asc(L, c)
    BY <1>7 DEF Asc
  <1> QED
    BY <1>3, <1>6, <1>8 DEF c

LEMMA AppendLabels ==
  ASSUME NEW S, NEW L, NEW s \in Seq(S), NEW x \in S
  PROVE  /\ In(L, Append(s, x)) = In(L, s) \cup {n \in DOMAIN L : x = L[n]}
         /\ Asc(L, s) /\ Below(In(L, s), {n \in DOMAIN L : x = L[n]}) => Asc(L, Append(s, x))
  <1> DEFINE t == <<x>>
             X == {n \in DOMAIN L : x = L[n]}
  <1>1. t \in Seq(S) /\ Len(t) = 1 /\ t[1] = x /\ Append(s, x) = s \o t
    OBVIOUS
  <1> HIDE DEF t
  <1>2. In(L, t) = X
    <2>1. 1 .. Len(t) = {1}
      BY <1>1
    <2> QED
      BY <1>1, <2>1 DEF In
  <1>3. Asc(L, t)
    <2>1. \A i, j \in 1 .. Len(t) : ~ (i < j)
      BY <1>1
    <2> QED
      BY <2>1 DEF Asc
  <1> HIDE DEF X
  <1>4. /\ In(L, s \o t) = In(L, s) \cup In(L, t)
        /\ Asc(L, s) /\ Asc(L, t) /\ Below(In(L, s), In(L, t)) => Asc(L, s \o t)
    BY <1>1, ConcatLabels
  <1> QED
    BY <1>1, <1>2, <1>3, <1>4 DEF X

LEMMA NoLabels ==
  ASSUME NEW L
  PROVE  In(L, <<>>) = {} /\ Asc(L, <<>>)
  <1>1. \A i \in 1 .. Len(<<>>) : FALSE
    OBVIOUS
  <1> QED
    BY <1>1 DEF In, Asc

-----------------------------------------------------------------------------
(* The decoder keeps the order. *)

LEMMA LabelFacts ==
  /\ Len(Message) \in Nat /\ DOMAIN Message = 1 .. Len(Message)
  /\ DOMAIN Marks = 1 .. Len(Message) /\ DOMAIN Numbers = 1 .. Len(Message)
  /\ \A n \in 1 .. Len(Message) : Marks[n] = Last(Message[n].payload) /\ Numbers[n] = n
  <1>1. Len(Message) \in Nat /\ DOMAIN Message = 1 .. Len(Message)
    BY PathConstants
  <1> QED
    BY <1>1 DEF Marks, Numbers

(* The frames decoded from bytes so far, and what is left of them. *)
DecodeOrder(bytes, d) ==
  /\ Asc(Marks, d.left) /\ In(Marks, d.left) \subseteq In(Marks, bytes)
  /\ Asc(Message, d.got) /\ In(Message, d.got) \subseteq In(Marks, bytes)
  /\ Below(In(Message, d.got), In(Marks, d.left))

LEMMA PassOrder ==
  ASSUME Tellable, NEW bytes, NEW d \in Decoding, DecodeOrder(bytes, d)
  PROVE  DecodeOrder(bytes, Pass(d))
  <1> DEFINE e == Pass(d)
  <1>1. d.left \in Seq(Byte) /\ d.got \in Seq(HostFrame) /\ Len(d.left) \in Nat
    BY DEF Decoding
  <1>2. PICK k \in Nat :
          /\ Suffix(e.left, d.left, k)
          /\ \/ e.got = d.got
             \/ \E f \in HostFrame :
                  /\ e.got = Append(d.got, f)
                  /\ f.payload # <<>> => \E i \in 1 .. k : d.left[i] = Last(f.payload)
    BY PassFacts
  <1> HIDE DEF e
  <1>3. PICK s \in Seq(Byte), t \in {e.left} : s = d.left
    BY <1>1
  <1>4. In(Marks, t) \subseteq In(Marks, s) /\ (Asc(Marks, s) => Asc(Marks, t))
    BY <1>2, <1>3, SuffixLabels
  <1>5. /\ Asc(Marks, s) /\ In(Marks, s) \subseteq In(Marks, bytes)
        /\ Asc(Message, d.got) /\ In(Message, d.got) \subseteq In(Marks, bytes)
        /\ Below(In(Message, d.got), In(Marks, s))
    BY <1>3 DEF DecodeOrder
  <1>6. CASE e.got = d.got
    <2>1. Below(In(Message, d.got), In(Marks, t))
      BY <1>4, <1>5 DEF Below
    <2>2. In(Marks, t) \subseteq In(Marks, bytes) /\ Asc(Marks, t)
      BY <1>4, <1>5
    <2> QED
      BY <1>3, <1>5, <1>6, <2>1, <2>2 DEF DecodeOrder, e
  <1>7. ASSUME NEW f \in HostFrame, e.got = Append(d.got, f),
               f.payload # <<>> => \E i \in 1 .. k : d.left[i] = Last(f.payload)
        PROVE  DecodeOrder(bytes, e)
    <2> DEFINE X == {n \in DOMAIN Message : f = Message[n]}
    <2>1. ASSUME NEW n \in X
          PROVE  n \in In(Marks, s) /\ \A m \in In(Marks, t) : Prec(n, m)
      <3>1. n \in DOMAIN Marks /\ f = Message[n] /\ Marks[n] = Last(f.payload)
        BY LabelFacts
      <3>2. f.payload # <<>>
        BY <3>1, LabelFacts DEF Tellable
      <3>3. PICK i \in 1 .. k : s[i] = Marks[n]
        BY <1>3, <1>7, <3>1, <3>2
      <3>4. i \in 1 .. Len(s)
        BY <1>1, <1>2, <1>3 DEF Suffix
      <3>5. n \in In(Marks, s)
        BY <3>1, <3>3, <3>4 DEF In
      <3>6. \A m \in In(Marks, t) : Prec(n, m)
        BY <1>2, <1>3, <1>5, <3>1, <3>3, CutLabels
      <3> QED
        BY <3>5, <3>6
    <2> HIDE DEF X
    <2>2. /\ In(Message, e.got) = In(Message, d.got) \cup X
          /\ Asc(Message, d.got) /\ Below(In(Message, d.got), X) => Asc(Message, e.got)
      <3>1. PICK q \in Seq(HostFrame) : q = d.got
        BY <1>1
      <3>2. /\ In(Message, Append(q, f)) = In(Message, q) \cup X
            /\ Asc(Message, q) /\ Below(In(Message, q), X) => Asc(Message, Append(q, f))
        BY AppendLabels DEF X
      <3> QED
        BY <1>7, <3>1, <3>2
    <2>3. Below(In(Message, d.got), X)
      BY <1>5, <2>1 DEF Below
    <2>4. Below(In(Message, e.got), In(Marks, t))
      BY <1>4, <1>5, <2>1, <2>2 DEF Below
    <2> QED
      BY <1>3, <1>4, <1>5, <2>1, <2>2, <2>3, <2>4 DEF DecodeOrder
  <1> QED
    BY <1>2, <1>6, <1>7 DEF e

LEMMA ReadOrder ==
  ASSUME Tellable, NEW bytes \in Seq(Byte), Asc(Marks, bytes)
  PROVE  DecodeOrder(bytes, decode_frames(bytes))
  <1> DEFINE S == {d \in Decoding : DecodeOrder(bytes, d)}
             x == [left |-> bytes, got |-> <<>>, loop |-> "on"]
             N == Len(bytes) + 1
  <1>1. PICK g : /\ DecodeRun(g, bytes) /\ decode_frames(bytes) = g[N]
                 /\ \A n \in 0 .. N : g[n] \in Decoding
    BY DecodeRunExists
  <1>2. N \in Nat /\ N \in 0 .. N /\ 0 \in 0 .. N
    OBVIOUS
  <1>3. \A n \in 0 .. N : g[n] = IF n = 0 THEN x ELSE Pass(g[n - 1])
    BY <1>1 DEF DecodeRun
  <1>4. x.left = bytes /\ x.got = <<>>
    OBVIOUS
  <1> HIDE DEF x, N
  <1>5. DecodeOrder(bytes, x)
    BY <1>4, NoLabels DEF DecodeOrder, Below
  <1>6. g[0] \in S
    BY <1>1, <1>2, <1>3, <1>5
  <1>7. ASSUME NEW n \in 1 .. N, g[n - 1] \in S
        PROVE  g[n] \in S
    <2>1. n \in 0 .. N /\ n # 0
      BY <1>2
    <2>2. DecodeOrder(bytes, Pass(g[n - 1]))
      BY <1>7, PassOrder
    <2> QED
      BY <1>1, <1>3, <2>1, <2>2
  <1>8. PICK T : T = S
    OBVIOUS
  <1>9. g[0] \in T /\ \A n \in 1 .. N : g[n - 1] \in T => g[n] \in T
    BY <1>6, <1>7, <1>8
  <1> HIDE DEF S
  <1>10. \A n \in 0 .. N : g[n] \in T
    BY <1>2, <1>9, IterationStays
  <1> QED
    BY <1>1, <1>2, <1>8, <1>10 DEF S

-----------------------------------------------------------------------------
(* The poll keeps the order. *)

LEMMA TailLabels ==
  ASSUME NEW S, NEW L, NEW q \in Seq(S), q # <<>>
  PROVE  In(L, Tail(q)) \subseteq In(L, q) /\ (Asc(L, q) => Asc(L, Tail(q)))
  <1> DEFINE t == Tail(q)
             f == [i \in 1 .. Len(t) |-> i + 1]
  <1>1. Len(q) \in Nat /\ Len(q) # 0 /\ Len(t) = Len(q) - 1 /\ \A i \in 1 .. Len(t) : t[i] = q[i + 1]
    OBVIOUS
  <1> HIDE DEF t
  <1>2. Len(t) \in Nat
    BY <1>1
  <1>3. \A i \in 1 .. Len(t) : f[i] \in 1 .. Len(q) /\ t[i] = q[f[i]]
    BY <1>1
  <1>4. \A i, j \in 1 .. Len(t) : i < j => f[i] < f[j]
    BY <1>1
  <1> HIDE DEF f
  <1>5. In(L, t) \subseteq In(L, q) /\ (Asc(L, q) => Asc(L, t))
    BY <1>1, <1>2, <1>3, <1>4, Thinned
  <1> QED
    BY <1>5 DEF t

(* A packet above all that are queued is queued behind them. *)
LEMMA KeepOrder ==
  ASSUME NEW q \in Seq(1 .. sent), NEW n \in 1 .. sent, sent \in 0 .. Len(Message),
         Len(q) <= FifoDepth, Asc(Numbers, q), Below(In(Numbers, q), {n})
  PROVE  /\ Asc(Numbers, Keep(q, n))
         /\ In(Numbers, Keep(q, n)) \subseteq In(Numbers, q) \cup {n}
  <1> DEFINE a == Append(q, n)
             X == {m \in DOMAIN Numbers : n = Numbers[m]}
             R == 1 .. sent
  <1>1. X = {n}
    BY LabelFacts
  <1> HIDE DEF R
  <1>2. PICK p \in Seq(R) : p = q
    BY DEF R
  <1>3. /\ In(Numbers, Append(p, n)) = In(Numbers, p) \cup X
        /\ Asc(Numbers, p) /\ Below(In(Numbers, p), X) => Asc(Numbers, Append(p, n))
    <2>1. n \in R
      BY DEF R
    <2> QED
      BY <2>1, AppendLabels
  <1> HIDE DEF X
  <1>4. In(Numbers, a) = In(Numbers, q) \cup {n} /\ Asc(Numbers, a)
    BY <1>1, <1>2, <1>3
  <1>5. a \in Seq(R) /\ a # <<>>
    BY DEF R
  <1> HIDE DEF a
  <1>6. In(Numbers, Tail(a)) \subseteq In(Numbers, a) /\ Asc(Numbers, Tail(a))
    BY <1>4, <1>5, TailLabels
  <1>7. Keep(q, n) = a \/ Keep(q, n) = Tail(a)
    BY DEF Keep, a
  <1> QED
    BY <1>4, <1>6, <1>7

LEMMA ReceiveOrder ==
  ASSUME NEW u \in Balanced, NEW f, sent \in 0 .. Len(Message), Asc(Numbers, u.fifo),
         \A m \in 1 .. Len(Message) : f = Message[m] => Below(In(Numbers, u.fifo), {m})
  PROVE  /\ Asc(Numbers, Receive(u, f).fifo)
         /\ \A i \in In(Numbers, Receive(u, f).fifo) :
              i \in In(Numbers, u.fifo) \/ (i \in 1 .. sent /\ f = Message[i])
  <1>1. u.fifo \in Seq(1 .. sent) /\ Len(u.fifo) <= FifoDepth
    BY DEF Balanced
  <1>2. CASE PacketIn(f) = {}
    <2>1. Receive(u, f) = u
      BY <1>2 DEF Receive
    <2> QED
      BY <2>1, Zenon
  <1>3. CASE PacketIn(f) # {}
    <2>1. PICK n : n = Min(PacketIn(f))
      OBVIOUS
    <2>2. sent \in Nat /\ sent <= Len(Message)
      BY LabelFacts
    <2>3. n \in 1 .. sent /\ Message[n] = f
      BY <1>3, <2>1, <2>2, PacketInFacts
    <2>4. n \in 1 .. Len(Message)
      BY <2>2, <2>3, LabelFacts
    <2>5. PICK q : q = u.fifo
      OBVIOUS
    <2>6. Receive(u, f).fifo = Keep(q, n)
      BY <1>3, <2>1, <2>5 DEF Receive
    <2>7. /\ Asc(Numbers, Keep(q, n))
          /\ In(Numbers, Keep(q, n)) \subseteq In(Numbers, q) \cup {n}
      <3>1. Asc(Numbers, q) /\ Below(In(Numbers, q), {n}) /\ q \in Seq(1 .. sent) /\ Len(q) <= FifoDepth
        BY <1>1, <2>3, <2>4, <2>5
      <3> QED
        BY <2>3, <3>1, KeepOrder
    <2>8. \A i \in In(Numbers, Keep(q, n)) : i \in In(Numbers, q) \/ (i \in 1 .. sent /\ f = Message[i])
      BY <2>3, <2>7
    <2> QED
      BY <2>5, <2>6, <2>7, <2>8, Zenon
  <1> QED
    BY <1>2, <1>3

LEMMA ReceiveAllOrder ==
  ASSUME NEW u \in Balanced, NEW q, Len(q) \in Nat, sent \in 0 .. Len(Message), gone \in Nat,
         Asc(Numbers, u.fifo), Asc(Message, q), Below(In(Numbers, u.fifo), In(Message, q))
  PROVE  /\ Asc(Numbers, ReceiveAll(u, q).fifo)
         /\ In(Numbers, ReceiveAll(u, q).fifo) \subseteq In(Numbers, u.fifo) \cup In(Message, q)
  <1> DEFINE N == Len(q)
  <1>1. sent \in Nat
    BY LabelFacts
  <1>2. PICK g : /\ ReceiveRun(g, u, q) /\ ReceiveAll(u, q) = g[N]
                 /\ \A n \in 0 .. N : g[n] \in Balanced
    BY <1>1, ReceiveRunExists
  <1>3. N \in Nat /\ N \in 0 .. N /\ 0 \in 0 .. N
    OBVIOUS
  <1>4. \A n \in 0 .. N : g[n] = IF n = 0 THEN u ELSE Receive(g[n - 1], q[n])
    BY <1>2 DEF ReceiveRun
  <1> DEFINE P(n) == /\ Asc(Numbers, g[n].fifo)
                     /\ In(Numbers, g[n].fifo) \subseteq In(Numbers, u.fifo) \cup In(Message, q)
                     /\ \A j \in (n + 1) .. N : \A m \in 1 .. Len(Message) :
                          q[j] = Message[m] => Below(In(Numbers, g[n].fifo), {m})
             T == {n \in 0 .. N : P(n)}
  <1>5. 0 \in T
    <2>1. g[0] = u
      BY <1>3, <1>4
    <2>2. ASSUME NEW j \in (0 + 1) .. N, NEW m \in 1 .. Len(Message), q[j] = Message[m]
          PROVE  Below(In(Numbers, u.fifo), {m})
      <3>1. m \in In(Message, q)
        BY <2>2, LabelFacts DEF In
      <3> QED
        BY <3>1 DEF Below
    <2> QED
      BY <1>3, <2>1, <2>2
  <1>6. ASSUME NEW n \in 1 .. N, n - 1 \in T
        PROVE  n \in T
    <2>1. n \in 0 .. N /\ n # 0 /\ n - 1 \in 0 .. N /\ (n - 1) + 1 = n /\ n \in n .. N
      BY <1>3
    <2> DEFINE v == g[n - 1]
               w == g[n]
    <2>2. w = Receive(v, q[n]) /\ v \in Balanced
      BY <1>2, <1>4, <2>1
    <2>3. P(n - 1)
      BY <1>6
    <2>4. /\ Asc(Numbers, v.fifo)
          /\ In(Numbers, v.fifo) \subseteq In(Numbers, u.fifo) \cup In(Message, q)
          /\ \A j \in n .. N : \A m \in 1 .. Len(Message) :
               q[j] = Message[m] => Below(In(Numbers, v.fifo), {m})
      BY <2>1, <2>3
    <2> HIDE DEF v, w, P
    <2>5. /\ Asc(Numbers, w.fifo)
          /\ \A i \in In(Numbers, w.fifo) :
               i \in In(Numbers, v.fifo) \/ (i \in 1 .. sent /\ q[n] = Message[i])
      BY <2>1, <2>2, <2>4, ReceiveOrder
    <2>6. \A i \in 1 .. sent : i \in 1 .. Len(Message)
      BY LabelFacts
    <2>7. In(Numbers, w.fifo) \subseteq In(Numbers, u.fifo) \cup In(Message, q)
      <3>1. \A i \in 1 .. sent : q[n] = Message[i] => i \in In(Message, q)
        BY <2>6, LabelFacts DEF In
      <3> QED
        BY <2>4, <2>5, <3>1
    <2>8. ASSUME NEW j \in (n + 1) .. N, NEW m \in 1 .. Len(Message), q[j] = Message[m],
                 NEW i \in In(Numbers, w.fifo)
          PROVE  Prec(i, m)
      <3>1. j \in n .. N /\ n < j /\ j \in 1 .. N
        BY <1>3
      <3>2. CASE i \in In(Numbers, v.fifo)
        BY <2>4, <2>8, <3>1, <3>2 DEF Below
      <3>3. CASE i \in 1 .. sent /\ q[n] = Message[i]
        BY <2>6, <2>8, <3>1, <3>3, LabelFacts DEF Asc
      <3> QED
        BY <2>5, <3>2, <3>3
    <2>9. P(n)
      BY <2>5, <2>7, <2>8 DEF P, w, Below
    <2> QED
      BY <2>1, <2>9
  <1> HIDE DEF P
  <1>7. PICK Z : Z = T
    OBVIOUS
  <1>8. 0 \in Z /\ \A n \in 1 .. N : n - 1 \in Z => n \in Z
    BY <1>5, <1>6, <1>7
  <1>9. 0 .. N \subseteq Z
    <2> HIDE DEF N, T
    <2> QED
      BY <1>3, <1>8, BoundedInduction
  <1>10. P(N)
    BY <1>3, <1>7, <1>9
  <1> QED
    BY <1>2, <1>10 DEF P

-----------------------------------------------------------------------------
(* The order of the stages. *)

Held(c) == UNION {In(Marks, c[r]) : r \in Readers}

(* N frames were written, and the sets hold the packets in the FIFO, among  *)
(* the decoded frames, in the buffer, in the readers' chunks and on the     *)
(* line.                                                                    *)
Chain(Q, F, B, C, W, N) ==
  /\ \A n \in Q \cup F \cup B \cup C \cup W : n <= N
  /\ Below(Q, F) /\ Below(Q, B) /\ Below(Q, C) /\ Below(Q, W)
  /\ Below(F, B) /\ Below(F, C) /\ Below(F, W)
  /\ Below(B, C) /\ Below(B, W) /\ Below(C, W)

(* Each chunk is in order, and no packet is in two. *)
Apart(c) ==
  /\ \A r \in Readers : Asc(Marks, c[r])
  /\ \A r, s \in Readers : r # s => Below(In(Marks, c[r]), In(Marks, c[s]))

Ordered ==
  /\ Asc(Numbers, fifo) /\ Asc(Message, frames) /\ Asc(Marks, buffer) /\ Apart(chunk)
  /\ Asc(Marks, wire)
  /\ Chain(In(Numbers, fifo), In(Message, frames), In(Marks, buffer), Held(chunk), In(Marks, wire), sent)

(* The packets on their way. *)
OnTheWay ==
  In(Numbers, fifo) \cup In(Message, frames) \cup In(Marks, buffer) \cup Held(chunk) \cup In(Marks, wire)

(* What a step does to them: the next one is written, some are lost, or one *)
(* is popped.                                                               *)
Written == sent' = sent + 1 /\ popped' = popped /\ OnTheWay' = OnTheWay \cup {sent'}
Lost == sent' = sent /\ popped' = popped /\ OnTheWay' \subseteq OnTheWay
Taken ==
  /\ sent' = sent
  /\ \E n \in OnTheWay :
       popped' = Append(popped, n) /\ OnTheWay' \subseteq {m \in OnTheWay : Prec(n, m)}

LEMMA PrecFacts ==
  /\ \A n \in Nat, m \in Nat : n < m => Prec(n, m)
  /\ ~OneReader => \A n, m : Prec(n, m) => Prec(m, n)
  BY DEF Prec

(* The bytes of a frame hold its own label and no other. *)
LEMMA FrameLabels ==
  ASSUME Tellable, NEW n \in 1 .. Len(Message)
  PROVE  /\ encode_frame(Message[n]) \in Seq(Byte)
         /\ In(Marks, encode_frame(Message[n])) = {n} /\ Asc(Marks, encode_frame(Message[n]))
  <1> DEFINE s == encode_frame(Message[n])
             p == Message[n].payload
             l == Len(p)
  <1>1. Message[n] \in [type : Byte, payload : Seq(Byte)] /\ p \in Seq(Byte)
    BY MessageFacts
  <1>2. s \in Seq(Byte) /\ Len(s) = l + 5 /\ \A i \in 1 .. l : s[i + 4] = p[i]
    BY <1>1, EncodeFacts
  <1>3. DOMAIN s = 1 .. Len(s) /\ Len(s) \in Nat
    BY <1>2
  <1>4. p # <<>>
    BY LabelFacts DEF Tellable
  <1>5. ASSUME NEW m \in 1 .. Len(Message), NEW i \in 1 .. Len(s), s[i] = Marks[m]
        PROVE  m = n /\ i = Len(s) - 1
    <2>1. m \in DOMAIN Message /\ n \in DOMAIN Message /\ s[i] = Last(Message[m].payload) /\ i \in DOMAIN s
      BY <1>3, <1>5, LabelFacts
    <2>2. \A j \in DOMAIN encode_frame(Message[n]) :
            encode_frame(Message[n])[j] = Last(Message[m].payload)
              => n = m /\ j = Len(encode_frame(Message[n])) - 1
      BY <2>1, Zenon DEF Tellable
    <2> QED
      BY <2>1, <2>2, Zenon
  <1>6. l \in Nat /\ l \in 1 .. l /\ Last(p) = p[l]
    BY <1>1, <1>4 DEF Last
  <1> HIDE DEF s, l, p
  <1>7. l + 4 \in 1 .. Len(s) /\ s[l + 4] = Marks[n]
    <2>1. Marks[n] = Last(p)
      BY LabelFacts DEF p
    <2>2. l + 4 \in 1 .. Len(s)
      BY <1>2, <1>6
    <2> QED
      BY <1>2, <1>6, <2>1, <2>2
  <1>8. In(Marks, s) = {n}
    BY <1>5, <1>7, LabelFacts DEF In
  <1>9. ASSUME NEW i \in 1 .. Len(s), NEW j \in 1 .. Len(s), i < j,
               NEW k \in 1 .. Len(Message), NEW m \in 1 .. Len(Message), s[i] = Marks[k], s[j] = Marks[m]
        PROVE  FALSE
    <2>1. i = Len(s) - 1 /\ j = Len(s) - 1
      BY <1>5, <1>9
    <2> QED
      BY <1>3, <1>9, <2>1
  <1>10. Asc(Marks, s)
    BY <1>9, LabelFacts DEF Asc
  <1> QED
    BY <1>2, <1>8, <1>10 DEF s

(* A fault on the line leaves no new label and no other order. *)
LEMMA FaultLabels ==
  ASSUME Tellable, NEW s \in Seq(Byte), NEW i \in 1 .. Len(s), NEW t,
         t \in {[s EXCEPT ![i] = b] : b \in Noise} \cup {RemoveAt(s, i)}
  PROVE  In(Marks, t) \subseteq In(Marks, s) /\ (Asc(Marks, s) => Asc(Marks, t))
  <1>1. Len(s) \in Nat
    OBVIOUS
  <1>2. CASE t = RemoveAt(s, i)
    <2> DEFINE f == [j \in 1 .. Len(t) |-> IF j < i THEN j ELSE j + 1]
    <2>1. /\ Len(t) = Len(s) - 1
          /\ \A j \in 1 .. (Len(s) - 1) : t[j] = IF j < i THEN s[j] ELSE s[j + 1]
      BY <1>2, RemoveFacts
    <2>2. Len(t) \in Nat
      BY <1>1, <2>1
    <2>3. \A j \in 1 .. Len(t) : f[j] \in 1 .. Len(s) /\ t[j] = s[f[j]]
      BY <1>1, <2>1
    <2>4. \A j, k \in 1 .. Len(t) : j < k => f[j] < f[k]
      BY <1>1, <2>1
    <2> HIDE DEF f
    <2> QED
      BY <1>1, <2>2, <2>3, <2>4, Thinned
  <1>3. ASSUME NEW b \in Noise, t = [s EXCEPT ![i] = b]
        PROVE  In(Marks, t) \subseteq In(Marks, s) /\ (Asc(Marks, s) => Asc(Marks, t))
    <2> DEFINE f == [j \in 1 .. Len(s) |-> j]
    <2>1. /\ Len(t) = Len(s)
          /\ \A j \in 1 .. Len(s) : t[j] = IF j = i THEN b ELSE s[j]
      BY <1>3
    <2>2. \A n \in DOMAIN Marks : b # Marks[n]
      BY LabelFacts DEF Tellable
    <2>3. \A j \in 1 .. Len(t) : f[j] \in 1 .. Len(s)
      BY <1>1, <2>1
    <2>4. \A j \in 1 .. Len(t) : t[j] = s[f[j]] \/ \A n \in DOMAIN Marks : t[j] # Marks[n]
      BY <2>1, <2>2
    <2>5. \A j, k \in 1 .. Len(t) : j < k => f[j] < f[k]
      BY <1>1, <2>1
    <2> HIDE DEF f
    <2> QED
      BY <1>1, <2>1, <2>3, <2>4, <2>5, Thinned
  <1> QED
    BY <1>2, <1>3

-----------------------------------------------------------------------------
(* The steps keep the order. *)

LEMMA WriteOrder ==
  ASSUME Tellable, UplinkInv, Ordered, WriteFrame
  PROVE  Ordered' /\ Written
  <1> DEFINE s == encode_frame(Message[sent + 1])
             W == In(Marks, wire)
             W1 == In(Marks, wire')
  <1>1. /\ sent \in Nat /\ sent < Len(Message) /\ wire \in Seq(Byte)
        /\ sent' = sent + 1 /\ wire' = wire \o s
        /\ UNCHANGED <<chunk, buffer, frames, fifo, popped>>
    BY LabelFacts DEF UplinkInv, PathTypeOK, WriteFrame
  <1>2. sent + 1 \in 1 .. Len(Message)
    BY <1>1, LabelFacts
  <1>3. s \in Seq(Byte) /\ In(Marks, s) = {sent + 1} /\ Asc(Marks, s)
    BY <1>2, FrameLabels
  <1> HIDE DEF s
  <1>4. PICK w \in Seq(Byte), t \in Seq(Byte) : w = wire /\ t = s
    BY <1>1, <1>3
  <1>5. /\ In(Marks, w \o t) = In(Marks, w) \cup In(Marks, t)
        /\ Asc(Marks, w) /\ Asc(Marks, t) /\ Below(In(Marks, w), In(Marks, t)) => Asc(Marks, w \o t)
    BY ConcatLabels
  <1>6. \A n \in OnTheWay : n <= sent /\ n \in 1 .. Len(Message)
    <2>1. OnTheWay \subseteq 1 .. Len(Message)
      BY LabelFacts DEF OnTheWay, In, Held
    <2> QED
      BY <2>1 DEF Ordered, Chain, OnTheWay
  <1>7. W1 = W \cup {sent + 1}
    BY <1>1, <1>3, <1>4, <1>5
  <1>8. \A n \in OnTheWay : Prec(n, sent + 1) /\ n <= sent + 1
    <2>1. \A n \in OnTheWay : n \in Nat /\ n < sent + 1 /\ n <= sent + 1 /\ sent + 1 \in Nat
      BY <1>1, <1>6, LabelFacts
    <2> QED
      BY <2>1, PrecFacts
  <1>9. Asc(Marks, wire')
    <2>1. Below(In(Marks, w), In(Marks, t))
      BY <1>3, <1>4, <1>8 DEF Below, OnTheWay
    <2> QED
      BY <1>1, <1>3, <1>4, <1>5, <2>1 DEF Ordered
  <1>10. sent + 1 <= sent + 1
    BY <1>1
  <1> HIDE DEF W1
  <1>11. Chain(In(Numbers, fifo), In(Message, frames), In(Marks, buffer), Held(chunk), W1, sent + 1)
    <2>1. \A n \in In(Numbers, fifo) \cup In(Message, frames) \cup In(Marks, buffer) \cup Held(chunk) \cup W1 :
            n <= sent + 1
      BY <1>7, <1>8, <1>10 DEF OnTheWay
    <2>2. /\ Below(In(Numbers, fifo), W1) /\ Below(In(Message, frames), W1)
          /\ Below(In(Marks, buffer), W1) /\ Below(Held(chunk), W1)
      BY <1>7, <1>8 DEF OnTheWay, Ordered, Chain, Below
    <2> QED
      BY <2>1, <2>2 DEF Ordered, Chain
  <1>12. Ordered'
    BY <1>1, <1>9, <1>11 DEF Ordered, W1, Apart, Held
  <1>13. OnTheWay' = OnTheWay \cup {sent'}
    BY <1>1, <1>7 DEF OnTheWay, W1, Held
  <1> QED
    BY <1>1, <1>12, <1>13 DEF Written

LEMMA FaultOrder ==
  ASSUME Tellable, UplinkInv, Ordered, LineFault
  PROVE  Ordered' /\ Lost
  <1>1. wire \in Seq(Byte) /\ UNCHANGED <<sent, chunk, buffer, frames, fifo, popped>>
    BY DEF UplinkInv, PathTypeOK, LineFault
  <1>2. PICK i \in DOMAIN wire :
          wire' \in {[wire EXCEPT ![i] = b] : b \in Noise} \cup {RemoveAt(wire, i)}
    BY DEF LineFault
  <1>3. i \in 1 .. Len(wire)
    BY <1>1, <1>2
  <1>4. PICK s \in Seq(Byte), t \in {wire'} : s = wire
    BY <1>1
  <1>5. In(Marks, t) \subseteq In(Marks, s) /\ (Asc(Marks, s) => Asc(Marks, t))
    BY <1>2, <1>3, <1>4, FaultLabels
  <1>6. Chain(In(Numbers, fifo), In(Message, frames), In(Marks, buffer), Held(chunk), In(Marks, t), sent)
    BY <1>4, <1>5 DEF Ordered, Chain, Below
  <1> QED
    BY <1>1, <1>4, <1>5, <1>6 DEF Ordered, Lost, OnTheWay, Apart, Held

(* A reader's chunk changes: what the others hold stays. *)
LEMMA HeldFacts ==
  ASSUME NEW c \in [Readers -> Seq(Byte)], NEW r \in Readers, NEW t \in Seq(Byte)
  PROVE  LET e == [c EXCEPT ![r] = t]
             rest == UNION {In(Marks, c[s]) : s \in Readers \ {r}}
         IN /\ Held(c) = rest \cup In(Marks, c[r]) /\ Held(e) = rest \cup In(Marks, t)
            /\ Apart(c) /\ Asc(Marks, t) /\ Below(rest, In(Marks, t)) => Apart(e)
            /\ Apart(c) => Asc(Marks, c[r]) /\ Below(In(Marks, c[r]), rest)
  <1> DEFINE e == [c EXCEPT ![r] = t]
             rest == UNION {In(Marks, c[s]) : s \in Readers \ {r}}
  <1>1. e[r] = t /\ \A s \in Readers \ {r} : e[s] = c[s]
    OBVIOUS
  <1>2. Held(c) = rest \cup In(Marks, c[r])
    BY DEF Held
  <1> HIDE DEF e
  <1>3. Held(e) = rest \cup In(Marks, t)
    BY <1>1 DEF Held
  <1>4. ASSUME Apart(c), Asc(Marks, t), Below(rest, In(Marks, t))
        PROVE  Apart(e)
    <2>1. \A s \in Readers : Asc(Marks, e[s])
      BY <1>1, <1>4 DEF Apart
    <2>2. ASSUME NEW u \in Readers, NEW s \in Readers, u # s
          PROVE  Below(In(Marks, e[u]), In(Marks, e[s]))
      <3>1. CASE u # r /\ s # r
        BY <1>1, <1>4, <2>2, <3>1 DEF Apart
      <3>2. CASE s = r
        BY <1>1, <1>4, <2>2, <3>2 DEF Below
      <3>3. CASE u = r
        <4>1. ~OneReader
          BY <2>2 DEF OneReader
        <4>2. Below(In(Marks, e[s]), In(Marks, t))
          BY <1>1, <1>4, <2>2, <3>3 DEF Below
        <4> QED
          BY <1>1, <3>3, <4>1, <4>2, PrecFacts DEF Below
      <3> QED
        BY <3>1, <3>2, <3>3
    <2> QED
      BY <2>1, <2>2 DEF Apart
  <1>5. ASSUME Apart(c)
        PROVE  Asc(Marks, c[r]) /\ Below(In(Marks, c[r]), rest)
    BY <1>5 DEF Apart, Below
  <1> QED
    BY <1>2, <1>3, <1>4, <1>5 DEF e

LEMMA ReadChunkOrder ==
  ASSUME Tellable, UplinkInv, Ordered, NEW r \in Readers, NEW n \in 1 .. Len(wire), ReadChunk(r, n)
  PROVE  Ordered' /\ Lost
  <1>1. PICK w \in Seq(Byte), c \in [Readers -> Seq(Byte)] : w = wire /\ c = chunk
    BY DEF UplinkInv, PathTypeOK
  <1> DEFINE head == SubSeq(w, 1, n)
             rest == UNION {In(Marks, c[s]) : s \in Readers \ {r}}
             Q == In(Numbers, fifo)
             F == In(Message, frames)
             B == In(Marks, buffer)
             W == In(Marks, w)
             H == In(Marks, head)
             W1 == In(Marks, wire')
  <1>2. /\ wire' = Drop(w, n) /\ chunk' = [c EXCEPT ![r] = head] /\ c[r] = <<>>
        /\ UNCHANGED <<sent, buffer, frames, fifo, popped>>
    BY <1>1 DEF ReadChunk
  <1>3. n \in 0 .. Len(w) /\ n \in Nat
    BY <1>1
  <1>4. head \in Seq(Byte) /\ Len(head) = n /\ \A i \in 1 .. n : head[i] = w[i]
    BY <1>3, TakeFacts
  <1>5. H \subseteq W /\ (Asc(Marks, w) => Asc(Marks, head))
    BY <1>3, TakeLabels
  <1>6. Suffix(wire', w, n)
    BY <1>2, <1>3, DropSuffix
  <1>7. W1 \subseteq W /\ (Asc(Marks, w) => Asc(Marks, wire'))
    <2>1. PICK t : t = wire'
      OBVIOUS
    <2>2. In(Marks, t) \subseteq W /\ (Asc(Marks, w) => Asc(Marks, t))
      BY <1>6, <2>1, SuffixLabels
    <2> QED
      BY <2>1, <2>2
  <1>8. /\ Asc(Numbers, fifo) /\ Asc(Message, frames) /\ Asc(Marks, buffer) /\ Asc(Marks, w)
        /\ Apart(c) /\ Chain(Q, F, B, Held(c), W, sent)
    BY <1>1 DEF Ordered
  <1>9. ASSUME NEW x \in H, NEW y \in W1
        PROVE  Prec(x, y)
    <2>1. PICK i \in 1 .. n : w[i] = Marks[x] /\ x \in DOMAIN Marks
      BY <1>4 DEF In
    <2>2. PICK t : t = wire'
      OBVIOUS
    <2>3. \A m \in In(Marks, t) : Prec(x, m)
      BY <1>6, <1>8, <2>1, <2>2, CutLabels
    <2> QED
      BY <2>2, <2>3
  <1> HIDE DEF head
  <1>10. /\ Held(c) = rest \cup In(Marks, c[r]) /\ Held(chunk') = rest \cup H
         /\ Asc(Marks, head) /\ Below(rest, H) => Apart(chunk')
    <2>1. PICK t \in Seq(Byte) : t = head
      BY <1>4
    <2>2. LET e == [c EXCEPT ![r] = t]
          IN /\ Held(c) = rest \cup In(Marks, c[r]) /\ Held(e) = rest \cup In(Marks, t)
             /\ Apart(c) /\ Asc(Marks, t) /\ Below(rest, In(Marks, t)) => Apart(e)
      BY HeldFacts
    <2> HIDE DEF rest
    <2>3. chunk' = [c EXCEPT ![r] = t]
      BY <1>2, <2>1
    <2> QED
      BY <1>8, <2>1, <2>2, <2>3
  <1>11. In(Marks, c[r]) = {}
    BY <1>2, NoLabels
  <1> HIDE DEF rest, Q, F, B, W, H, W1
  <1>12. Held(c) = rest
    BY <1>10, <1>11
  <1>13. Below(rest, H) /\ Below(H, W1)
    BY <1>5, <1>8, <1>9, <1>12 DEF Chain, Below
  <1>14. Apart(chunk')
    BY <1>5, <1>8, <1>10, <1>13
  <1>15. Chain(Q, F, B, rest \cup H, W1, sent)
    BY <1>5, <1>7, <1>8, <1>12, <1>13 DEF Chain, Below
  <1>16. Ordered'
    BY <1>2, <1>7, <1>8, <1>10, <1>14, <1>15 DEF Ordered, Q, F, B, W1
  <1>17. OnTheWay' = Q \cup F \cup B \cup (rest \cup H) \cup W1 /\ OnTheWay = Q \cup F \cup B \cup rest \cup W
    BY <1>1, <1>2, <1>10, <1>12 DEF OnTheWay, Q, F, B, W1, W
  <1> QED
    BY <1>2, <1>5, <1>7, <1>16, <1>17 DEF Lost

LEMMA TakeChunkOrder ==
  ASSUME Tellable, UplinkInv, Ordered, NEW r \in Readers, TakeChunk(r)
  PROVE  Ordered' /\ Lost
  <1>1. PICK b \in Seq(Byte), f \in Seq(HostFrame), c \in [Readers -> Seq(Byte)] :
          b = buffer /\ f = frames /\ c = chunk
    BY DEF UplinkInv, PathTypeOK, HostFrame
  <1>2. PICK head \in Seq(Byte) : head = c[r]
    OBVIOUS
  <1> DEFINE bytes == b \o head
             d == decode_frames(bytes)
             k == KeepDecoded(d)
             rest == UNION {In(Marks, c[s]) : s \in Readers \ {r}}
             Q == In(Numbers, fifo)
             F == In(Message, f)
             B == In(Marks, b)
             W == In(Marks, wire)
             H == In(Marks, head)
  <1>3. /\ chunk' = [c EXCEPT ![r] = <<>>] /\ buffer' = d.left /\ frames' = f \o k
        /\ UNCHANGED <<sent, wire, fifo, popped>>
    BY <1>1, <1>2 DEF TakeChunk
  <1>4. /\ Asc(Numbers, fifo) /\ Asc(Message, f) /\ Asc(Marks, b) /\ Asc(Marks, wire)
        /\ Apart(c) /\ Chain(Q, F, B, Held(c), W, sent)
    BY <1>1 DEF Ordered
  <1>5. /\ Held(c) = rest \cup H /\ Held(chunk') = rest
        /\ Apart(chunk') /\ Asc(Marks, head) /\ Below(H, rest)
    <2>1. <<>> \in Seq(Byte)
      OBVIOUS
    <2>2. PICK t \in Seq(Byte) : t = <<>>
      BY <2>1
    <2>3. In(Marks, t) = {} /\ Asc(Marks, t)
      BY <2>2, NoLabels
    <2>4. LET e == [c EXCEPT ![r] = t]
          IN /\ Held(c) = rest \cup In(Marks, c[r]) /\ Held(e) = rest \cup In(Marks, t)
             /\ Apart(c) /\ Asc(Marks, t) /\ Below(rest, In(Marks, t)) => Apart(e)
             /\ Apart(c) => Asc(Marks, c[r]) /\ Below(In(Marks, c[r]), rest)
      BY HeldFacts
    <2> HIDE DEF rest
    <2>5. Below(rest, In(Marks, t))
      BY <2>3 DEF Below
    <2>6. chunk' = [c EXCEPT ![r] = t]
      BY <1>3, <2>2
    <2> QED
      BY <1>2, <1>4, <2>3, <2>4, <2>5, <2>6
  <1>6. bytes \in Seq(Byte)
    BY ConcatFacts
  <1>7. /\ In(Marks, bytes) = B \cup H
        /\ Asc(Marks, b) /\ Asc(Marks, head) /\ Below(B, H) => Asc(Marks, bytes)
    BY ConcatLabels
  <1> HIDE DEF rest
  <1>8. Asc(Marks, bytes)
    BY <1>4, <1>5, <1>7 DEF Chain, Below
  <1> HIDE DEF bytes
  <1>9. DecodeOrder(bytes, d)
    BY <1>6, <1>8, ReadOrder
  <1>10. k \in Seq(HostFrame) /\ d.got \in Seq(HostFrame)
    BY <1>6, ReadFacts DEF Decoding
  <1>11. k = <<>> \/ k = d.got
    BY DEF KeepDecoded
  <1> HIDE DEF d, k
  <1> DEFINE K == In(Message, k)
             B1 == In(Marks, buffer')
             F1 == In(Message, frames')
  <1>12. /\ Asc(Marks, buffer') /\ B1 \subseteq B \cup H
         /\ Asc(Message, k) /\ K \subseteq B \cup H /\ Below(K, B1)
    <2>1. Asc(Message, <<>>) /\ In(Message, <<>>) = {}
      BY NoLabels
    <2> QED
      BY <1>3, <1>7, <1>9, <1>11, <2>1 DEF DecodeOrder, Below
  <1>13. /\ F1 = F \cup K
         /\ Asc(Message, f) /\ Asc(Message, k) /\ Below(F, K) => Asc(Message, frames')
    <2>1. PICK j \in Seq(HostFrame) : j = k
      BY <1>10
    <2>2. /\ In(Message, f \o j) = In(Message, f) \cup In(Message, j)
          /\ Asc(Message, f) /\ Asc(Message, j) /\ Below(In(Message, f), In(Message, j)) => Asc(Message, f \o j)
      BY ConcatLabels
    <2> QED
      BY <1>3, <2>1, <2>2
  <1> HIDE DEF H, K, B1, F1, Q, F, B, W
  <1>14. F1 \subseteq F \cup B \cup H
    BY <1>12, <1>13
  <1>15. /\ Below(B, H) /\ Below(B, rest) /\ Below(B, W) /\ Below(H, W) /\ Below(rest, W)
         /\ Below(F, B) /\ Below(F, H) /\ Below(F, rest) /\ Below(F, W)
         /\ Below(Q, F) /\ Below(Q, B) /\ Below(Q, H) /\ Below(Q, rest) /\ Below(Q, W)
    BY <1>4, <1>5 DEF Chain, Below
  <1>16. /\ Below(F, K) /\ Below(K, rest) /\ Below(K, W)
         /\ Below(B1, rest) /\ Below(B1, W) /\ Below(F, B1)
    BY <1>5, <1>12, <1>15 DEF Below
  <1>17. /\ Below(Q, F1) /\ Below(Q, B1) /\ Below(F1, B1) /\ Below(F1, rest) /\ Below(F1, W)
    BY <1>12, <1>13, <1>14, <1>15, <1>16 DEF Below
  <1>18. \A i \in Q \cup F1 \cup B1 \cup rest \cup W : i <= sent
    BY <1>4, <1>5, <1>12, <1>14 DEF Chain
  <1>19. Chain(Q, F1, B1, rest, W, sent)
    BY <1>15, <1>16, <1>17, <1>18 DEF Chain
  <1>20. Ordered'
    BY <1>3, <1>4, <1>5, <1>12, <1>13, <1>16, <1>19 DEF Ordered, Q, F1, B1, W
  <1>21. OnTheWay' = Q \cup F1 \cup B1 \cup rest \cup W /\ OnTheWay = Q \cup F \cup B \cup (rest \cup H) \cup W
    BY <1>1, <1>3, <1>5 DEF OnTheWay, Q, F1, B1, F, B, W
  <1> QED
    BY <1>3, <1>12, <1>14, <1>20, <1>21 DEF Lost

LEMMA PollOrder ==
  ASSUME UplinkInv, Ordered, PollFrames
  PROVE  Ordered' /\ Lost
  <1> DEFINE u == [fifo |-> fifo, rx |-> count.rx, drop |-> count.drop]
             v == ReceiveAll(u, frames)
  <1>1. /\ frames' = <<>> /\ fifo' = v.fifo /\ UNCHANGED <<sent, wire, chunk, buffer, popped>>
    BY DEF PollFrames
  <1>2. u \in Balanced /\ u.fifo = fifo
    BY PollFacts DEF UplinkInv
  <1>3. Len(frames) \in Nat /\ sent \in 0 .. Len(Message) /\ gone \in Nat
    BY DEF UplinkInv, PathTypeOK
  <1> HIDE DEF u
  <1>4. PICK x, q : x = u /\ q = frames
    OBVIOUS
  <1>5. /\ Asc(Numbers, x.fifo) /\ Asc(Message, q) /\ Below(In(Numbers, x.fifo), In(Message, q))
        /\ x \in Balanced /\ Len(q) \in Nat
    BY <1>2, <1>3, <1>4 DEF Ordered, Chain
  <1>6. /\ Asc(Numbers, ReceiveAll(x, q).fifo)
        /\ In(Numbers, ReceiveAll(x, q).fifo) \subseteq In(Numbers, x.fifo) \cup In(Message, q)
    BY <1>3, <1>5, ReceiveAllOrder
  <1>7. Asc(Numbers, fifo') /\ In(Numbers, fifo') \subseteq In(Numbers, fifo) \cup In(Message, frames)
    BY <1>1, <1>2, <1>4, <1>6
  <1>8. In(Message, frames') = {} /\ Asc(Message, frames')
    BY <1>1, NoLabels
  <1>9. Chain(In(Numbers, fifo'), In(Message, frames'), In(Marks, buffer), Held(chunk), In(Marks, wire), sent)
    BY <1>7, <1>8 DEF Ordered, Chain, Below
  <1>10. Ordered'
    BY <1>1, <1>7, <1>8, <1>9 DEF Ordered, Apart, Held
  <1>11. OnTheWay' \subseteq OnTheWay
    BY <1>1, <1>7, <1>8 DEF OnTheWay, Held
  <1> QED
    BY <1>1, <1>10, <1>11 DEF Lost

LEMMA PopOrder ==
  ASSUME UplinkInv, Ordered, PopUplink
  PROVE  Ordered' /\ Taken
  <1>1. /\ popped' = Append(popped, Head(fifo)) /\ fifo' = Tail(fifo) /\ fifo # <<>>
        /\ fifo \in Seq(1 .. sent)
        /\ UNCHANGED <<sent, wire, chunk, buffer, frames>> /\ sent \in 0 .. Len(Message)
    BY DEF PopUplink, Oldest, UplinkInv, PathTypeOK
  <1> DEFINE R == 1 .. sent
             h == Head(fifo)
  <1>2. R \subseteq 1 .. Len(Message)
    BY <1>1, LabelFacts
  <1> HIDE DEF R
  <1>3. fifo \in Seq(R)
    BY <1>1 DEF R
  <1>4. PICK q \in Seq(R) : q = fifo
    BY <1>3
  <1>5. In(Numbers, Tail(q)) \subseteq In(Numbers, q) /\ (Asc(Numbers, q) => Asc(Numbers, Tail(q)))
    BY <1>1, <1>4, TailLabels
  <1>6. /\ Len(q) \in Nat /\ 1 \in 1 .. Len(q) /\ q[1] = h /\ h \in R /\ Len(Tail(q)) = Len(q) - 1
        /\ \A i \in 1 .. Len(Tail(q)) : Tail(q)[i] = q[i + 1]
    BY <1>1, <1>4
  <1>7. h \in DOMAIN Numbers /\ Numbers[h] = h
    BY <1>2, <1>6, LabelFacts
  <1> HIDE DEF h
  <1>8. h \in In(Numbers, q)
    BY <1>6, <1>7 DEF In
  <1>9. ASSUME NEW m \in In(Numbers, Tail(q))
        PROVE  Prec(h, m)
    <2>1. PICK i \in 1 .. Len(Tail(q)) : Tail(q)[i] = Numbers[m] /\ m \in DOMAIN Numbers
      BY DEF In
    <2>2. i + 1 \in 1 .. Len(q) /\ 1 < i + 1 /\ q[i + 1] = Numbers[m]
      BY <1>6, <2>1
    <2>3. Asc(Numbers, q)
      BY <1>4 DEF Ordered
    <2> QED
      BY <1>6, <1>7, <2>1, <2>2, <2>3 DEF Asc
  <1>10. \A m \in In(Message, frames) \cup In(Marks, buffer) \cup Held(chunk) \cup In(Marks, wire) : Prec(h, m)
    BY <1>4, <1>8 DEF Ordered, Chain, Below
  <1>11. Chain(In(Numbers, Tail(q)), In(Message, frames), In(Marks, buffer), Held(chunk), In(Marks, wire), sent)
    BY <1>4, <1>5 DEF Ordered, Chain, Below
  <1>12. Ordered'
    BY <1>1, <1>4, <1>5, <1>11 DEF Ordered, Apart, Held
  <1>13. /\ h \in OnTheWay /\ popped' = Append(popped, h)
         /\ \A m \in OnTheWay' : m \in OnTheWay /\ Prec(h, m)
    BY <1>1, <1>4, <1>5, <1>8, <1>9, <1>10 DEF OnTheWay, Held, h
  <1> QED
    BY <1>1, <1>12, <1>13 DEF Taken

LEMMA StopOrder ==
  ASSUME UplinkInv, Ordered, StopManager
  PROVE  Ordered' /\ Lost
  <1>1. fifo' = <<>> /\ UNCHANGED <<sent, wire, chunk, buffer, frames, popped>>
    BY DEF StopManager
  <1>2. In(Numbers, fifo') = {} /\ Asc(Numbers, fifo')
    BY <1>1, NoLabels
  <1>3. Chain(In(Numbers, fifo'), In(Message, frames), In(Marks, buffer), Held(chunk), In(Marks, wire), sent)
    BY <1>2 DEF Ordered, Chain, Below
  <1> QED
    BY <1>1, <1>2, <1>3 DEF Ordered, Lost, OnTheWay, Apart, Held

LEMMA ClearOrder ==
  ASSUME UplinkInv, Ordered, ClearBuffers
  PROVE  Ordered' /\ Lost
  <1>1. buffer' = <<>> /\ frames' = <<>> /\ UNCHANGED <<sent, chunk, fifo, popped>>
    BY DEF ClearBuffers
  <1>2. PICK n \in 0 .. Len(wire) : wire' = Drop(wire, n)
    BY DEF ClearBuffers
  <1>3. PICK w \in Seq(Byte), t \in {wire'} : w = wire
    BY DEF UplinkInv, PathTypeOK
  <1>4. Suffix(t, w, n)
    BY <1>2, <1>3, DropSuffix
  <1>5. In(Marks, t) \subseteq In(Marks, w) /\ (Asc(Marks, w) => Asc(Marks, t))
    BY <1>4, SuffixLabels
  <1>6. /\ In(Marks, buffer') = {} /\ Asc(Marks, buffer')
        /\ In(Message, frames') = {} /\ Asc(Message, frames')
    BY <1>1, NoLabels
  <1>7. Chain(In(Numbers, fifo), In(Message, frames'), In(Marks, buffer'), Held(chunk), In(Marks, t), sent)
    BY <1>3, <1>5, <1>6 DEF Ordered, Chain, Below
  <1> QED
    BY <1>1, <1>3, <1>5, <1>6, <1>7 DEF Ordered, Lost, OnTheWay, Apart, Held

-----------------------------------------------------------------------------
(* The refinement. *)

(* What the mapping calls pending, of given stages. *)
Pending(N, q, f, b, c, w) ==
  LET Flies(n) ==
        \/ \E s \in {w, b} \cup {c[r] : r \in Readers} :
             \E i \in DOMAIN s : s[i] = Last(Message[n].payload)
        \/ \E i \in DOMAIN f : f[i] = Message[n]
        \/ \E i \in DOMAIN q : q[i] = n
  IN {n \in 1 .. N : Flies(n)}

(* The pending packets are those on their way. *)
LEMMA PendingFacts ==
  ASSUME NEW N \in 0 .. Len(Message), NEW q \in Seq(1 .. N), NEW f \in Seq(HostFrame),
         NEW b \in Seq(Byte), NEW c \in [Readers -> Seq(Byte)], NEW w \in Seq(Byte),
         Chain(In(Numbers, q), In(Message, f), In(Marks, b), Held(c), In(Marks, w), N)
  PROVE  Pending(N, q, f, b, c, w)
           = In(Numbers, q) \cup In(Message, f) \cup In(Marks, b) \cup Held(c) \cup In(Marks, w)
  <1> DEFINE A == In(Numbers, q) \cup In(Message, f) \cup In(Marks, b) \cup Held(c) \cup In(Marks, w)
             Fl(n) == \/ \E s \in {w, b} \cup {c[r] : r \in Readers} :
                           \E i \in DOMAIN s : s[i] = Last(Message[n].payload)
                      \/ \E i \in DOMAIN f : f[i] = Message[n]
                      \/ \E i \in DOMAIN q : q[i] = n
  <1>1. /\ DOMAIN q = 1 .. Len(q) /\ DOMAIN f = 1 .. Len(f)
        /\ DOMAIN b = 1 .. Len(b) /\ DOMAIN w = 1 .. Len(w)
        /\ \A r \in Readers : DOMAIN c[r] = 1 .. Len(c[r])
    <2>1. \A s \in Seq(Byte) : DOMAIN s = 1 .. Len(s)
      OBVIOUS
    <2>2. \A r \in Readers : c[r] \in Seq(Byte)
      OBVIOUS
    <2> QED
      BY <2>1, <2>2
  <1>2. ASSUME NEW n \in 1 .. Len(Message)
        PROVE  n \in A <=> Fl(n)
    <2>1. /\ n \in In(Numbers, q) <=> \E i \in DOMAIN q : q[i] = n
          /\ n \in In(Message, f) <=> \E i \in DOMAIN f : f[i] = Message[n]
          /\ n \in In(Marks, b) <=> \E i \in DOMAIN b : b[i] = Last(Message[n].payload)
          /\ n \in In(Marks, w) <=> \E i \in DOMAIN w : w[i] = Last(Message[n].payload)
      BY <1>1, LabelFacts, Zenon DEF In
    <2>2. n \in Held(c) <=> \E r \in Readers : \E i \in DOMAIN c[r] : c[r][i] = Last(Message[n].payload)
      <3>1. ASSUME NEW r \in Readers
            PROVE  n \in In(Marks, c[r]) <=> \E i \in DOMAIN c[r] : c[r][i] = Last(Message[n].payload)
        BY <1>1, LabelFacts, Zenon DEF In
      <3>2. n \in Held(c) <=> \E r \in Readers : n \in In(Marks, c[r])
        BY Zenon DEF Held
      <3> QED
        BY <3>1, <3>2, Zenon
    <2>3. (\E s \in {w, b} \cup {c[r] : r \in Readers} :
             \E i \in DOMAIN s : s[i] = Last(Message[n].payload))
            <=> \/ n \in In(Marks, w) \/ n \in In(Marks, b) \/ n \in Held(c)
      BY <2>1, <2>2, Zenon
    <2> QED
      BY <2>1, <2>3, Zenon
  <1>3. \A n \in A : n \in 1 .. Len(Message) /\ n <= N
    <2>1. A \subseteq 1 .. Len(Message)
      BY LabelFacts DEF In, Held
    <2> QED
      BY <2>1 DEF Chain
  <1> HIDE DEF A, Fl
  <1>4. \A n \in A : n \in 1 .. N
    BY <1>3, LabelFacts
  <1>5. 1 .. N \subseteq 1 .. Len(Message)
    BY LabelFacts
  <1>6. Pending(N, q, f, b, c, w) = {n \in 1 .. N : Fl(n)}
    BY DEF Pending, Fl
  <1>7. {n \in 1 .. N : Fl(n)} = A
    BY <1>2, <1>4, <1>5
  <1> QED
    BY <1>6, <1>7 DEF A

(* The mapping, before and after a step. *)
LEMMA PendingNow ==
  ASSUME UplinkInv, Ordered
  PROVE  {n \in 1 .. sent : InFlight(n)} = OnTheWay
  <1>1. /\ sent \in 0 .. Len(Message) /\ fifo \in Seq(1 .. sent) /\ frames \in Seq(HostFrame)
        /\ buffer \in Seq(Byte) /\ chunk \in [Readers -> Seq(Byte)] /\ wire \in Seq(Byte)
    BY LabelFacts DEF UplinkInv, PathTypeOK, HostFrame
  <1>2. PICK N \in 0 .. Len(Message) : N = sent
    BY <1>1
  <1>3. PICK q \in Seq(1 .. N), f \in Seq(HostFrame), b \in Seq(Byte),
             c \in [Readers -> Seq(Byte)], w \in Seq(Byte) :
          q = fifo /\ f = frames /\ b = buffer /\ c = chunk /\ w = wire
    BY <1>1, <1>2
  <1>4. Chain(In(Numbers, q), In(Message, f), In(Marks, b), Held(c), In(Marks, w), N)
    BY <1>2, <1>3 DEF Ordered
  <1>5. Pending(N, q, f, b, c, w)
           = In(Numbers, q) \cup In(Message, f) \cup In(Marks, b) \cup Held(c) \cup In(Marks, w)
    BY <1>4, PendingFacts
  <1>6. {n \in 1 .. sent : InFlight(n)} = Pending(sent, fifo, frames, buffer, chunk, wire)
    BY DEF InFlight, Pending
  <1> QED
    BY <1>2, <1>3, <1>5, <1>6 DEF OnTheWay

LEMMA PendingNext ==
  ASSUME UplinkInv', Ordered'
  PROVE  {n \in 1 .. sent : InFlight(n)}' = OnTheWay'
  <1>1. /\ sent' \in 0 .. Len(Message) /\ fifo' \in Seq(1 .. sent') /\ frames' \in Seq(HostFrame)
        /\ buffer' \in Seq(Byte) /\ chunk' \in [Readers -> Seq(Byte)] /\ wire' \in Seq(Byte)
    BY LabelFacts DEF UplinkInv, PathTypeOK, HostFrame
  <1>2. PICK N \in 0 .. Len(Message) : N = sent'
    BY <1>1
  <1>3. PICK q \in Seq(1 .. N), f \in Seq(HostFrame), b \in Seq(Byte),
             c \in [Readers -> Seq(Byte)], w \in Seq(Byte) :
          q = fifo' /\ f = frames' /\ b = buffer' /\ c = chunk' /\ w = wire'
    BY <1>1, <1>2
  <1>4. Chain(In(Numbers, q), In(Message, f), In(Marks, b), Held(c), In(Marks, w), N)
    BY <1>2, <1>3 DEF Ordered
  <1>5. Pending(N, q, f, b, c, w)
           = In(Numbers, q) \cup In(Message, f) \cup In(Marks, b) \cup Held(c) \cup In(Marks, w)
    BY <1>4, PendingFacts
  <1>6. {n \in 1 .. sent : InFlight(n)}' = Pending(sent', fifo', frames', buffer', chunk', wire')
    BY DEF InFlight, Pending
  <1> QED
    BY <1>2, <1>3, <1>5, <1>6 DEF OnTheWay

LEMMA OrderInit ==
  ASSUME PathInit
  PROVE  Ordered /\ OnTheWay = {}
  <1>1. /\ fifo = <<>> /\ frames = <<>> /\ buffer = <<>> /\ wire = <<>>
        /\ \A r \in Readers : chunk[r] = <<>>
    BY DEF PathInit
  <1>2. /\ In(Numbers, fifo) = {} /\ In(Message, frames) = {}
        /\ In(Marks, buffer) = {} /\ In(Marks, wire) = {}
        /\ Asc(Numbers, fifo) /\ Asc(Message, frames) /\ Asc(Marks, buffer) /\ Asc(Marks, wire)
    BY <1>1, NoLabels
  <1>3. \A r \in Readers : In(Marks, chunk[r]) = {} /\ Asc(Marks, chunk[r])
    BY <1>1, NoLabels
  <1>4. Held(chunk) = {} /\ Apart(chunk)
    BY <1>3 DEF Held, Apart, Below
  <1> QED
    BY <1>2, <1>4 DEF Ordered, OnTheWay, Chain, Below

LEMMA OrderStep ==
  ASSUME Tellable, UplinkInv, Ordered, [PathNext]_pathVars
  PROVE  Ordered' /\ (Written \/ Lost \/ Taken)
  <1>1. CASE UNCHANGED pathVars
    <2>1. UNCHANGED <<sent, wire, chunk, buffer, frames, fifo, popped>>
      BY <1>1 DEF pathVars
    <2> QED
      BY <2>1 DEF Ordered, Lost, OnTheWay, Apart, Held
  <1>2. CASE PathNext
    BY <1>2, WriteOrder, FaultOrder, ReadChunkOrder, TakeChunkOrder, PollOrder, PopOrder, StopOrder,
       ClearOrder DEF PathNext
  <1> QED
    BY <1>1, <1>2

(* Every step is a step of the channel: a frame written is a packet sent,   *)
(* a pop delivers a packet that is pending and is no longer pending after   *)
(* it, and whatever happens in between only loses packets.                  *)
LEMMA ChannelStep ==
  ASSUME UplinkInv, Ordered, UplinkInv', Ordered', Written \/ Lost \/ Taken
  PROVE  Channel!ChannelNext
  <1> DEFINE P == {n \in 1 .. sent : InFlight(n)}
  <1>1. P = OnTheWay /\ P' = OnTheWay'
    BY PendingNow, PendingNext
  <1>2. CASE Written
    <2>1. sent' = sent + 1 /\ P' = P \cup {sent'} /\ popped' = popped
      BY <1>1, <1>2 DEF Written
    <2> QED
      BY <2>1 DEF Channel!ChannelNext, Channel!SendPacket
  <1>3. CASE Lost
    <2>1. P' \subseteq P /\ sent' = sent /\ popped' = popped
      BY <1>1, <1>3 DEF Lost
    <2> QED
      BY <2>1 DEF Channel!ChannelNext, Channel!LosePackets
  <1>4. CASE Taken
    <2>1. PICK n \in P :
            /\ sent' = sent /\ popped' = Append(popped, n)
            /\ \A m \in P' : m \in P /\ Prec(n, m)
      BY <1>1, <1>4 DEF Taken
    <2>2. \A m \in P : n \in Nat /\ m \in Nat
      <3>1. sent \in Nat
        BY LabelFacts DEF UplinkInv, PathTypeOK
      <3> QED
        BY <3>1
    <2> HIDE DEF P
    <2>3. ASSUME NEW m \in P'
          PROVE  m \in P /\ m # n /\ (OneReader => m > n)
      <3>1. m \in P /\ Prec(n, m) /\ n \in Nat /\ m \in Nat
        BY <2>1, <2>2
      <3> QED
        BY <3>1 DEF Prec
    <2>4. P' \in SUBSET {m \in P : m # n /\ (OneReader => m > n)}
      BY <2>3
    <2> QED
      BY <2>1, <2>4 DEF Channel!ChannelNext, Channel!DeliverPacket, P
  <1> QED
    BY <1>2, <1>3, <1>4

(* The uplink implements the best-effort channel: through damaged and lost  *)
(* bytes, chunks cut anywhere, decoding errors, overflow of the FIFO and    *)
(* cleared buffers, what pop_uplink returns was sent and is returned once,  *)
(* and in the order it was sent as long as one thread reads, for every list *)
(* of frames that can be told apart and any number of readers.              *)
THEOREM UplinkRefines == Tellable /\ PathSpec => BestEffort
  <1>1. PathInit => UplinkInv /\ Ordered /\ Channel!ChannelInit
    <2> SUFFICES ASSUME PathInit
                 PROVE  UplinkInv /\ Ordered /\ Channel!ChannelInit
      OBVIOUS
    <2>1. UplinkInv /\ Ordered /\ OnTheWay = {}
      BY UplinkInvInit, OrderInit
    <2>2. {n \in 1 .. sent : InFlight(n)} = {}
      BY <2>1, PendingNow
    <2> QED
      BY <2>1, <2>2 DEF PathInit, Channel!ChannelInit
  <1>2. Tellable /\ UplinkInv /\ Ordered /\ [PathNext]_pathVars
          => UplinkInv' /\ Ordered' /\ [Channel!ChannelNext]_Channel!channelVars
    BY UplinkInvStep, OrderStep, ChannelStep
  <1>3. Tellable => []Tellable
    <2>1. Tellable => Tellable'
      OBVIOUS
    <2> QED
      BY <2>1, PTL
  <1> QED
    BY <1>1, <1>2, <1>3, PTL DEF PathSpec, BestEffort, Channel!ChannelSpec

=============================================================================
