--------------------------- MODULE PayloadProofs ---------------------------
(***************************************************************************)
(* Proofs about the data payload manager (DataPayload), for every number   *)
(* of API threads and downlink threads, every set of profiles and Home     *)
(* fields, and every width of the sequence number.                         *)
(***************************************************************************)
EXTENDS DataPayload, TLAPS

-----------------------------------------------------------------------------
(* The attributes that the manager's lock protects. *)

Aim(a) == \A f \in Aimed : a.target[f] = a.preset[a.profile][f]

Sound(a) == a \in Manager /\ ~(a.sim /\ a.brew) /\ Aim(a)

LEMMA Fields == Aimed \subseteq Targeted /\ Targeted \subseteq Field
  BY DEF Aimed, Targeted

LEMMA EndBrewSound ==
  ASSUME NEW a, Sound(a)
  PROVE  Sound(EndBrew(a)) /\ EndBrew(a).seq = a.seq /\ ~EndBrew(a).brew
  <1> DEFINE b == EndBrew(a)
  <1>1. /\ b \in Manager /\ b.seq = a.seq /\ ~b.brew /\ b.target = a.target
        /\ b.preset = a.preset /\ b.profile = a.profile
    BY DEF EndBrew, Sound, Manager
  <1> HIDE DEF b
  <1>2. Sound(b)
    BY <1>1 DEF Sound, Aim
  <1> QED
    BY <1>1, <1>2 DEF b

LEMMA ClearedSound ==
  ASSUME NEW a, Sound(a)
  PROVE  Sound(Cleared(a)) /\ Cleared(a).seq = 0
  <1> DEFINE e == EndBrew(a)
             b == [e EXCEPT !.seq = 0, !.sim = FALSE]
  <1>1. Sound(e) /\ Cleared(a) = b
    BY EndBrewSound DEF Cleared
  <1> HIDE DEF e
  <1>2. 0 \in 0 .. SeqMod - 1
    BY PayloadConstants
  <1>3. /\ b \in Manager /\ b.seq = 0 /\ ~b.sim /\ b.target = e.target
        /\ b.preset = e.preset /\ b.profile = e.profile
    BY <1>1, <1>2 DEF Sound, Manager
  <1> HIDE DEF b
  <1> QED
    BY <1>1, <1>3 DEF Sound, Aim

LEMMA WrittenSound ==
  ASSUME NEW a, Sound(a), NEW attribute \in DOMAIN NextWrite
  PROVE  Sound(Written(a, attribute)) /\ Written(a, attribute).seq \in {0, a.seq}
  <1> DEFINE b == Written(a, attribute)
  <1>1. attribute \in {"seq", "sim", "brew", "clock"} /\ 0 \in 0 .. SeqMod - 1
    BY PayloadConstants DEF NextWrite
  <1>2. /\ b \in Manager /\ b.seq \in {0, a.seq} /\ (b.sim => a.sim) /\ (b.brew => a.brew)
        /\ b.target = a.target /\ b.preset = a.preset /\ b.profile = a.profile
    BY <1>1 DEF Written, Sound, Manager
  <1> HIDE DEF b
  <1>3. Sound(b)
    BY <1>2 DEF Sound, Aim
  <1> QED
    BY <1>2, <1>3 DEF b

LEMMA SimulateSound ==
  ASSUME NEW a, Sound(a), NEW on \in BOOLEAN
  PROVE  Sound(Simulate(a, on)) /\ Simulate(a, on).seq = a.seq
  <1> DEFINE e == IF on THEN EndBrew(a) ELSE a
             b == [e EXCEPT !.sim = on]
  <1>1. Sound(e) /\ e.seq = a.seq /\ (on => ~e.brew)
    BY EndBrewSound
  <1>2. Simulate(a, on) = b
    BY DEF Simulate
  <1> HIDE DEF e
  <1>3. /\ b \in Manager /\ b.seq = e.seq /\ b.sim = on /\ b.brew = e.brew /\ b.target = e.target
        /\ b.preset = e.preset /\ b.profile = e.profile
    BY <1>1 DEF Sound, Manager
  <1> HIDE DEF b
  <1> QED
    BY <1>1, <1>2, <1>3 DEF Sound, Aim

LEMMA ApplyProfileSound ==
  ASSUME NEW a, Sound(a), NEW p \in Profile
  PROVE  Sound(ApplyProfile(a, p)) /\ ApplyProfile(a, p).seq = a.seq
  <1> DEFINE target == [f \in Aimed |-> a.preset[p][f]]
             live == [f \in Field |->
               IF f \in Targeted /\ a.override[f] = None THEN a.preset[p][f] ELSE a.live[f]]
             b == [a EXCEPT !.profile = p, !.target = target, !.live = live]
  <1>1. ApplyProfile(a, p) = b
    BY DEF ApplyProfile
  <1>2. a.preset[p] \in [Targeted -> Shown] /\ a.live \in [Field -> Shown]
    BY DEF Sound, Manager
  <1>3. target \in [Aimed -> Shown]
    BY <1>2, Fields
  <1>4. live \in [Field -> Shown]
    BY <1>2
  <1>5. \A f \in Aimed : target[f] = a.preset[p][f]
    OBVIOUS
  <1> HIDE DEF target, live
  <1>6. /\ b \in Manager /\ b.seq = a.seq /\ b.sim = a.sim /\ b.brew = a.brew
        /\ b.target = target /\ b.preset = a.preset /\ b.profile = p
    BY <1>3, <1>4 DEF Sound, Manager
  <1> HIDE DEF b
  <1> QED
    BY <1>1, <1>5, <1>6 DEF Sound, Aim

LEMMA BrewSound ==
  ASSUME NEW a, Sound(a), NEW p \in Profile
  PROVE  Sound(Brew(a, p)) /\ Brew(a, p).seq = a.seq
  <1> DEFINE b == ApplyProfile(a, p)
             override == [f \in Field |-> IF f \in ClearedByBrew THEN None ELSE b.override[f]]
             c == [b EXCEPT !.brew = TRUE, !.clock = TRUE, !.elapsed = 0, !.sim = FALSE, !.override = override]
  <1>1. Sound(b) /\ b.seq = a.seq
    BY ApplyProfileSound
  <1>2. Brew(a, p) = c
    BY DEF Brew
  <1> HIDE DEF b
  <1>3. override \in [Field -> Value \cup {None}]
    BY <1>1 DEF Sound, Manager
  <1> HIDE DEF override
  <1>4. /\ c \in Manager /\ c.seq = b.seq /\ ~c.sim /\ c.target = b.target
        /\ c.preset = b.preset /\ c.profile = b.profile
    BY <1>1, <1>3 DEF Sound, Manager
  <1> HIDE DEF c
  <1> QED
    BY <1>1, <1>2, <1>4 DEF Sound, Aim

LEMMA SetHomeSound ==
  ASSUME NEW a, Sound(a), NEW f \in Field, NEW v \in Value
  PROVE  Sound(SetHome(a, f, v)) /\ SetHome(a, f, v).seq = a.seq
  <1> DEFINE override == [a.override EXCEPT ![f] = v]
             live == [a.live EXCEPT ![f] = v]
             target == [g \in Aimed |-> IF g = f THEN v ELSE a.target[g]]
             row == [g \in Targeted |-> IF g = f THEN v ELSE a.preset[a.profile][g]]
             preset == [a.preset EXCEPT ![a.profile] = row]
             b == [a EXCEPT !.override = override, !.live = live, !.target = target,
                            !.preset = preset]
  <1>1. SetHome(a, f, v) = b
    BY DEF SetHome
  <1>2. /\ a.override \in [Field -> Value \cup {None}] /\ a.live \in [Field -> Shown]
        /\ a.target \in [Aimed -> Shown] /\ a.profile \in Profile
        /\ a.preset \in [Profile -> [Targeted -> Shown]]
    BY DEF Sound, Manager
  <1>3. v \in Shown
    BY DEF Shown
  <1>4. override \in [Field -> Value \cup {None}] /\ live \in [Field -> Shown]
    BY <1>2, <1>3
  <1>5. target \in [Aimed -> Shown] /\ row \in [Targeted -> Shown]
    BY <1>2, <1>3
  <1>6. preset \in [Profile -> [Targeted -> Shown]] /\ preset[a.profile] = row
    <2> HIDE DEF row
    <2> QED
      BY <1>2, <1>5
  <1>7. \A g \in Aimed : target[g] = row[g]
    BY Fields DEF Sound, Aim
  <1> HIDE DEF override, live, target, row, preset
  <1>8. /\ b \in Manager /\ b.seq = a.seq /\ b.sim = a.sim /\ b.brew = a.brew
        /\ b.target = target /\ b.preset = preset /\ b.profile = a.profile
    BY <1>4, <1>5, <1>6 DEF Sound, Manager
  <1> HIDE DEF b
  <1> QED
    BY <1>1, <1>6, <1>7, <1>8 DEF Sound, Aim

LEMMA NextPacketType ==
  ASSUME NEW a, Sound(a)
  PROVE  NextPacket(a) \in Packet /\ NextPacket(a).seq = a.seq
  <1> DEFINE live == PacketHome(a, a.brew)
  <1>1. a.override \in [Field -> Value \cup {None}]
    BY DEF Sound, Manager
  <1>2. live \in [Field -> Shown]
    BY <1>1 DEF PacketHome, Shown
  <1>3. a.seq \in 0 .. SeqMod - 1 /\ a.brew \in BOOLEAN
    BY DEF Sound, Manager
  <1>4. (a.brew /\ BrewOver(a)) \in BOOLEAN
    OBVIOUS
  <1> HIDE DEF live
  <1> QED
    BY <1>2, <1>3, <1>4 DEF NextPacket, Packet, live

LEMMA AfterSendSound ==
  ASSUME NEW a, Sound(a), NEW pkt \in Packet
  PROVE  Sound(AfterSend(a, pkt)) /\ AfterSend(a, pkt).seq = a.seq
  <1> DEFINE e == IF pkt.last THEN EndBrew(a) ELSE a
             b == [e EXCEPT !.live = pkt.live]
  <1>1. Sound(e) /\ e.seq = a.seq
    BY EndBrewSound
  <1>2. AfterSend(a, pkt) = b /\ pkt.live \in [Field -> Shown]
    BY DEF AfterSend, Packet
  <1> HIDE DEF e
  <1>3. /\ b \in Manager /\ b.seq = e.seq /\ b.sim = e.sim /\ b.brew = e.brew
        /\ b.target = e.target /\ b.preset = e.preset /\ b.profile = e.profile
    BY <1>1, <1>2 DEF Sound, Manager
  <1> HIDE DEF b
  <1> QED
    BY <1>1, <1>2, <1>3 DEF Sound, Aim

LEMMA TickSound ==
  ASSUME NEW a, Sound(a)
  PROVE  LET b == [a EXCEPT !.elapsed = @ + 1] IN Sound(b) /\ b.seq = a.seq
  <1> DEFINE b == [a EXCEPT !.elapsed = @ + 1]
  <1>1. /\ b \in Manager /\ b.seq = a.seq /\ b.sim = a.sim /\ b.brew = a.brew
        /\ b.target = a.target /\ b.preset = a.preset /\ b.profile = a.profile
    BY DEF Sound, Manager
  <1> HIDE DEF b
  <1>2. Sound(b) /\ b.seq = a.seq
    BY <1>1 DEF Sound, Aim
  <1> QED
    BY <1>2 DEF b

LEMMA NextSeqType ==
  ASSUME NEW n \in Nat
  PROVE  NextSeq(n) \in 0 .. SeqMod - 1
  BY PayloadConstants DEF NextSeq

LEMMA CountSound ==
  ASSUME NEW a, Sound(a)
  PROVE  LET b == [a EXCEPT !.seq = NextSeq(@)] IN Sound(b) /\ b.seq = NextSeq(a.seq)
  <1> DEFINE n == NextSeq(a.seq)
             b == [a EXCEPT !.seq = n]
  <1>1. n \in 0 .. SeqMod - 1
    BY NextSeqType DEF Sound, Manager
  <1> HIDE DEF n
  <1>2. /\ b \in Manager /\ b.seq = n /\ b.sim = a.sim /\ b.brew = a.brew
        /\ b.target = a.target /\ b.preset = a.preset /\ b.profile = a.profile
    BY <1>1 DEF Sound, Manager
  <1> HIDE DEF b
  <1>3. Sound(b) /\ b.seq = n
    BY <1>2 DEF Sound, Aim
  <1> QED
    BY <1>3 DEF b, n

-----------------------------------------------------------------------------
(* The invariant: while no join gave up and no two calls overlapped, one     *)
(* call at a time owns _thread, only the thread named there runs, and the    *)
(* counter of the manager follows the packets handed over.                   *)

OneCall == \A c, d \in Callers : ~At(c, "idle") /\ ~At(d, "idle") => c = d

OneThread == \A t \in Threads : dl[t].pc # "dead" => thread = t

JoinsThread == \A c \in Callers : At(c, "joining") => thread # None /\ call[c].on = thread

ThreadGone == \A c \in Callers : call[c].pc \in {"clear", "spawn"} \cup Resetting => thread = None

Numbered ==
  /\ \A t \in Threads : dl[t].pc = "send" => dl[t].pkt.seq = sent /\ mgr.seq = NextSeq(sent)
  /\ thread # None /\ dl[thread].pc # "send" => mgr.seq = sent
  /\ \A c \in Callers : /\ call[c].pc \in {"spawn"} \cup Resetting => mgr.seq = 0
                        /\ At(c, "spawn") => sent = 0

Ordered == OneCall /\ OneThread /\ JoinsThread /\ ThreadGone /\ Numbered

PayloadInv == PayloadTypeOK /\ Sound(mgr) /\ (alone => Ordered)

LEMMA NoPacketType == NoPacket \in Packet
  <1> DEFINE live == [f \in Field |-> "computed"]
  <1>1. live \in [Field -> Shown]
    BY DEF Shown
  <1>2. 0 \in 0 .. SeqMod - 1
    BY PayloadConstants
  <1>3. NoPacket = [seq |-> 0, last |-> FALSE, live |-> live]
    BY DEF NoPacket
  <1> HIDE DEF live
  <1> QED
    BY <1>1, <1>2, <1>3 DEF Packet

LEMMA PayloadInitInv == PayloadInit => PayloadInv
  <1> SUFFICES ASSUME PayloadInit
               PROVE  PayloadInv
    OBVIOUS
  <1> DEFINE target == [f \in Aimed |-> First]
             preset == [p \in Profile |-> [f \in Targeted |-> p]]
             override == [f \in Field |-> None]
             live == [f \in Field |-> IF f \in Targeted THEN First ELSE "computed"]
  <1>1. mgr = [seq |-> 0, sim |-> FALSE, brew |-> FALSE, clock |-> FALSE, elapsed |-> 0,
               profile |-> First, target |-> target, preset |-> preset, override |-> override, live |-> live]
    BY DEF PayloadInit
  <1>2. /\ First \in Profile /\ 0 \in 0 .. SeqMod - 1 /\ 0 \in Nat
        /\ target \in [Aimed -> Shown] /\ override \in [Field -> Value \cup {None}]
        /\ live \in [Field -> Shown]
    BY PayloadConstants DEF Shown
  <1>3. preset \in [Profile -> [Targeted -> Shown]]
    <2>1. \A p \in Profile : [f \in Targeted |-> p] \in [Targeted -> Shown]
      BY DEF Shown
    <2> QED
      BY <2>1
  <1>4. \A f \in Aimed : target[f] = preset[First][f]
    BY <1>2, Fields
  <1> HIDE DEF target, preset, override, live
  <1>5. /\ mgr \in Manager /\ ~mgr.sim /\ mgr.target = target /\ mgr.preset = preset
        /\ mgr.profile = First
    BY <1>1, <1>2, <1>3 DEF Manager
  <1>6. Sound(mgr)
    BY <1>4, <1>5 DEF Sound, Aim
  <1>7. dl \in [Threads -> Sender]
    BY NoPacketType DEF PayloadInit, Sender
  <1>8. call \in [Callers -> Call]
    BY DEF PayloadInit, IdleCall, Call, CallPoints
  <1>9. PayloadTypeOK
    BY <1>2, <1>5, <1>7, <1>8 DEF PayloadInit, PayloadTypeOK
  <1>10. \A t \in Threads : dl[t].pc = "dead"
    BY DEF PayloadInit
  <1>11. \A c \in Callers : call[c].pc = "idle"
    BY DEF PayloadInit, IdleCall
  <1>12. Ordered
    BY <1>10, <1>11 DEF PayloadInit, Ordered, OneCall, OneThread, JoinsThread, ThreadGone,
                        Numbered, At
  <1> QED
    BY <1>6, <1>9, <1>12 DEF PayloadInv

-----------------------------------------------------------------------------
(* The operations that take the lock once. *)

LEMMA RequestedProfile == PayloadTypeOK => Requested \subseteq Profile
  BY PayloadConstants DEF PayloadTypeOK, Manager, Requested, Resolve

(* A step of the attributes only, which leaves the counter alone. *)
LEMMA AttributeStep ==
  ASSUME PayloadInv, Sound(mgr'), mgr'.seq = mgr.seq, home' \in {"idle", "read", "enable"},
         UNCHANGED <<stopping, thread, dl, call, sent, alone>>
  PROVE  PayloadInv'
  <1>1. PayloadTypeOK'
    BY DEF PayloadInv, PayloadTypeOK, Sound
  <1>2. Ordered => Ordered'
    BY DEF Ordered, OneCall, OneThread, JoinsThread, ThreadGone, Numbered, At
  <1>3. Sound(mgr)'
    BY DEF Sound, Aim
  <1> QED
    BY <1>1, <1>2, <1>3 DEF PayloadInv

LEMMA LockedOnce ==
  ASSUME PayloadInv,
         \/ \E on \in BOOLEAN : SetSimulationEnabled(on)
         \/ \E p \in Requested : SelectProfile(p) \/ StartBrew(p)
         \/ StopBrew \/ BrewTick \/ ReadModes \/ EnableHomeStream
  PROVE  PayloadInv'
  <1>1. Sound(mgr) /\ home \in {"idle", "read", "enable"} /\ Requested \subseteq Profile
    BY RequestedProfile DEF PayloadInv, PayloadTypeOK
  <1>2. ASSUME NEW on \in BOOLEAN, SetSimulationEnabled(on)
        PROVE  PayloadInv'
    BY <1>1, <1>2, SimulateSound, AttributeStep DEF SetSimulationEnabled
  <1>3. ASSUME NEW p \in Requested, SelectProfile(p)
        PROVE  PayloadInv'
    BY <1>1, <1>3, ApplyProfileSound, AttributeStep DEF SelectProfile
  <1>4. ASSUME NEW p \in Requested, StartBrew(p)
        PROVE  PayloadInv'
    BY <1>1, <1>4, BrewSound, AttributeStep DEF StartBrew
  <1>5. CASE StopBrew
    BY <1>1, <1>5, EndBrewSound, AttributeStep DEF StopBrew
  <1>6. CASE BrewTick
    BY <1>1, <1>6, TickSound, AttributeStep DEF BrewTick
  <1>7. CASE ReadModes
    BY <1>1, <1>7, AttributeStep DEF ReadModes
  <1>8. CASE EnableHomeStream
    BY <1>1, <1>8, SimulateSound, AttributeStep DEF EnableHomeStream
  <1> QED
    BY <1>2, <1>3, <1>4, <1>5, <1>6, <1>7, <1>8

LEMMA ConfigureHomeStep ==
  ASSUME PayloadInv, NEW p \in Requested \cup {None}, NEW f \in Field \cup {None}, NEW v \in Value,
         ConfigureHome(p, f, v)
  PROVE  PayloadInv'
  <1> DEFINE a == IF p = None THEN mgr ELSE ApplyProfile(mgr, p)
  <1>1. Sound(mgr) /\ Requested \subseteq Profile
    BY RequestedProfile DEF PayloadInv
  <1>2. Sound(a) /\ a.seq = mgr.seq
    BY <1>1, ApplyProfileSound
  <1>3. mgr' = IF f = None THEN a ELSE SetHome(a, f, v)
    BY DEF ConfigureHome
  <1> HIDE DEF a
  <1>4. Sound(mgr') /\ mgr'.seq = mgr.seq
    BY <1>2, <1>3, SetHomeSound
  <1> QED
    BY <1>4, AttributeStep DEF ConfigureHome

-----------------------------------------------------------------------------
(* The downlink threads. *)

(* Only the thread t changes, to w. *)
LEMMA SenderType ==
  ASSUME PayloadTypeOK, NEW t \in Threads, NEW w \in Sender, dl' = [dl EXCEPT ![t] = w]
  PROVE  /\ dl' \in [Threads -> Sender] /\ dl'[t] = w
         /\ \A u \in Threads : u # t => dl'[u] = dl[u]
  BY DEF PayloadTypeOK

LEMMA SenderPoint ==
  ASSUME PayloadTypeOK, NEW t \in Threads, NEW point \in {"dead", "wait", "due", "send"}
  PROVE  [dl[t] EXCEPT !.pc = point] \in Sender /\ [dl[t] EXCEPT !.pc = point].pc = point
  BY DEF PayloadTypeOK, Sender

LEMMA WakeStep ==
  ASSUME PayloadInv, NEW t \in Threads, Wake(t)
  PROVE  PayloadInv'
  <1> DEFINE w == IF stopping THEN [pc |-> "dead", pkt |-> NoPacket] ELSE [dl[t] EXCEPT !.pc = "due"]
  <1>1. PayloadTypeOK /\ Sound(mgr) /\ (alone => Ordered)
    BY DEF PayloadInv
  <1>2. w \in Sender /\ w.pc \in {"dead", "due"}
    BY <1>1, SenderPoint, NoPacketType DEF Sender
  <1>3. dl' = [dl EXCEPT ![t] = w]
    BY <1>1 DEF Wake, Halt, Goto, PayloadTypeOK
  <1> HIDE DEF w
  <1>4. /\ dl' \in [Threads -> Sender] /\ dl'[t] = w
        /\ \A u \in Threads : u # t => dl'[u] = dl[u]
    BY <1>1, <1>2, <1>3, SenderType
  <1>5. dl[t].pc = "wait" /\ UNCHANGED <<mgr, stopping, thread, call, home, sent, alone>>
    BY DEF Wake
  <1>6. PayloadTypeOK'
    BY <1>1, <1>4, <1>5 DEF PayloadTypeOK
  <1>7. Sound(mgr)'
    BY <1>1, <1>5 DEF Sound, Aim
  <1>8. ASSUME Ordered
        PROVE  Ordered'
    <2>1. OneCall' /\ JoinsThread' /\ ThreadGone'
      BY <1>5, <1>8 DEF Ordered, OneCall, JoinsThread, ThreadGone, At
    <2>2. OneThread'
      BY <1>2, <1>4, <1>5, <1>8 DEF Ordered, OneThread
    <2>3. Numbered'
      <3>1. \A u \in Threads : dl'[u].pc = "send" => u # t /\ dl[u].pc = "send" /\ dl'[u] = dl[u]
        BY <1>2, <1>4
      <3>2. thread # None => thread \in Threads
        BY <1>1 DEF PayloadTypeOK
      <3>3. thread # None /\ dl'[thread].pc # "send" => dl[thread].pc # "send"
        BY <1>4, <1>5, <3>2
      <3> QED
        BY <1>5, <1>8, <3>1, <3>3 DEF Ordered, Numbered, At
    <2> QED
      BY <2>1, <2>2, <2>3 DEF Ordered
  <1> QED
    BY <1>1, <1>5, <1>6, <1>7, <1>8 DEF PayloadInv

LEMMA GenerateStep ==
  ASSUME PayloadInv, NEW t \in Threads, Generate(t)
  PROVE  PayloadInv'
  <1>1. PayloadTypeOK /\ Sound(mgr) /\ (alone => Ordered)
    BY DEF PayloadInv
  <1>2. dl[t].pc = "due" /\ UNCHANGED <<stopping, thread, call, home, sent, alone>>
    BY DEF Generate
  <1>3. CASE mgr.sim \/ mgr.brew
    <2> DEFINE w == [pc |-> "send", pkt |-> NextPacket(mgr)]
    <2>1. NextPacket(mgr) \in Packet /\ NextPacket(mgr).seq = mgr.seq
      BY <1>1, NextPacketType
    <2>2. w \in Sender /\ w.pc = "send" /\ w.pkt.seq = mgr.seq
      BY <2>1 DEF Sender
    <2>3. dl' = [dl EXCEPT ![t] = w] /\ mgr' = [mgr EXCEPT !.seq = NextSeq(@)]
      BY <1>3 DEF Generate
    <2> HIDE DEF w
    <2>4. /\ dl' \in [Threads -> Sender] /\ dl'[t] = w
          /\ \A u \in Threads : u # t => dl'[u] = dl[u]
      BY <1>1, <2>2, <2>3, SenderType
    <2>5. Sound(mgr') /\ mgr'.seq = NextSeq(mgr.seq)
      BY <1>1, <2>3, CountSound
    <2>6. PayloadTypeOK' /\ Sound(mgr)'
      BY <1>1, <1>2, <2>4, <2>5 DEF PayloadTypeOK, Sound, Aim
    <2>7. ASSUME Ordered
          PROVE  Ordered'
      <3>1. thread = t /\ t # None
        BY <1>2, <2>7, PayloadConstants DEF Ordered, OneThread
      <3>2. mgr.seq = sent
        BY <1>2, <2>7, <3>1 DEF Ordered, Numbered
      <3>3. \A u \in Threads : dl'[u].pc # "dead" => u = t
        BY <2>4, <2>7, <3>1 DEF Ordered, OneThread
      <3>4. OneCall' /\ JoinsThread' /\ ThreadGone'
        BY <1>2, <2>7 DEF Ordered, OneCall, JoinsThread, ThreadGone, At
      <3>5. OneThread'
        BY <1>2, <3>1, <3>3 DEF OneThread
      <3>6. \A c \in Callers : ~At(c, "spawn") /\ call[c].pc \notin {"spawn"} \cup Resetting
        BY <2>7, <3>1 DEF Ordered, ThreadGone, At
      <3>7. Numbered'
        BY <1>2, <2>2, <2>4, <2>5, <3>1, <3>2, <3>3, <3>6 DEF Numbered, At
      <3> QED
        BY <3>4, <3>5, <3>7 DEF Ordered
    <2> QED
      BY <1>1, <1>2, <2>6, <2>7 DEF PayloadInv
  <1>4. CASE ~(mgr.sim \/ mgr.brew)
    <2> DEFINE w == [dl[t] EXCEPT !.pc = "wait"]
    <2>1. w \in Sender /\ w.pc = "wait"
      BY <1>1, SenderPoint
    <2>2. dl' = [dl EXCEPT ![t] = w] /\ mgr' = mgr
      BY <1>1, <1>4 DEF Generate, Goto, PayloadTypeOK
    <2> HIDE DEF w
    <2>3. /\ dl' \in [Threads -> Sender] /\ dl'[t] = w
          /\ \A u \in Threads : u # t => dl'[u] = dl[u]
      BY <1>1, <2>1, <2>2, SenderType
    <2>4. PayloadTypeOK' /\ Sound(mgr)'
      BY <1>1, <1>2, <2>2, <2>3 DEF PayloadTypeOK, Sound, Aim
    <2>5. ASSUME Ordered
          PROVE  Ordered'
      <3>1. OneCall' /\ JoinsThread' /\ ThreadGone'
        BY <1>2, <2>5 DEF Ordered, OneCall, JoinsThread, ThreadGone, At
      <3>2. OneThread'
        BY <1>2, <2>1, <2>3, <2>5 DEF Ordered, OneThread
      <3>3. \A u \in Threads : dl'[u].pc = "send" => u # t /\ dl[u].pc = "send" /\ dl'[u] = dl[u]
        BY <2>1, <2>3
      <3>4. thread # None => thread \in Threads
        BY <1>1 DEF PayloadTypeOK
      <3>5. thread # None /\ dl'[thread].pc # "send" => dl[thread].pc # "send"
        BY <1>2, <2>3, <3>4
      <3>6. Numbered'
        BY <1>2, <2>2, <2>5, <3>3, <3>5 DEF Ordered, Numbered, At
      <3> QED
        BY <3>1, <3>2, <3>6 DEF Ordered
    <2> QED
      BY <1>1, <1>2, <2>4, <2>5 DEF PayloadInv
  <1> QED
    BY <1>3, <1>4

LEMMA SendPacketStep ==
  ASSUME PayloadInv, NEW t \in Threads, SendPacket(t)
  PROVE  PayloadInv'
  <1> DEFINE w == [pc |-> "wait", pkt |-> NoPacket]
  <1>1. PayloadTypeOK /\ Sound(mgr) /\ (alone => Ordered)
    BY DEF PayloadInv
  <1>2. /\ dl[t].pc = "send" /\ mgr' = AfterSend(mgr, dl[t].pkt)
        /\ sent' = IF alone THEN (sent + 1) % SeqMod ELSE 0
        /\ UNCHANGED <<stopping, thread, call, home, alone>>
    BY DEF SendPacket
  <1>3. dl[t].pkt \in Packet
    BY <1>1 DEF PayloadTypeOK, Sender
  <1>4. Sound(mgr') /\ mgr'.seq = mgr.seq
    BY <1>1, <1>2, <1>3, AfterSendSound
  <1>5. w \in Sender /\ w.pc = "wait"
    BY NoPacketType DEF Sender
  <1>6. dl' = [dl EXCEPT ![t] = w]
    BY DEF SendPacket
  <1> HIDE DEF w
  <1>7. /\ dl' \in [Threads -> Sender] /\ dl'[t] = w
        /\ \A u \in Threads : u # t => dl'[u] = dl[u]
    BY <1>1, <1>5, <1>6, SenderType
  <1>8. sent' \in 0 .. SeqMod - 1
    BY <1>1, <1>2, PayloadConstants DEF PayloadTypeOK
  <1>9. PayloadTypeOK' /\ Sound(mgr)'
    BY <1>1, <1>2, <1>4, <1>7, <1>8 DEF PayloadTypeOK, Sound, Aim
  <1>10. ASSUME Ordered, alone
         PROVE  Ordered'
    <2>1. thread = t /\ t # None
      BY <1>2, <1>10, PayloadConstants DEF Ordered, OneThread
    <2>2. mgr.seq = NextSeq(sent) /\ sent' = NextSeq(sent)
      BY <1>2, <1>10 DEF Ordered, Numbered, NextSeq
    <2>3. \A u \in Threads : dl'[u].pc # "dead" => u = t
      BY <1>7, <1>10, <2>1 DEF Ordered, OneThread
    <2>4. OneCall' /\ JoinsThread' /\ ThreadGone'
      BY <1>2, <1>10 DEF Ordered, OneCall, JoinsThread, ThreadGone, At
    <2>5. OneThread'
      BY <1>2, <2>1, <2>3 DEF OneThread
    <2>6. \A c \in Callers : ~At(c, "spawn") /\ call[c].pc \notin {"spawn"} \cup Resetting
      BY <1>10, <2>1 DEF Ordered, ThreadGone, At
    <2>7. Numbered'
      BY <1>2, <1>4, <1>5, <1>7, <2>1, <2>2, <2>3, <2>6 DEF Numbered, At
    <2> QED
      BY <2>4, <2>5, <2>7 DEF Ordered
  <1> QED
    BY <1>1, <1>2, <1>9, <1>10 DEF PayloadInv

-----------------------------------------------------------------------------
(* start and stop. *)

(* Only the call of c changes, to w. *)
LEMMA CallType ==
  ASSUME PayloadTypeOK, NEW c \in Callers, NEW w \in Call, call' = [call EXCEPT ![c] = w]
  PROVE  /\ call' \in [Callers -> Call] /\ call'[c] = w
         /\ \A d \in Callers : d # c => call'[d] = call[d]
  BY DEF PayloadTypeOK

LEMMA CallPoint ==
  ASSUME PayloadTypeOK, NEW c \in Callers,
         NEW point \in CallPoints
  PROVE  [call[c] EXCEPT !.pc = point] \in Call /\ [call[c] EXCEPT !.pc = point].pc = point
  BY DEF PayloadTypeOK, Call

LEMMA IdleCallType == IdleCall \in Call /\ IdleCall.pc = "idle"
  BY DEF IdleCall, Call, CallPoints

(* The one call that is under way moves on or returns. *)
LEMMA OneCallKept ==
  ASSUME OneCall, NEW c \in Callers, ~At(c, "idle"),
         \A d \in Callers : d # c => call'[d] = call[d]
  PROVE  OneCall' /\ \A d \in Callers : d # c => At(d, "idle") /\ call'[d].pc = "idle"
  BY DEF OneCall, At

LEMMA BeginStopStep ==
  ASSUME PayloadInv, NEW c \in Callers, NEW op \in {"start", "stop"}, BeginStop(c, op)
  PROVE  PayloadInv'
  <1> DEFINE w == [op |-> op, on |-> None, pc |-> "test"]
  <1>1. PayloadTypeOK /\ Sound(mgr) /\ (alone => Ordered)
    BY DEF PayloadInv
  <1>2. /\ At(c, "idle") /\ stopping' = TRUE /\ UNCHANGED <<mgr, thread, dl, home, sent>>
        /\ alone' = (alone /\ \A d \in Callers : At(d, "idle"))
    BY DEF BeginStop
  <1>3. w \in Call /\ w.pc = "test" /\ call' = [call EXCEPT ![c] = w]
    BY DEF Call, CallPoints, BeginStop
  <1> HIDE DEF w
  <1>4. /\ call' \in [Callers -> Call] /\ call'[c] = w
        /\ \A d \in Callers : d # c => call'[d] = call[d]
    BY <1>1, <1>3, CallType
  <1>5. PayloadTypeOK' /\ Sound(mgr)'
    BY <1>1, <1>2, <1>4 DEF PayloadTypeOK, Sound, Aim
  <1>6. ASSUME alone'
        PROVE  Ordered'
    <2>1. Ordered /\ \A d \in Callers : At(d, "idle")
      BY <1>1, <1>2, <1>6
    <2>2. \A d \in Callers : call'[d].pc \in {"idle", "test"} /\ (call'[d].pc # "idle" => d = c)
      BY <1>3, <1>4, <2>1 DEF At
    <2>3. OneCall' /\ JoinsThread' /\ ThreadGone'
      BY <2>2 DEF OneCall, JoinsThread, ThreadGone, At, Resetting
    <2>4. OneThread'
      BY <1>2, <2>1 DEF Ordered, OneThread
    <2>5. Numbered'
      BY <1>2, <2>1, <2>2 DEF Ordered, Numbered, At, Resetting
    <2> QED
      BY <2>3, <2>4, <2>5 DEF Ordered
  <1> QED
    BY <1>5, <1>6 DEF PayloadInv

(* A step of one call that changes nothing else. *)
LEMMA ReadStep ==
  ASSUME PayloadInv, NEW c \in Callers, NEW w \in Call, ~At(c, "idle"),
         call' = [call EXCEPT ![c] = w],
         w.pc \in {"idle", "join", "joining", "clear"},
         w.pc = "joining" => thread # None /\ w.on = thread,
         w.pc = "clear" => thread = None,
         UNCHANGED <<mgr, stopping, thread, dl, home, sent, alone>>
  PROVE  PayloadInv'
  <1>1. PayloadTypeOK /\ Sound(mgr) /\ (alone => Ordered)
    BY DEF PayloadInv
  <1>2. /\ call' \in [Callers -> Call] /\ call'[c] = w
        /\ \A d \in Callers : d # c => call'[d] = call[d]
    BY <1>1, CallType
  <1>3. PayloadTypeOK' /\ Sound(mgr)'
    BY <1>1, <1>2 DEF PayloadTypeOK, Sound, Aim
  <1>4. ASSUME Ordered
        PROVE  Ordered'
    <2>1. OneCall' /\ \A d \in Callers : d # c => call'[d].pc = "idle"
      BY <1>2, <1>4, OneCallKept DEF Ordered
    <2>2. JoinsThread' /\ ThreadGone'
      BY <1>2, <2>1 DEF JoinsThread, ThreadGone, At, Resetting
    <2>3. OneThread'
      BY <1>4 DEF Ordered, OneThread
    <2>4. Numbered'
      BY <1>2, <1>4, <2>1 DEF Ordered, Numbered, At, Resetting
    <2> QED
      BY <2>1, <2>2, <2>3, <2>4 DEF Ordered
  <1> QED
    BY <1>1, <1>3, <1>4 DEF PayloadInv

LEMMA TestThreadStep ==
  ASSUME PayloadInv, NEW c \in Callers, TestThread(c)
  PROVE  PayloadInv'
  <1> DEFINE point == IF thread = None THEN "clear" ELSE "join"
             w == [call[c] EXCEPT !.pc = point]
  <1>1. point \in {"join", "clear"} /\ (point = "clear" => thread = None)
    OBVIOUS
  <1>2. call' = [call EXCEPT ![c] = w] /\ UNCHANGED <<mgr, stopping, thread, dl, home, sent, alone>>
    BY DEF TestThread, Move, PayloadInv, PayloadTypeOK
  <1> HIDE DEF point
  <1>3. w \in Call /\ w.pc = point
    BY <1>1, CallPoint DEF PayloadInv, CallPoints
  <1>4. ~At(c, "idle")
    BY DEF TestThread, At
  <1> HIDE DEF w
  <1> QED
    BY <1>1, <1>2, <1>3, <1>4, ReadStep

LEMMA JoinThreadStep ==
  ASSUME PayloadInv, NEW c \in Callers, JoinThread(c)
  PROVE  PayloadInv'
  <1> DEFINE w == IF thread = None THEN IdleCall
                  ELSE [call[c] EXCEPT !.pc = "joining", !.on = thread]
  <1>1. thread \in Threads \cup {None} /\ PayloadTypeOK
    BY DEF PayloadInv, PayloadTypeOK
  <1>2. call' = [call EXCEPT ![c] = w] /\ UNCHANGED <<mgr, stopping, thread, dl, home, sent, alone>>
    BY <1>1 DEF JoinThread, Return, PayloadTypeOK
  <1>3. /\ w \in Call /\ w.pc \in {"idle", "joining"}
        /\ w.pc = "joining" => thread # None /\ w.on = thread
    <2>1. CASE thread = None
      <3>1. w = IdleCall
        BY <2>1
      <3> QED
        BY <3>1, IdleCallType
    <2>2. CASE thread # None
      <3> DEFINE v == [call[c] EXCEPT !.pc = "joining", !.on = thread]
      <3>1. v \in Call /\ v.pc = "joining" /\ v.on = thread
        <4>1. "joining" \in CallPoints
          BY DEF CallPoints
        <4>2. call[c] \in Call
          BY <1>1 DEF PayloadTypeOK
        <4> QED
          BY <1>1, <4>1, <4>2 DEF Call
      <3>2. w = v
        BY <2>2
      <3> HIDE DEF v, w
      <3> QED
        BY <2>2, <3>1, <3>2
    <2> QED
      BY <2>1, <2>2
  <1>4. ~At(c, "idle")
    BY DEF JoinThread, At
  <1> HIDE DEF w
  <1> QED
    BY <1>2, <1>3, <1>4, ReadStep

LEMMA JoinReturnsStep ==
  ASSUME PayloadInv, NEW c \in Callers, JoinReturns(c)
  PROVE  PayloadInv'
  <1> DEFINE w == [call[c] EXCEPT !.pc = "clear", !.on = None]
  <1>1. PayloadTypeOK /\ Sound(mgr) /\ (alone => Ordered)
    BY DEF PayloadInv
  <1>2. /\ At(c, "joining") /\ thread' = None /\ UNCHANGED <<mgr, stopping, dl, home, sent>>
        /\ \/ alone' = alone /\ dl[call[c].on].pc = "dead"
           \/ alone' = FALSE
    BY DEF JoinReturns, Joined
  <1>3. call' = [call EXCEPT ![c] = w]
    BY <1>1 DEF JoinReturns, PayloadTypeOK
  <1>4. w \in Call /\ w.pc = "clear"
    <2>1. call[c] \in Call /\ None \in Threads \cup {None}
      BY <1>1 DEF PayloadTypeOK
    <2> QED
      BY <2>1 DEF Call, CallPoints
  <1> HIDE DEF w
  <1>5. /\ call' \in [Callers -> Call] /\ call'[c] = w
        /\ \A d \in Callers : d # c => call'[d] = call[d]
    BY <1>1, <1>3, <1>4, CallType
  <1>6. PayloadTypeOK' /\ Sound(mgr)'
    <2>1. alone' \in BOOLEAN
      BY <1>1, <1>2 DEF PayloadTypeOK
    <2> QED
      BY <1>1, <1>2, <1>5, <2>1 DEF PayloadTypeOK, Sound, Aim
  <1>7. ASSUME alone'
        PROVE  Ordered'
    <2>1. Ordered
      BY <1>1, <1>2, <1>7
    <2>2. OneCall' /\ \A d \in Callers : d # c => call'[d].pc = "idle"
      BY <1>2, <1>5, <2>1, OneCallKept DEF Ordered, At
    <2>3. call[c].on = thread
      BY <1>2, <2>1 DEF Ordered, JoinsThread
    <2>4. \A t \in Threads : dl[t].pc = "dead"
      BY <1>2, <1>7, <2>1, <2>3 DEF Ordered, OneThread
    <2>5. JoinsThread' /\ ThreadGone'
      BY <1>2, <1>4, <1>5, <2>2 DEF JoinsThread, ThreadGone, At
    <2>6. OneThread' /\ Numbered'
      BY <1>2, <1>4, <1>5, <2>2, <2>4 DEF OneThread, Numbered, At, Resetting
    <2> QED
      BY <2>2, <2>5, <2>6 DEF Ordered
  <1> QED
    BY <1>6, <1>7 DEF PayloadInv

(* The state is reset, by stop or again by start, which goes on to spawn. *)
LEMMA ClearStep ==
  ASSUME PayloadInv, NEW c \in Callers, NEW w \in Call,
         call[c].pc \in {"clear"} \cup Resetting,
         call' = [call EXCEPT ![c] = w], w.pc \in {"idle", "spawn"} \cup Resetting,
         Sound(mgr'), mgr'.seq \in {0, mgr.seq}, At(c, "clear") => mgr'.seq = 0,
         stopping' \in BOOLEAN, sent' \in {0, sent}, w.pc = "spawn" => sent' = 0,
         UNCHANGED <<thread, dl, home, alone>>
  PROVE  PayloadInv'
  <1>1. PayloadTypeOK /\ Sound(mgr) /\ (alone => Ordered)
    BY DEF PayloadInv
  <1>3. /\ call' \in [Callers -> Call] /\ call'[c] = w
        /\ \A d \in Callers : d # c => call'[d] = call[d]
    BY <1>1, CallType
  <1>4. sent' \in 0 .. SeqMod - 1
    BY <1>1, PayloadConstants DEF PayloadTypeOK
  <1>5. PayloadTypeOK' /\ Sound(mgr)'
    BY <1>1, <1>3, <1>4 DEF PayloadTypeOK, Sound, Aim
  <1>6. ASSUME Ordered
        PROVE  Ordered'
    <2>1. OneCall' /\ \A d \in Callers : d # c => call'[d].pc = "idle"
      BY <1>3, <1>6, OneCallKept DEF Ordered, At, Resetting
    <2>2. thread = None
      BY <1>6 DEF Ordered, ThreadGone
    <2>3. \A t \in Threads : dl[t].pc = "dead"
      BY <1>6, <2>2, PayloadConstants DEF Ordered, OneThread
    <2>4. mgr'.seq = 0
      BY <1>6 DEF Ordered, Numbered, At
    <2>5. JoinsThread' /\ ThreadGone'
      BY <1>3, <2>1, <2>2 DEF JoinsThread, ThreadGone, At, Resetting
    <2>6. OneThread' /\ Numbered'
      BY <1>3, <2>1, <2>2, <2>3, <2>4 DEF OneThread, Numbered, At, Resetting
    <2> QED
      BY <2>1, <2>5, <2>6 DEF Ordered
  <1> QED
    BY <1>1, <1>5, <1>6 DEF PayloadInv

LEMMA ClearStateStep ==
  ASSUME PayloadInv, NEW c \in Callers, ClearState(c)
  PROVE  PayloadInv'
  <1> DEFINE w == IF call[c].op = "start" THEN [call[c] EXCEPT !.pc = "seq"] ELSE IdleCall
  <1>1. PayloadTypeOK /\ stopping \in BOOLEAN
    BY DEF PayloadInv, PayloadTypeOK
  <1>2. w \in Call /\ w.pc \in {"idle", "seq"}
    <2>1. "seq" \in CallPoints
      BY DEF CallPoints, Resetting
    <2> QED
      BY <1>1, <2>1, CallPoint, IdleCallType
  <1>3. call' = [call EXCEPT ![c] = w]
    BY <1>1 DEF ClearState, Move, Return, PayloadTypeOK
  <1>4. Sound(mgr') /\ mgr'.seq = 0
    BY ClearedSound DEF ClearState, PayloadInv
  <1>5. call[c].pc = "clear" /\ UNCHANGED <<stopping, thread, dl, home, sent, alone>>
    BY DEF ClearState, At
  <1> HIDE DEF w
  <1> QED
    BY <1>1, <1>2, <1>3, <1>4, <1>5, ClearStep DEF Resetting

LEMMA ResetStateStep ==
  ASSUME PayloadInv, NEW c \in Callers, ResetState(c)
  PROVE  PayloadInv'
  <1> DEFINE point == NextWrite[call[c].pc]
             w == [call[c] EXCEPT !.pc = point]
  <1>1. PayloadTypeOK /\ stopping \in BOOLEAN
    BY DEF PayloadInv, PayloadTypeOK
  <1>2. call[c].pc \in DOMAIN NextWrite /\ mgr' = Written(mgr, call[c].pc)
    BY DEF ResetState
  <1>3. point \in Resetting /\ call[c].pc \in Resetting
    BY <1>2 DEF NextWrite, Resetting
  <1>4. call' = [call EXCEPT ![c] = w]
    BY <1>1 DEF ResetState, Move, PayloadTypeOK
  <1> HIDE DEF point
  <1>5. w \in Call /\ w.pc = point
    <2>1. point \in CallPoints
      BY <1>3 DEF CallPoints
    <2> QED
      BY <1>1, <2>1, CallPoint
  <1>6. Sound(mgr') /\ mgr'.seq \in {0, mgr.seq}
    BY <1>2, WrittenSound DEF PayloadInv
  <1>7. ~At(c, "clear") /\ point # "spawn"
    BY <1>3 DEF At, Resetting
  <1>8. UNCHANGED <<stopping, thread, dl, home, sent, alone>>
    BY DEF ResetState
  <1> HIDE DEF w
  <1> QED
    BY <1>1, <1>3, <1>4, <1>5, <1>6, <1>7, <1>8, ClearStep

LEMMA ResumeStep ==
  ASSUME PayloadInv, NEW c \in Callers, Resume(c)
  PROVE  PayloadInv'
  <1> DEFINE w == [call[c] EXCEPT !.pc = "spawn"]
  <1>1. PayloadTypeOK /\ Sound(mgr)
    BY DEF PayloadInv
  <1>2. w \in Call /\ w.pc = "spawn"
    <2>1. "spawn" \in CallPoints
      BY DEF CallPoints
    <2> QED
      BY <1>1, <2>1, CallPoint
  <1>3. call' = [call EXCEPT ![c] = w]
    BY <1>1 DEF Resume, Move, PayloadTypeOK
  <1>4. /\ call[c].pc = "resume" /\ ~At(c, "clear") /\ mgr' = mgr /\ stopping' = FALSE
        /\ sent' = 0 /\ UNCHANGED <<thread, dl, home, alone>>
    BY DEF Resume, At
  <1> HIDE DEF w
  <1> QED
    BY <1>1, <1>2, <1>3, <1>4, ClearStep DEF Resetting

LEMMA SpawnThreadStep ==
  ASSUME PayloadInv, NEW c \in Callers, SpawnThread(c)
  PROVE  PayloadInv'
  <1> DEFINE t == CHOOSE t \in Free : TRUE
             w == [dl[t] EXCEPT !.pc = "wait"]
  <1>1. PayloadTypeOK /\ Sound(mgr) /\ (alone => Ordered)
    BY DEF PayloadInv
  <1>2. t \in Threads /\ t # None
    <2>1. t \in Free
      BY DEF SpawnThread
    <2> QED
      BY <2>1, PayloadConstants DEF Free
  <1>3. /\ At(c, "spawn") /\ thread' = t /\ call' = [call EXCEPT ![c] = IdleCall]
        /\ UNCHANGED <<mgr, stopping, home, sent, alone>>
    BY DEF SpawnThread, Return
  <1>4. dl' = [dl EXCEPT ![t] = w]
    BY <1>1 DEF SpawnThread, Goto, PayloadTypeOK
  <1> HIDE DEF t
  <1>5. w \in Sender /\ w.pc = "wait"
    BY <1>1, <1>2, SenderPoint
  <1> HIDE DEF w
  <1>6. /\ dl' \in [Threads -> Sender] /\ dl'[t] = w
        /\ \A u \in Threads : u # t => dl'[u] = dl[u]
    BY <1>1, <1>2, <1>4, <1>5, SenderType
  <1>7. /\ call' \in [Callers -> Call] /\ call'[c] = IdleCall
        /\ \A d \in Callers : d # c => call'[d] = call[d]
    BY <1>1, <1>3, CallType, IdleCallType
  <1>8. PayloadTypeOK' /\ Sound(mgr)'
    BY <1>1, <1>2, <1>3, <1>6, <1>7 DEF PayloadTypeOK, Sound, Aim
  <1>9. ASSUME Ordered
        PROVE  Ordered'
    <2>1. OneCall' /\ \A d \in Callers : call'[d].pc = "idle"
      BY <1>3, <1>7, <1>9, OneCallKept, IdleCallType DEF Ordered, At
    <2>2. mgr.seq = 0 /\ sent = 0 /\ thread = None
      BY <1>3, <1>9 DEF Ordered, Numbered, ThreadGone, At
    <2>3. \A u \in Threads : dl[u].pc = "dead"
      BY <1>9, <2>2, PayloadConstants DEF Ordered, OneThread
    <2>4. JoinsThread' /\ ThreadGone'
      BY <2>1 DEF JoinsThread, ThreadGone, At, Resetting
    <2>5. OneThread' /\ Numbered'
      BY <1>2, <1>3, <1>5, <1>6, <2>1, <2>2, <2>3 DEF OneThread, Numbered, At
    <2> QED
      BY <2>1, <2>4, <2>5 DEF Ordered
  <1> QED
    BY <1>1, <1>3, <1>8, <1>9 DEF PayloadInv

-----------------------------------------------------------------------------
(* The invariant, and what it implies. *)

LEMMA PayloadNextInv == PayloadInv /\ [PayloadNext]_payloadVars => PayloadInv'
  <1>1. ASSUME PayloadInv, PayloadNext
        PROVE  PayloadInv'
    <2>1. ASSUME NEW t \in Threads, ThreadStep(t)
          PROVE  PayloadInv'
      BY <1>1, <2>1, WakeStep, GenerateStep, SendPacketStep DEF ThreadStep
    <2>2. ASSUME NEW c \in Callers, CallStep(c)
          PROVE  PayloadInv'
      BY <1>1, <2>2, TestThreadStep, JoinThreadStep, JoinReturnsStep, ClearStateStep,
         ResetStateStep, ResumeStep, SpawnThreadStep DEF CallStep
    <2>3. ASSUME NEW c \in Callers, BeginStop(c, "start") \/ BeginStop(c, "stop")
          PROVE  PayloadInv'
      BY <1>1, <2>3, BeginStopStep
    <2> QED
      BY <1>1, <2>1, <2>2, <2>3, LockedOnce, ConfigureHomeStep DEF PayloadNext
  <1>2. ASSUME PayloadInv, UNCHANGED payloadVars
        PROVE  PayloadInv'
    BY <1>2, AttributeStep DEF payloadVars, PayloadInv, PayloadTypeOK, Sound, Aim
  <1> QED
    BY <1>1, <1>2

LEMMA PayloadInvariant == PayloadSpec => []PayloadInv
  BY PayloadInitInv, PayloadNextInv, PTL DEF PayloadSpec

(* The attributes keep their types. *)
THEOREM PayloadTypeCorrect == PayloadSpec => []PayloadTypeOK
  <1>1. PayloadInv => PayloadTypeOK
    BY DEF PayloadInv
  <1> QED
    BY <1>1, PayloadInvariant, PTL

(* A brew and the simulation are never both on, whichever threads switch     *)
(* them (set_simulation_enabled, start_brew, stop, _generate_and_send).      *)
THEOREM NeverTwoModes == PayloadSpec => []OneMode
  <1>1. PayloadInv => OneMode
    BY DEF PayloadInv, Sound, OneMode
  <1> QED
    BY <1>1, PayloadInvariant, PTL

(* The targets of the next brew are those of the selected preset             *)
(* (_apply_profile_locked, configure_lcd_home_data).                         *)
THEOREM TargetsFollowSelection == PayloadSpec => []TargetsOfSelected
  <1>1. PayloadInv => TargetsOfSelected
    BY DEF PayloadInv, Sound, Aim, TargetsOfSelected
  <1> QED
    BY <1>1, PayloadInvariant, PTL

(* The packets handed to the callback after start are numbered without a     *)
(* gap, as long as no join gave up and no two calls overlapped.              *)
THEOREM PacketsConsecutive == PayloadSpec => []DownlinkConsecutive
  <1>1. PayloadInv => DownlinkConsecutive
    BY DEF PayloadInv, Ordered, Numbered, DownlinkConsecutive
  <1> QED
    BY <1>1, PayloadInvariant, PTL

(* With the same proviso no downlink thread runs from the clearing of the    *)
(* state in stop to the start of the next thread.                            *)
THEOREM QuietWhenStopped == PayloadSpec => []StoppedIsQuiet
  <1>1. PayloadInv => StoppedIsQuiet
    BY PayloadConstants DEF PayloadInv, Ordered, ThreadGone, OneThread, StoppedIsQuiet
  <1> QED
    BY <1>1, PayloadInvariant, PTL

=============================================================================
