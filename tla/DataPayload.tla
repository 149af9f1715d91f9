---------------------------- MODULE DataPayload ----------------------------
(***************************************************************************)
(* The data payload manager: it owns the downlink thread, the simulation   *)
(* and brew modes that thread streams, and the Home values of Screen 7.    *)
(* Its uplink FIFO is in UplinkPath.                                       *)
(*                                                                         *)
(* API threads call start and stop (open, close and release of the         *)
(* transport) outside the runtime's Lock; the manager's own _lock is held  *)
(* only for the sections that are single steps here, and start's writes    *)
(* without it are one step each, between those.  A join waits one second   *)
(* and may return while the thread is still inside its serial write.       *)
(* _wake_event only shortens a wait and is left out: a wait may end at any *)
(* time.                                                                   *)
(*                                                                         *)
(* Sample values, text, counters for the display and the sine phase are    *)
(* left out.  A preset's own value of a Home field is named by its         *)
(* profile, and "computed" is any value derived from the samples.          *)
(***************************************************************************)
EXTENDS Naturals, Sequences

CONSTANTS
  Callers,    \* API threads that start and stop the manager
  Threads,    \* identities of downlink threads
  None,       \* no thread, no override, no profile id
  Profile,    \* the profile presets
  First,      \* the first preset, also the default one
  Unknown,    \* a profile id no preset has
  BrewTime,   \* the brew time of each profile, in ticks
  Field,      \* the Home fields modelled
  Value,      \* values the user sets a Home field to
  SeqMod      \* the downlink sequence number is taken modulo 2^32

HomeField == {"temperature", "water", "weight", "shot", "warmup", "steam"}

ASSUME PayloadConstants ==
  /\ First \in Profile /\ Unknown \notin Profile /\ None \notin Profile \cup {Unknown}
  /\ None \notin Threads \cup Value
  /\ BrewTime \in [Profile -> Nat \ {0}]
  /\ Field \subseteq HomeField
  /\ SeqMod \in Nat \ {0}

VARIABLES
  mgr,      \* the attributes that _lock protects
  stopping, \* _stop_event
  thread,   \* _thread
  dl,       \* the downlink threads: control point and packet in hand
  call,     \* the API threads' calls of start and stop
  home,     \* configure_lcd_home_data of the runtime: what it read
  sent,     \* history: packets handed to the callback since start, while alone
  alone     \* history: no join gave up and no two calls overlapped

payloadVars == <<mgr, stopping, thread, dl, call, home, sent, alone>>

-----------------------------------------------------------------------------
(* Types. *)

Shown == Profile \cup Value \cup {"computed"}

(* The Home fields a preset has a value for; configuring one also writes it *)
(* into the selected preset.  The temperature is also a target of the brew. *)
Targeted == Field \cap {"temperature", "shot"}
Aimed == Field \cap {"temperature"}

(* The overrides a brew clears, and the fields it leaves to their override. *)
ClearedByBrew == Field \cap {"weight", "water", "warmup"}
KeptInBrew == Field \cap {"shot", "steam"}

Manager ==
  [seq : 0 .. SeqMod - 1, sim : BOOLEAN, brew : BOOLEAN, clock : BOOLEAN, elapsed : Nat,
   profile : Profile, target : [Aimed -> Shown],
   preset : [Profile -> [Targeted -> Shown]],
   override : [Field -> Value \cup {None}], live : [Field -> Shown]]

Packet ==
  [seq : 0 .. SeqMod - 1, last : BOOLEAN, live : [Field -> Shown]]

(* "wait": in the paced wait; "due": woken, not told to stop; "send": in    *)
(* the callback, until the lock is taken again.                             *)
Sender == [pc : {"dead", "wait", "due", "send"}, pkt : Packet]

(* What start writes without the lock, one after the other, and then the    *)
(* withdrawal of the stop request.                                          *)
Resetting == {"seq", "sim", "brew", "clock", "resume"}

(* stop: "test" and "join" read _thread once each, "joining" waits for the  *)
(* thread read; "clear" takes the lock.  start continues with its writes    *)
(* and "spawn".                                                             *)
CallPoints == {"idle", "test", "join", "joining", "clear", "spawn"} \cup Resetting

Call == [op : {"start", "stop"}, on : Threads \cup {None}, pc : CallPoints]

-----------------------------------------------------------------------------
(* Profiles and modes, as operators on the attributes. *)

(* _resolve_profile_locked: no id is the selected one, an unknown id the    *)
(* first preset.                                                            *)
Resolve(a, id) ==
  IF id = None THEN a.profile ELSE IF id \in Profile THEN id ELSE First

(* _apply_profile_locked: a target shows on the Home page unless overridden. *)
ApplyProfile(a, p) ==
  [a EXCEPT !.profile = p, !.target = [f \in Aimed |-> a.preset[p][f]],
            !.live = [f \in Field |->
              IF f \in Targeted /\ a.override[f] = None THEN a.preset[p][f] ELSE @[f]]]

(* "clock": _brew_started_monotonic is set; without it no time has elapsed. *)
EndBrew(a) == [a EXCEPT !.brew = FALSE, !.clock = FALSE, !.elapsed = 0]

BrewOver(a) == a.elapsed >= BrewTime[a.profile]

(* What stop clears under the lock. *)
Cleared(a) == [EndBrew(a) EXCEPT !.seq = 0, !.sim = FALSE]

(* What start clears again without it, one attribute at a time. *)
Written(a, attribute) ==
  CASE attribute = "seq" -> [a EXCEPT !.seq = 0]
    [] attribute = "sim" -> [a EXCEPT !.sim = FALSE]
    [] attribute = "brew" -> [a EXCEPT !.brew = FALSE]
    [] attribute = "clock" -> [a EXCEPT !.clock = FALSE, !.elapsed = 0]

(* Mutant of Simulate: a running brew is kept. *)
SimulateKeepsBrew(a, on) == [a EXCEPT !.sim = on]

(* set_simulation_enabled *)
Simulate(a, on) == [IF on THEN EndBrew(a) ELSE a EXCEPT !.sim = on]

(* start_brew *)
Brew(a, p) ==
  LET b == ApplyProfile(a, p)
  IN [b EXCEPT !.brew = TRUE, !.clock = TRUE, !.elapsed = 0, !.sim = FALSE,
               !.override = [f \in Field |-> IF f \in ClearedByBrew THEN None ELSE @[f]]]

(* Mutant of SetHome: the preset is not updated. *)
SetHomeOnly(a, f, v) ==
  [a EXCEPT !.override[f] = v, !.live[f] = v,
            !.target = [g \in Aimed |-> IF g = f THEN v ELSE @[g]]]

(* One field of configure_lcd_home_data. *)
SetHome(a, f, v) ==
  [a EXCEPT !.override[f] = v, !.live[f] = v,
            !.target = [g \in Aimed |-> IF g = f THEN v ELSE @[g]],
            !.preset[a.profile] = [g \in Targeted |-> IF g = f THEN v ELSE @[g]]]

-----------------------------------------------------------------------------
(* Downlink packets. *)

(* Mutant of PacketHome: overrides are forgotten. *)
PacketHomeComputed(a, brewMode) == [f \in Field |-> "computed"]

(* The Home values of a packet: an override, unless a brew streams its own. *)
PacketHome(a, brewMode) ==
  [f \in Field |->
    IF a.override[f] # None /\ (~brewMode \/ f \in KeptInBrew)
    THEN a.override[f] ELSE "computed"]

(* The packet built under the lock; whether it ends the brew is decided now. *)
NextPacket(a) ==
  [seq |-> a.seq, last |-> a.brew /\ BrewOver(a), live |-> PacketHome(a, a.brew)]

(* Mutant of AfterSend: a brew that is over is not ended. *)
AfterSendGoesOn(a, pkt) == [a EXCEPT !.live = pkt.live]

(* What is written back under the lock once the callback returned. *)
AfterSend(a, pkt) == [IF pkt.last THEN EndBrew(a) ELSE a EXCEPT !.live = pkt.live]

-----------------------------------------------------------------------------
(* The downlink thread (_run and _generate_and_send). *)

NoPacket == [seq |-> 0, last |-> FALSE,
             live |-> [f \in Field |-> "computed"]]

Goto(t, point) == dl' = [dl EXCEPT ![t].pc = point]
Halt(t) == dl' = [dl EXCEPT ![t] = [pc |-> "dead", pkt |-> NoPacket]]

Wake(t) ==
  /\ dl[t].pc = "wait"
  /\ IF stopping THEN Halt(t) ELSE Goto(t, "due")
  /\ UNCHANGED <<mgr, stopping, thread, call, home, sent, alone>>

(* Mutants of NextSeq: the width is forgotten; at the wrap the number of a  *)
(* packet is used twice.                                                    *)
NextSeqNoWrap(n) == n + 1
NextSeqStuck(n) == IF n = SeqMod - 1 THEN n ELSE n + 1
NextSeq(n) == (n + 1) % SeqMod

Generate(t) ==
  /\ dl[t].pc = "due"
  /\ IF mgr.sim \/ mgr.brew
     THEN /\ dl' = [dl EXCEPT ![t] = [pc |-> "send", pkt |-> NextPacket(mgr)]]
          /\ mgr' = [mgr EXCEPT !.seq = NextSeq(@)]
     ELSE Goto(t, "wait") /\ UNCHANGED mgr
  /\ UNCHANGED <<stopping, thread, call, home, sent, alone>>

(* The callback hands the packet to the runtime, which swallows every       *)
(* failure; then the lock is taken again for what the packet changes.       *)
SendPacket(t) ==
  /\ dl[t].pc = "send"
  /\ sent' = IF alone THEN (sent + 1) % SeqMod ELSE 0
  /\ mgr' = AfterSend(mgr, dl[t].pkt)
  /\ dl' = [dl EXCEPT ![t] = [pc |-> "wait", pkt |-> NoPacket]]
  /\ UNCHANGED <<stopping, thread, call, home, alone>>

-----------------------------------------------------------------------------
(* stop and start. *)

At(c, point) == call[c].pc = point
IdleCall == [op |-> "stop", on |-> None, pc |-> "idle"]
Move(c, point) == call' = [call EXCEPT ![c].pc = point]
Return(c) == call' = [call EXCEPT ![c] = IdleCall]

BeginStop(c, op) ==
  /\ At(c, "idle")
  /\ alone' = (alone /\ \A d \in Callers : At(d, "idle"))
  /\ stopping' = TRUE
  /\ call' = [call EXCEPT ![c] = [op |-> op, on |-> None, pc |-> "test"]]
  /\ UNCHANGED <<mgr, thread, dl, home, sent>>

TestThread(c) ==
  /\ At(c, "test")
  /\ Move(c, IF thread = None THEN "clear" ELSE "join")
  /\ UNCHANGED <<mgr, stopping, thread, dl, home, sent, alone>>

(* The second read of _thread: another stop may have set it to None, and    *)
(* the join then raises into the caller.                                    *)
JoinThread(c) ==
  /\ At(c, "join")
  /\ IF thread = None THEN Return(c)
     ELSE call' = [call EXCEPT ![c].pc = "joining", ![c].on = thread]
  /\ UNCHANGED <<mgr, stopping, thread, dl, home, sent, alone>>

(* Mutant of Joined: the join does not wait. *)
JoinedAtOnce(t) == TRUE
Joined(t) == dl[t].pc = "dead"

(* The join ends with its thread, or after its second, which a send may     *)
(* outlast.                                                                 *)
JoinReturns(c) ==
  /\ At(c, "joining")
  /\ \/ Joined(call[c].on) /\ UNCHANGED alone
     \/ dl[call[c].on].pc = "send" /\ alone' = FALSE
  /\ thread' = None
  /\ call' = [call EXCEPT ![c].pc = "clear", ![c].on = None]
  /\ UNCHANGED <<mgr, stopping, dl, home, sent>>

ClearState(c) ==
  /\ At(c, "clear")
  /\ mgr' = Cleared(mgr)
  /\ IF call[c].op = "start" THEN Move(c, "seq") ELSE Return(c)
  /\ UNCHANGED <<stopping, thread, dl, home, sent, alone>>

(* start repeats the reset without the lock. *)
NextWrite == [seq |-> "sim", sim |-> "brew", brew |-> "clock", clock |-> "resume"]

ResetState(c) ==
  /\ call[c].pc \in DOMAIN NextWrite
  /\ mgr' = Written(mgr, call[c].pc)
  /\ Move(c, NextWrite[call[c].pc])
  /\ UNCHANGED <<stopping, thread, dl, home, sent, alone>>

(* It withdraws the stop request. *)
Resume(c) ==
  /\ At(c, "resume")
  /\ stopping' = FALSE
  /\ sent' = 0
  /\ Move(c, "spawn")
  /\ UNCHANGED <<mgr, thread, dl, home, alone>>

Free == {t \in Threads : dl[t].pc = "dead" /\ thread # t /\ \A c \in Callers : call[c].on # t}

(* The new thread takes an identity nobody refers to. *)
SpawnThread(c) ==
  /\ At(c, "spawn") /\ Free # {}
  /\ LET t == CHOOSE t \in Free : TRUE IN thread' = t /\ Goto(t, "wait")
  /\ Return(c)
  /\ UNCHANGED <<mgr, stopping, home, sent, alone>>

-----------------------------------------------------------------------------
(* The other operations: each takes the lock once. *)

(* The profiles a request can resolve to. *)
Requested == {Resolve(mgr, id) : id \in Profile \cup {None, Unknown}}

SetSimulationEnabled(on) ==
  /\ mgr' = Simulate(mgr, on)
  /\ UNCHANGED <<stopping, thread, dl, call, home, sent, alone>>

SelectProfile(p) ==
  /\ mgr' = ApplyProfile(mgr, p)
  /\ UNCHANGED <<stopping, thread, dl, call, home, sent, alone>>

StartBrew(p) ==
  /\ mgr' = Brew(mgr, p)
  /\ UNCHANGED <<stopping, thread, dl, call, home, sent, alone>>

StopBrew ==
  /\ mgr' = EndBrew(mgr)
  /\ UNCHANGED <<stopping, thread, dl, call, home, sent, alone>>

(* The brew clock. *)
BrewTick ==
  /\ mgr.brew /\ mgr.clock /\ ~BrewOver(mgr)
  /\ mgr' = [mgr EXCEPT !.elapsed = @ + 1]
  /\ UNCHANGED <<stopping, thread, dl, call, home, sent, alone>>

(* The runtime's configure_lcd_home_data: it updates the fields, reads the  *)
(* modes, and only later turns the simulation on.                           *)
ConfigureHome(p, f, v) ==
  /\ home = "idle"
  /\ LET a == IF p = None THEN mgr ELSE ApplyProfile(mgr, p)
     IN mgr' = IF f = None THEN a ELSE SetHome(a, f, v)
  /\ home' = "read"
  /\ UNCHANGED <<stopping, thread, dl, call, sent, alone>>

ReadModes ==
  /\ home = "read"
  /\ home' = IF mgr.brew \/ mgr.sim THEN "idle" ELSE "enable"
  /\ UNCHANGED <<mgr, stopping, thread, dl, call, sent, alone>>

EnableHomeStream ==
  /\ home = "enable" /\ home' = "idle"
  /\ mgr' = Simulate(mgr, TRUE)
  /\ UNCHANGED <<stopping, thread, dl, call, sent, alone>>

-----------------------------------------------------------------------------
(* The specification. *)

PayloadInit ==
  /\ mgr = [seq |-> 0, sim |-> FALSE, brew |-> FALSE, clock |-> FALSE, elapsed |-> 0,
            profile |-> First, target |-> [f \in Aimed |-> First],
            preset |-> [p \in Profile |-> [f \in Targeted |-> p]],
            override |-> [f \in Field |-> None],
            live |-> [f \in Field |-> IF f \in Targeted THEN First ELSE "computed"]]
  /\ stopping = FALSE /\ thread = None /\ home = "idle"
  /\ dl = [t \in Threads |-> [pc |-> "dead", pkt |-> NoPacket]]
  /\ call = [c \in Callers |-> IdleCall]
  /\ sent = 0 /\ alone = TRUE

ThreadStep(t) == Wake(t) \/ Generate(t) \/ SendPacket(t)

CallStep(c) ==
  \/ TestThread(c) \/ JoinThread(c) \/ JoinReturns(c)
  \/ ClearState(c) \/ ResetState(c) \/ Resume(c) \/ SpawnThread(c)

PayloadNext ==
  \/ \E t \in Threads : ThreadStep(t)
  \/ \E c \in Callers : CallStep(c) \/ BeginStop(c, "start") \/ BeginStop(c, "stop")
  \/ \E on \in BOOLEAN : SetSimulationEnabled(on)
  \/ \E p \in Requested : SelectProfile(p) \/ StartBrew(p)
  \/ StopBrew \/ BrewTick
  \/ \E p \in Requested \cup {None}, f \in Field \cup {None}, v \in Value :
       ConfigureHome(p, f, v)
  \/ ReadModes \/ EnableHomeStream

PayloadSpec == PayloadInit /\ [][PayloadNext]_payloadVars

(* The interpreter runs every downlink thread. *)
PayloadFairness == \A t \in Threads : WF_payloadVars(ThreadStep(t))

PayloadLiveSpec == PayloadSpec /\ PayloadFairness

-----------------------------------------------------------------------------
(* Properties. *)

(* The attributes keep their types. *)
PayloadTypeOK ==
  /\ mgr \in Manager
  /\ stopping \in BOOLEAN /\ thread \in Threads \cup {None}
  /\ dl \in [Threads -> Sender] /\ call \in [Callers -> Call]
  /\ home \in {"idle", "read", "enable"}
  /\ sent \in 0 .. SeqMod - 1 /\ alone \in BOOLEAN

(* The thread streams one mode: a brew and the simulation are never both    *)
(* on, whatever callers switch them, reset them without the lock, or act on *)
(* modes they read earlier.                                                 *)
OneMode == ~(mgr.sim /\ mgr.brew)

(* The targets the next brew uses are those of the selected preset, also    *)
(* after Screen 7 changed one and another profile was selected and left.    *)
TargetsOfSelected == \A f \in Aimed : mgr.target[f] = mgr.preset[mgr.profile][f]

(* data_payload.py: "The sequence counter starts at zero on every start()   *)
(* call so the client can detect gaps": the packets handed to the callback  *)
(* after start are numbered 0, 1, 2 and so on, as long as no join gave up   *)
(* on a thread and no two calls of start and stop overlapped.               *)
DownlinkConsecutive ==
  alone => \A t \in Threads : dl[t].pc = "send" => dl[t].pkt.seq = sent

(* stop: "Stop the downlink send thread and clear pending state": with the  *)
(* same proviso, no thread runs from the clearing of the state to the start *)
(* of the next thread.                                                      *)
StoppedIsQuiet ==
  alone /\ (\E c \in Callers : call[c].pc \in {"clear", "spawn"} \cup Resetting)
    => \A t \in Threads : dl[t].pc = "dead"

(* start_brew: "Brew stream must stay dynamic": outside of start, a brew has *)
(* a clock, without which its progress stays at zero and it never ends.     *)
BrewDynamic == (\A c \in Callers : At(c, "idle")) /\ mgr.brew => mgr.clock

(* stop: "Stop the downlink send thread": a new thread never joins one that *)
(* still runs.                                                              *)
OneDownlinkThread ==
  \A t, u \in Threads : dl[t].pc # "dead" /\ dl[u].pc # "dead" => t = u

(* REVISION_HISTORY.doc: the manager "preserves profile-specific brew       *)
(* duration through profile selection/start": the downlink thread ends no   *)
(* brew before its time.                                                    *)
BrewRunsItsTime ==
  [][(\E t \in Threads : SendPacket(t)) /\ mgr.brew /\ ~mgr'.brew => BrewOver(mgr)]_payloadVars

Running == ~stopping /\ \E t \in Threads : dl[t].pc # "dead"

(* A brew whose time is over ends, unless it is restarted, given another    *)
(* profile, or the manager is stopped.                                      *)
BrewEnds ==
  (mgr.brew /\ BrewOver(mgr) /\ Running) ~> (~mgr.brew \/ ~BrewOver(mgr) \/ ~Running)

(* A value set on Screen 7 is shown again after a packet built before it    *)
(* overwrote it, as long as the simulation streams.                         *)
HomeValueShown ==
  \A f \in Field, v \in Value :
    (mgr.override[f] = v /\ mgr.sim /\ Running)
      ~> (mgr.live[f] = v \/ mgr.override[f] # v \/ ~mgr.sim \/ ~Running)

=============================================================================
