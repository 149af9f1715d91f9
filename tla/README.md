# Verification of the Gaggia bridge, simulator and communication interface

The repository is a communication stack for an espresso machine: a PC simulator
(Python, FastAPI) talks over USB serial to an ESP32-C3 bridge (C, FreeRTOS), which
serves one TCP client (an ESP32-S3 with the LCD, not in the repository). This
directory holds TLA+ modules of the parts that carry the protocol, TLC configurations
for small instances, and TLAPS proofs.

## 1. Inventory

```
browser page --HTTP--> API routes --> LinkRuntime --> SerialLinkManager --USB--> bridge --TCP--> client
                                         |    ^               (reader thread)    (one task)     (external)
                                         v    | downlink callback
                                   DataPayloadManager (downlink thread)
```

| Part | State it keeps | Operations | What is hard | What makes it correct |
|---|---|---|---|---|
| Bridge firmware, `CommunicationFunctions.c` | link state, live integers, session and request ids, response-pending flag, window and retry count, staged TCP bytes, version flag, stream flag | frame handlers for two transports, accept, poll, keepalive engine, watchdog, Wi-Fi on and off | timeouts racing late answers, duplicate and foreign answers, sends that fail half way through a handler, handlers that reset only some of the statics, counters that wrap, a blocking read | the exchange is never stranded, counters stay coupled, retries are bounded, an answer is accepted once, in order, and only for what was asked, a silent client is given up |
| Transport runtime, `link_state_machine.py` | state, fault latch, automatic stage, Wi-Fi and TCP flags, brew bookkeeping | one method per API call, frame handling on poll | calls from a thread pool, opening outside the Lock, a downlink write after the Lock, frames applied after the fault or reset that made them stale | a keepalive state is proven, ERROR is inert, stages follow in order, one `shot_done_success` per brew |
| Serial link manager, `serial_link.py` | current handle, reader thread, receive buffer and queue | open, close, force release, send with retries, reader loop | open and write outside the lock, readers that outlive their handle | a fault on a handle affects that handle only, an open port is read |
| Data payload manager, `data_payload.py` | brew and simulation mode, profile, downlink thread, uplink FIFO | start, stop, configure, brew control, packet loop, uplink push and pop | a stop that gives up waiting, calls that overlap, decisions applied after a send, a FIFO at its limit | one mode at a time, consecutive packet numbers, a brew ends when its time is over, no uplink packet is popped twice or out of order |
| Frame codec, `ServerInterface` (Python and C++) | none | encode, decode, CRC | resynchronisation after damage, frames cut by reads, errors after good frames | frames of an intact line are decoded with their last byte, nothing else ever is |
| Host and bridge together | two state machines and what is on the line between them | - | reports that are lost, overtaken or stale; reboots and lost ports | a host in a keepalive state has a client at the other end, or learns that it has not |
| LCD protocol helpers, `server/communication` | none (hooks) | bootstrap answers, clamping | - | - |
| API routes, page, scripts | none of the protocol | calls, polling, tooling | - | - |

The pieces interact by calls (routes to runtime, runtime to both managers), by shared
state (the receive queue, the brew flag, the port handle), by one callback (the
downlink thread calls back into the runtime), and by frames over USB and TCP.

## 2. Modules

**Bridge** models `CommunicationFunctions.c`. The C statics are one record `b`; a C
function that changes them is an operator from records to records (`EnterState`,
`CloseTcpClient`, `SendServerKeepalive`, ...), so a handler is written as the
composition of the calls it makes, in their order. An action is one pass through a
handler: `Handle*` for the frames of the host (`"USB"`) or the client (`"TCP"`),
`AcceptTcpClient`, `PollTcpClient`, `PeerClosed`, `ServiceKeepaliveEngine`,
`ServiceTransportWatchdog`, `Boot`, `Reboot`. The client may send any frame of
`ClientFrames` at any time: losses, duplicates, reordering and forgeries are all
included. A send succeeds or fails (`ok`); a failed one closes the client in the middle
of the handler, as in the code. `b.usb` is what the step wrote to USB. `issued` and
`accepted` are history variables. Staged TCP bytes are counted in whole frames; time
is a choice: the period and the window may elapse whenever they are running.

**HostRuntime** models `LinkRuntime`. Its attributes are one record `h`, and again a
method is an operator on it. What a call does under the Lock is one step; calls that
also work outside it take several (`opener` for `open_transport`, `closer` for
`close_transport` and `force_release_transport`, `dl` for the downlink thread). Every
call that returns a snapshot ends with `Snapshot`, which also moves the
`shot_done_success` bookkeeping. A call that polls handles all received frames in
order (`HandleAll`) before its own work (`Body`). `set_simulation` starts the simulation before it
takes the Lock, so it is two steps (`TurnSimulationOn`, `ForwardSimulation`). `h.port` and
`h.brew` are what the two managers report (a brew started after `close_transport` stopped
the data manager survives the close); `h.out` is what the step wrote to the port. Left out are counters,
log lines, times and attributes that only the display reads.

**SerialLink** models `SerialLinkManager`. A handle is the number of the open that made
it. Callers (API threads and the downlink thread) and reader threads have a program
counter each, because they keep a handle across the manager's lock: a block under the
lock is one step, and so is each blocking call between two blocks (`OpenPort`,
`OpenHandle`, `Install`, `StartReader`; `SendFrame`, `Write`, `WriteFailure`;
`ReaderLoop`, `Read`, `Received`, `ReadFailure`, `ReaderClose`). Reads and writes fail
at any time, and always on a closed handle. Received bytes and frames are known only by
the number of buffer clears that preceded their read. `force_release_port` is a close
followed by the killing of foreign processes, which is left out.

**DataPayload** models `DataPayloadManager` but for its uplink side. `mgr` holds the
attributes that `_lock` protects; what a method does under it is one step. `call` and
`dl` are the program counters of API threads inside `start` and `stop` and of the
downlink threads: the stop request, the two reads of `_thread`, the join, the cleared
state, the writes of the reset, which `start` does without the lock (`ResetState`, one
step for each attribute, then `Resume`), and the new thread are separate steps, and so are
the wait, the packet built under the lock and the write-back after the send. A brew has a
clock (`mgr.clock`, its start time is set): without one its elapsed time stays 0. A join ends with its
thread or, while that thread is inside a send, by its timeout. `home` follows the
runtime's `configure_lcd_home_data`, which reads the modes and acts on them later. A
Home value is the name of the preset or of the user's value it came from, or "computed".

**UplinkPath** models the way of an uplink packet through the host: bytes on the line,
the reader's buffer, `decode_frames` (its loop as a recursive function of the number of
passes, each with the mark, length, type and CRC tests in the code's order and the three
ways it leaves the buffer), the
decoded frames, `receive_uplink`, `pop_uplink`, and what `stop` and `clear_buffers`
throw away. There may be several readers, since readers outlive their handle; each reads a
chunk without the lock (`ReadChunk`) and later puts it into the buffer and decodes under it
(`TakeChunk`). Between the two the buffers may be cleared, which leaves the chunk alone, or
another reader may come first. A fault damages or drops any byte on the line; reads may end
anywhere.
**LossyChannel** is the abstract promise, the "non-synchronized best-effort channel" of
`data_payload.py`: packets may be lost anywhere, but what is delivered was sent, is delivered
once, and, with `InOrder`, in the order it was sent. `delivered` is the whole sequence, so
each pop is a step of its own, and one of a packet popped before is a step the channel does
not have. `BestEffort` is that specification under the mapping that takes as pending every
packet of which a trace is left on the line, in a reader's hands, in a buffer or in the
FIFO, as delivered the packets popped, and as `InOrder` that one thread reads.

**Link** composes HostRuntime and Bridge. Both are instantiated (`PC`, `C3`) and their
operators on `h` and `b` are reused as they are; only the steps are new. A step of the
bridge appends what it wrote to `toHost`, a step of the host what it wrote to
`toBridge`; frames that no handler of the receiver acts on are not put on the line. The
reader thread is part of the line: a poll takes any number of the frames under way. A
reset discards any part of what is under way (the buffers are cleared in three places,
one after the other, while the reader goes on), a closed or lost port the rest, and a
reboot of the bridge takes port and statics away. The bridge obeys the frames the host
really sends: its INITIALIZE carries no `data_ver`, so the bridge refuses it (`Obeyed`),
goes to ERROR, writes ERROR frames that the host only logs, and drops the session. The client is any client: it may send
every frame, in any order, with right or wrong contents, and may go at any time.

**MCBridge**, **MCHostRuntime**, **MCSerialLink**, **MCDataPayload**, **MCUplinkPath**
instantiate them for TLC (Link needs no definitions of its own). **BridgeProofs**,
**SerialProofs**, **HostProofs**, **PayloadProofs**, **UplinkProofs**,
**UplinkRefinement** and **LinkProofs** hold the theorems, and **Iteration** the induction over rounds of a
loop that they share. Definitions marked *mutant* are plausible mistakes
of the code; no specification uses them. Each is substituted for the definition it
follows to see that the property it belongs to then fails.

## 3. Runs

| Run | Expected | What it shows |
|---|---|---|
| `bridge` | pass | all safety properties of the bridge, with reads that fill the buffer, two sessions, three requests per session, live integers modulo 4 |
| `bridge_live` | pass | a silent client is given up, as long as reads are short |
| `bridge_buffer` | violation | closing the client inside a handler makes the staged byte count wrap |
| `host` | pass | state and flags of the runtime agree, under all interleavings and all link frames |
| `host_brew` | pass | at most one `shot_done_success` per brew |
| `serial` | pass | the current handle is open and read, under all interleavings of two callers and two handles; readers of a closed port end |
| `serial_stale` | violation | the reader of a closed handle drops the handle opened after it |
| `payload` | pass | the manager's modes, targets, packet numbers and threads, under all interleavings of a starting and stopping caller, two threads and every control call; brews end, Home values are shown |
| `uplink` | pass | the uplink implements `LossyChannel`; every packet is accounted for; what is decoded of an intact line, and when |
| `link` | pass | host and bridge agree that a session exists, or the host finds out that it does not, but for three ways a session ends |
| `link_ghost` | violation | a failed keepalive send leaves the host in a keepalive state without a client |
| `link_refused` | violation | the bridge's refusal of INITIALIZE leaves the host in a keepalive state without a session |

Beside these runs there are configurations to start by hand (`tlc -config <file> <module>`).
All but the first end in a trace that refutes something a text of the repository says; the
findings in 5 explain them.

| Configuration | Module | What it shows |
|---|---|---|
| `MCUplinkReaders.cfg` | `MCUplinkPath` | two readers: the uplink implements `LossyChannel` without order (passes) |
| `MCBridgeFull.cfg` | `MCBridge` | `SilentClientGivenUp` fails with reads that fill the buffer |
| `MCHostLatch.cfg`, `MCHostStage.cfg` | `MCHostRuntime` | `FaultLatched` and `StageStaysArmed` fail |
| `MCSerialLeak.cfg` | `MCSerialLink` | `NoStaleTraffic` fails |
| `MCPayloadClock.cfg`, `MCPayloadThreads.cfg`, `MCPayloadStale.cfg` | `MCDataPayload` | `BrewDynamic`, `OneDownlinkThread` and `BrewRunsItsTime` fail |
| `MCUplinkSplit.cfg`, `MCUplinkUnknown.cfg` | `MCUplinkPath` | `FramingStateKept` and `CompleteFramesDecoded` fail |

*Bridge properties.* `KeepaliveArmed`: with a client attached, SERVER_SEND always finds
the engine's flags and CLIENT_RETURN the watchdog's, so neither phase can be stranded;
the interesting steps are failed sends in the middle of `bridge_send_server_keepalive`
and handlers that leave `s_keepalive_response_pending` alone.
`NegotiatedBeforeKeepalive`, `CountersInStep`, `RetriesBounded` relate the state to the
version flag, the live integers and the retry count. `AcceptedWasIssued` and
`AcceptedInOrder` are about histories: what the bridge accepts answers what it sent,
once and in order. `ResendRepeatsRequest` and `StreamHaltReported` restrict steps.
`DelayOnlyInKeepalive` is about a value that must not outlive its phase.
`SilentClientGivenUp` holds as long as reads are short (`bridge_live`) and fails when one
fills the buffer (`MCBridgeFull.cfg`).

*Host properties.* `KeepaliveProven`, `ConnectStageReady` and `ErrorIsInert` relate the
state to the flags that a dozen handlers set and clear one by one; `ConnectStageReady`
says that a fault branch of the code is unreachable. `OneShotDonePerBrew` restricts
what is written. `FaultLatched` and `StageStaysArmed` are what the transport contract says
of the fault state and of the automatic flow; the code breaks both with one frame that is
polled late.

*Serial properties.* `NoDeafPort` and `CurrentIsOpen` say what an operator relies on
when the page shows an open port: it is really open, and somebody reads it. They have to
survive two callers opening at once, an open that fails after another one succeeded, a
close between the installation of a handle and the start of its reader, and readers that
outlive their handle. `NoStaleTraffic` is the purpose `clear_buffers` states, which a
reader with a chunk in its hands defeats. `ReadersRetire` is the termination of reader
threads that share one flag.

*Payload properties.* `OneMode` has to survive the unlocked reset of `start` and
decisions made on modes read earlier. `TargetsOfSelected` relates the active target to
the preset it must survive in. `DownlinkConsecutive` and `StoppedIsQuiet` are what the
documentation promises of `start` and `stop`; they hold as long as no join gave up and
no two calls overlapped (`alone`), and TLC refutes both without that proviso.
`BrewEnds` and `HomeValueShown` are liveness properties about values that are decided
before a send and applied after it. Three properties say what the code's own texts promise
and it does not keep: `BrewDynamic` (outside of `start` a brew has its clock),
`OneDownlinkThread`, and `BrewRunsItsTime` (the downlink thread ends no brew before its
time). `BrewEnds` is about a brew that has a clock and whose time is over.

*Uplink properties.* `UplinkAccounted` relates the counters to the FIFO and its history.
`StreamDecoded` compares the decoder with a definition by byte counts: on an intact line
read by one thread, the number of frames decoded is the number of frames whose last byte
was put into the buffer, whatever the chunks. It has two provisos, and each is there
because the code needs it: no chunk ended inside a start mark (without it the property is
`FramingStateKept`), and no frame of an unknown type has arrived yet (without it,
`CompleteFramesDecoded`, which asks for the frames of known types only). The docstring of
`decode_frames` has neither proviso; TLC refutes both properties. `BestEffort` is the
refinement: a packet popped was sent and is popped once, and in order if one thread reads.
With two readers the order is lost (TLC refutes the `InOrder` channel with the constants of
`MCUplinkReaders.cfg`), since the later chunk may be put into the buffer first.

*Link properties.* `NoGhostAfterReport` is what the reports of the bridge are for: with
nothing under way, a host in a keepalive state has a client at the other end, whether the
session before was given up, closed, replaced, reset, switched off with the Wi-Fi, or gone
with the port or the bridge, and whatever stale frames survived a cleared buffer. It leaves
out the three ways a session ends that the host does not learn of (`Unreported`): in the
handler of one of the client's own frames, of which the bridge tells the client only; with
a keepalive request that failed; and with a refused INITIALIZE. `NoGhostSession` and
`NoGhostAfterRefusal` are the same property with the second and the third way counted in,
and are refuted (`link_ghost`, `link_refused`). `NoGhostComing` says why it holds, in every
state and not only when the line is empty: it foresees the state the host will have after
the frames under way (`EndsInKeepalive`) and asks for a session then whose end will be
reported. `LossLearned` is the liveness side: the host finds out also when the port that
would carry the report is gone.

*Bounds.* Payload: one caller and two threads are the least in which a thread outlives
the join (the theorems have any number of both); two profiles and one Home field with a
target, one value, sequence numbers modulo 2. Uplink: one reader, four frames, among
them a start mark inside a payload and one of an unknown type before the last packet,
one fault or cleared buffer, a FIFO of two for three packets. In `MCUplinkReaders.cfg`,
two readers and two packets are the least in which one chunk overtakes another; one
cleared buffer comes between the read and the append of either. Link: one session per
boot, one frame either way before more are added (a handler may add several at once),
two retries (the theorems have any number of each). Serial: two callers and two handles
are the least in which opens race and a stale thread meets a newer handle; two write
attempts exercise the retry; buffers are cleared at any time, but old and new data are
told apart in `MCSerialLeak.cfg` only, since no property of `serial` depends on it.
Bridge: two sessions and three requests per session are the least in which a response of
an earlier session, a duplicate and a late one all exist; `LiveMod` 4 lets the live
integers wrap within a session; three retries are the code's limit; up to two frames are
staged per poll, so that a handler's effect on the next staged frame is seen.
`bridge_live` uses one session. Reads that fill the buffer (`FullReads`) occur in
`bridge` and in `MCBridgeFull.cfg`. Host: one received frame per poll (several polls
without any other effect give every sequence of frames), one open call and one close
call at a time, one open attempt (two in `host_brew`). The frames are split over `host`
(everything that moves the link) and `host_brew` (what a brew depends on), since their
product is out of reach.

*Fairness.* `FairSpec`: the bridge's loop handles every staged frame (WF) and passes
both service calls again and again, so each runs if it is due repeatedly (SF), however
many frames come in between. `SerialFairSpec`: each reader thread goes on (WF), since
reads time out after 0.1 s. `PayloadFairness`: every downlink thread goes on (WF), since
its waits time out and its sends return. `LinkFairness`: the page polls every second and
the reader goes on decoding, so a frame under way is handled in the end (WF), and an
`open_transport` that has its port goes on to its reset (WF). Nothing is assumed of the
client, the port, the bridge or the operator.

*Deadlock* is checked in all runs but `uplink`, which ends when its list of frames does.

## 4. Proofs

`BridgeProofs` proves for all values of the constants that satisfy `BridgeConstants`
and `ClientFramesAssumption`:

| Theorem | Statement |
|---|---|
| `TypeCorrect` | `Spec => []TypeOK` |
| `NeverStranded` | `Spec => []KeepaliveArmed` |
| `VersionFirst` | `Spec => []NegotiatedBeforeKeepalive` |
| `CountersCoupled` | `Spec => []CountersInStep` |
| `RetryBound` | `Spec => []RetriesBounded` |
| `OnlyIssuedAccepted` | `NoWrap => (Spec => []AcceptedWasIssued)` |
| `ExactlyOnceInOrder` | `NoWrap => (Spec => []AcceptedInOrder)` |
| `DelayFresh` | `Spec => []DelayOnlyInKeepalive` |
| `ResendRepeats` | `Spec => ResendRepeatsRequest` |
| `HaltsAreReported` | `Spec => StreamHaltReported` |

The argument is one induction in two layers. `LinkInv(b)` is the invariant of the
statics: the four properties above hold together (retries are bounded only because a
waiting phase is armed, counters only because an accepted answer matched them), plus
the order of session ids. Each operator on the statics has a lemma saying what it keeps
(`CloseFacts`, `EnterFacts`, `ReplyFacts`, ...), and each handler one saying that it
preserves `LinkInv` (`Good*`); the actions then follow by cases. The second layer,
`BridgeInv`, adds `PendingInv` (the session is the newest one, the pending request was
allocated in it) and `HistoryInv` (everything accepted is older than the pending
request, and the pending request was sent): without them neither history property is
inductive. It needs `NoWrap` (fewer requests per session than ids), since after 2^32
requests an id repeats and 0 means that none is pending. `DelayFresh`
follows from a conjunct of `LinkInv`: every path out of the keepalive phases goes through
`EnterState`, which clears the delay. The two step properties are carried along
the same lemmas: each operator also states what it does to the request a resend must
repeat (`Repeats`) and that a stream it ends was reported on USB (`Reports`, from `Told`).

`SerialProofs` proves, for any set of callers and any bounds that satisfy
`SerialConstants`, `SerialTypeCorrect`, `NeverDeaf` (`[]NoDeafPort`) and
`CurrentStaysOpen` (`[]CurrentIsOpen`). The invariant `SerialInv` follows the ownership
of handles: every known handle was made by an earlier open (`Made`), so a new one is
held by nobody; a handle about to be installed is open and held by one caller only
(`InstallOwned`); a handle about to be closed is not current (`CloseTaken`). Neither
property is inductive without it: a close could hit the current handle, or an install
could make a closing handle current. Each action has a lemma; `CallerMoves`,
`ReaderMoves` and `ReaderDetaches` carry what many share.

`HostProofs` proves `HostTypeCorrect`, `KeepaliveStateProven` (`[]KeepaliveProven`),
`ConnectNeverEarly` (`[]ConnectStageReady`), `ErrorAlwaysInert` (`[]ErrorIsInert`) and
`AtMostOneShotDone` (`OneShotDonePerBrew`) under `HostConstants` and
`BridgeFramesAssumption`: for any set of bridge frames, any number of them between two
polls, any number of attempts to open. The three invariants support each other and are
proved together (`Consistent`): a keepalive frame may be handled in any state, and an
armed stage survives only the methods that keep the Wi-Fi stage ready. The shot property
needs `ShotOwed`: whatever may still lead to a `shot_done_success` (a brew that runs, one
that was seen, a pending announcement) is owed to a brew. Each method has a lemma
(`Keeps`); a poll handles any number of frames, so `HandleAllKeeps` is an induction on
that number.

`PayloadProofs` proves `PayloadTypeCorrect`, `NeverTwoModes` (`[]OneMode`),
`TargetsFollowSelection` (`[]TargetsOfSelected`), `PacketsConsecutive`
(`[]DownlinkConsecutive`) and `QuietWhenStopped` (`[]StoppedIsQuiet`) under
`PayloadConstants`, for any number of API threads and downlink threads. The first three
follow from an invariant of the locked attributes (`Sound`). The other two hold while no
join gave up and no two calls overlapped (`alone`), and need the positions of all threads
(`Ordered`): one call at a time, one downlink thread, a call past its join finds no
thread, a reset past its first write still has the number 0 when the thread starts, and a
packet under way has the number before the manager's.

`UplinkProofs` proves `PathTypeCorrect`, `NothingUnaccounted` (`[]UplinkAccounted`) and
`FramingKept` (`[]StreamDecoded`) under `PathConstants`: any list of frames, any
depth of the FIFO, any damage, any set of readers. `StreamDecoded` compares two counts and
says nothing of the bytes; the invariant `StreamInv` behind it does (while there was no
fault, no split mark, one reader, and no frame of an unknown type has arrived): the buffer,
the chunk in the reader's hands and the line together hold exactly the frames from the first
undecoded one to the last written (`Framed`), and the buffer holds no whole one (`Rests`).
A frame of an unknown type may wait behind them; it ends the invariant only when its last
byte is put into the buffer. `FirstFramed` and `PassFramed` follow one pass of the decoder:
such a buffer begins with a start mark, so no byte is skipped, whatever marks a payload
contains; it either waits, or yields the next frame and leaves a buffer of the same kind,
or is a lone first byte of a mark, which is cleared and counted as split. `DecodeFramed`
is the induction over the passes, with the length of the buffer as the reason why they
suffice; `InStepDecodes` turns the positions into the count `Arrived`.
`UplinkRefinement` proves `UplinkRefines`: `Tellable /\ PathSpec => BestEffort`. A packet
has a label at each stage (the last byte of its payload on the line, in a reader's hands and
in the buffer, its frame among the decoded ones, its number in the FIFO and among those
popped); `Tellable` says that these last bytes tell the frames apart, without which "the
same packet" has no meaning, and TLC evaluates it for the frames of the runs. The invariant
`Ordered` relates the labels within each stage and from each stage to the ones before it by
`Prec`: the number ascends if one thread reads, and is another one if several do. So the
same proof gives both "once" for any number of readers and "in order" for one. It is needed
in full, because one chunk can move packets through the decoder past what is left in the
buffer.
The loops of `decode_frames` and of the poll are inductions on the number of passes
(`DecodeRunExists`, `ReadOrder`; `ReceiveRunExists`, `ReceiveAllOrder`).

`LinkProofs` proves `LinkTypeCorrect`, `NoGhostOnTheLine` (`[]NoGhostComing`) and
`NoGhostSessions` (`[]NoGhostAfterReport`) under `LinkConstants`: every width of the
counters, every retry limit, any number of sessions and of frames on the line.
`NoGhostAfterReport` speaks of an empty line only and is far from inductive (both leave out
the three ends in `Unreported`, for two of which TLC shows the ghost); `LinkInv`
adds to the types `NoGhostComing`. Its second half is what makes the first inductive: the
bridge reports a closed client only if the session's stream runs, and the stream starts
with the first accepted answer, so a session without it must be one that the host cannot
have entered, because the counters of its requests are still (0, 1), which the host takes
for invalid. While a port is being opened the host's old state is left out, since a reset
follows. The firmware's operators are followed bottom up as in `BridgeProofs`, but each
lemma now says what the frames written make of a host that handles them after any line
(`Ends`); on the host's side `FrameFacts` shows that handling one frame is what
`EndsInKeepalive` says, and `HandleAllFacts` lifts it to any number of them. `LinkConstants`
asks for an even modulus of at least 4 for the live integers, a byte count that can hold
a staged frame (modulus above 2), at least one retry and more ids than sessions: the
code has 32-bit integers, counts and ids, and three retries.

Recursive functions are reasoned about by the least-number principle (`LeastNat` in
`Iteration`, from the library's theorem on minimal elements of well-founded relations):
`Iterates` gives the run of a loop (`Rounds`), `IterationStays` and `BoundedInduction`
what holds along it. The states are large records: `Updates` (in `LinkProofs`
`HostUpdates` and `BridgeUpdates`) says once, field by field, that an update keeps the
type, and the lemmas on methods cite it.

Only model-checked: the liveness properties (`SilentClientGivenUp`, `ReadersRetire`,
`BrewEnds`, `HomeValueShown`, `LossLearned`), which are out of the prover's reach. Every
invariant and every step property of the passing runs is stated by a theorem.

## 5. Findings

Each of these has a run (1 to 4) or a configuration (5 to 13) that ends in a trace of it.

1. *Staged byte count wraps* (`bridge_buffer`). `bridge_poll_tcp_client` subtracts the
   frame's length after the handler, also when the handler closed the client or left
   the keepalive phases and so set the count to 0.
2. *Stale reader* (`serial_stale`). A reader whose read fails detaches and closes the
   current handle without comparing it with the one it read from, as `send_frame` does.
3. *Ghost session* (`link_ghost`). `bridge_send_server_keepalive` mirrors its request to
   the host also when the send closed the client. The host handles the report of the
   closed client first and the mirror second, and is back in a keepalive state; the
   bridge's watchdog does nothing without a client, so the host stays there until a new
   client, a reset or a lost port.
4. *Refused INITIALIZE* (`link_refused`). The host's INITIALIZE has no `data_ver`
   (`link_state_machine.py:549`), so the bridge always refuses it
   (`CommunicationFunctions.c:1363`), goes to ERROR and drops the session. The host only
   logs the ERROR frames; keepalive frames that were under way leave it in a keepalive state.
5. *Blocking read* (`MCBridgeFull.cfg`). The accepted socket is not made non-blocking,
   although a comment says so (`CommunicationFunctions.c:1734`): a read of exactly the
   buffer's size is followed by one that waits for the client, and both service calls starve.
6. *Fault left without a reset* (`MCHostLatch.cfg`). Bridge frames move the runtime out of
   ERROR (`link_state_machine.py:1052`): acknowledgements with the fault flag still set, a
   keepalive frame by clearing it. The transport contract allows "no implicit recovery".
7. *Automatic flow stops* (`MCHostStage.cfg`). `reset_ack` clears the automatic stage that
   `reset` armed (`link_state_machine.py:1085`).
8. *Stale chunk* (`MCSerialLeak.cfg`). A chunk read before `clear_buffers` is buffered after
   it, because the read happens outside the lock (`serial_link.py:483`, `505`). Link includes
   it; it leads to no ghost session there.
9. *Brew without a clock* (`MCPayloadClock.cfg`). `start` resets the brew attributes one by
   one without the lock (`data_payload.py:818`); a brew started between two of the writes
   never ends.
10. *Second downlink thread* (`MCPayloadThreads.cfg`). After a join that gave up, `start`
    withdraws the stop request (`data_payload.py:825`) and the old downlink thread goes on
    beside the new one: packet numbers repeat or jump.
11. *Stale end of a brew* (`MCPayloadStale.cfg`). A brew that was over when its last packet
    was built is ended after the send, even if it has been started again meanwhile
    (`data_payload.py:1386`).
12. *Split start mark* (`MCUplinkSplit.cfg`). `decode_frames` clears a buffer without a
    complete start mark (`frame_codec.py:100`), so a read that ends between its two bytes
    loses the frame. The firmware's own decoder keeps the last byte for this case.
13. *Unknown frame type* (`MCUplinkUnknown.cfg`). `decode_frames` raises at a frame of an
    unknown type (`frame_codec.py:127`), and the frames it decoded before it in the same call
    are lost with the exception.

Seen while modelling, without a run of their own:

- `select_profile` says that it selects for the next brew; it also changes the targets
  and the duration of a running one.
- When the handler of a client's frame ends the session (DISCONNECT, RESET, a failed
  reply), no report the host acts on is sent; it stays in a keepalive state.
- `pop_uplink` has no caller in the application, so the FIFO fills and stays full.

## 6. Plan

Larger instances of `Link` with the brew and the data stream.

Not modelled: the bytes of two concurrent writers on the line; the page, the API's HTTP
layer and the scripts, which keep no protocol state; the LCD data structures (pure
formatting and clamping of display values); the C++ codec and the firmware's LCD library
(not called by the programs modelled); `controller_state.py` (not reachable from the
application); the packet interval, sine parameters, sample tables, counters and log
lines, which no property depends on.
