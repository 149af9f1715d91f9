----------------------------- MODULE UplinkPath -----------------------------
(***************************************************************************)
(* The way of an uplink packet through the host: the bytes of its frame on *)
(* the serial line, the chunk a reader thread has read, the buffer and its  *)
(* decoder (decode_frames), the decoded frames, the runtime's poll, the     *)
(* data payload manager's FIFO and the application that pops it.            *)
(*                                                                         *)
(* A read and what becomes of the chunk under the lock are two steps.  More *)
(* than one reader thread is at work when one outlives its port and finds   *)
(* the next one (SerialLink).                                               *)
(*                                                                         *)
(* A byte is a sequence of one number. The two live integers and the       *)
(* sequence number of a frame are left out, its length and its CRC take    *)
(* one place each, and the CRC is ideal: it is the bytes it covers, in one *)
(* sequence, so it differs whenever they do. A fault changes or drops a    *)
(* byte on the line, and the bytes may be read in chunks of any size.      *)
(***************************************************************************)
EXTENDS Naturals, Sequences, SequencesExt, FiniteSetsExt

CONSTANTS
  Message,    \* the frames the bridge writes: their type and payload
  Readers,    \* reader threads at work
  FifoDepth,  \* FIFO_DEPTH
  MaxFaults   \* bound: faults on the line and cleared buffers

(* What takes one place on the line. *)
Byte == Seq(Nat) \ {<<>>}

ASSUME PathConstants ==
  /\ Message \in Seq([type : Byte, payload : Seq(Byte)])
  /\ FifoDepth \in Nat \ {0} /\ MaxFaults \in Nat

VARIABLES
  sent,    \* frames the bridge has written
  wire,    \* bytes written and not yet read
  chunk,   \* of each reader: what it has read and not yet put into the buffer
  buffer,  \* _rx_buffer
  frames,  \* _rx_frames: the decoded frames
  fifo,    \* _ul_fifo
  count,   \* _ul_rx_count and _ul_drop_count
  popped,  \* history: the packets popped
  gone,    \* history: number of packets popped, or cleared by a stop
  read,    \* history: bytes put into the buffer
  decoded, \* history: frames decoded
  faults,  \* faults on the line and cleared buffers
  split    \* history: a chunk ended between the two bytes of a start mark

pathVars ==
  <<sent, wire, chunk, buffer, frames, fifo, count, popped, gone, read, decoded, faults, split>>

-----------------------------------------------------------------------------
(* The frame codec. *)

Mark1 == <<165>>  \* SOF
Mark2 == <<90>>
DATA == <<8>>
Noise == {<<165>>, <<0>>, <<3>>}  \* what a damaged byte may become

MessageType == {<<t>> : t \in 1 .. 8}

HeaderSize == 4
CrcSize == 1

crc16(bytes) == [i \in DOMAIN bytes |-> bytes[i][1]]

encode_frame(m) ==
  LET body == <<Mark1, Mark2, m.type, <<Len(m.payload)>>>> \o m.payload
  IN Append(body, crc16(body))

Starts(buf) == {i \in 1 .. Len(buf) - 1 : buf[i] = Mark1 /\ buf[i + 1] = Mark2}

Drop(buf, n) == SubSeq(buf, n + 1, Len(buf))

(* Mutant of FrameEnd: the CRC is forgotten. *)
FrameEndNoCrc(buf) == HeaderSize + buf[4][1]

(* The length of the first frame, by its header. *)
FrameEnd(buf) == HeaderSize + buf[4][1] + CrcSize

CrcValid(packet) == Last(packet) = crc16(Front(packet))

(* The bytes before a start mark are skipped; without one the buffer is     *)
(* cleared.                                                                 *)
Align(buf) == IF Starts(buf) = {} THEN <<>> ELSE Drop(buf, Min(Starts(buf)) - 1)

(* decode_frames: the bytes left, the frames decoded so far, and whether    *)
(* the loop goes on, ended, or raised.                                      *)
Pass(d) ==
  LET buf == Align(d.left)
      waits == Len(buf) < HeaderSize + CrcSize \/ Len(buf) < FrameEnd(buf)
      packet == SubSeq(buf, 1, FrameEnd(buf))
      rest == Drop(buf, FrameEnd(buf))
      frame == [type |-> packet[3], payload |-> SubSeq(packet, 5, FrameEnd(buf) - 1)]
  IN IF d.loop # "on" THEN d
     ELSE IF waits THEN [d EXCEPT !.left = buf, !.loop = "ended"]
     ELSE IF ~CrcValid(packet) THEN [d EXCEPT !.left = Drop(buf, 2), !.loop = "raised"]
     ELSE IF packet[3] \notin MessageType THEN [d EXCEPT !.left = rest, !.loop = "raised"]
     ELSE [d EXCEPT !.left = rest, !.got = Append(@, frame)]

(* A pass that goes on takes bytes off the buffer, so there are no more     *)
(* passes than bytes, and one to see the end.                               *)
decode_frames(bytes) ==
  LET after[n \in 0 .. Len(bytes) + 1] ==
        IF n = 0 THEN [left |-> bytes, got |-> <<>>, loop |-> "on"] ELSE Pass(after[n - 1])
  IN after[Len(bytes) + 1]

-----------------------------------------------------------------------------
(* Actions. *)

PathInit ==
  /\ sent = 0 /\ wire = <<>> /\ chunk = [r \in Readers |-> <<>>]
  /\ buffer = <<>> /\ frames = <<>> /\ fifo = <<>>
  /\ count = [rx |-> 0, drop |-> 0] /\ popped = <<>> /\ gone = 0
  /\ read = 0 /\ decoded = 0 /\ faults = 0 /\ split = FALSE

(* The bridge writes the next frame. *)
WriteFrame ==
  /\ sent < Len(Message)
  /\ sent' = sent + 1
  /\ wire' = wire \o encode_frame(Message[sent'])
  /\ UNCHANGED <<chunk, buffer, frames, fifo, count, popped, gone, read, decoded, faults, split>>

LineFault ==
  /\ faults < MaxFaults /\ faults' = faults + 1
  /\ \E i \in DOMAIN wire :
       wire' \in {[wire EXCEPT ![i] = b] : b \in Noise} \cup {RemoveAt(wire, i)}
  /\ UNCHANGED <<sent, chunk, buffer, frames, fifo, count, popped, gone, read, decoded, split>>

(* What the reader appends to _rx_frames: nothing after a decoding error. *)
KeepDecoded(d) == IF d.loop = "raised" THEN <<>> ELSE d.got

(* A reader thread reads, without the lock. *)
ReadChunk(r, n) ==
  /\ chunk[r] = <<>>
  /\ chunk' = [chunk EXCEPT ![r] = SubSeq(wire, 1, n)]
  /\ wire' = Drop(wire, n)
  /\ UNCHANGED <<sent, buffer, frames, fifo, count, popped, gone, read, decoded, faults, split>>

(* It puts its chunk into the buffer and decodes, under the lock. *)
TakeChunk(r) ==
  LET bytes == buffer \o chunk[r]
      d == decode_frames(bytes)
  IN /\ chunk[r] # <<>>
     /\ chunk' = [chunk EXCEPT ![r] = <<>>]
     /\ buffer' = d.left
     /\ frames' = frames \o KeepDecoded(d)
     /\ read' = read + Len(chunk[r])
     /\ decoded' = decoded + Len(KeepDecoded(d))
     /\ split' = (split \/ (d.left = <<>> /\ Last(bytes) = Mark1))
     /\ UNCHANGED <<sent, wire, fifo, count, popped, gone, faults>>

(* The uplink packets in a frame: a DATA frame whose payload decode_uplink  *)
(* accepts holds one.                                                       *)
PacketIn(frame) == {n \in 1 .. sent : frame.type = DATA /\ Message[n] = frame}

FifoFullLate(q) == Len(q) > FifoDepth  \* mutant
FifoFull(q) == Len(q) >= FifoDepth

KeepAll(q, n) == Append(q, n)  \* mutant: the deque is not bounded

(* The deque is bounded: appending to a full one discards its oldest. *)
Keep(q, n) == LET all == Append(q, n) IN IF Len(q) = FifoDepth THEN Tail(all) ELSE all

(* receive_uplink *)
Receive(u, frame) ==
  IF PacketIn(frame) = {} THEN u
  ELSE [fifo |-> Keep(u.fifo, Min(PacketIn(frame))), rx |-> u.rx + 1,
        drop |-> u.drop + (IF FifoFull(u.fifo) THEN 1 ELSE 0)]

ReceiveAll(u, q) ==
  LET after[n \in 0 .. Len(q)] == IF n = 0 THEN u ELSE Receive(after[n - 1], q[n])
  IN after[Len(q)]

(* The runtime's poll takes all decoded frames and hands them on in order. *)
PollFrames ==
  /\ frames # <<>> /\ frames' = <<>>
  /\ LET u == ReceiveAll([fifo |-> fifo, rx |-> count.rx, drop |-> count.drop], frames)
     IN fifo' = u.fifo /\ count' = [rx |-> u.rx, drop |-> u.drop]
  /\ UNCHANGED <<sent, wire, chunk, buffer, popped, gone, read, decoded, faults, split>>

(* Mutant of Oldest: the packet stays in the queue. *)
OldestKept(q) == <<Head(q), q>>

(* The packet popleft returns, and the queue it leaves. *)
Oldest(q) == <<Head(q), Tail(q)>>

PopUplink ==
  /\ fifo # <<>>
  /\ popped' = Append(popped, Oldest(fifo)[1]) /\ fifo' = Oldest(fifo)[2]
  /\ gone' = gone + 1
  /\ UNCHANGED <<sent, wire, chunk, buffer, frames, count, read, decoded, faults, split>>

(* The manager's stop clears the FIFO. *)
StopManager ==
  /\ fifo # <<>> /\ fifo' = <<>>
  /\ gone' = gone + Len(fifo)
  /\ UNCHANGED <<sent, wire, chunk, buffer, frames, count, popped, read, decoded, faults, split>>

(* The serial manager's clear_buffers, before a reset.  The port's own      *)
(* input buffer holds some of the bytes on the line; clearing can cut a     *)
(* frame.  A chunk in the hands of a reader is not cleared.                 *)
ClearBuffers ==
  /\ faults < MaxFaults /\ faults' = faults + 1
  /\ \E n \in 0 .. Len(wire) : wire' = Drop(wire, n)
  /\ buffer' = <<>> /\ frames' = <<>>
  /\ UNCHANGED <<sent, chunk, fifo, count, popped, gone, read, decoded, split>>

PathNext ==
  \/ WriteFrame \/ LineFault
  \/ \E r \in Readers : TakeChunk(r) \/ \E n \in 1 .. Len(wire) : ReadChunk(r, n)
  \/ PollFrames \/ PopUplink \/ StopManager \/ ClearBuffers

PathSpec == PathInit /\ [][PathNext]_pathVars

-----------------------------------------------------------------------------
(* Properties. *)

(* The attributes keep their types. *)
PathTypeOK ==
  /\ sent \in 0 .. Len(Message) /\ faults \in 0 .. MaxFaults
  /\ wire \in Seq(Byte) /\ chunk \in [Readers -> Seq(Byte)] /\ buffer \in Seq(Byte)
  /\ frames \in Seq([type : MessageType, payload : Seq(Byte)])
  /\ fifo \in Seq(1 .. sent) /\ Len(fifo) <= FifoDepth
  /\ count \in [rx : Nat, drop : Nat] /\ popped \in Seq(1 .. sent)
  /\ gone \in Nat /\ read \in Nat /\ decoded \in Nat /\ split \in BOOLEAN

(* Every packet the manager received is still queued, was popped or         *)
(* cleared, or is counted as dropped.                                       *)
UplinkAccounted == count.rx = Len(fifo) + count.drop + gone

(* The frames that end within the bytes put into the buffer. *)
Arrived ==
  LET end[n \in 0 .. sent] ==
        IF n = 0 THEN 0 ELSE end[n - 1] + Len(encode_frame(Message[n]))
  IN {n \in 1 .. sent : end[n] <= read}

Known(n) == Message[n].type \in MessageType

OneReader == \E r \in Readers : Readers = {r}

(* An intact line, read by one thread. *)
Intact == faults = 0 /\ OneReader

(* decode_frames decodes "complete frames", and "Incomplete trailing bytes  *)
(* remain in the buffer so the caller can append more transport data later  *)
(* without losing framing state".  On an intact line every frame is decoded *)
(* with the chunk that brings its last byte, and none before, until a frame *)
(* of a type the host does not know arrives or a chunk ends between the two *)
(* bytes of a start mark.                                                   *)
StreamDecoded ==
  Intact /\ ~split /\ (\A n \in Arrived : Known(n)) => decoded = Cardinality(Arrived)

(* The same, however the chunks end. *)
FramingStateKept ==
  Intact /\ (\A n \in Arrived : Known(n)) => decoded = Cardinality(Arrived)

(* The same of the frames of known types, whatever other frames arrive. *)
CompleteFramesDecoded ==
  Intact /\ ~split => decoded = Cardinality({n \in Arrived : Known(n)})

(* Frame n, or the byte that tells it apart, is under way. *)
InFlight(n) ==
  \/ \E s \in {wire, buffer} \cup {chunk[r] : r \in Readers} :
       \E i \in DOMAIN s : s[i] = Last(Message[n].payload)
  \/ \E i \in DOMAIN frames : frames[i] = Message[n]
  \/ \E i \in DOMAIN fifo : fifo[i] = n

(* The last byte of its payload tells a frame apart: it occurs on the line  *)
(* nowhere else, and no damaged byte becomes it.                            *)
Tellable ==
  \A n \in DOMAIN Message :
    /\ Message[n].payload # <<>> /\ Last(Message[n].payload) \notin Noise
    /\ \A m \in DOMAIN Message : \A i \in DOMAIN encode_frame(Message[m]) :
         encode_frame(Message[m])[i] = Last(Message[n].payload)
           => m = n /\ i = Len(encode_frame(Message[m])) - 1

Channel == INSTANCE LossyChannel
  WITH InOrder <- OneReader, pending <- {n \in 1 .. sent : InFlight(n)}, delivered <- popped

(* The uplink is a best-effort channel: through damaged bytes, chunks cut   *)
(* anywhere, decoding errors, overflow of the FIFO and cleared buffers,     *)
(* what the application pops was sent and is popped once, and in the order  *)
(* it was sent as long as one thread reads.                                 *)
BestEffort == Channel!ChannelSpec

=============================================================================
