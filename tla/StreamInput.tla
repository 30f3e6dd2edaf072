------------------------------ MODULE StreamInput ------------------------------
(***************************************************************************)
(* The way of a sample through the capture module: the Stream blocks, whose*)
(* input ports are connected to signals, and the EncoderBank that makes    *)
(* ASAM CMP frames of their packets.                                       *)
(*                                                                         *)
(* Each packet that a signal puts into a connection schedules a call of    *)
(* onPacketReceived on a worker thread.  The call takes the lock of its    *)
(* block and empties the queue of the connection the port has at that      *)
(* moment.  Encoding takes the mutex of the encoder, which the Stream      *)
(* blocks of different interfaces share when they have the same StreamId;  *)
(* the frames are sent after it is released.  The thread of the Capture    *)
(* block that sends the status packets uses the encoder of StreamId 1 too. *)
(***************************************************************************)
EXTENDS InputDescriptors, Sequences

CONSTANTS
  Stream,         \* StreamFb objects, of interfaces of their own
  Worker,         \* threads of the scheduler
  StreamIds,      \* values of StreamId
  Selected,       \* for each stream, the values of the PayloadType of its interface
  Signals,        \* for each stream, the data descriptors of the signals it meets;
                  \* None for a signal that has none yet
  Domains,        \* the domain descriptors they have; a linear rule has a delta
  Lengths,        \* for each stream, lengths of the messages in CAN samples
  None,           \* no descriptor, no owner of a lock, no job
  Parts,          \* for each stream, how many frames its packets are cut into
  MaxPackets,     \* bound: data packets of the signal, for each stream
  MaxConnections, \* bound: connections of its port; the last one stays
  MaxEvents,      \* bound: descriptor changes of the signal
  MaxWrites,      \* bound: writes of its properties
  StatusParts,    \* how many frames a status packet may be cut into
  MaxStatusFrames \* bound: frames of status packets

PayloadTypes == {"undefined", "can", "canFd", "analog", "ethernet"}

EventPacket == [event : {TRUE}, data : Descriptors \cup {None}, domain : Domains \cup {None}]
DataPacket == [event : {FALSE}, data : Descriptors, length : 0..255, parts : Nat \ {0}, number : Nat]

\* retyped is history: the payload type is not the one of the last configure.
StreamRecord ==
  [streamId : StreamIds, payloadType : PayloadTypes, isConfigured : BOOLEAN,
   inputStatus : {"Disconnected", "Connected", "Invalid"},
   data : Descriptors \cup {None}, domain : Domains \cup {None}, scaling : Scalings,
   retyped : BOOLEAN]

Frame ==
  [stream : Stream, streamId : StreamIds, sequence : Nat, payloadType : PayloadTypes, scaling : Scalings,
   data : Descriptors, number : Nat, part : Nat \ {0}, retyped : BOOLEAN]

Job == [stream : Stream, connection : Nat, encoding : BOOLEAN, frames : Seq(Frame)]

ASSUME StreamInputAssumption ==
  /\ Signals \in [Stream -> SUBSET (Descriptors \cup {None})]
  /\ Selected \in [Stream -> SUBSET PayloadTypes]
  /\ StreamIds \subseteq 0..255 /\ 1 \in StreamIds
  /\ Domains \subseteq {"linear", "explicit"}
  /\ Lengths \in [Stream -> SUBSET (0..255)]
  /\ Parts \in [Stream -> SUBSET (Nat \ {0})]
  /\ {MaxPackets, MaxConnections, MaxEvents, MaxWrites} \subseteq [Stream -> Nat]
  /\ StatusParts \subseteq Nat \ {0} /\ MaxStatusFrames \in Nat
  /\ None \notin Descriptors /\ None \notin Domains /\ None \notin Worker /\ None \notin Job
  /\ "statusLoop" \notin Worker \cup {None}

VARIABLES
  stream,      \* the members of the StreamFb objects
  streamLock,  \* who holds the configuration lock of a block
  connected,   \* the port has a connection
  connection,  \* the number of the last connection
  queue,       \* the packets in the connections of a port, by number
  source,      \* the signal: its descriptor, its packets and changes so far
  writes,      \* writes of properties so far
  callbacks,   \* calls of onPacketReceived that are scheduled
  job,         \* the call a worker is in
  sequence,    \* the sequence counters of the encoders
  encoderSync, \* who holds encoderSyncs
  wire,        \* the frames of data given to sendPacket, in order
  statusLoop,  \* the sequence numbers of the frames statusLoop has in hand
  statusWire   \* those of the status frames given to sendPacket, in order

port == <<connected, connection, queue, source, callbacks>>
encoder == <<sequence, encoderSync>>
statusThread == <<statusLoop, statusWire>>
vars == <<stream, streamLock, port, writes, job, encoder, wire, statusThread>>

\* statusLoop has no frames in hand.
Waits == [encoding |-> FALSE, numbers |-> <<>>]

\* A new block has the payload type that its interface has.
Init ==
  /\ \E selected \in [Stream -> PayloadTypes] :
     /\ \A s \in Stream : selected[s] \in Selected[s]
     /\ stream = [s \in Stream |->
          [streamId |-> 1, payloadType |-> selected[s], isConfigured |-> FALSE, inputStatus |-> "Disconnected",
           data |-> None, domain |-> None, scaling |-> [sampleDt |-> 32, scale |-> "none"], retyped |-> FALSE]]
  /\ streamLock = [s \in Stream |-> None]
  /\ connected = [s \in Stream |-> FALSE]
  /\ connection = [s \in Stream |-> 0]
  /\ queue = [s \in Stream |-> [c \in 1..MaxConnections[s] |-> <<>>]]
  /\ source = [s \in Stream |-> [data |-> None, packets |-> 0, events |-> 0]]
  /\ writes = [s \in Stream |-> 0]
  /\ callbacks = [s \in Stream |-> 0]
  /\ job = [w \in Worker |-> None]
  /\ sequence = [i \in StreamIds |-> 0]
  /\ encoderSync = [i \in StreamIds |-> None]
  /\ wire = <<>> /\ statusLoop = Waits /\ statusWire = <<>>

--------------------------------------------------------------------------------
(* The input port and its signal, which openDAQ provides.                    *)

\* A packet enters connection c of the port, and a call is scheduled for it.
Enqueue(s, c, packet) ==
  /\ queue' = [queue EXCEPT ![s][c] = Append(@, packet)]
  /\ callbacks' = [callbacks EXCEPT ![s] = @ + 1]

Event(data, domain) == [event |-> TRUE, data |-> data, domain |-> domain]

\* The first packet of a connection is an event with the descriptors the signal
\* has; it has a domain in any case.
Connect(s, data, domain) ==
  /\ ~connected[s] /\ connection[s] < MaxConnections[s]
  /\ connected' = [connected EXCEPT ![s] = TRUE]
  /\ connection' = [connection EXCEPT ![s] = @ + 1]
  /\ source' = [source EXCEPT ![s].data = data]
  /\ Enqueue(s, connection[s] + 1, Event(data, domain))
  /\ UNCHANGED <<stream, streamLock, job, encoder, wire, writes, statusThread>>

\* The signal changes a descriptor; the event leaves out the other one.
ChangeDescriptor(s, data, domain) ==
  /\ connected[s] /\ source[s].events < MaxEvents[s]
  /\ source' = [source EXCEPT ![s].data = IF data = None THEN @ ELSE data, ![s].events = @ + 1]
  /\ Enqueue(s, connection[s], Event(data, domain))
  /\ UNCHANGED <<stream, streamLock, connected, connection, job, encoder, wire, writes, statusThread>>

SendData(s, length, parts) ==
  /\ connected[s] /\ source[s].data # None /\ source[s].packets < MaxPackets[s]
  /\ source' = [source EXCEPT ![s].packets = @ + 1]
  /\ Enqueue(s, connection[s],
             [event |-> FALSE, data |-> source[s].data, length |-> length, parts |-> parts,
              number |-> source[s].packets + 1])
  /\ UNCHANGED <<stream, streamLock, connected, connection, job, encoder, wire, writes, statusThread>>

\* onDisconnected does not take the lock: a call of onPacketReceived that runs
\* keeps the connection and goes on with what is left in it.
Disconnect(s) ==
  /\ connected[s] /\ connection[s] < MaxConnections[s]
  /\ connected' = [connected EXCEPT ![s] = FALSE]
  /\ stream' = [stream EXCEPT ![s].inputStatus = "Disconnected"]
  /\ queue' = IF \E w \in Worker : job[w] # None /\ job[w].stream = s /\ job[w].connection = connection[s]
              THEN queue
              ELSE [queue EXCEPT ![s][connection[s]] = <<>>]
  /\ UNCHANGED <<streamLock, connection, source, callbacks, job, encoder, wire, writes,
                 statusThread>>

--------------------------------------------------------------------------------
(* Property writes of the configuration thread, under the block's lock and   *)
(* statusSync, which statusLoop holds while it has a packet in hand.         *)

\* setPayloadType: the base class has assigned payloadType when the code
\* compares it with the argument, so nothing else changes.
SetPayloadType(s, type) ==
  /\ streamLock[s] = None /\ statusLoop = Waits /\ writes[s] < MaxWrites[s]
  /\ stream[s].payloadType # type
  /\ writes' = [writes EXCEPT ![s] = @ + 1]
  /\ stream' = [stream EXCEPT ![s].payloadType = type, ![s].retyped = TRUE]
  /\ UNCHANGED <<streamLock, port, job, encoder, wire, statusThread>>

\* updateStreamIdInternal, with an identifier that is free in the interface.
SetStreamId(s, id) ==
  /\ streamLock[s] = None /\ statusLoop = Waits /\ writes[s] < MaxWrites[s]
  /\ stream[s].streamId # id
  /\ writes' = [writes EXCEPT ![s] = @ + 1]
  /\ stream' = [stream EXCEPT ![s].streamId = id]
  /\ UNCHANGED <<streamLock, port, job, encoder, wire, statusThread>>

--------------------------------------------------------------------------------
(* onPacketReceived.                                                         *)

\* Fault: the call does not take the lock.
ReceiveConnectedUnlocked(w, s) ==
  /\ job[w] = None /\ callbacks[s] > 0 /\ connected[s]
  /\ callbacks' = [callbacks EXCEPT ![s] = @ - 1]
  /\ job' = [job EXCEPT ![w] = [stream |-> s, connection |-> connection[s], encoding |-> FALSE, frames |-> <<>>]]
  /\ UNCHANGED <<stream, streamLock, connected, connection, queue, source, encoder, wire, writes, statusThread>>

\* Fault: a call that finds the block locked returns, as another is at work.
ReceiveConnectedTries(w, s) ==
  /\ job[w] = None /\ callbacks[s] > 0 /\ connected[s]
  /\ callbacks' = [callbacks EXCEPT ![s] = @ - 1]
  /\ streamLock' = [streamLock EXCEPT ![s] = IF @ = None THEN w ELSE @]
  /\ job' = IF streamLock[s] # None THEN job
            ELSE [job EXCEPT ![w] =
                   [stream |-> s, connection |-> connection[s], encoding |-> FALSE, frames |-> <<>>]]
  /\ UNCHANGED <<stream, connected, connection, queue, source, encoder, wire, writes, statusThread>>

\* The call takes the lock and asks the port for its connection.
ReceiveConnected(w, s) ==
  /\ job[w] = None /\ callbacks[s] > 0 /\ streamLock[s] = None /\ connected[s]
  /\ callbacks' = [callbacks EXCEPT ![s] = @ - 1]
  /\ streamLock' = [streamLock EXCEPT ![s] = w]
  /\ job' = [job EXCEPT ![w] = [stream |-> s, connection |-> connection[s], encoding |-> FALSE, frames |-> <<>>]]
  /\ UNCHANGED <<stream, connected, connection, queue, source, encoder, wire, writes, statusThread>>

\* The port has no connection: the call returns.
ReceiveUnconnected(w, s) ==
  /\ job[w] = None /\ callbacks[s] > 0 /\ streamLock[s] = None /\ ~connected[s]
  /\ callbacks' = [callbacks EXCEPT ![s] = @ - 1]
  /\ UNCHANGED <<stream, streamLock, connected, connection, queue, source, job, encoder, wire, writes,
                 statusThread>>

\* Worker w is in the loop of onPacketReceived, in front of dequeue.
Draining(w) == job[w] # None /\ ~job[w].encoding /\ job[w].frames = <<>>

Pending(w) == queue[job[w].stream][job[w].connection]

Dequeue(w) == queue' = [queue EXCEPT ![job[w].stream][job[w].connection] = Tail(@)]

\* Fault: isConfigured is not reset first.
ConfigureKeepsConfigured(r) ==
  IF /\ r.data # None /\ r.domain # None
     /\ ValidateInputDescriptor(r.data, r.payloadType)
     /\ r.payloadType = "analog" => r.domain = "linear"
  THEN [r EXCEPT !.isConfigured = TRUE, !.inputStatus = "Connected", !.retyped = FALSE,
                 !.scaling = IF r.payloadType = "analog" THEN AnalogScaling(r.data) ELSE @]
  ELSE [r EXCEPT !.inputStatus = "Invalid", !.retyped = FALSE]

\* configure: an analog signal whose domain has no delta makes an exception
\* before anything of the scaling is set.
Configure(r) ==
  IF /\ r.data # None /\ r.domain # None
     /\ ValidateInputDescriptor(r.data, r.payloadType)
     /\ r.payloadType = "analog" => r.domain = "linear"
  THEN [r EXCEPT !.isConfigured = TRUE, !.inputStatus = "Connected", !.retyped = FALSE,
                 !.scaling = IF r.payloadType = "analog" THEN AnalogScaling(r.data) ELSE @]
  ELSE [r EXCEPT !.isConfigured = FALSE, !.inputStatus = "Invalid", !.retyped = FALSE]

\* processSignalDescriptorChanged: a descriptor that is not assigned is kept.
ProcessEventPacket(w) ==
  LET s == job[w].stream  packet == Head(Pending(w)) IN
  /\ Draining(w) /\ Pending(w) # <<>> /\ packet.event
  /\ Dequeue(w)
  /\ stream' = [stream EXCEPT ![s] = Configure(
       [stream[s] EXCEPT !.data = IF packet.data = None THEN @ ELSE packet.data,
                         !.domain = IF packet.domain = None THEN @ ELSE packet.domain])]
  /\ UNCHANGED <<streamLock, connected, connection, source, callbacks, job, encoder, wire, writes,
                 statusThread>>

MaxCanDataSize(type) == IF type = "can" THEN 8 ELSE 64

\* The block makes messages of a data packet.
Encodes(r, packet) ==
  /\ r.isConfigured
  /\ \/ r.payloadType \in {"can", "canFd"} /\ packet.length <= MaxCanDataSize(r.payloadType)
     \/ r.payloadType = "analog"

\* processDataPacket on a packet of which no message is made.
SkipDataPacket(w) ==
  /\ Draining(w) /\ Pending(w) # <<>> /\ ~Head(Pending(w)).event
  /\ ~Encodes(stream[job[w].stream], Head(Pending(w)))
  /\ Dequeue(w)
  /\ UNCHANGED <<stream, streamLock, connected, connection, source, callbacks, job, encoder, wire, writes,
                 statusThread>>

\* Fault: the parts of a message are counted from 0.
FramesFromZero(s, packet) ==
  [k \in 1..packet.parts |->
     [stream |-> s, streamId |-> stream[s].streamId, sequence |-> sequence[stream[s].streamId] + k - 1,
      payloadType |-> stream[s].payloadType, scaling |-> stream[s].scaling,
      data |-> packet.data, number |-> packet.number, part |-> k - 1, retyped |-> stream[s].retyped]]

\* The frames that a packet of block s is encoded into.
Frames(s, packet) ==
  [k \in 1..packet.parts |->
     [stream |-> s, streamId |-> stream[s].streamId, sequence |-> sequence[stream[s].streamId] + k - 1,
      payloadType |-> stream[s].payloadType, scaling |-> stream[s].scaling,
      data |-> packet.data, number |-> packet.number, part |-> k, retyped |-> stream[s].retyped]]

\* EncoderBank::encode from the lock on: the encoder reads its counter.
Encode(w) ==
  LET s == job[w].stream IN
  /\ Draining(w) /\ Pending(w) # <<>> /\ ~Head(Pending(w)).event
  /\ Encodes(stream[s], Head(Pending(w)))
  /\ encoderSync[stream[s].streamId] = None
  /\ encoderSync' = [encoderSync EXCEPT ![stream[s].streamId] = w]
  /\ Dequeue(w)
  /\ job' = [job EXCEPT ![w].encoding = TRUE, ![w].frames = Frames(s, Head(Pending(w)))]
  /\ UNCHANGED <<stream, streamLock, connected, connection, source, callbacks, sequence, wire, writes,
                 statusThread>>

\* The encoder has advanced its counter by a frame each, and the lock is free.
EncodeReturns(w) ==
  LET id == stream[job[w].stream].streamId IN
  /\ job[w] # None /\ job[w].encoding
  /\ sequence' = [sequence EXCEPT ![id] = Head(job[w].frames).sequence + Len(job[w].frames)]
  /\ encoderSync' = [encoderSync EXCEPT ![id] = None]
  /\ job' = [job EXCEPT ![w].encoding = FALSE]
  /\ UNCHANGED <<stream, streamLock, port, wire, writes, statusThread>>

\* ethernetWrapper->sendPacket, for one frame at a time.
SendPacket(w) ==
  /\ job[w] # None /\ ~job[w].encoding /\ job[w].frames # <<>>
  /\ wire' = Append(wire, Head(job[w].frames))
  /\ job' = [job EXCEPT ![w].frames = Tail(@)]
  /\ UNCHANGED <<stream, streamLock, port, encoder, writes, statusThread>>

\* dequeue returns nothing: the call returns and releases the lock.
ReceiveReturns(w) ==
  /\ Draining(w) /\ Pending(w) = <<>>
  /\ streamLock' = [streamLock EXCEPT ![job[w].stream] = None]
  /\ job' = [job EXCEPT ![w] = None]
  /\ UNCHANGED <<stream, port, encoder, wire, writes, statusThread>>

--------------------------------------------------------------------------------
(* statusLoop, which encodes and sends one status packet after the other     *)
(* with the encoder of StreamId 1.                                           *)

\* Fault: the loop encodes without encoderSyncs.
StatusEncodeUnlocked(parts) ==
  /\ statusLoop = Waits /\ Len(statusWire) + parts <= MaxStatusFrames
  /\ statusLoop' = [encoding |-> TRUE, numbers |-> [k \in 1..parts |-> sequence[1] + k - 1]]
  /\ UNCHANGED <<stream, streamLock, port, writes, job, encoder, wire, statusWire>>

StatusEncode(parts) ==
  /\ statusLoop = Waits /\ Len(statusWire) + parts <= MaxStatusFrames
  /\ encoderSync[1] = None
  /\ encoderSync' = [encoderSync EXCEPT ![1] = "statusLoop"]
  /\ statusLoop' = [encoding |-> TRUE, numbers |-> [k \in 1..parts |-> sequence[1] + k - 1]]
  /\ UNCHANGED <<stream, streamLock, port, writes, job, sequence, wire, statusWire>>

StatusEncodeReturns ==
  /\ statusLoop.encoding
  /\ sequence' = [sequence EXCEPT ![1] = Head(statusLoop.numbers) + Len(statusLoop.numbers)]
  /\ encoderSync' = [encoderSync EXCEPT ![1] = None]
  /\ statusLoop' = [statusLoop EXCEPT !.encoding = FALSE]
  /\ UNCHANGED <<stream, streamLock, port, writes, job, wire, statusWire>>

StatusSendPacket ==
  /\ ~statusLoop.encoding /\ statusLoop.numbers # <<>>
  /\ statusWire' = Append(statusWire, Head(statusLoop.numbers))
  /\ statusLoop' = [statusLoop EXCEPT !.numbers = Tail(@)]
  /\ UNCHANGED <<stream, streamLock, port, writes, job, encoder, wire>>

--------------------------------------------------------------------------------
SignalStep(s) ==
  \/ \E data \in Signals[s], domain \in Domains : Connect(s, data, domain)
  \/ \E data \in Signals[s] \ {None} : ChangeDescriptor(s, data, None)
  \/ \E domain \in Domains : ChangeDescriptor(s, None, domain)
  \/ \E length \in Lengths[s], parts \in Parts[s] : SendData(s, length, parts)
  \/ Disconnect(s)

WriteStep(s) ==
  \/ \E type \in Selected[s] : SetPayloadType(s, type)
  \/ \E id \in StreamIds : SetStreamId(s, id)

WorkerStep(w) ==
  \/ \E s \in Stream : ReceiveConnected(w, s) \/ ReceiveUnconnected(w, s)
  \/ ProcessEventPacket(w) \/ SkipDataPacket(w)
  \/ Encode(w) \/ EncodeReturns(w) \/ SendPacket(w) \/ ReceiveReturns(w)

StatusStep == (\E parts \in StatusParts : StatusEncode(parts)) \/ StatusEncodeReturns \/ StatusSendPacket

Next ==
  \/ \E s \in Stream : SignalStep(s) \/ WriteStep(s)
  \/ \E w \in Worker : WorkerStep(w)
  \/ StatusStep

Spec == Init /\ [][Next]_vars

--------------------------------------------------------------------------------
(* Properties.                                                               *)

\* Every variable has its type (stream_fb.h:70).
TypeOK ==
  /\ stream \in [Stream -> StreamRecord]
  /\ streamLock \in [Stream -> Worker \cup {None}]
  /\ connected \in [Stream -> BOOLEAN]
  /\ connection \in [Stream -> Nat]
  /\ \A s \in Stream : \A c \in 1..MaxConnections[s] :
       \A k \in DOMAIN queue[s][c] : queue[s][c][k] \in EventPacket \cup DataPacket
  /\ callbacks \in [Stream -> Nat]
  /\ \A w \in Worker : job[w] # None => /\ job[w].stream \in Stream
                                        /\ job[w].connection \in 1..connection[job[w].stream]
                                        /\ \A k \in DOMAIN job[w].frames : job[w].frames[k] \in Frame
  /\ encoderSync \in [StreamIds -> Worker \cup {None, "statusLoop"}]
  /\ \A i \in StreamIds : sequence[i] \in Nat
  /\ \A k \in DOMAIN wire : wire[k] \in Frame
  /\ statusLoop.encoding \in BOOLEAN /\ \A k \in DOMAIN statusLoop.numbers : statusLoop.numbers[k] \in Nat
  /\ \A k \in DOMAIN statusWire : statusWire[k] \in Nat

\* The frames that worker w has encoded and not sent.
Unsent(w) == IF job[w] = None \/ job[w].encoding THEN <<>> ELSE job[w].frames

StatusUnsent == IF statusLoop.encoding THEN <<>> ELSE statusLoop.numbers

\* Of the numbers that an encoder has counted each belongs to one frame, which
\* is on the wire or in the hands of a worker or of statusLoop, and no other frame
\* has it: also when workers of several streams use the encoder, and the one of
\* StreamId 1 also for the status packets (encoder_bank.cpp:15, capture_fb.cpp:118).
EveryNumberOnce ==
  /\ \A j, k \in DOMAIN wire :
       wire[j].streamId = wire[k].streamId /\ wire[j].sequence = wire[k].sequence => j = k
  /\ \A j, k \in DOMAIN statusWire : statusWire[j] = statusWire[k] => j = k
  /\ \A j \in DOMAIN wire, k \in DOMAIN statusWire : wire[j].streamId = 1 => wire[j].sequence # statusWire[k]
  /\ \A id \in StreamIds : \A n \in 0..sequence[id] - 1 :
       LET Has(frames) == \E k \in DOMAIN frames : frames[k].streamId = id /\ frames[k].sequence = n
           OfStatus(numbers) == \E k \in DOMAIN numbers : numbers[k] = n
       IN  \/ Has(wire) \/ \E w \in Worker : Has(Unsent(w))
           \/ id = 1 /\ (OfStatus(statusWire) \/ OfStatus(StatusUnsent))

\* Frame f was made before frame g of the same block.
Before(f, g) == f.number < g.number \/ (f.number = g.number /\ f.part < g.part)

\* The frames of one block go out in the order in which its packets came in,
\* each once, with growing sequence numbers under one StreamId, whatever workers
\* the calls run on and however its connections come and go (stream_fb.cpp:233).
OwnFramesInOrder ==
  \A j, k \in DOMAIN wire :
    j < k /\ wire[j].stream = wire[k].stream =>
      /\ Before(wire[j], wire[k])
      /\ wire[j].streamId = wire[k].streamId => wire[j].sequence < wire[k].sequence

\* The data that a frame carries suits its payload type, and an analog frame
\* says of its samples what their own descriptor says.
Fits(f) ==
  /\ ValidateInputDescriptor(f.data, f.payloadType)
  /\ f.payloadType = "analog" => f.scaling = AnalogScaling(f.data)

\* Only data that suits the PayloadType selected is sent (README.md:133), unless
\* PayloadType was written after the last descriptor event of the stream: a write
\* does not undo configure (stream_fb.cpp:487).
ConfiguredFramesFit == \A k \in DOMAIN wire : ~wire[k].retyped => Fits(wire[k])
================================================================================
