--------------------------- MODULE StreamInputProofs ---------------------------
(***************************************************************************)
(* Proofs about StreamInput: for any number of Stream blocks and workers,  *)
(* with any packets, connections and property writes, and status packets   *)
(* sent in between, each sequence number of an encoder belongs to one      *)
(* frame, the frames of a block leave in the order of its packets, and     *)
(* what they carry suits their payload type.                               *)
(*                                                                         *)
(* All of it rests on the locks: a call of onPacketReceived holds the one  *)
(* of its block from the first dequeue to the last send, and encode holds  *)
(* the one of its encoder.                                                 *)
(***************************************************************************)
EXTENDS StreamInput, TLAPS, SequenceTheorems

Packet == EventPacket \cup DataPacket

Types ==
  /\ stream \in [Stream -> StreamRecord]
  /\ streamLock \in [Stream -> Worker \cup {None}]
  /\ connected \in [Stream -> BOOLEAN]
  /\ connection \in [Stream -> Nat] /\ \A s \in Stream : connection[s] <= MaxConnections[s]
  /\ DOMAIN queue = Stream /\ \A s \in Stream : queue[s] \in [1..MaxConnections[s] -> Seq(Packet)]
  /\ source \in [Stream -> [data : Descriptors \cup {None}, packets : Nat, events : Nat]]
  /\ callbacks \in [Stream -> Nat]
  /\ job \in [Worker -> Job \cup {None}]
  /\ \A w \in Worker : job[w] # None => job[w].connection \in 1..connection[job[w].stream]
  /\ sequence \in [StreamIds -> Nat]
  /\ encoderSync \in [StreamIds -> Worker \cup {None, "statusLoop"}]
  /\ wire \in Seq(Frame)

\* Who holds which lock, and the connections that nobody will look at again.
Locks ==
  /\ \A w \in Worker : job[w] # None => streamLock[job[w].stream] = w
  /\ \A w \in Worker : job[w] # None /\ job[w].encoding =>
       encoderSync[stream[job[w].stream].streamId] = w /\ job[w].frames # <<>>
  /\ \A s \in Stream : connected[s] => connection[s] >= 1
  /\ \A s \in Stream : \A c \in 1..MaxConnections[s] : queue[s][c] # <<>> =>
       \/ connected[s] /\ c = connection[s]
       \/ \E w \in Worker : job[w] # None /\ job[w].stream = s /\ job[w].connection = c

Calls == {w \in Worker : job[w] # None}

\* The frames are of block s and of one message, in their order.
OneMessage(frames, s, id) ==
  \A k \in 1..Len(frames) :
    /\ frames[k].stream = s /\ frames[k].streamId = id
    /\ \A j \in 1..k - 1 : /\ frames[j].number = frames[k].number
                           /\ frames[j].part < frames[k].part
                           /\ frames[j].sequence < frames[k].sequence

\* Frames that are being encoded have the next numbers of the counter n.
Counted(frames, encoding, n) ==
  \A k \in 1..Len(frames) : IF encoding THEN frames[k].sequence = n + k - 1 ELSE frames[k].sequence < n

\* What worker w has in its hands.
Hand(w) ==
  LET s == job[w].stream  id == stream[s].streamId IN
  OneMessage(job[w].frames, s, id) /\ Counted(job[w].frames, job[w].encoding, sequence[id])

HandsOrdered == \A w \in Calls : Hand(w)

SameNumber(f, g) == f.streamId = g.streamId /\ f.sequence = g.sequence

Carries(frames, id, n) == \E k \in 1..Len(frames) : frames[k].streamId = id /\ frames[k].sequence = n

WireOnce == \A j, k \in 1..Len(wire) : SameNumber(wire[j], wire[k]) => j = k

\* The numbers of the status frames that are out or that statusLoop has still to send.
StatusNumbers ==
  {statusWire[k] : k \in 1..Len(statusWire)} \cup {StatusUnsent[k] : k \in 1..Len(StatusUnsent)}

NoneLost ==
  \A id \in StreamIds : \A n \in 0..sequence[id] - 1 :
    \/ Carries(wire, id, n) \/ \E w \in Worker : Carries(Unsent(w), id, n)
    \/ id = 1 /\ n \in StatusNumbers

\* A frame that was encoded has a number that was counted, and no other frame
\* has it.
NumberInv ==
  /\ \A k \in 1..Len(wire) : wire[k].sequence < sequence[wire[k].streamId]
  /\ \A w \in Worker : \A k \in 1..Len(Unsent(w)) :
       /\ \A j \in 1..Len(wire) : ~SameNumber(wire[j], Unsent(w)[k])
       /\ \A v \in Worker \ {w} : \A j \in 1..Len(Unsent(v)) : ~SameNumber(Unsent(v)[j], Unsent(w)[k])
  /\ WireOnce /\ NoneLost

StatusTypes == statusLoop \in [encoding : BOOLEAN, numbers : Seq(Nat)] /\ statusWire \in Seq(Nat)

\* While statusLoop encodes it holds its encoder, and what it makes has the next numbers.
StatusHolds ==
  statusLoop.encoding =>
    /\ encoderSync[1] = "statusLoop" /\ statusLoop.numbers # <<>>
    /\ \A k \in 1..Len(statusLoop.numbers) : statusLoop.numbers[k] = sequence[1] + k - 1

\* No frame of data has the number n of the encoder of StreamId 1.
NotOfData(n) ==
  /\ \A j \in 1..Len(wire) : ~(wire[j].streamId = 1 /\ wire[j].sequence = n)
  /\ \A w \in Worker : \A k \in 1..Len(Unsent(w)) : ~(Unsent(w)[k].streamId = 1 /\ Unsent(w)[k].sequence = n)

StatusOnce ==
  /\ \A j, k \in 1..Len(statusWire) : statusWire[j] = statusWire[k] => j = k
  /\ \A j, k \in 1..Len(statusLoop.numbers) : statusLoop.numbers[j] = statusLoop.numbers[k] => j = k
  /\ \A j \in 1..Len(statusWire), k \in 1..Len(StatusUnsent) : statusWire[j] # StatusUnsent[k]
  /\ \A n \in StatusNumbers : n < sequence[1] /\ NotOfData(n)

\* A status frame that was encoded has a number that was counted, and no other
\* frame has it.
StatusInv == StatusTypes /\ StatusHolds /\ StatusOnce

Elder(f, g) == Before(f, g) /\ (f.streamId = g.streamId => f.sequence < g.sequence)

\* The numbers of the data packets in a queue.
Numbers(packets) == {packets[k].number : k \in {i \in 1..Len(packets) : ~packets[i].event}}

Ascending(packets) ==
  \A j, k \in 1..Len(packets) :
    j < k /\ ~packets[j].event /\ ~packets[k].event => packets[j].number < packets[k].number

\* The numbers of the packets of block s of which frames were made.
Encoded(s) ==
  {n \in Nat :
     \/ \E j \in 1..Len(wire) : wire[j].stream = s /\ wire[j].number = n
     \/ \E w \in Calls : job[w].stream = s /\ \E k \in 1..Len(job[w].frames) : job[w].frames[k].number = n}

\* The packets of a block are numbered, and all frames come from packets before
\* those that wait.
WireOrdered == \A j, k \in 1..Len(wire) : j < k /\ wire[j].stream = wire[k].stream => Elder(wire[j], wire[k])

HandsAfterWire ==
  \A w \in Calls : \A k \in 1..Len(job[w].frames), j \in 1..Len(wire) :
    wire[j].stream = job[w].stream => Elder(wire[j], job[w].frames[k])

QueuesOrdered ==
  \A s \in Stream : \A c \in 1..MaxConnections[s] :
    /\ Ascending(queue[s][c])
    /\ \A n \in Numbers(queue[s][c]) :
         /\ n <= source[s].packets /\ \A m \in Encoded(s) : m < n
         /\ \A e \in 1..c - 1 : \A m \in Numbers(queue[s][e]) : m < n

OrderInv ==
  /\ WireOrdered /\ HandsAfterWire /\ QueuesOrdered
  /\ \A s \in Stream : \A n \in Encoded(s) : n <= source[s].packets

\* The packet brings a data descriptor.
Tells(packet) == packet.event /\ packet.data # None

\* A block whose descriptor was old has the descriptor d when it reaches packet k.
Then(packets, k, old, d) ==
  \/ (\A j \in 1..k - 1 : ~Tells(packets[j])) /\ d = old
  \/ \E j \in 1..k - 1 : /\ Tells(packets[j]) /\ packets[j].data = d
                         /\ \A i \in j + 1..k - 1 : ~Tells(packets[i])

\* Each data packet meets a block that has its descriptor.
Fit(packets, old) ==
  \A k \in 1..Len(packets) : ~packets[k].event => Then(packets, k, old, packets[k].data)

Ends(packets, old, d) == Then(packets, Len(packets) + 1, old, d)

\* The descriptors that the block may have when its next call begins on connection c:
\* while a call is busy with another connection, any.
Bases(s, c) ==
  IF \E w \in Calls : job[w].stream = s /\ job[w].connection # c
  THEN Descriptors \cup {None} ELSE {stream[s].data}

QueueFits(s, c) ==
  \A old \in Bases(s, c) :
    /\ Fit(queue[s][c], old)
    /\ connected[s] /\ c = connection[s] /\ source[s].data # None => Ends(queue[s][c], old, source[s].data)

QueuesFit == \A s \in Stream : \A c \in 1..MaxConnections[s] : QueueFits(s, c)

Suited(r) ==
  r.isConfigured /\ ~r.retyped =>
    /\ r.data # None
    /\ ValidateInputDescriptor(r.data, r.payloadType)
    /\ r.payloadType = "analog" => r.scaling = AnalogScaling(r.data)

HandsFit == \A w \in Calls : \A k \in 1..Len(job[w].frames) : ~job[w].frames[k].retyped => Fits(job[w].frames[k])

FitInv ==
  /\ \A s \in Stream : Suited(stream[s])
  /\ QueuesFit /\ HandsFit /\ ConfiguredFramesFit

--------------------------------------------------------------------------------
(* The types, action by action.                                              *)

LEMMA ScalingOf == ASSUME NEW d \in Descriptors PROVE AnalogScaling(d) \in Scalings
BY DEF AnalogScaling, ConfigureScaledAnalogSignal, ConfigureMinMaxAnalogSignal, SampleDt, Scalings

\* What a worker in a call has.
LEMMA InCall ==
  ASSUME Types, NEW w \in Worker, job[w] # None
  PROVE /\ job[w] \in Job /\ job[w].stream \in Stream
        /\ job[w].connection \in 1..MaxConnections[job[w].stream]
        /\ job[w].frames \in Seq(Frame) /\ job[w].encoding \in BOOLEAN
        /\ Pending(w) \in Seq(Packet) /\ stream[job[w].stream] \in StreamRecord
<1>1. job[w] \in Job /\ job[w].connection \in 1..connection[job[w].stream]
  BY DEF Types
<1>2. job[w].stream \in Stream /\ job[w].frames \in Seq(Frame) /\ job[w].encoding \in BOOLEAN
  BY <1>1 DEF Job
<1>3. /\ connection[job[w].stream] \in Nat /\ connection[job[w].stream] <= MaxConnections[job[w].stream]
      /\ MaxConnections[job[w].stream] \in Nat
  BY <1>2, StreamInputAssumption DEF Types
<1>4. job[w].connection \in 1..MaxConnections[job[w].stream]
  BY <1>1, <1>3
<1>. QED
  BY <1>1, <1>2, <1>4 DEF Types, Pending

\* What the queues are after one of them has changed.
LEMMA QueueChanges ==
  ASSUME Types, NEW s \in Stream, NEW c \in 1..MaxConnections[s], NEW new \in Seq(Packet),
         queue' = [queue EXCEPT ![s][c] = new]
  PROVE /\ DOMAIN queue' = Stream /\ \A t \in Stream : queue'[t] \in [1..MaxConnections[t] -> Seq(Packet)]
        /\ \A t \in Stream : \A e \in 1..MaxConnections[t] :
             queue'[t][e] = IF t = s /\ e = c THEN new ELSE queue[t][e]
<1>1. queue' = [queue EXCEPT ![s] = [queue[s] EXCEPT ![c] = new]]
  BY DEF Types
<1>. DEFINE row == [queue[s] EXCEPT ![c] = new]
<1>2. /\ row \in [1..MaxConnections[s] -> Seq(Packet)]
      /\ \A e \in 1..MaxConnections[s] : row[e] = IF e = c THEN new ELSE queue[s][e]
  <2>1. queue[s] \in [1..MaxConnections[s] -> Seq(Packet)]
    BY DEF Types
  <2>. QED
    BY <2>1
<1>. HIDE DEF row
<1>3. DOMAIN queue' = Stream /\ \A t \in Stream : queue'[t] = IF t = s THEN row ELSE queue[t]
  BY <1>1 DEF Types, row
<1>4. \A t \in Stream : queue'[t] \in [1..MaxConnections[t] -> Seq(Packet)]
  BY <1>2, <1>3 DEF Types
<1>. QED
  BY <1>2, <1>3, <1>4

\* The frames that a packet is encoded into.
LEMMA FramesAreFrames ==
  ASSUME Types, NEW s \in Stream, NEW packet \in DataPacket
  PROVE /\ Frames(s, packet) \in Seq(Frame) /\ Len(Frames(s, packet)) = packet.parts
        /\ packet.parts \in Nat \ {0} /\ Frames(s, packet) # <<>>
        /\ \A k \in 1..packet.parts :
             Frames(s, packet)[k] =
               [stream |-> s, streamId |-> stream[s].streamId, sequence |-> sequence[stream[s].streamId] + k - 1,
                payloadType |-> stream[s].payloadType, scaling |-> stream[s].scaling,
                data |-> packet.data, number |-> packet.number, part |-> k, retyped |-> stream[s].retyped]
<1>. DEFINE frame(k) ==
       [stream |-> s, streamId |-> stream[s].streamId, sequence |-> sequence[stream[s].streamId] + k - 1,
        payloadType |-> stream[s].payloadType, scaling |-> stream[s].scaling,
        data |-> packet.data, number |-> packet.number, part |-> k, retyped |-> stream[s].retyped]
     n == packet.parts
<1>1. n \in Nat \ {0} /\ packet.data \in Descriptors /\ packet.number \in Nat
  BY DEF DataPacket
<1>2. stream[s] \in StreamRecord
  BY DEF Types
<1>3. \A k \in 1..n : frame(k) \in Frame
  <2>. TAKE k \in 1..n
  <2>1. stream[s].streamId \in StreamIds /\ sequence[stream[s].streamId] \in Nat
    BY <1>2 DEF Types, StreamRecord
  <2>2. sequence[stream[s].streamId] + k - 1 \in Nat /\ k \in Nat \ {0}
    BY <1>1, <2>1
  <2>. QED
    BY <1>1, <1>2, <2>1, <2>2 DEF StreamRecord, Frame
<1>4. Frames(s, packet) = [k \in 1..n |-> frame(k)]
  BY DEF Frames
<1>. HIDE DEF frame, n
<1>5. /\ Frames(s, packet) \in Seq(Frame) /\ Len(Frames(s, packet)) = n
      /\ \A k \in 1..n : Frames(s, packet)[k] = frame(k)
  BY <1>1, <1>3, <1>4
<1>6. Frames(s, packet) # <<>>
  BY <1>1, <1>5
<1>. QED
  BY <1>1, <1>5, <1>6 DEF frame, n

LEMMA TypesInit == ASSUME Init PROVE Types
<1>1. stream \in [Stream -> StreamRecord]
  <2>. PICK selected \in [Stream -> PayloadTypes] :
         stream = [s \in Stream |->
           [streamId |-> 1, payloadType |-> selected[s], isConfigured |-> FALSE, inputStatus |-> "Disconnected",
            data |-> None, domain |-> None, scaling |-> [sampleDt |-> 32, scale |-> "none"], retyped |-> FALSE]]
    BY DEF Init
  <2>. QED
    BY StreamInputAssumption DEF StreamRecord, Scalings
<1>2. DOMAIN queue = Stream /\ \A s \in Stream : queue[s] \in [1..MaxConnections[s] -> Seq(Packet)]
  BY DEF Init
<1>3. connection \in [Stream -> Nat] /\ \A s \in Stream : connection[s] <= MaxConnections[s]
  BY StreamInputAssumption DEF Init
<1>4. /\ sequence \in [StreamIds -> Nat] /\ wire \in Seq(Frame)
      /\ encoderSync \in [StreamIds -> Worker \cup {None, "statusLoop"}]
  BY DEF Init
<1>. QED
  BY <1>1, <1>2, <1>3, <1>4 DEF Init, Types

LEMMA EnqueueTypes ==
  ASSUME Types, NEW s \in Stream, NEW c \in 1..MaxConnections[s], NEW packet \in Packet, Enqueue(s, c, packet)
  PROVE /\ DOMAIN queue' = Stream /\ \A t \in Stream : queue'[t] \in [1..MaxConnections[t] -> Seq(Packet)]
        /\ callbacks' \in [Stream -> Nat]
        /\ \A t \in Stream : \A e \in 1..MaxConnections[t] :
             queue'[t][e] = IF t = s /\ e = c THEN Append(queue[s][c], packet) ELSE queue[t][e]
<1>1. queue[s][c] \in Seq(Packet)
  BY DEF Types
<1>2. Append(queue[s][c], packet) \in Seq(Packet)
  BY <1>1
<1>3. queue' = [queue EXCEPT ![s][c] = Append(queue[s][c], packet)] /\ callbacks' = [callbacks EXCEPT ![s] = @ + 1]
  BY DEF Enqueue, Types
<1>4. callbacks' \in [Stream -> Nat]
  BY <1>3 DEF Types
<1>. DEFINE new == Append(queue[s][c], packet)
<1>5. new \in Seq(Packet) /\ queue' = [queue EXCEPT ![s][c] = new]
  BY <1>2, <1>3
<1>. HIDE DEF new
<1>6. /\ DOMAIN queue' = Stream /\ \A t \in Stream : queue'[t] \in [1..MaxConnections[t] -> Seq(Packet)]
      /\ \A t \in Stream : \A e \in 1..MaxConnections[t] :
             queue'[t][e] = IF t = s /\ e = c THEN new ELSE queue[t][e]
  BY <1>5, QueueChanges, ZenonT(60)
<1>. QED
  BY <1>4, <1>6 DEF new

LEMMA DequeueTypes ==
  ASSUME Types, NEW w \in Worker, job[w] # None, Pending(w) # <<>>, Dequeue(w)
  PROVE /\ DOMAIN queue' = Stream /\ \A t \in Stream : queue'[t] \in [1..MaxConnections[t] -> Seq(Packet)]
        /\ Pending(w) \in Seq(Packet) /\ Head(Pending(w)) \in Packet
        /\ \A t \in Stream : \A e \in 1..MaxConnections[t] :
             queue'[t][e] = IF t = job[w].stream /\ e = job[w].connection THEN Tail(Pending(w)) ELSE queue[t][e]
<1>. DEFINE s == job[w].stream
            c == job[w].connection
<1>1. s \in Stream /\ c \in 1..MaxConnections[s] /\ Pending(w) \in Seq(Packet)
  BY InCall
<1>2. Head(Pending(w)) \in Packet /\ Tail(Pending(w)) \in Seq(Packet)
  BY <1>1
<1>3. queue' = [queue EXCEPT ![s][c] = Tail(Pending(w))]
  BY <1>1 DEF Dequeue, Pending, Types
<1>. HIDE DEF s, c
<1>4. /\ DOMAIN queue' = Stream /\ \A t \in Stream : queue'[t] \in [1..MaxConnections[t] -> Seq(Packet)]
      /\ \A t \in Stream : \A e \in 1..MaxConnections[t] :
             queue'[t][e] = IF t = s /\ e = c THEN Tail(Pending(w)) ELSE queue[t][e]
  BY <1>1, <1>2, <1>3, QueueChanges, ZenonT(60)
<1>. QED
  BY <1>1, <1>2, <1>4 DEF s, c

LEMMA TypesOfSignal ==
  ASSUME Types, Locks, NEW s \in Stream, SignalStep(s)
  PROVE Types'
<1>0. /\ MaxConnections[s] \in Nat /\ connection[s] \in Nat /\ connection[s] <= MaxConnections[s]
      /\ connected[s] => connection[s] \in 1..MaxConnections[s]
  <2>1. MaxConnections[s] \in Nat /\ connection[s] \in Nat /\ connection[s] <= MaxConnections[s]
    BY StreamInputAssumption DEF Types
  <2>. QED
    BY <2>1 DEF Locks
<1>1. ASSUME NEW data \in Signals[s], NEW domain \in Domains, Connect(s, data, domain) PROVE Types'
  <2>1. data \in Descriptors \cup {None}
    BY StreamInputAssumption
  <2>2. Event(data, domain) \in Packet
    BY <2>1 DEF Event, Packet, EventPacket
  <2>3. connection[s] + 1 \in 1..MaxConnections[s]
    BY <1>0, <1>1 DEF Connect
  <2>4. /\ DOMAIN queue' = Stream /\ \A t \in Stream : queue'[t] \in [1..MaxConnections[t] -> Seq(Packet)]
        /\ callbacks' \in [Stream -> Nat]
    BY <1>1, <2>2, <2>3, EnqueueTypes DEF Connect
  <2>5. connection' = [connection EXCEPT ![s] = connection[s] + 1]
    BY <1>1 DEF Connect, Types
  <2>6. connection' \in [Stream -> Nat] /\ \A t \in Stream : connection'[t] <= MaxConnections[t]
    <3>1. \A t \in Stream : connection'[t] = IF t = s THEN connection[s] + 1 ELSE connection[t]
      BY <2>5 DEF Types
    <3>2. connection' \in [Stream -> Nat]
      BY <1>0, <2>5 DEF Types
    <3>3. \A t \in Stream : connection'[t] <= MaxConnections[t]
      <4>1. connection[s] + 1 <= MaxConnections[s]
        BY <1>0, <2>3
      <4>. QED
        BY <3>1, <4>1 DEF Types
    <3>. QED
      BY <3>2, <3>3
  <2>7. \A w \in Worker : job[w] # None => job[w].connection \in 1..connection'[job[w].stream]
    <3>. SUFFICES ASSUME NEW w \in Worker, job[w] # None PROVE job[w].connection \in 1..connection'[job[w].stream]
      OBVIOUS
    <3>1. job[w].stream \in Stream /\ job[w].connection \in 1..connection[job[w].stream]
      BY InCall DEF Types
    <3>2. connection[job[w].stream] \in Nat /\ connection[job[w].stream] <= connection'[job[w].stream]
      BY <1>0, <2>5, <3>1 DEF Types
    <3>3. connection'[job[w].stream] \in Nat
      BY <2>6, <3>1
    <3>. QED
      BY <3>1, <3>2, <3>3
  <2>8. /\ connected' \in [Stream -> BOOLEAN]
        /\ source' \in [Stream -> [data : Descriptors \cup {None}, packets : Nat, events : Nat]]
    <3>1. connected' \in [Stream -> BOOLEAN]
      BY <1>1 DEF Connect, Types
    <3>2. source' \in [Stream -> [data : Descriptors \cup {None}, packets : Nat, events : Nat]]
      <4>. DEFINE new == [source[s] EXCEPT !.data = data]
      <4>1. source[s] \in [data : Descriptors \cup {None}, packets : Nat, events : Nat]
        BY DEF Types
      <4>2. new \in [data : Descriptors \cup {None}, packets : Nat, events : Nat]
        BY <2>1, <4>1
      <4>3. source' = [source EXCEPT ![s] = new]
        BY <1>1, <4>1 DEF Connect, Types
      <4>. HIDE DEF new
      <4>. QED
        BY <4>2, <4>3 DEF Types
    <3>. QED
      BY <3>1, <3>2
  <2>. QED
    BY <1>1, <2>4, <2>6, <2>7, <2>8 DEF Connect, Types, encoder
<1>2. ASSUME NEW data \in Descriptors \cup {None}, NEW domain \in Domains \cup {None},
             ChangeDescriptor(s, data, domain)
      PROVE Types'
  <2>2. Event(data, domain) \in Packet
    BY DEF Event, Packet, EventPacket
  <2>4. /\ DOMAIN queue' = Stream /\ \A t \in Stream : queue'[t] \in [1..MaxConnections[t] -> Seq(Packet)]
        /\ callbacks' \in [Stream -> Nat]
    BY <1>0, <1>2, <2>2, EnqueueTypes DEF ChangeDescriptor
  <2>8. source' \in [Stream -> [data : Descriptors \cup {None}, packets : Nat, events : Nat]]
    <3>. DEFINE new == [source[s] EXCEPT !.data = IF data = None THEN @ ELSE data, !.events = @ + 1]
    <3>1. source[s] \in [data : Descriptors \cup {None}, packets : Nat, events : Nat]
      BY DEF Types
    <3>4. source[s].events + 1 \in Nat /\ (IF data = None THEN source[s].data ELSE data) \in Descriptors \cup {None}
      BY <3>1
    <3>2. new \in [data : Descriptors \cup {None}, packets : Nat, events : Nat]
      BY <3>1, <3>4
    <3>3. source' = [source EXCEPT ![s] = new]
      BY <1>2, <3>1 DEF ChangeDescriptor, Types
    <3>. HIDE DEF new
    <3>. QED
      BY <3>2, <3>3 DEF Types
  <2>. QED
    BY <1>2, <2>4, <2>8 DEF ChangeDescriptor, Types, encoder
<1>3. ASSUME NEW length \in Lengths[s], NEW parts \in Parts[s], SendData(s, length, parts) PROVE Types'
  <2>. DEFINE packet == [event |-> FALSE, data |-> source[s].data, length |-> length, parts |-> parts,
                         number |-> source[s].packets + 1]
  <2>2. packet \in Packet
    <3>1. source[s].data \in Descriptors /\ source[s].packets + 1 \in Nat
      BY <1>3 DEF SendData, Types
    <3>2. length \in 0..255 /\ parts \in Nat \ {0}
      BY StreamInputAssumption
    <3>. QED
      BY <3>1, <3>2 DEF Packet, DataPacket
  <2>3. Enqueue(s, connection[s], packet)
    BY <1>3 DEF SendData
  <2>. HIDE DEF packet
  <2>4. /\ DOMAIN queue' = Stream /\ \A t \in Stream : queue'[t] \in [1..MaxConnections[t] -> Seq(Packet)]
        /\ callbacks' \in [Stream -> Nat]
    BY <1>0, <1>3, <2>2, <2>3, EnqueueTypes DEF SendData
  <2>8. source' \in [Stream -> [data : Descriptors \cup {None}, packets : Nat, events : Nat]]
    <3>. DEFINE new == [source[s] EXCEPT !.packets = @ + 1]
    <3>1. source[s] \in [data : Descriptors \cup {None}, packets : Nat, events : Nat]
      BY DEF Types
    <3>2. new \in [data : Descriptors \cup {None}, packets : Nat, events : Nat]
      BY <3>1
    <3>3. source' = [source EXCEPT ![s] = new]
      BY <1>3, <3>1 DEF SendData, Types
    <3>. HIDE DEF new
    <3>. QED
      BY <3>2, <3>3 DEF Types
  <2>. QED
    BY <1>3, <2>4, <2>8 DEF SendData, Types, encoder
<1>4. CASE Disconnect(s)
  <2>1. stream' \in [Stream -> StreamRecord] /\ connected' \in [Stream -> BOOLEAN]
    <3>0. connected' \in [Stream -> BOOLEAN]
      BY <1>4 DEF Disconnect, Types
    <3>. DEFINE new == [stream[s] EXCEPT !.inputStatus = "Disconnected"]
    <3>1. stream[s] \in StreamRecord
      BY DEF Types
    <3>2. new \in StreamRecord
      BY <3>1 DEF StreamRecord
    <3>3. stream' = [stream EXCEPT ![s] = new]
      BY <1>4 DEF Disconnect, Types
    <3>. HIDE DEF new
    <3>. QED
      BY <3>0, <3>2, <3>3 DEF Types
  <2>2. DOMAIN queue' = Stream /\ \A t \in Stream : queue'[t] \in [1..MaxConnections[t] -> Seq(Packet)]
    <3>1. <<>> \in Seq(Packet) /\ connection[s] \in 1..MaxConnections[s]
      BY <1>0, <1>4 DEF Disconnect
    <3>2. queue' = queue \/ queue' = [queue EXCEPT ![s][connection[s]] = <<>>]
      BY <1>4 DEF Disconnect
    <3>3. CASE queue' = queue
      BY <3>3 DEF Types
    <3>4. CASE queue' = [queue EXCEPT ![s][connection[s]] = <<>>]
      BY <3>1, <3>4, QueueChanges
    <3>. QED
      BY <3>2, <3>3, <3>4
  <2>. QED
    BY <1>4, <2>1, <2>2 DEF Disconnect, Types, encoder
<1>5. Signals[s] \subseteq Descriptors \cup {None}
  BY StreamInputAssumption
<1>. QED
  BY <1>1, <1>2, <1>3, <1>4, <1>5 DEF SignalStep

LEMMA TypesOfWrite ==
  ASSUME Types, NEW s \in Stream, WriteStep(s)
  PROVE Types'
<1>1. ASSUME NEW type \in PayloadTypes, SetPayloadType(s, type) PROVE Types'
  <2>1. stream' \in [Stream -> StreamRecord]
    <3>. DEFINE new == [stream[s] EXCEPT !.payloadType = type, !.retyped = TRUE]
    <3>1. stream[s] \in StreamRecord
      BY DEF Types
    <3>2. new \in StreamRecord
      BY <3>1 DEF StreamRecord
    <3>3. stream' = [stream EXCEPT ![s] = new]
      BY <1>1 DEF SetPayloadType, Types
    <3>. HIDE DEF new
    <3>. QED
      BY <3>2, <3>3 DEF Types
  <2>. QED
    BY <1>1, <2>1 DEF SetPayloadType, Types, port, encoder
<1>2. ASSUME NEW id \in StreamIds, SetStreamId(s, id) PROVE Types'
  <2>1. stream' \in [Stream -> StreamRecord]
    <3>. DEFINE new == [stream[s] EXCEPT !.streamId = id]
    <3>1. stream[s] \in StreamRecord
      BY DEF Types
    <3>2. new \in StreamRecord
      BY <3>1 DEF StreamRecord
    <3>3. stream' = [stream EXCEPT ![s] = new]
      BY <1>2 DEF SetStreamId, Types
    <3>. HIDE DEF new
    <3>. QED
      BY <3>2, <3>3 DEF Types
  <2>. QED
    BY <1>2, <2>1 DEF SetStreamId, Types, port, encoder
<1>3. Selected[s] \subseteq PayloadTypes
  BY StreamInputAssumption
<1>. QED
  BY <1>1, <1>2, <1>3 DEF WriteStep

\* A worker's job changes, and it stays with its connection.
LEMMA JobChanges ==
  ASSUME Types, NEW w \in Worker, NEW new \in Job, job' = [job EXCEPT ![w] = new],
         new.connection \in 1..connection[new.stream], connection' = connection
  PROVE /\ job' \in [Worker -> Job \cup {None}]
        /\ \A v \in Worker : job'[v] # None => job'[v].connection \in 1..connection'[job'[v].stream]
        /\ \A v \in Worker : job'[v] = IF v = w THEN new ELSE job[v]
        /\ job'[w] # None
<1>1. new # None
  BY StreamInputAssumption
<1>. QED
  BY <1>1 DEF Types

LEMMA TypesOfWorker ==
  ASSUME Types, Locks, NEW w \in Worker, WorkerStep(w)
  PROVE Types'
<1>1. ASSUME NEW s \in Stream, ReceiveConnected(w, s) PROVE Types'
  <2>. DEFINE new == [stream |-> s, connection |-> connection[s], encoding |-> FALSE, frames |-> <<>>]
  <2>1. connection[s] \in 1..connection[s] /\ connection[s] \in Nat
    BY <1>1 DEF ReceiveConnected, Types, Locks
  <2>2. new \in Job
    BY <2>1 DEF Job
  <2>3. job' = [job EXCEPT ![w] = new] /\ connection' = connection /\ new.connection \in 1..connection[new.stream]
    BY <1>1, <2>1 DEF ReceiveConnected
  <2>. HIDE DEF new
  <2>4. /\ job' \in [Worker -> Job \cup {None}]
        /\ \A v \in Worker : job'[v] # None => job'[v].connection \in 1..connection'[job'[v].stream]
    BY <2>2, <2>3, JobChanges
  <2>5. callbacks' \in [Stream -> Nat] /\ streamLock' \in [Stream -> Worker \cup {None}]
    BY <1>1 DEF ReceiveConnected, Types
  <2>. QED
    BY <1>1, <2>4, <2>5 DEF ReceiveConnected, Types, encoder
<1>2. ASSUME NEW s \in Stream, ReceiveUnconnected(w, s) PROVE Types'
  <2>5. callbacks' \in [Stream -> Nat]
    BY <1>2 DEF ReceiveUnconnected, Types
  <2>. QED
    BY <1>2, <2>5 DEF ReceiveUnconnected, Types, encoder
<1>3. CASE ProcessEventPacket(w)
  <2>. DEFINE s == job[w].stream
              packet == Head(Pending(w))
              r == [stream[s] EXCEPT !.data = IF packet.data = None THEN @ ELSE packet.data,
                                     !.domain = IF packet.domain = None THEN @ ELSE packet.domain]
  <2>1. /\ job[w] # None /\ Pending(w) # <<>> /\ Dequeue(w) /\ packet.event
        /\ stream' = [stream EXCEPT ![s] = Configure(
             [stream[s] EXCEPT !.data = IF packet.data = None THEN @ ELSE packet.data,
                               !.domain = IF packet.domain = None THEN @ ELSE packet.domain])]
    BY <1>3 DEF ProcessEventPacket, Draining
  <2>2. s \in Stream /\ stream[s] \in StreamRecord /\ packet \in Packet
    BY <2>1, InCall, DequeueTypes
  <2>3. packet \in EventPacket
    BY <2>1, <2>2 DEF Packet, DataPacket
  <2>4. r \in StreamRecord
    BY <2>2, <2>3 DEF EventPacket, StreamRecord
  <2>8. stream' = [stream EXCEPT ![s] = Configure(r)]
    BY <2>1
  <2>. HIDE DEF s, packet, r
  <2>5. Configure(r) \in StreamRecord
    <3>1. r.data # None => AnalogScaling(r.data) \in Scalings
      BY <2>4, ScalingOf DEF StreamRecord
    <3>. QED
      BY <2>4, <3>1 DEF Configure, StreamRecord
  <2>6. stream' \in [Stream -> StreamRecord]
    BY <2>5, <2>8 DEF Types
  <2>7. DOMAIN queue' = Stream /\ \A t \in Stream : queue'[t] \in [1..MaxConnections[t] -> Seq(Packet)]
    BY <2>1, DequeueTypes
  <2>. QED
    BY <1>3, <2>6, <2>7 DEF ProcessEventPacket, Types, encoder
<1>4. CASE SkipDataPacket(w)
  <2>7. DOMAIN queue' = Stream /\ \A t \in Stream : queue'[t] \in [1..MaxConnections[t] -> Seq(Packet)]
    BY <1>4, DequeueTypes DEF SkipDataPacket, Draining
  <2>. QED
    BY <1>4, <2>7 DEF SkipDataPacket, Types, encoder
<1>5. CASE Encode(w)
  <2>. DEFINE s == job[w].stream
              packet == Head(Pending(w))
              new == [job[w] EXCEPT !.encoding = TRUE, !.frames = Frames(s, packet)]
  <2>1. /\ job[w] # None /\ Pending(w) # <<>> /\ Dequeue(w) /\ ~packet.event
        /\ job' = [job EXCEPT ![w] = new]
        /\ encoderSync' = [encoderSync EXCEPT ![stream[s].streamId] = w]
    BY <1>5 DEF Encode, Draining, Types
  <2>2. s \in Stream /\ stream[s] \in StreamRecord /\ packet \in Packet /\ job[w] \in Job
    BY <2>1, InCall, DequeueTypes
  <2>3. packet \in DataPacket
    BY <2>1, <2>2 DEF Packet, EventPacket
  <2>4. Frames(s, packet) \in Seq(Frame)
    BY <2>2, <2>3, FramesAreFrames
  <2>5. new \in Job /\ new.connection = job[w].connection /\ new.stream = job[w].stream
    BY <2>2, <2>4 DEF Job
  <2>6. new.connection \in 1..connection[new.stream] /\ connection' = connection
    BY <1>5, <2>1, <2>5 DEF Encode, Types
  <2>. HIDE DEF new, s, packet
  <2>7. /\ job' \in [Worker -> Job \cup {None}]
        /\ \A v \in Worker : job'[v] # None => job'[v].connection \in 1..connection'[job'[v].stream]
    BY <2>1, <2>5, <2>6, JobChanges
  <2>8. DOMAIN queue' = Stream /\ \A t \in Stream : queue'[t] \in [1..MaxConnections[t] -> Seq(Packet)]
    BY <2>1, DequeueTypes
  <2>9. encoderSync' \in [StreamIds -> Worker \cup {None, "statusLoop"}]
    BY <2>1, <2>2 DEF Types, StreamRecord
  <2>. QED
    BY <1>5, <2>7, <2>8, <2>9 DEF Encode, Types
<1>6. CASE EncodeReturns(w)
  <2>. DEFINE new == [job[w] EXCEPT !.encoding = FALSE]
              id == stream[job[w].stream].streamId
              n == Head(job[w].frames).sequence + Len(job[w].frames)
  <2>1. job[w] # None /\ job[w].encoding /\ job' = [job EXCEPT ![w] = new] /\ connection' = connection
    BY <1>6 DEF EncodeReturns, Types, port
  <2>2. job[w] \in Job /\ job[w].frames \in Seq(Frame) /\ job[w].frames # <<>>
        /\ stream[job[w].stream] \in StreamRecord
    BY <2>1, InCall DEF Locks
  <2>3. new \in Job /\ new.connection = job[w].connection /\ new.stream = job[w].stream
    BY <2>2 DEF Job
  <2>4. n \in Nat
    <3>1. Head(job[w].frames) \in Frame /\ Len(job[w].frames) \in Nat
      BY <2>2
    <3>2. Head(job[w].frames).sequence \in Nat
      BY <3>1 DEF Frame
    <3>. QED
      BY <3>1, <3>2
  <2>5. sequence' = [sequence EXCEPT ![id] = n] /\ encoderSync' = [encoderSync EXCEPT ![id] = None]
    BY <1>6 DEF EncodeReturns
  <2>6. new.connection \in 1..connection[new.stream]
    BY <2>1, <2>3 DEF Types
  <2>. HIDE DEF new, n
  <2>7. /\ job' \in [Worker -> Job \cup {None}]
        /\ \A v \in Worker : job'[v] # None => job'[v].connection \in 1..connection'[job'[v].stream]
    BY <2>1, <2>3, <2>6, JobChanges
  <2>8. sequence' \in [StreamIds -> Nat] /\ encoderSync' \in [StreamIds -> Worker \cup {None, "statusLoop"}]
    BY <2>4, <2>5 DEF Types
  <2>. QED
    BY <1>6, <2>7, <2>8 DEF EncodeReturns, Types, port
<1>7. CASE SendPacket(w)
  <2>. DEFINE new == [job[w] EXCEPT !.frames = Tail(job[w].frames)]
  <2>1. /\ job[w] # None /\ job[w].frames # <<>> /\ job' = [job EXCEPT ![w] = new] /\ connection' = connection
        /\ wire' = Append(wire, Head(job[w].frames))
    BY <1>7 DEF SendPacket, Types, port
  <2>2. job[w] \in Job /\ job[w].frames \in Seq(Frame)
    BY <2>1, InCall
  <2>3. Head(job[w].frames) \in Frame /\ Tail(job[w].frames) \in Seq(Frame)
    BY <2>1, <2>2
  <2>4. new \in Job /\ new.connection = job[w].connection /\ new.stream = job[w].stream
    BY <2>2, <2>3 DEF Job
  <2>6. new.connection \in 1..connection[new.stream]
    BY <2>1, <2>4 DEF Types
  <2>. HIDE DEF new
  <2>7. /\ job' \in [Worker -> Job \cup {None}]
        /\ \A v \in Worker : job'[v] # None => job'[v].connection \in 1..connection'[job'[v].stream]
    BY <2>1, <2>4, <2>6, JobChanges
  <2>8. wire' \in Seq(Frame)
    BY <2>1, <2>3 DEF Types
  <2>. QED
    BY <1>7, <2>7, <2>8 DEF SendPacket, Types, port, encoder
<1>8. CASE ReceiveReturns(w)
  <2>1. job' \in [Worker -> Job \cup {None}] /\ \A v \in Worker : job'[v] # None => job'[v] = job[v]
    BY <1>8 DEF ReceiveReturns, Types
  <2>2. \A v \in Worker : job'[v] # None => job'[v].connection \in 1..connection'[job'[v].stream]
    BY <1>8, <2>1 DEF ReceiveReturns, Types, port
  <2>3. streamLock' \in [Stream -> Worker \cup {None}]
    BY <1>8 DEF ReceiveReturns, Types
  <2>. QED
    BY <1>8, <2>1, <2>2, <2>3 DEF ReceiveReturns, Types, port, encoder
<1>. QED
  BY <1>1, <1>2, <1>3, <1>4, <1>5, <1>6, <1>7, <1>8 DEF WorkerStep

--------------------------------------------------------------------------------
(* What each action does, block by block, queue by queue, worker by worker.  *)

\* Only the queue of connection c of block s is another.
QueueAt(s, c, new) ==
  \A t \in Stream : \A e \in 1..MaxConnections[t] :
    queue'[t][e] = IF t = s /\ e = c THEN new ELSE queue[t][e]

\* The job of worker w is new, or has ended.
JobAt(w, new) == \A v \in Worker : job'[v] = IF v = w THEN new ELSE job[v]

SameIds == \A t \in Stream : stream'[t].streamId = stream[t].streamId

LEMMA Bounds ==
  ASSUME Types, NEW s \in Stream
  PROVE connection[s] \in Nat /\ MaxConnections[s] \in Nat /\ connection[s] <= MaxConnections[s]
BY StreamInputAssumption DEF Types

LEMMA ConnectDoes ==
  ASSUME Types, NEW s \in Stream, NEW data \in Signals[s], NEW domain \in Domains, Connect(s, data, domain)
  PROVE /\ ~connected[s] /\ connection[s] + 1 \in 1..MaxConnections[s] /\ data \in Descriptors \cup {None}
        /\ connected'[s] /\ connection'[s] = connection[s] + 1
        /\ source'[s].data = data /\ source'[s].packets = source[s].packets
        /\ \A t \in Stream \ {s} :
             connected'[t] = connected[t] /\ connection'[t] = connection[t] /\ source'[t] = source[t]
        /\ QueueAt(s, connection[s] + 1, Append(queue[s][connection[s] + 1], Event(data, domain)))
        /\ Event(data, domain) \in Packet
        /\ UNCHANGED <<stream, streamLock, job, sequence, encoderSync, wire>>
<1>1. data \in Descriptors \cup {None}
  BY StreamInputAssumption
<1>2. Event(data, domain) \in Packet
  BY <1>1 DEF Event, Packet, EventPacket
<1>3. connection[s] + 1 \in 1..MaxConnections[s] /\ connection[s] # connection[s] + 1
  BY Bounds DEF Connect
<1>4. QueueAt(s, connection[s] + 1, Append(queue[s][connection[s] + 1], Event(data, domain)))
  BY <1>2, <1>3, EnqueueTypes DEF Connect, QueueAt
<1>5. source'[s].data = data /\ source'[s].packets = source[s].packets
      /\ \A t \in Stream \ {s} : source'[t] = source[t]
  BY DEF Connect, Types
<1>. QED
  BY <1>1, <1>2, <1>3, <1>4, <1>5 DEF Connect, Types, encoder

LEMMA ChangeDoes ==
  ASSUME Types, Locks, NEW s \in Stream, NEW data \in Descriptors \cup {None}, NEW domain \in Domains \cup {None},
         ChangeDescriptor(s, data, domain)
  PROVE /\ connected[s] /\ connection[s] \in 1..MaxConnections[s]
        /\ source'[s].data = (IF data = None THEN source[s].data ELSE data)
        /\ source'[s].packets = source[s].packets
        /\ \A t \in Stream \ {s} : source'[t] = source[t]
        /\ QueueAt(s, connection[s], Append(queue[s][connection[s]], Event(data, domain)))
        /\ Event(data, domain) \in Packet
        /\ UNCHANGED <<connected, connection, stream, streamLock, job, sequence, encoderSync, wire>>
<1>2. Event(data, domain) \in Packet
  BY DEF Event, Packet, EventPacket
<1>3. connected[s] /\ connection[s] \in 1..MaxConnections[s]
  BY Bounds DEF ChangeDescriptor, Locks
<1>4. QueueAt(s, connection[s], Append(queue[s][connection[s]], Event(data, domain)))
  BY <1>2, <1>3, EnqueueTypes DEF ChangeDescriptor, QueueAt
<1>5. /\ source'[s].data = (IF data = None THEN source[s].data ELSE data) /\ source'[s].packets = source[s].packets
      /\ \A t \in Stream \ {s} : source'[t] = source[t]
  BY DEF ChangeDescriptor, Types
<1>. QED
  BY <1>2, <1>3, <1>4, <1>5 DEF ChangeDescriptor, encoder

LEMMA SendDataDoes ==
  ASSUME Types, Locks, NEW s \in Stream, NEW length \in Lengths[s], NEW parts \in Parts[s],
         SendData(s, length, parts)
  PROVE \E packet \in DataPacket :
        /\ packet.data = source[s].data /\ packet.number = source[s].packets + 1
        /\ connected[s] /\ connection[s] \in 1..MaxConnections[s]
        /\ source'[s].data = source[s].data /\ source'[s].packets = source[s].packets + 1
        /\ \A t \in Stream \ {s} : source'[t] = source[t]
        /\ QueueAt(s, connection[s], Append(queue[s][connection[s]], packet))
        /\ UNCHANGED <<connected, connection, stream, streamLock, job, sequence, encoderSync, wire>>
<1>. DEFINE packet == [event |-> FALSE, data |-> source[s].data, length |-> length, parts |-> parts,
                       number |-> source[s].packets + 1]
<1>1. source[s].data \in Descriptors /\ source[s].packets \in Nat
  BY DEF SendData, Types
<1>2. length \in 0..255 /\ parts \in Nat \ {0}
  BY StreamInputAssumption
<1>3. packet \in DataPacket /\ packet.data = source[s].data /\ packet.number = source[s].packets + 1
  BY <1>1, <1>2 DEF DataPacket
<1>4. connected[s] /\ connection[s] \in 1..MaxConnections[s]
  BY Bounds DEF SendData, Locks
<1>5. Enqueue(s, connection[s], packet)
  BY DEF SendData
<1>6. source'[s].data = source[s].data /\ source'[s].packets = source[s].packets + 1
      /\ \A t \in Stream \ {s} : source'[t] = source[t]
  BY DEF SendData, Types
<1>. HIDE DEF packet
<1>7. QueueAt(s, connection[s], Append(queue[s][connection[s]], packet))
  BY <1>3, <1>4, <1>5, EnqueueTypes DEF QueueAt, Packet
<1>. QED
  BY <1>3, <1>4, <1>6, <1>7 DEF SendData, encoder

LEMMA DisconnectDoes ==
  ASSUME Types, Locks, NEW s \in Stream, Disconnect(s)
  PROVE /\ connected[s] /\ connection[s] \in 1..MaxConnections[s] /\ ~connected'[s]
        /\ \A t \in Stream \ {s} : connected'[t] = connected[t] /\ stream'[t] = stream[t]
        /\ \A field \in {"streamId", "payloadType", "isConfigured", "data", "scaling", "retyped"} :
             stream'[s][field] = stream[s][field]
        /\ IF \E w \in Calls : job[w].stream = s /\ job[w].connection = connection[s]
           THEN queue' = queue ELSE QueueAt(s, connection[s], <<>>)
        /\ UNCHANGED <<connection, source, streamLock, job, sequence, encoderSync, wire>>
<1>1. connected[s] /\ connection[s] \in 1..MaxConnections[s]
  BY Bounds DEF Disconnect, Locks
<1>2. ~connected'[s] /\ \A t \in Stream \ {s} : connected'[t] = connected[t]
  BY DEF Disconnect, Types
<1>3. stream[s] \in StreamRecord
      /\ stream' = [stream EXCEPT ![s] = [stream[s] EXCEPT !.inputStatus = "Disconnected"]]
  BY DEF Disconnect, Types
<1>4. /\ \A t \in Stream \ {s} : stream'[t] = stream[t]
      /\ \A field \in {"streamId", "payloadType", "isConfigured", "data", "scaling", "retyped"} :
           stream'[s][field] = stream[s][field]
  BY <1>3 DEF Types, StreamRecord
<1>5. CASE \E w \in Calls : job[w].stream = s /\ job[w].connection = connection[s]
  <2>1. queue' = queue
    BY <1>5 DEF Disconnect, Calls
  <2>. QED
    BY <1>1, <1>2, <1>4, <1>5, <2>1 DEF Disconnect, encoder
<1>6. CASE ~\E w \in Calls : job[w].stream = s /\ job[w].connection = connection[s]
  <2>1. queue' = [queue EXCEPT ![s][connection[s]] = <<>>]
    BY <1>6 DEF Disconnect, Calls
  <2>2. <<>> \in Seq(Packet)
    OBVIOUS
  <2>3. QueueAt(s, connection[s], <<>>)
    BY <1>1, <2>1, <2>2, QueueChanges DEF QueueAt
  <2>. QED
    BY <1>1, <1>2, <1>4, <1>6, <2>3 DEF Disconnect, encoder
<1>. QED
  BY <1>5, <1>6

LEMMA SetPayloadTypeDoes ==
  ASSUME Types, NEW s \in Stream, NEW type \in PayloadTypes, SetPayloadType(s, type)
  PROVE /\ SameIds /\ stream'[s].retyped /\ \A t \in Stream : stream'[t].data = stream[t].data
        /\ \A t \in Stream \ {s} : stream'[t] = stream[t]
        /\ UNCHANGED <<streamLock, connected, connection, queue, source, job, sequence, encoderSync, wire>>
<1>1. stream[s] \in StreamRecord
      /\ stream' = [stream EXCEPT ![s] = [stream[s] EXCEPT !.payloadType = type, !.retyped = TRUE]]
  BY DEF SetPayloadType, Types
<1>2. SameIds /\ stream'[s].retyped /\ \A t \in Stream : stream'[t].data = stream[t].data
  BY <1>1 DEF SameIds, Types, StreamRecord
<1>3. \A t \in Stream \ {s} : stream'[t] = stream[t]
  BY <1>1 DEF Types
<1>. QED
  BY <1>2, <1>3 DEF SetPayloadType, port, encoder

LEMMA SetStreamIdDoes ==
  ASSUME Types, NEW s \in Stream, NEW id \in StreamIds, SetStreamId(s, id)
  PROVE /\ streamLock[s] = None
        /\ \A t \in Stream \ {s} : stream'[t] = stream[t]
        /\ \A field \in {"payloadType", "isConfigured", "data", "scaling", "retyped"} :
           stream'[s][field] = stream[s][field]
        /\ UNCHANGED <<streamLock, connected, connection, queue, source, job, sequence, encoderSync, wire>>
<1>1. stream[s] \in StreamRecord /\ stream' = [stream EXCEPT ![s] = [stream[s] EXCEPT !.streamId = id]]
  BY DEF SetStreamId, Types
<1>2. /\ \A t \in Stream \ {s} : stream'[t] = stream[t]
      /\ \A field \in {"payloadType", "isConfigured", "data", "scaling", "retyped"} :
         stream'[s][field] = stream[s][field]
  BY <1>1 DEF Types, StreamRecord
<1>. QED
  BY <1>2 DEF SetStreamId, port, encoder

LEMMA ReceiveConnectedDoes ==
  ASSUME Types, Locks, NEW w \in Worker, NEW s \in Stream, ReceiveConnected(w, s)
  PROVE \E new \in Job :
        /\ new.stream = s /\ new.connection = connection[s] /\ ~new.encoding /\ new.frames = <<>>
        /\ JobAt(w, new) /\ new # None /\ job[w] = None
        /\ streamLock[s] = None /\ connected[s] /\ connection[s] \in 1..MaxConnections[s]
        /\ \A t \in Stream : streamLock'[t] = IF t = s THEN w ELSE streamLock[t]
        /\ UNCHANGED <<stream, connected, connection, queue, source, sequence, encoderSync, wire>>
<1>. DEFINE new == [stream |-> s, connection |-> connection[s], encoding |-> FALSE, frames |-> <<>>]
<1>1. connected[s] /\ connection[s] \in 1..MaxConnections[s] /\ connection[s] \in Nat
  BY Bounds DEF ReceiveConnected, Locks
<1>2. new \in Job /\ new.stream = s /\ new.connection = connection[s] /\ ~new.encoding /\ new.frames = <<>>
  BY <1>1 DEF Job
<1>3. job' = [job EXCEPT ![w] = new]
  BY DEF ReceiveConnected
<1>. HIDE DEF new
<1>4. JobAt(w, new) /\ new # None
  BY <1>2, <1>3, StreamInputAssumption DEF JobAt, Types
<1>5. \A t \in Stream : streamLock'[t] = IF t = s THEN w ELSE streamLock[t]
  BY DEF ReceiveConnected, Types
<1>. QED
  BY <1>1, <1>2, <1>4, <1>5 DEF ReceiveConnected, encoder

LEMMA ProcessEventPacketDoes ==
  ASSUME Types, NEW w \in Worker, ProcessEventPacket(w)
  PROVE \E r \in StreamRecord :
        /\ r.data = (IF Tells(Head(Pending(w))) THEN Head(Pending(w)).data ELSE stream[job[w].stream].data)
        /\ r.streamId = stream[job[w].stream].streamId /\ Suited(r)
        /\ \A t \in Stream : stream'[t] = IF t = job[w].stream THEN r ELSE stream[t]
        /\ Draining(w) /\ Pending(w) # <<>> /\ Head(Pending(w)).event
        /\ QueueAt(job[w].stream, job[w].connection, Tail(Pending(w)))
        /\ UNCHANGED <<streamLock, connected, connection, source, job, sequence, encoderSync, wire>>
<1>. DEFINE s == job[w].stream
            packet == Head(Pending(w))
            r == [stream[s] EXCEPT !.data = IF packet.data = None THEN @ ELSE packet.data,
                                   !.domain = IF packet.domain = None THEN @ ELSE packet.domain]
<1>1. /\ job[w] # None /\ Pending(w) # <<>> /\ Dequeue(w) /\ packet.event
      /\ stream' = [stream EXCEPT ![s] = Configure(r)]
  BY DEF ProcessEventPacket, Draining
<1>2. s \in Stream /\ stream[s] \in StreamRecord /\ packet \in Packet
  BY <1>1, InCall, DequeueTypes
<1>3. packet \in EventPacket
  BY <1>1, <1>2 DEF Packet, DataPacket
<1>4. /\ r \in StreamRecord /\ r.streamId = stream[s].streamId
      /\ r.data = IF Tells(packet) THEN packet.data ELSE stream[s].data
  BY <1>1, <1>2, <1>3 DEF EventPacket, StreamRecord, Tells
<1>. HIDE DEF r
<1>5. Configure(r) \in StreamRecord
  <2>1. r.data # None => AnalogScaling(r.data) \in Scalings
    BY <1>4, ScalingOf DEF StreamRecord
  <2>. QED
    BY <1>4, <2>1 DEF Configure, StreamRecord
<1>6. Configure(r).data = r.data /\ Configure(r).streamId = r.streamId /\ Suited(Configure(r))
  BY <1>4 DEF Configure, StreamRecord, Suited
<1>7. \A t \in Stream : stream'[t] = IF t = s THEN Configure(r) ELSE stream[t]
  BY <1>1 DEF Types
<1>8. QueueAt(s, job[w].connection, Tail(Pending(w)))
  BY <1>1, DequeueTypes DEF QueueAt
<1>. HIDE DEF s, packet
<1>9. /\ Configure(r).data = (IF Tells(packet) THEN packet.data ELSE stream[s].data)
      /\ Configure(r).streamId = stream[s].streamId
  BY <1>4, <1>6
<1>10. /\ Draining(w) /\ Pending(w) # <<>>
       /\ UNCHANGED <<streamLock, connected, connection, source, job, sequence, encoderSync, wire>>
  BY DEF ProcessEventPacket, encoder
<1>. QED
  BY <1>1, <1>5, <1>6, <1>7, <1>8, <1>9, <1>10 DEF s, packet

LEMMA SkipDataPacketDoes ==
  ASSUME Types, NEW w \in Worker, SkipDataPacket(w)
  PROVE /\ Draining(w) /\ Pending(w) # <<>> /\ ~Head(Pending(w)).event
        /\ QueueAt(job[w].stream, job[w].connection, Tail(Pending(w)))
        /\ UNCHANGED <<stream, streamLock, connected, connection, source, job, sequence, encoderSync, wire>>
<1>1. QueueAt(job[w].stream, job[w].connection, Tail(Pending(w)))
  BY DequeueTypes DEF SkipDataPacket, Draining, QueueAt
<1>. QED
  BY <1>1 DEF SkipDataPacket, encoder

LEMMA EncodeDoes ==
  ASSUME Types, NEW w \in Worker, Encode(w)
  PROVE \E new \in Job :
        /\ new.stream = job[w].stream /\ new.connection = job[w].connection /\ new.encoding
        /\ new.frames = Frames(job[w].stream, Head(Pending(w)))
        /\ JobAt(w, new) /\ new # None
        /\ encoderSync[stream[job[w].stream].streamId] = None
        /\ \A i \in StreamIds :
             encoderSync'[i] = IF i = stream[job[w].stream].streamId THEN w ELSE encoderSync[i]
        /\ Draining(w) /\ Pending(w) # <<>> /\ Head(Pending(w)) \in DataPacket /\ ~Head(Pending(w)).event
        /\ stream[job[w].stream].isConfigured
        /\ QueueAt(job[w].stream, job[w].connection, Tail(Pending(w)))
        /\ UNCHANGED <<stream, streamLock, connected, connection, source, sequence, wire>>
<1>. DEFINE s == job[w].stream
            packet == Head(Pending(w))
            new == [job[w] EXCEPT !.encoding = TRUE, !.frames = Frames(s, packet)]
<1>1. /\ job[w] # None /\ Pending(w) # <<>> /\ Dequeue(w) /\ ~packet.event
      /\ job' = [job EXCEPT ![w] = new]
      /\ encoderSync' = [encoderSync EXCEPT ![stream[s].streamId] = w]
      /\ encoderSync[stream[s].streamId] = None /\ stream[s].isConfigured
  BY DEF Encode, Draining, Encodes, Types
<1>2. s \in Stream /\ packet \in Packet /\ job[w] \in Job
  BY <1>1, InCall, DequeueTypes
<1>3. packet \in DataPacket
  BY <1>1, <1>2 DEF Packet, EventPacket
<1>4. Frames(s, packet) \in Seq(Frame)
  BY <1>2, <1>3, FramesAreFrames
<1>5. /\ new \in Job /\ new.connection = job[w].connection /\ new.stream = s /\ new.encoding
      /\ new.frames = Frames(s, packet)
  BY <1>2, <1>4 DEF Job
<1>. HIDE DEF new
<1>6. JobAt(w, new) /\ new # None
  BY <1>1, <1>5, StreamInputAssumption DEF JobAt, Types
<1>7. QueueAt(s, job[w].connection, Tail(Pending(w)))
  BY <1>1, DequeueTypes DEF QueueAt
<1>8. \A i \in StreamIds : encoderSync'[i] = IF i = stream[s].streamId THEN w ELSE encoderSync[i]
  BY <1>1 DEF Types
<1>9. /\ Draining(w) /\ Pending(w) # <<>>
      /\ UNCHANGED <<stream, streamLock, connected, connection, source, sequence, wire>>
  BY DEF Encode
<1>. HIDE DEF s, packet
<1>. QED
  BY <1>1, <1>3, <1>5, <1>6, <1>7, <1>8, <1>9 DEF s, packet

LEMMA EncodeReturnsDoes ==
  ASSUME Types, Locks, NEW w \in Worker, EncodeReturns(w)
  PROVE \E new \in Job :
        /\ new.stream = job[w].stream /\ new.connection = job[w].connection /\ ~new.encoding
        /\ new.frames = job[w].frames /\ job[w].frames # <<>>
        /\ JobAt(w, new) /\ new # None /\ job[w] # None /\ job[w].encoding
        /\ \A i \in StreamIds :
             IF i = stream[job[w].stream].streamId
             THEN encoderSync'[i] = None /\ sequence'[i] = job[w].frames[1].sequence + Len(job[w].frames)
             ELSE encoderSync'[i] = encoderSync[i] /\ sequence'[i] = sequence[i]
        /\ UNCHANGED <<stream, streamLock, connected, connection, queue, source, wire>>
<1>. DEFINE new == [job[w] EXCEPT !.encoding = FALSE]
            id == stream[job[w].stream].streamId
<1>1. job[w] # None /\ job[w].encoding /\ job' = [job EXCEPT ![w] = new]
  BY DEF EncodeReturns, Types
<1>2. job[w] \in Job /\ job[w].frames \in Seq(Frame) /\ job[w].frames # <<>>
  BY <1>1, InCall DEF Locks
<1>3. /\ new \in Job /\ new.connection = job[w].connection /\ new.stream = job[w].stream /\ ~new.encoding
      /\ new.frames = job[w].frames
  BY <1>2 DEF Job
<1>4. Head(job[w].frames) = job[w].frames[1]
  BY <1>2
<1>5. \A i \in StreamIds :
        IF i = id THEN encoderSync'[i] = None /\ sequence'[i] = job[w].frames[1].sequence + Len(job[w].frames)
        ELSE encoderSync'[i] = encoderSync[i] /\ sequence'[i] = sequence[i]
  BY <1>4 DEF EncodeReturns, Types
<1>. HIDE DEF new
<1>6. JobAt(w, new) /\ new # None
  BY <1>1, <1>3, StreamInputAssumption DEF JobAt, Types
<1>. QED
  BY <1>1, <1>2, <1>3, <1>5, <1>6 DEF EncodeReturns, port

LEMMA SendPacketDoes ==
  ASSUME Types, NEW w \in Worker, SendPacket(w)
  PROVE \E new \in Job :
        /\ new.stream = job[w].stream /\ new.connection = job[w].connection /\ ~new.encoding
        /\ new.frames = Tail(job[w].frames) /\ job[w].frames # <<>> /\ job[w].frames \in Seq(Frame)
        /\ JobAt(w, new) /\ new # None /\ job[w] # None /\ ~job[w].encoding
        /\ wire' = Append(wire, job[w].frames[1])
        /\ UNCHANGED <<stream, streamLock, connected, connection, queue, source, sequence, encoderSync>>
<1>. DEFINE new == [job[w] EXCEPT !.frames = Tail(job[w].frames)]
<1>1. job[w] # None /\ ~job[w].encoding /\ job[w].frames # <<>> /\ job' = [job EXCEPT ![w] = new]
  BY DEF SendPacket, Types
<1>2. job[w] \in Job /\ job[w].frames \in Seq(Frame)
  BY <1>1, InCall
<1>3. Head(job[w].frames) = job[w].frames[1] /\ Tail(job[w].frames) \in Seq(Frame)
  BY <1>1, <1>2
<1>4. /\ new \in Job /\ new.connection = job[w].connection /\ new.stream = job[w].stream /\ ~new.encoding
      /\ new.frames = Tail(job[w].frames)
  BY <1>1, <1>2, <1>3 DEF Job
<1>. HIDE DEF new
<1>6. JobAt(w, new) /\ new # None
  BY <1>1, <1>4, StreamInputAssumption DEF JobAt, Types
<1>7. wire' = Append(wire, job[w].frames[1])
  BY <1>3 DEF SendPacket
<1>. QED
  BY <1>1, <1>2, <1>4, <1>6, <1>7 DEF SendPacket, port, encoder

LEMMA ReceiveReturnsDoes ==
  ASSUME Types, NEW w \in Worker, ReceiveReturns(w)
  PROVE /\ JobAt(w, None) /\ Draining(w) /\ Pending(w) = <<>>
        /\ \A t \in Stream : streamLock'[t] = IF t = job[w].stream THEN None ELSE streamLock[t]
        /\ UNCHANGED <<stream, connected, connection, queue, source, sequence, encoderSync, wire>>
BY DEF ReceiveReturns, JobAt, Types, port, encoder

--------------------------------------------------------------------------------
(* The locks, action by action.                                              *)

Held ==
  /\ \A w \in Worker : job[w] # None => streamLock[job[w].stream] = w
  /\ \A w \in Worker : job[w] # None /\ job[w].encoding =>
       encoderSync[stream[job[w].stream].streamId] = w /\ job[w].frames # <<>>

Busy(s, c) == \E w \in Worker : job[w] # None /\ job[w].stream = s /\ job[w].connection = c

Left ==
  /\ \A s \in Stream : connected[s] => connection[s] >= 1
  /\ \A s \in Stream : \A c \in 1..MaxConnections[s] :
       queue[s][c] # <<>> => (connected[s] /\ c = connection[s]) \/ Busy(s, c)

LEMMA LocksParts == Locks <=> Held /\ Left
BY DEF Locks, Held, Left, Busy

\* One call at a time is in a block, and one in an encoder.
LEMMA OneCall ==
  ASSUME Types, Locks, NEW v \in Worker, NEW w \in Worker, job[v] # None, job[w] # None
  PROVE /\ job[v].stream = job[w].stream => v = w
        /\ job[v].encoding /\ job[w].encoding /\
           stream[job[v].stream].streamId = stream[job[w].stream].streamId => v = w
BY DEF Locks

\* The worker in a call is the one that holds the lock of the block.
LEMMA NotFree ==
  ASSUME Types, Locks, NEW s \in Stream, streamLock[s] = None, NEW w \in Worker, job[w] # None
  PROVE job[w].stream # s
BY StreamInputAssumption DEF Locks

LEMMA LocksInit == ASSUME Init PROVE Locks
<1>1. \A w \in Worker : job[w] = None
  BY DEF Init
<1>2. \A s \in Stream : ~connected[s] /\ \A c \in 1..MaxConnections[s] : queue[s][c] = <<>>
  BY DEF Init
<1>. QED
  BY <1>1, <1>2 DEF Locks

LEMMA HeldStays ==
  ASSUME Types, Held, UNCHANGED <<job, streamLock, encoderSync>>, SameIds
  PROVE Held'
<1>1. \A w \in Worker : job[w] # None => job[w].stream \in Stream
  BY InCall
<1>. QED
  BY <1>1 DEF Held, SameIds

LEMMA LocksOfSignal ==
  ASSUME Types, Locks, NEW s \in Stream, SignalStep(s)
  PROVE Locks'
<1>0. Held /\ Left
  BY LocksParts
<1>1. ASSUME NEW data \in Signals[s], NEW domain \in Domains, Connect(s, data, domain) PROVE Locks'
  <2>1. Held'
    BY <1>0, <1>1, ConnectDoes, HeldStays DEF SameIds
  <2>2. Left'
    <3>1. \A t \in Stream : connected'[t] => connection'[t] >= 1
      BY <1>0, <1>1, ConnectDoes, Bounds DEF Left
    <3>2. ASSUME NEW t \in Stream, NEW c \in 1..MaxConnections[t], queue'[t][c] # <<>>
          PROVE (connected'[t] /\ c = connection'[t]) \/ Busy(t, c)'
      <4>1. CASE t = s /\ c = connection[s] + 1
        BY <1>1, <4>1, ConnectDoes
      <4>2. CASE ~(t = s /\ c = connection[s] + 1)
        <5>1. queue'[t][c] = queue[t][c] /\ job' = job
          BY <1>1, <4>2, ConnectDoes DEF QueueAt
        <5>2. (connected[t] /\ c = connection[t]) \/ Busy(t, c)
          BY <1>0, <3>2, <5>1 DEF Left
        <5>3. t = s => ~connected[t]
          BY <1>1, ConnectDoes
        <5>4. t # s => connected'[t] = connected[t] /\ connection'[t] = connection[t]
          BY <1>1, ConnectDoes
        <5>. QED
          BY <5>1, <5>2, <5>3, <5>4 DEF Busy
      <4>. QED
        BY <4>1, <4>2
    <3>. QED
      BY <3>1, <3>2 DEF Left
  <2>. QED
    BY <2>1, <2>2, LocksParts DEF Locks, Held, Left, Busy
<1>a. ASSUME NEW new, connected[s], UNCHANGED <<connected, connection, job>>, QueueAt(s, connection[s], new)
      PROVE Left'
  <2>1. \A t \in Stream : \A c \in 1..MaxConnections[t] :
          queue'[t][c] = queue[t][c] \/ (connected[t] /\ c = connection[t])
    BY <1>a DEF QueueAt
  <2>. QED
    BY <1>0, <1>a, <2>1 DEF Left, Busy
<1>2. ASSUME NEW data \in Descriptors \cup {None}, NEW domain \in Domains \cup {None},
             ChangeDescriptor(s, data, domain)
      PROVE Locks'
  <2>1. Held'
    BY <1>0, <1>2, ChangeDoes, HeldStays DEF SameIds
  <2>2. Left'
    BY <1>2, <1>a, ChangeDoes
  <2>. QED
    BY <2>1, <2>2, LocksParts DEF Locks, Held, Left, Busy
<1>3. ASSUME NEW length \in Lengths[s], NEW parts \in Parts[s], SendData(s, length, parts) PROVE Locks'
  <2>1. Held'
    BY <1>0, <1>3, SendDataDoes, HeldStays DEF SameIds
  <2>2. Left'
    BY <1>3, <1>a, SendDataDoes
  <2>. QED
    BY <2>1, <2>2, LocksParts DEF Locks, Held, Left, Busy
<1>4. CASE Disconnect(s)
  <2>1. SameIds
    BY <1>4, DisconnectDoes DEF SameIds
  <2>2. Held'
    BY <1>0, <1>4, <2>1, DisconnectDoes, HeldStays
  <2>3. Left'
    <3>1. \A t \in Stream : connected'[t] => connection'[t] >= 1
      BY <1>0, <1>4, DisconnectDoes DEF Left
    <3>2. ASSUME NEW t \in Stream, NEW c \in 1..MaxConnections[t], queue'[t][c] # <<>>
          PROVE (connected'[t] /\ c = connection'[t]) \/ Busy(t, c)'
      <4>0. job' = job /\ connection' = connection
        BY <1>4, DisconnectDoes
      <4>1. CASE t = s /\ c = connection[s]
        <5>1. \E w \in Calls : job[w].stream = s /\ job[w].connection = connection[s]
          BY <1>4, <3>2, <4>1, DisconnectDoes DEF QueueAt
        <5>. QED
          BY <4>0, <4>1, <5>1 DEF Busy, Calls
      <4>2. CASE ~(t = s /\ c = connection[s])
        <5>1. queue'[t][c] = queue[t][c]
          BY <1>4, <4>2, DisconnectDoes DEF QueueAt
        <5>2. (connected[t] /\ c = connection[t]) \/ Busy(t, c)
          BY <1>0, <3>2, <5>1 DEF Left
        <5>3. t # s => connected'[t] = connected[t]
          BY <1>4, DisconnectDoes
        <5>. QED
          BY <4>0, <4>2, <5>2, <5>3 DEF Busy
      <4>. QED
        BY <4>1, <4>2
    <3>. QED
      BY <3>1, <3>2 DEF Left
  <2>. QED
    BY <2>2, <2>3, LocksParts DEF Locks, Held, Left, Busy
<1>5. Signals[s] \subseteq Descriptors \cup {None}
  BY StreamInputAssumption
<1>. QED
  BY <1>1, <1>2, <1>3, <1>4, <1>5 DEF SignalStep

LEMMA LocksOfWrite ==
  ASSUME Types, Locks, NEW s \in Stream, WriteStep(s)
  PROVE Locks'
<1>1. ASSUME NEW type \in PayloadTypes, SetPayloadType(s, type) PROVE Locks'
  <2>1. Held'
    BY <1>1, LocksParts, SetPayloadTypeDoes, HeldStays
  <2>. QED
    BY <1>1, <2>1, SetPayloadTypeDoes DEF Locks, Held
<1>2. ASSUME NEW id \in StreamIds, SetStreamId(s, id) PROVE Locks'
  <2>1. \A w \in Worker : job[w] # None => stream'[job[w].stream] = stream[job[w].stream]
    BY <1>2, SetStreamIdDoes, NotFree, InCall
  <2>. QED
    BY <1>2, <2>1, SetStreamIdDoes DEF Locks
<1>3. Selected[s] \subseteq PayloadTypes
  BY StreamInputAssumption
<1>. QED
  BY <1>1, <1>2, <1>3 DEF WriteStep

\* A worker takes a packet from its connection, or ends its call when none is left.
LEMMA LeftOfWorker ==
  ASSUME Types, Left, NEW w \in Worker, job[w] # None, UNCHANGED <<connected, connection>>,
         queue' = queue \/ QueueAt(job[w].stream, job[w].connection, Tail(Pending(w))),
         \/ job' = job
         \/ \E new \in Job : JobAt(w, new) /\ new # None
              /\ new.stream = job[w].stream /\ new.connection = job[w].connection
  PROVE Left'
<1>1. \A t \in Stream : \A c \in 1..MaxConnections[t] : Busy(t, c) => Busy(t, c)'
  BY DEF Busy, JobAt
<1>2. Busy(job[w].stream, job[w].connection)
  BY DEF Busy
<1>3. \A t \in Stream : \A c \in 1..MaxConnections[t] :
        queue'[t][c] = queue[t][c] \/ (t = job[w].stream /\ c = job[w].connection)
  BY DEF QueueAt
<1>4. \A t \in Stream : \A c \in 1..MaxConnections[t] :
        queue'[t][c] # <<>> => (connected'[t] /\ c = connection'[t]) \/ Busy(t, c)'
  BY <1>1, <1>2, <1>3 DEF Left
<1>. QED
  BY <1>4 DEF Left

LEMMA LocksOfWorker ==
  ASSUME Types, Locks, NEW w \in Worker, WorkerStep(w)
  PROVE Locks'
<1>0. Held /\ Left
  BY LocksParts
<1>a. Locks' <=> Held' /\ Left'
  BY DEF Locks, Held, Left, Busy
<1>b. \A v \in Worker : job[v] # None => job[v].stream \in Stream
  BY InCall
<1>1. ASSUME NEW s \in Stream, ReceiveConnected(w, s) PROVE Locks'
  <2>. PICK new \in Job :
        /\ new.stream = s /\ new.connection = connection[s] /\ ~new.encoding /\ new.frames = <<>>
        /\ JobAt(w, new) /\ new # None /\ job[w] = None
        /\ streamLock[s] = None /\ connected[s] /\ connection[s] \in 1..MaxConnections[s]
        /\ \A t \in Stream : streamLock'[t] = IF t = s THEN w ELSE streamLock[t]
        /\ UNCHANGED <<stream, connected, connection, queue, source, sequence, encoderSync, wire>>
    BY <1>1, ReceiveConnectedDoes
  <2>1. \A v \in Worker : job[v] # None => job[v].stream # s
    BY NotFree
  <2>2. Held'
    BY <1>0, <1>b, <2>1 DEF Held, JobAt
  <2>3. Left'
    BY <1>0 DEF Left, Busy, JobAt
  <2>. QED
    BY <1>a, <2>2, <2>3
<1>2. ASSUME NEW s \in Stream, ReceiveUnconnected(w, s) PROVE Locks'
  BY <1>2 DEF ReceiveUnconnected, Locks, encoder
<1>3. CASE ProcessEventPacket(w)
  <2>. PICK r \in StreamRecord :
        /\ r.streamId = stream[job[w].stream].streamId
        /\ \A t \in Stream : stream'[t] = IF t = job[w].stream THEN r ELSE stream[t]
        /\ Draining(w)
        /\ QueueAt(job[w].stream, job[w].connection, Tail(Pending(w)))
        /\ UNCHANGED <<streamLock, connected, connection, source, job, sequence, encoderSync, wire>>
    BY <1>3, ProcessEventPacketDoes
  <2>1. SameIds
    BY DEF SameIds
  <2>. QED
    BY <1>0, <1>a, <2>1, HeldStays, LeftOfWorker DEF Draining
<1>4. CASE SkipDataPacket(w)
  BY <1>0, <1>4, <1>a, SkipDataPacketDoes, HeldStays, LeftOfWorker DEF Draining, SameIds
<1>5. CASE Encode(w)
  <2>. PICK new \in Job :
        /\ new.stream = job[w].stream /\ new.connection = job[w].connection /\ new.encoding
        /\ new.frames = Frames(job[w].stream, Head(Pending(w)))
        /\ JobAt(w, new) /\ new # None
        /\ encoderSync[stream[job[w].stream].streamId] = None
        /\ \A i \in StreamIds :
             encoderSync'[i] = IF i = stream[job[w].stream].streamId THEN w ELSE encoderSync[i]
        /\ Draining(w) /\ Head(Pending(w)) \in DataPacket
        /\ QueueAt(job[w].stream, job[w].connection, Tail(Pending(w)))
        /\ UNCHANGED <<stream, streamLock, connected, connection, source, sequence, wire>>
    BY <1>5, EncodeDoes
  <2>1. job[w] # None /\ new.frames # <<>>
    BY <1>b, FramesAreFrames DEF Draining
  <2>2. \A v \in Worker : job[v] # None => stream[job[v].stream].streamId \in StreamIds
    BY <1>b DEF Types, StreamRecord
  <2>3. Held'
    <3>1. \A v \in Worker : job'[v] # None => streamLock'[job'[v].stream] = v
      BY <1>0, <2>1 DEF Held, JobAt
    <3>2. \A v \in Worker : job'[v] # None /\ job'[v].encoding =>
            encoderSync'[stream'[job'[v].stream].streamId] = v /\ job'[v].frames # <<>>
      <4>. SUFFICES ASSUME NEW v \in Worker, job'[v] # None, job'[v].encoding
           PROVE encoderSync'[stream'[job'[v].stream].streamId] = v /\ job'[v].frames # <<>>
        OBVIOUS
      <4>1. CASE v = w
        BY <2>1, <2>2, <4>1 DEF JobAt
      <4>2. CASE v # w
        <5>1. job'[v] = job[v] /\ encoderSync[stream[job[v].stream].streamId] = v /\ job[v].frames # <<>>
          BY <1>0, <4>2 DEF Held, JobAt
        <5>2. stream[job[v].stream].streamId # stream[job[w].stream].streamId
          BY <5>1, StreamInputAssumption
        <5>. QED
          BY <2>2, <5>1, <5>2
      <4>. QED
        BY <4>1, <4>2
    <3>. QED
      BY <3>1, <3>2 DEF Held
  <2>4. Left'
    BY <1>0, <2>1, LeftOfWorker
  <2>. QED
    BY <1>a, <2>3, <2>4
<1>6. CASE EncodeReturns(w)
  <2>. PICK new \in Job :
        /\ new.stream = job[w].stream /\ new.connection = job[w].connection /\ ~new.encoding
        /\ JobAt(w, new) /\ new # None /\ job[w] # None /\ job[w].encoding
        /\ \A i \in StreamIds : i # stream[job[w].stream].streamId => encoderSync'[i] = encoderSync[i]
        /\ UNCHANGED <<stream, streamLock, connected, connection, queue, source, wire>>
    BY <1>6, EncodeReturnsDoes
  <2>2. \A v \in Worker : job[v] # None => stream[job[v].stream].streamId \in StreamIds
    BY <1>b DEF Types, StreamRecord
  <2>3. Held'
    <3>1. \A v \in Worker : job'[v] # None => streamLock'[job'[v].stream] = v
      BY <1>0 DEF Held, JobAt
    <3>2. \A v \in Worker : job'[v] # None /\ job'[v].encoding =>
            encoderSync'[stream'[job'[v].stream].streamId] = v /\ job'[v].frames # <<>>
      <4>. SUFFICES ASSUME NEW v \in Worker, job'[v] # None, job'[v].encoding
           PROVE encoderSync'[stream'[job'[v].stream].streamId] = v /\ job'[v].frames # <<>>
        OBVIOUS
      <4>1. v # w /\ job'[v] = job[v]
        BY DEF JobAt
      <4>2. stream[job[v].stream].streamId # stream[job[w].stream].streamId
        BY <4>1, OneCall
      <4>. QED
        BY <1>0, <2>2, <4>1, <4>2 DEF Held
    <3>. QED
      BY <3>1, <3>2 DEF Held
  <2>4. Left'
    BY <1>0, LeftOfWorker
  <2>. QED
    BY <1>a, <2>3, <2>4
<1>7. CASE SendPacket(w)
  <2>. PICK new \in Job :
        /\ new.stream = job[w].stream /\ new.connection = job[w].connection /\ ~new.encoding
        /\ JobAt(w, new) /\ new # None /\ job[w] # None /\ ~job[w].encoding
        /\ UNCHANGED <<stream, streamLock, connected, connection, queue, source, sequence, encoderSync>>
    BY <1>7, SendPacketDoes
  <2>3. Held'
    BY <1>0 DEF Held, JobAt
  <2>4. Left'
    BY <1>0, LeftOfWorker
  <2>. QED
    BY <1>a, <2>3, <2>4
<1>8. CASE ReceiveReturns(w)
  <2>1. /\ JobAt(w, None) /\ Draining(w) /\ Pending(w) = <<>>
        /\ \A t \in Stream : streamLock'[t] = IF t = job[w].stream THEN None ELSE streamLock[t]
        /\ UNCHANGED <<stream, connected, connection, queue, source, sequence, encoderSync, wire>>
    BY <1>8, ReceiveReturnsDoes
  <2>2. \A v \in Worker : job'[v] # None => v # w /\ job'[v] = job[v]
    BY <2>1 DEF JobAt
  <2>3. \A v \in Worker : job'[v] # None => job[v].stream # job[w].stream
    BY <2>1, <2>2, OneCall DEF Draining
  <2>4. Held'
    BY <1>0, <1>b, <2>1, <2>2, <2>3 DEF Held
  <2>5. \A t \in Stream : \A c \in 1..MaxConnections[t] : Busy(t, c) /\ queue[t][c] # <<>> => Busy(t, c)'
    BY <2>1 DEF Busy, JobAt, Pending
  <2>6. Left'
    BY <1>0, <2>1, <2>5 DEF Left
  <2>. QED
    BY <1>a, <2>4, <2>6
<1>. QED
  BY <1>1, <1>2, <1>3, <1>4, <1>5, <1>6, <1>7, <1>8 DEF WorkerStep

--------------------------------------------------------------------------------
(* What statusLoop does.                                                     *)

LEMMA StatusEncodeReturnsDoes ==
  ASSUME Types, StatusInv, StatusEncodeReturns
  PROVE /\ sequence'[1] = sequence[1] + Len(statusLoop.numbers)
        /\ Len(statusLoop.numbers) \in Nat /\ encoderSync[1] = "statusLoop"
        /\ statusLoop.numbers \in Seq(Nat) /\ statusLoop.encoding
        /\ \A k \in 1..Len(statusLoop.numbers) : statusLoop.numbers[k] = sequence[1] + k - 1
        /\ statusLoop' = [encoding |-> FALSE, numbers |-> statusLoop.numbers]
        /\ UNCHANGED <<job, wire, statusWire>>
<1>. DEFINE numbers == statusLoop.numbers
<1>1. /\ statusLoop.encoding /\ encoderSync[1] = "statusLoop" /\ numbers # <<>> /\ numbers \in Seq(Nat)
      /\ \A k \in 1..Len(numbers) : numbers[k] = sequence[1] + k - 1
  BY DEF StatusEncodeReturns, StatusInv, StatusHolds, StatusTypes
<1>2. Head(numbers) = numbers[1] /\ 1 \in 1..Len(numbers) /\ Len(numbers) \in Nat
  BY <1>1
<1>3. sequence[1] \in Nat /\ 1 \in DOMAIN sequence
  BY StreamInputAssumption DEF Types
<1>4. sequence'[1] = Head(numbers) + Len(numbers)
  BY <1>3 DEF StatusEncodeReturns
<1>5. statusLoop' = [encoding |-> FALSE, numbers |-> numbers]
  BY DEF StatusEncodeReturns, StatusInv, StatusTypes
<1>6. UNCHANGED <<job, wire, statusWire>>
  BY DEF StatusEncodeReturns
<1>. HIDE DEF numbers
<1>7. sequence'[1] = sequence[1] + Len(numbers)
  <2>1. numbers[1] = sequence[1] + 1 - 1
    BY <1>1, <1>2 DEF numbers
  <2>. QED
    BY <1>2, <1>3, <1>4, <2>1
<1>. QED
  BY <1>1, <1>2, <1>5, <1>6, <1>7 DEF numbers

\* Of what the workers see statusLoop changes only its encoder, and not while a
\* worker has that.
LEMMA StatusStepDoes ==
  ASSUME Types, StatusInv, StatusStep
  PROVE /\ UNCHANGED <<stream, streamLock, connected, connection, queue, source, callbacks, job, wire>>
        /\ sequence' \in [StreamIds -> Nat]
        /\ encoderSync' \in [StreamIds -> Worker \cup {None, "statusLoop"}]
        /\ \A i \in StreamIds \ {1} : sequence'[i] = sequence[i] /\ encoderSync'[i] = encoderSync[i]
        /\ sequence[1] <= sequence'[1]
        /\ encoderSync[1] \in Worker => sequence'[1] = sequence[1] /\ encoderSync'[1] = encoderSync[1]
<1>0. 1 \in StreamIds /\ sequence[1] \in Nat
  BY StreamInputAssumption DEF Types
<1>1. ASSUME NEW parts \in StatusParts, StatusEncode(parts)
      PROVE /\ UNCHANGED <<stream, streamLock, connected, connection, queue, source, callbacks, job, wire>>
            /\ sequence' = sequence /\ encoderSync[1] = None
            /\ encoderSync' = [encoderSync EXCEPT ![1] = "statusLoop"]
  BY <1>1 DEF StatusEncode, port
<1>2. CASE StatusEncodeReturns
  <2>1. UNCHANGED <<stream, streamLock, connected, connection, queue, source, callbacks, job, wire>>
    BY <1>2 DEF StatusEncodeReturns, port
  <2>2. encoderSync' = [encoderSync EXCEPT ![1] = None]
    BY <1>2 DEF StatusEncodeReturns
  <2>3. sequence'[1] = sequence[1] + Len(statusLoop.numbers) /\ Len(statusLoop.numbers) \in Nat
        /\ encoderSync[1] = "statusLoop"
    BY <1>2, StatusEncodeReturnsDoes
  <2>4. DOMAIN sequence' = StreamIds /\ \A i \in StreamIds \ {1} : sequence'[i] = sequence[i]
    BY <1>2 DEF StatusEncodeReturns, Types
  <2>5. sequence' \in [StreamIds -> Nat]
    <3>1. \E n : sequence' = [sequence EXCEPT ![1] = n]
      BY <1>2 DEF StatusEncodeReturns
    <3>2. PICK n : sequence' = [sequence EXCEPT ![1] = n]
      BY <3>1
    <3>3. n \in Nat
      BY <1>0, <2>3, <3>2 DEF Types
    <3>. QED
      BY <3>2, <3>3 DEF Types
  <2>6. sequence[1] <= sequence'[1]
    BY <1>0, <2>3
  <2>. QED
    BY <1>0, <2>1, <2>2, <2>3, <2>4, <2>5, <2>6, StreamInputAssumption DEF Types
<1>3. CASE StatusSendPacket
  <2>1. UNCHANGED <<stream, streamLock, connected, connection, queue, source, callbacks, job, wire,
                    sequence, encoderSync>>
    BY <1>3 DEF StatusSendPacket, port, encoder
  <2>. QED
    BY <1>0, <2>1 DEF Types
<1>4. ASSUME NEW parts \in StatusParts, StatusEncode(parts)
      PROVE /\ sequence' \in [StreamIds -> Nat] /\ encoderSync' \in [StreamIds -> Worker \cup {None, "statusLoop"}]
            /\ \A i \in StreamIds \ {1} : sequence'[i] = sequence[i] /\ encoderSync'[i] = encoderSync[i]
            /\ sequence[1] <= sequence'[1] /\ encoderSync[1] \notin Worker
  <2>1. /\ sequence' = sequence /\ encoderSync[1] = None
        /\ encoderSync' = [encoderSync EXCEPT ![1] = "statusLoop"]
    BY <1>1, <1>4
  <2>. QED
    BY <1>0, <2>1, StreamInputAssumption DEF Types
<1>. QED
  BY <1>1, <1>2, <1>3, <1>4 DEF StatusStep

LEMMA TypesAndLocksOfStatus ==
  ASSUME Types, Locks, StatusInv, StatusStep
  PROVE Types' /\ Locks'
<1>1. Types'
  BY StatusStepDoes DEF Types
<1>2. ASSUME NEW w \in Worker, job[w] # None, job[w].encoding
      PROVE encoderSync'[stream[job[w].stream].streamId] = w
  <2>1. stream[job[w].stream].streamId \in StreamIds /\ encoderSync[stream[job[w].stream].streamId] = w
    BY <1>2, InCall DEF Locks, StreamRecord
  <2>. QED
    BY <2>1, StatusStepDoes
<1>3. UNCHANGED <<stream, streamLock, connected, connection, queue, job>>
  BY StatusStepDoes
<1>. QED
  BY <1>1, <1>2, <1>3 DEF Locks

LEMMA TypesAndLocksStay == ASSUME Types, Locks, StatusInv, [Next]_vars PROVE Types' /\ Locks'
<1>1. CASE UNCHANGED vars
  BY <1>1 DEF vars, port, encoder, Types, Locks
<1>. QED
  BY <1>1, TypesOfSignal, TypesOfWrite, TypesOfWorker, LocksOfSignal, LocksOfWrite, LocksOfWorker,
     TypesAndLocksOfStatus DEF Next

--------------------------------------------------------------------------------
(* The frames in the hands of the workers, action by action.                 *)

LEMMA FrameOf ==
  ASSUME Types, NEW w \in Worker, job[w] # None, NEW k \in 1..Len(job[w].frames)
  PROVE /\ job[w].frames[k] \in Frame /\ Len(job[w].frames) \in Nat
        /\ job[w].frames[k].sequence \in Nat /\ job[w].frames[k].number \in Nat /\ job[w].frames[k].part \in Nat
        /\ job[w].frames[k].streamId \in StreamIds /\ job[w].frames[k].stream \in Stream
<1>1. job[w].frames \in Seq(Frame)
  BY InCall
<1>2. job[w].frames[k] \in Frame /\ Len(job[w].frames) \in Nat
  BY <1>1
<1>. QED
  BY <1>2 DEF Frame

LEMMA FrameOnWire ==
  ASSUME Types, NEW k \in 1..Len(wire)
  PROVE /\ wire[k] \in Frame /\ wire[k].sequence \in Nat /\ wire[k].number \in Nat /\ wire[k].part \in Nat
        /\ wire[k].streamId \in StreamIds /\ wire[k].stream \in Stream
<1>1. wire[k] \in Frame
  BY DEF Types
<1>. QED
  BY <1>1 DEF Frame

LEMMA IdOf == ASSUME Types, NEW s \in Stream
  PROVE stream[s].streamId \in StreamIds /\ sequence[stream[s].streamId] \in Nat
<1>1. stream[s] \in StreamRecord
  BY DEF Types
<1>. QED
  BY <1>1 DEF Types, StreamRecord

\* The frames of a worker whose job and encoder stay.
LEMMA HandStays ==
  ASSUME Types, NEW v \in Worker, job[v] # None, Hand(v), job'[v] = job[v],
         stream'[job[v].stream].streamId = stream[job[v].stream].streamId,
         sequence'[stream[job[v].stream].streamId] \in Nat,
         job[v].encoding => sequence'[stream[job[v].stream].streamId] = sequence[stream[job[v].stream].streamId],
         sequence'[stream[job[v].stream].streamId] >= sequence[stream[job[v].stream].streamId]
  PROVE Hand(v)'
<1>. DEFINE id == stream[job[v].stream].streamId
<1>1. id \in StreamIds /\ sequence[id] \in Nat /\ \A k \in 1..Len(job[v].frames) : job[v].frames[k].sequence \in Nat
  BY InCall, IdOf, FrameOf
<1>2. OneMessage(job[v].frames, job[v].stream, id) /\ Counted(job[v].frames, job[v].encoding, sequence[id])
  BY DEF Hand
<1>3. Counted(job[v].frames, job[v].encoding, sequence'[id])
  <2>1. CASE job[v].encoding
    BY <1>2, <2>1
  <2>2. CASE ~job[v].encoding
    BY <1>1, <1>2, <2>2 DEF Counted
  <2>. QED
    BY <2>1, <2>2
<1>. QED
  BY <1>2, <1>3 DEF Hand

LEMMA HandsStay ==
  ASSUME Types, HandsOrdered, UNCHANGED <<job, sequence>>,
         \A v \in Worker : job[v] # None => stream'[job[v].stream].streamId = stream[job[v].stream].streamId
  PROVE HandsOrdered'
<1>. SUFFICES ASSUME NEW v \in Worker, job[v] # None PROVE Hand(v)'
  BY DEF HandsOrdered, Calls
<1>1. job[v].stream \in Stream
  BY InCall
<1>2. Hand(v)
  BY DEF HandsOrdered, Calls
<1>. QED
  BY <1>1, <1>2, IdOf, HandStays

LEMMA HandsInit == ASSUME Init PROVE HandsOrdered
BY DEF Init, HandsOrdered, Calls

LEMMA HandsOfSignal ==
  ASSUME Types, Locks, HandsOrdered, NEW s \in Stream, SignalStep(s)
  PROVE HandsOrdered'
<1>0. \A v \in Worker : job[v] # None => job[v].stream \in Stream
  BY InCall
<1>1. ASSUME NEW data \in Signals[s], NEW domain \in Domains, Connect(s, data, domain) PROVE HandsOrdered'
  BY <1>1, ConnectDoes, HandsStay
<1>2. ASSUME NEW data \in Descriptors \cup {None}, NEW domain \in Domains \cup {None},
             ChangeDescriptor(s, data, domain)
      PROVE HandsOrdered'
  BY <1>2, ChangeDoes, HandsStay
<1>3. ASSUME NEW length \in Lengths[s], NEW parts \in Parts[s], SendData(s, length, parts) PROVE HandsOrdered'
  BY <1>3, SendDataDoes, HandsStay
<1>4. CASE Disconnect(s)
  <2>1. \A t \in Stream : stream'[t].streamId = stream[t].streamId
    BY <1>4, DisconnectDoes
  <2>. QED
    BY <1>0, <1>4, <2>1, DisconnectDoes, HandsStay
<1>5. Signals[s] \subseteq Descriptors \cup {None}
  BY StreamInputAssumption
<1>. QED
  BY <1>1, <1>2, <1>3, <1>4, <1>5 DEF SignalStep

LEMMA HandsOfWrite ==
  ASSUME Types, Locks, HandsOrdered, NEW s \in Stream, WriteStep(s)
  PROVE HandsOrdered'
<1>0. \A v \in Worker : job[v] # None => job[v].stream \in Stream
  BY InCall
<1>1. ASSUME NEW type \in PayloadTypes, SetPayloadType(s, type) PROVE HandsOrdered'
  BY <1>0, <1>1, SetPayloadTypeDoes, HandsStay DEF SameIds
<1>2. ASSUME NEW id \in StreamIds, SetStreamId(s, id) PROVE HandsOrdered'
  BY <1>0, <1>2, SetStreamIdDoes, NotFree, HandsStay
<1>3. Selected[s] \subseteq PayloadTypes
  BY StreamInputAssumption
<1>. QED
  BY <1>1, <1>2, <1>3 DEF WriteStep

\* One worker's hands are full of something else, and no counter goes back.
LEMMA HandsAfterJob ==
  ASSUME Types, HandsOrdered, NEW w \in Worker, NEW new, JobAt(w, new), stream' = stream,
         new # None => Hand(w)',
         sequence' \in [StreamIds -> Nat], \A i \in StreamIds : sequence'[i] >= sequence[i],
         \A v \in Worker \ {w} : job[v] # None /\ job[v].encoding =>
           sequence'[stream[job[v].stream].streamId] = sequence[stream[job[v].stream].streamId]
  PROVE HandsOrdered'
<1>. SUFFICES ASSUME NEW v \in Worker, job'[v] # None PROVE Hand(v)'
  BY DEF HandsOrdered, Calls
<1>1. CASE v = w
  BY <1>1 DEF JobAt
<1>2. CASE v # w
  <2>1. job'[v] = job[v] /\ job[v] # None
    BY <1>2 DEF JobAt
  <2>2. job[v].stream \in Stream /\ Hand(v)
    BY <2>1, InCall DEF HandsOrdered, Calls
  <2>3. stream[job[v].stream].streamId \in StreamIds
    BY <2>2, IdOf
  <2>. QED
    BY <1>2, <2>1, <2>2, <2>3, HandStays
<1>. QED
  BY <1>1, <1>2

LEMMA HandsOfWorker ==
  ASSUME Types, Locks, HandsOrdered, NEW w \in Worker, WorkerStep(w)
  PROVE HandsOrdered'
<1>0. \A v \in Worker : job[v] # None => job[v].stream \in Stream
  BY InCall
<1>a. sequence \in [StreamIds -> Nat] /\ \A i \in StreamIds : sequence[i] >= sequence[i]
  BY DEF Types
<1>1. ASSUME NEW s \in Stream, ReceiveConnected(w, s) PROVE HandsOrdered'
  <2>. PICK new \in Job :
        /\ new.frames = <<>> /\ JobAt(w, new) /\ new # None
        /\ UNCHANGED <<stream, sequence>>
    BY <1>1, ReceiveConnectedDoes
  <2>1. Hand(w)'
    BY DEF Hand, OneMessage, Counted, JobAt
  <2>. QED
    BY <1>a, <2>1, HandsAfterJob
<1>2. ASSUME NEW s \in Stream, ReceiveUnconnected(w, s) PROVE HandsOrdered'
  BY <1>2, HandsStay DEF ReceiveUnconnected, encoder
<1>3. CASE ProcessEventPacket(w)
  <2>1. \A t \in Stream : stream'[t].streamId = stream[t].streamId
    BY <1>3, ProcessEventPacketDoes
  <2>. QED
    BY <1>0, <1>3, <2>1, ProcessEventPacketDoes, HandsStay
<1>4. CASE SkipDataPacket(w)
  BY <1>4, SkipDataPacketDoes, HandsStay
<1>5. CASE Encode(w)
  <2>. DEFINE s == job[w].stream
              packet == Head(Pending(w))
  <2>. PICK new \in Job :
        /\ new.stream = s /\ new.encoding /\ new.frames = Frames(s, packet)
        /\ JobAt(w, new) /\ new # None /\ Draining(w) /\ packet \in DataPacket
        /\ UNCHANGED <<stream, sequence>>
    BY <1>5, EncodeDoes
  <2>1. s \in Stream
    BY <1>0 DEF Draining
  <2>3. packet.parts \in Nat /\ sequence[stream[s].streamId] \in Nat /\ job'[w] = new
    BY <2>1, IdOf DEF DataPacket, JobAt
  <2>. HIDE DEF s, packet
  <2>2. /\ Len(new.frames) = packet.parts
        /\ \A k \in 1..packet.parts :
             /\ new.frames[k].stream = s /\ new.frames[k].streamId = stream[s].streamId
             /\ new.frames[k].number = packet.number /\ new.frames[k].part = k
             /\ new.frames[k].sequence = sequence[stream[s].streamId] + k - 1
    <3>1. ASSUME NEW k \in 1..packet.parts
          PROVE /\ new.frames[k].stream = s /\ new.frames[k].streamId = stream[s].streamId
                /\ new.frames[k].number = packet.number /\ new.frames[k].part = k
                /\ new.frames[k].sequence = sequence[stream[s].streamId] + k - 1
      <4>1. new.frames[k] =
              [stream |-> s, streamId |-> stream[s].streamId, sequence |-> sequence[stream[s].streamId] + k - 1,
               payloadType |-> stream[s].payloadType, scaling |-> stream[s].scaling,
               data |-> packet.data, number |-> packet.number, part |-> k, retyped |-> stream[s].retyped]
        BY <2>1, FramesAreFrames
      <4>. QED
        BY <4>1
    <3>2. Len(new.frames) = packet.parts
      BY <2>1, FramesAreFrames
    <3>. QED
      BY <3>1, <3>2
  <2>4. Hand(w)'
    <3>1. ASSUME NEW k \in 1..packet.parts, NEW j \in 1..k - 1
          PROVE /\ new.frames[j].number = new.frames[k].number
                /\ new.frames[j].part < new.frames[k].part
                /\ new.frames[j].sequence < new.frames[k].sequence
      <4>1. j \in 1..packet.parts /\ j < k
        BY <2>3
      <4>2. sequence[stream[s].streamId] + j - 1 < sequence[stream[s].streamId] + k - 1
        BY <2>3
      <4>. QED
        BY <2>2, <4>1, <4>2
    <3>2. OneMessage(new.frames, s, stream[s].streamId)
      BY <2>2, <3>1 DEF OneMessage
    <3>3. Counted(new.frames, new.encoding, sequence[stream[s].streamId])
      BY <2>2 DEF Counted
    <3>. QED
      BY <2>3, <3>2, <3>3 DEF Hand
  <2>. QED
    BY <1>a, <2>4, HandsAfterJob
<1>6. CASE EncodeReturns(w)
  <2>. DEFINE s == job[w].stream
              id == stream[s].streamId
              n == Len(job[w].frames)
  <2>. PICK new \in Job :
        /\ new.stream = s /\ ~new.encoding /\ new.frames = job[w].frames /\ job[w].frames # <<>>
        /\ JobAt(w, new) /\ new # None /\ job[w] # None /\ job[w].encoding
        /\ \A i \in StreamIds :
             IF i = id THEN sequence'[i] = job[w].frames[1].sequence + n ELSE sequence'[i] = sequence[i]
        /\ stream' = stream
    BY <1>6, EncodeReturnsDoes
  <2>1. s \in Stream /\ job[w].frames \in Seq(Frame) /\ n \in Nat /\ 1 \in 1..n
    BY InCall
  <2>2. id \in StreamIds /\ sequence[id] \in Nat
    BY <2>1, IdOf
  <2>3. Hand(w)
    BY DEF HandsOrdered, Calls
  <2>4. job[w].frames[1].sequence = sequence[id]
    BY <2>1, <2>2, <2>3 DEF Hand, OneMessage, Counted
  <2>5. sequence'[id] = sequence[id] + n
    BY <2>2, <2>4
  <2>6. sequence' \in [StreamIds -> Nat]
    BY <1>6, TypesOfWorker DEF Types
  <2>7. \A i \in StreamIds : sequence'[i] >= sequence[i]
    BY <1>a, <2>1, <2>2, <2>5
  <2>8. Hand(w)'
    <3>1. OneMessage(job[w].frames, s, id) /\ Counted(job[w].frames, TRUE, sequence[id])
      BY <2>3 DEF Hand
    <3>2. \A k \in 1..n : sequence[id] + k - 1 < sequence[id] + n
      BY <2>1, <2>2
    <3>3. Counted(job[w].frames, FALSE, sequence'[id])
      BY <2>5, <3>1, <3>2 DEF Counted
    <3>4. job'[w] = new /\ new.encoding = FALSE
      BY DEF JobAt, Job
    <3>. QED
      BY <3>1, <3>3, <3>4 DEF Hand
  <2>9. \A v \in Worker \ {w} : job[v] # None /\ job[v].encoding =>
          sequence'[stream[job[v].stream].streamId] = sequence[stream[job[v].stream].streamId]
    BY <1>0, OneCall, IdOf
  <2>. QED
    BY <2>6, <2>7, <2>8, <2>9, HandsAfterJob
<1>7. CASE SendPacket(w)
  <2>. PICK new \in Job :
        /\ new.stream = job[w].stream /\ ~new.encoding
        /\ new.frames = Tail(job[w].frames) /\ job[w].frames # <<>> /\ job[w].frames \in Seq(Frame)
        /\ JobAt(w, new) /\ new # None /\ job[w] # None /\ ~job[w].encoding
        /\ UNCHANGED <<stream, sequence>>
    BY <1>7, SendPacketDoes
  <2>1. /\ Len(new.frames) = Len(job[w].frames) - 1 /\ Len(job[w].frames) \in Nat
        /\ \A k \in 1..Len(new.frames) : new.frames[k] = job[w].frames[k + 1]
    OBVIOUS
  <2>2. Hand(w)
    BY DEF HandsOrdered, Calls
  <2>3. Hand(w)'
    <3>. DEFINE fs == job[w].frames
                id == stream[job[w].stream].streamId
    <3>1. OneMessage(fs, job[w].stream, id) /\ Counted(fs, job[w].encoding, sequence[id])
      BY <2>2 DEF Hand
    <3>2. new.encoding = job[w].encoding /\ job[w].encoding = FALSE
      BY InCall DEF Job
    <3>. HIDE DEF fs, id
    <3>3. ASSUME NEW k \in 1..Len(new.frames)
          PROVE /\ k + 1 \in 1..Len(fs) /\ new.frames[k] = fs[k + 1]
                /\ \A j \in 1..k - 1 : j + 1 \in 1..(k + 1) - 1 /\ new.frames[j] = fs[j + 1]
      BY <2>1 DEF fs
    <3>4. OneMessage(new.frames, job[w].stream, id)
      BY <3>1, <3>3 DEF OneMessage
    <3>5. Counted(new.frames, new.encoding, sequence[id])
      BY <3>1, <3>2, <3>3 DEF Counted
    <3>6. job'[w] = new
      BY DEF JobAt
    <3>. QED
      BY <3>4, <3>5, <3>6 DEF Hand, id
  <2>. QED
    BY <1>a, <2>3, HandsAfterJob
<1>8. CASE ReceiveReturns(w)
  <2>1. JobAt(w, None) /\ stream' = stream /\ sequence' = sequence
    BY <1>8, ReceiveReturnsDoes
  <2>. QED
    BY <1>a, <2>1, HandsAfterJob
<1>. QED
  BY <1>1, <1>2, <1>3, <1>4, <1>5, <1>6, <1>7, <1>8 DEF WorkerStep

LEMMA HandsOfStatus ==
  ASSUME Types, Locks, HandsOrdered, StatusInv, StatusStep
  PROVE HandsOrdered'
<1>1. job' = job /\ stream' = stream
  BY StatusStepDoes
<1>. SUFFICES ASSUME NEW v \in Worker, job[v] # None PROVE Hand(v)'
  BY <1>1 DEF HandsOrdered, Calls
<1>. DEFINE id == stream[job[v].stream].streamId
<1>2. id \in StreamIds /\ sequence[id] \in Nat
  BY InCall, IdOf
<1>3. sequence'[id] \in Nat /\ sequence'[id] >= sequence[id]
  BY <1>2, StatusStepDoes
<1>4. job[v].encoding => encoderSync[id] = v
  BY DEF Locks
<1>5. job[v].encoding => sequence'[id] = sequence[id]
  BY <1>2, <1>4, StatusStepDoes
<1>6. Hand(v)
  BY DEF HandsOrdered, Calls
<1>. QED
  BY <1>1, <1>3, <1>5, <1>6, HandStays

LEMMA HandsOrderedStays == ASSUME Types, Locks, HandsOrdered, StatusInv, [Next]_vars PROVE HandsOrdered'
<1>1. CASE UNCHANGED vars
  BY <1>1, HandsStay DEF vars, encoder
<1>. QED
  BY <1>1, HandsOfSignal, HandsOfWrite, HandsOfWorker, HandsOfStatus DEF Next

--------------------------------------------------------------------------------
(* The sequence numbers, action by action.                                   *)

LEMMA UnsentFrames ==
  ASSUME Types, HandsOrdered, NEW w \in Worker
  PROVE /\ Unsent(w) \in Seq(Frame) /\ Len(Unsent(w)) \in Nat
        /\ \A k \in 1..Len(Unsent(w)) :
             /\ Unsent(w)[k].streamId \in StreamIds /\ Unsent(w)[k].sequence \in Nat
             /\ Unsent(w)[k].sequence < sequence[Unsent(w)[k].streamId]
<1>1. CASE job[w] = None \/ job[w].encoding
  <2>1. Unsent(w) = <<>>
    BY <1>1 DEF Unsent
  <2>. QED
    BY <2>1
<1>2. CASE job[w] # None /\ ~job[w].encoding
  <2>1. Unsent(w) = job[w].frames /\ job[w].frames \in Seq(Frame) /\ Hand(w)
    BY <1>2, InCall DEF Unsent, HandsOrdered, Calls
  <2>. QED
    BY <1>2, <2>1, FrameOf DEF Hand, OneMessage, Counted
<1>. QED
  BY <1>1, <1>2

LEMMA NumberInit == ASSUME Init PROVE NumberInv
<1>1. wire = <<>> /\ \A w \in Worker : job[w] = None
  BY DEF Init
<1>2. \A w \in Worker : Unsent(w) = <<>>
  BY <1>1 DEF Unsent
<1>3. Len(<<>>) = 0 /\ \A id \in StreamIds : sequence[id] = 0
  BY DEF Init
<1>4. WireOnce
  BY <1>1, <1>3 DEF WireOnce
<1>5. NoneLost
  BY <1>3 DEF NoneLost
<1>. QED
  BY <1>1, <1>2, <1>3, <1>4, <1>5 DEF NumberInv

\* Steps that leave the counters, the wire and what is to be sent.
LEMMA NumbersStay ==
  ASSUME NumberInv, wire' = wire, sequence' = sequence, \A w \in Worker : Unsent(w)' = Unsent(w),
         StatusNumbers' = StatusNumbers
  PROVE NumberInv'
<1>1. WireOnce'
  BY DEF NumberInv, WireOnce
<1>2. NoneLost'
  BY DEF NumberInv, NoneLost, Carries
<1>. QED
  BY <1>1, <1>2 DEF NumberInv

\* Only statusLoop itself changes what it has in its hands.
LEMMA StatusThreadStays ==
  ASSUME \/ \E s \in Stream : SignalStep(s) \/ WriteStep(s)
         \/ \E w \in Worker : WorkerStep(w)
  PROVE UNCHANGED <<statusLoop, statusWire>> /\ StatusNumbers' = StatusNumbers
<1>1. ASSUME NEW s \in Stream, SignalStep(s) PROVE UNCHANGED <<statusLoop, statusWire>>
  BY <1>1 DEF SignalStep, Connect, ChangeDescriptor, SendData, Disconnect, statusThread
<1>2. ASSUME NEW s \in Stream, WriteStep(s) PROVE UNCHANGED <<statusLoop, statusWire>>
  BY <1>2 DEF WriteStep, SetPayloadType, SetStreamId, statusThread
<1>3. ASSUME NEW w \in Worker, WorkerStep(w) PROVE UNCHANGED <<statusLoop, statusWire>>
  BY <1>3 DEF WorkerStep, ReceiveConnected, ReceiveUnconnected, ProcessEventPacket, SkipDataPacket,
              Encode, EncodeReturns, SendPacket, ReceiveReturns, statusThread
<1>. QED
  BY <1>1, <1>2, <1>3 DEF StatusNumbers, StatusUnsent

\* The encoder returns: the frames of worker w have the numbers it has counted.
LEMMA NumbersOfEncodeReturns ==
  ASSUME Types, Types', Locks, HandsOrdered, NumberInv, NEW w \in Worker, EncodeReturns(w)
  PROVE NumberInv'
<1>. DEFINE s == job[w].stream
            id == stream[s].streamId
            fs == job[w].frames
            n == Len(fs)
<1>. PICK new \in Job :
      /\ ~new.encoding /\ new.frames = fs /\ fs # <<>>
      /\ JobAt(w, new) /\ new # None /\ job[w] # None /\ job[w].encoding
      /\ \A i \in StreamIds : IF i = id THEN sequence'[i] = fs[1].sequence + n ELSE sequence'[i] = sequence[i]
      /\ wire' = wire
  BY EncodeReturnsDoes
<1>1. s \in Stream /\ fs \in Seq(Frame) /\ n \in Nat /\ 1 \in 1..n
  BY InCall
<1>2. id \in StreamIds /\ sequence[id] \in Nat
  BY <1>1, IdOf
<1>3. \A k \in 1..n : fs[k].streamId = id /\ fs[k].sequence = sequence[id] + k - 1
  BY DEF HandsOrdered, Calls, Hand, OneMessage, Counted
<1>4. sequence'[id] = sequence[id] + n
  <2>1. fs[1].sequence = sequence[id] + 1 - 1
    BY <1>1, <1>3
  <2>2. sequence'[id] = fs[1].sequence + n
    BY <1>2
  <2>. HIDE DEF fs, id, n
  <2>. QED
    BY <1>2, <2>1, <2>2
<1>5. Unsent(w) = <<>> /\ Unsent(w)' = fs
  BY DEF Unsent, JobAt
<1>6. \A v \in Worker \ {w} : Unsent(v)' = Unsent(v)
  BY DEF Unsent, JobAt
<1>7. \A i \in StreamIds : sequence[i] \in Nat /\ sequence'[i] \in Nat /\ sequence[i] <= sequence'[i]
  <2>1. \A i \in StreamIds : sequence[i] \in Nat /\ sequence'[i] \in Nat
    BY DEF Types
  <2>2. \A i \in StreamIds : i # id => sequence'[i] = sequence[i]
    OBVIOUS
  <2>. HIDE DEF id, n
  <2>. QED
    BY <1>1, <1>2, <1>4, <2>1, <2>2
<1>8. \A j \in 1..Len(wire) : wire[j].sequence \in Nat /\ wire[j].streamId \in StreamIds
                                /\ wire[j].sequence < sequence[wire[j].streamId]
  BY FrameOnWire DEF NumberInv
<1>. HIDE DEF s, id, fs, n
<1>9. \A k \in 1..n : \A j \in 1..Len(wire) : ~SameNumber(wire[j], fs[k])
  <2>. SUFFICES ASSUME NEW k \in 1..n, NEW j \in 1..Len(wire), wire[j].streamId = fs[k].streamId,
                       wire[j].sequence = fs[k].sequence PROVE FALSE
    BY DEF SameNumber
  <2>. QED
    BY <1>1, <1>2, <1>3, <1>8
<1>10. \A v \in Worker : \A k \in 1..n, j \in 1..Len(Unsent(v)) :
         ~SameNumber(Unsent(v)[j], fs[k]) /\ ~SameNumber(fs[k], Unsent(v)[j])
  <2>. SUFFICES ASSUME NEW v \in Worker, NEW k \in 1..n, NEW j \in 1..Len(Unsent(v)),
                       Unsent(v)[j].streamId = fs[k].streamId, Unsent(v)[j].sequence = fs[k].sequence PROVE FALSE
    BY DEF SameNumber
  <2>1. Unsent(v)[j].sequence \in Nat /\ Unsent(v)[j].sequence < sequence[Unsent(v)[j].streamId]
    BY UnsentFrames
  <2>. QED
    BY <1>1, <1>2, <1>3, <2>1
<1>11. \A k \in 1..Len(wire') : wire'[k].sequence < sequence'[wire'[k].streamId]
  BY <1>7, <1>8
<1>12. ASSUME NEW v \in Worker, NEW k \in 1..Len(Unsent(v)')
       PROVE /\ \A j \in 1..Len(wire') : ~SameNumber(wire'[j], Unsent(v)'[k])
             /\ \A u \in Worker \ {v} : \A j \in 1..Len(Unsent(u)') : ~SameNumber(Unsent(u)'[j], Unsent(v)'[k])
  <2>1. CASE v = w
    BY <1>5, <1>6, <1>9, <1>10, <1>12, <2>1 DEF n
  <2>2. CASE v # w
    <3>1. Unsent(v)' = Unsent(v) /\ k \in 1..Len(Unsent(v))
      BY <1>6, <1>12, <2>2
    <3>2. \A j \in 1..Len(wire') : ~SameNumber(wire'[j], Unsent(v)'[k])
      BY <3>1 DEF NumberInv
    <3>3. ASSUME NEW u \in Worker \ {v}, NEW j \in 1..Len(Unsent(u)')
          PROVE ~SameNumber(Unsent(u)'[j], Unsent(v)'[k])
      <4>1. CASE u = w
        BY <1>5, <1>10, <3>1, <3>3, <4>1 DEF n
      <4>2. CASE u # w
        BY <1>6, <3>1, <3>3, <4>2 DEF NumberInv
      <4>. QED
        BY <4>1, <4>2
    <3>. QED
      BY <3>2, <3>3
  <2>. QED
    BY <2>1, <2>2
<1>13. NoneLost'
  <2>0. StatusNumbers' = StatusNumbers
    BY StatusThreadStays DEF WorkerStep
  <2>. SUFFICES ASSUME NEW i \in StreamIds, NEW m \in 0..sequence'[i] - 1
       PROVE \/ Carries(wire', i, m) \/ \E v \in Worker : Carries(Unsent(v)', i, m)
             \/ i = 1 /\ m \in StatusNumbers
    BY <2>0 DEF NoneLost, Carries
  <2>1. CASE m \in 0..sequence[i] - 1
    <3>1. \/ Carries(wire, i, m) \/ \E v \in Worker : Carries(Unsent(v), i, m)
          \/ i = 1 /\ m \in StatusNumbers
      BY <2>1 DEF NumberInv, NoneLost
    <3>2. ~Carries(<<>>, i, m)
      BY DEF Carries
    <3>. QED
      BY <1>5, <1>6, <3>1, <3>2
  <2>2. CASE ~(m \in 0..sequence[i] - 1)
    <3>1. i = id
      BY <1>7, <2>2
    <3>2. m - sequence[id] + 1 \in 1..n
      BY <1>1, <1>2, <1>4, <2>2, <3>1
    <3>3. fs[m - sequence[id] + 1].streamId = i /\ fs[m - sequence[id] + 1].sequence = m
      BY <1>2, <1>3, <3>1, <3>2
    <3>4. Carries(fs, i, m)
      BY <3>2, <3>3 DEF Carries, n
    <3>. QED
      BY <1>5, <3>4
  <2>. QED
    BY <2>1, <2>2
<1>14. WireOnce'
  BY DEF NumberInv, WireOnce
<1>. QED
  BY <1>11, <1>12, <1>13, <1>14 DEF NumberInv

\* A frame goes from the hands of its worker to the wire.
LEMMA NumbersOfSendPacket ==
  ASSUME Types, Types', Locks, HandsOrdered, NumberInv, NEW w \in Worker, SendPacket(w)
  PROVE NumberInv'
<1>. DEFINE fs == job[w].frames
            f == fs[1]
            L == Len(wire)
<1>. PICK new \in Job :
      /\ ~new.encoding /\ new.frames = Tail(fs) /\ fs # <<>> /\ fs \in Seq(Frame)
      /\ JobAt(w, new) /\ new # None /\ job[w] # None /\ ~job[w].encoding
      /\ wire' = Append(wire, f) /\ sequence' = sequence
  BY SendPacketDoes
<1>1. /\ Unsent(w) = fs /\ Unsent(w)' = Tail(fs)
      /\ \A v \in Worker \ {w} : Unsent(v)' = Unsent(v)
  BY DEF Unsent, JobAt
<1>2. /\ Len(fs) \in Nat /\ 1 \in 1..Len(fs) /\ Len(Tail(fs)) = Len(fs) - 1
      /\ \A k \in 1..Len(Tail(fs)) : k + 1 \in 1..Len(fs) /\ Tail(fs)[k] = fs[k + 1]
  OBVIOUS
<1>3. /\ L \in Nat /\ Len(wire') = L + 1 /\ wire'[L + 1] = f
      /\ \A k \in 1..L : k \in 1..L + 1 /\ wire'[k] = wire[k]
  BY DEF Types
<1>4. f.sequence < sequence[f.streamId]
  BY <1>1, <1>2, UnsentFrames
<1>5. \A k \in 1..Len(Tail(fs)) : ~SameNumber(f, Tail(fs)[k])
  <2>. TAKE k \in 1..Len(Tail(fs))
  <2>1. Hand(w) /\ k + 1 \in 1..Len(fs) /\ 1 \in 1..(k + 1) - 1
    BY <1>2 DEF HandsOrdered, Calls
  <2>2. f.sequence < fs[k + 1].sequence
    BY <2>1 DEF Hand, OneMessage, Counted
  <2>3. f.sequence \in Nat /\ fs[k + 1].sequence \in Nat
    BY <1>2, <2>1, FrameOf
  <2>. QED
    BY <1>2, <2>2, <2>3 DEF SameNumber
<1>. HIDE DEF fs, f, L
<1>6. \A k \in 1..L : ~SameNumber(wire[k], f)
  BY <1>1, <1>2 DEF NumberInv, f, L
<1>7. \A v \in Worker \ {w} : \A k \in 1..Len(Unsent(v)) :
        /\ \A j \in 1..Len(fs) : ~SameNumber(fs[j], Unsent(v)[k]) /\ ~SameNumber(Unsent(v)[k], fs[j])
  BY <1>1 DEF NumberInv
<1>8. \A k \in 1..Len(wire') : wire'[k].sequence < sequence'[wire'[k].streamId]
  <2>. TAKE k \in 1..Len(wire')
  <2>1. k \in 1..L \/ k = L + 1
    BY <1>3
  <2>. QED
    BY <1>3, <1>4, <2>1 DEF NumberInv, L
<1>9. ASSUME NEW v \in Worker, NEW k \in 1..Len(Unsent(v)')
      PROVE /\ \A j \in 1..Len(wire') : ~SameNumber(wire'[j], Unsent(v)'[k])
            /\ \A u \in Worker \ {v} : \A j \in 1..Len(Unsent(u)') : ~SameNumber(Unsent(u)'[j], Unsent(v)'[k])
  <2>1. \A j \in 1..Len(wire') : j \in 1..L \/ j = L + 1
    BY <1>3
  <2>2. CASE v = w
    <3>1. k \in 1..Len(Tail(fs)) /\ k + 1 \in 1..Len(fs) /\ Unsent(v)'[k] = fs[k + 1]
      BY <1>1, <1>2, <1>9, <2>2
    <3>2. \A j \in 1..L : ~SameNumber(wire'[j], fs[k + 1])
      BY <1>1, <1>3, <3>1 DEF NumberInv, L
    <3>3. ~SameNumber(wire'[L + 1], fs[k + 1])
      BY <1>2, <1>3, <1>5, <3>1
    <3>. QED
      BY <1>1, <1>7, <2>1, <2>2, <3>1, <3>2, <3>3
  <2>3. CASE v # w
    <3>1. Unsent(v)' = Unsent(v) /\ k \in 1..Len(Unsent(v))
      BY <1>1, <1>9, <2>3
    <3>2. \A j \in 1..L : ~SameNumber(wire'[j], Unsent(v)'[k])
      BY <1>3, <3>1 DEF NumberInv, L
    <3>3. ~SameNumber(wire'[L + 1], Unsent(v)'[k])
      BY <1>2, <1>3, <1>7, <2>3, <3>1 DEF f
    <3>4. ASSUME NEW u \in Worker \ {v}, NEW j \in 1..Len(Unsent(u)')
          PROVE ~SameNumber(Unsent(u)'[j], Unsent(v)'[k])
      <4>1. CASE u = w
        <5>1. j + 1 \in 1..Len(fs) /\ Unsent(u)'[j] = fs[j + 1]
          BY <1>1, <1>2, <3>4, <4>1
        <5>. QED
          BY <1>7, <2>3, <3>1, <5>1
      <4>2. CASE u # w
        BY <1>1, <3>1, <3>4, <4>2 DEF NumberInv
      <4>. QED
        BY <4>1, <4>2
    <3>. QED
      BY <2>1, <3>2, <3>3, <3>4
  <2>. QED
    BY <2>2, <2>3
<1>10. NoneLost'
  <2>0. StatusNumbers' = StatusNumbers
    BY StatusThreadStays DEF WorkerStep
  <2>. SUFFICES ASSUME NEW i \in StreamIds, NEW m \in 0..sequence[i] - 1
       PROVE \/ Carries(wire', i, m) \/ \E v \in Worker : Carries(Unsent(v)', i, m)
             \/ i = 1 /\ m \in StatusNumbers
    BY <2>0 DEF NoneLost, Carries
  <2>1. \/ Carries(wire, i, m) \/ \E v \in Worker : Carries(Unsent(v), i, m)
        \/ i = 1 /\ m \in StatusNumbers
    BY DEF NumberInv, NoneLost
  <2>2. CASE Carries(wire, i, m)
    BY <1>3, <2>2 DEF Carries, L
  <2>3. ASSUME NEW v \in Worker \ {w}, Carries(Unsent(v), i, m) PROVE Carries(Unsent(v)', i, m)
    BY <1>1, <2>3
  <2>4. CASE Carries(fs, i, m)
    <3>. PICK k \in 1..Len(fs) : fs[k].streamId = i /\ fs[k].sequence = m
      BY <2>4 DEF Carries
    <3>1. CASE k = 1
      <4>1. L + 1 \in 1..Len(wire') /\ wire'[L + 1].streamId = i /\ wire'[L + 1].sequence = m
        BY <1>3, <3>1 DEF f
      <4>. QED
        BY <4>1 DEF Carries
    <3>2. CASE k # 1
      <4>1. k - 1 \in 1..Len(Tail(fs)) /\ (k - 1) + 1 = k
        BY <1>2, <3>2
      <4>2. Tail(fs)[k - 1] = fs[k]
        BY <1>2, <4>1
      <4>. QED
        BY <1>1, <4>1, <4>2 DEF Carries
    <3>. QED
      BY <3>1, <3>2
  <2>. QED
    BY <1>1, <2>1, <2>2, <2>3, <2>4
<1>11. WireOnce'
  <2>. SUFFICES ASSUME NEW j \in 1..L + 1, NEW k \in 1..L + 1, SameNumber(wire'[j], wire'[k]) PROVE j = k
    BY <1>3 DEF WireOnce
  <2>1. (j \in 1..L \/ j = L + 1) /\ (k \in 1..L \/ k = L + 1)
    BY <1>3
  <2>2. CASE j \in 1..L /\ k \in 1..L
    BY <1>3, <2>2 DEF NumberInv, WireOnce, L
  <2>3. CASE j \in 1..L /\ k = L + 1
    BY <1>3, <1>6, <2>3
  <2>4. CASE j = L + 1 /\ k \in 1..L
    BY <1>3, <1>6, <2>4 DEF SameNumber
  <2>. QED
    BY <2>1, <2>2, <2>3, <2>4
<1>. QED
  BY <1>8, <1>9, <1>10, <1>11 DEF NumberInv

\* The numbers of a status packet go from the encoder to the hands of statusLoop and
\* from there to the wire.
LEMMA NumbersOfStatusLoop ==
  ASSUME StatusTypes,
         \/ statusLoop = Waits /\ statusLoop'.encoding /\ statusWire' = statusWire
         \/ StatusSendPacket
  PROVE StatusNumbers' = StatusNumbers
<1>1. CASE statusLoop = Waits /\ statusLoop'.encoding /\ statusWire' = statusWire
  BY <1>1 DEF StatusNumbers, StatusUnsent, Waits
<1>2. CASE StatusSendPacket
  <2>. DEFINE numbers == statusLoop.numbers
  <2>1. /\ numbers \in Seq(Nat) /\ numbers # <<>> /\ statusWire \in Seq(Nat)
        /\ statusLoop' = [encoding |-> FALSE, numbers |-> Tail(numbers)] /\ ~statusLoop.encoding
        /\ statusWire' = Append(statusWire, Head(numbers))
    BY <1>2 DEF StatusSendPacket, StatusTypes
  <2>2. StatusUnsent = numbers /\ StatusUnsent' = Tail(numbers)
    BY <2>1 DEF StatusUnsent
  <2>. HIDE DEF numbers
  <2>3. /\ {numbers[k] : k \in 1..Len(numbers)} =
             {Head(numbers)} \cup {Tail(numbers)[k] : k \in 1..Len(Tail(numbers))}
        /\ {statusWire'[k] : k \in 1..Len(statusWire')} =
             {statusWire[k] : k \in 1..Len(statusWire)} \cup {Head(numbers)}
    <3>1. /\ Len(numbers) \in Nat /\ 1 \in 1..Len(numbers) /\ Head(numbers) = numbers[1]
          /\ Len(Tail(numbers)) = Len(numbers) - 1
          /\ \A k \in 1..Len(numbers) - 1 : Tail(numbers)[k] = numbers[k + 1]
      BY <2>1
    <3>2. \A k \in 1..Len(numbers) : k = 1 \/ (k - 1 \in 1..Len(numbers) - 1 /\ Tail(numbers)[k - 1] = numbers[k])
      BY <3>1
    <3>3. {numbers[k] : k \in 1..Len(numbers)} =
             {Head(numbers)} \cup {Tail(numbers)[k] : k \in 1..Len(Tail(numbers))}
      <4>1. ASSUME NEW k \in 1..Len(numbers)
            PROVE numbers[k] \in {Head(numbers)} \cup {Tail(numbers)[i] : i \in 1..Len(Tail(numbers))}
        BY <3>1, <3>2
      <4>2. ASSUME NEW i \in 1..Len(Tail(numbers)) PROVE Tail(numbers)[i] \in {numbers[k] : k \in 1..Len(numbers)}
        BY <3>1
      <4>. QED
        BY <3>1, <4>1, <4>2
    <3>4. /\ Len(statusWire) \in Nat /\ Len(statusWire') = Len(statusWire) + 1
          /\ statusWire'[Len(statusWire) + 1] = Head(numbers)
          /\ \A k \in 1..Len(statusWire) : statusWire'[k] = statusWire[k]
      BY <2>1
    <3>5. \A k \in 1..Len(statusWire) + 1 : k \in 1..Len(statusWire) \/ k = Len(statusWire) + 1
      BY <3>4
    <3>6. {statusWire'[k] : k \in 1..Len(statusWire')} =
             {statusWire[k] : k \in 1..Len(statusWire)} \cup {Head(numbers)}
      <4>1. ASSUME NEW k \in 1..Len(statusWire')
            PROVE statusWire'[k] \in {statusWire[i] : i \in 1..Len(statusWire)} \cup {Head(numbers)}
        BY <3>4, <3>5
      <4>2. ASSUME NEW k \in 1..Len(statusWire) PROVE statusWire[k] \in {statusWire'[i] : i \in 1..Len(statusWire')}
        BY <3>4
      <4>3. Head(numbers) \in {statusWire'[i] : i \in 1..Len(statusWire')}
        BY <3>4
      <4>. QED
        BY <4>1, <4>2, <4>3
    <3>. QED
      BY <3>3, <3>6
  <2>4. StatusNumbers = {statusWire[k] : k \in 1..Len(statusWire)} \cup {numbers[k] : k \in 1..Len(numbers)}
    BY <2>2 DEF StatusNumbers
  <2>5. StatusNumbers' = {statusWire'[k] : k \in 1..Len(statusWire')}
                           \cup {Tail(numbers)[k] : k \in 1..Len(Tail(numbers))}
    BY <2>2 DEF StatusNumbers
  <2>. QED
    BY <2>3, <2>4, <2>5
<1>. QED
  BY <1>1, <1>2

\* When the encoder of statusLoop returns, its numbers are counted too.
LEMMA NumbersOfStatusEncoder ==
  ASSUME Types, StatusInv, StatusEncodeReturns
  PROVE StatusNumbers' = StatusNumbers \cup {statusLoop.numbers[k] : k \in 1..Len(statusLoop.numbers)}
<1>1. /\ statusLoop.encoding /\ ~statusLoop'.encoding /\ statusLoop'.numbers = statusLoop.numbers
      /\ statusWire' = statusWire
  BY StatusEncodeReturnsDoes
<1>2. StatusUnsent = <<>> /\ StatusUnsent' = statusLoop.numbers
  BY <1>1 DEF StatusUnsent
<1>3. {StatusUnsent[k] : k \in 1..Len(StatusUnsent)} = {}
  BY <1>2
<1>. QED
  BY <1>1, <1>2, <1>3 DEF StatusNumbers

LEMMA NumbersOfStatus ==
  ASSUME Types, Types', NumberInv, StatusInv, StatusStep
  PROVE NumberInv'
<1>1. wire' = wire /\ \A w \in Worker : Unsent(w)' = Unsent(w)
  BY StatusStepDoes DEF Unsent
<1>2. ASSUME NEW parts \in StatusParts, StatusEncode(parts) PROVE NumberInv'
  <2>1. sequence' = sequence /\ statusLoop = Waits /\ statusLoop'.encoding /\ statusWire' = statusWire
    BY <1>2 DEF StatusEncode
  <2>. QED
    BY <1>1, <2>1, NumbersOfStatusLoop, NumbersStay DEF StatusInv
<1>3. CASE StatusSendPacket
  <2>1. sequence' = sequence
    BY <1>3 DEF StatusSendPacket, encoder
  <2>. QED
    BY <1>1, <1>3, <2>1, NumbersOfStatusLoop, NumbersStay DEF StatusInv
<1>4. CASE StatusEncodeReturns
  <2>. DEFINE numbers == statusLoop.numbers
  <2>1. /\ sequence'[1] = sequence[1] + Len(numbers) /\ Len(numbers) \in Nat
        /\ \A k \in 1..Len(numbers) : numbers[k] = sequence[1] + k - 1
    BY <1>4, StatusEncodeReturnsDoes
  <2>2. /\ \A i \in StreamIds \ {1} : sequence'[i] = sequence[i]
        /\ \A i \in StreamIds : sequence[i] \in Nat /\ sequence'[i] \in Nat
        /\ 1 \in StreamIds /\ sequence[1] \in Nat
    BY StatusStepDoes, StreamInputAssumption DEF Types
  <2>3. StatusNumbers' = StatusNumbers \cup {numbers[k] : k \in 1..Len(numbers)}
    BY <1>4, NumbersOfStatusEncoder
  <2>. HIDE DEF numbers
  <2>4. \A i \in StreamIds : sequence[i] <= sequence'[i]
    BY <2>1, <2>2
  <2>5. \A k \in 1..Len(wire') : wire'[k].sequence < sequence'[wire'[k].streamId]
    <3>. SUFFICES ASSUME NEW k \in 1..Len(wire) PROVE wire[k].sequence < sequence'[wire[k].streamId]
      BY <1>1
    <3>1. wire[k].sequence \in Nat /\ wire[k].streamId \in StreamIds
      BY FrameOnWire
    <3>2. wire[k].sequence < sequence[wire[k].streamId]
      BY DEF NumberInv
    <3>. QED
      BY <2>2, <2>4, <3>1, <3>2
  <2>6. NoneLost'
    <3>. SUFFICES ASSUME NEW i \in StreamIds, NEW m \in 0..sequence'[i] - 1
         PROVE \/ Carries(wire, i, m) \/ \E w \in Worker : Carries(Unsent(w), i, m)
               \/ i = 1 /\ m \in StatusNumbers'
      BY <1>1 DEF NoneLost, Carries
    <3>1. CASE m \in 0..sequence[i] - 1
      BY <2>3, <3>1 DEF NumberInv, NoneLost
    <3>2. CASE ~(m \in 0..sequence[i] - 1)
      <4>1. i = 1
        BY <2>2, <3>2
      <4>2. m - sequence[1] + 1 \in 1..Len(numbers) /\ numbers[m - sequence[1] + 1] = m
        <5>1. m \in Nat /\ m >= sequence[1] /\ m < sequence[1] + Len(numbers)
          BY <2>1, <2>2, <3>2, <4>1
        <5>2. m - sequence[1] + 1 \in 1..Len(numbers)
          BY <2>1, <2>2, <5>1
        <5>3. numbers[m - sequence[1] + 1] = sequence[1] + (m - sequence[1] + 1) - 1
          BY <2>1, <5>2
        <5>. QED
          BY <2>2, <5>1, <5>2, <5>3
      <4>. QED
        BY <2>3, <4>1, <4>2
    <3>. QED
      BY <3>1, <3>2
  <2>7. WireOnce'
    BY <1>1 DEF NumberInv, WireOnce
  <2>8. ASSUME NEW w \in Worker, NEW k \in 1..Len(Unsent(w)')
        PROVE /\ \A j \in 1..Len(wire') : ~SameNumber(wire'[j], Unsent(w)'[k])
              /\ \A v \in Worker \ {w} : \A j \in 1..Len(Unsent(v)') : ~SameNumber(Unsent(v)'[j], Unsent(w)'[k])
    BY <1>1, <2>8 DEF NumberInv
  <2>. QED
    BY <2>5, <2>6, <2>7, <2>8 DEF NumberInv
<1>. QED
  BY <1>2, <1>3, <1>4 DEF StatusStep

LEMMA NumberStays ==
  ASSUME Types, Types', Locks, HandsOrdered, NumberInv, StatusInv, [Next]_vars
  PROVE NumberInv'
<1>a. ASSUME UNCHANGED <<job, wire, sequence>>, StatusNumbers' = StatusNumbers PROVE NumberInv'
  BY <1>a, NumbersStay DEF Unsent
<1>b. ASSUME NEW w \in Worker, NEW new, JobAt(w, new), UNCHANGED <<wire, sequence>>, Unsent(w) = <<>>,
             new = None \/ new.encoding \/ new.frames = <<>>, StatusNumbers' = StatusNumbers
      PROVE NumberInv'
  <2>1. Unsent(w)' = <<>> /\ \A v \in Worker \ {w} : Unsent(v)' = Unsent(v)
    BY <1>b DEF Unsent, JobAt
  <2>. QED
    BY <1>b, <2>1, NumbersStay
<1>1. CASE UNCHANGED vars
  BY <1>1, <1>a DEF vars, encoder, statusThread, StatusNumbers, StatusUnsent
<1>2. ASSUME NEW s \in Stream, SignalStep(s) PROVE NumberInv'
  BY <1>2, <1>a, StatusThreadStays DEF SignalStep, Connect, ChangeDescriptor, SendData, Disconnect, encoder
<1>3. ASSUME NEW s \in Stream, WriteStep(s) PROVE NumberInv'
  BY <1>3, <1>a, StatusThreadStays DEF WriteStep, SetPayloadType, SetStreamId, encoder
<1>4. ASSUME NEW w \in Worker, WorkerStep(w) PROVE NumberInv'
  <2>0. StatusNumbers' = StatusNumbers
    BY <1>4, StatusThreadStays
  <2>1. ASSUME NEW s \in Stream, ReceiveConnected(w, s) PROVE NumberInv'
    BY <2>0, <2>1, <1>b, ReceiveConnectedDoes DEF Unsent
  <2>2. ASSUME NEW s \in Stream, ReceiveUnconnected(w, s) PROVE NumberInv'
    BY <2>0, <2>2, <1>a DEF ReceiveUnconnected, encoder
  <2>3. CASE ProcessEventPacket(w)
    BY <2>0, <2>3, <1>a, ProcessEventPacketDoes
  <2>4. CASE SkipDataPacket(w)
    BY <2>0, <2>4, <1>a, SkipDataPacketDoes
  <2>5. CASE Encode(w)
    BY <2>0, <2>5, <1>b, EncodeDoes DEF Unsent, Draining
  <2>6. CASE ReceiveReturns(w)
    BY <2>0, <2>6, <1>b, ReceiveReturnsDoes DEF Unsent, Draining
  <2>. QED
    BY <1>4, <2>1, <2>2, <2>3, <2>4, <2>5, <2>6, NumbersOfEncodeReturns, NumbersOfSendPacket DEF WorkerStep
<1>. QED
  BY <1>1, <1>2, <1>3, <1>4, NumbersOfStatus DEF Next

--------------------------------------------------------------------------------
(* The numbers of the status frames, action by action.                       *)

LEMMA StatusUnsentNumbers == ASSUME StatusTypes PROVE StatusUnsent \in Seq(Nat) /\ StatusNumbers \subseteq Nat
<1>1. StatusUnsent \in Seq(Nat) /\ statusWire \in Seq(Nat)
  BY DEF StatusTypes, StatusUnsent
<1>. QED
  BY <1>1 DEF StatusNumbers

LEMMA StatusInit == ASSUME Init PROVE StatusInv
<1>1. statusLoop = [encoding |-> FALSE, numbers |-> <<>>] /\ statusWire = <<>>
  BY DEF Init, Waits
<1>2. StatusTypes /\ ~statusLoop.encoding
  BY <1>1 DEF StatusTypes
<1>3. StatusUnsent = <<>>
  BY <1>1 DEF StatusUnsent
<1>4. StatusNumbers = {}
  BY <1>1, <1>3 DEF StatusNumbers
<1>5. StatusOnce
  BY <1>1, <1>3, <1>4 DEF StatusOnce
<1>. QED
  BY <1>2, <1>5 DEF StatusInv, StatusHolds

\* The steps of others, which do not use the encoder while statusLoop encodes and
\* give no number of a status frame to another frame.
LEMMA StatusUndisturbed ==
  ASSUME Types, Types', StatusInv, UNCHANGED <<statusLoop, statusWire>>,
         statusLoop.encoding => sequence'[1] = sequence[1] /\ encoderSync'[1] = encoderSync[1],
         sequence[1] <= sequence'[1],
         \A n \in StatusNumbers : NotOfData(n)'
  PROVE StatusInv'
<1>1. UNCHANGED <<StatusUnsent, StatusNumbers>>
  BY DEF StatusUnsent, StatusNumbers
<1>2. StatusTypes' /\ StatusHolds'
  BY DEF StatusInv, StatusTypes, StatusHolds
<1>3. \A n \in StatusNumbers : n < sequence'[1]
  <2>1. sequence[1] \in Nat /\ sequence'[1] \in Nat
    BY StreamInputAssumption DEF Types
  <2>2. \A n \in StatusNumbers : n \in Nat /\ n < sequence[1]
    BY StatusUnsentNumbers DEF StatusInv, StatusOnce
  <2>. QED
    BY <2>1, <2>2
<1>4. StatusOnce'
  <2>1. \A n \in StatusNumbers' : n < sequence'[1] /\ NotOfData(n)'
    BY <1>1, <1>3
  <2>2. /\ \A j, k \in 1..Len(statusWire') : statusWire'[j] = statusWire'[k] => j = k
        /\ \A j, k \in 1..Len(statusLoop'.numbers) : statusLoop'.numbers[j] = statusLoop'.numbers[k] => j = k
        /\ \A j \in 1..Len(statusWire'), k \in 1..Len(StatusUnsent') : statusWire'[j] # StatusUnsent'[k]
    BY <1>1 DEF StatusInv, StatusOnce
  <2>. QED
    BY <2>1, <2>2 DEF StatusOnce, NotOfData
<1>. QED
  BY <1>2, <1>4 DEF StatusInv

\* A worker that encodes with another encoder or returns from one, or has it alone.
LEMMA StatusOfEncoding ==
  ASSUME Types, Types', Locks, HandsOrdered, StatusInv, NEW w \in Worker, Encode(w) \/ EncodeReturns(w)
  PROVE StatusInv'
<1>. DEFINE id == stream[job[w].stream].streamId
<1>0. UNCHANGED <<statusLoop, statusWire>>
  BY StatusThreadStays DEF WorkerStep
<1>a. 1 \in StreamIds /\ sequence[1] \in Nat /\ sequence'[1] \in Nat
  BY StreamInputAssumption DEF Types
<1>b. \A n \in StatusNumbers : n \in Nat /\ n < sequence[1] /\ NotOfData(n)
  BY StatusUnsentNumbers DEF StatusInv, StatusOnce
<1>1. CASE Encode(w)
  <2>. PICK new \in Job :
        /\ new.encoding /\ JobAt(w, new) /\ new # None /\ encoderSync[id] = None
        /\ \A i \in StreamIds : encoderSync'[i] = IF i = id THEN w ELSE encoderSync[i]
        /\ Draining(w) /\ UNCHANGED <<sequence, wire>>
    BY <1>1, EncodeDoes
  <2>1. statusLoop.encoding => id # 1
    BY StreamInputAssumption DEF StatusInv, StatusHolds
  <2>2. statusLoop.encoding => encoderSync'[1] = encoderSync[1]
    BY <1>a, <2>1
  <2>3. Unsent(w)' = <<>> /\ \A v \in Worker \ {w} : Unsent(v)' = Unsent(v)
    BY DEF Unsent, JobAt
  <2>4. \A n \in StatusNumbers : NotOfData(n)'
    BY <1>b, <2>3 DEF NotOfData
  <2>. QED
    BY <1>0, <1>a, <2>2, <2>4, StatusUndisturbed
<1>2. CASE EncodeReturns(w)
  <2>. DEFINE fs == job[w].frames
  <2>. PICK new \in Job :
        /\ ~new.encoding /\ new.frames = fs /\ fs # <<>> /\ JobAt(w, new) /\ new # None
        /\ job[w] # None /\ job[w].encoding
        /\ \A i \in StreamIds :
             IF i = id THEN encoderSync'[i] = None /\ sequence'[i] = fs[1].sequence + Len(fs)
             ELSE encoderSync'[i] = encoderSync[i] /\ sequence'[i] = sequence[i]
        /\ wire' = wire
    BY <1>2, EncodeReturnsDoes
  <2>1. encoderSync[id] = w /\ id \in StreamIds /\ sequence[id] \in Nat
    BY InCall, IdOf DEF Locks
  <2>2. statusLoop.encoding => id # 1
    BY <2>1, StreamInputAssumption DEF StatusInv, StatusHolds
  <2>3. statusLoop.encoding => sequence'[1] = sequence[1] /\ encoderSync'[1] = encoderSync[1]
    BY <1>a, <2>2
  <2>4. fs \in Seq(Frame) /\ Len(fs) \in Nat /\ 1 \in 1..Len(fs)
        /\ \A k \in 1..Len(fs) : fs[k].streamId = id /\ fs[k].sequence = sequence[id] + k - 1
    <3>1. fs \in Seq(Frame) /\ Len(fs) \in Nat /\ 1 \in 1..Len(fs)
      BY InCall
    <3>2. \A k \in 1..Len(fs) : fs[k].streamId = id /\ fs[k].sequence = sequence[id] + k - 1
      BY DEF HandsOrdered, Calls, Hand, OneMessage, Counted
    <3>. QED
      BY <3>1, <3>2
  <2>5. Unsent(w)' = fs /\ \A v \in Worker \ {w} : Unsent(v)' = Unsent(v)
    BY DEF Unsent, JobAt
  <2>6. id = 1 => sequence'[1] = fs[1].sequence + Len(fs)
    BY <1>a
  <2>7. id # 1 => sequence'[1] = sequence[1]
    BY <1>a
  <2>. HIDE DEF id, fs
  <2>8. sequence[1] <= sequence'[1]
    BY <1>a, <2>1, <2>4, <2>6, <2>7
  <2>9. ASSUME NEW n \in StatusNumbers PROVE NotOfData(n)'
    <3>1. \A k \in 1..Len(fs) : ~(fs[k].streamId = 1 /\ fs[k].sequence = n)
      BY <1>a, <1>b, <2>1, <2>4
    <3>2. \A v \in Worker : \A k \in 1..Len(Unsent(v)') :
            ~(Unsent(v)'[k].streamId = 1 /\ Unsent(v)'[k].sequence = n)
      BY <1>b, <2>5, <3>1 DEF NotOfData
    <3>3. \A j \in 1..Len(wire') : ~(wire'[j].streamId = 1 /\ wire'[j].sequence = n)
      BY <1>b DEF NotOfData
    <3>. QED
      BY <3>2, <3>3 DEF NotOfData
  <2>. QED
    BY <1>0, <2>3, <2>8, <2>9, StatusUndisturbed
<1>. QED
  BY <1>1, <1>2

LEMMA StatusOfSendPacket ==
  ASSUME Types, Types', StatusInv, NEW w \in Worker, SendPacket(w)
  PROVE StatusInv'
<1>. DEFINE fs == job[w].frames
            L == Len(wire)
<1>. PICK new \in Job :
      /\ ~new.encoding /\ new.frames = Tail(fs) /\ fs # <<>> /\ fs \in Seq(Frame)
      /\ JobAt(w, new) /\ new # None /\ job[w] # None /\ ~job[w].encoding
      /\ wire' = Append(wire, fs[1]) /\ UNCHANGED <<sequence, encoderSync>>
  BY SendPacketDoes
<1>0. UNCHANGED <<statusLoop, statusWire>>
  BY StatusThreadStays DEF WorkerStep
<1>1. /\ Unsent(w) = fs /\ Unsent(w)' = Tail(fs)
      /\ \A v \in Worker \ {w} : Unsent(v)' = Unsent(v)
  BY DEF Unsent, JobAt
<1>2. /\ Len(fs) \in Nat /\ 1 \in 1..Len(fs)
      /\ \A k \in 1..Len(Tail(fs)) : k + 1 \in 1..Len(fs) /\ Tail(fs)[k] = fs[k + 1]
  OBVIOUS
<1>3. /\ L \in Nat /\ Len(wire') = L + 1 /\ wire'[L + 1] = fs[1]
      /\ \A k \in 1..L : wire'[k] = wire[k]
  BY DEF Types
<1>4. sequence[1] \in Nat
  BY StreamInputAssumption DEF Types
<1>. HIDE DEF fs, L
<1>5. \A j \in 1..Len(wire') : j \in 1..L \/ j = L + 1
  BY <1>3
<1>6. ASSUME NEW n \in StatusNumbers PROVE NotOfData(n)'
  <2>1. NotOfData(n)
    BY DEF StatusInv, StatusOnce
  <2>2. \A k \in 1..Len(fs) : ~(fs[k].streamId = 1 /\ fs[k].sequence = n)
    BY <1>1, <2>1 DEF NotOfData
  <2>3. \A j \in 1..Len(wire') : ~(wire'[j].streamId = 1 /\ wire'[j].sequence = n)
    BY <1>2, <1>3, <1>5, <2>1, <2>2 DEF NotOfData, L
  <2>4. ASSUME NEW v \in Worker, NEW k \in 1..Len(Unsent(v)')
        PROVE ~(Unsent(v)'[k].streamId = 1 /\ Unsent(v)'[k].sequence = n)
    <3>1. CASE v = w
      <4>1. k + 1 \in 1..Len(fs) /\ Unsent(v)'[k] = fs[k + 1]
        BY <1>1, <1>2, <2>4, <3>1
      <4>. QED
        BY <2>2, <4>1
    <3>2. CASE v # w
      BY <1>1, <2>1, <2>4, <3>2 DEF NotOfData
    <3>. QED
      BY <3>1, <3>2
  <2>. QED
    BY <2>3, <2>4 DEF NotOfData
<1>. QED
  BY <1>0, <1>4, <1>6, StatusUndisturbed

\* A step that leaves the encoders and the wire, and what the workers have to send.
LEMMA StatusLeft ==
  ASSUME Types, Types', StatusInv, UNCHANGED <<statusLoop, statusWire, sequence, encoderSync, wire>>,
         \A w \in Worker : Unsent(w)' = Unsent(w)
  PROVE StatusInv'
<1>1. sequence[1] \in Nat
  BY StreamInputAssumption DEF Types
<1>2. \A n \in StatusNumbers : NotOfData(n)'
  BY DEF StatusInv, StatusOnce, NotOfData
<1>. QED
  BY <1>1, <1>2, StatusUndisturbed

\* A step of statusLoop itself: what it encodes has numbers that nobody has yet.
LEMMA StatusOfStatus ==
  ASSUME Types, Types', HandsOrdered, NumberInv, StatusInv, StatusStep
  PROVE StatusInv'
<1>0. /\ 1 \in StreamIds /\ sequence[1] \in Nat /\ sequence'[1] \in Nat /\ sequence[1] <= sequence'[1]
      /\ StatusTypes /\ StatusHolds /\ StatusOnce
  BY StatusStepDoes, StreamInputAssumption DEF Types, StatusInv
<1>a. wire' = wire /\ \A w \in Worker : Unsent(w)' = Unsent(w)
  BY StatusStepDoes DEF Unsent
<1>b. \A n \in StatusNumbers : n \in Nat /\ n < sequence[1] /\ n < sequence'[1] /\ NotOfData(n)
  <2>1. \A n \in StatusNumbers : n \in Nat /\ n < sequence[1] /\ NotOfData(n)
    BY <1>0, StatusUnsentNumbers DEF StatusOnce
  <2>. QED
    BY <1>0, <2>1
<1>c. ASSUME NEW n, NotOfData(n) PROVE NotOfData(n)'
  BY <1>a, <1>c DEF NotOfData
<1>1. ASSUME NEW parts \in StatusParts, StatusEncode(parts) PROVE StatusInv'
  <2>. DEFINE new == [k \in 1..parts |-> sequence[1] + k - 1]
  <2>1. /\ statusLoop = [encoding |-> FALSE, numbers |-> <<>>] /\ statusWire' = statusWire
        /\ encoderSync'[1] = "statusLoop" /\ sequence' = sequence
        /\ statusLoop' = [encoding |-> TRUE, numbers |-> new]
    BY <1>0, <1>1 DEF StatusEncode, Waits, Types
  <2>2. parts \in Nat \ {0}
    BY StreamInputAssumption
  <2>3. /\ new \in Seq(Nat) /\ Len(new) = parts
        /\ \A k \in 1..parts : new[k] = sequence[1] + k - 1
    <3>1. \A k \in 1..parts : sequence[1] + k - 1 \in Nat
      BY <1>0, <2>2
    <3>. QED
      BY <2>2, <3>1
  <2>4. StatusNumbers' = StatusNumbers
    <3>1. statusLoop = Waits /\ statusLoop'.encoding /\ statusWire' = statusWire
      BY <2>1 DEF Waits
    <3>. QED
      BY <1>0, <3>1, NumbersOfStatusLoop
  <2>5. StatusUnsent' = <<>>
    BY <2>1 DEF StatusUnsent
  <2>. HIDE DEF new
  <2>6. StatusTypes'
    BY <1>0, <2>1, <2>3 DEF StatusTypes
  <2>7. StatusHolds'
    <3>1. new # <<>>
      BY <2>2, <2>3
    <3>. QED
      BY <2>1, <2>3, <3>1 DEF StatusHolds
  <2>8. StatusOnce'
    <3>1. \A j, k \in 1..Len(new) : new[j] = new[k] => j = k
      BY <1>0, <2>2, <2>3
    <3>2. \A j, k \in 1..Len(statusWire') : statusWire'[j] = statusWire'[k] => j = k
      BY <1>0, <2>1 DEF StatusOnce
    <3>3. \A n \in StatusNumbers' : n < sequence'[1] /\ NotOfData(n)'
      BY <1>b, <1>c, <2>4
    <3>. QED
      BY <2>1, <2>5, <3>1, <3>2, <3>3 DEF StatusOnce
  <2>. QED
    BY <2>6, <2>7, <2>8 DEF StatusInv
<1>2. CASE StatusEncodeReturns
  <2>. DEFINE numbers == statusLoop.numbers
  <2>1. /\ sequence'[1] = sequence[1] + Len(numbers) /\ Len(numbers) \in Nat /\ numbers \in Seq(Nat)
        /\ \A k \in 1..Len(numbers) : numbers[k] = sequence[1] + k - 1
        /\ statusLoop' = [encoding |-> FALSE, numbers |-> numbers] /\ statusWire' = statusWire
    BY <1>2, StatusEncodeReturnsDoes
  <2>2. StatusNumbers' = StatusNumbers \cup {numbers[k] : k \in 1..Len(numbers)}
    BY <1>2, NumbersOfStatusEncoder
  <2>3. StatusUnsent' = numbers
    BY <2>1 DEF StatusUnsent
  <2>4. \A j, k \in 1..Len(numbers) : numbers[j] = numbers[k] => j = k
    BY <1>0 DEF StatusOnce
  <2>. HIDE DEF numbers
  <2>5. ASSUME NEW k \in 1..Len(numbers)
        PROVE numbers[k] \in Nat /\ sequence[1] <= numbers[k] /\ numbers[k] < sequence'[1]
    BY <1>0, <2>1
  <2>6. ASSUME NEW n \in Nat, sequence[1] <= n PROVE NotOfData(n)
    <3>1. ASSUME NEW j \in 1..Len(wire) PROVE ~(wire[j].streamId = 1 /\ wire[j].sequence = n)
      <4>1. wire[j].sequence < sequence[wire[j].streamId]
        BY DEF NumberInv
      <4>2. wire[j].sequence \in Nat
        BY FrameOnWire
      <4>. QED
        BY <1>0, <2>6, <4>1, <4>2
    <3>2. ASSUME NEW w \in Worker, NEW k \in 1..Len(Unsent(w))
          PROVE ~(Unsent(w)[k].streamId = 1 /\ Unsent(w)[k].sequence = n)
      <4>1. Unsent(w)[k].sequence \in Nat /\ Unsent(w)[k].sequence < sequence[Unsent(w)[k].streamId]
        BY <3>2, UnsentFrames
      <4>. QED
        BY <1>0, <2>6, <4>1
    <3>. QED
      BY <3>1, <3>2 DEF NotOfData
  <2>7. StatusTypes' /\ StatusHolds'
    BY <1>0, <2>1 DEF StatusTypes, StatusHolds
  <2>8. StatusOnce'
    <3>1. \A j, k \in 1..Len(statusWire') : statusWire'[j] = statusWire'[k] => j = k
      BY <1>0, <2>1 DEF StatusOnce
    <3>2. ASSUME NEW j \in 1..Len(statusWire), NEW k \in 1..Len(numbers) PROVE statusWire[j] # numbers[k]
      <4>1. statusWire[j] \in StatusNumbers
        BY DEF StatusNumbers
      <4>. QED
        BY <1>0, <1>b, <2>5, <4>1
    <3>3. ASSUME NEW n \in StatusNumbers' PROVE n < sequence'[1] /\ NotOfData(n)'
      <4>1. CASE n \in StatusNumbers
        BY <1>b, <1>c, <4>1
      <4>2. CASE \E k \in 1..Len(numbers) : n = numbers[k]
        <5>1. n \in Nat /\ sequence[1] <= n /\ n < sequence'[1]
          BY <2>5, <4>2
        <5>. QED
          BY <1>c, <2>6, <5>1
      <4>. QED
        BY <2>2, <4>1, <4>2
    <3>. QED
      BY <2>1, <2>3, <2>4, <3>1, <3>2, <3>3 DEF StatusOnce
  <2>. QED
    BY <2>7, <2>8 DEF StatusInv
<1>3. CASE StatusSendPacket
  <2>. DEFINE numbers == statusLoop.numbers
              L == Len(statusWire)
  <2>1. /\ numbers \in Seq(Nat) /\ numbers # <<>> /\ statusWire \in Seq(Nat) /\ sequence' = sequence
        /\ statusLoop' = [encoding |-> FALSE, numbers |-> Tail(numbers)] /\ ~statusLoop.encoding
        /\ statusWire' = Append(statusWire, Head(numbers))
    BY <1>0, <1>3 DEF StatusSendPacket, StatusTypes, encoder
  <2>2. StatusUnsent = numbers /\ StatusUnsent' = Tail(numbers)
    BY <2>1 DEF StatusUnsent
  <2>3. StatusNumbers' = StatusNumbers
    BY <1>0, <1>3, NumbersOfStatusLoop
  <2>4. /\ \A j, k \in 1..Len(numbers) : numbers[j] = numbers[k] => j = k
        /\ \A j, k \in 1..L : statusWire[j] = statusWire[k] => j = k
        /\ \A j \in 1..L, k \in 1..Len(numbers) : statusWire[j] # numbers[k]
    BY <1>0, <2>2 DEF StatusOnce
  <2>5. /\ Len(numbers) \in Nat /\ 1 \in 1..Len(numbers) /\ Head(numbers) = numbers[1] /\ Tail(numbers) \in Seq(Nat)
        /\ \A k \in 1..Len(Tail(numbers)) :
             /\ k \in Nat /\ k >= 1 /\ k + 1 \in 1..Len(numbers) /\ Tail(numbers)[k] = numbers[k + 1]
    BY <2>1
  <2>6. /\ L \in Nat /\ Len(statusWire') = L + 1 /\ statusWire'[L + 1] = Head(numbers)
        /\ statusWire' \in Seq(Nat)
        /\ \A k \in 1..L : statusWire'[k] = statusWire[k]
    BY <2>1
  <2>. HIDE DEF numbers, L
  <2>7. \A j \in 1..Len(statusWire') : j \in 1..L \/ j = L + 1
    BY <2>6
  <2>8. StatusTypes' /\ StatusHolds'
    BY <2>1, <2>5, <2>6 DEF StatusTypes, StatusHolds
  <2>9. StatusOnce'
    <3>1. ASSUME NEW j \in 1..Len(statusWire'), NEW k \in 1..Len(statusWire'), statusWire'[j] = statusWire'[k]
          PROVE j = k
      <4>1. CASE j \in 1..L /\ k \in 1..L
        BY <2>4, <2>6, <3>1, <4>1
      <4>2. \A i \in 1..L : statusWire'[i] # statusWire'[L + 1]
        BY <2>4, <2>5, <2>6
      <4>. QED
        BY <2>7, <3>1, <4>1, <4>2
    <3>2. \A j, k \in 1..Len(Tail(numbers)) : Tail(numbers)[j] = Tail(numbers)[k] => j = k
      <4>. SUFFICES ASSUME NEW j \in 1..Len(Tail(numbers)), NEW k \in 1..Len(Tail(numbers)),
                           Tail(numbers)[j] = Tail(numbers)[k]
           PROVE j = k
        OBVIOUS
      <4>1. j + 1 = k + 1
        BY <2>4, <2>5
      <4>. QED
        BY <2>5, <4>1
    <3>3. ASSUME NEW j \in 1..Len(statusWire'), NEW k \in 1..Len(Tail(numbers))
          PROVE statusWire'[j] # Tail(numbers)[k]
      <4>1. k \in Nat /\ k >= 1 /\ k + 1 \in 1..Len(numbers) /\ Tail(numbers)[k] = numbers[k + 1]
        BY <2>5
      <4>2. numbers[1] # numbers[k + 1]
        BY <2>4, <2>5, <4>1
      <4>. QED
        BY <2>4, <2>5, <2>6, <2>7, <4>1, <4>2
    <3>4. \A n \in StatusNumbers' : n < sequence'[1] /\ NotOfData(n)'
      BY <1>b, <1>c, <2>3
    <3>. QED
      BY <2>1, <2>2, <3>1, <3>2, <3>3, <3>4 DEF StatusOnce
  <2>. QED
    BY <2>8, <2>9 DEF StatusInv
<1>. QED
  BY <1>1, <1>2, <1>3 DEF StatusStep

LEMMA StatusStays ==
  ASSUME Types, Types', Locks, HandsOrdered, NumberInv, StatusInv, [Next]_vars
  PROVE StatusInv'
<1>a. ASSUME UNCHANGED <<job, wire, sequence, encoderSync>>, UNCHANGED <<statusLoop, statusWire>> PROVE StatusInv'
  BY <1>a, StatusLeft DEF Unsent
<1>b. ASSUME NEW w \in Worker, NEW new, JobAt(w, new), UNCHANGED <<wire, sequence, encoderSync>>, Unsent(w) = <<>>,
             new = None \/ new.frames = <<>>, UNCHANGED <<statusLoop, statusWire>>
      PROVE StatusInv'
  <2>1. Unsent(w)' = <<>> /\ \A v \in Worker \ {w} : Unsent(v)' = Unsent(v)
    BY <1>b DEF Unsent, JobAt
  <2>. QED
    BY <1>b, <2>1, StatusLeft
<1>1. CASE UNCHANGED vars
  BY <1>1, <1>a DEF vars, encoder, statusThread
<1>2. ASSUME NEW s \in Stream, SignalStep(s) PROVE StatusInv'
  BY <1>2, <1>a, StatusThreadStays DEF SignalStep, Connect, ChangeDescriptor, SendData, Disconnect, encoder
<1>3. ASSUME NEW s \in Stream, WriteStep(s) PROVE StatusInv'
  BY <1>3, <1>a, StatusThreadStays DEF WriteStep, SetPayloadType, SetStreamId, encoder
<1>4. ASSUME NEW w \in Worker, WorkerStep(w) PROVE StatusInv'
  <2>0. UNCHANGED <<statusLoop, statusWire>>
    BY <1>4, StatusThreadStays
  <2>1. ASSUME NEW s \in Stream, ReceiveConnected(w, s) PROVE StatusInv'
    BY <2>0, <2>1, <1>b, ReceiveConnectedDoes DEF Unsent
  <2>2. ASSUME NEW s \in Stream, ReceiveUnconnected(w, s) PROVE StatusInv'
    BY <2>0, <2>2, <1>a DEF ReceiveUnconnected, encoder
  <2>3. CASE ProcessEventPacket(w)
    BY <2>0, <2>3, <1>a, ProcessEventPacketDoes
  <2>4. CASE SkipDataPacket(w)
    BY <2>0, <2>4, <1>a, SkipDataPacketDoes
  <2>5. CASE ReceiveReturns(w)
    BY <2>0, <2>5, <1>b, ReceiveReturnsDoes DEF Unsent, Draining
  <2>. QED
    BY <1>4, <2>1, <2>2, <2>3, <2>4, <2>5, StatusOfEncoding, StatusOfSendPacket DEF WorkerStep
<1>. QED
  BY <1>1, <1>2, <1>3, <1>4, StatusOfStatus DEF Next

--------------------------------------------------------------------------------
(* The numbers of the packets, queue by queue.                               *)

LEMMA NumbersOf ==
  ASSUME NEW q \in Seq(Packet)
  PROVE /\ \A n \in Numbers(q) : n \in Nat
        /\ Numbers(<<>>) = {} /\ Ascending(<<>>)
<1>1. \A k \in 1..Len(q) : q[k] \in EventPacket \cup DataPacket
  BY DEF Packet
<1>2. \A k \in 1..Len(q) : ~q[k].event => q[k].number \in Nat
  BY <1>1 DEF EventPacket, DataPacket
<1>. QED
  BY <1>2 DEF Numbers, Ascending

LEMMA NumbersOfAppend ==
  ASSUME NEW q \in Seq(Packet), NEW p \in Packet, Ascending(q)
  PROVE /\ p.event => Numbers(Append(q, p)) = Numbers(q) /\ Ascending(Append(q, p))
        /\ ~p.event /\ (\A n \in Numbers(q) : n < p.number) =>
             Numbers(Append(q, p)) = Numbers(q) \cup {p.number} /\ Ascending(Append(q, p))
<1>. DEFINE L == Len(q)
            r == Append(q, p)
<1>1. /\ L \in Nat /\ Len(r) = L + 1 /\ r[L + 1] = p
      /\ \A k \in 1..L : k \in 1..L + 1 /\ r[k] = q[k]
      /\ \A k \in 1..L + 1 : k \in 1..L \/ k = L + 1
  OBVIOUS
<1>2. \A k \in 1..L : ~q[k].event => q[k].number \in Numbers(q)
  BY DEF Numbers
<1>3. \A j, k \in 1..L : j < k /\ ~q[j].event /\ ~q[k].event => q[j].number < q[k].number
  BY DEF Ascending
<1>4. Numbers(r) = {r[k].number : k \in {i \in 1..L + 1 : ~r[i].event}}
      /\ Numbers(q) = {q[k].number : k \in {i \in 1..L : ~q[i].event}}
  BY <1>1 DEF Numbers
<1>. HIDE DEF L, r
<1>5. ASSUME p.event PROVE Numbers(r) = Numbers(q) /\ Ascending(r)
  <2>1. Numbers(r) = Numbers(q)
    BY <1>1, <1>4, <1>5
  <2>2. Ascending(r)
    BY <1>1, <1>3, <1>5 DEF Ascending
  <2>. QED
    BY <2>1, <2>2
<1>6. ASSUME ~p.event, \A n \in Numbers(q) : n < p.number
      PROVE Numbers(r) = Numbers(q) \cup {p.number} /\ Ascending(r)
  <2>1. Numbers(r) = Numbers(q) \cup {p.number}
    BY <1>1, <1>4, <1>6
  <2>2. ASSUME NEW j \in 1..L + 1, NEW k \in 1..L + 1, j < k, ~r[j].event, ~r[k].event
        PROVE r[j].number < r[k].number
    <3>1. j \in 1..L /\ (k \in 1..L \/ k = L + 1)
      BY <1>1, <2>2
    <3>. QED
      BY <1>1, <1>2, <1>3, <1>6, <2>2, <3>1
  <2>3. Ascending(r)
    BY <1>1, <2>2 DEF Ascending
  <2>. QED
    BY <2>1, <2>3
<1>. QED
  BY <1>5, <1>6 DEF r

LEMMA NumbersOfTail ==
  ASSUME NEW q \in Seq(Packet), q # <<>>, Ascending(q)
  PROVE /\ Numbers(Tail(q)) \subseteq Numbers(q) /\ Ascending(Tail(q))
        /\ ~Head(q).event => /\ Head(q).number \in Numbers(q)
                             /\ \A n \in Numbers(Tail(q)) : Head(q).number < n
<1>. DEFINE L == Len(q)
            r == Tail(q)
<1>1. /\ L \in Nat /\ Len(r) = L - 1 /\ Head(q) = q[1] /\ 1 \in 1..L
      /\ \A k \in 1..L - 1 : k + 1 \in 1..L /\ 1 < k + 1 /\ r[k] = q[k + 1]
  OBVIOUS
<1>2. \A j, k \in 1..L : j < k /\ ~q[j].event /\ ~q[k].event => q[j].number < q[k].number
  BY DEF Ascending
<1>3. Numbers(r) = {r[k].number : k \in {i \in 1..L - 1 : ~r[i].event}}
      /\ Numbers(q) = {q[k].number : k \in {i \in 1..L : ~q[i].event}}
  BY <1>1 DEF Numbers
<1>. HIDE DEF L, r
<1>4. Numbers(r) \subseteq Numbers(q)
  BY <1>1, <1>3
<1>5. Ascending(r)
  <2>. SUFFICES ASSUME NEW j \in 1..L - 1, NEW k \in 1..L - 1, j < k, ~r[j].event, ~r[k].event
       PROVE r[j].number < r[k].number
    BY <1>1 DEF Ascending
  <2>1. j + 1 \in 1..L /\ k + 1 \in 1..L /\ j + 1 < k + 1 /\ r[j] = q[j + 1] /\ r[k] = q[k + 1]
    BY <1>1
  <2>. QED
    BY <1>2, <2>1
<1>6. ASSUME ~Head(q).event
      PROVE Head(q).number \in Numbers(q) /\ \A n \in Numbers(r) : Head(q).number < n
  BY <1>1, <1>2, <1>3, <1>6
<1>. QED
  BY <1>4, <1>5, <1>6 DEF r

--------------------------------------------------------------------------------
(* The order of the frames and packets, action by action.                    *)

LEMMA QueueOf ==
  ASSUME Types, NEW s \in Stream, NEW c \in 1..MaxConnections[s]
  PROVE /\ queue[s][c] \in Seq(Packet) /\ source[s].packets \in Nat /\ c \in Nat
        /\ \A n \in Numbers(queue[s][c]) : n \in Nat
<1>1. queue[s][c] \in Seq(Packet) /\ source[s].packets \in Nat
  BY DEF Types
<1>. QED
  BY <1>1, NumbersOf, StreamInputAssumption

\* Nothing has been made of the packets.
Idle == wire' = wire /\ \A w \in Worker : job'[w] = job[w] \/ job'[w] = None \/ job'[w].frames = <<>>

LEMMA IdleFrames ==
  ASSUME OrderInv, Idle
  PROVE WireOrdered' /\ HandsAfterWire' /\ \A s \in Stream : Encoded(s)' \subseteq Encoded(s)
<1>1. WireOrdered'
  BY DEF OrderInv, WireOrdered, Idle
<1>2. \A w \in Calls' : job'[w].frames = <<>> \/ (w \in Calls /\ job'[w] = job[w])
  BY DEF Idle, Calls
<1>3. HandsAfterWire'
  BY <1>2 DEF OrderInv, HandsAfterWire, Idle
<1>4. \A s \in Stream : Encoded(s)' \subseteq Encoded(s)
  BY <1>2 DEF Encoded, Idle
<1>. QED
  BY <1>1, <1>3, <1>4

\* Packets have gone, if anything has changed.
LEMMA QueuesShrink ==
  ASSUME Types, QueuesOrdered, \A s \in Stream : source'[s].packets = source[s].packets,
         \A s \in Stream : Encoded(s)' \subseteq Encoded(s),
         \A s \in Stream : \A c \in 1..MaxConnections[s] :
           Ascending(queue'[s][c]) /\ Numbers(queue'[s][c]) \subseteq Numbers(queue[s][c])
  PROVE QueuesOrdered'
<1>. SUFFICES ASSUME NEW s \in Stream, NEW c \in 1..MaxConnections[s], NEW n \in Numbers(queue'[s][c])
     PROVE /\ n <= source'[s].packets /\ \A m \in Encoded(s)' : m < n
           /\ \A e \in 1..c - 1 : \A m \in Numbers(queue'[s][e]) : m < n
  BY DEF QueuesOrdered
<1>1. n \in Numbers(queue[s][c]) /\ c \in Nat /\ MaxConnections[s] \in Nat
  BY QueueOf, Bounds
<1>2. \A e \in 1..c - 1 : e \in 1..MaxConnections[s]
  BY <1>1
<1>3. n <= source'[s].packets /\ \A m \in Encoded(s) : m < n
  BY <1>1 DEF QueuesOrdered
<1>4. \A e \in 1..c - 1 : \A m \in Numbers(queue[s][e]) : m < n
  BY <1>1 DEF QueuesOrdered
<1>. QED
  BY <1>2, <1>3, <1>4

LEMMA OrderShrinks ==
  ASSUME Types, OrderInv, Idle, \A s \in Stream : source'[s].packets = source[s].packets,
         \A s \in Stream : \A c \in 1..MaxConnections[s] :
           Ascending(queue'[s][c]) /\ Numbers(queue'[s][c]) \subseteq Numbers(queue[s][c])
  PROVE OrderInv'
<1>1. WireOrdered' /\ HandsAfterWire' /\ \A s \in Stream : Encoded(s)' \subseteq Encoded(s)
  BY IdleFrames
<1>2. QueuesOrdered'
  BY <1>1, QueuesShrink DEF OrderInv
<1>. QED
  BY <1>1, <1>2 DEF OrderInv

LEMMA OrderInit == ASSUME Init PROVE OrderInv
<1>1. wire = <<>> /\ Calls = {} /\ \A s \in Stream : \A c \in 1..MaxConnections[s] : queue[s][c] = <<>>
  BY DEF Init, Calls
<1>2. Len(<<>>) = 0 /\ Numbers(<<>>) = {} /\ Ascending(<<>>)
  BY DEF Numbers, Ascending
<1>3. WireOrdered /\ HandsAfterWire /\ \A s \in Stream : Encoded(s) = {}
  BY <1>1, <1>2 DEF WireOrdered, HandsAfterWire, Encoded
<1>4. QueuesOrdered
  BY <1>1, <1>2 DEF QueuesOrdered
<1>. QED
  BY <1>3, <1>4 DEF OrderInv

\* A queue gets an event.
LEMMA OrderAfterEvent ==
  ASSUME Types, OrderInv, NEW s \in Stream, NEW c \in 1..MaxConnections[s], NEW packet \in Packet, packet.event,
         QueueAt(s, c, Append(queue[s][c], packet)), UNCHANGED <<job, wire>>,
         \A t \in Stream : source'[t].packets = source[t].packets
  PROVE OrderInv'
<1>1. Idle
  BY DEF Idle
<1>2. \A t \in Stream : \A e \in 1..MaxConnections[t] : Ascending(queue[t][e]) /\ queue[t][e] \in Seq(Packet)
  BY QueueOf DEF OrderInv, QueuesOrdered
<1>3. \A t \in Stream : \A e \in 1..MaxConnections[t] :
        Ascending(queue'[t][e]) /\ Numbers(queue'[t][e]) \subseteq Numbers(queue[t][e])
  <2>. SUFFICES ASSUME NEW t \in Stream, NEW e \in 1..MaxConnections[t]
       PROVE Ascending(queue'[t][e]) /\ Numbers(queue'[t][e]) \subseteq Numbers(queue[t][e])
    OBVIOUS
  <2>1. CASE t = s /\ e = c
    <3>1. queue'[t][e] = Append(queue[s][c], packet)
      BY <2>1 DEF QueueAt
    <3>2. Ascending(queue[s][c]) /\ queue[s][c] \in Seq(Packet)
      BY <1>2
    <3>. QED
      BY <2>1, <3>1, <3>2, NumbersOfAppend
  <2>2. CASE ~(t = s /\ e = c)
    <3>1. queue'[t][e] = queue[t][e]
      BY <2>2 DEF QueueAt
    <3>. QED
      BY <1>2, <3>1
  <2>. QED
    BY <2>1, <2>2
<1>. QED
  BY <1>1, <1>3, OrderShrinks

\* No connection after the last one has packets.
LEMMA LastQueue ==
  ASSUME Types, Locks, NEW s \in Stream, NEW c \in 1..MaxConnections[s], queue[s][c] # <<>>
  PROVE c <= connection[s]
<1>1. connection[s] \in Nat /\ c \in Nat
      /\ \A w \in Worker : job[w] # None /\ job[w].stream = s => job[w].connection \in 1..connection[s]
  BY QueueOf DEF Types
<1>. QED
  BY <1>1 DEF Locks

LEMMA OrderOfSendData ==
  ASSUME Types, Locks, OrderInv, NEW s \in Stream, NEW length \in Lengths[s], NEW parts \in Parts[s],
         SendData(s, length, parts)
  PROVE OrderInv'
<1>. DEFINE c == connection[s]
            n == source[s].packets + 1
<1>. PICK packet \in DataPacket :
        /\ packet.number = n /\ c \in 1..MaxConnections[s] /\ source'[s].packets = n
        /\ \A t \in Stream \ {s} : source'[t] = source[t]
        /\ QueueAt(s, c, Append(queue[s][c], packet))
        /\ UNCHANGED <<job, wire>>
  BY SendDataDoes
<1>1. WireOrdered' /\ HandsAfterWire' /\ \A t \in Stream : Encoded(t)' \subseteq Encoded(t)
  BY IdleFrames DEF Idle
<1>2. \A t \in Stream : /\ source[t].packets \in Nat /\ source[t].packets <= source'[t].packets
                        /\ source'[t].packets \in Nat /\ \A m \in Encoded(t) : m \in Nat
  <2>1. \A t \in Stream : source[t].packets \in Nat /\ \A m \in Encoded(t) : m \in Nat
    BY DEF Types, Encoded
  <2>2. \A t \in Stream : t # s => source'[t].packets = source[t].packets
    OBVIOUS
  <2>3. source'[s].packets = source[s].packets + 1
    OBVIOUS
  <2>. QED
    BY <2>1, <2>2, <2>3
<1>3. \A t \in Stream : \A m \in Encoded(t)' : m <= source'[t].packets
  BY <1>1, <1>2 DEF OrderInv
<1>4. packet \in Packet /\ ~packet.event
  BY DEF Packet, DataPacket
<1>5. n \in Nat /\ \A t \in Stream : t = s => \A m \in Encoded(t)' : m < n
  BY <1>1, <1>2 DEF OrderInv
<1>6. \A t \in Stream : \A e \in 1..MaxConnections[t] :
        /\ queue[t][e] \in Seq(Packet) /\ Ascending(queue[t][e])
        /\ \A m \in Numbers(queue[t][e]) : m \in Nat /\ m <= source[t].packets /\ \A l \in Encoded(t)' : l < m
  BY <1>1, QueueOf DEF OrderInv, QueuesOrdered
<1>. HIDE DEF c, n
<1>7. /\ Numbers(queue'[s][c]) = Numbers(queue[s][c]) \cup {n} /\ Ascending(queue'[s][c])
  <2>1. ASSUME NEW m \in Numbers(queue[s][c]) PROVE m < n
    <3>1. m \in Nat /\ m <= source[s].packets
      BY <1>6, <2>1
    <3>. QED
      BY <1>2, <3>1 DEF n
  <2>. QED
    BY <1>4, <1>6, <2>1, NumbersOfAppend DEF QueueAt
<1>8. \A t \in Stream : \A e \in 1..MaxConnections[t] : ~(t = s /\ e = c) => queue'[t][e] = queue[t][e]
  BY DEF QueueAt
<1>9. ASSUME NEW t \in Stream, NEW e \in 1..MaxConnections[t]
      PROVE /\ Ascending(queue'[t][e])
            /\ \A m \in Numbers(queue'[t][e]) : m <= source'[t].packets /\ \A l \in Encoded(t)' : l < m
  <2>2. \A m \in Numbers(queue[t][e]) : m <= source'[t].packets
    BY <1>2, <1>6
  <2>3. CASE t = s /\ e = c
    <3>1. \A m \in Numbers(queue'[t][e]) : m \in Numbers(queue[t][e]) \/ m = n
      BY <1>7, <2>3
    <3>2. n <= source'[t].packets /\ \A l \in Encoded(t)' : l < n
      BY <1>5, <2>3
    <3>. QED
      BY <1>6, <1>7, <2>2, <2>3, <3>1, <3>2
  <2>4. CASE ~(t = s /\ e = c)
    BY <1>6, <1>8, <2>2, <2>4
  <2>. QED
    BY <2>3, <2>4
<1>10. ASSUME NEW t \in Stream, NEW e \in 1..MaxConnections[t], NEW m \in Numbers(queue'[t][e]),
              NEW d \in 1..e - 1, NEW l \in Numbers(queue'[t][d])
       PROVE l < m
  <2>1. e \in Nat /\ d \in 1..MaxConnections[t] /\ d # e /\ MaxConnections[t] \in Nat
    BY QueueOf, Bounds
  <2>2. CASE m \in Numbers(queue[t][e]) /\ l \in Numbers(queue[t][d])
    BY <2>2 DEF OrderInv, QueuesOrdered
  <2>3. CASE ~(m \in Numbers(queue[t][e]))
    <3>1. t = s /\ e = c /\ m = n
      BY <1>7, <1>8, <1>10, <2>3
    <3>2. l \in Numbers(queue[t][d])
      BY <1>8, <1>10, <2>1, <3>1
    <3>. QED
      BY <1>2, <1>6, <2>1, <3>1, <3>2 DEF n
  <2>4. CASE ~(l \in Numbers(queue[t][d]))
    <3>1. t = s /\ d = c
      BY <1>8, <1>10, <2>1, <2>4
    <3>2. m \in Numbers(queue[t][e])
      BY <1>8, <1>10, <2>1, <3>1
    <3>3. queue[t][e] # <<>>
      BY <3>2, NumbersOf, <1>6
    <3>4. e <= c /\ c \in Nat
      BY <2>1, <3>1, <3>3, LastQueue, Bounds DEF c
    <3>. QED
      BY <2>1, <3>1, <3>4
  <2>. QED
    BY <2>2, <2>3, <2>4
<1>11. QueuesOrdered'
  BY <1>9, <1>10 DEF QueuesOrdered
<1>. QED
  BY <1>1, <1>3, <1>11 DEF OrderInv

LEMMA OrderOfEncode ==
  ASSUME Types, Locks, HandsOrdered, NumberInv, OrderInv, NEW w \in Worker, Encode(w)
  PROVE OrderInv'
<1>z. job[w].stream \in Stream /\ job[w].connection \in 1..MaxConnections[job[w].stream]
  BY InCall DEF Encode, Draining
<1>. PICK s \in Stream : s = job[w].stream
  BY <1>z
<1>. PICK c \in 1..MaxConnections[s] : c = job[w].connection
  BY <1>z
<1>. DEFINE q == queue[s][c]
            packet == Head(q)
            N == packet.number
<1>. PICK new \in Job :
        /\ new.stream = s /\ new.frames = Frames(s, packet)
        /\ JobAt(w, new) /\ new # None /\ Draining(w) /\ packet \in DataPacket /\ ~packet.event /\ q # <<>>
        /\ QueueAt(s, c, Tail(q))
        /\ UNCHANGED <<stream, source, sequence, wire>>
  BY EncodeDoes DEF Pending
<1>0. job[w] # None /\ s \in Stream /\ c \in 1..MaxConnections[s] /\ c \in 1..connection[s]
      /\ connection[s] \in Nat /\ MaxConnections[s] \in Nat /\ job[w].frames = <<>>
  BY InCall, Bounds DEF Draining, Types
<1>1. q \in Seq(Packet) /\ Ascending(q) /\ N \in Nat
  BY <1>0, QueueOf DEF OrderInv, QueuesOrdered, DataPacket
<1>2. N \in Numbers(q) /\ Numbers(Tail(q)) \subseteq Numbers(q) /\ Ascending(Tail(q))
      /\ \A m \in Numbers(Tail(q)) : N < m
  BY <1>1, NumbersOfTail
<1>3. N <= source[s].packets /\ (\A m \in Encoded(s) : m < N) /\ source[s].packets \in Nat
  BY <1>0, <1>2, QueueOf DEF OrderInv, QueuesOrdered
<1>. DEFINE id == stream[s].streamId
<1>4. id \in StreamIds /\ sequence[id] \in Nat
  BY <1>0, IdOf
<1>. HIDE DEF packet
<1>5. \A k \in 1..Len(new.frames) :
        /\ new.frames[k].number = N /\ new.frames[k].streamId = id
        /\ new.frames[k].sequence = sequence[id] + k - 1 /\ k \in Nat /\ k >= 1
  <2>. TAKE k \in 1..Len(new.frames)
  <2>1. k \in 1..packet.parts /\ packet.parts \in Nat
    BY <1>0, FramesAreFrames
  <2>2. new.frames[k] =
          [stream |-> s, streamId |-> stream[s].streamId, sequence |-> sequence[stream[s].streamId] + k - 1,
           payloadType |-> stream[s].payloadType, scaling |-> stream[s].scaling,
           data |-> packet.data, number |-> packet.number, part |-> k, retyped |-> stream[s].retyped]
    BY <1>0, <2>1, FramesAreFrames, SMTT(30)
  <2>. QED
    BY <2>1, <2>2
<1>. HIDE DEF id
<1>6. \A v \in Calls' : IF v = w THEN job'[v] = new ELSE v \in Calls /\ job'[v] = job[v]
  BY DEF Calls, JobAt
<1>7. \A v \in Calls : job[v].stream = s => v = w
  BY <1>0, OneCall DEF Calls
<1>8. ASSUME NEW j \in 1..Len(wire), wire[j].stream = s, NEW k \in 1..Len(new.frames)
      PROVE Elder(wire[j], new.frames[k])
  <2>1. wire[j].number < N
    BY <1>3, <1>8, FrameOnWire DEF Encoded
  <2>2. wire[j].streamId = id => wire[j].sequence < sequence[id]
    BY DEF NumberInv
  <2>3. wire[j].sequence \in Nat
    BY FrameOnWire
  <2>4. sequence[id] <= new.frames[k].sequence /\ new.frames[k].sequence \in Nat
    BY <1>4, <1>5
  <2>5. ASSUME wire[j].streamId = new.frames[k].streamId PROVE wire[j].sequence < new.frames[k].sequence
    <3>1. wire[j].sequence < sequence[id]
      BY <1>5, <2>2, <2>5
    <3>. QED
      BY <1>4, <2>3, <2>4, <3>1
  <2>. QED
    BY <1>5, <2>1, <2>5 DEF Elder, Before
<1>9. HandsAfterWire'
  <2>. SUFFICES ASSUME NEW v \in Calls', NEW k \in 1..Len(job'[v].frames), NEW j \in 1..Len(wire),
                       wire[j].stream = job'[v].stream
       PROVE Elder(wire[j], job'[v].frames[k])
    BY DEF HandsAfterWire
  <2>1. CASE v = w
    BY <1>6, <1>8, <2>1
  <2>2. CASE v # w
    BY <1>6, <2>2 DEF OrderInv, HandsAfterWire
  <2>. QED
    BY <2>1, <2>2
<1>10. WireOrdered'
  BY DEF OrderInv, WireOrdered
<1>11. \A t \in Stream : t = s => \A n \in Encoded(t)' : n <= N
  <2>. SUFFICES ASSUME NEW t \in Stream, t = s, NEW n \in Encoded(t)' PROVE n <= N
    OBVIOUS
  <2>0. n \in Nat
    BY DEF Encoded
  <2>1. CASE \E j \in 1..Len(wire) : wire[j].stream = s /\ wire[j].number = n
    <3>1. n \in Encoded(s)
      BY <2>0, <2>1 DEF Encoded
    <3>. QED
      BY <1>1, <1>3, <2>0, <3>1
  <2>2. CASE \E v \in Calls' : job'[v].stream = s /\ \E k \in 1..Len(job'[v].frames) : job'[v].frames[k].number = n
    <3>1. \E k \in 1..Len(new.frames) : new.frames[k].number = n
      BY <1>6, <1>7, <2>2
    <3>. QED
      BY <1>1, <1>5, <3>1
  <2>. QED
    BY <2>1, <2>2 DEF Encoded
<1>12. \A t \in Stream : t # s => Encoded(t)' \subseteq Encoded(t)
  <2>1. \A v \in Calls' : job'[v].stream # s => v # w
    BY <1>6
  <2>. QED
    BY <1>6, <2>1 DEF Encoded
<1>13. \A t \in Stream : \A n \in Encoded(t)' : n <= source[t].packets
  <2>. SUFFICES ASSUME NEW t \in Stream, NEW n \in Encoded(t)' PROVE n <= source[t].packets
    OBVIOUS
  <2>1. n \in Nat
    BY DEF Encoded
  <2>3. CASE t = s
    BY <1>1, <1>3, <1>11, <2>1, <2>3
  <2>4. CASE t # s
    BY <1>12, <2>4 DEF OrderInv
  <2>. QED
    BY <2>3, <2>4
<1>14. /\ queue'[s][c] = Tail(q)
       /\ \A t \in Stream : \A e \in 1..MaxConnections[t] : ~(t = s /\ e = c) => queue'[t][e] = queue[t][e]
  BY <1>0 DEF QueueAt
\* What waits in the queues of the block is later than the packet.
<1>15. ASSUME NEW e \in 1..MaxConnections[s], NEW n \in Numbers(queue'[s][e])
       PROVE N < n
  <2>1. CASE e = c
    BY <1>2, <1>14, <1>15, <2>1
  <2>2. CASE e # c
    <3>1. n \in Numbers(queue[s][e]) /\ queue[s][e] \in Seq(Packet)
      BY <1>0, <1>14, <1>15, <2>2, QueueOf
    <3>2. queue[s][e] # <<>>
      BY <3>1, NumbersOf
    <3>3. e <= connection[s] /\ e \in Nat
      BY <1>0, <3>2, LastQueue, QueueOf
    <3>4. ~\E v \in Worker : job[v] # None /\ job[v].stream = s /\ job[v].connection = e
      BY <1>7, <2>2 DEF Calls
    <3>5. e = connection[s]
      BY <1>0, <3>2, <3>4 DEF Locks
    <3>6. c \in 1..e - 1
      BY <1>0, <2>2, <3>3, <3>5
    <3>. QED
      BY <1>0, <1>2, <3>1, <3>6 DEF OrderInv, QueuesOrdered
  <2>. QED
    BY <2>1, <2>2
<1>16. \A t \in Stream : \A e \in 1..MaxConnections[t] :
         /\ Ascending(queue'[t][e]) /\ Numbers(queue'[t][e]) \subseteq Numbers(queue[t][e])
         /\ \A n \in Numbers(queue[t][e]) : n \in Nat
  <2>. SUFFICES ASSUME NEW t \in Stream, NEW e \in 1..MaxConnections[t]
       PROVE /\ Ascending(queue'[t][e]) /\ Numbers(queue'[t][e]) \subseteq Numbers(queue[t][e])
             /\ \A n \in Numbers(queue[t][e]) : n \in Nat
    OBVIOUS
  <2>1. Ascending(queue[t][e]) /\ \A n \in Numbers(queue[t][e]) : n \in Nat
    BY QueueOf DEF OrderInv, QueuesOrdered
  <2>2. CASE t = s /\ e = c
    BY <1>2, <1>14, <2>1, <2>2
  <2>3. CASE ~(t = s /\ e = c)
    BY <1>14, <2>1, <2>3
  <2>. QED
    BY <2>2, <2>3
<1>. HIDE DEF N, q
<1>17. QueuesOrdered'
  <2>. SUFFICES ASSUME NEW t \in Stream, NEW e \in 1..MaxConnections[t], NEW n \in Numbers(queue'[t][e])
       PROVE /\ n <= source[t].packets /\ \A m \in Encoded(t)' : m < n
             /\ \A d \in 1..e - 1 : \A m \in Numbers(queue'[t][d]) : m < n
    BY <1>16 DEF QueuesOrdered
  <2>1. n \in Numbers(queue[t][e]) /\ n \in Nat
    BY <1>16
  <2>2. n <= source[t].packets /\ \A m \in Encoded(t) : m < n
    BY <2>1 DEF OrderInv, QueuesOrdered
  <2>3. \A m \in Encoded(t)' : m < n
    <3>1. \A m \in Encoded(t)' : m \in Nat
      BY DEF Encoded
    <3>2. CASE t = s
      <4>1. N < n /\ \A m \in Encoded(t)' : m <= N
        BY <1>11, <1>15, <3>2
      <4>. QED
        BY <1>1, <2>1, <3>1, <4>1
    <3>3. CASE t # s
      BY <1>12, <2>2, <3>3
    <3>. QED
      BY <3>2, <3>3
  <2>4. \A d \in 1..e - 1 : d \in 1..MaxConnections[t]
    BY Bounds, QueueOf
  <2>5. \A d \in 1..e - 1 : \A m \in Numbers(queue'[t][d]) : m < n
    BY <1>16, <2>1, <2>4 DEF OrderInv, QueuesOrdered
  <2>. QED
    BY <2>2, <2>3, <2>5
<1>. QED
  BY <1>9, <1>10, <1>13, <1>17 DEF OrderInv

LEMMA OrderOfSendPacket ==
  ASSUME Types, Locks, HandsOrdered, OrderInv, NEW w \in Worker, SendPacket(w)
  PROVE OrderInv'
<1>. DEFINE fs == job[w].frames
            f == fs[1]
            L == Len(wire)
<1>. PICK new \in Job :
      /\ new.stream = job[w].stream /\ new.frames = Tail(fs) /\ fs # <<>> /\ fs \in Seq(Frame)
      /\ JobAt(w, new) /\ new # None /\ job[w] # None /\ ~job[w].encoding
      /\ wire' = Append(wire, f) /\ UNCHANGED <<queue, source>>
  BY SendPacketDoes
<1>1. /\ Len(fs) \in Nat /\ 1 \in 1..Len(fs) /\ Len(Tail(fs)) = Len(fs) - 1
      /\ \A k \in 1..Len(Tail(fs)) : k + 1 \in 1..Len(fs) /\ 1 \in 1..(k + 1) - 1 /\ Tail(fs)[k] = fs[k + 1]
  OBVIOUS
<1>2. /\ L \in Nat /\ Len(wire') = L + 1 /\ wire'[L + 1] = f
      /\ \A k \in 1..L : k \in 1..L + 1 /\ wire'[k] = wire[k]
      /\ \A k \in 1..L + 1 : k \in 1..L \/ k = L + 1
  BY DEF Types
<1>3. f.stream = job[w].stream /\ \A k \in 1..Len(Tail(fs)) : Elder(f, Tail(fs)[k])
  <2>1. Hand(w) /\ w \in Calls
    BY DEF HandsOrdered, Calls
  <2>2. f.stream = job[w].stream
    BY <1>1, <2>1 DEF Hand, OneMessage, Counted
  <2>3. ASSUME NEW k \in 1..Len(Tail(fs)) PROVE Elder(f, Tail(fs)[k])
    <3>1. f.number = fs[k + 1].number /\ f.part < fs[k + 1].part /\ f.sequence < fs[k + 1].sequence
      BY <1>1, <2>1 DEF Hand, OneMessage, Counted
    <3>. QED
      BY <1>1, <3>1 DEF Elder, Before
  <2>. QED
    BY <2>2, <2>3
<1>4. \A v \in Calls' : IF v = w THEN job'[v] = new
                                  ELSE v \in Calls /\ job'[v] = job[v] /\ job[v].stream # job[w].stream
  BY OneCall DEF Calls, JobAt
<1>5. w \in Calls
  BY DEF Calls
<1>. HIDE DEF fs, f, L
<1>6. \A j \in 1..L : wire[j].stream = job[w].stream => \A k \in 1..Len(fs) : Elder(wire[j], fs[k])
  BY <1>5 DEF OrderInv, HandsAfterWire, fs, L
<1>7. WireOrdered'
  <2>. SUFFICES ASSUME NEW j \in 1..L + 1, NEW k \in 1..L + 1, j < k, wire'[j].stream = wire'[k].stream
       PROVE Elder(wire'[j], wire'[k])
    BY <1>2 DEF WireOrdered
  <2>1. j \in 1..L
    BY <1>2
  <2>2. CASE k \in 1..L
    BY <1>2, <2>1, <2>2 DEF OrderInv, WireOrdered, L
  <2>3. CASE k = L + 1
    BY <1>1, <1>2, <1>3, <1>6, <2>1, <2>3 DEF f
  <2>. QED
    BY <1>2, <2>2, <2>3
<1>8. HandsAfterWire'
  <2>. SUFFICES ASSUME NEW v \in Calls', NEW k \in 1..Len(job'[v].frames), NEW j \in 1..L + 1,
                       wire'[j].stream = job'[v].stream
       PROVE Elder(wire'[j], job'[v].frames[k])
    BY <1>2 DEF HandsAfterWire
  <2>1. CASE v = w
    <3>1. job'[v].frames = Tail(fs) /\ job'[v].stream = job[w].stream
      BY <1>4, <2>1
    <3>. QED
      BY <1>1, <1>2, <1>3, <1>6, <3>1
  <2>2. CASE v # w
    <3>1. v \in Calls /\ job'[v] = job[v] /\ job[v].stream # job[w].stream
      BY <1>4, <2>2
    <3>2. j \in 1..L /\ wire'[j] = wire[j]
      BY <1>2, <1>3, <3>1
    <3>. QED
      BY <3>1, <3>2 DEF OrderInv, HandsAfterWire, L
  <2>. QED
    BY <2>1, <2>2
<1>9. \A s \in Stream : Encoded(s)' \subseteq Encoded(s)
  <2>. SUFFICES ASSUME NEW s \in Stream, NEW n \in Encoded(s)' PROVE n \in Encoded(s)
    OBVIOUS
  <2>0. n \in Nat
    BY DEF Encoded
  <2>1. CASE \E j \in 1..Len(wire') : wire'[j].stream = s /\ wire'[j].number = n
    <3>. PICK j \in 1..Len(wire') : wire'[j].stream = s /\ wire'[j].number = n
      BY <2>1
    <3>1. CASE j \in 1..L
      BY <1>2, <2>0, <3>1 DEF Encoded, L
    <3>2. CASE j = L + 1
      <4>1. fs[1].number = n /\ job[w].stream = s
        BY <1>2, <1>3, <3>2 DEF f
      <4>. QED
        BY <1>1, <1>5, <2>0, <4>1 DEF Encoded, fs
    <3>. QED
      BY <1>2, <3>1, <3>2
  <2>2. CASE \E v \in Calls' : job'[v].stream = s /\ \E k \in 1..Len(job'[v].frames) : job'[v].frames[k].number = n
    <3>. PICK v \in Calls' : job'[v].stream = s /\ \E k \in 1..Len(job'[v].frames) : job'[v].frames[k].number = n
      BY <2>2
    <3>1. CASE v = w
      <4>0. job'[v].stream = job[w].stream /\ job'[v].frames = Tail(fs)
        BY <1>4, <3>1
      <4>1. job[w].stream = s /\ \E k \in 1..Len(fs) : fs[k].number = n
        BY <1>1, <4>0
      <4>. QED
        BY <1>5, <2>0, <4>1 DEF Encoded, fs
    <3>2. CASE v # w
      BY <1>4, <2>0, <3>2 DEF Encoded
    <3>. QED
      BY <3>1, <3>2
  <2>. QED
    BY <2>1, <2>2 DEF Encoded
<1>10. QueuesOrdered'
  <2>1. \A s \in Stream : \A c \in 1..MaxConnections[s] : Ascending(queue'[s][c])
    BY DEF OrderInv, QueuesOrdered
  <2>. QED
    BY <1>9, <2>1, QueuesShrink DEF OrderInv
<1>. QED
  BY <1>7, <1>8, <1>9, <1>10 DEF OrderInv

LEMMA OrderStays ==
  ASSUME Types, Locks, HandsOrdered, NumberInv, StatusInv, OrderInv, [Next]_vars
  PROVE OrderInv'
<1>0. \A s \in Stream : \A c \in 1..MaxConnections[s] :
        Ascending(queue[s][c]) /\ queue[s][c] \in Seq(Packet)
        /\ Numbers(<<>>) \subseteq Numbers(queue[s][c]) /\ Ascending(<<>>)
  BY QueueOf, NumbersOf DEF OrderInv, QueuesOrdered
<1>a. ASSUME UNCHANGED <<queue, source>>, Idle PROVE OrderInv'
  BY <1>0, <1>a, OrderShrinks
<1>b. ASSUME NEW w \in Worker, Pending(w) # <<>>, job[w] # None, UNCHANGED <<source, job, wire>>,
             QueueAt(job[w].stream, job[w].connection, Tail(Pending(w)))
      PROVE OrderInv'
  <2>1. job[w].stream \in Stream /\ job[w].connection \in 1..MaxConnections[job[w].stream]
    BY <1>b, InCall
  <2>2. Ascending(Tail(Pending(w))) /\ Numbers(Tail(Pending(w))) \subseteq Numbers(Pending(w))
    BY <1>0, <1>b, <2>1, NumbersOfTail DEF Pending
  <2>3. \A s \in Stream : \A c \in 1..MaxConnections[s] :
          Ascending(queue'[s][c]) /\ Numbers(queue'[s][c]) \subseteq Numbers(queue[s][c])
    BY <1>0, <1>b, <2>2 DEF QueueAt, Pending
  <2>. QED
    BY <1>b, <2>3, OrderShrinks DEF Idle
<1>1. CASE UNCHANGED vars
  BY <1>1, <1>a DEF vars, port, Idle
<1>2. ASSUME NEW s \in Stream, SignalStep(s) PROVE OrderInv'
  <2>1. ASSUME NEW data \in Signals[s], NEW domain \in Domains, Connect(s, data, domain) PROVE OrderInv'
    <3>1. Event(data, domain).event
      BY DEF Event
    <3>2. \A t \in Stream : source'[t].packets = source[t].packets
      BY <2>1, ConnectDoes
    <3>. QED
      BY <2>1, <3>1, <3>2, ConnectDoes, OrderAfterEvent
  <2>2. ASSUME NEW data \in Descriptors \cup {None}, NEW domain \in Domains \cup {None},
               ChangeDescriptor(s, data, domain)
        PROVE OrderInv'
    <3>1. Event(data, domain).event
      BY DEF Event
    <3>2. \A t \in Stream : source'[t].packets = source[t].packets
      BY <2>2, ChangeDoes
    <3>. QED
      BY <2>2, <3>1, <3>2, ChangeDoes, OrderAfterEvent
  <2>3. CASE Disconnect(s)
    <3>1. \A t \in Stream : \A c \in 1..MaxConnections[t] : queue'[t][c] = queue[t][c] \/ queue'[t][c] = <<>>
      BY <2>3, DisconnectDoes DEF QueueAt
    <3>2. UNCHANGED <<source, job, wire>>
      BY <2>3, DisconnectDoes
    <3>3. Idle
      BY <3>2 DEF Idle
    <3>. QED
      BY <1>0, <3>1, <3>2, <3>3, OrderShrinks
  <2>4. Signals[s] \subseteq Descriptors \cup {None}
    BY StreamInputAssumption
  <2>. QED
    BY <1>2, <2>1, <2>2, <2>3, <2>4, OrderOfSendData DEF SignalStep
<1>3. ASSUME NEW s \in Stream, WriteStep(s) PROVE OrderInv'
  BY <1>3, <1>a DEF WriteStep, SetPayloadType, SetStreamId, port, Idle
<1>4. ASSUME NEW w \in Worker, WorkerStep(w) PROVE OrderInv'
  <2>1. ASSUME NEW s \in Stream, ReceiveConnected(w, s) PROVE OrderInv'
    BY <2>1, <1>a, ReceiveConnectedDoes DEF Idle, JobAt
  <2>2. ASSUME NEW s \in Stream, ReceiveUnconnected(w, s) PROVE OrderInv'
    BY <2>2, <1>a DEF ReceiveUnconnected, Idle
  <2>3. CASE ProcessEventPacket(w)
    BY <2>3, <1>b, ProcessEventPacketDoes DEF Draining
  <2>4. CASE SkipDataPacket(w)
    BY <2>4, <1>b, SkipDataPacketDoes DEF Draining
  <2>5. CASE EncodeReturns(w)
    <3>. PICK new \in Job : new.stream = job[w].stream /\ new.frames = job[w].frames /\ JobAt(w, new) /\ new # None
                            /\ job[w] # None /\ UNCHANGED <<queue, source, wire>>
      BY <2>5, EncodeReturnsDoes
    <3>1. Calls' = Calls /\ \A v \in Calls : job'[v].stream = job[v].stream /\ job'[v].frames = job[v].frames
      BY DEF Calls, JobAt
    <3>2. WireOrdered' /\ HandsAfterWire'
      BY <3>1 DEF OrderInv, WireOrdered, HandsAfterWire
    <3>3. \A s \in Stream : Encoded(s)' \subseteq Encoded(s)
      BY <3>1 DEF Encoded
    <3>4. QueuesOrdered'
      BY <1>0, <3>3, QueuesShrink DEF OrderInv
    <3>. QED
      BY <3>2, <3>3, <3>4 DEF OrderInv
  <2>6. CASE ReceiveReturns(w)
    BY <2>6, <1>a, ReceiveReturnsDoes DEF Idle, JobAt
  <2>. QED
    BY <1>4, <2>1, <2>2, <2>3, <2>4, <2>5, <2>6, OrderOfEncode, OrderOfSendPacket DEF WorkerStep
<1>5. CASE StatusStep
  BY <1>5, <1>a, StatusStepDoes DEF Idle
<1>. QED
  BY <1>1, <1>2, <1>3, <1>4, <1>5 DEF Next

--------------------------------------------------------------------------------
(* The descriptors that the packets in a queue meet.                         *)

LEMMA ThenFirst == ASSUME NEW q, NEW old, NEW d, Then(q, 1, old, d) PROVE d = old
<1>1. ~\E j \in 1..1 - 1 : TRUE
  OBVIOUS
<1>. QED
  BY <1>1 DEF Then

LEMMA FitNothing == ASSUME NEW old PROVE Fit(<<>>, old)
<1>1. Len(<<>>) = 0
  OBVIOUS
<1>. QED
  BY <1>1 DEF Fit

LEMMA FitAppend ==
  ASSUME NEW q \in Seq(Packet), NEW p \in Packet, NEW old
  PROVE /\ Fit(q, old) /\ (p.event \/ Ends(q, old, p.data)) => Fit(Append(q, p), old)
        /\ \A d : (Tells(p) /\ p.data = d) \/ (~Tells(p) /\ Ends(q, old, d)) => Ends(Append(q, p), old, d)
<1>. DEFINE L == Len(q)
            r == Append(q, p)
<1>1. /\ L \in Nat /\ Len(r) = L + 1 /\ r[L + 1] = p
      /\ \A k \in 1..L : k \in 1..L + 1 /\ r[k] = q[k]
      /\ \A k \in 1..L + 1 : k \in 1..L \/ k = L + 1
  OBVIOUS
<1>. HIDE DEF L, r
<1>2. ASSUME NEW k \in 1..L + 1, NEW d, Then(q, k, old, d) PROVE Then(r, k, old, d)
  <2>1. \A j \in 1..k - 1 : j \in 1..L /\ r[j] = q[j]
    BY <1>1
  <2>2. \A j \in 1..k - 1 : \A i \in j + 1..k - 1 : i \in 1..k - 1
    OBVIOUS
  <2>. QED
    BY <1>2, <2>1, <2>2 DEF Then
<1>3. ASSUME Fit(q, old), p.event \/ Ends(q, old, p.data), NEW k \in 1..L + 1, ~r[k].event
      PROVE Then(r, k, old, r[k].data)
  <2>1. CASE k \in 1..L
    BY <1>1, <1>2, <1>3, <2>1 DEF Fit, L
  <2>2. CASE k = L + 1
    BY <1>1, <1>2, <1>3, <2>2 DEF Ends, L
  <2>. QED
    BY <1>1, <2>1, <2>2
<1>4. ASSUME NEW d, Tells(p), p.data = d PROVE Then(r, L + 2, old, d)
  <2>1. L + 1 \in 1..(L + 2) - 1 /\ ~\E i \in (L + 1) + 1..(L + 2) - 1 : TRUE
    BY <1>1
  <2>. QED
    BY <1>1, <1>4, <2>1 DEF Then
<1>5. ASSUME NEW d, ~Tells(p), Then(q, L + 1, old, d) PROVE Then(r, L + 2, old, d)
  <2>1. Then(r, L + 1, old, d)
    BY <1>1, <1>2, <1>5
  <2>2. \A j : j \in 1..(L + 2) - 1 <=> j \in 1..(L + 1) - 1 \/ j = L + 1
    BY <1>1
  <2>3. \A j \in 1..(L + 1) - 1 : \A i : i \in j + 1..(L + 2) - 1 <=> i \in j + 1..(L + 1) - 1 \/ i = L + 1
    BY <1>1
  <2>4. ~Tells(r[L + 1])
    BY <1>1, <1>5
  <2>5. CASE (\A j \in 1..(L + 1) - 1 : ~Tells(r[j])) /\ d = old
    BY <2>2, <2>4, <2>5 DEF Then
  <2>6. CASE \E j \in 1..(L + 1) - 1 : /\ Tells(r[j]) /\ r[j].data = d
                                       /\ \A i \in j + 1..(L + 1) - 1 : ~Tells(r[i])
    BY <2>2, <2>3, <2>4, <2>6 DEF Then
  <2>. QED
    BY <2>1, <2>5, <2>6 DEF Then
<1>6. Fit(q, old) /\ (p.event \/ Ends(q, old, p.data)) => Fit(r, old)
  BY <1>1, <1>3 DEF Fit
<1>7. \A d : (Tells(p) /\ p.data = d) \/ (~Tells(p) /\ Ends(q, old, d)) => Ends(r, old, d)
  <2>1. Len(r) + 1 = L + 2
    BY <1>1
  <2>. QED
    BY <1>4, <1>5, <2>1 DEF Ends, L
<1>. QED
  BY <1>6, <1>7 DEF r

LEMMA ThenTail ==
  ASSUME NEW q \in Seq(Packet), q # <<>>, NEW k \in 1..Len(q), NEW old, NEW d, Then(q, k + 1, old, d)
  PROVE Then(Tail(q), k, IF Tells(Head(q)) THEN Head(q).data ELSE old, d)
<1>. DEFINE L == Len(q)
            r == Tail(q)
<1>1. /\ L \in Nat /\ Len(r) = L - 1 /\ Head(q) = q[1]
      /\ \A i \in 1..k - 1 : r[i] = q[i + 1]
  OBVIOUS
<1>2. \A i \in 1..k - 1 : i + 1 \in 1..k + 1 - 1
  BY <1>1
<1>3. \A i \in 1..k + 1 - 1 : i = 1 \/ i - 1 \in 1..k - 1
  BY <1>1
<1>4. 1 \in 1..k + 1 - 1
  OBVIOUS
<1>. HIDE DEF L, r
<1>5. CASE (\A j \in 1..k + 1 - 1 : ~Tells(q[j])) /\ d = old
  BY <1>1, <1>2, <1>4, <1>5 DEF Then
<1>6. ASSUME NEW j \in 1..k + 1 - 1, Tells(q[j]), q[j].data = d, \A i \in j + 1..k + 1 - 1 : ~Tells(q[i])
      PROVE Then(r, k, IF Tells(q[1]) THEN q[1].data ELSE old, d)
  <2>1. CASE j = 1
    <3>1. \A i \in 1..k - 1 : i + 1 \in j + 1..k + 1 - 1
      BY <2>1
    <3>2. \A i \in 1..k - 1 : ~Tells(r[i])
      BY <1>1, <1>6, <3>1
    <3>. QED
      BY <1>6, <2>1, <3>2 DEF Then
  <2>2. CASE j # 1
    <3>1. j - 1 \in 1..k - 1 /\ r[j - 1] = q[j]
      BY <1>1, <1>3, <2>2
    <3>2. \A i \in (j - 1) + 1..k - 1 : i \in 1..k - 1 /\ i + 1 \in j + 1..k + 1 - 1
      BY <3>1
    <3>3. \A i \in (j - 1) + 1..k - 1 : ~Tells(r[i])
      BY <1>1, <1>6, <3>2
    <3>. QED
      BY <1>6, <3>1, <3>3 DEF Then
  <2>. QED
    BY <2>1, <2>2
<1>. QED
  BY <1>1, <1>5, <1>6 DEF Then, r

LEMMA FitTail ==
  ASSUME NEW q \in Seq(Packet), q # <<>>, NEW old, Fit(q, old)
  PROVE /\ Fit(Tail(q), IF Tells(Head(q)) THEN Head(q).data ELSE old)
        /\ \A d : Ends(q, old, d) => Ends(Tail(q), IF Tells(Head(q)) THEN Head(q).data ELSE old, d)
        /\ ~Head(q).event => Head(q).data = old
<1>. DEFINE new == IF Tells(Head(q)) THEN Head(q).data ELSE old
<1>1. /\ Len(q) \in Nat /\ Len(Tail(q)) = Len(q) - 1 /\ Head(q) = q[1] /\ 1 \in 1..Len(q) /\ Len(q) \in 1..Len(q)
      /\ \A k \in 1..Len(q) - 1 : k \in 1..Len(q) /\ k + 1 \in 1..Len(q) /\ Tail(q)[k] = q[k + 1]
  OBVIOUS
<1>2. \A k \in 1..Len(q) : \A d : Then(q, k + 1, old, d) => Then(Tail(q), k, new, d)
  BY ThenTail
<1>. HIDE DEF new
<1>3. Fit(Tail(q), new)
  BY <1>1, <1>2 DEF Fit
<1>4. \A d : Ends(q, old, d) => Ends(Tail(q), new, d)
  <2>1. Len(Tail(q)) + 1 = Len(q)
    BY <1>1
  <2>. QED
    BY <1>1, <1>2, <2>1 DEF Ends
<1>5. ~Head(q).event => Head(q).data = old
  BY <1>1, ThenFirst DEF Fit
<1>. QED
  BY <1>3, <1>4, <1>5 DEF new

--------------------------------------------------------------------------------
(* What fits, action by action.                                              *)

LEMMA FitInit == ASSUME Init PROVE FitInv
<1>1. \A s \in Stream : ~stream[s].isConfigured /\ ~connected[s]
  BY DEF Init
<1>2. wire = <<>> /\ Calls = {} /\ \A s \in Stream : \A c \in 1..MaxConnections[s] : queue[s][c] = <<>>
  BY DEF Init, Calls
<1>3. QueuesFit
  BY <1>1, <1>2, FitNothing DEF QueuesFit, QueueFits
<1>4. HandsFit /\ ConfiguredFramesFit
  BY <1>2 DEF HandsFit, ConfiguredFramesFit
<1>5. \A s \in Stream : Suited(stream[s])
  BY <1>1 DEF Suited
<1>. QED
  BY <1>3, <1>4, <1>5 DEF FitInv

LEMMA QueueFitsStays ==
  ASSUME NEW s \in Stream, NEW c \in 1..MaxConnections[s], QueueFits(s, c), queue'[s][c] = queue[s][c],
         Bases(s, c)' \subseteq Bases(s, c),
         connected'[s] /\ c = connection'[s] =>
           connected[s] /\ c = connection[s] /\ source'[s].data = source[s].data
  PROVE QueueFits(s, c)'
BY DEF QueueFits

\* The calls and the descriptors of the blocks stay.
SameCalls ==
  /\ Calls' = Calls
  /\ \A w \in Calls : job'[w].stream = job[w].stream /\ job'[w].connection = job[w].connection

LEMMA BasesStay ==
  ASSUME SameCalls, NEW s \in Stream, stream'[s].data = stream[s].data, NEW c \in 1..MaxConnections[s]
  PROVE Bases(s, c)' \subseteq Bases(s, c)
BY DEF Bases, SameCalls

LEMMA QueuesFitStay ==
  ASSUME QueuesFit, SameCalls, UNCHANGED <<queue, source, connected, connection>>,
         \A s \in Stream : stream'[s].data = stream[s].data
  PROVE QueuesFit'
BY BasesStay, QueueFitsStays DEF QueuesFit

LEMMA SameJobs == ASSUME job' = job PROVE SameCalls /\ (HandsFit => HandsFit')
BY DEF SameCalls, Calls, HandsFit

LEMMA SuitedStays ==
  ASSUME NEW r, NEW q, Suited(r), q.isConfigured = r.isConfigured, q.retyped = r.retyped, q.data = r.data,
         q.payloadType = r.payloadType, q.scaling = r.scaling
  PROVE Suited(q)
BY DEF Suited

LEMMA WireFitStays == ASSUME ConfiguredFramesFit, wire' = wire PROVE ConfiguredFramesFit'
BY DEF ConfiguredFramesFit

\* The signal puts a packet into the queue of the connection that the port has.
LEMMA FitAfterEnqueue ==
  ASSUME Types, Types', QueuesFit, NEW s \in Stream, NEW c \in 1..MaxConnections[s], NEW packet \in Packet,
         QueueAt(s, c, Append(queue[s][c], packet)), UNCHANGED <<job, stream>>,
         connected'[s] /\ c = connection'[s],
         \A t \in Stream \ {s} :
           connected'[t] = connected[t] /\ connection'[t] = connection[t] /\ source'[t] = source[t],
         packet.event \/ \A old \in Bases(s, c) : Ends(queue[s][c], old, packet.data),
         source'[s].data # None =>
           \/ Tells(packet) /\ packet.data = source'[s].data
           \/ ~Tells(packet) /\ \A old \in Bases(s, c) : Ends(queue[s][c], old, source'[s].data)
  PROVE QueuesFit'
<1>. SUFFICES ASSUME NEW t \in Stream, NEW e \in 1..MaxConnections[t] PROVE QueueFits(t, e)'
  BY DEF QueuesFit
<1>1. SameCalls
  BY SameJobs
<1>2. Bases(t, e)' \subseteq Bases(t, e)
  BY <1>1, BasesStay
<1>3. QueueFits(t, e)
  BY DEF QueuesFit
<1>4. CASE t = s /\ e = c
  <2>1. queue'[t][e] = Append(queue[s][c], packet)
    BY <1>4 DEF QueueAt
  <2>2. queue[s][c] \in Seq(Packet)
    BY QueueOf
  <2>. SUFFICES ASSUME NEW old \in Bases(t, e)'
       PROVE /\ Fit(queue'[t][e], old)
             /\ source'[t].data # None => Ends(queue'[t][e], old, source'[t].data)
    BY DEF QueueFits
  <2>3. old \in Bases(t, e) /\ Bases(t, e) = Bases(s, c)
    BY <1>2, <1>4
  <2>4. Fit(queue[s][c], old)
    BY <1>3, <1>4, <2>3 DEF QueueFits
  <2>5. packet.event \/ Ends(queue[s][c], old, packet.data)
    BY <2>3
  <2>6. source'[s].data # None =>
          \/ Tells(packet) /\ packet.data = source'[s].data
          \/ ~Tells(packet) /\ Ends(queue[s][c], old, source'[s].data)
    BY <2>3
  <2>. QED
    BY <1>4, <2>1, <2>2, <2>4, <2>5, <2>6, FitAppend
<1>5. CASE t = s /\ e # c
  <2>1. queue'[t][e] = queue[t][e]
    BY <1>5 DEF QueueAt
  <2>2. ~(connected'[t] /\ e = connection'[t])
    BY <1>5
  <2>. QED
    BY <1>2, <1>3, <2>1, <2>2, QueueFitsStays
<1>6. CASE t # s
  <2>1. queue'[t][e] = queue[t][e]
    BY <1>6 DEF QueueAt
  <2>. QED
    BY <1>2, <1>3, <1>6, <2>1, QueueFitsStays
<1>. QED
  BY <1>4, <1>5, <1>6

LEMMA FitOfSignal ==
  ASSUME Types, Types', Locks, FitInv, NEW s \in Stream, SignalStep(s)
  PROVE FitInv'
<1>a. ASSUME UNCHANGED <<stream, job, wire>>, QueuesFit' PROVE FitInv'
  BY <1>a, SameJobs, WireFitStays DEF FitInv
<1>1. ASSUME NEW data \in Signals[s], NEW domain \in Domains, Connect(s, data, domain) PROVE FitInv'
  <2>. DEFINE packet == Event(data, domain)
  <2>1. packet.event /\ packet.data = data /\ (data # None => Tells(packet))
    BY DEF Event, Tells
  <2>. HIDE DEF packet
  <2>2. /\ connection[s] + 1 \in 1..MaxConnections[s] /\ connection'[s] = connection[s] + 1 /\ connected'[s]
        /\ source'[s].data = data /\ UNCHANGED <<stream, job, wire>>
        /\ QueueAt(s, connection[s] + 1, Append(queue[s][connection[s] + 1], packet)) /\ packet \in Packet
        /\ \A t \in Stream \ {s} :
             connected'[t] = connected[t] /\ connection'[t] = connection[t] /\ source'[t] = source[t]
    BY <1>1, ConnectDoes DEF packet
  <2>3. QueuesFit'
    BY <2>1, <2>2, FitAfterEnqueue DEF FitInv
  <2>. QED
    BY <1>a, <2>2, <2>3
<1>2. ASSUME NEW data \in Descriptors \cup {None}, NEW domain \in Domains \cup {None},
             ChangeDescriptor(s, data, domain)
      PROVE FitInv'
  <2>. DEFINE packet == Event(data, domain)
  <2>1. packet.event /\ packet.data = data /\ (data # None <=> Tells(packet))
    BY DEF Event, Tells
  <2>. HIDE DEF packet
  <2>2. /\ connection[s] \in 1..MaxConnections[s] /\ connected[s]
        /\ source'[s].data = (IF data = None THEN source[s].data ELSE data)
        /\ UNCHANGED <<stream, job, wire, connected, connection>>
        /\ QueueAt(s, connection[s], Append(queue[s][connection[s]], packet)) /\ packet \in Packet
        /\ \A t \in Stream \ {s} : source'[t] = source[t]
    BY <1>2, ChangeDoes DEF packet
  <2>3. \A old \in Bases(s, connection[s]) :
          source[s].data # None => Ends(queue[s][connection[s]], old, source[s].data)
    BY <2>2 DEF FitInv, QueuesFit, QueueFits
  <2>4. source'[s].data # None =>
          \/ Tells(packet) /\ packet.data = source'[s].data
          \/ ~Tells(packet) /\ \A old \in Bases(s, connection[s]) :
                 Ends(queue[s][connection[s]], old, source'[s].data)
    BY <2>1, <2>2, <2>3
  <2>5. QueuesFit'
    BY <2>1, <2>2, <2>4, FitAfterEnqueue DEF FitInv
  <2>. QED
    BY <1>a, <2>2, <2>5
<1>3. ASSUME NEW length \in Lengths[s], NEW parts \in Parts[s], SendData(s, length, parts) PROVE FitInv'
  <2>. PICK packet \in DataPacket :
        /\ packet.data = source[s].data /\ connected[s] /\ connection[s] \in 1..MaxConnections[s]
        /\ source'[s].data = source[s].data /\ \A t \in Stream \ {s} : source'[t] = source[t]
        /\ QueueAt(s, connection[s], Append(queue[s][connection[s]], packet))
        /\ UNCHANGED <<connected, connection, stream, job, wire>>
    BY <1>3, SendDataDoes
  <2>1. packet \in Packet /\ ~Tells(packet)
    BY DEF Packet, DataPacket, Tells
  <2>2. source[s].data # None
    BY <1>3 DEF SendData
  <2>3. \A old \in Bases(s, connection[s]) : Ends(queue[s][connection[s]], old, source[s].data)
    BY <2>2 DEF FitInv, QueuesFit, QueueFits
  <2>4. QueuesFit'
    BY <2>1, <2>2, <2>3, FitAfterEnqueue DEF FitInv
  <2>. QED
    BY <1>a, <2>4
<1>4. CASE Disconnect(s)
  <2>1. /\ \A t \in Stream \ {s} : connected'[t] = connected[t] /\ stream'[t] = stream[t]
        /\ \A field \in {"streamId", "payloadType", "isConfigured", "data", "scaling", "retyped"} :
             stream'[s][field] = stream[s][field]
        /\ ~connected'[s] /\ UNCHANGED <<connection, source, job, wire>>
    BY <1>4, DisconnectDoes
  <2>2. \A t \in Stream : \A c \in 1..MaxConnections[t] :
          queue'[t][c] = queue[t][c] \/ (t = s /\ queue'[t][c] = <<>>)
    BY <1>4, DisconnectDoes DEF QueueAt
  <2>3. \A t \in Stream : stream'[t].data = stream[t].data
    BY <2>1
  <2>4. \A t \in Stream : Suited(stream'[t])
    <3>. TAKE t \in Stream
    <3>1. CASE t = s
      BY <2>1, <3>1, SuitedStays DEF FitInv
    <3>2. CASE t # s
      BY <2>1, <3>2 DEF FitInv
    <3>. QED
      BY <3>1, <3>2
  <2>5. SameCalls
    BY <2>1, SameJobs
  <2>6. ASSUME NEW t \in Stream, NEW c \in 1..MaxConnections[t] PROVE QueueFits(t, c)'
    <3>1. Bases(t, c)' \subseteq Bases(t, c)
      BY <2>3, <2>5, BasesStay
    <3>2. QueueFits(t, c)
      BY DEF FitInv, QueuesFit
    <3>3. CASE queue'[t][c] = queue[t][c]
      BY <2>1, <3>1, <3>2, <3>3, QueueFitsStays
    <3>4. CASE t = s /\ queue'[t][c] = <<>>
      BY <2>1, <3>4, FitNothing DEF QueueFits
    <3>. QED
      BY <2>2, <3>3, <3>4
  <2>7. QueuesFit'
    BY <2>6 DEF QueuesFit
  <2>. QED
    BY <2>1, <2>4, <2>7, SameJobs, WireFitStays DEF FitInv
<1>5. Signals[s] \subseteq Descriptors \cup {None}
  BY StreamInputAssumption
<1>. QED
  BY <1>1, <1>2, <1>3, <1>4, <1>5 DEF SignalStep

LEMMA FitOfWrite ==
  ASSUME Types, Locks, FitInv, NEW s \in Stream, WriteStep(s)
  PROVE FitInv'
<1>a. ASSUME UNCHANGED <<connected, connection, queue, source, job, wire>>,
             \A t \in Stream : stream'[t].data = stream[t].data, \A t \in Stream : Suited(stream'[t])
      PROVE FitInv'
  BY <1>a, SameJobs, QueuesFitStay, WireFitStays DEF FitInv
<1>1. ASSUME NEW type \in PayloadTypes, SetPayloadType(s, type) PROVE FitInv'
  <2>1. \A t \in Stream : Suited(stream'[t])
    BY <1>1, SetPayloadTypeDoes DEF FitInv, Suited
  <2>. QED
    BY <1>1, <1>a, <2>1, SetPayloadTypeDoes
<1>2. ASSUME NEW id \in StreamIds, SetStreamId(s, id) PROVE FitInv'
  <2>1. /\ \A t \in Stream \ {s} : stream'[t] = stream[t]
        /\ \A field \in {"payloadType", "isConfigured", "data", "scaling", "retyped"} :
           stream'[s][field] = stream[s][field]
    BY <1>2, SetStreamIdDoes
  <2>2. Suited(stream'[s])
    BY <2>1, SuitedStays DEF FitInv
  <2>3. \A t \in Stream : stream'[t].data = stream[t].data /\ Suited(stream'[t])
    BY <2>1, <2>2 DEF FitInv
  <2>. QED
    BY <1>2, <1>a, <2>3, SetStreamIdDoes
<1>3. Selected[s] \subseteq PayloadTypes
  BY StreamInputAssumption
<1>. QED
  BY <1>1, <1>2, <1>3 DEF WriteStep

\* The only call in a block knows the descriptor that its queue begins with.
LEMMA BaseOfCall ==
  ASSUME Types, Locks, NEW w \in Worker, job[w] # None, NEW s \in Stream, s = job[w].stream,
         NEW c \in 1..MaxConnections[s]
  PROVE /\ c = job[w].connection => Bases(s, c) = {stream[s].data}
        /\ c # job[w].connection => Bases(s, c) = Descriptors \cup {None}
<1>1. \A v \in Calls : job[v].stream = s => v = w
  BY OneCall DEF Calls
<1>. QED
  BY <1>1 DEF Bases, Calls

\* A call takes a packet from its queue.
LEMMA FitAfterDequeue ==
  ASSUME Types, Types', Locks, Locks', QueuesFit, SameCalls, NEW w \in Worker, job[w] # None, Pending(w) # <<>>,
         QueueAt(job[w].stream, job[w].connection, Tail(Pending(w))),
         UNCHANGED <<connected, connection, source>>,
         \A t \in Stream :
           stream'[t].data = IF t = job[w].stream /\ Tells(Head(Pending(w))) THEN Head(Pending(w)).data
                             ELSE stream[t].data
  PROVE QueuesFit'
<1>z. job[w].stream \in Stream /\ job[w].connection \in 1..MaxConnections[job[w].stream]
  BY InCall
<1>. PICK s \in Stream : s = job[w].stream
  BY <1>z
<1>. PICK c \in 1..MaxConnections[s] : c = job[w].connection
  BY <1>z
<1>. DEFINE q == queue[s][c]
<1>0. q # <<>> /\ QueueAt(s, c, Tail(q)) /\ q \in Seq(Packet)
      /\ \A t \in Stream : stream'[t].data = IF t = s /\ Tells(Head(q)) THEN Head(q).data ELSE stream[t].data
  BY QueueOf DEF Pending
<1>1. job'[w] # None /\ job'[w].stream = s /\ job'[w].connection = c
  BY DEF SameCalls, Calls
<1>2. QueueFits(s, c) /\ Bases(s, c) = {stream[s].data}
  BY BaseOfCall DEF QueuesFit
<1>. HIDE DEF q
<1>. SUFFICES ASSUME NEW t \in Stream, NEW e \in 1..MaxConnections[t] PROVE QueueFits(t, e)'
  BY DEF QueuesFit
<1>3. QueueFits(t, e)
  BY DEF QueuesFit
<1>4. CASE t = s /\ e = c
  <2>1. \A old \in Bases(t, e)' : old = stream'[t].data
    <3>1. \A v \in Calls' : job'[v].stream = t => v = w
      BY <1>1, <1>4, OneCall DEF SameCalls, Calls
    <3>. QED
      BY <1>1, <1>4, <3>1 DEF Bases
  <2>2. queue'[t][e] = Tail(q)
    BY <1>0, <1>4 DEF QueueAt
  <2>3. stream'[t].data = IF Tells(Head(q)) THEN Head(q).data ELSE stream[s].data
    BY <1>0, <1>4
  <2>4. /\ Fit(q, stream[s].data)
        /\ connected[s] /\ c = connection[s] /\ source[s].data # None => Ends(q, stream[s].data, source[s].data)
    BY <1>2 DEF QueueFits, q
  <2>5. Fit(Tail(q), stream'[t].data)
    BY <1>0, <2>3, <2>4, FitTail
  <2>6. connected[s] /\ c = connection[s] /\ source[s].data # None => Ends(Tail(q), stream'[t].data, source[s].data)
    BY <1>0, <2>3, <2>4, FitTail
  <2>. QED
    BY <1>4, <2>1, <2>2, <2>5, <2>6 DEF QueueFits
<1>5. CASE t = s /\ e # c
  <2>1. Bases(t, e) = Descriptors \cup {None}
    BY <1>5, BaseOfCall
  <2>2. Bases(t, e)' \subseteq Descriptors \cup {None}
    <3>1. stream'[t] \in StreamRecord
      BY DEF Types
    <3>. QED
      BY <3>1 DEF Bases, StreamRecord
  <2>3. queue'[t][e] = queue[t][e]
    BY <1>0, <1>5 DEF QueueAt
  <2>. QED
    BY <1>3, <2>1, <2>2, <2>3, QueueFitsStays
<1>6. CASE t # s
  <2>1. stream'[t].data = stream[t].data /\ queue'[t][e] = queue[t][e]
    BY <1>0, <1>6 DEF QueueAt
  <2>. QED
    BY <1>3, <2>1, BasesStay, QueueFitsStays
<1>. QED
  BY <1>4, <1>5, <1>6

LEMMA FitOfWorker ==
  ASSUME Types, Types', Locks, Locks', FitInv, NEW w \in Worker, WorkerStep(w)
  PROVE FitInv'
<1>a. ASSUME stream' = stream, QueuesFit', HandsFit', wire' = wire PROVE FitInv'
  BY <1>a, WireFitStays DEF FitInv
<1>1. ASSUME NEW s \in Stream, ReceiveConnected(w, s) PROVE FitInv'
  <2>. PICK new \in Job :
        /\ new.stream = s /\ new.connection = connection[s] /\ new.frames = <<>>
        /\ JobAt(w, new) /\ new # None /\ job[w] = None
        /\ streamLock[s] = None
        /\ UNCHANGED <<stream, connected, connection, queue, source, wire>>
    BY <1>1, ReceiveConnectedDoes
  <2>1. \A v \in Calls' : IF v = w THEN job'[v] = new ELSE v \in Calls /\ job'[v] = job[v]
    BY DEF Calls, JobAt
  <2>2. HandsFit'
    BY <2>1 DEF FitInv, HandsFit
  <2>3. \A v \in Calls : job[v].stream # s
    BY NotFree DEF Calls
  <2>4. ASSUME NEW t \in Stream, NEW c \in 1..MaxConnections[t] PROVE QueueFits(t, c)'
    <3>1. QueueFits(t, c)
      BY DEF FitInv, QueuesFit
    <3>2. CASE t # s \/ c = connection[s]
      <4>1. \A v \in Calls' : job'[v].stream = t /\ job'[v].connection # c => v \in Calls /\ job'[v] = job[v]
        BY <2>1, <3>2
      <4>2. \A v \in Calls : v \in Calls' /\ job'[v] = job[v]
        BY DEF Calls, JobAt
      <4>3. Bases(t, c)' \subseteq Bases(t, c)
        BY <4>1, <4>2 DEF Bases
      <4>. QED
        BY <3>1, <4>3, QueueFitsStays
    <3>3. CASE t = s /\ c # connection[s]
      <4>1. queue[t][c] = <<>>
        BY <2>3, <3>3 DEF Locks, Calls
      <4>. QED
        BY <3>3, <4>1, FitNothing DEF QueueFits
    <3>. QED
      BY <3>2, <3>3
  <2>5. QueuesFit'
    BY <2>4 DEF QueuesFit
  <2>. QED
    BY <1>a, <2>2, <2>5
<1>2. ASSUME NEW s \in Stream, ReceiveUnconnected(w, s) PROVE FitInv'
  <2>1. UNCHANGED <<stream, connected, connection, queue, source, job, wire>>
    BY <1>2 DEF ReceiveUnconnected
  <2>. QED
    BY <1>a, <2>1, SameJobs, QueuesFitStay DEF FitInv
<1>3. CASE ProcessEventPacket(w)
  <2>. PICK r \in StreamRecord :
        /\ r.data = (IF Tells(Head(Pending(w))) THEN Head(Pending(w)).data ELSE stream[job[w].stream].data)
        /\ Suited(r)
        /\ \A t \in Stream : stream'[t] = IF t = job[w].stream THEN r ELSE stream[t]
        /\ Draining(w) /\ Pending(w) # <<>>
        /\ QueueAt(job[w].stream, job[w].connection, Tail(Pending(w)))
        /\ UNCHANGED <<connected, connection, source, job, wire>>
    BY <1>3, ProcessEventPacketDoes
  <2>1. \A t \in Stream : Suited(stream'[t])
    BY DEF FitInv
  <2>2. \A t \in Stream :
          stream'[t].data = IF t = job[w].stream /\ Tells(Head(Pending(w))) THEN Head(Pending(w)).data
                            ELSE stream[t].data
    OBVIOUS
  <2>3. QueuesFit'
    BY <2>2, SameJobs, FitAfterDequeue DEF FitInv, Draining
  <2>. QED
    BY <2>1, <2>3, SameJobs, WireFitStays DEF FitInv
<1>b. ASSUME SameCalls, Draining(w), Pending(w) # <<>>, ~Head(Pending(w)).event,
             QueueAt(job[w].stream, job[w].connection, Tail(Pending(w))),
             UNCHANGED <<stream, connected, connection, source>>
      PROVE QueuesFit'
  <2>1. \A t \in Stream :
          stream'[t].data = IF t = job[w].stream /\ Tells(Head(Pending(w))) THEN Head(Pending(w)).data
                            ELSE stream[t].data
    BY <1>b DEF Tells
  <2>. QED
    BY <1>b, <2>1, FitAfterDequeue DEF FitInv, Draining
<1>4. CASE SkipDataPacket(w)
  <2>1. /\ Draining(w) /\ Pending(w) # <<>> /\ ~Head(Pending(w)).event
        /\ QueueAt(job[w].stream, job[w].connection, Tail(Pending(w)))
        /\ UNCHANGED <<stream, connected, connection, source, job, wire>>
    BY <1>4, SkipDataPacketDoes
  <2>2. SameCalls /\ HandsFit'
    BY <2>1, SameJobs DEF FitInv
  <2>. QED
    BY <1>a, <1>b, <2>1, <2>2
<1>5. CASE Encode(w)
  <2>0. job[w].stream \in Stream /\ job[w].connection \in 1..MaxConnections[job[w].stream] /\ job[w] # None
    BY <1>5, InCall DEF Encode, Draining
  <2>. PICK s \in Stream : s = job[w].stream
    BY <2>0
  <2>. PICK packet : packet = Head(Pending(w))
    OBVIOUS
  <2>. PICK new \in Job :
        /\ new.stream = s /\ new.connection = job[w].connection /\ new.frames = Frames(s, packet)
        /\ JobAt(w, new) /\ new # None
        /\ Draining(w) /\ Pending(w) # <<>> /\ packet \in DataPacket /\ ~packet.event
        /\ stream[s].isConfigured
        /\ QueueAt(job[w].stream, job[w].connection, Tail(Pending(w)))
        /\ UNCHANGED <<stream, connected, connection, source, wire>>
    BY <1>5, EncodeDoes
  <2>1. SameCalls
    BY <2>0 DEF SameCalls, Calls, JobAt
  <2>2. QueuesFit'
    BY <1>b, <2>1
  <2>3. packet.data = stream[s].data
    <3>0. job[w].connection \in 1..MaxConnections[s]
      BY <2>0
    <3>1. QueueFits(s, job[w].connection) /\ Bases(s, job[w].connection) = {stream[s].data}
      <4>1. QueueFits(s, job[w].connection)
        BY <3>0 DEF FitInv, QueuesFit
      <4>2. Bases(s, job[w].connection) = {stream[s].data}
        BY <2>0, <3>0, BaseOfCall
      <4>. QED
        BY <4>1, <4>2
    <3>2. Pending(w) = queue[s][job[w].connection] /\ Pending(w) \in Seq(Packet)
      BY <2>0, QueueOf DEF Pending
    <3>3. Fit(Pending(w), stream[s].data)
      BY <3>1, <3>2 DEF QueueFits
    <3>. QED
      BY <3>2, <3>3, FitTail
  <2>4. ASSUME NEW k \in 1..Len(new.frames), ~new.frames[k].retyped PROVE Fits(new.frames[k])
    <3>1. k \in 1..packet.parts
      BY FramesAreFrames
    <3>2. new.frames[k] =
            [stream |-> s, streamId |-> stream[s].streamId, sequence |-> sequence[stream[s].streamId] + k - 1,
             payloadType |-> stream[s].payloadType, scaling |-> stream[s].scaling,
             data |-> packet.data, number |-> packet.number, part |-> k, retyped |-> stream[s].retyped]
      BY <3>1, FramesAreFrames
    <3>3. /\ new.frames[k].data = stream[s].data /\ new.frames[k].payloadType = stream[s].payloadType
          /\ new.frames[k].scaling = stream[s].scaling /\ ~stream[s].retyped
      BY <2>3, <2>4, <3>2
    <3>. QED
      BY <3>3 DEF FitInv, Suited, Fits
  <2>5. \A v \in Calls' : IF v = w THEN job'[v] = new ELSE v \in Calls /\ job'[v] = job[v]
    BY DEF Calls, JobAt
  <2>6. HandsFit'
    BY <2>4, <2>5 DEF FitInv, HandsFit
  <2>. QED
    BY <1>a, <2>2, <2>6
<1>6. CASE EncodeReturns(w)
  <2>. PICK new \in Job :
        /\ new.stream = job[w].stream /\ new.connection = job[w].connection /\ new.frames = job[w].frames
        /\ JobAt(w, new) /\ new # None /\ job[w] # None
        /\ UNCHANGED <<stream, connected, connection, queue, source, wire>>
    BY <1>6, EncodeReturnsDoes
  <2>1. SameCalls /\ \A v \in Calls : job'[v].frames = job[v].frames
    BY DEF SameCalls, Calls, JobAt
  <2>2. HandsFit'
    BY <2>1 DEF FitInv, HandsFit, SameCalls
  <2>. QED
    BY <1>a, <2>1, <2>2, QueuesFitStay DEF FitInv
<1>7. CASE SendPacket(w)
  <2>. DEFINE fs == job[w].frames
  <2>. PICK new \in Job :
        /\ new.stream = job[w].stream /\ new.connection = job[w].connection
        /\ new.frames = Tail(fs) /\ fs # <<>> /\ fs \in Seq(Frame)
        /\ JobAt(w, new) /\ new # None /\ job[w] # None
        /\ wire' = Append(wire, fs[1])
        /\ UNCHANGED <<stream, connected, connection, queue, source>>
    BY <1>7, SendPacketDoes
  <2>1. SameCalls /\ \A v \in Calls : v # w => job'[v].frames = job[v].frames
    BY DEF SameCalls, Calls, JobAt
  <2>2. job'[w] = new /\ w \in Calls
    BY DEF Calls, JobAt
  <2>3. \A k \in 1..Len(fs) : ~fs[k].retyped => Fits(fs[k])
    BY <2>2 DEF FitInv, HandsFit
  <2>4. /\ \A k \in 1..Len(Tail(fs)) : k + 1 \in 1..Len(fs) /\ Tail(fs)[k] = fs[k + 1]
        /\ 1 \in 1..Len(fs)
    OBVIOUS
  <2>. HIDE DEF fs
  <2>5. ASSUME NEW k \in DOMAIN wire'
        PROVE IF k = Len(wire) + 1 THEN wire'[k] = fs[1] ELSE k \in DOMAIN wire /\ wire'[k] = wire[k]
    <3>1. wire \in Seq(Frame) /\ wire' \in Seq(Frame)
      BY DEF Types
    <3>2. DOMAIN wire' = 1..Len(wire) + 1 /\ DOMAIN wire = 1..Len(wire) /\ Len(wire) \in Nat
      BY <3>1
    <3>. QED
      BY <3>1, <3>2
  <2>6. HandsFit'
    <3>. SUFFICES ASSUME NEW v \in Calls', NEW k \in 1..Len(job'[v].frames), ~job'[v].frames[k].retyped
         PROVE Fits(job'[v].frames[k])
      BY DEF HandsFit, Fits
    <3>1. CASE v = w
      BY <2>2, <2>3, <2>4, <3>1
    <3>2. CASE v # w
      BY <2>1, <3>2 DEF FitInv, HandsFit, SameCalls
    <3>. QED
      BY <3>1, <3>2
  <2>7. ConfiguredFramesFit'
    <3>. SUFFICES ASSUME NEW k \in DOMAIN wire', ~wire'[k].retyped PROVE Fits(wire'[k])
      BY DEF ConfiguredFramesFit, Fits
    <3>1. CASE k = Len(wire) + 1
      BY <2>3, <2>4, <2>5, <3>1
    <3>2. CASE k # Len(wire) + 1
      BY <2>5, <3>2 DEF FitInv, ConfiguredFramesFit
    <3>. QED
      BY <3>1, <3>2
  <2>8. QueuesFit'
    BY <2>1, QueuesFitStay DEF FitInv
  <2>. QED
    BY <2>6, <2>7, <2>8 DEF FitInv
<1>8. CASE ReceiveReturns(w)
  <2>1. /\ JobAt(w, None) /\ job[w] # None
        /\ UNCHANGED <<stream, connected, connection, queue, source, wire>>
    BY <1>8, ReceiveReturnsDoes DEF Draining
  <2>2. \A v \in Calls' : v \in Calls /\ v # w /\ job'[v] = job[v]
    BY <2>1 DEF Calls, JobAt
  <2>3. HandsFit'
    BY <2>2 DEF FitInv, HandsFit
  <2>4. ASSUME NEW t \in Stream, NEW c \in 1..MaxConnections[t] PROVE QueueFits(t, c)'
    <3>1. QueueFits(t, c)
      BY DEF FitInv, QueuesFit
    <3>2. stream[t].data \in Descriptors \cup {None}
      BY DEF Types, StreamRecord
    <3>3. Bases(t, c)' \subseteq Bases(t, c)
      BY <2>1, <2>2, <3>2 DEF Bases
    <3>. QED
      BY <2>1, <3>1, <3>3, QueueFitsStays
  <2>5. QueuesFit'
    BY <2>4 DEF QueuesFit
  <2>. QED
    BY <1>a, <2>1, <2>3, <2>5
<1>. QED
  BY <1>1, <1>2, <1>3, <1>4, <1>5, <1>6, <1>7, <1>8 DEF WorkerStep

LEMMA FitStays == ASSUME Types, Types', Locks, Locks', StatusInv, FitInv, [Next]_vars PROVE FitInv'
<1>1. CASE UNCHANGED vars \/ StatusStep
  <2>1. UNCHANGED <<stream, connected, connection, queue, source, job, wire>>
    BY <1>1, StatusStepDoes DEF vars, port
  <2>. QED
    BY <2>1, SameJobs, QueuesFitStay, WireFitStays DEF FitInv
<1>. QED
  BY <1>1, FitOfSignal, FitOfWrite, FitOfWorker DEF Next

--------------------------------------------------------------------------------
(* The theorems.                                                             *)

LEMMA TypesImplyTypeOK == ASSUME Types, StatusTypes PROVE TypeOK
<1>1. \A s \in Stream : \A c \in 1..MaxConnections[s] :
        \A k \in DOMAIN queue[s][c] : queue[s][c][k] \in EventPacket \cup DataPacket
  BY QueueOf DEF Packet
<1>2. \A w \in Worker : job[w] # None =>
        /\ job[w].stream \in Stream /\ job[w].connection \in 1..connection[job[w].stream]
        /\ job[w].frames \in Seq(Frame)
  BY InCall DEF Types
<1>3. \A w \in Worker : job[w] # None => \A k \in DOMAIN job[w].frames : job[w].frames[k] \in Frame
  BY <1>2
<1>4. \A k \in DOMAIN wire : wire[k] \in Frame
  BY DEF Types
<1>5. /\ statusLoop.encoding \in BOOLEAN /\ \A k \in DOMAIN statusLoop.numbers : statusLoop.numbers[k] \in Nat
      /\ \A k \in DOMAIN statusWire : statusWire[k] \in Nat
  BY DEF StatusTypes
<1>. QED
  BY <1>1, <1>2, <1>3, <1>4, <1>5 DEF Types, TypeOK

\* Every state that is reached satisfies the inductive invariant, whatever number
\* of blocks, workers and identifiers: the locks of onPacketReceived (stream_fb.cpp:233)
\* and of EncoderBank::encode (encoder_bank.cpp:15) carry the rest.
THEOREM Invariant == Spec => [](Types /\ Locks /\ HandsOrdered /\ NumberInv /\ StatusInv /\ OrderInv /\ FitInv)
<1>. DEFINE IInv == Types /\ Locks /\ HandsOrdered /\ NumberInv /\ StatusInv /\ OrderInv /\ FitInv
<1>1. Init => IInv
  BY TypesInit, LocksInit, HandsInit, NumberInit, StatusInit, OrderInit, FitInit
<1>2. IInv /\ [Next]_vars => IInv'
  BY TypesAndLocksStay, HandsOrderedStays, NumberStays, StatusStays, OrderStays, FitStays
<1>. QED
  BY <1>1, <1>2, PTL DEF Spec

\* The members of a StreamFb and of the calls that work on it have their types
\* (stream_fb.h:70).
THEOREM TypeCorrect == Spec => []TypeOK
<1>1. Types /\ StatusInv => TypeOK
  BY TypesImplyTypeOK DEF StatusInv
<1>. QED
  BY <1>1, Invariant, PTL

\* No sequence number of an encoder is given twice and none is lost, also when
\* blocks of several interfaces share the encoder, and the one of StreamId 1 with
\* the status packets (encoder_bank.cpp:15, capture_fb.cpp:118).
THEOREM NumbersOnce == Spec => []EveryNumberOnce
<1>1. ASSUME Types, HandsOrdered, NumberInv, StatusInv PROVE EveryNumberOnce
  <2>1. /\ DOMAIN wire = 1..Len(wire) /\ DOMAIN statusWire = 1..Len(statusWire)
        /\ \A w \in Worker : DOMAIN Unsent(w) = 1..Len(Unsent(w))
        /\ DOMAIN StatusUnsent = 1..Len(StatusUnsent)
    <3>1. DOMAIN wire = 1..Len(wire) /\ \A w \in Worker : DOMAIN Unsent(w) = 1..Len(Unsent(w))
      BY <1>1, UnsentFrames DEF Types
    <3>2. StatusUnsent \in Seq(Nat) /\ statusWire \in Seq(Nat)
      BY <1>1, StatusUnsentNumbers DEF StatusInv, StatusTypes
    <3>. QED
      BY <3>1, <3>2
  <2>2. \A j, k \in DOMAIN wire :
          wire[j].streamId = wire[k].streamId /\ wire[j].sequence = wire[k].sequence => j = k
    BY <1>1, <2>1 DEF NumberInv, WireOnce, SameNumber
  <2>3. /\ \A j, k \in DOMAIN statusWire : statusWire[j] = statusWire[k] => j = k
        /\ \A j \in DOMAIN wire, k \in DOMAIN statusWire : wire[j].streamId = 1 => wire[j].sequence # statusWire[k]
    BY <1>1, <2>1 DEF StatusInv, StatusOnce, StatusNumbers, NotOfData
  <2>4. \A id \in StreamIds : \A n \in 0..sequence[id] - 1 :
          \/ \E k \in DOMAIN wire : wire[k].streamId = id /\ wire[k].sequence = n
          \/ \E w \in Worker : \E k \in DOMAIN Unsent(w) : Unsent(w)[k].streamId = id /\ Unsent(w)[k].sequence = n
          \/ id = 1 /\ \/ \E k \in DOMAIN statusWire : statusWire[k] = n
                       \/ \E k \in DOMAIN StatusUnsent : StatusUnsent[k] = n
    <3>. SUFFICES ASSUME NEW id \in StreamIds, NEW n \in 0..sequence[id] - 1
         PROVE \/ \E k \in DOMAIN wire : wire[k].streamId = id /\ wire[k].sequence = n
               \/ \E w \in Worker : \E k \in DOMAIN Unsent(w) :
                    Unsent(w)[k].streamId = id /\ Unsent(w)[k].sequence = n
               \/ id = 1 /\ \/ \E k \in DOMAIN statusWire : statusWire[k] = n
                            \/ \E k \in DOMAIN StatusUnsent : StatusUnsent[k] = n
      OBVIOUS
    <3>1. \/ Carries(wire, id, n) \/ \E w \in Worker : Carries(Unsent(w), id, n)
          \/ id = 1 /\ n \in StatusNumbers
      BY <1>1 DEF NumberInv, NoneLost
    <3>2. n \in StatusNumbers => \/ \E k \in DOMAIN statusWire : statusWire[k] = n
                                 \/ \E k \in DOMAIN StatusUnsent : StatusUnsent[k] = n
      BY <2>1 DEF StatusNumbers
    <3>. QED
      BY <2>1, <3>1, <3>2 DEF Carries
  <2>. QED
    BY <2>2, <2>3, <2>4 DEF EveryNumberOnce
<1>. QED
  BY <1>1, Invariant, PTL

\* The frames of a block leave in the order of its packets, whatever workers the
\* calls run on and however its connections come and go (stream_fb.cpp:233).
THEOREM FramesInOrder == Spec => []OwnFramesInOrder
<1>1. ASSUME Types, OrderInv PROVE OwnFramesInOrder
  <2>1. DOMAIN wire = 1..Len(wire)
    BY <1>1 DEF Types
  <2>. QED
    BY <1>1, <2>1 DEF OrderInv, WireOrdered, Elder, OwnFramesInOrder
<1>. QED
  BY <1>1, Invariant, PTL

\* A frame carries data that suits its payload type, unless PayloadType was
\* written after the last descriptor event of the stream (stream_fb.cpp:487).
THEOREM FramesFit == Spec => []ConfiguredFramesFit
<1>1. FitInv => ConfiguredFramesFit
  BY DEF FitInv
<1>. QED
  BY <1>1, Invariant, PTL
================================================================================
