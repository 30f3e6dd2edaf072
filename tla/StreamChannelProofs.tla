--------------------------- MODULE StreamChannelProofs ---------------------------
(***************************************************************************)
(* StreamInput implements Channels, for any number of blocks, workers and  *)
(* identifiers: each step is a step of one channel or changes none.        *)
(*                                                                         *)
(* The invariant of StreamInputProofs says that a call encodes the oldest  *)
(* packet of its block.  Two facts are added: who has the lock of a block  *)
(* is in a call on it, and a signal has one of its descriptors.            *)
(***************************************************************************)
EXTENDS StreamChannel, StreamInputProofs

LockedByCall ==
  \A s \in Stream : streamLock[s] # None =>
    /\ streamLock[s] \in Worker /\ job[streamLock[s]] # None
    /\ job[streamLock[s]].stream = s

SourceKnown == \A s \in Stream : source[s].data \in Signals[s] \cup {None}

ChannelInv ==
  /\ Types /\ Locks /\ HandsOrdered /\ NumberInv /\ StatusInv /\ OrderInv /\ FitInv
  /\ LockedByCall /\ SourceKnown

--------------------------------------------------------------------------------
(* The two facts.                                                            *)

LEMMA ChangesNoLock ==
  ASSUME LockedByCall, streamLock' = streamLock, job' = job
  PROVE  LockedByCall'
BY DEF LockedByCall

LEMMA LockedByCallStays ==
  ASSUME Types, Locks, LockedByCall, NEW w \in Worker, WorkerStep(w)
  PROVE  LockedByCall'
<1>1. ASSUME NEW s \in Stream, ReceiveConnected(w, s)
      PROVE  LockedByCall'
  <2>1. PICK new \in Job :
          /\ new.stream = s /\ JobAt(w, new) /\ new # None /\ job[w] = None
          /\ \A t \in Stream : streamLock'[t] = IF t = s THEN w ELSE streamLock[t]
    BY <1>1, ReceiveConnectedDoes
  <2>2. ASSUME NEW t \in Stream, streamLock'[t] # None
        PROVE  /\ streamLock'[t] \in Worker /\ job'[streamLock'[t]] # None
               /\ job'[streamLock'[t]].stream = t
    <3>1. CASE t = s
      BY <2>1, <3>1 DEF JobAt
    <3>2. CASE t # s
      <4>1. streamLock'[t] = streamLock[t] /\ streamLock[t] \in Worker
        BY <2>1, <2>2, <3>2 DEF LockedByCall
      <4>2. job[streamLock[t]] # None /\ job[streamLock[t]].stream = t
        BY <2>2, <4>1 DEF LockedByCall
      <4>3. streamLock[t] # w
        BY <2>1, <4>2
      <4>. QED  BY <2>1, <4>1, <4>2, <4>3 DEF JobAt
    <3>. QED  BY <3>1, <3>2
  <2>. QED  BY <2>2 DEF LockedByCall
<1>2. ASSUME NEW new \in Job, new.stream = job[w].stream, new # None, job[w] # None, JobAt(w, new),
             streamLock' = streamLock
      PROVE  LockedByCall'
  <2>1. ASSUME NEW t \in Stream, streamLock[t] # None
        PROVE  /\ streamLock[t] \in Worker /\ job'[streamLock[t]] # None
               /\ job'[streamLock[t]].stream = t
    BY <1>2, <2>1 DEF LockedByCall, JobAt
  <2>. QED  BY <1>2, <2>1 DEF LockedByCall
<1>3. CASE Encode(w)
  BY <1>2, <1>3, EncodeDoes DEF Draining
<1>4. CASE EncodeReturns(w)
  BY <1>2, <1>4, EncodeReturnsDoes
<1>5. CASE SendPacket(w)
  BY <1>2, <1>5, SendPacketDoes
<1>6. CASE ReceiveReturns(w)
  <2>1. /\ JobAt(w, None) /\ job[w] # None
        /\ \A t \in Stream : streamLock'[t] = IF t = job[w].stream THEN None ELSE streamLock[t]
    BY <1>6, ReceiveReturnsDoes DEF Draining
  <2>2. ASSUME NEW t \in Stream, streamLock'[t] # None
        PROVE  /\ streamLock'[t] \in Worker /\ job'[streamLock'[t]] # None
               /\ job'[streamLock'[t]].stream = t
    <3>1. streamLock'[t] = streamLock[t] /\ t # job[w].stream
      BY <2>1, <2>2
    <3>2. streamLock[t] \in Worker /\ job[streamLock[t]] # None /\ job[streamLock[t]].stream = t
      BY <2>2, <3>1 DEF LockedByCall
    <3>. QED  BY <2>1, <3>1, <3>2 DEF JobAt
  <2>. QED  BY <2>2 DEF LockedByCall
<1>7. CASE ProcessEventPacket(w) \/ SkipDataPacket(w)
  BY <1>7, ChangesNoLock DEF ProcessEventPacket, SkipDataPacket
<1>8. ASSUME NEW s \in Stream, ReceiveUnconnected(w, s)
      PROVE  LockedByCall'
  BY <1>8, ChangesNoLock DEF ReceiveUnconnected
<1>. QED  BY <1>1, <1>3, <1>4, <1>5, <1>6, <1>7, <1>8 DEF WorkerStep

LEMMA SourceKnownStays ==
  ASSUME Types, Locks, SourceKnown, NEW s \in Stream, SignalStep(s)
  PROVE  SourceKnown'
<1>1. ASSUME \A t \in Stream \ {s} : source'[t] = source[t], source'[s].data \in Signals[s] \cup {None}
      PROVE  SourceKnown'
  BY <1>1 DEF SourceKnown
<1>2. ASSUME NEW data \in Signals[s], NEW domain \in Domains, Connect(s, data, domain)
      PROVE  SourceKnown'
  BY <1>1, <1>2, ConnectDoes
<1>3. ASSUME NEW data \in Signals[s] \cup {None}, NEW domain \in Domains \cup {None}, ChangeDescriptor(s, data, domain)
      PROVE  SourceKnown'
  <2>1. data \in Descriptors \cup {None}
    BY StreamInputAssumption
  <2>2. /\ source'[s].data = (IF data = None THEN source[s].data ELSE data)
        /\ \A t \in Stream \ {s} : source'[t] = source[t]
    BY <1>3, <2>1, ChangeDoes
  <2>. QED  BY <1>1, <2>2 DEF SourceKnown
<1>4. ASSUME NEW length \in Lengths[s], NEW parts \in Parts[s], SendData(s, length, parts)
      PROVE  SourceKnown'
  BY <1>1, <1>4, SendDataDoes DEF SourceKnown
<1>5. CASE Disconnect(s)
  BY <1>5 DEF Disconnect, SourceKnown
<1>. QED  BY <1>2, <1>3, <1>4, <1>5 DEF SignalStep

LEMMA SourceUnchanged ==
  ASSUME SourceKnown, source' = source
  PROVE  SourceKnown'
BY DEF SourceKnown

THEOREM ChannelInvariant == Spec => []ChannelInv
<1> DEFINE More == LockedByCall /\ SourceKnown
<1>1. Init => More
  BY DEF Init, LockedByCall, SourceKnown
<1>2. Types /\ Locks /\ StatusInv /\ More /\ [Next]_vars => More'
  <2>1. SUFFICES ASSUME Types, Locks, StatusInv, LockedByCall, SourceKnown, [Next]_vars
                 PROVE  LockedByCall' /\ SourceKnown'
    OBVIOUS
  <2>2. ASSUME NEW s \in Stream, SignalStep(s)
        PROVE  LockedByCall' /\ SourceKnown'
    <3>1. streamLock' = streamLock /\ job' = job
      BY <2>2 DEF SignalStep, Connect, ChangeDescriptor, SendData, Disconnect
    <3>. QED  BY <2>1, <2>2, <3>1, ChangesNoLock, SourceKnownStays
  <2>3. ASSUME NEW s \in Stream, WriteStep(s)
        PROVE  LockedByCall' /\ SourceKnown'
    <3>1. streamLock' = streamLock /\ job' = job /\ source' = source
      BY <2>3 DEF WriteStep, SetPayloadType, SetStreamId, port
    <3>. QED  BY <2>1, <3>1, ChangesNoLock, SourceUnchanged
  <2>4. ASSUME NEW w \in Worker, WorkerStep(w)
        PROVE  LockedByCall' /\ SourceKnown'
    <3>1. source' = source
      BY <2>4 DEF WorkerStep, ReceiveConnected, ReceiveUnconnected, ProcessEventPacket, SkipDataPacket,
                  Encode, EncodeReturns, SendPacket, ReceiveReturns, port
    <3>. QED  BY <2>1, <2>4, <3>1, LockedByCallStays, SourceUnchanged
  <2>5. CASE UNCHANGED vars
    BY <2>1, <2>5, ChangesNoLock, SourceUnchanged DEF vars, port
  <2>6. CASE StatusStep
    <3>1. streamLock' = streamLock /\ job' = job /\ source' = source
      BY <2>1, <2>6, StatusStepDoes
    <3>. QED  BY <2>1, <3>1, ChangesNoLock, SourceUnchanged
  <2>. QED  BY <2>1, <2>2, <2>3, <2>4, <2>5, <2>6 DEF Next
<1>. QED  BY Invariant, <1>1, <1>2, PTL DEF Spec, ChannelInv

--------------------------------------------------------------------------------
(* What waits.                                                               *)

\* m is the message of packet k in connection c of the port that has the queues row.
IsAt(m, row, c, k) == ~row[c][k].event /\ m = AsMessage(row[c][k])

\* The message is in one of the first n queues of row.
WaitsIn(m, row, n) == \E c \in 1..n : \E k \in 1..Len(row[c]) : IsAt(m, row, c, k)

LEMMA WaitingIs ==
  ASSUME Types, NEW s \in Stream, NEW m
  PROVE  m \in Waiting[s] <=> WaitsIn(m, queue[s], MaxConnections[s])
<1>1. \A c \in 1..MaxConnections[s] : DOMAIN queue[s][c] = 1..Len(queue[s][c])
  BY DEF Types
<1>. QED  BY <1>1 DEF Waiting, InPort, WaitsIn, IsAt

LEMMA WaitingNow ==
  ASSUME Types', NEW s \in Stream, NEW m
  PROVE  m \in Waiting'[s] <=> WaitsIn(m, queue'[s], MaxConnections[s])
<1>1. \A c \in 1..MaxConnections[s] : DOMAIN queue'[s][c] = 1..Len(queue'[s][c])
  BY DEF Types
<1>. QED  BY <1>1 DEF Waiting, InPort, WaitsIn, IsAt

\* Only what waits for block s changes.
LEMMA WaitingElsewhere ==
  ASSUME Types, Types', NEW s \in Stream, NEW c \in 1..MaxConnections[s], NEW new, QueueAt(s, c, new)
  PROVE  \A t \in Stream \ {s} : Waiting'[t] = Waiting[t]
<1>1. SUFFICES ASSUME NEW t \in Stream \ {s}
               PROVE  Waiting'[t] = Waiting[t]
  OBVIOUS
<1>2. \A e \in 1..MaxConnections[t] : queue'[t][e] = queue[t][e]
  BY DEF QueueAt
<1>3. \A m : WaitsIn(m, queue'[t], MaxConnections[t]) <=> WaitsIn(m, queue[t], MaxConnections[t])
  BY <1>2 DEF WaitsIn, IsAt
<1>. QED  BY <1>3, WaitingIs, WaitingNow

LEMMA WaitingAfterPut ==
  ASSUME Types, Types', NEW s \in Stream, NEW c \in 1..MaxConnections[s], NEW packet \in Packet,
         QueueAt(s, c, Append(queue[s][c], packet))
  PROVE  Waiting'[s] = IF packet.event THEN Waiting[s] ELSE Waiting[s] \cup {AsMessage(packet)}
<1> DEFINE q == queue[s][c]
           new == Append(q, packet)
           n == MaxConnections[s]
<1>1. q \in Seq(Packet) /\ queue'[s][c] = new
  BY DEF Types, QueueAt
<1>2. /\ Len(q) \in Nat /\ Len(new) = Len(q) + 1 /\ new[Len(q) + 1] = packet
      /\ \A k \in 1..Len(q) : new[k] = q[k]
  BY <1>1
<1>3. \A e \in 1..n : e # c => queue'[s][e] = queue[s][e]
  BY DEF QueueAt
<1>4. ASSUME NEW m
      PROVE  WaitsIn(m, queue'[s], n) <=>
               WaitsIn(m, queue[s], n) \/ (~packet.event /\ m = AsMessage(packet))
  <2>1. ASSUME WaitsIn(m, queue[s], n)
        PROVE  WaitsIn(m, queue'[s], n)
    <3>1. PICK e \in 1..n : \E k \in 1..Len(queue[s][e]) : IsAt(m, queue[s], e, k)
      BY <2>1 DEF WaitsIn
    <3>2. PICK k \in 1..Len(queue[s][e]) : IsAt(m, queue[s], e, k)
      BY <3>1
    <3>3. CASE e = c
      <4>1. k \in 1..Len(queue'[s][e]) /\ queue'[s][e][k] = queue[s][e][k]
        BY <1>1, <1>2, <3>2, <3>3
      <4>. QED  BY <3>2, <4>1 DEF WaitsIn, IsAt
    <3>4. CASE e # c
      BY <1>3, <3>2, <3>4 DEF WaitsIn, IsAt
    <3>. QED  BY <3>3, <3>4
  <2>2. ASSUME ~packet.event, m = AsMessage(packet)
        PROVE  WaitsIn(m, queue'[s], n)
    <3>1. Len(q) + 1 \in 1..Len(queue'[s][c]) /\ queue'[s][c][Len(q) + 1] = packet
      BY <1>1, <1>2
    <3>. QED  BY <2>2, <3>1 DEF WaitsIn, IsAt
  <2>3. ASSUME WaitsIn(m, queue'[s], n)
        PROVE  WaitsIn(m, queue[s], n) \/ (~packet.event /\ m = AsMessage(packet))
    <3>1. PICK e \in 1..n : \E k \in 1..Len(queue'[s][e]) : IsAt(m, queue'[s], e, k)
      BY <2>3 DEF WaitsIn
    <3>2. PICK k \in 1..Len(queue'[s][e]) : IsAt(m, queue'[s], e, k)
      BY <3>1
    <3>3. CASE e = c /\ k = Len(q) + 1
      BY <1>1, <1>2, <3>2, <3>3 DEF IsAt
    <3>4. CASE e = c /\ k # Len(q) + 1
      <4>1. k \in 1..Len(q)
        BY <1>1, <1>2, <3>2, <3>4
      <4>2. queue'[s][e][k] = queue[s][e][k]
        BY <1>1, <1>2, <3>4, <4>1
      <4>. QED  BY <3>2, <3>4, <4>1, <4>2 DEF WaitsIn, IsAt
    <3>5. CASE e # c
      BY <1>3, <3>2, <3>5 DEF WaitsIn, IsAt
    <3>. QED  BY <3>3, <3>4, <3>5
  <2>. QED  BY <2>1, <2>2, <2>3
<1>. HIDE DEF n
<1>5. \A m : m \in Waiting'[s] <=> m \in Waiting[s] \/ (~packet.event /\ m = AsMessage(packet))
  BY <1>4, WaitingIs, WaitingNow DEF n
<1>. QED  BY <1>5

\* A queue that loses packets.
LEMMA WaitingShrinks ==
  ASSUME Types, Types', NEW s \in Stream, NEW c \in 1..MaxConnections[s], NEW new, QueueAt(s, c, new),
         \A k \in 1..Len(new) : \E j \in 1..Len(queue[s][c]) : new[k] = queue[s][c][j]
  PROVE  Waiting'[s] \subseteq Waiting[s]
<1> DEFINE n == MaxConnections[s]
<1>1. queue'[s][c] = new /\ \A e \in 1..n : e # c => queue'[s][e] = queue[s][e]
  BY DEF QueueAt
<1>2. ASSUME NEW m, WaitsIn(m, queue'[s], n)
      PROVE  WaitsIn(m, queue[s], n)
  <2>1. PICK e \in 1..n : \E k \in 1..Len(queue'[s][e]) : IsAt(m, queue'[s], e, k)
    BY <1>2 DEF WaitsIn
  <2>2. PICK k \in 1..Len(queue'[s][e]) : IsAt(m, queue'[s], e, k)
    BY <2>1
  <2>3. CASE e = c
    BY <1>1, <2>2, <2>3 DEF WaitsIn, IsAt
  <2>4. CASE e # c
    BY <1>1, <2>2, <2>4 DEF WaitsIn, IsAt
  <2>. QED  BY <2>3, <2>4
<1>. HIDE DEF n
<1>3. \A m : m \in Waiting'[s] => m \in Waiting[s]
  BY <1>2, WaitingIs, WaitingNow DEF n
<1>. QED  BY <1>3

LEMMA TailOf ==
  ASSUME NEW q \in Seq(Packet), q # <<>>
  PROVE  /\ Tail(q) \in Seq(Packet) /\ Head(q) = q[1] /\ Head(q) \in Packet
         /\ Len(q) \in Nat \ {0} /\ Len(Tail(q)) = Len(q) - 1
         /\ \A k \in 1..Len(Tail(q)) : Tail(q)[k] = q[k + 1]
OBVIOUS

\* Without the first packet of a queue all others wait that waited.
LEMMA WaitingAfterTail ==
  ASSUME Types, Types', NEW s \in Stream, NEW c \in 1..MaxConnections[s], queue[s][c] # <<>>,
         QueueAt(s, c, Tail(queue[s][c]))
  PROVE  /\ Waiting'[s] \subseteq Waiting[s]
         /\ \A m \in Waiting[s] :
              m \in Waiting'[s] \/ (~Head(queue[s][c]).event /\ m = AsMessage(Head(queue[s][c])))
<1> DEFINE q == queue[s][c]
           n == MaxConnections[s]
<1>1. q \in Seq(Packet) /\ queue'[s][c] = Tail(q)
  BY DEF Types, QueueAt
<1>2. /\ Head(q) = q[1] /\ Len(q) \in Nat \ {0} /\ Len(Tail(q)) = Len(q) - 1
      /\ \A k \in 1..Len(Tail(q)) : Tail(q)[k] = q[k + 1]
  BY <1>1, TailOf
<1>3. \A k \in 1..Len(Tail(q)) : \E j \in 1..Len(q) : Tail(q)[k] = q[j]
  BY <1>2
<1>4. Waiting'[s] \subseteq Waiting[s]
  BY <1>3, WaitingShrinks
<1>5. ASSUME NEW m, WaitsIn(m, queue[s], n)
      PROVE  WaitsIn(m, queue'[s], n) \/ (~Head(q).event /\ m = AsMessage(Head(q)))
  <2>1. PICK e \in 1..n : \E k \in 1..Len(queue[s][e]) : IsAt(m, queue[s], e, k)
    BY <1>5 DEF WaitsIn
  <2>2. PICK k \in 1..Len(queue[s][e]) : IsAt(m, queue[s], e, k)
    BY <2>1
  <2>3. CASE e = c /\ k = 1
    BY <1>2, <2>2, <2>3 DEF IsAt
  <2>4. CASE e = c /\ k # 1
    <3>1. k - 1 \in 1..Len(Tail(q)) /\ (k - 1) + 1 = k
      BY <1>2, <2>2, <2>4
    <3>2. queue'[s][e][k - 1] = queue[s][e][k]
      BY <1>1, <1>2, <2>4, <3>1
    <3>. QED  BY <1>1, <2>2, <2>4, <3>1, <3>2 DEF WaitsIn, IsAt
  <2>5. CASE e # c
    <3>1. queue'[s][e] = queue[s][e]
      BY <2>5 DEF QueueAt
    <3>. QED  BY <2>2, <3>1 DEF WaitsIn, IsAt
  <2>. QED  BY <2>3, <2>4, <2>5
<1>. HIDE DEF n
<1>6. \A m \in Waiting[s] : m \in Waiting'[s] \/ (~Head(q).event /\ m = AsMessage(Head(q)))
  BY <1>5, WaitingIs, WaitingNow DEF n
<1>. QED  BY <1>4, <1>6

\* The packet that a call has before it is the oldest of its block.
LEMMA OldestIsNext ==
  ASSUME ChannelInv, NEW w \in Worker, job[w] # None, Pending(w) # <<>>, ~Head(Pending(w)).event,
         NEW e \in 1..MaxConnections[job[w].stream], NEW k \in 1..Len(queue[job[w].stream][e]),
         ~queue[job[w].stream][e][k].event
  PROVE  \/ e = job[w].connection /\ k = 1
         \/ Head(Pending(w)).number < queue[job[w].stream][e][k].number
<1> DEFINE s == job[w].stream
           c == job[w].connection
           q == queue[s][c]
           packet == queue[s][e][k]
<1>1. /\ s \in Stream /\ c \in 1..MaxConnections[s] /\ c \in 1..connection[s] /\ q \in Seq(Packet)
      /\ MaxConnections[s] \in Nat /\ connection[s] \in Nat
  BY InCall, Bounds DEF ChannelInv, Types, Pending
<1>2. Head(q) = q[1] /\ 1 \in 1..Len(q) /\ ~q[1].event /\ Pending(w) = q
  BY <1>1, TailOf DEF Pending
<1>3. packet.number \in Numbers(queue[s][e]) /\ q[1].number \in Numbers(q)
  BY <1>2 DEF Numbers
<1>4. CASE e = c
  <2>1. Ascending(q)
    BY <1>1 DEF ChannelInv, OrderInv, QueuesOrdered
  <2>2. k = 1 \/ 1 < k
    BY <1>1, <1>4
  <2>. QED  BY <1>2, <1>4, <2>1, <2>2 DEF Ascending
<1>5. CASE e > c
  <2>1. c \in 1..e - 1
    BY <1>1, <1>5
  <2>. QED  BY <1>1, <1>2, <1>3, <2>1 DEF ChannelInv, OrderInv, QueuesOrdered
<1>6. CASE e < c
  <2>1. e # connection[s] /\ queue[s][e] # <<>>
    BY <1>1, <1>6
  <2>2. PICK v \in Worker : job[v] # None /\ job[v].stream = s /\ job[v].connection = e
    BY <1>1, <2>1 DEF ChannelInv, Locks
  <2>3. v = w
    BY <2>2, OneCall DEF ChannelInv
  <2>. QED  BY <1>6, <2>2, <2>3
<1>. QED  BY <1>1, <1>4, <1>5, <1>6

LEMMA OldestWaiting ==
  ASSUME ChannelInv, NEW w \in Worker, job[w] # None, Pending(w) # <<>>, ~Head(Pending(w)).event
  PROVE  LET s == job[w].stream  m == AsMessage(Head(Pending(w))) IN
         m \in Waiting[s] /\ \A other \in Waiting[s] \ {m} : m.number < other.number
<1> DEFINE s == job[w].stream
           c == job[w].connection
           q == queue[s][c]
           n == MaxConnections[s]
           m == AsMessage(Head(Pending(w)))
<1>1. s \in Stream /\ c \in 1..n /\ q \in Seq(Packet)
  BY InCall DEF ChannelInv, Pending
<1>2. Pending(w) = q /\ Head(q) = q[1] /\ 1 \in 1..Len(q)
  BY <1>1, TailOf DEF Pending
<1>3. WaitsIn(m, queue[s], n)
  BY <1>1, <1>2 DEF WaitsIn, IsAt
<1>4. ASSUME NEW other, WaitsIn(other, queue[s], n), other # m
      PROVE  m.number < other.number
  <2>1. PICK e \in 1..n : \E k \in 1..Len(queue[s][e]) : IsAt(other, queue[s], e, k)
    BY <1>4 DEF WaitsIn
  <2>2. PICK k \in 1..Len(queue[s][e]) : IsAt(other, queue[s], e, k)
    BY <2>1
  <2>3. ~(e = c /\ k = 1)
    BY <1>2, <1>4, <2>2 DEF IsAt
  <2>4. Head(Pending(w)).number < queue[s][e][k].number
    BY <2>2, <2>3, OldestIsNext DEF IsAt
  <2>. QED  BY <2>2, <2>4 DEF AsMessage, IsAt
<1>5. Types
  BY DEF ChannelInv
<1>. HIDE DEF m
<1>6. m \in Waiting[s]
  BY <1>1, <1>3, <1>5, WaitingIs
<1>7. \A other \in Waiting[s] \ {m} : m.number < other.number
  BY <1>1, <1>4, <1>5, WaitingIs
<1>. QED  BY <1>6, <1>7 DEF m

\* When it is gone, its message is.
LEMMA BegunIsGone ==
  ASSUME ChannelInv, Types', NEW w \in Worker, job[w] # None, Pending(w) # <<>>, ~Head(Pending(w)).event,
         QueueAt(job[w].stream, job[w].connection, Tail(Pending(w)))
  PROVE  AsMessage(Head(Pending(w))) \notin Waiting'[job[w].stream]
<1> DEFINE s == job[w].stream
           c == job[w].connection
           q == queue[s][c]
           n == MaxConnections[s]
           m == AsMessage(Head(Pending(w)))
<1>1. s \in Stream /\ c \in 1..n /\ q \in Seq(Packet) /\ Pending(w) = q
  BY InCall DEF ChannelInv, Pending
<1>2. /\ Len(q) \in Nat \ {0} /\ Len(Tail(q)) = Len(q) - 1
      /\ \A k \in 1..Len(Tail(q)) : Tail(q)[k] = q[k + 1]
  BY <1>1, TailOf
<1>3. queue'[s][c] = Tail(q) /\ \A e \in 1..n : e # c => queue'[s][e] = queue[s][e]
  BY <1>1 DEF QueueAt
<1>4. ASSUME NEW e \in 1..n, NEW k \in 1..Len(queue'[s][e]), IsAt(m, queue'[s], e, k)
      PROVE  FALSE
  <2>1. PICK j \in 1..Len(queue[s][e]) : queue'[s][e][k] = queue[s][e][j] /\ ~(e = c /\ j = 1)
    <3>1. CASE e = c
      <4>1. k \in 1..Len(Tail(q))
        BY <1>3, <3>1
      <4>2. k + 1 \in 1..Len(q) /\ k + 1 # 1 /\ Tail(q)[k] = q[k + 1]
        BY <1>2, <4>1
      <4>. QED  BY <1>3, <3>1, <4>2
    <3>2. CASE e # c
      BY <1>3, <3>2
    <3>. QED  BY <3>1, <3>2
  <2>2. ~queue[s][e][j].event /\ queue[s][e][j].number = Head(Pending(w)).number
    BY <1>4, <2>1 DEF IsAt, AsMessage
  <2>3. Head(Pending(w)).number < queue[s][e][j].number
    BY <2>1, <2>2, OldestIsNext
  <2>4. Head(Pending(w)) \in DataPacket
    <3>1. Head(Pending(w)) \in Packet
      BY <1>1, TailOf
    <3>. QED  BY <3>1 DEF Packet, EventPacket
  <2>5. Head(Pending(w)).number \in Nat
    BY <2>4 DEF DataPacket
  <2>. QED  BY <2>2, <2>3, <2>5
<1>5. ~WaitsIn(m, queue'[s], n)
  BY <1>4 DEF WaitsIn
<1>. HIDE DEF m
<1>6. m \notin Waiting'[s]
  BY <1>1, <1>5, WaitingNow
<1>. QED  BY <1>6 DEF m

--------------------------------------------------------------------------------
(* What is in the hands of calls and on the wire.                            *)

Mapped(frames) == [k \in DOMAIN frames |-> AsPiece(frames[k])]

LEMMA MappedNothing == Mapped(<<>>) = <<>>
BY DEF Mapped

Piece == [number : Nat, data : Descriptors, part : Nat \ {0}]

LEMMA PieceOf ==
  ASSUME NEW frame \in Frame
  PROVE  AsPiece(frame) \in Piece
BY DEF Frame, AsPiece, Piece

LEMMA MappedIs ==
  ASSUME NEW frames \in Seq(Frame)
  PROVE  /\ Mapped(frames) \in Seq(Piece) /\ Len(Mapped(frames)) = Len(frames)
         /\ \A k \in 1..Len(frames) : Mapped(frames)[k] = AsPiece(frames[k])
<1>1. DOMAIN frames = 1..Len(frames) /\ Len(frames) \in Nat
  OBVIOUS
<1>2. \A k \in 1..Len(frames) : AsPiece(frames[k]) \in Piece
  BY PieceOf
<1>3. Mapped(frames) \in [1..Len(frames) -> Piece]
  BY <1>1, <1>2 DEF Mapped
<1>4. Mapped(frames) \in Seq(Piece) /\ Len(Mapped(frames)) = Len(frames)
  BY <1>1, <1>3
<1>5. \A k \in 1..Len(frames) : Mapped(frames)[k] = AsPiece(frames[k])
  BY <1>1 DEF Mapped
<1>. QED  BY <1>4, <1>5

LEMMA MappedTail ==
  ASSUME NEW frames \in Seq(Frame), frames # <<>>
  PROVE  /\ Mapped(frames) # <<>> /\ Head(Mapped(frames)) = AsPiece(frames[1])
         /\ Mapped(Tail(frames)) = Tail(Mapped(frames))
<1> DEFINE mapped == Mapped(frames)
           rest == Tail(frames)
<1>1. /\ mapped \in Seq(Piece) /\ Len(mapped) = Len(frames)
      /\ \A k \in 1..Len(frames) : mapped[k] = AsPiece(frames[k])
  BY MappedIs
<1>2. /\ rest \in Seq(Frame) /\ Len(frames) \in Nat \ {0} /\ Len(rest) = Len(frames) - 1
      /\ \A k \in 1..Len(rest) : rest[k] = frames[k + 1]
  OBVIOUS
<1>3. /\ Mapped(rest) \in Seq(Piece) /\ Len(Mapped(rest)) = Len(rest)
      /\ \A k \in 1..Len(rest) : Mapped(rest)[k] = AsPiece(rest[k])
  BY <1>2, MappedIs
<1>. HIDE DEF mapped, rest
<1>4. mapped # <<>> /\ Head(mapped) = mapped[1] /\ mapped[1] = AsPiece(frames[1])
  BY <1>1, <1>2
<1>5. /\ Tail(mapped) \in Seq(Piece) /\ Len(Tail(mapped)) = Len(frames) - 1
      /\ \A k \in 1..Len(Tail(mapped)) : Tail(mapped)[k] = mapped[k + 1]
  BY <1>1, <1>4
<1>6. \A k \in 1..Len(Mapped(rest)) : Mapped(rest)[k] = Tail(mapped)[k]
  BY <1>1, <1>2, <1>3, <1>5
<1>7. Mapped(rest) = Tail(mapped)
  BY <1>2, <1>3, <1>5, <1>6, SeqEqual
<1>. QED  BY <1>4, <1>7 DEF mapped, rest

LEMMA SendingIs ==
  ASSUME NEW s \in Stream
  PROVE  /\ Sending[s] = IF streamLock[s] = None THEN <<>> ELSE Mapped(job[streamLock[s]].frames)
         /\ Sending'[s] = IF streamLock'[s] = None THEN <<>> ELSE Mapped(job'[streamLock'[s]].frames)
BY DEF Sending, Mapped

LEMMA SendingOfCall ==
  ASSUME Types, Locks, NEW w \in Worker, job[w] # None
  PROVE  Sending[job[w].stream] = Mapped(job[w].frames)
<1>1. job[w].stream \in Stream /\ streamLock[job[w].stream] = w /\ w # None
  BY InCall, StreamInputAssumption DEF Locks
<1>. QED  BY <1>1, SendingIs

\* A step of a call touches the frames of its own block.
LEMMA SendingElsewhere ==
  ASSUME Types, LockedByCall, NEW w \in Worker, job[w] # None, NEW new, JobAt(w, new), streamLock' = streamLock
  PROVE  \A t \in Stream \ {job[w].stream} : Sending'[t] = Sending[t]
<1>1. ASSUME NEW t \in Stream \ {job[w].stream}, streamLock[t] # None
      PROVE  job'[streamLock[t]] = job[streamLock[t]]
  BY <1>1 DEF LockedByCall, JobAt
<1>. QED  BY <1>1, SendingIs

LEMMA SendingStays ==
  ASSUME streamLock' = streamLock, job' = job
  PROVE  Sending' = Sending
BY DEF Sending

LEMMA DeliveredStays ==
  ASSUME wire' = wire
  PROVE  Delivered' = Delivered
BY DEF Delivered

LEMMA SentStays ==
  ASSUME source' = source
  PROVE  Sent' = Sent
BY DEF Sent

\* Of Waiting nothing changes but what waits for block s.
LEMMA WaitingIn ==
  ASSUME NEW s \in Stream, NEW new, Waiting'[s] = new, \A t \in Stream \ {s} : Waiting'[t] = Waiting[t]
  PROVE  Waiting' = [Waiting EXCEPT ![s] = new]
BY DEF Waiting

LEMMA SendingIn ==
  ASSUME NEW s \in Stream, NEW new, Sending'[s] = new, \A t \in Stream \ {s} : Sending'[t] = Sending[t]
  PROVE  Sending' = [Sending EXCEPT ![s] = new]
BY DEF Sending

--------------------------------------------------------------------------------
(* The steps of StreamInput as steps of channels.                            *)

LEMMA QuietStep ==
  ASSUME source' = source, Waiting' = Waiting, Sending' = Sending, wire' = wire
  PROVE  UNCHANGED Ch!channel
BY SentStays, DeliveredStays DEF Ch!channel

LEMMA LoseStep ==
  ASSUME NEW s \in Stream, Waiting'[s] \subseteq Waiting[s],
         \A t \in Stream \ {s} : Waiting'[t] = Waiting[t],
         source' = source, Sending' = Sending, wire' = wire
  PROVE  Ch!Next
<1> DEFINE lost == Waiting[s] \ Waiting'[s]
<1>1. lost \in SUBSET Waiting[s] /\ Waiting'[s] = Waiting[s] \ lost
  OBVIOUS
<1>. HIDE DEF lost
<1>2. Waiting' = [Waiting EXCEPT ![s] = Waiting[s] \ lost]
  BY <1>1, WaitingIn
<1>3. Ch!Lose(s, lost)
  BY <1>2, SentStays, DeliveredStays DEF Ch!Lose
<1>. QED  BY <1>1, <1>3 DEF Ch!Next

LEMMA ConnectIsQuiet ==
  ASSUME ChannelInv, Types', NEW s \in Stream, NEW data \in Signals[s], NEW domain \in Domains,
         Connect(s, data, domain)
  PROVE  UNCHANGED Ch!channel
<1> DEFINE c == connection[s] + 1
           packet == Event(data, domain)
<1>1. /\ c \in 1..MaxConnections[s] /\ packet \in Packet
      /\ QueueAt(s, c, Append(queue[s][c], packet))
      /\ source'[s].packets = source[s].packets /\ \A t \in Stream \ {s} : source'[t] = source[t]
      /\ UNCHANGED <<streamLock, job, wire>>
  BY ConnectDoes DEF ChannelInv
<1>2. packet.event
  BY DEF Event
<1>. HIDE DEF c, packet
<1>3. Waiting'[s] = Waiting[s] /\ \A t \in Stream \ {s} : Waiting'[t] = Waiting[t]
  BY <1>1, <1>2, WaitingAfterPut, WaitingElsewhere DEF ChannelInv
<1>4. Waiting' = Waiting
  BY <1>3 DEF Waiting
<1>5. Sent' = Sent
  BY <1>1 DEF Sent
<1>. QED  BY <1>1, <1>4, <1>5, SendingStays, DeliveredStays DEF Ch!channel

LEMMA ChangeIsQuiet ==
  ASSUME ChannelInv, Types', NEW s \in Stream, NEW data \in Signals[s] \cup {None},
         NEW domain \in Domains \cup {None}, ChangeDescriptor(s, data, domain)
  PROVE  UNCHANGED Ch!channel
<1> DEFINE c == connection[s]
           packet == Event(data, domain)
<1>0. data \in Descriptors \cup {None}
  BY StreamInputAssumption
<1>1. /\ c \in 1..MaxConnections[s] /\ packet \in Packet
      /\ QueueAt(s, c, Append(queue[s][c], packet))
      /\ source'[s].packets = source[s].packets /\ \A t \in Stream \ {s} : source'[t] = source[t]
      /\ UNCHANGED <<streamLock, job, wire>>
  BY <1>0, ChangeDoes DEF ChannelInv
<1>2. packet.event
  BY DEF Event
<1>. HIDE DEF c, packet
<1>3. Waiting'[s] = Waiting[s] /\ \A t \in Stream \ {s} : Waiting'[t] = Waiting[t]
  BY <1>1, <1>2, WaitingAfterPut, WaitingElsewhere DEF ChannelInv
<1>4. Waiting' = Waiting
  BY <1>3 DEF Waiting
<1>5. Sent' = Sent
  BY <1>1 DEF Sent
<1>. QED  BY <1>1, <1>4, <1>5, SendingStays, DeliveredStays DEF Ch!channel

LEMMA SendDataPuts ==
  ASSUME ChannelInv, Types', NEW s \in Stream, NEW length \in Lengths[s], NEW parts \in Parts[s],
         SendData(s, length, parts)
  PROVE  Ch!Next
<1> DEFINE packet == [event |-> FALSE, data |-> source[s].data, length |-> length, parts |-> parts,
                      number |-> source[s].packets + 1]
           m == AsMessage(packet)
           c == connection[s]
<1>1. /\ source[s].data \in Descriptors /\ source[s].data \in Signals[s] \ {None}
      /\ source[s].packets \in Nat /\ MaxPackets[s] \in Nat /\ source[s].packets < MaxPackets[s]
  BY StreamInputAssumption DEF SendData, ChannelInv, Types, SourceKnown
<1>2. packet \in DataPacket /\ ~packet.event
  <2>1. length \in 0..255
    BY StreamInputAssumption
  <2>2. parts \in Nat \ {0}
    BY StreamInputAssumption
  <2>3. source[s].packets + 1 \in Nat
    BY <1>1
  <2>. QED  BY <1>1, <2>1, <2>2, <2>3 DEF DataPacket
<1>3. m \in Message[s] /\ m.number = Sent[s] + 1
  BY <1>1 DEF Message, AsMessage, Sent
<1>4. connected[s] /\ c \in 1..MaxConnections[s]
  BY Bounds DEF SendData, ChannelInv, Locks
<1>5. Enqueue(s, c, packet) /\ UNCHANGED <<streamLock, job, wire>>
  BY DEF SendData
<1>6. source' = [source EXCEPT ![s].packets = @ + 1]
  BY DEF SendData
<1>7. source'[s].packets = source[s].packets + 1 /\ \A t \in Stream \ {s} : source'[t] = source[t]
  BY <1>6 DEF ChannelInv, Types
<1>8. Sent' = [Sent EXCEPT ![s] = m.number]
  BY <1>3, <1>7 DEF Sent
<1>. HIDE DEF packet, m, c
<1>9. QueueAt(s, c, Append(queue[s][c], packet))
  BY <1>2, <1>4, <1>5, EnqueueTypes DEF QueueAt, Packet, ChannelInv
<1>10. /\ Waiting'[s] = Waiting[s] \cup {AsMessage(packet)}
       /\ \A t \in Stream \ {s} : Waiting'[t] = Waiting[t]
  BY <1>2, <1>4, <1>9, WaitingAfterPut, WaitingElsewhere DEF ChannelInv, Packet
<1>11. Waiting' = [Waiting EXCEPT ![s] = Waiting[s] \cup {m}]
  BY <1>10, WaitingIn DEF m
<1>12. Ch!Put(s, m)
  BY <1>3, <1>5, <1>8, <1>11, SendingStays, DeliveredStays DEF Ch!Put
<1>. QED  BY <1>3, <1>12 DEF Ch!Next

LEMMA DisconnectLoses ==
  ASSUME ChannelInv, Types', NEW s \in Stream, Disconnect(s)
  PROVE  Ch!Next \/ UNCHANGED Ch!channel
<1>1. /\ connection[s] \in 1..MaxConnections[s]
      /\ IF \E w \in Calls : job[w].stream = s /\ job[w].connection = connection[s]
         THEN queue' = queue ELSE QueueAt(s, connection[s], <<>>)
      /\ UNCHANGED <<source, streamLock, job, wire>>
  BY DisconnectDoes DEF ChannelInv
<1>2. CASE queue' = queue
  <2>1. Waiting' = Waiting
    BY <1>2 DEF Waiting, InPort
  <2>. QED  BY <1>1, <2>1, QuietStep, SendingStays
<1>3. CASE QueueAt(s, connection[s], <<>>)
  <2> DEFINE none == <<>>
  <2>1. \A k \in 1..Len(none) : \E j \in 1..Len(queue[s][connection[s]]) : none[k] = queue[s][connection[s]][j]
    OBVIOUS
  <2>2. QueueAt(s, connection[s], none)
    BY <1>3
  <2>. HIDE DEF none
  <2>3. Waiting'[s] \subseteq Waiting[s] /\ \A t \in Stream \ {s} : Waiting'[t] = Waiting[t]
    BY <1>1, <2>1, <2>2, WaitingShrinks, WaitingElsewhere DEF ChannelInv
  <2>. QED  BY <1>1, <2>3, LoseStep, SendingStays
<1>. QED  BY <1>1, <1>2, <1>3

LEMMA ReceiveConnectedIsQuiet ==
  ASSUME ChannelInv, NEW w \in Worker, NEW s \in Stream, ReceiveConnected(w, s)
  PROVE  UNCHANGED Ch!channel
<1>1. PICK new \in Job :
        /\ new.frames = <<>> /\ JobAt(w, new) /\ job[w] = None /\ streamLock[s] = None
        /\ \A t \in Stream : streamLock'[t] = IF t = s THEN w ELSE streamLock[t]
        /\ UNCHANGED <<queue, source, wire>>
  BY ReceiveConnectedDoes DEF ChannelInv
<1>2. Waiting' = Waiting
  BY <1>1 DEF Waiting, InPort
<1>3. ASSUME NEW t \in Stream
      PROVE  Sending'[t] = Sending[t]
  <2>1. CASE t = s
    <3>1. Sending[t] = <<>>
      BY <1>1, <2>1, SendingIs
    <3>2. w # None /\ streamLock'[t] = w /\ job'[w].frames = <<>>
      BY <1>1, <2>1, StreamInputAssumption DEF JobAt
    <3>3. Sending'[t] = Mapped(<<>>)
      BY <3>2, SendingIs
    <3>. QED  BY <3>1, <3>3, MappedNothing
  <2>2. CASE t # s
    <3>1. streamLock'[t] = streamLock[t]
      BY <1>1, <2>2
    <3>2. streamLock[t] # None => job'[streamLock[t]] = job[streamLock[t]]
      BY <1>1 DEF ChannelInv, LockedByCall, JobAt
    <3>. QED  BY <3>1, <3>2, SendingIs
  <2>. QED  BY <2>1, <2>2
<1>4. Sending' = Sending
  BY <1>3 DEF Sending
<1>. QED  BY <1>1, <1>2, <1>4, QuietStep

LEMMA EventIsQuiet ==
  ASSUME ChannelInv, Types', NEW w \in Worker, ProcessEventPacket(w)
  PROVE  UNCHANGED Ch!channel
<1> DEFINE s == job[w].stream
           c == job[w].connection
<1>1. /\ job[w] # None /\ Pending(w) # <<>> /\ Head(Pending(w)).event
      /\ QueueAt(s, c, Tail(Pending(w))) /\ UNCHANGED <<source, wire, streamLock, job>>
  BY ProcessEventPacketDoes DEF ChannelInv, Draining
<1>2. s \in Stream /\ c \in 1..MaxConnections[s] /\ Pending(w) = queue[s][c]
  BY <1>1, InCall DEF ChannelInv, Pending
<1>. HIDE DEF s, c
<1>3. Waiting'[s] = Waiting[s] /\ \A t \in Stream \ {s} : Waiting'[t] = Waiting[t]
  BY <1>1, <1>2, WaitingAfterTail, WaitingElsewhere DEF ChannelInv
<1>4. Waiting' = Waiting
  BY <1>3 DEF Waiting
<1>. QED  BY <1>1, <1>4, QuietStep, SendingStays

LEMMA SkipLoses ==
  ASSUME ChannelInv, Types', NEW w \in Worker, SkipDataPacket(w)
  PROVE  Ch!Next
<1> DEFINE s == job[w].stream
           c == job[w].connection
<1>1. /\ job[w] # None /\ Pending(w) # <<>>
      /\ QueueAt(s, c, Tail(Pending(w))) /\ UNCHANGED <<source, wire, streamLock, job>>
  BY SkipDataPacketDoes DEF ChannelInv, Draining
<1>2. s \in Stream /\ c \in 1..MaxConnections[s] /\ Pending(w) = queue[s][c]
  BY <1>1, InCall DEF ChannelInv, Pending
<1>. HIDE DEF s, c
<1>3. Waiting'[s] \subseteq Waiting[s] /\ \A t \in Stream \ {s} : Waiting'[t] = Waiting[t]
  BY <1>1, <1>2, WaitingAfterTail, WaitingElsewhere DEF ChannelInv
<1>. QED  BY <1>1, <1>2, <1>3, LoseStep, SendingStays

LEMMA EncodeBegins ==
  ASSUME ChannelInv, Types', NEW w \in Worker, Encode(w)
  PROVE  Ch!Next
<1> DEFINE s == job[w].stream
           c == job[w].connection
           packet == Head(Pending(w))
           m == AsMessage(packet)
<1>1. PICK new \in Job :
        /\ new.frames = Frames(s, packet) /\ JobAt(w, new) /\ new # None
        /\ Draining(w) /\ Pending(w) # <<>> /\ packet \in DataPacket /\ ~packet.event
        /\ QueueAt(s, c, Tail(Pending(w)))
        /\ UNCHANGED <<streamLock, source, wire>>
  BY EncodeDoes DEF ChannelInv
<1>2. /\ job[w] # None /\ job[w].frames = <<>> /\ s \in Stream /\ c \in 1..MaxConnections[s]
      /\ Pending(w) = queue[s][c]
  BY <1>1, InCall DEF ChannelInv, Draining, Pending
<1>3. Sending[s] = <<>>
  BY <1>2, SendingOfCall, MappedNothing DEF ChannelInv
<1>4. m \in Waiting[s] /\ \A other \in Waiting[s] \ {m} : m.number < other.number
  BY <1>1, <1>2, OldestWaiting
<1>5. m \notin Waiting'[s]
  BY <1>1, <1>2, BegunIsGone
<1>6. Sending'[s] = Ch!Pieces(m)
  <2>1. streamLock'[s] = w /\ w # None
    BY <1>1, <1>2, StreamInputAssumption DEF ChannelInv, Locks
  <2>2. job'[w].frames = Frames(s, packet)
    BY <1>1 DEF JobAt
  <2>3. Sending'[s] = Mapped(Frames(s, packet))
    BY <1>2, <2>1, <2>2, SendingIs
  <2>4. Mapped(Frames(s, packet)) = Ch!Pieces(m)
    BY DEF Mapped, Frames, AsPiece, AsMessage, Ch!Pieces
  <2>. QED  BY <2>3, <2>4
<1>. HIDE DEF m, packet, s, c
<1>7. \A t \in Stream \ {s} : Sending'[t] = Sending[t]
  BY <1>1, <1>2, SendingElsewhere DEF ChannelInv, s
<1>8. Sending' = [Sending EXCEPT ![s] = Ch!Pieces(m)]
  BY <1>2, <1>6, <1>7, SendingIn
<1>9. Waiting'[s] = Waiting[s] \ {m} /\ \A t \in Stream \ {s} : Waiting'[t] = Waiting[t]
  <2>1. /\ Waiting'[s] \subseteq Waiting[s]
        /\ \A other \in Waiting[s] : other \in Waiting'[s] \/ other = AsMessage(packet)
    BY <1>1, <1>2, WaitingAfterTail DEF ChannelInv, packet
  <2>2. \A t \in Stream \ {s} : Waiting'[t] = Waiting[t]
    BY <1>1, <1>2, WaitingElsewhere DEF ChannelInv
  <2>. QED  BY <1>5, <2>1, <2>2 DEF m
<1>10. Waiting' = [Waiting EXCEPT ![s] = Waiting[s] \ {m}]
  BY <1>2, <1>9, WaitingIn
<1>11. Ch!Begin(s)
  BY <1>1, <1>3, <1>4, <1>8, <1>10, SentStays, DeliveredStays DEF Ch!Begin
<1>. QED  BY <1>2, <1>11 DEF Ch!Next

LEMMA EncodeReturnsIsQuiet ==
  ASSUME ChannelInv, NEW w \in Worker, EncodeReturns(w)
  PROVE  UNCHANGED Ch!channel
<1>1. PICK new \in Job :
        /\ new.frames = job[w].frames /\ JobAt(w, new) /\ job[w] # None
        /\ UNCHANGED <<streamLock, queue, source, wire>>
  BY EncodeReturnsDoes DEF ChannelInv
<1>2. \A v \in Worker : job'[v] = job[v] \/ (v = w /\ job'[v].frames = job[v].frames)
  BY <1>1 DEF JobAt
<1>3. ASSUME NEW t \in Stream
      PROVE  Sending'[t] = Sending[t]
  <2>1. streamLock[t] # None => job'[streamLock[t]].frames = job[streamLock[t]].frames
    BY <1>2 DEF ChannelInv, LockedByCall
  <2>. QED  BY <1>1, <2>1, SendingIs
<1>4. Sending' = Sending
  BY <1>3 DEF Sending
<1>5. Waiting' = Waiting
  BY <1>1 DEF Waiting, InPort
<1>. QED  BY <1>1, <1>4, <1>5, QuietStep

LEMMA SendPacketDelivers ==
  ASSUME ChannelInv, Types', NEW w \in Worker, SendPacket(w)
  PROVE  Ch!Next
<1> DEFINE s == job[w].stream
           frames == job[w].frames
           piece == [source |-> s, piece |-> AsPiece(frames[1])]
<1>1. PICK new \in Job :
        /\ new.frames = Tail(frames) /\ frames # <<>> /\ frames \in Seq(Frame)
        /\ new.stream = s /\ JobAt(w, new) /\ new # None /\ job[w] # None
        /\ wire' = Append(wire, frames[1])
        /\ UNCHANGED <<streamLock, queue, source>>
  BY SendPacketDoes DEF ChannelInv
<1>2. s \in Stream /\ frames[1] \in Frame /\ frames[1].stream = s
  <2>1. 1 \in 1..Len(frames)
    BY <1>1
  <2>. QED  BY <1>1, <2>1, InCall DEF ChannelInv, HandsOrdered, Hand, OneMessage, Calls
<1>3. Sending[s] = Mapped(frames)
  BY <1>1, SendingOfCall DEF ChannelInv
<1>4. Sending'[s] = Mapped(Tail(frames))
  <2>1. streamLock'[s] = w /\ w # None
    BY <1>1, <1>2, StreamInputAssumption DEF ChannelInv, Locks
  <2>2. job'[w].frames = Tail(frames)
    BY <1>1 DEF JobAt
  <2>. QED  BY <1>2, <2>1, <2>2, SendingIs
<1>5. Sending[s] # <<>> /\ Head(Sending[s]) = AsPiece(frames[1]) /\ Sending'[s] = Tail(Sending[s])
  BY <1>1, <1>3, <1>4, MappedTail
<1>6. \A t \in Stream \ {s} : Sending'[t] = Sending[t]
  BY <1>1, SendingElsewhere DEF ChannelInv
<1>7. Delivered' = Append(Delivered, piece)
  <2> DEFINE S == [source : Stream, piece : Piece]
             Out(frame) == [source |-> frame.stream, piece |-> AsPiece(frame)]
             n == Len(wire)
             out == [k \in 1..n |-> Out(wire[k])]
             now == [k \in 1..n + 1 |-> Out(wire'[k])]
  <2>1. wire \in Seq(Frame) /\ n \in Nat /\ DOMAIN wire = 1..n
    BY DEF ChannelInv, Types
  <2>2. /\ Len(wire') = n + 1 /\ wire' \in Seq(Frame) /\ DOMAIN wire' = 1..n + 1
        /\ \A k \in 1..n : wire'[k] = wire[k]
        /\ wire'[n + 1] = frames[1]
    BY <1>1, <1>2, <2>1
  <2>3. Delivered = out /\ Delivered' = now
    BY <2>1, <2>2 DEF Delivered
  <2>4. \A frame \in Frame : Out(frame) \in S
    BY PieceOf DEF Frame
  <2>. HIDE DEF S, Out
  <2>5. out \in Seq(S) /\ Len(out) = n /\ \A k \in 1..n : out[k] = Out(wire[k])
    <3>1. out \in [1..n -> S]
      BY <2>1, <2>4
    <3>. QED  BY <2>1, <3>1
  <2>6. now \in Seq(S) /\ Len(now) = n + 1 /\ \A k \in 1..n + 1 : now[k] = Out(wire'[k])
    <3>1. now \in [1..n + 1 -> S]
      BY <2>1, <2>2, <2>4
    <3>. QED  BY <2>1, <3>1
  <2>7. piece = Out(frames[1]) /\ piece \in S
    BY <1>2, <2>4 DEF Out
  <2>. HIDE DEF out, now, piece
  <2>8. /\ Append(out, piece) \in Seq(S) /\ Len(Append(out, piece)) = n + 1
        /\ \A k \in 1..n : Append(out, piece)[k] = out[k]
        /\ Append(out, piece)[n + 1] = piece
    BY <2>5, <2>7, AppendProperties
  <2>9. ASSUME NEW k \in 1..Len(now)
        PROVE  now[k] = Append(out, piece)[k]
    <3>1. CASE k = n + 1
      BY <2>1, <2>2, <2>6, <2>7, <2>8, <3>1
    <3>2. CASE k # n + 1
      <4>1. k \in 1..n
        BY <2>1, <2>6, <3>2
      <4>. QED  BY <2>1, <2>2, <2>5, <2>6, <2>8, <4>1
    <3>. QED  BY <3>1, <3>2
  <2>10. now = Append(out, piece)
    BY <2>6, <2>8, <2>9, SeqEqual
  <2>. QED  BY <2>3, <2>10
<1>. HIDE DEF s, frames
<1>8. Sending' = [Sending EXCEPT ![s] = Tail(Sending[s])]
  BY <1>2, <1>5, <1>6, SendingIn
<1>9. Waiting' = Waiting
  BY <1>1 DEF Waiting, InPort
<1>10. Ch!Deliver(s)
  BY <1>1, <1>5, <1>7, <1>8, <1>9, SentStays DEF Ch!Deliver
<1>. QED  BY <1>2, <1>10 DEF Ch!Next

LEMMA ReceiveReturnsIsQuiet ==
  ASSUME ChannelInv, NEW w \in Worker, ReceiveReturns(w)
  PROVE  UNCHANGED Ch!channel
<1>1. /\ JobAt(w, None) /\ job[w] # None /\ job[w].frames = <<>>
      /\ \A t \in Stream : streamLock'[t] = IF t = job[w].stream THEN None ELSE streamLock[t]
      /\ UNCHANGED <<queue, source, wire>>
  BY ReceiveReturnsDoes DEF ChannelInv, Draining
<1>2. ASSUME NEW t \in Stream
      PROVE  Sending'[t] = Sending[t]
  <2>1. CASE t = job[w].stream
    <3>1. Sending[t] = <<>>
      BY <1>1, <2>1, SendingOfCall, MappedNothing DEF ChannelInv
    <3>. QED  BY <1>1, <2>1, <3>1, SendingIs
  <2>2. CASE t # job[w].stream
    <3>1. streamLock'[t] = streamLock[t]
      BY <1>1, <2>2
    <3>2. streamLock[t] # None => job'[streamLock[t]] = job[streamLock[t]]
      BY <1>1, <2>2 DEF ChannelInv, LockedByCall, JobAt
    <3>. QED  BY <3>1, <3>2, SendingIs
  <2>. QED  BY <2>1, <2>2
<1>3. Sending' = Sending
  BY <1>2 DEF Sending
<1>4. Waiting' = Waiting
  BY <1>1 DEF Waiting, InPort
<1>. QED  BY <1>1, <1>3, <1>4, QuietStep

LEMMA UnchangedIsQuiet ==
  ASSUME UNCHANGED <<queue, source, streamLock, job, wire>>
  PROVE  UNCHANGED Ch!channel
<1>1. Waiting' = Waiting
  BY DEF Waiting, InPort
<1>. QED  BY <1>1, QuietStep, SendingStays

LEMMA StepsAreSteps ==
  ASSUME ChannelInv, ChannelInv', [Next]_vars
  PROVE  Ch!Next \/ UNCHANGED Ch!channel
<1>1. Types'
  BY DEF ChannelInv
<1>2. ASSUME NEW s \in Stream, SignalStep(s)
      PROVE  Ch!Next \/ UNCHANGED Ch!channel
  <2>1. ASSUME NEW data \in Signals[s], NEW domain \in Domains, Connect(s, data, domain)
        PROVE  UNCHANGED Ch!channel
    BY <1>1, <2>1, ConnectIsQuiet
  <2>2. ASSUME NEW data \in Signals[s] \ {None}, ChangeDescriptor(s, data, None)
        PROVE  UNCHANGED Ch!channel
    BY <1>1, <2>2, ChangeIsQuiet
  <2>3. ASSUME NEW domain \in Domains, ChangeDescriptor(s, None, domain)
        PROVE  UNCHANGED Ch!channel
    BY <1>1, <2>3, ChangeIsQuiet
  <2>4. ASSUME NEW length \in Lengths[s], NEW parts \in Parts[s], SendData(s, length, parts)
        PROVE  Ch!Next
    BY <1>1, <2>4, SendDataPuts
  <2>5. CASE Disconnect(s)
    BY <1>1, <2>5, DisconnectLoses
  <2>. QED  BY <1>2, <2>1, <2>2, <2>3, <2>4, <2>5 DEF SignalStep
<1>3. ASSUME NEW s \in Stream, WriteStep(s)
      PROVE  UNCHANGED Ch!channel
  BY <1>3, UnchangedIsQuiet DEF WriteStep, SetPayloadType, SetStreamId, port
<1>4. ASSUME NEW w \in Worker, WorkerStep(w)
      PROVE  Ch!Next \/ UNCHANGED Ch!channel
  <2>1. ASSUME NEW s \in Stream, ReceiveUnconnected(w, s)
        PROVE  UNCHANGED Ch!channel
    BY <2>1, UnchangedIsQuiet DEF ReceiveUnconnected
  <2>. QED  BY <1>1, <1>4, <2>1, ReceiveConnectedIsQuiet, EventIsQuiet, SkipLoses, EncodeBegins,
                EncodeReturnsIsQuiet, SendPacketDelivers, ReceiveReturnsIsQuiet DEF WorkerStep
<1>5. CASE UNCHANGED vars
  BY <1>5, UnchangedIsQuiet DEF vars, port
<1>6. CASE StatusStep
  BY <1>6, StatusStepDoes, UnchangedIsQuiet DEF ChannelInv
<1>. QED  BY <1>2, <1>3, <1>4, <1>5, <1>6 DEF Next

LEMMA StartsAsChannels == Init => Ch!Init
<1>1. SUFFICES ASSUME Init
               PROVE  Ch!Init
  OBVIOUS
<1>2. Sent = [s \in Stream |-> 0]
  BY <1>1 DEF Init, Sent
<1>3. Waiting = [s \in Stream |-> {}]
  <2>1. \A s \in Stream : \A c \in 1..MaxConnections[s] : queue[s][c] = <<>>
    BY <1>1 DEF Init
  <2>2. \A s \in Stream : \A c \in 1..MaxConnections[s] : DOMAIN queue[s][c] = {}
    BY <2>1
  <2>. QED  BY <2>2 DEF Waiting, InPort
<1>4. Sending = [s \in Stream |-> <<>>]
  BY <1>1 DEF Init, Sending
<1>5. Delivered = <<>>
  BY <1>1 DEF Init, Delivered
<1>. QED  BY <1>2, <1>3, <1>4, <1>5 DEF Ch!Init

\* For any number of blocks, workers and identifiers, each stream is a channel that
\* keeps the order of its messages, gives each out once and whole and mixes them with
\* no other of its own: the lock that a call holds (stream_fb.cpp:233) is enough for
\* it, although frames are sent outside that of the encoder.
THEOREM ImplementsChannels == Spec => StreamsAreChannels
<1>1. ChannelInv /\ ChannelInv' /\ [Next]_vars => [Ch!Next]_(Ch!channel)
  BY StepsAreSteps
<1>. QED  BY ChannelInvariant, StartsAsChannels, <1>1, PTL DEF Spec, StreamsAreChannels, Ch!Spec

================================================================================
