----------------------------- MODULE StreamChannel -----------------------------
(***************************************************************************)
(* StreamInput seen from the signals: whatever workers the calls run on and*)
(* however a port is disconnected and connected again, each stream is a    *)
(* channel of its own.                                                     *)
(***************************************************************************)
EXTENDS StreamInput

\* A data packet seen as a message, and a frame as a piece of one.
Message ==
  [s \in Stream |-> [number : 1..MaxPackets[s], data : Signals[s] \ {None}, parts : Parts[s]]]
AsMessage(packet) == [number |-> packet.number, data |-> packet.data, parts |-> packet.parts]
AsPiece(frame) == [number |-> frame.number, data |-> frame.data, part |-> frame.part]

Sent == [s \in Stream |-> source[s].packets]

\* What waits in the connections of a port.
InPort(s) == UNION {{queue[s][c][k] : k \in DOMAIN queue[s][c]} : c \in 1..MaxConnections[s]}
Waiting == [s \in Stream |-> {AsMessage(packet) : packet \in {p \in InPort(s) : ~p.event}}]

\* The frames in the hands of the call that has the lock of the block.
Sending ==
  [s \in Stream |-> IF streamLock[s] = None THEN <<>>
                    ELSE LET frames == job[streamLock[s]].frames IN [k \in DOMAIN frames |-> AsPiece(frames[k])]]

Delivered == [k \in DOMAIN wire |-> [source |-> wire[k].stream, piece |-> AsPiece(wire[k])]]

Ch == INSTANCE Channels WITH
        Source <- Stream, sent <- Sent, pending <- Waiting, sending <- Sending, delivered <- Delivered

\* A worker is a thread, which the system schedules as long as it can go on, and so
\* is the status thread when it has a lock that a worker may wait for.
FairSpec ==
  /\ Spec /\ \A w \in Worker : WF_vars(WorkerStep(w))
  /\ WF_vars(StatusEncodeReturns)

\* Each stream implements a channel: its samples leave in their order, each once
\* and whole, although calls of onPacketReceived overlap on several workers and
\* one may go on with a connection that the port has given up (stream_fb.cpp:231).
StreamsAreChannels == Ch!Spec

\* No packet is left behind in a connection, although the first call that gets
\* the lock empties the queue and later ones find it empty (stream_fb.cpp:258).
QueuesDrain == Ch!Drains
================================================================================
