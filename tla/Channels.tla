------------------------------- MODULE Channels -------------------------------
(***************************************************************************)
(* What the capture module promises of the samples of each signal: they go *)
(* out in the order in which the signal sent them, each at most once, and  *)
(* one that is begun goes out whole, with nothing else of the signal in    *)
(* between.  A message may be lost before that, on a disconnect or because *)
(* the Stream block makes nothing of it.                                   *)
(***************************************************************************)
EXTENDS Naturals, Sequences

CONSTANTS
  Source,    \* the signals
  Message    \* for each of them, what it may send: data, cut into parts

VARIABLES
  sent,      \* how many messages a signal has sent: they are numbered
  pending,   \* messages sent and neither begun nor lost
  sending,   \* pieces of the message begun that are not out yet
  delivered  \* pieces that are out, of all signals

channel == <<sent, pending, sending, delivered>>

\* What goes out for a message.
Pieces(m) == [k \in 1..m.parts |-> [number |-> m.number, data |-> m.data, part |-> k]]

Init ==
  /\ sent = [s \in Source |-> 0]
  /\ pending = [s \in Source |-> {}]
  /\ sending = [s \in Source |-> <<>>]
  /\ delivered = <<>>

Put(s, m) ==
  /\ m.number = sent[s] + 1
  /\ sent' = [sent EXCEPT ![s] = m.number]
  /\ pending' = [pending EXCEPT ![s] = @ \cup {m}]
  /\ UNCHANGED <<sending, delivered>>

Lose(s, lost) ==
  /\ pending' = [pending EXCEPT ![s] = @ \ lost]
  /\ UNCHANGED <<sent, sending, delivered>>

\* The oldest message is next.
Begin(s) ==
  /\ sending[s] = <<>>
  /\ \E m \in pending[s] :
       /\ \A other \in pending[s] \ {m} : m.number < other.number
       /\ sending' = [sending EXCEPT ![s] = Pieces(m)]
       /\ pending' = [pending EXCEPT ![s] = @ \ {m}]
  /\ UNCHANGED <<sent, delivered>>

Deliver(s) ==
  /\ sending[s] # <<>>
  /\ delivered' = Append(delivered, [source |-> s, piece |-> Head(sending[s])])
  /\ sending' = [sending EXCEPT ![s] = Tail(@)]
  /\ UNCHANGED <<sent, pending>>

Next ==
  \E s \in Source :
    \/ \E m \in Message[s] : Put(s, m)
    \/ \E lost \in SUBSET pending[s] : Lose(s, lost)
    \/ Begin(s)
    \/ Deliver(s)

Spec == Init /\ [][Next]_channel

\* Nothing stays in a channel for ever: each message is begun or lost, and one
\* that is begun goes out (stream_fb.cpp:258).
Drains ==
  \A s \in Source :
    /\ \A m \in Message[s] : m \in pending[s] ~> m \notin pending[s]
    /\ sending[s] # <<>> ~> sending[s] = <<>>
===============================================================================
