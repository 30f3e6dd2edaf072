------------------------------- MODULE SinkStream -------------------------------
(***************************************************************************)
(* A Stream block of the data sink, which turns CMP data messages into the *)
(* packets of two signals.                                                 *)
(*                                                                         *)
(* The capture thread calls receive; the configuration thread calls        *)
(* setPayloadType.  Neither takes a lock that the other one needs, so their*)
(* steps come in any order.  A step reads or writes one of the members     *)
(* that they share: payloadType, updateDescriptors and the descriptors of  *)
(* the signals.                                                            *)
(***************************************************************************)
EXTENDS Sequences

CONSTANTS
  Intervals,  \* sample intervals of analog messages
  Scalings,   \* their data type, unit, offset and scale
  Misread,    \* what a message of another type says where an analog one has these
  None,       \* no descriptor, no call, nothing sent
  Batches     \* what receive may be given

PayloadTypes == {"undefined", "can", "canFd", "ethernet", "analog"}

AnalogPacket == [type : {"analog"}, interval : Intervals, scaling : Scalings]
AsyncPacket == [type : PayloadTypes \ {"analog"}, interval : {Misread}, scaling : {Misread}]

DataDescriptors == {None, "can", "ethernet", Misread} \cup Scalings
DomainDescriptors == {"async", Misread} \cup Intervals

\* A call of setPayloadType and one of receive
WriteRecord == [step : {"assign", "data", "domain", "updated"}, type : PayloadTypes]
CallRecord ==
  [step : {"test", "branch", "testAll", "switch", "sync", "build", "make", "send"},
   packets : Seq(AnalogPacket \cup AsyncPacket), way : {None, "sync", "can", "ethernet"}, alone : BOOLEAN,
   rebuild : SUBSET {"domain", "data", "all"}, domain : DomainDescriptors \cup {None}]

ASSUME SinkStreamAssumption ==
  /\ Batches \subseteq Seq(AnalogPacket \cup AsyncPacket)
  /\ \A batch \in Batches : batch # <<>> /\ \A k \in DOMAIN batch : batch[k].type = batch[1].type
  /\ Misread \notin Intervals \cup Scalings
  /\ None \notin Intervals \cup Scalings \cup {Misread} \cup WriteRecord \cup CallRecord

VARIABLES
  payloadType,
  updateDescriptors,
  data,      \* the descriptor of dataSignal; for analog data, the scaling in it
  domain,    \* the descriptor of domainSignal; for analog data, the interval in it
  header,    \* analogHeader
  write,     \* the call of setPayloadType that is under way
  call,      \* the call of receive that is under way
  sent,      \* what the signals sent last
  raced      \* history: the two calls met and Analog was not selected anew since

vars == <<payloadType, updateDescriptors, data, domain, header, write, call, sent, raced>>

\* buildDataDescriptor
BuiltDataDescriptor(type) ==
  IF type \in {"can", "canFd"} THEN "can" ELSE IF type = "ethernet" THEN "ethernet" ELSE data

\* The constructor; the payload type is the one of the interface.
Init ==
  /\ payloadType \in PayloadTypes
  /\ updateDescriptors = (payloadType = "analog")
  /\ data = IF payloadType \in {"can", "canFd"} THEN "can"
            ELSE IF payloadType = "ethernet" THEN "ethernet" ELSE None
  /\ domain = "async"
  /\ header = [interval |-> None, scaling |-> None]
  /\ write = None /\ call = None /\ sent = None /\ raced = FALSE

--------------------------------------------------------------------------------
(* setPayloadType, on the configuration thread.                              *)

WriteGoes(step) == write' = [write EXCEPT !.step = step]
At(step) == write # None /\ write.step = step

\* Fault: only a selection of Analog counts.
NeedsUpdateIfNew(type) == type = "analog"

NeedsUpdate(type) == payloadType = "analog" \/ type = "analog"

SetPayloadType(type) ==
  /\ write = None
  /\ updateDescriptors' = NeedsUpdate(type)
  /\ write' = [step |-> "assign", type |-> type]
  /\ raced' = (raced \/ call # None)
  /\ call' = IF call = None THEN call ELSE [call EXCEPT !.alone = FALSE]
  /\ UNCHANGED <<payloadType, data, domain, header, sent>>

Assign ==
  /\ At("assign")
  /\ payloadType' = write.type
  /\ IF write.type = "analog" THEN write' = None ELSE WriteGoes("data")
  /\ UNCHANGED <<updateDescriptors, data, domain, header, call, sent, raced>>

BuildDataDescriptor ==
  /\ At("data")
  /\ data' = BuiltDataDescriptor(payloadType)
  /\ WriteGoes("domain")
  /\ UNCHANGED <<payloadType, updateDescriptors, domain, header, call, sent, raced>>

BuildAsyncDomainDescriptor ==
  /\ At("domain")
  /\ IF updateDescriptors THEN domain' = "async" /\ WriteGoes("updated")
     ELSE domain' = domain /\ write' = None
  /\ UNCHANGED <<payloadType, updateDescriptors, data, header, call, sent, raced>>

Updated ==
  /\ At("updated")
  /\ updateDescriptors' = FALSE
  /\ write' = None
  /\ UNCHANGED <<payloadType, data, domain, header, call, sent, raced>>

--------------------------------------------------------------------------------
(* receive, on the capture thread.                                           *)

In(step) == call # None /\ call.step = step
Goes(step) == call' = [call EXCEPT !.step = step]
packet == Head(call.packets)

\* The call decodes its packets in one of the three ways.
Takes(way) == call' = [call EXCEPT !.step = IF way = "sync" THEN "sync" ELSE "make", !.way = way]

\* The call begins.  It has its own packets: one that was published alone, or
\* several of one type.
Receive(packets, single) ==
  /\ call = None
  /\ single => Len(packets) = 1
  /\ call' = [step |-> IF single THEN "test" ELSE "testAll", packets |-> packets,
              way |-> None,
              alone |-> write = None, rebuild |-> {}, domain |-> None]
  /\ raced' = (raced \/ write # None)
  /\ sent' = None
  /\ UNCHANGED <<payloadType, updateDescriptors, data, domain, header, write>>

\* The packet is not of the type selected, or the type has no decoder.
ReceiveReturns ==
  /\ \/ (In("test") \/ In("testAll")) /\ packet.type # payloadType
     \/ In("switch") /\ payloadType = "undefined"
  /\ call' = None
  /\ UNCHANGED <<payloadType, updateDescriptors, data, domain, header, write, sent, raced>>

\* The packet is of the type, and payloadType is read again to choose the way.
Test ==
  /\ In("test") /\ packet.type = payloadType
  /\ Goes("branch")
  /\ UNCHANGED <<payloadType, updateDescriptors, data, domain, header, write, sent, raced>>

Branch ==
  /\ In("branch")
  /\ IF payloadType = "analog" THEN Takes("sync") ELSE Goes("testAll")
  /\ UNCHANGED <<payloadType, updateDescriptors, data, domain, header, write, sent, raced>>

TestAll ==
  /\ In("testAll") /\ packet.type = payloadType
  /\ Goes("switch")
  /\ UNCHANGED <<payloadType, updateDescriptors, data, domain, header, write, sent, raced>>

Switch ==
  /\ In("switch") /\ payloadType # "undefined"
  /\ Takes(IF payloadType = "analog" THEN "sync" ELSE IF payloadType = "ethernet" THEN "ethernet" ELSE "can")
  /\ UNCHANGED <<payloadType, updateDescriptors, data, domain, header, write, sent, raced>>

\* Fault: a new sample interval is not noticed.
ChangedIgnoresInterval(p) ==
  {part \in {"data"} : p.scaling # header.scaling}

\* domainChanged and dataChanged
Changed(p) ==
  {part \in {"domain"} : p.interval # header.interval} \cup
  {part \in {"data"} : p.scaling # header.scaling}

\* processSyncData up to the first descriptor it builds; "all" stands for the
\* reset of updateDescriptors after both.
ProcessSyncData ==
  /\ In("sync")
  /\ call' = [call EXCEPT !.step = "build",
                          !.rebuild = IF updateDescriptors THEN {"domain", "data", "all"} ELSE Changed(packet)]
  /\ UNCHANGED <<payloadType, updateDescriptors, data, domain, header, write, sent, raced>>

BuildSyncDomainDescriptor ==
  /\ In("build") /\ "domain" \in call.rebuild
  /\ domain' = packet.interval
  /\ header' = [header EXCEPT !.interval = packet.interval]
  /\ call' = [call EXCEPT !.rebuild = @ \ {"domain"}]
  /\ UNCHANGED <<payloadType, updateDescriptors, data, write, sent, raced>>

BuildAnalogDescriptor ==
  /\ In("build") /\ "domain" \notin call.rebuild /\ "data" \in call.rebuild
  /\ data' = packet.scaling
  /\ header' = [header EXCEPT !.scaling = packet.scaling]
  /\ call' = [call EXCEPT !.rebuild = @ \ {"data"}]
  /\ UNCHANGED <<payloadType, updateDescriptors, domain, write, sent, raced>>

DescriptorsBuilt ==
  /\ In("build") /\ call.rebuild \subseteq {"all"}
  /\ IF call.rebuild = {} THEN UNCHANGED <<updateDescriptors, raced>>
     ELSE updateDescriptors' = FALSE /\ raced' = (raced /\ ~call.alone)
  /\ call' = [call EXCEPT !.step = "make", !.rebuild = {}]
  /\ UNCHANGED <<payloadType, data, domain, header, write, sent>>

\* Fault: the domain packet takes the descriptor of the other signal.
MakeDomainPacketOfData ==
  /\ In("make")
  /\ call' = [call EXCEPT !.step = "send", !.domain = data]
  /\ UNCHANGED <<payloadType, updateDescriptors, data, domain, header, write, sent, raced>>

\* The domain packet takes the descriptor that its signal has at that moment.
MakeDomainPacket ==
  /\ In("make")
  /\ call' = [call EXCEPT !.step = "send", !.domain = domain]
  /\ UNCHANGED <<payloadType, updateDescriptors, data, domain, header, write, sent, raced>>

\* So does the data packet, and both are sent.  CAN messages make one packet
\* together, and others one each.
SendPacket ==
  /\ In("send")
  /\ sent' = [message |-> packet, way |-> call.way, data |-> data, domain |-> call.domain, raced |-> raced]
  /\ call' = IF Len(call.packets) = 1 \/ call.way = "can" THEN None
             ELSE [call EXCEPT !.packets = Tail(@), !.step = IF call.way = "sync" THEN "sync" ELSE "make"]
  /\ UNCHANGED <<payloadType, updateDescriptors, data, domain, header, write, raced>>

--------------------------------------------------------------------------------
Next ==
  \/ \E type \in PayloadTypes : SetPayloadType(type)
  \/ Assign \/ BuildDataDescriptor \/ BuildAsyncDomainDescriptor \/ Updated
  \/ \E packets \in Batches, single \in BOOLEAN : Receive(packets, single)
  \/ ReceiveReturns \/ Test \/ Branch \/ TestAll \/ Switch
  \/ ProcessSyncData \/ BuildSyncDomainDescriptor \/ BuildAnalogDescriptor \/ DescriptorsBuilt
  \/ MakeDomainPacket \/ SendPacket

Spec == Init /\ [][Next]_vars

--------------------------------------------------------------------------------
(* Properties.                                                               *)

\* Every variable has its type (stream_fb.h:97).
TypeOK ==
  /\ payloadType \in PayloadTypes
  /\ updateDescriptors \in BOOLEAN
  /\ data \in DataDescriptors
  /\ domain \in DomainDescriptors
  /\ header \in [interval : Intervals \cup {None, Misread}, scaling : Scalings \cup {None, Misread}]
  /\ write \in WriteRecord \cup {None}
  /\ call \in CallRecord \cup {None}
  /\ raced \in BOOLEAN

\* What a packet was decoded and sent as suits the message it came from: the data
\* descriptor is of the message's type or has its scaling, the domain descriptor
\* has its interval, or none for a message that is not analog.  This holds
\* whatever types were selected, unless a selection met a call of receive; after
\* that it holds again from the first message of an undisturbed selection of
\* Analog on (stream_fb.cpp:34).
SentFits ==
  sent # None /\ ~sent.raced =>
    IF sent.message.type = "analog"
    THEN sent.way = "sync" /\ sent.data = sent.message.scaling /\ sent.domain = sent.message.interval
    ELSE sent.way = sent.data /\ sent.data = BuiltDataDescriptor(sent.message.type) /\ sent.domain = "async"

\* Between calls the descriptors are the ones of the type selected, or those of
\* the last analog message, or are about to be replaced (stream_fb.cpp:37).
DescriptorsFollowType ==
  write = None /\ call = None /\ ~raced =>
    IF payloadType = "analog"
    THEN updateDescriptors \/ (data = header.scaling /\ domain = header.interval)
    ELSE ~updateDescriptors /\ data = BuiltDataDescriptor(payloadType) /\ domain = "async"
================================================================================
