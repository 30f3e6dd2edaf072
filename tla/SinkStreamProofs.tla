---------------------------- MODULE SinkStreamProofs ----------------------------
(***************************************************************************)
(* Proofs about SinkStream: whatever intervals, scalings and messages      *)
(* there are, a packet that is sent suits the message it came from, and    *)
(* the descriptors follow the type selected, as SentFits and               *)
(* DescriptorsFollowType say.                                              *)
(*                                                                         *)
(* Both are about what raced excludes: calls that met.  The invariant says *)
(* where each call stands when none did.  A call of receive that is alone  *)
(* keeps its own facts even if raced, for it ends the disturbance when it  *)
(* builds both descriptors.                                                *)
(***************************************************************************)
EXTENDS SinkStream, Naturals, TLAPS

\* Messages that one call is given.
Batch(packets) ==
  /\ packets # <<>>
  /\ \A k \in DOMAIN packets : packets[k].type = packets[1].type

\* The types, and what a call carries.
Types == TypeOK /\ (call # None => Batch(call.packets))

\* Calls that did not meet are alone, and a call that is alone has no writer
\* beside it.
Apart ==
  /\ ~raced /\ call # None => call.alone
  /\ call # None /\ call.alone => write = None

Way(type) == IF type = "analog" THEN "sync" ELSE IF type = "ethernet" THEN "ethernet" ELSE "can"

\* A call that is alone decodes the type that is selected.
CallOfType ==
  call # None /\ call.alone =>
    /\ call.step \in {"branch", "switch", "sync", "build", "make", "send"} => packet.type = payloadType
    /\ call.step \in {"sync", "build"} => payloadType = "analog" /\ call.way = "sync"
    /\ call.step \in {"make", "send"} => call.way = Way(payloadType) /\ payloadType # "undefined"

Async(type) == data = BuiltDataDescriptor(type) /\ domain = "async"

IsOf(p) ==
  /\ data = p.scaling /\ header.scaling = p.scaling
  /\ domain = p.interval /\ header.interval = p.interval

\* The descriptors while the type is selected and no call is under way.
Follow ==
  IF payloadType = "analog" THEN updateDescriptors \/ (data = header.scaling /\ domain = header.interval)
  ELSE ~updateDescriptors /\ Async(payloadType)

\* ... in the middle of setPayloadType
Writing ==
  ~raced /\ write # None =>
    /\ write.step = "assign" =>
         /\ updateDescriptors = NeedsUpdate(write.type)
         /\ payloadType # "analog" => Async(payloadType)
    /\ write.step # "assign" => payloadType = write.type /\ payloadType # "analog"
    /\ write.step \in {"data", "domain"} => updateDescriptors \/ domain = "async"
    /\ write.step \in {"domain", "updated"} => data = BuiltDataDescriptor(payloadType)
    /\ write.step = "updated" => domain = "async"

\* ... in the middle of processSyncData
Building ==
  call # None /\ call.alone /\ call.step = "build" =>
    /\ ~raced /\ "all" \notin call.rebuild => ~updateDescriptors
    /\ ~raced \/ "all" \in call.rebuild =>
         /\ "domain" \notin call.rebuild => domain = packet.interval /\ header.interval = packet.interval
         /\ "data" \notin call.rebuild => data = packet.scaling /\ header.scaling = packet.scaling

\* ... and in the rest of receive.
Receiving ==
  ~raced /\ call # None =>
    /\ call.step # "build" => Follow
    /\ call.step \in {"make", "send"} /\ call.way = "sync" => ~updateDescriptors /\ IsOf(packet)
    /\ call.step = "send" => call.domain = domain

\* SentFits, for a message of a type that is sent at all.
Sent ==
  sent # None /\ ~sent.raced =>
    /\ sent.message.type \in PayloadTypes \ {"undefined"}
    /\ IF sent.message.type = "analog"
       THEN sent.way = "sync" /\ sent.data = sent.message.scaling /\ sent.domain = sent.message.interval
       ELSE /\ sent.way = Way(sent.message.type) /\ sent.data = Way(sent.message.type)
            /\ sent.domain = "async"

Descriptors == write = None /\ call = None /\ ~raced => Follow

SinkStreamInv ==
  Types /\ Apart /\ CallOfType /\ Writing /\ Building /\ Receiving /\ Descriptors /\ Sent

--------------------------------------------------------------------------------
(* Facts about batches.                                                      *)

\* A call starts with a batch (stream_fb.cpp:48).
LEMMA BatchStarts ==
  ASSUME NEW packets \in Batches
  PROVE packets \in Seq(AnalogPacket \cup AsyncPacket) /\ Batch(packets)
BY SinkStreamAssumption DEF Batch

\* The packet that is decoded is a message.
LEMMA HeadOfBatch ==
  ASSUME NEW packets \in Seq(AnalogPacket \cup AsyncPacket), Batch(packets)
  PROVE Head(packets) \in AnalogPacket \cup AsyncPacket
<1>1. Len(packets) \in Nat /\ Len(packets) # 0
  BY DEF Batch
<1>2. Head(packets) = packets[1] /\ 1 \in DOMAIN packets
  BY <1>1
<1>. QED
  BY <1>2

\* What is left of a batch after its first packet is one, of the same type.
LEMMA TailOfBatch ==
  ASSUME NEW packets \in Seq(AnalogPacket \cup AsyncPacket), Batch(packets), Len(packets) # 1
  PROVE /\ Tail(packets) \in Seq(AnalogPacket \cup AsyncPacket) /\ Batch(Tail(packets))
        /\ Head(Tail(packets)).type = Head(packets).type
<1>1. Len(packets) \in Nat /\ Len(packets) > 1
  <2>1. Len(packets) \in Nat /\ Len(packets) # 0
    BY DEF Batch
  <2>2. \A n \in Nat : n # 0 /\ n # 1 => n > 1
    OBVIOUS
  <2>. QED
    BY <2>1, <2>2
<1>2. /\ Tail(packets) \in Seq(AnalogPacket \cup AsyncPacket)
      /\ Len(Tail(packets)) = Len(packets) - 1
      /\ \A k \in 1..(Len(packets) - 1) : Tail(packets)[k] = packets[k + 1]
  BY <1>1
<1>3. Head(Tail(packets)) = packets[2] /\ Head(packets) = packets[1] /\ Tail(packets)[1] = packets[2]
  BY <1>1, <1>2
<1>4. \A k \in DOMAIN Tail(packets) : Tail(packets)[k].type = packets[1].type
  BY <1>1, <1>2 DEF Batch
<1>5. packets[2].type = packets[1].type
  BY <1>1 DEF Batch
<1>. QED
  BY <1>1, <1>2, <1>3, <1>4, <1>5 DEF Batch

LEMMA SetPayloadTypeKeeps ==
  ASSUME SinkStreamInv, NEW type \in PayloadTypes, SetPayloadType(type)
  PROVE SinkStreamInv'
<1>1. Types'
  <2>1. write' \in WriteRecord \cup {None}
    BY DEF SinkStreamInv, Types, TypeOK, SetPayloadType, NeedsUpdate, WriteRecord
  <2>2. call' \in CallRecord \cup {None}
    BY SinkStreamAssumption, BatchStarts
       DEF SinkStreamInv, Types, TypeOK, SetPayloadType, NeedsUpdate, CallRecord, packet
  <2>3. call' # None => Batch(call'.packets)
    BY SinkStreamAssumption, BatchStarts DEF SinkStreamInv, Types, TypeOK, SetPayloadType, NeedsUpdate
  <2>4. /\ payloadType' \in PayloadTypes /\ updateDescriptors' \in BOOLEAN
        /\ data' \in DataDescriptors /\ domain' \in DomainDescriptors /\ raced' \in BOOLEAN
    BY SinkStreamAssumption, BatchStarts DEF SinkStreamInv, Types, TypeOK, SetPayloadType, NeedsUpdate
  <2>5. header' \in [interval : Intervals \cup {None, Misread}, scaling : Scalings \cup {None, Misread}]
    BY SinkStreamAssumption, BatchStarts DEF SinkStreamInv, Types, TypeOK, SetPayloadType, NeedsUpdate
  <2>. QED
    BY <2>1, <2>2, <2>3, <2>4, <2>5 DEF Types, TypeOK
<1>2. Apart'
  BY DEF SinkStreamInv, Apart, NeedsUpdate, SetPayloadType, Types, TypeOK, WriteRecord, CallRecord,
         CallOfType
<1>3. CallOfType'
  BY SinkStreamAssumption DEF SinkStreamInv, CallOfType, SetPayloadType, Types
<1>4. Writing'
  BY DEF SinkStreamInv, Writing, Descriptors, Follow, Async, BuiltDataDescriptor, NeedsUpdate,
         SetPayloadType
<1>5. Building'
  BY SinkStreamAssumption DEF SinkStreamInv, Building, SetPayloadType, Types
<1>6. Receiving'
  BY SinkStreamAssumption DEF SinkStreamInv, Receiving, SetPayloadType, Types
<1>7. Descriptors'
  BY SinkStreamAssumption, BatchStarts
     DEF SinkStreamInv, Descriptors, Follow, NeedsUpdate, SetPayloadType, WriteRecord, CallRecord
<1>8. Sent'
  BY SinkStreamAssumption DEF SinkStreamInv, Sent, SetPayloadType, Types
<1>. QED
  BY <1>1, <1>2, <1>3, <1>4, <1>5, <1>6, <1>7, <1>8 DEF SinkStreamInv

LEMMA AssignKeeps ==
  ASSUME SinkStreamInv, Assign
  PROVE SinkStreamInv'
<1>a. write # None /\ ~raced => updateDescriptors \/ (domain = "async" /\ payloadType # "analog" /\ write.type # "analog")
  <2>. HAVE write # None /\ ~raced
  <2>1. updateDescriptors = NeedsUpdate(write.type) /\ (payloadType # "analog" => domain = "async")
    BY DEF SinkStreamInv, Writing, Async, Assign, At
  <2>. QED
    BY <2>1 DEF NeedsUpdate
<1>1. Types'
  <2>1. write' \in WriteRecord \cup {None}
    BY DEF SinkStreamInv, Types, TypeOK, Assign, WriteGoes, At, WriteRecord
  <2>2. call' \in CallRecord \cup {None}
    BY SinkStreamAssumption, BatchStarts DEF SinkStreamInv, Types, TypeOK, Assign, WriteGoes
  <2>3. call' # None => Batch(call'.packets)
    BY SinkStreamAssumption, BatchStarts DEF SinkStreamInv, Types, TypeOK, Assign, WriteGoes
  <2>4. /\ payloadType' \in PayloadTypes /\ updateDescriptors' \in BOOLEAN
        /\ data' \in DataDescriptors /\ domain' \in DomainDescriptors /\ raced' \in BOOLEAN
    BY SinkStreamAssumption, BatchStarts
       DEF SinkStreamInv, Types, TypeOK, Assign, WriteGoes, At, WriteRecord
  <2>5. header' \in [interval : Intervals \cup {None, Misread}, scaling : Scalings \cup {None, Misread}]
    BY SinkStreamAssumption, BatchStarts DEF SinkStreamInv, Types, TypeOK, Assign, WriteGoes
  <2>. QED
    BY <2>1, <2>2, <2>3, <2>4, <2>5 DEF Types, TypeOK
<1>2. Apart'
  BY SinkStreamAssumption DEF SinkStreamInv, Apart, NeedsUpdate, Assign, WriteGoes, At
<1>3. CallOfType'
  BY SinkStreamAssumption DEF SinkStreamInv, CallOfType, Assign, WriteGoes, At, Types, CallRecord, Apart
<1>4. Writing'
  BY <1>1, <1>a DEF SinkStreamInv, Writing, Assign, WriteGoes, At, Types, TypeOK, WriteRecord
<1>5. Building'
  BY SinkStreamAssumption DEF SinkStreamInv, Building, packet, NeedsUpdate, Assign, WriteGoes
<1>6. Receiving'
  BY SinkStreamAssumption DEF SinkStreamInv, Receiving, Assign, WriteGoes, At, Types, CallRecord, Apart
<1>7. Descriptors'
  BY <1>1, <1>a, SinkStreamAssumption
     DEF SinkStreamInv, Descriptors, Follow, Assign, WriteGoes, At, Types, TypeOK, WriteRecord
<1>8. Sent'
  BY SinkStreamAssumption DEF SinkStreamInv, Sent, Assign, WriteGoes
<1>. QED
  BY <1>1, <1>2, <1>3, <1>4, <1>5, <1>6, <1>7, <1>8 DEF SinkStreamInv

LEMMA BuildDataDescriptorKeeps ==
  ASSUME SinkStreamInv, BuildDataDescriptor
  PROVE SinkStreamInv'
<1>1. Types'
  <2>1. write' \in WriteRecord \cup {None}
    BY DEF SinkStreamInv, Types, TypeOK, BuildDataDescriptor, WriteGoes, At, WriteRecord
  <2>2. call' \in CallRecord \cup {None}
    BY SinkStreamAssumption, BatchStarts
       DEF SinkStreamInv, Types, TypeOK, BuildDataDescriptor, WriteGoes
  <2>3. call' # None => Batch(call'.packets)
    BY SinkStreamAssumption, BatchStarts
       DEF SinkStreamInv, Types, TypeOK, BuildDataDescriptor, WriteGoes
  <2>4. /\ payloadType' \in PayloadTypes /\ updateDescriptors' \in BOOLEAN
        /\ data' \in DataDescriptors /\ domain' \in DomainDescriptors /\ raced' \in BOOLEAN
    BY DEF SinkStreamInv, Types, TypeOK, BuildDataDescriptor, BuiltDataDescriptor, DataDescriptors
  <2>5. header' \in [interval : Intervals \cup {None, Misread}, scaling : Scalings \cup {None, Misread}]
    BY SinkStreamAssumption, BatchStarts
       DEF SinkStreamInv, Types, TypeOK, BuildDataDescriptor, WriteGoes
  <2>. QED
    BY <2>1, <2>2, <2>3, <2>4, <2>5 DEF Types, TypeOK
<1>2. Apart'
  BY SinkStreamAssumption DEF SinkStreamInv, Apart, NeedsUpdate, BuildDataDescriptor, WriteGoes, At
<1>3. CallOfType'
  BY SinkStreamAssumption
     DEF SinkStreamInv, CallOfType, packet, NeedsUpdate, BuildDataDescriptor, WriteGoes
<1>4. Writing'
  BY SinkStreamAssumption
     DEF SinkStreamInv, Writing, Async, BuiltDataDescriptor, NeedsUpdate, BuildDataDescriptor,
         WriteGoes, At
<1>5. Building'
  BY SinkStreamAssumption
     DEF SinkStreamInv, Building, BuildDataDescriptor, WriteGoes, At, Types, CallRecord, Apart
<1>6. Receiving'
  BY DEF SinkStreamInv, Receiving, Follow, Async, IsOf, packet, BuiltDataDescriptor, BuildDataDescriptor
<1>7. Descriptors'
  BY SinkStreamAssumption
     DEF SinkStreamInv, Descriptors, BuildDataDescriptor, WriteGoes, At, Types, TypeOK, WriteRecord
<1>8. Sent'
  BY SinkStreamAssumption DEF SinkStreamInv, Sent, BuildDataDescriptor, WriteGoes
<1>. QED
  BY <1>1, <1>2, <1>3, <1>4, <1>5, <1>6, <1>7, <1>8 DEF SinkStreamInv

LEMMA BuildAsyncDomainDescriptorKeeps ==
  ASSUME SinkStreamInv, BuildAsyncDomainDescriptor
  PROVE SinkStreamInv'
<1>1. Types'
  <2>1. write' \in WriteRecord \cup {None}
    BY DEF SinkStreamInv, Types, TypeOK, BuildAsyncDomainDescriptor, WriteGoes, At, WriteRecord
  <2>2. call' \in CallRecord \cup {None}
    BY SinkStreamAssumption, BatchStarts
       DEF SinkStreamInv, Types, TypeOK, BuildAsyncDomainDescriptor, WriteGoes
  <2>3. call' # None => Batch(call'.packets)
    BY SinkStreamAssumption, BatchStarts
       DEF SinkStreamInv, Types, TypeOK, BuildAsyncDomainDescriptor, WriteGoes
  <2>4. /\ payloadType' \in PayloadTypes /\ updateDescriptors' \in BOOLEAN
        /\ data' \in DataDescriptors /\ domain' \in DomainDescriptors /\ raced' \in BOOLEAN
    BY SinkStreamAssumption, BatchStarts
       DEF SinkStreamInv, Types, TypeOK, BuildAsyncDomainDescriptor, WriteGoes, DataDescriptors,
           DomainDescriptors
  <2>5. header' \in [interval : Intervals \cup {None, Misread}, scaling : Scalings \cup {None, Misread}]
    BY SinkStreamAssumption, BatchStarts
       DEF SinkStreamInv, Types, TypeOK, BuildAsyncDomainDescriptor, WriteGoes
  <2>. QED
    BY <2>1, <2>2, <2>3, <2>4, <2>5 DEF Types, TypeOK
<1>2. Apart'
  BY SinkStreamAssumption
     DEF SinkStreamInv, Apart, NeedsUpdate, BuildAsyncDomainDescriptor, WriteGoes, At
<1>3. CallOfType'
  BY SinkStreamAssumption
     DEF SinkStreamInv, CallOfType, packet, NeedsUpdate, BuildAsyncDomainDescriptor, WriteGoes
<1>4. Writing'
  BY DEF SinkStreamInv, Writing, BuiltDataDescriptor, BuildAsyncDomainDescriptor, WriteGoes, At,
         Types, TypeOK, WriteRecord
<1>5. Building'
  BY SinkStreamAssumption
     DEF SinkStreamInv, Building, BuildAsyncDomainDescriptor, WriteGoes, At, Types, CallRecord,
         Apart
<1>6. Receiving'
  BY SinkStreamAssumption
     DEF SinkStreamInv, Receiving, BuildAsyncDomainDescriptor, WriteGoes, At, Types, CallRecord,
         Apart
<1>7. Descriptors'
  BY SinkStreamAssumption
     DEF SinkStreamInv, Types, Writing, Descriptors, TypeOK, WriteRecord, Follow, Async,
         BuiltDataDescriptor, BuildAsyncDomainDescriptor, WriteGoes, At
<1>8. Sent'
  BY SinkStreamAssumption DEF SinkStreamInv, Sent, BuildAsyncDomainDescriptor, WriteGoes
<1>. QED
  BY <1>1, <1>2, <1>3, <1>4, <1>5, <1>6, <1>7, <1>8 DEF SinkStreamInv

LEMMA UpdatedKeeps ==
  ASSUME SinkStreamInv, Updated
  PROVE SinkStreamInv'
<1>1. Types'
  <2>1. write' \in WriteRecord \cup {None}
    BY DEF SinkStreamInv, Types, TypeOK, Updated, At, WriteRecord
  <2>2. call' \in CallRecord \cup {None}
    BY SinkStreamAssumption, BatchStarts DEF SinkStreamInv, Types, TypeOK, Updated, At
  <2>3. call' # None => Batch(call'.packets)
    BY SinkStreamAssumption, BatchStarts DEF SinkStreamInv, Types, TypeOK, Updated, At
  <2>4. /\ payloadType' \in PayloadTypes /\ updateDescriptors' \in BOOLEAN
        /\ data' \in DataDescriptors /\ domain' \in DomainDescriptors /\ raced' \in BOOLEAN
    BY SinkStreamAssumption, BatchStarts DEF SinkStreamInv, Types, TypeOK, Updated, At
  <2>5. header' \in [interval : Intervals \cup {None, Misread}, scaling : Scalings \cup {None, Misread}]
    BY SinkStreamAssumption, BatchStarts DEF SinkStreamInv, Types, TypeOK, Updated, At
  <2>. QED
    BY <2>1, <2>2, <2>3, <2>4, <2>5 DEF Types, TypeOK
<1>2. Apart'
  BY SinkStreamAssumption DEF SinkStreamInv, Apart, NeedsUpdate, Updated
<1>3. CallOfType'
  BY SinkStreamAssumption DEF SinkStreamInv, CallOfType, packet, NeedsUpdate, Updated, At
<1>4. Writing'
  BY SinkStreamAssumption DEF SinkStreamInv, Writing, NeedsUpdate, Updated
<1>5. Building'
  BY SinkStreamAssumption DEF SinkStreamInv, Building, packet, NeedsUpdate, Updated, At
<1>6. Receiving'
  BY SinkStreamAssumption DEF SinkStreamInv, Receiving, Updated, At, Apart, CallOfType
<1>7. Descriptors'
  BY DEF SinkStreamInv, Writing, Descriptors, Follow, Async, BuiltDataDescriptor, Updated, At
<1>8. Sent'
  BY SinkStreamAssumption DEF SinkStreamInv, Sent, Updated, At
<1>. QED
  BY <1>1, <1>2, <1>3, <1>4, <1>5, <1>6, <1>7, <1>8 DEF SinkStreamInv

LEMMA ReceiveKeeps ==
  ASSUME SinkStreamInv, NEW packets \in Batches, NEW single \in BOOLEAN, Receive(packets, single)
  PROVE SinkStreamInv'
<1>1. Types'
  <2>1. write' \in WriteRecord \cup {None}
    BY DEF SinkStreamInv, Types, TypeOK, Receive, WriteRecord
  <2>2. call' \in CallRecord \cup {None}
    BY SinkStreamAssumption, BatchStarts DEF SinkStreamInv, Receive, CallRecord
  <2>3. call' # None => Batch(call'.packets)
    BY SinkStreamAssumption, BatchStarts DEF SinkStreamInv, Receive, CallRecord
  <2>4. /\ payloadType' \in PayloadTypes /\ updateDescriptors' \in BOOLEAN
        /\ data' \in DataDescriptors /\ domain' \in DomainDescriptors /\ raced' \in BOOLEAN
    BY SinkStreamAssumption, BatchStarts DEF SinkStreamInv, Types, TypeOK, Receive, WriteRecord
  <2>5. header' \in [interval : Intervals \cup {None, Misread}, scaling : Scalings \cup {None, Misread}]
    BY SinkStreamAssumption, BatchStarts DEF SinkStreamInv, Types, TypeOK, Receive, CallRecord
  <2>. QED
    BY <2>1, <2>2, <2>3, <2>4, <2>5 DEF Types, TypeOK
<1>2. Apart'
  BY SinkStreamAssumption DEF SinkStreamInv, Apart, NeedsUpdate, Receive
<1>3. CallOfType'
  BY SinkStreamAssumption DEF SinkStreamInv, CallOfType, Receive, Types
<1>4. Writing'
  BY SinkStreamAssumption DEF SinkStreamInv, Writing, NeedsUpdate, Receive
<1>5. Building'
  BY SinkStreamAssumption DEF SinkStreamInv, Building, Receive, Types
<1>6. Receiving'
  BY DEF SinkStreamInv, Receiving, Descriptors, Follow, Async, BuiltDataDescriptor, Receive
<1>7. Descriptors'
  BY SinkStreamAssumption
     DEF SinkStreamInv, Descriptors, Follow, Async, BuiltDataDescriptor, NeedsUpdate, Receive,
         Types
<1>8. Sent'
  BY SinkStreamAssumption DEF SinkStreamInv, Sent, Receive, Types
<1>. QED
  BY <1>1, <1>2, <1>3, <1>4, <1>5, <1>6, <1>7, <1>8 DEF SinkStreamInv

LEMMA ReceiveReturnsKeeps ==
  ASSUME SinkStreamInv, ReceiveReturns
  PROVE SinkStreamInv'
<1>1. Types'
  <2>1. write' \in WriteRecord \cup {None}
    BY DEF SinkStreamInv, Types, TypeOK, ReceiveReturns, In, WriteRecord
  <2>2. call' \in CallRecord \cup {None}
    BY SinkStreamAssumption, BatchStarts DEF SinkStreamInv, ReceiveReturns, In
  <2>3. call' # None => Batch(call'.packets)
    BY SinkStreamAssumption, BatchStarts DEF SinkStreamInv, ReceiveReturns, In
  <2>4. /\ payloadType' \in PayloadTypes /\ updateDescriptors' \in BOOLEAN
        /\ data' \in DataDescriptors /\ domain' \in DomainDescriptors /\ raced' \in BOOLEAN
    BY SinkStreamAssumption, BatchStarts DEF SinkStreamInv, Types, TypeOK, ReceiveReturns, In
  <2>5. header' \in [interval : Intervals \cup {None, Misread}, scaling : Scalings \cup {None, Misread}]
    BY SinkStreamAssumption, BatchStarts DEF SinkStreamInv, Types, TypeOK, ReceiveReturns, In
  <2>. QED
    BY <2>1, <2>2, <2>3, <2>4, <2>5 DEF Types, TypeOK
<1>2. Apart'
  BY SinkStreamAssumption DEF SinkStreamInv, Apart, NeedsUpdate, ReceiveReturns
<1>3. CallOfType'
  BY SinkStreamAssumption DEF SinkStreamInv, CallOfType, ReceiveReturns, In
<1>4. Writing'
  BY SinkStreamAssumption
     DEF SinkStreamInv, Writing, Async, BuiltDataDescriptor, NeedsUpdate, ReceiveReturns
<1>5. Building'
  BY SinkStreamAssumption DEF SinkStreamInv, Building, ReceiveReturns, In
<1>6. Receiving'
  BY SinkStreamAssumption DEF SinkStreamInv, Receiving, ReceiveReturns, In
<1>7. Descriptors'
  BY DEF SinkStreamInv, Receiving, Descriptors, Follow, Async, BuiltDataDescriptor, ReceiveReturns, In
<1>8. Sent'
  BY SinkStreamAssumption DEF SinkStreamInv, Sent, ReceiveReturns, In
<1>. QED
  BY <1>1, <1>2, <1>3, <1>4, <1>5, <1>6, <1>7, <1>8 DEF SinkStreamInv

LEMMA TestKeeps ==
  ASSUME SinkStreamInv, Test
  PROVE SinkStreamInv'
<1>1. Types'
  <2>1. write' \in WriteRecord \cup {None}
    BY DEF SinkStreamInv, Types, TypeOK, Test, In, Goes, WriteRecord
  <2>2. call' \in CallRecord \cup {None}
    BY SinkStreamAssumption, BatchStarts DEF SinkStreamInv, Types, TypeOK, Test, In, Goes, CallRecord
  <2>3. call' # None => Batch(call'.packets)
    BY SinkStreamAssumption, BatchStarts DEF SinkStreamInv, Types, TypeOK, Test, In, Goes, CallRecord
  <2>4. /\ payloadType' \in PayloadTypes /\ updateDescriptors' \in BOOLEAN
        /\ data' \in DataDescriptors /\ domain' \in DomainDescriptors /\ raced' \in BOOLEAN
    BY SinkStreamAssumption, BatchStarts DEF SinkStreamInv, Types, TypeOK, Test, In
  <2>5. header' \in [interval : Intervals \cup {None, Misread}, scaling : Scalings \cup {None, Misread}]
    BY SinkStreamAssumption, BatchStarts DEF SinkStreamInv, Types, TypeOK, Test, In
  <2>. QED
    BY <2>1, <2>2, <2>3, <2>4, <2>5 DEF Types, TypeOK
<1>2. Apart'
  BY SinkStreamAssumption DEF SinkStreamInv, Apart, NeedsUpdate, Test, In, Goes
<1>3. CallOfType'
  BY SinkStreamAssumption DEF SinkStreamInv, CallOfType, packet, NeedsUpdate, Test, In, Goes, Types
<1>4. Writing'
  BY SinkStreamAssumption DEF SinkStreamInv, Writing, Async, BuiltDataDescriptor, NeedsUpdate, Test
<1>5. Building'
  BY SinkStreamAssumption DEF SinkStreamInv, Building, Test, In, Goes, Types
<1>6. Receiving'
  BY DEF SinkStreamInv, Receiving, Follow, Async, BuiltDataDescriptor, Test, In, Goes
<1>7. Descriptors'
  BY SinkStreamAssumption, BatchStarts, HeadOfBatch, TailOfBatch
     DEF SinkStreamInv, Descriptors, Follow, Async, BuiltDataDescriptor, NeedsUpdate, Test, In,
         Goes, Types, TypeOK, WriteRecord, CallRecord, Apart, CallOfType, packet, Way, Batch
<1>8. Sent'
  BY SinkStreamAssumption DEF SinkStreamInv, Sent, Test, In
<1>. QED
  BY <1>1, <1>2, <1>3, <1>4, <1>5, <1>6, <1>7, <1>8 DEF SinkStreamInv

LEMMA BranchKeeps ==
  ASSUME SinkStreamInv, Branch
  PROVE SinkStreamInv'
<1>a. /\ call # None /\ call.step = "branch"
      /\ \/ payloadType = "analog" /\ call' = [call EXCEPT !.step = "sync", !.way = "sync"]
         \/ payloadType # "analog" /\ call' = [call EXCEPT !.step = "testAll"]
      /\ UNCHANGED <<payloadType, updateDescriptors, data, domain, header, write, sent, raced>>
  BY DEF Branch, In, Goes, Takes
<1>1. Types'
  <2>1. write' \in WriteRecord \cup {None}
    BY <1>a DEF SinkStreamInv, Types, TypeOK, In, WriteRecord
  <2>2. call' \in CallRecord \cup {None}
    <3>1. call \in CallRecord
      BY <1>a DEF SinkStreamInv, Types, TypeOK
    <3>2. CASE call' = [call EXCEPT !.step = "sync", !.way = "sync"]
      BY <3>1, <3>2 DEF CallRecord
    <3>3. CASE call' = [call EXCEPT !.step = "testAll"]
      BY <3>1, <3>3 DEF CallRecord
    <3>. QED
      BY <1>a, <3>2, <3>3
  <2>3. call' # None => Batch(call'.packets)
    BY <1>a, SinkStreamAssumption, BatchStarts, HeadOfBatch, TailOfBatch
       DEF SinkStreamInv, Types, TypeOK, In, CallRecord
  <2>4. /\ payloadType' \in PayloadTypes /\ updateDescriptors' \in BOOLEAN
        /\ data' \in DataDescriptors /\ domain' \in DomainDescriptors /\ raced' \in BOOLEAN
    BY <1>a, SinkStreamAssumption, BatchStarts DEF SinkStreamInv, Types, TypeOK
  <2>5. header' \in [interval : Intervals \cup {None, Misread}, scaling : Scalings \cup {None, Misread}]
    BY <1>a, SinkStreamAssumption, BatchStarts DEF SinkStreamInv, Types, TypeOK
  <2>. QED
    BY <2>1, <2>2, <2>3, <2>4, <2>5 DEF Types, TypeOK
<1>2. Apart'
  BY <1>a DEF SinkStreamInv, Apart, NeedsUpdate, In, Types, TypeOK, WriteRecord, CallRecord, CallOfType
<1>3. CallOfType'
  <2>1. call \in CallRecord /\ (call.alone => packet.type = payloadType)
    BY <1>a DEF SinkStreamInv, Types, TypeOK, CallOfType
  <2>2. CASE payloadType = "analog" /\ call' = [call EXCEPT !.step = "sync", !.way = "sync"]
    BY <1>a, <2>1, <2>2 DEF CallRecord, CallOfType, packet
  <2>3. CASE call' = [call EXCEPT !.step = "testAll"]
    BY <1>a, <2>1, <2>3 DEF CallRecord, CallOfType
  <2>. QED
    BY <1>a, <2>2, <2>3
<1>4. Writing'
  BY <1>a, SinkStreamAssumption DEF SinkStreamInv, Writing, Async, BuiltDataDescriptor, NeedsUpdate, In
<1>5. Building'
  <2>1. call \in CallRecord
    BY <1>a DEF SinkStreamInv, Types, TypeOK
  <2>2. call'.step # "build"
    BY <1>a, <2>1 DEF CallRecord
  <2>. QED
    BY <2>2 DEF Building
<1>6. Receiving'
  BY <1>a DEF SinkStreamInv, Receiving, Follow, Async, BuiltDataDescriptor, Types, TypeOK, CallRecord
<1>7. Descriptors'
  BY <1>a DEF SinkStreamInv, Receiving, Descriptors, Follow, Async, BuiltDataDescriptor
<1>8. Sent'
  BY <1>a, SinkStreamAssumption DEF SinkStreamInv, Sent
<1>. QED
  BY <1>1, <1>2, <1>3, <1>4, <1>5, <1>6, <1>7, <1>8 DEF SinkStreamInv

LEMMA TestAllKeeps ==
  ASSUME SinkStreamInv, TestAll
  PROVE SinkStreamInv'
<1>1. Types'
  <2>1. write' \in WriteRecord \cup {None}
    BY DEF SinkStreamInv, Types, TypeOK, TestAll, In, Goes, WriteRecord
  <2>2. call' \in CallRecord \cup {None}
    BY SinkStreamAssumption, BatchStarts DEF SinkStreamInv, Types, TypeOK, TestAll, In, Goes, CallRecord
  <2>3. call' # None => Batch(call'.packets)
    BY SinkStreamAssumption, BatchStarts DEF SinkStreamInv, Types, TypeOK, TestAll, In, Goes, CallRecord
  <2>4. /\ payloadType' \in PayloadTypes /\ updateDescriptors' \in BOOLEAN
        /\ data' \in DataDescriptors /\ domain' \in DomainDescriptors /\ raced' \in BOOLEAN
    BY SinkStreamAssumption, BatchStarts DEF SinkStreamInv, Types, TypeOK, TestAll, In
  <2>5. header' \in [interval : Intervals \cup {None, Misread}, scaling : Scalings \cup {None, Misread}]
    BY SinkStreamAssumption, BatchStarts DEF SinkStreamInv, Types, TypeOK, TestAll, In
  <2>. QED
    BY <2>1, <2>2, <2>3, <2>4, <2>5 DEF Types, TypeOK
<1>2. Apart'
  BY SinkStreamAssumption DEF SinkStreamInv, Apart, NeedsUpdate, TestAll, In, Goes
<1>3. CallOfType'
  BY SinkStreamAssumption DEF SinkStreamInv, CallOfType, packet, NeedsUpdate, TestAll, In, Goes, Types
<1>4. Writing'
  BY SinkStreamAssumption DEF SinkStreamInv, Writing, Async, BuiltDataDescriptor, NeedsUpdate, TestAll
<1>5. Building'
  BY SinkStreamAssumption DEF SinkStreamInv, Building, TestAll, In, Goes, Types
<1>6. Receiving'
  BY DEF SinkStreamInv, Receiving, Follow, Async, BuiltDataDescriptor, TestAll, In, Goes
<1>7. Descriptors'
  BY SinkStreamAssumption, BatchStarts, HeadOfBatch, TailOfBatch
     DEF SinkStreamInv, Descriptors, Follow, Async, BuiltDataDescriptor, NeedsUpdate, TestAll, In,
         Goes, Types, TypeOK, WriteRecord, CallRecord, Apart, CallOfType, packet, Way, Batch
<1>8. Sent'
  BY SinkStreamAssumption DEF SinkStreamInv, Sent, TestAll, In
<1>. QED
  BY <1>1, <1>2, <1>3, <1>4, <1>5, <1>6, <1>7, <1>8 DEF SinkStreamInv

LEMMA SwitchKeeps ==
  ASSUME SinkStreamInv, Switch
  PROVE SinkStreamInv'
<1>1. Types'
  <2>1. write' \in WriteRecord \cup {None}
    BY DEF SinkStreamInv, Types, TypeOK, Switch, In, Takes, WriteRecord
  <2>2. call' \in CallRecord \cup {None}
    BY SinkStreamAssumption, BatchStarts DEF SinkStreamInv, Types, TypeOK, Switch, In, Takes, CallRecord
  <2>3. call' # None => Batch(call'.packets)
    BY SinkStreamAssumption, BatchStarts DEF SinkStreamInv, Types, TypeOK, Switch, In, Takes, CallRecord
  <2>4. /\ payloadType' \in PayloadTypes /\ updateDescriptors' \in BOOLEAN
        /\ data' \in DataDescriptors /\ domain' \in DomainDescriptors /\ raced' \in BOOLEAN
    BY SinkStreamAssumption, BatchStarts DEF SinkStreamInv, Types, TypeOK, Switch, In
  <2>5. header' \in [interval : Intervals \cup {None, Misread}, scaling : Scalings \cup {None, Misread}]
    BY SinkStreamAssumption, BatchStarts DEF SinkStreamInv, Types, TypeOK, Switch, In
  <2>. QED
    BY <2>1, <2>2, <2>3, <2>4, <2>5 DEF Types, TypeOK
<1>2. Apart'
  BY SinkStreamAssumption DEF SinkStreamInv, Apart, NeedsUpdate, Switch, In, Takes
<1>3. CallOfType'
  BY DEF SinkStreamInv, CallOfType, Writing, CallRecord, packet, Way, BuiltDataDescriptor, Switch,
         In, Takes
<1>4. Writing'
  BY SinkStreamAssumption DEF SinkStreamInv, Writing, Async, BuiltDataDescriptor, NeedsUpdate, Switch
<1>5. Building'
  BY SinkStreamAssumption DEF SinkStreamInv, Building, Switch, In, Takes, Types
<1>6. Receiving'
  BY DEF SinkStreamInv, Receiving, Follow, Async, BuiltDataDescriptor, Switch, In, Takes
<1>7. Descriptors'
  BY DEF SinkStreamInv, Receiving, Descriptors, Follow, Async, BuiltDataDescriptor, Switch, In
<1>8. Sent'
  BY SinkStreamAssumption DEF SinkStreamInv, Sent, Switch, In
<1>. QED
  BY <1>1, <1>2, <1>3, <1>4, <1>5, <1>6, <1>7, <1>8 DEF SinkStreamInv

LEMMA ProcessSyncDataKeeps ==
  ASSUME SinkStreamInv, ProcessSyncData
  PROVE SinkStreamInv'
<1>1. Types'
  <2>1. write' \in WriteRecord \cup {None}
    BY DEF SinkStreamInv, Types, TypeOK, ProcessSyncData, In, Changed, WriteRecord
  <2>2. call' \in CallRecord \cup {None}
    BY SinkStreamAssumption, BatchStarts
       DEF SinkStreamInv, Types, TypeOK, ProcessSyncData, In, Changed, CallRecord
  <2>3. call' # None => Batch(call'.packets)
    BY SinkStreamAssumption, BatchStarts DEF SinkStreamInv, Types, TypeOK, ProcessSyncData, In
  <2>4. /\ payloadType' \in PayloadTypes /\ updateDescriptors' \in BOOLEAN
        /\ data' \in DataDescriptors /\ domain' \in DomainDescriptors /\ raced' \in BOOLEAN
    BY SinkStreamAssumption, BatchStarts DEF SinkStreamInv, Types, TypeOK, ProcessSyncData, In
  <2>5. header' \in [interval : Intervals \cup {None, Misread}, scaling : Scalings \cup {None, Misread}]
    BY SinkStreamAssumption, BatchStarts DEF SinkStreamInv, Types, TypeOK, ProcessSyncData, In
  <2>. QED
    BY <2>1, <2>2, <2>3, <2>4, <2>5 DEF Types, TypeOK
<1>2. Apart'
  BY SinkStreamAssumption DEF SinkStreamInv, Apart, NeedsUpdate, ProcessSyncData, In, Changed
<1>3. CallOfType'
  BY SinkStreamAssumption DEF SinkStreamInv, CallOfType, packet, NeedsUpdate, ProcessSyncData, In
<1>4. Writing'
  BY SinkStreamAssumption
     DEF SinkStreamInv, Writing, Async, BuiltDataDescriptor, NeedsUpdate, ProcessSyncData
<1>5. Building'
  BY DEF SinkStreamInv, CallOfType, Building, Receiving, packet, Follow, ProcessSyncData, In, Changed
<1>6. Receiving'
  BY SinkStreamAssumption DEF SinkStreamInv, Receiving, ProcessSyncData, In
<1>7. Descriptors'
  BY DEF SinkStreamInv, Receiving, Descriptors, Follow, Async, BuiltDataDescriptor, ProcessSyncData, In
<1>8. Sent'
  BY SinkStreamAssumption DEF SinkStreamInv, Sent, ProcessSyncData, In
<1>. QED
  BY <1>1, <1>2, <1>3, <1>4, <1>5, <1>6, <1>7, <1>8 DEF SinkStreamInv

LEMMA BuildSyncDomainDescriptorKeeps ==
  ASSUME SinkStreamInv, BuildSyncDomainDescriptor
  PROVE SinkStreamInv'
<1>1. Types'
  <2>1. write' \in WriteRecord \cup {None}
    BY DEF SinkStreamInv, Types, TypeOK, BuildSyncDomainDescriptor, In, WriteRecord
  <2>2. call' \in CallRecord \cup {None}
    BY SinkStreamAssumption, BatchStarts
       DEF SinkStreamInv, Types, TypeOK, BuildSyncDomainDescriptor, In, CallRecord, packet
  <2>3. call' # None => Batch(call'.packets)
    BY SinkStreamAssumption, BatchStarts DEF SinkStreamInv, Types, TypeOK, BuildSyncDomainDescriptor, In
  <2>4. /\ payloadType' \in PayloadTypes /\ updateDescriptors' \in BOOLEAN
        /\ data' \in DataDescriptors /\ domain' \in DomainDescriptors /\ raced' \in BOOLEAN
    BY BatchStarts, HeadOfBatch
       DEF SinkStreamInv, Types, TypeOK, BuildSyncDomainDescriptor, In, CallRecord, packet,
           AnalogPacket, AsyncPacket, DomainDescriptors
  <2>5. header' \in [interval : Intervals \cup {None, Misread}, scaling : Scalings \cup {None, Misread}]
    BY HeadOfBatch
       DEF SinkStreamInv, Types, TypeOK, BuildSyncDomainDescriptor, In, CallRecord, packet,
           AnalogPacket, AsyncPacket
  <2>. QED
    BY <2>1, <2>2, <2>3, <2>4, <2>5 DEF Types, TypeOK
<1>2. Apart'
  BY SinkStreamAssumption DEF SinkStreamInv, Apart, NeedsUpdate, BuildSyncDomainDescriptor, In, Types
<1>3. CallOfType'
  BY SinkStreamAssumption
     DEF SinkStreamInv, CallOfType, packet, NeedsUpdate, BuildSyncDomainDescriptor, In
<1>4. Writing'
  BY SinkStreamAssumption
     DEF SinkStreamInv, Writing, NeedsUpdate, BuildSyncDomainDescriptor, In, Types, CallRecord,
         Apart
<1>5. Building'
  BY SinkStreamAssumption
     DEF SinkStreamInv, Building, packet, NeedsUpdate, BuildSyncDomainDescriptor, In
<1>6. Receiving'
  BY SinkStreamAssumption DEF SinkStreamInv, Receiving, BuildSyncDomainDescriptor, In
<1>a. call' # None
  BY SinkStreamAssumption DEF SinkStreamInv, Types, TypeOK, CallRecord, BuildSyncDomainDescriptor, In
<1>7. Descriptors'
  BY <1>a, SinkStreamAssumption DEF SinkStreamInv, Descriptors
<1>8. Sent'
  BY SinkStreamAssumption DEF SinkStreamInv, Sent, BuildSyncDomainDescriptor, In
<1>. QED
  BY <1>1, <1>2, <1>3, <1>4, <1>5, <1>6, <1>7, <1>8 DEF SinkStreamInv

LEMMA BuildAnalogDescriptorKeeps ==
  ASSUME SinkStreamInv, BuildAnalogDescriptor
  PROVE SinkStreamInv'
<1>1. Types'
  <2>1. write' \in WriteRecord \cup {None}
    BY DEF SinkStreamInv, Types, TypeOK, BuildAnalogDescriptor, In, WriteRecord
  <2>2. call' \in CallRecord \cup {None}
    BY SinkStreamAssumption, BatchStarts
       DEF SinkStreamInv, Types, TypeOK, BuildAnalogDescriptor, In, CallRecord, packet
  <2>3. call' # None => Batch(call'.packets)
    BY SinkStreamAssumption, BatchStarts DEF SinkStreamInv, Types, TypeOK, BuildAnalogDescriptor, In
  <2>4. /\ payloadType' \in PayloadTypes /\ updateDescriptors' \in BOOLEAN
        /\ data' \in DataDescriptors /\ domain' \in DomainDescriptors /\ raced' \in BOOLEAN
    BY TailOfBatch
       DEF SinkStreamInv, Types, TypeOK, BuildAnalogDescriptor, In, CallRecord, packet,
           AnalogPacket, AsyncPacket, DataDescriptors
  <2>5. header' \in [interval : Intervals \cup {None, Misread}, scaling : Scalings \cup {None, Misread}]
    BY HeadOfBatch
       DEF SinkStreamInv, Types, TypeOK, BuildAnalogDescriptor, In, CallRecord, packet,
           AnalogPacket, AsyncPacket
  <2>. QED
    BY <2>1, <2>2, <2>3, <2>4, <2>5 DEF Types, TypeOK
<1>2. Apart'
  BY SinkStreamAssumption DEF SinkStreamInv, Apart, NeedsUpdate, BuildAnalogDescriptor, In, Types
<1>3. CallOfType'
  BY SinkStreamAssumption DEF SinkStreamInv, CallOfType, packet, NeedsUpdate, BuildAnalogDescriptor, In
<1>4. Writing'
  BY SinkStreamAssumption
     DEF SinkStreamInv, Writing, NeedsUpdate, BuildAnalogDescriptor, In, Types, CallRecord, Apart
<1>5. Building'
  BY SinkStreamAssumption DEF SinkStreamInv, Building, packet, NeedsUpdate, BuildAnalogDescriptor, In
<1>6. Receiving'
  BY SinkStreamAssumption DEF SinkStreamInv, Receiving, BuildAnalogDescriptor, In
<1>7. Descriptors'
  BY SinkStreamAssumption
     DEF SinkStreamInv, Descriptors, BuildAnalogDescriptor, In, Types, TypeOK, WriteRecord,
         CallRecord
<1>8. Sent'
  BY SinkStreamAssumption DEF SinkStreamInv, Sent, BuildAnalogDescriptor, In
<1>. QED
  BY <1>1, <1>2, <1>3, <1>4, <1>5, <1>6, <1>7, <1>8 DEF SinkStreamInv

LEMMA DescriptorsBuiltKeeps ==
  ASSUME SinkStreamInv, DescriptorsBuilt
  PROVE SinkStreamInv'
<1>1. Types'
  <2>1. write' \in WriteRecord \cup {None}
    BY DEF SinkStreamInv, Types, TypeOK, DescriptorsBuilt, In, WriteRecord
  <2>2. call' \in CallRecord \cup {None}
    BY SinkStreamAssumption, BatchStarts
       DEF SinkStreamInv, Types, TypeOK, DescriptorsBuilt, In, CallRecord, packet
  <2>3. call' # None => Batch(call'.packets)
    BY SinkStreamAssumption, BatchStarts DEF SinkStreamInv, Types, TypeOK, DescriptorsBuilt, In
  <2>4. /\ payloadType' \in PayloadTypes /\ updateDescriptors' \in BOOLEAN
        /\ data' \in DataDescriptors /\ domain' \in DomainDescriptors /\ raced' \in BOOLEAN
    BY SinkStreamAssumption, BatchStarts, HeadOfBatch, TailOfBatch
       DEF SinkStreamInv, Types, TypeOK, DescriptorsBuilt, In
  <2>5. header' \in [interval : Intervals \cup {None, Misread}, scaling : Scalings \cup {None, Misread}]
    BY SinkStreamAssumption, BatchStarts DEF SinkStreamInv, Types, TypeOK, DescriptorsBuilt, In
  <2>. QED
    BY <2>1, <2>2, <2>3, <2>4, <2>5 DEF Types, TypeOK
<1>2. Apart'
  BY DEF SinkStreamInv, Apart, NeedsUpdate, DescriptorsBuilt, In, Types, TypeOK
<1>3. CallOfType'
  BY DEF SinkStreamInv, CallOfType, Writing, CallRecord, packet, Way, BuiltDataDescriptor,
         DescriptorsBuilt, In
<1>4. Writing'
  BY SinkStreamAssumption
     DEF SinkStreamInv, Writing, NeedsUpdate, DescriptorsBuilt, In, Types, CallRecord, Apart
<1>5. Building'
  BY SinkStreamAssumption DEF SinkStreamInv, Building, DescriptorsBuilt, In
<1>6. Receiving'
  BY DEF SinkStreamInv, Types, Apart, CallOfType, Building, Receiving, TypeOK, packet, Follow,
         IsOf, DescriptorsBuilt, In
<1>7. Descriptors'
  BY SinkStreamAssumption, BatchStarts, HeadOfBatch, TailOfBatch
     DEF SinkStreamInv, Descriptors, Follow, Async, BuiltDataDescriptor, NeedsUpdate,
         DescriptorsBuilt, In, Types, TypeOK, WriteRecord, CallRecord, Apart, CallOfType, packet,
         Way, Batch
<1>8. Sent'
  BY SinkStreamAssumption DEF SinkStreamInv, Sent, DescriptorsBuilt, In
<1>. QED
  BY <1>1, <1>2, <1>3, <1>4, <1>5, <1>6, <1>7, <1>8 DEF SinkStreamInv

LEMMA MakeDomainPacketKeeps ==
  ASSUME SinkStreamInv, MakeDomainPacket
  PROVE SinkStreamInv'
<1>1. Types'
  <2>1. write' \in WriteRecord \cup {None}
    BY DEF SinkStreamInv, Types, TypeOK, MakeDomainPacket, In, WriteRecord
  <2>2. call' \in CallRecord \cup {None}
    BY SinkStreamAssumption, BatchStarts
       DEF SinkStreamInv, Types, TypeOK, MakeDomainPacket, In, CallRecord, packet
  <2>3. call' # None => Batch(call'.packets)
    BY SinkStreamAssumption, BatchStarts DEF SinkStreamInv, Types, TypeOK, MakeDomainPacket, In
  <2>4. /\ payloadType' \in PayloadTypes /\ updateDescriptors' \in BOOLEAN
        /\ data' \in DataDescriptors /\ domain' \in DomainDescriptors /\ raced' \in BOOLEAN
    BY SinkStreamAssumption, BatchStarts DEF SinkStreamInv, Types, TypeOK, MakeDomainPacket, In
  <2>5. header' \in [interval : Intervals \cup {None, Misread}, scaling : Scalings \cup {None, Misread}]
    BY SinkStreamAssumption, BatchStarts DEF SinkStreamInv, Types, TypeOK, MakeDomainPacket, In
  <2>. QED
    BY <2>1, <2>2, <2>3, <2>4, <2>5 DEF Types, TypeOK
<1>2. Apart'
  BY SinkStreamAssumption DEF SinkStreamInv, Apart, NeedsUpdate, MakeDomainPacket, In, Types
<1>3. CallOfType'
  BY SinkStreamAssumption DEF SinkStreamInv, CallOfType, packet, NeedsUpdate, MakeDomainPacket, In
<1>4. Writing'
  BY SinkStreamAssumption
     DEF SinkStreamInv, Writing, Async, BuiltDataDescriptor, NeedsUpdate, MakeDomainPacket
<1>5. Building'
  BY SinkStreamAssumption DEF SinkStreamInv, Building, MakeDomainPacket, In
<1>6. Receiving'
  BY SinkStreamAssumption
     DEF SinkStreamInv, Receiving, Follow, Async, IsOf, packet, BuiltDataDescriptor,
         MakeDomainPacket, In
<1>7. Descriptors'
  BY DEF SinkStreamInv, Descriptors, Follow, Async, BuiltDataDescriptor, MakeDomainPacket, In, Receiving
<1>8. Sent'
  BY SinkStreamAssumption DEF SinkStreamInv, Sent, MakeDomainPacket, In
<1>. QED
  BY <1>1, <1>2, <1>3, <1>4, <1>5, <1>6, <1>7, <1>8 DEF SinkStreamInv

LEMMA SendPacketKeeps ==
  ASSUME SinkStreamInv, SendPacket
  PROVE SinkStreamInv'
<1>1. Types'
  <2>1. write' \in WriteRecord \cup {None}
    BY DEF SinkStreamInv, Types, TypeOK, SendPacket, In, WriteRecord
  <2>2. call' \in CallRecord \cup {None}
    BY BatchStarts, TailOfBatch DEF SinkStreamInv, Types, TypeOK, SendPacket, In, CallRecord
  <2>3. call' # None => Batch(call'.packets)
    BY SinkStreamAssumption, BatchStarts, HeadOfBatch, TailOfBatch
       DEF SinkStreamInv, Types, TypeOK, SendPacket, In, CallRecord
  <2>4. /\ payloadType' \in PayloadTypes /\ updateDescriptors' \in BOOLEAN
        /\ data' \in DataDescriptors /\ domain' \in DomainDescriptors /\ raced' \in BOOLEAN
    BY SinkStreamAssumption, BatchStarts DEF SinkStreamInv, Types, TypeOK, SendPacket, In
  <2>5. header' \in [interval : Intervals \cup {None, Misread}, scaling : Scalings \cup {None, Misread}]
    BY SinkStreamAssumption, BatchStarts DEF SinkStreamInv, Types, TypeOK, SendPacket, In
  <2>. QED
    BY <2>1, <2>2, <2>3, <2>4, <2>5 DEF Types, TypeOK
<1>2. Apart'
  BY SinkStreamAssumption DEF SinkStreamInv, Apart, NeedsUpdate, SendPacket, In, Types
<1>3. CallOfType'
  BY TailOfBatch DEF SinkStreamInv, Types, CallOfType, TypeOK, CallRecord, packet, Way, SendPacket, In
<1>4. Writing'
  BY SinkStreamAssumption
     DEF SinkStreamInv, Writing, Async, BuiltDataDescriptor, NeedsUpdate, SendPacket
<1>5. Building'
  BY SinkStreamAssumption DEF SinkStreamInv, Building, SendPacket, In
<1>6. Receiving'
  BY SinkStreamAssumption
     DEF SinkStreamInv, Receiving, Follow, Async, BuiltDataDescriptor, NeedsUpdate, SendPacket, In
<1>7. Descriptors'
  BY DEF SinkStreamInv, Receiving, Descriptors, Follow, Async, BuiltDataDescriptor, SendPacket, In
<1>8. Sent'
  BY DEF SinkStreamInv, Types, Apart, CallOfType, Receiving, Sent, TypeOK, Follow, Async, IsOf,
         Way, BuiltDataDescriptor, PayloadTypes, SendPacket, In
<1>. QED
  BY <1>1, <1>2, <1>3, <1>4, <1>5, <1>6, <1>7, <1>8 DEF SinkStreamInv

--------------------------------------------------------------------------------
(* The invariant and what follows from it.                                   *)

LEMMA InitHolds == Init => SinkStreamInv
<1>. SUFFICES ASSUME Init PROVE SinkStreamInv
  OBVIOUS
<1>1. Types
  BY SinkStreamAssumption DEF Init, Types, TypeOK, PayloadTypes, DataDescriptors, DomainDescriptors
<1>2. Follow
  BY DEF Init, Follow, Async, BuiltDataDescriptor
<1>. QED
  BY <1>1, <1>2
     DEF Init, SinkStreamInv, Apart, CallOfType, Writing, Building, Receiving, Descriptors, Sent

LEMMA NothingMoves ==
  ASSUME SinkStreamInv, UNCHANGED vars
  PROVE SinkStreamInv'
<1>1. Types'
  BY DEF vars, SinkStreamInv, Types, TypeOK, Batch
<1>2. Apart'
  BY DEF vars, SinkStreamInv, Apart
<1>3. CallOfType'
  BY DEF vars, SinkStreamInv, CallOfType, packet
<1>4. Writing'
  BY DEF vars, SinkStreamInv, Writing, Async, BuiltDataDescriptor, NeedsUpdate
<1>5. Building'
  BY DEF vars, SinkStreamInv, Building, packet
<1>6. Receiving'
  BY DEF vars, SinkStreamInv, Receiving, Follow, Async, IsOf, BuiltDataDescriptor, packet
<1>7. Descriptors'
  BY DEF vars, SinkStreamInv, Descriptors, Follow, Async, BuiltDataDescriptor
<1>8. Sent'
  BY DEF vars, SinkStreamInv, Sent
<1>. QED
  BY <1>1, <1>2, <1>3, <1>4, <1>5, <1>6, <1>7, <1>8 DEF SinkStreamInv

LEMMA NextKeeps == SinkStreamInv /\ [Next]_vars => SinkStreamInv'
<1>. SUFFICES ASSUME SinkStreamInv, [Next]_vars PROVE SinkStreamInv'
  OBVIOUS
<1>1. CASE \E type \in PayloadTypes : SetPayloadType(type)
  BY <1>1, SetPayloadTypeKeeps
<1>2. CASE \E packets \in Batches, single \in BOOLEAN : Receive(packets, single)
  BY <1>2, ReceiveKeeps
<1>3. CASE Assign \/ BuildDataDescriptor \/ BuildAsyncDomainDescriptor \/ Updated
  BY <1>3, AssignKeeps, BuildDataDescriptorKeeps, BuildAsyncDomainDescriptorKeeps, UpdatedKeeps
<1>4. CASE ReceiveReturns \/ Test \/ Branch \/ TestAll \/ Switch
  BY <1>4, ReceiveReturnsKeeps, TestKeeps, BranchKeeps, TestAllKeeps, SwitchKeeps
<1>5. CASE ProcessSyncData \/ BuildSyncDomainDescriptor \/ BuildAnalogDescriptor \/ DescriptorsBuilt
  BY <1>5, ProcessSyncDataKeeps, BuildSyncDomainDescriptorKeeps, BuildAnalogDescriptorKeeps,
     DescriptorsBuiltKeeps
<1>6. CASE MakeDomainPacket \/ SendPacket
  BY <1>6, MakeDomainPacketKeeps, SendPacketKeeps
<1>7. CASE UNCHANGED vars
  BY <1>7, NothingMoves
<1>. QED
  BY <1>1, <1>2, <1>3, <1>4, <1>5, <1>6, <1>7 DEF Next

\* The calls, the descriptors and what was sent stand to each other as SinkStreamInv
\* says, at every point of every pair of calls (stream_fb.cpp:34, stream_fb.cpp:48).
THEOREM Invariant == Spec => []SinkStreamInv
BY InitHolds, NextKeeps, PTL DEF Spec

\* Every variable keeps its type (stream_fb.h:97).
THEOREM TypeCorrect == Spec => []TypeOK
<1>1. SinkStreamInv => TypeOK
  BY DEF SinkStreamInv, Types
<1>. QED
  BY <1>1, Invariant, PTL

\* A packet suits the message it came from, unless a selection met the call and
\* Analog was not selected anew since (stream_fb.cpp:34).
THEOREM SentPacketsFit == Spec => []SentFits
<1>1. SinkStreamInv => SentFits
  BY DEF SinkStreamInv, Sent, SentFits, Way, PayloadTypes, BuiltDataDescriptor
<1>. QED
  BY <1>1, Invariant, PTL

\* Between calls the descriptors are those of the type selected
\* (stream_fb.cpp:37).
THEOREM DescriptorsAreRight == Spec => []DescriptorsFollowType
<1>1. SinkStreamInv => DescriptorsFollowType
  BY DEF SinkStreamInv, Descriptors, Follow, Async, DescriptorsFollowType
<1>. QED
  BY <1>1, Invariant, PTL
================================================================================
