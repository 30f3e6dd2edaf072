----------------------------- MODULE CaptureStatus -----------------------------
(***************************************************************************)
(* The Capture block of the capture module, the Interface and Stream       *)
(* blocks below it, and the status it announces on the network.            *)
(*                                                                         *)
(* captureStatus holds one packet for the device and one for each          *)
(* interface, which names the interface's type and its streams.  The       *)
(* configuration thread updates it in every operation; statusLoop sends    *)
(* all of it once a second, in a thread of its own.  Both take statusSync. *)
(* The part of an operation that holds statusSync is one step; the loop    *)
(* holds it over several, so that what the configuration thread does       *)
(* without it, the renumbering of the encoders and the stop request, may   *)
(* come in between.                                                        *)
(***************************************************************************)
EXTENDS IdManager

CONSTANTS
  Interface,      \* identities of InterfaceFb objects
  Stream,         \* identities of StreamFb objects
  None,           \* no function block, no packet, no operation
  DeviceIds,      \* values the user gives to DeviceId
  DeviceInfos,    \* values of DeviceDescription, SerialNumber, ..., together
  DefaultInfo,    \* the one a new block has
  PayloadTypes,   \* the choices of PayloadType
  Undefined,      \* the one a new interface has
  MaxInterfaceId, \* numeric_limits<uint32_t>::max()
  MaxStreamId,    \* numeric_limits<uint8_t>::max()
  Updated,        \* bound: the Interface blocks the user calls beginUpdate on
  UpdatesCapture  \* bound: whether the user calls beginUpdate on the Capture

InterfaceIds == 0..MaxInterfaceId
StreamIds == 0..MaxStreamId

\* The properties of a block that a write sets at once or, during an update,
\* leaves to endUpdate.  Of VendorData only a flag is kept: whether the value
\* announced is the one the property has.
DeviceProperties == [id : DeviceIds, info : DeviceInfos]
InterfaceProperties == [id : InterfaceIds, payloadType : PayloadTypes, vendorData : BOOLEAN]

DeviceRecord == [set : DeviceProperties, updating : BOOLEAN, pending : DeviceProperties]

\* dropped is history: the packet was removed although the block stayed.
InterfaceRecord ==
  [set : InterfaceProperties, ids : IdPools(MaxStreamId), streamIdsList : SUBSET StreamIds,
   updating : BOOLEAN, pending : InterfaceProperties, dropped : BOOLEAN]

\* rejected is history: the last write to StreamId was turned down.
StreamRecord ==
  [parent : Interface, streamId : StreamIds, payloadType : PayloadTypes, rejected : BOOLEAN]

Entry == [payloadType : PayloadTypes, streams : SUBSET StreamIds]

ASSUME CaptureStatusAssumption ==
  /\ DeviceIds \subseteq Nat /\ 0 \in DeviceIds
  /\ DefaultInfo \in DeviceInfos /\ Undefined \in PayloadTypes
  /\ MaxInterfaceId \in Nat /\ MaxStreamId \in Nat
  /\ None \notin Interface \cup InterfaceRecord \cup StreamRecord \cup Entry
  /\ None \notin DeviceProperties \cup InterfaceProperties

VARIABLES
  device,           \* what the Capture block keeps
  encoders,         \* the device id in the EncoderBank
  deviceInfo,       \* the device packet of captureStatus
  ids,              \* interfaceIdManager
  interface,        \* the InterfaceFb objects that exist, by identity
  stream,           \* the StreamFb objects in the tree
  interfaceStatus,  \* the interface packets of captureStatus, by InterfaceId
  pc,               \* the operation the configuration thread is in
  fb,               \* the Interface block it is called on
  new,              \* the properties it is to apply
  old,              \* history: the properties in force before it
  exhausted,        \* history: a block was added when no identifier was left
  loop,             \* where statusLoop is
  stop,             \* stopStatusSending
  notified          \* cv was notified while the loop waited on it

tree == <<device, ids, interface, stream>>
status == <<encoders, deviceInfo, interfaceStatus>>
operation == <<pc, fb, new, old>>
thread == <<loop, stop, notified>>
vars == <<tree, status, operation, exhausted, thread>>

-----------------------------------------------------------------------------
Exists(i) == interface[i] # None
StreamsOf(i) == {s \in Stream : stream[s] # None /\ stream[s].parent = i}
InterfaceIdsInUse == {interface[i].set.id : i \in {j \in Interface : Exists(j)}}
StreamIdsOf(i) == {stream[s].streamId : s \in StreamsOf(i)}

Idle == pc = "idle"

\* The configuration thread can take statusSync: statusLoop has it from the
\* moment wait_for returns until it waits again.
Free == loop \notin {"entering", "interfaces"}

Return == pc' = "idle" /\ fb' = None /\ new' = None /\ old' = None

\* What pending holds outside an update.
NoWrite == [id |-> 0, payloadType |-> Undefined, vendorData |-> TRUE]

NewInterface(id) ==
  [set |-> [id |-> id, payloadType |-> Undefined, vendorData |-> TRUE],
   ids |-> EmptyIds, streamIdsList |-> {}, updating |-> FALSE,
   pending |-> NoWrite, dropped |-> FALSE]

-----------------------------------------------------------------------------
(* The status table.  DeviceStatus is a library class: update adds or      *)
(* replaces the packet of an InterfaceId, removeInterfaceById removes it.  *)

\* The packet updateInterfaceData writes for an Interface block.
EntryOf(block) == [payloadType |-> block.set.payloadType, streams |-> block.streamIdsList]

\* Fault of updateInterfaceData: VendorData is not read again.
UpdateInterfaceDataKeepsVendorData(i, block, table) ==
  /\ interface' = [interface EXCEPT ![i] = [block EXCEPT !.dropped = FALSE]]
  /\ interfaceStatus' = [table EXCEPT ![block.set.id] = EntryOf(block)]

\* InterfaceFb::updateInterfaceData for the block i that is now `block', in the
\* table that an operation has left so far.
UpdateInterfaceData(i, block, table) ==
  /\ interface' = [interface EXCEPT ![i] = [block EXCEPT !.set.vendorData = TRUE,
                                                         !.dropped = FALSE]]
  /\ interfaceStatus' = [table EXCEPT ![block.set.id] = EntryOf(block)]

WithoutEntry(id) == [interfaceStatus EXCEPT ![id] = None]

-----------------------------------------------------------------------------
(* The Capture block.                                                      *)

\* CaptureFb::propertyChanged up to updateCaptureData: the members and, without
\* any lock, the encoders change.
PropertyChangedCapture(properties) ==
  /\ device' = [set |-> properties, updating |-> FALSE, pending |-> properties]
  /\ encoders' = properties.id
  /\ pc' = "updateCaptureData" /\ new' = properties /\ old' = device.set
  /\ UNCHANGED <<deviceInfo, ids, interface, stream, interfaceStatus, fb, exhausted, thread>>

\* Fault: only the encoders get the new values.
UpdateCaptureDataForgotten ==
  /\ pc = "updateCaptureData"
  /\ Return
  /\ UNCHANGED <<tree, status, exhausted, thread>>

\* CaptureFb::updateCaptureData
UpdateCaptureData ==
  /\ pc = "updateCaptureData"
  /\ Free
  /\ deviceInfo' = device.set.info
  /\ Return
  /\ UNCHANGED <<tree, encoders, interfaceStatus, exhausted, thread>>

\* A write of one property outside an update.
SetDeviceId(id) ==
  /\ Idle
  /\ ~device.updating /\ id # device.set.id
  /\ PropertyChangedCapture([device.set EXCEPT !.id = id])

SetDeviceInfo(info) ==
  /\ Idle
  /\ ~device.updating /\ info # device.set.info
  /\ PropertyChangedCapture([device.set EXCEPT !.info = info])

BeginUpdateCapture ==
  /\ Idle
  /\ UpdatesCapture /\ ~device.updating
  /\ device' = [device EXCEPT !.updating = TRUE, !.pending = device.set]
  /\ UNCHANGED <<ids, interface, stream, status, operation, exhausted, thread>>

\* A write during an update only sets needsPropertyChanged.
SetCaptureUpdating(id, info) ==
  /\ Idle
  /\ device.updating
  /\ \/ device' = [device EXCEPT !.pending.id = id]
     \/ device' = [device EXCEPT !.pending.info = info]
  /\ UNCHANGED <<ids, interface, stream, status, operation, exhausted, thread>>

\* CaptureCommonFb::endUpdate.  isUpdating is cleared after propertyChanged; no
\* other operation can start in between, so it is cleared at once.
EndUpdateCapture ==
  /\ Idle
  /\ device.updating
  /\ \/ /\ device.pending # device.set
        /\ PropertyChangedCapture(device.pending)
     \/ /\ device.pending = device.set
        /\ device' = [device EXCEPT !.updating = FALSE]
        /\ UNCHANGED <<ids, interface, stream, status, operation, exhausted, thread>>

-----------------------------------------------------------------------------
(* Interface blocks.                                                       *)

\* CaptureFb::addInterfaceInternal.  The constructor of InterfaceFb announces
\* the block.  During an update addInterfaceWithParams throws before that.
AddInterface(i) ==
  /\ Idle /\ Free
  /\ ~device.updating /\ ~Exists(i)
  /\ exhausted' = (exhausted \/ InterfaceIds \subseteq ids.used)
  /\ \E id \in FirstUnusedIds(ids, MaxInterfaceId) :
       /\ ids' = AddId(ids, id, MaxInterfaceId)
       /\ UpdateInterfaceData(i, NewInterface(id), interfaceStatus)
  /\ UNCHANGED <<device, stream, encoders, deviceInfo, operation, thread>>

\* Fault: the packet stays when the block goes.
RemoveInterfaceKeepsPacket(i) ==
  /\ Idle /\ Free
  /\ Exists(i) /\ ~device.updating
  /\ ids' = RemoveId(ids, interface[i].set.id)
  /\ interface' = [interface EXCEPT ![i] = None]
  /\ stream' = [s \in Stream |-> IF s \in StreamsOf(i) THEN None ELSE stream[s]]
  /\ UNCHANGED <<device, status, operation, exhausted, thread>>

\* CaptureFb::removeInterfaceInternal removes the packet, and then the block;
\* but during an update the base class throws and the block stays.
RemoveInterface(i) ==
  /\ Idle /\ Free
  /\ Exists(i)
  /\ interfaceStatus' = WithoutEntry(interface[i].set.id)
  /\ \/ /\ device.updating
        /\ interface' = [interface EXCEPT ![i].dropped = TRUE]
        /\ UNCHANGED <<ids, stream>>
     \/ /\ ~device.updating
        /\ ids' = RemoveId(ids, interface[i].set.id)
        /\ interface' = [interface EXCEPT ![i] = None]
        /\ stream' = [s \in Stream |-> IF s \in StreamsOf(i) THEN None ELSE stream[s]]
  /\ UNCHANGED <<device, encoders, deviceInfo, operation, exhausted, thread>>

\* Fault: updateInterfaceIdInternal leaves the packet of the old id.
RenumberInterfaceKeepsPacket(i, block, id) ==
  /\ Free
  /\ IsValidId(ids, id, MaxInterfaceId)
  /\ ids' = AddId(RemoveId(ids, block.set.id), id, MaxInterfaceId)
  /\ UpdateInterfaceData(i, [block EXCEPT !.set.id = id], interfaceStatus)
  /\ pc' = "updatePayloadType"

\* Fault: the id is taken over without a look at the siblings' ids.
RenumberInterfaceUnchecked(i, block, id) ==
  /\ Free
  /\ ids' = AddId(RemoveId(ids, block.set.id), id, MaxInterfaceId)
  /\ UpdateInterfaceData(i, [block EXCEPT !.set.id = id], WithoutEntry(block.set.id))
  /\ pc' = "updatePayloadType"

\* The three ways InterfaceFb::updateInterfaceIdInternal takes for another id:
\* the id is free and the packet of the old one is removed; ...
RenumberInterface(i, block, id) ==
  /\ Free
  /\ IsValidId(ids, id, MaxInterfaceId)
  /\ ids' = AddId(RemoveId(ids, block.set.id), id, MaxInterfaceId)
  /\ UpdateInterfaceData(i, [block EXCEPT !.set.id = id], WithoutEntry(block.set.id))
  /\ pc' = "updatePayloadType"

\* ... it is taken, and the write that puts the property back ends in this
\* handler again, which finds nothing to do because PayloadType, the index, is
\* Undefined, the only index that equals its type, or because of the update; ...
RejectInterfaceId(i, block, id) ==
  /\ Free
  /\ ~IsValidId(ids, id, MaxInterfaceId)
  /\ block.set.payloadType = Undefined \/ interface[i].updating
  /\ UpdateInterfaceData(i, block, interfaceStatus)
  /\ pc' = "updatePayloadType"
  /\ UNCHANGED ids

\* ... or it is taken, and the handler goes on to updatePayloadTypeInternal,
\* which locks statusSync although this thread has it.
RelockStatusSync(i, block, id) ==
  /\ Free
  /\ ~IsValidId(ids, id, MaxInterfaceId)
  /\ block.set.payloadType # Undefined /\ ~interface[i].updating
  /\ pc' = "relock"
  /\ UNCHANGED <<ids, interface, interfaceStatus>>

\* InterfaceCommonFb::propertyChanged up to updatePayloadTypeInternal.
PropertyChanged(i, block, properties) ==
  /\ \/ /\ properties.id # block.set.id
        /\ \/ RenumberInterface(i, block, properties.id)
           \/ RejectInterfaceId(i, block, properties.id)
           \/ RelockStatusSync(i, block, properties.id)
     \/ /\ properties.id = block.set.id
        /\ interface' = [interface EXCEPT ![i] = block]
        /\ pc' = "updatePayloadType"
        /\ UNCHANGED <<ids, interfaceStatus>>
  /\ fb' = i /\ new' = properties /\ old' = interface[i].set
  /\ UNCHANGED <<device, stream, encoders, deviceInfo, exhausted, thread>>

\* InterfaceFb::updatePayloadTypeInternal.  Only the index of Undefined equals
\* its type; for every other choice the packet is written again.
UpdatePayloadType ==
  /\ pc = "updatePayloadType"
  /\ \/ /\ new.payloadType = Undefined /\ interface[fb].set.payloadType = Undefined
        /\ UNCHANGED <<interface, stream, interfaceStatus>>
     \/ /\ new.payloadType # Undefined \/ interface[fb].set.payloadType # Undefined
        /\ Free
        /\ UpdateInterfaceData(fb, [interface[fb] EXCEPT !.set.payloadType = new.payloadType],
                               interfaceStatus)
        /\ stream' = [s \in Stream |->
             IF s \in StreamsOf(fb) THEN [stream[s] EXCEPT !.payloadType = new.payloadType]
             ELSE stream[s]]
  /\ Return
  /\ UNCHANGED <<device, ids, encoders, deviceInfo, exhausted, thread>>

\* A write of one property outside an update.
SetInterfaceId(i, id) ==
  /\ Idle
  /\ Exists(i) /\ ~interface[i].updating /\ id # interface[i].set.id
  /\ PropertyChanged(i, interface[i], [interface[i].set EXCEPT !.id = id])

SetPayloadType(i, type) ==
  /\ Idle
  /\ Exists(i) /\ ~interface[i].updating /\ type # interface[i].set.payloadType
  /\ PropertyChanged(i, interface[i], [interface[i].set EXCEPT !.payloadType = type])

SetVendorData(i) ==
  /\ Idle
  /\ Exists(i) /\ ~interface[i].updating
  /\ PropertyChanged(i, [interface[i] EXCEPT !.set.vendorData = FALSE], interface[i].set)

BeginUpdateInterface(i) ==
  /\ Idle
  /\ i \in Updated
  /\ Exists(i) /\ ~interface[i].updating
  /\ interface' = [interface EXCEPT ![i].updating = TRUE,
                                    ![i].pending = [interface[i].set EXCEPT !.vendorData = TRUE]]
  /\ UNCHANGED <<device, ids, stream, status, operation, exhausted, thread>>

\* A write during an update only sets needsPropertyChanged.
SetInterfaceUpdating(i, id, type) ==
  /\ Idle
  /\ Exists(i) /\ interface[i].updating
  /\ \/ interface' = [interface EXCEPT ![i].pending.id = id]
     \/ interface' = [interface EXCEPT ![i].pending.payloadType = type]
     \/ interface' = [interface EXCEPT ![i].pending.vendorData = FALSE]
  /\ UNCHANGED <<device, ids, stream, status, operation, exhausted, thread>>

\* InterfaceCommonFb::endApplyProperties
EndUpdateInterface(i) ==
  /\ Idle
  /\ Exists(i) /\ interface[i].updating
  /\ LET pending == interface[i].pending
         block == [interface[i] EXCEPT !.updating = FALSE, !.pending = NoWrite,
                                       !.set.vendorData = @ /\ pending.vendorData]
         written == pending # [interface[i].set EXCEPT !.vendorData = TRUE]
     IN \/ written /\ PropertyChanged(i, block, pending)
        \/ /\ ~written
           /\ interface' = [interface EXCEPT ![i] = block]
           /\ UNCHANGED <<device, ids, stream, status, operation, exhausted, thread>>

-----------------------------------------------------------------------------
(* Stream blocks.                                                          *)

\* Fault: the new block does not get the PayloadType of the interface.
AddStreamUndefined(i, s) ==
  /\ Idle /\ Free
  /\ Exists(i) /\ ~interface[i].updating /\ stream[s] = None
  /\ exhausted' = (exhausted \/ StreamIds \subseteq interface[i].ids.used)
  /\ \E id \in FirstUnusedIds(interface[i].ids, MaxStreamId) :
       /\ stream' = [stream EXCEPT ![s] =
            [parent |-> i, streamId |-> id, payloadType |-> Undefined, rejected |-> FALSE]]
       /\ UpdateInterfaceData(i, [interface[i] EXCEPT !.ids = AddId(@, id, MaxStreamId),
                                                      !.streamIdsList = @ \cup {id}],
                              interfaceStatus)
  /\ UNCHANGED <<device, ids, encoders, deviceInfo, operation, thread>>

\* InterfaceFb::addStreamInternal; it throws during an update of the interface.
AddStream(i, s) ==
  /\ Idle /\ Free
  /\ Exists(i) /\ ~interface[i].updating /\ stream[s] = None
  /\ exhausted' = (exhausted \/ StreamIds \subseteq interface[i].ids.used)
  /\ \E id \in FirstUnusedIds(interface[i].ids, MaxStreamId) :
       /\ stream' = [stream EXCEPT ![s] =
            [parent |-> i, streamId |-> id, payloadType |-> interface[i].set.payloadType,
             rejected |-> FALSE]]
       /\ UpdateInterfaceData(i, [interface[i] EXCEPT !.ids = AddId(@, id, MaxStreamId),
                                                      !.streamIdsList = @ \cup {id}],
                              interfaceStatus)
  /\ UNCHANGED <<device, ids, encoders, deviceInfo, operation, thread>>

\* InterfaceFb::removeStreamInternal
RemoveStream(s) ==
  /\ Idle /\ Free
  /\ stream[s] # None
  /\ LET i == stream[s].parent
         id == stream[s].streamId
     IN UpdateInterfaceData(i, [interface[i] EXCEPT !.ids = RemoveId(@, id),
                                                    !.streamIdsList = @ \ {id}],
                            interfaceStatus)
  /\ stream' = [stream EXCEPT ![s] = None]
  /\ UNCHANGED <<device, ids, encoders, deviceInfo, operation, exhausted, thread>>

\* Fault: a renumbered stream is not entered in the list again.
RenumberStreamUnlisted(s, id) ==
  LET i == stream[s].parent IN
    /\ IsValidId(interface[i].ids, id, MaxStreamId)
    /\ stream' = [stream EXCEPT ![s].streamId = id, ![s].rejected = FALSE]
    /\ UpdateInterfaceData(i, [interface[i] EXCEPT
           !.ids = AddId(RemoveId(@, stream[s].streamId), id, MaxStreamId),
           !.streamIdsList = @ \ {stream[s].streamId}],
         interfaceStatus)

\* StreamFb::updateStreamIdInternal: the id is free, ...
RenumberStream(s, id) ==
  LET i == stream[s].parent IN
    /\ IsValidId(interface[i].ids, id, MaxStreamId)
    /\ stream' = [stream EXCEPT ![s].streamId = id, ![s].rejected = FALSE]
    /\ UpdateInterfaceData(i, [interface[i] EXCEPT
           !.ids = AddId(RemoveId(@, stream[s].streamId), id, MaxStreamId),
           !.streamIdsList = (@ \ {stream[s].streamId}) \cup {id}],
         interfaceStatus)

\* ... or it is taken, and the old one, back in force, has left the list.
RejectStreamId(s, id) ==
  LET i == stream[s].parent IN
    /\ ~IsValidId(interface[i].ids, id, MaxStreamId)
    /\ stream' = [stream EXCEPT ![s].rejected = TRUE]
    /\ interface' = [interface EXCEPT ![i].streamIdsList = @ \ {stream[s].streamId}]
    /\ UNCHANGED interfaceStatus

SetStreamId(s, id) ==
  /\ Idle /\ Free
  /\ stream[s] # None /\ id # stream[s].streamId
  /\ RenumberStream(s, id) \/ RejectStreamId(s, id)
  /\ UNCHANGED <<device, ids, encoders, deviceInfo, operation, exhausted, thread>>

-----------------------------------------------------------------------------
(* statusLoop and its end.                                                 *)

\* The check of the while condition, before wait_for gives statusSync back.
LoopCheck ==
  /\ loop = "running" /\ pc # "relock"
  /\ loop' = IF stop THEN "done" ELSE "entering"
  /\ UNCHANGED <<tree, status, operation, exhausted, stop, notified>>

LoopWait ==
  /\ loop = "entering"
  /\ loop' = "waiting" /\ notified' = FALSE
  /\ UNCHANGED <<tree, status, operation, exhausted, stop>>

\* Fault: wait in the place of wait_for.
WaitReturnsNotified == notified

\* wait_for returns when cv is notified, or after a second.
WaitReturns == TRUE

\* wait_for returns with statusSync; unless it is to stop, the loop sends the
\* packet of the device.
LoopSendDevice ==
  /\ loop = "waiting" /\ pc # "relock"
  /\ WaitReturns
  /\ loop' = IF stop THEN "running" ELSE "interfaces"
  /\ UNCHANGED <<tree, status, operation, exhausted, stop, notified>>

\* The packets of all interfaces follow.
LoopSendInterfaces ==
  /\ loop = "interfaces"
  /\ loop' = IF stop THEN "done" ELSE "entering"
  /\ UNCHANGED <<tree, status, operation, exhausted, stop, notified>>

\* stopStatusLoop, which the destructor calls: the flag is set without
\* statusSync, ...
StopStatusLoop ==
  /\ Idle
  /\ stop' = TRUE
  /\ pc' = "notify"
  /\ UNCHANGED <<tree, status, fb, new, old, exhausted, loop, notified>>

\* ... notify_one reaches the loop only if it waits already ...
Notify ==
  /\ pc = "notify"
  /\ notified' = (loop = "waiting")
  /\ pc' = "join"
  /\ UNCHANGED <<tree, status, fb, new, old, exhausted, loop, stop>>

\* ... and the thread is joined.
Join ==
  /\ pc = "join"
  /\ loop = "done"
  /\ pc' = "destroyed"
  /\ UNCHANGED <<tree, status, fb, new, old, exhausted, thread>>

-----------------------------------------------------------------------------
Init ==
  /\ device = [set |-> [id |-> 0, info |-> DefaultInfo], updating |-> FALSE,
               pending |-> [id |-> 0, info |-> DefaultInfo]]
  /\ encoders = 0 /\ deviceInfo = DefaultInfo
  /\ ids = EmptyIds
  /\ interface = [i \in Interface |-> None]
  /\ stream = [s \in Stream |-> None]
  /\ interfaceStatus = [id \in InterfaceIds |-> None]
  /\ pc = "idle" /\ fb = None /\ new = None /\ old = None
  /\ exhausted = FALSE
  /\ loop = "running" /\ stop = FALSE /\ notified = FALSE

NextCapture ==
  \/ \E id \in DeviceIds : SetDeviceId(id)
  \/ \E info \in DeviceInfos : SetDeviceInfo(info)
  \/ \E id \in DeviceIds, info \in DeviceInfos : SetCaptureUpdating(id, info)
  \/ BeginUpdateCapture \/ EndUpdateCapture \/ UpdateCaptureData

NextInterface ==
  \/ \E i \in Interface :
       \/ AddInterface(i)
       \/ RemoveInterface(i)
       \/ \E id \in InterfaceIds : SetInterfaceId(i, id)
       \/ \E type \in PayloadTypes : SetPayloadType(i, type)
       \/ SetVendorData(i)
       \/ BeginUpdateInterface(i)
       \/ \E id \in InterfaceIds, type \in PayloadTypes : SetInterfaceUpdating(i, id, type)
       \/ EndUpdateInterface(i)
  \/ UpdatePayloadType

NextStream ==
  \E s \in Stream :
    \/ \E i \in Interface : AddStream(i, s)
    \/ RemoveStream(s)
    \/ \E id \in StreamIds : SetStreamId(s, id)

LoopStep == LoopCheck \/ LoopWait \/ LoopSendDevice \/ LoopSendInterfaces

StopStep == Notify \/ Join

Next == NextCapture \/ NextInterface \/ NextStream \/ LoopStep \/ StopStatusLoop \/ StopStep

\* The thread of statusLoop keeps running, and a call of stopStatusLoop goes on;
\* what the user calls, and whether, is left open.
Spec == Init /\ [][Next]_vars /\ WF_vars(LoopStep) /\ WF_vars(StopStep)

-----------------------------------------------------------------------------
(* Properties.                                                             *)

\* Every variable has its type.
TypeOK ==
  /\ device \in DeviceRecord
  /\ encoders \in DeviceIds /\ deviceInfo \in DeviceInfos
  /\ ids \in IdPools(MaxInterfaceId)
  /\ interface \in [Interface -> InterfaceRecord \cup {None}]
  /\ stream \in [Stream -> StreamRecord \cup {None}]
  /\ interfaceStatus \in [InterfaceIds -> Entry \cup {None}]
  /\ pc \in {"idle", "updateCaptureData", "updatePayloadType", "relock", "notify", "join",
             "destroyed"}
  /\ fb \in Interface \cup {None}
  /\ new \in DeviceProperties \cup InterfaceProperties \cup {None}
  /\ old \in DeviceProperties \cup InterfaceProperties \cup {None}
  /\ loop \in {"running", "entering", "waiting", "interfaces", "done"}
  /\ exhausted \in BOOLEAN /\ stop \in BOOLEAN /\ notified \in BOOLEAN

\* No two interfaces have one InterfaceId.
InterfaceIdsUnique ==
  \A i, j \in Interface :
    Exists(i) /\ Exists(j) /\ interface[i].set.id = interface[j].set.id => i = j

\* No two streams of an interface have one StreamId: the property tree in the
\* README calls it a unique stream ID.  addStreamInternal keeps it as long as an
\* id is left, and no longer.
StreamIdsUnique ==
  \A s, t \in Stream :
    /\ stream[s] # None /\ stream[t] # None
    /\ stream[s].parent = stream[t].parent /\ stream[s].streamId = stream[t].streamId
    => s = t

\* InterfaceId is unique in the Capture and StreamId in its Interface, as the
\* structure in the README has it, after any sequence of additions, removals and
\* renumberings with and without updates; the id managers know exactly the ids
\* in use, so a rejected write frees no id and an accepted one leaks none.  All
\* this until a block is added when no identifier is left.
UniqueIds ==
  ~exhausted =>
    /\ InterfaceIdsUnique
    /\ StreamIdsUnique
    /\ ids.used = InterfaceIdsInUse
    /\ \A i \in Interface : Exists(i) => interface[i].ids.used = StreamIdsOf(i)

\* Whatever moment statusLoop picks to send, the interface packets are those of
\* the Interface blocks, one each, under the InterfaceId and with the
\* PayloadType the block has then: no interface that was removed or renumbered
\* is announced again, and none is missing but by a RemoveInterface that threw.
InterfacesAnnounced ==
  ~exhausted => \A id \in InterfaceIds :
    LET owners == {i \in Interface : Exists(i) /\ interface[i].set.id = id /\ ~interface[i].dropped}
    IN IF interfaceStatus[id] = None THEN owners = {}
       ELSE \E i \in owners : interfaceStatus[id].payloadType = interface[i].set.payloadType

\* The properties of all blocks, as they are and, in the middle of a write, as
\* they were before it and will be after it.
Properties == [i \in Interface |-> IF Exists(i) THEN interface[i].set ELSE None]
Applying == pc = "updatePayloadType"
Before == IF Applying THEN [Properties EXCEPT ![fb] = old] ELSE Properties
After == IF Applying THEN [Properties EXCEPT ![fb].payloadType = new.payloadType] ELSE Properties

\* The PayloadTypes in the packets of each InterfaceId, and in those that blocks
\* with the given properties should have.
TypesSent ==
  [id \in InterfaceIds |->
     IF interfaceStatus[id] = None THEN {} ELSE {interfaceStatus[id].payloadType}]
TypesOf(properties) ==
  [id \in InterfaceIds |->
     {properties[i].payloadType :
        i \in {j \in Interface : Exists(j) /\ ~interface[j].dropped /\ properties[j].id = id}}]

OldOrNew == TypesSent \in {TypesOf(Before), TypesOf(After)}

\* The write applies an InterfaceId and a PayloadType, both new, ...
ChangesBoth ==
  Applying /\ interface[fb].set.id # old.id /\ new.payloadType # old.payloadType

\* ... and has come as far as the first of them.
HalfChanged == [Before EXCEPT ![fb].id = interface[fb].set.id]

\* Whatever moment statusLoop picks to send, the interface packets taken together
\* are those of the properties before the write that is under way or those after
\* it, be it the end of an update and its InterfaceId accepted or refused, except
\* in the gap that propertyChanged leaves when it changes both properties
\* (interface_common_fb.cpp:139); there they have the new InterfaceId, the old
\* PayloadType, and nothing else is different.
PacketsOldOrNew ==
  ~exhausted => OldOrNew \/ (ChangesBoth /\ TypesSent = TypesOf(HalfChanged))

\* An interface packet names no stream that is gone or has another id by now,
\* and leaves none out but those whose last write to StreamId was rejected.
StreamsAnnounced ==
  ~exhausted => \A i \in Interface :
    Exists(i) /\ ~interface[i].dropped =>
      LET announced == interfaceStatus[interface[i].set.id].streams IN
        /\ announced \subseteq StreamIdsOf(i)
        /\ \A s \in StreamsOf(i) : stream[s].streamId \in announced \/ stream[s].rejected

\* Between operations the VendorData announced for an interface is the one its
\* property has, except as long as the PayloadType is Undefined: a write of it
\* is then taken for no change at all.
VendorDataAnnounced ==
  Idle => \A i \in Interface :
            Exists(i) => interface[i].set.vendorData \/ interface[i].set.payloadType = Undefined

\* Between operations all streams of an interface encode its PayloadType,
\* those too that were added after or during its changes.
StreamsFollowPayloadType ==
  Idle => \A s \in Stream :
            stream[s] # None => stream[s].payloadType = interface[stream[s].parent].set.payloadType

\* Between operations, frames leave with the DeviceId of the property, and the
\* device packet describes the device as its properties do.  In the middle of a
\* write they have the new DeviceId and all of the old description
\* (capture_fb.cpp:52).
DeviceAnnounced ==
  /\ Idle => encoders = device.set.id /\ deviceInfo = device.set.info
  /\ pc = "updateCaptureData" => encoders = new.id /\ deviceInfo = old.info

\* The destructor returns: the thread sees the flag although neither its write
\* nor the notification is synchronised with the loop.
StopEnds == stop ~> pc = "destroyed"

-----------------------------------------------------------------------------
(* What the documentation and the tests say of every run, without the      *)
(* conditions above.  The code does not keep these.                        *)

\* A write to InterfaceId that is turned down returns, and the property has its
\* old value again: the tests of InterfaceFb read it back.
RejectedWriteReturns == pc # "relock"

\* The interface packets that statusLoop sends are those before an update or those
\* after it, no others: TestStatusPacketConsistency in test_interface.cpp asserts
\* at line 392 that it has received no other packet.
InterfacePacketsConsistent == loop = "interfaces" /\ ~exhausted => OldOrNew
================================================================================
