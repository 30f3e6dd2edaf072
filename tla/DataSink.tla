------------------------------- MODULE DataSink -------------------------------
(***************************************************************************)
(* The function blocks of the data sink and the two publishers that route  *)
(* packets to them.                                                        *)
(*                                                                         *)
(* DataSinkFb owns Capture blocks, a Capture block owns Interface blocks,  *)
(* and an Interface block owns Stream blocks.  A Stream wants the data     *)
(* packets of its endpoint, the triple of the DeviceId, InterfaceId and    *)
(* StreamId above it, and is entered in dataPacketsPublisher under that    *)
(* triple; a Capture wants the status packets of its DeviceId and is       *)
(* entered in capturePacketsPublisher under it.  The tree is changed by    *)
(* one configuration thread, through function properties and properties    *)
(* with or without beginUpdate / endUpdate, while the capture thread looks *)
(* packets up in the tables.                                               *)
(*                                                                         *)
(* A publisher locks its mutex for one call at a time, so an operation     *)
(* that makes several calls is several steps, and the capture thread may   *)
(* publish after each.  One step is the code from a call to the next; pc   *)
(* says which operation is under way, and stale which of its table entries *)
(* are still to be removed.  The loops over the streams of a block take    *)
(* them in any order.                                                      *)
(***************************************************************************)
EXTENDS IdManager, Publisher

CONSTANTS
  Capture,        \* identities of CaptureFb objects
  Interface,      \* identities of InterfaceFb objects
  Stream,         \* identities of StreamFb objects
  NoFb,           \* no function block
  DeviceIds,      \* values the user and the devices give to DeviceId
  MaxInterfaceId, \* numeric_limits<uint32_t>::max()
  MaxStreamId,    \* numeric_limits<uint8_t>::max()
  Updated         \* bound: the blocks the user calls beginUpdate on

InterfaceIds == 0..MaxInterfaceId
StreamIds == 0..MaxStreamId
Topic == DeviceIds \X InterfaceIds \X StreamIds

\* What a block keeps: its id, the pool its children's ids come from, and the
\* value that a property write left for endUpdate to apply.
CaptureRecord == [deviceId : DeviceIds, ids : IdPools(MaxInterfaceId),
                  updating : BOOLEAN, pending : DeviceIds]
InterfaceRecord == [parent : Capture, interfaceId : InterfaceIds, ids : IdPools(MaxStreamId),
                    updating : BOOLEAN, pending : InterfaceIds]
StreamRecord == [parent : Interface, streamId : StreamIds]

\* 0 is the value DeviceId has in a new Capture block.  A block is of one class.
ASSUME DataSinkAssumption ==
  /\ DeviceIds \subseteq Nat /\ 0 \in DeviceIds
  /\ MaxInterfaceId \in Nat /\ MaxStreamId \in Nat
  /\ Capture \cap Interface = {} /\ (Capture \cup Interface) \cap Stream = {}
  /\ NoFb \notin Capture \cup Interface \cup Stream \cup Topic
  /\ NoFb \notin CaptureRecord \cup InterfaceRecord \cup StreamRecord

VARIABLES
  capture,              \* the CaptureFb objects that exist, by identity
  interface,            \* the InterfaceFb objects that exist
  stream,               \* the StreamFb objects in the tree
  dataPublisher,        \* dataPacketsPublisher, by stream and endpoint
  capturePublisher,     \* capturePacketsPublisher, by capture and DeviceId
  pc,                   \* the operation the configuration thread is in
  fb,                   \* the block it is called on
  stale,                \* per stream, the topic it is still to be unsubscribed from
  moving,               \* the stream that is unsubscribed and not yet subscribed again
  interruptedRemoval,   \* history: RemoveInterface threw after it unsubscribed streams
  duplicateIds,         \* history: two siblings were given the same id
  addedFromStatus       \* history: AddCaptureModuleFromStatus was called

tables == <<dataPublisher, capturePublisher>>
history == <<interruptedRemoval, duplicateIds, addedFromStatus>>
vars == <<capture, interface, stream, tables, pc, fb, stale, moving, history>>

-----------------------------------------------------------------------------
(* The tree.                                                               *)

InterfacesOf(c) == {i \in Interface : interface[i] # NoFb /\ interface[i].parent = c}
StreamsOf(i) == {s \in Stream : stream[s] # NoFb /\ stream[s].parent = i}
StreamsUnder(c) == {s \in Stream : stream[s] # NoFb /\ interface[stream[s].parent].parent = c}

InterfaceIdsOf(c) == {interface[i].interfaceId : i \in InterfacesOf(c)}
StreamIdsOf(i) == {stream[s].streamId : s \in StreamsOf(i)}

\* The topic of a stream under the interface i.
TopicOf(i, streamId) ==
  <<capture[interface[i].parent].deviceId, interface[i].interfaceId, streamId>>
Endpoint(s) == TopicOf(stream[s].parent, stream[s].streamId)

\* The endpoints of the streams in S, which an operation is to unsubscribe.
StaleAt(S) == [s \in Stream |-> IF s \in S THEN Endpoint(s) ELSE NoFb]
NoStale == [s \in Stream |-> NoFb]

NewCapture(deviceId) ==
  [deviceId |-> deviceId, ids |-> EmptyIds, updating |-> FALSE, pending |-> 0]
NewInterface(c, interfaceId) ==
  [parent |-> c, interfaceId |-> interfaceId, ids |-> EmptyIds, updating |-> FALSE, pending |-> 0]
NewStream(i, streamId) == [parent |-> i, streamId |-> streamId]

Idle == pc = "idle"
Return == pc' = "idle" /\ fb' = NoFb
Goto(label, block) == pc' = label /\ fb' = block

-----------------------------------------------------------------------------
(* Capture blocks.                                                         *)

\* DataSinkFb::addCaptureModuleEmpty
AddCaptureModuleEmpty(c) ==
  /\ Idle
  /\ capture[c] = NoFb
  /\ capture' = [capture EXCEPT ![c] = NewCapture(0)]
  /\ capturePublisher' = Subscribe(capturePublisher, 0, c)
  /\ UNCHANGED <<interface, stream, dataPublisher, pc, fb, stale, moving, history>>

\* DataSinkFb::addCaptureModuleFromStatus up to the first publisher call of the
\* constructor.  setProperties writes DeviceId, which moves the subscription of
\* the block from topic 0, where it never was, unless the id is 0 again.
AddCaptureModuleFromStatus(c, deviceId) ==
  /\ Idle
  /\ capture[c] = NoFb
  /\ capture' = [capture EXCEPT ![c] = NewCapture(deviceId)]
  /\ addedFromStatus' = TRUE
  /\ \/ /\ deviceId = 0
        /\ Goto("fromStatus", c)
        /\ UNCHANGED capturePublisher
     \/ /\ deviceId # 0
        /\ Goto("statusSubscribe", c)
        /\ capturePublisher' \in Unsubscribe(capturePublisher, 0, c)
  /\ UNCHANGED <<interface, stream, dataPublisher, stale, moving,
                 interruptedRemoval, duplicateIds>>

FromStatusSubscribe ==
  /\ pc = "statusSubscribe"
  /\ capturePublisher' = Subscribe(capturePublisher, capture[fb].deviceId, fb)
  /\ Goto("fromStatus", fb)
  /\ UNCHANGED <<capture, interface, stream, dataPublisher, stale, moving, history>>

\* DataSinkFb::removeCaptureModule up to its first publisher call.
RemoveCaptureModule(c) ==
  /\ Idle
  /\ capture[c] # NoFb
  /\ capturePublisher' \in Unsubscribe(capturePublisher, capture[c].deviceId, c)
  /\ stale' = StaleAt(StreamsUnder(c))
  /\ Goto("removeCapture", c)
  /\ UNCHANGED <<capture, interface, stream, dataPublisher, moving, history>>

\* functionBlocks.removeItem: the block goes, and what it owns goes with it.
RemoveCaptureFinish ==
  /\ pc = "removeCapture"
  /\ stale = NoStale
  /\ capture' = [capture EXCEPT ![fb] = NoFb]
  /\ interface' = [i \in Interface |-> IF i \in InterfacesOf(fb) THEN NoFb ELSE interface[i]]
  /\ stream' = [s \in Stream |-> IF s \in StreamsUnder(fb) THEN NoFb ELSE stream[s]]
  /\ Return
  /\ UNCHANGED <<tables, stale, moving, history>>

\* Faults of updateDeviceIdInternal: it leaves the streams where they are ...
UpdateDeviceIdForgetsStreams(c, deviceId) ==
  /\ capture' = [capture EXCEPT ![c].deviceId = deviceId,
                                ![c].updating = FALSE, ![c].pending = 0]
  /\ capturePublisher' \in Unsubscribe(capturePublisher, capture[c].deviceId, c)
  /\ stale' = NoStale
  /\ Goto("captureMove", c)
  /\ UNCHANGED <<interface, stream, dataPublisher, moving, history>>

\* ... or reads the member deviceId after it was changed.
UpdateDeviceIdUnsubscribesNew(c, deviceId) ==
  /\ capture' = [capture EXCEPT ![c].deviceId = deviceId,
                                ![c].updating = FALSE, ![c].pending = 0]
  /\ capturePublisher' \in Unsubscribe(capturePublisher, deviceId, c)
  /\ stale' = StaleAt(StreamsUnder(c))
  /\ Goto("captureMove", c)
  /\ UNCHANGED <<interface, stream, dataPublisher, moving, history>>

\* CaptureFb::updateDeviceIdInternal for a new id, up to its first publisher
\* call.  The member deviceId changes before any entry does.
UpdateDeviceId(c, deviceId) ==
  /\ capture' = [capture EXCEPT ![c].deviceId = deviceId,
                                ![c].updating = FALSE, ![c].pending = 0]
  /\ capturePublisher' \in Unsubscribe(capturePublisher, capture[c].deviceId, c)
  /\ stale' = StaleAt(StreamsUnder(c))
  /\ Goto("captureMove", c)
  /\ UNCHANGED <<interface, stream, dataPublisher, moving, history>>

\* Fault: the move of the block itself replaces the one of its streams.
CaptureMoveSubscribeReturns ==
  /\ pc = "captureMove"
  /\ capturePublisher' = Subscribe(capturePublisher, capture[fb].deviceId, fb)
  /\ stale' = NoStale
  /\ Return
  /\ UNCHANGED <<capture, interface, stream, dataPublisher, moving, history>>

CaptureMoveSubscribe ==
  /\ pc = "captureMove"
  /\ capturePublisher' = Subscribe(capturePublisher, capture[fb].deviceId, fb)
  /\ \/ stale = NoStale /\ Return
     \/ stale # NoStale /\ Goto("move", fb)
  /\ UNCHANGED <<capture, interface, stream, dataPublisher, stale, moving, history>>

\* A write to DeviceId outside an update.
SetDeviceId(c, deviceId) ==
  /\ Idle
  /\ capture[c] # NoFb /\ ~capture[c].updating /\ capture[c].deviceId # deviceId
  /\ UpdateDeviceId(c, deviceId)

\* A write to DeviceId during an update only sets needsPropertyChanged.
SetDeviceIdUpdating(c, deviceId) ==
  /\ Idle
  /\ capture[c] # NoFb /\ capture[c].updating
  /\ capture' = [capture EXCEPT ![c].pending = deviceId]
  /\ UNCHANGED <<interface, stream, tables, pc, fb, stale, moving, history>>

BeginUpdateCapture(c) ==
  /\ Idle
  /\ c \in Updated
  /\ capture[c] # NoFb /\ ~capture[c].updating
  /\ capture' = [capture EXCEPT ![c].updating = TRUE, ![c].pending = capture[c].deviceId]
  /\ UNCHANGED <<interface, stream, tables, pc, fb, stale, moving, history>>

\* CaptureCommonFb::endUpdate.  isUpdating is cleared after propertyChanged; no
\* other operation can start in between, so it is cleared at once.
EndUpdateCapture(c) ==
  /\ Idle
  /\ capture[c] # NoFb /\ capture[c].updating
  /\ \/ /\ capture[c].pending # capture[c].deviceId
        /\ UpdateDeviceId(c, capture[c].pending)
     \/ /\ capture[c].pending = capture[c].deviceId
        /\ capture' = [capture EXCEPT ![c].updating = FALSE, ![c].pending = 0]
        /\ UNCHANGED <<interface, stream, tables, pc, fb, stale, moving, history>>

-----------------------------------------------------------------------------
(* Interface blocks.                                                       *)

\* addInterfaceWithParams: the block and its id.
CreateInterface(c, i, id) ==
  /\ interface[i] = NoFb
  /\ interface' = [interface EXCEPT ![i] = NewInterface(c, id)]
  /\ capture' = [capture EXCEPT ![c].ids = AddId(@, id, MaxInterfaceId)]
  /\ duplicateIds' = (duplicateIds \/ id \in InterfaceIdsOf(c))

\* CaptureFb::addInterfaceInternal.  During an update addInterfaceWithParams
\* throws before it changes anything.
AddInterface(c, i) ==
  /\ Idle
  /\ capture[c] # NoFb /\ ~capture[c].updating
  /\ \E id \in FirstUnusedIds(capture[c].ids, MaxInterfaceId) : CreateInterface(c, i, id)
  /\ UNCHANGED <<stream, tables, pc, fb, stale, moving, interruptedRemoval, addedFromStatus>>

\* CaptureFb::createFbs: one interface of the device status, which lists each
\* InterfaceId once.
FromStatusInterface(i, id) ==
  /\ pc = "fromStatus"
  /\ id \notin InterfaceIdsOf(fb)
  /\ CreateInterface(fb, i, id)
  /\ UNCHANGED <<stream, tables, pc, fb, stale, moving, interruptedRemoval, addedFromStatus>>

\* CaptureFb::removeInterfaceInternal unsubscribes the streams first ...
RemoveInterface(i) ==
  /\ Idle
  /\ interface[i] # NoFb
  /\ stale' = StaleAt(StreamsOf(i))
  /\ Goto("removeInterface", i)
  /\ UNCHANGED <<capture, interface, stream, tables, moving, history>>

\* ... and then removes the block and gives its id back ...
RemoveInterfaceFinish ==
  /\ pc = "removeInterface"
  /\ stale = NoStale
  /\ LET c == interface[fb].parent IN
       /\ ~capture[c].updating
       /\ capture' = [capture EXCEPT ![c].ids = RemoveId(@, interface[fb].interfaceId)]
  /\ interface' = [interface EXCEPT ![fb] = NoFb]
  /\ stream' = [s \in Stream |-> IF s \in StreamsOf(fb) THEN NoFb ELSE stream[s]]
  /\ Return
  /\ UNCHANGED <<tables, stale, moving, history>>

\* ... unless the capture block is being updated: then the base class throws.
RemoveInterfaceThrow ==
  /\ pc = "removeInterface"
  /\ stale = NoStale
  /\ capture[interface[fb].parent].updating
  /\ interruptedRemoval' = (interruptedRemoval \/ StreamsOf(fb) # {})
  /\ Return
  /\ UNCHANGED <<capture, interface, stream, tables, stale, moving, duplicateIds, addedFromStatus>>

\* InterfaceFb::updateInterfaceIdInternal for a new id.  Ids of siblings are not
\* looked at.
UpdateInterfaceId(i, id) ==
  /\ LET c == interface[i].parent IN
       /\ capture' = [capture EXCEPT
            ![c].ids = AddId(RemoveId(@, interface[i].interfaceId), id, MaxInterfaceId)]
       /\ duplicateIds' = (duplicateIds \/ id \in InterfaceIdsOf(c))
  /\ interface' = [interface EXCEPT ![i].interfaceId = id,
                                    ![i].updating = FALSE, ![i].pending = 0]
  /\ stale' = StaleAt(StreamsOf(i))
  /\ \/ StreamsOf(i) = {} /\ Return
     \/ StreamsOf(i) # {} /\ Goto("move", i)
  /\ UNCHANGED <<stream, tables, moving, interruptedRemoval, addedFromStatus>>

SetInterfaceId(i, id) ==
  /\ Idle
  /\ interface[i] # NoFb /\ ~interface[i].updating /\ interface[i].interfaceId # id
  /\ UpdateInterfaceId(i, id)

SetInterfaceIdUpdating(i, id) ==
  /\ Idle
  /\ interface[i] # NoFb /\ interface[i].updating
  /\ interface' = [interface EXCEPT ![i].pending = id]
  /\ UNCHANGED <<capture, stream, tables, pc, fb, stale, moving, history>>

BeginUpdateInterface(i) ==
  /\ Idle
  /\ i \in Updated
  /\ interface[i] # NoFb /\ ~interface[i].updating
  /\ interface' = [interface EXCEPT ![i].updating = TRUE, ![i].pending = interface[i].interfaceId]
  /\ UNCHANGED <<capture, stream, tables, pc, fb, stale, moving, history>>

\* InterfaceCommonFb::endApplyProperties
EndUpdateInterface(i) ==
  /\ Idle
  /\ interface[i] # NoFb /\ interface[i].updating
  /\ \/ /\ interface[i].pending # interface[i].interfaceId
        /\ UpdateInterfaceId(i, interface[i].pending)
     \/ /\ interface[i].pending = interface[i].interfaceId
        /\ interface' = [interface EXCEPT ![i].updating = FALSE, ![i].pending = 0]
        /\ UNCHANGED <<capture, stream, tables, pc, fb, stale, moving, history>>

-----------------------------------------------------------------------------
(* Stream blocks.                                                          *)

\* addStreamWithParams and the subscription of the new block.
CreateStream(i, s, id) ==
  /\ stream[s] = NoFb
  /\ stream' = [stream EXCEPT ![s] = NewStream(i, id)]
  /\ interface' = [interface EXCEPT ![i].ids = AddId(@, id, MaxStreamId)]
  /\ dataPublisher' = Subscribe(dataPublisher, TopicOf(i, id), s)
  /\ duplicateIds' = (duplicateIds \/ id \in StreamIdsOf(i))

\* InterfaceFb::addStreamInternal; it throws during an update of the interface.
AddStream(i, s) ==
  /\ Idle
  /\ interface[i] # NoFb /\ ~interface[i].updating
  /\ \E id \in FirstUnusedIds(interface[i].ids, MaxStreamId) : CreateStream(i, s, id)
  /\ UNCHANGED <<capture, capturePublisher, pc, fb, stale, moving,
                 interruptedRemoval, addedFromStatus>>

\* InterfaceFb::createFbs: one StreamId of the list in an interface status.  The
\* list comes from the wire and may name an id twice.
FromStatusStream(i, s, id) ==
  /\ pc = "fromStatus"
  /\ i \in InterfacesOf(fb)
  /\ CreateStream(i, s, id)
  /\ UNCHANGED <<capture, capturePublisher, pc, fb, stale, moving,
                 interruptedRemoval, addedFromStatus>>

FromStatusDone ==
  /\ pc = "fromStatus"
  /\ Return
  /\ UNCHANGED <<capture, interface, stream, tables, stale, moving, history>>

\* InterfaceFb::removeStreamInternal: the block leaves the tree before it is
\* unsubscribed, and an update of the interface does not stop it.
RemoveStream(s) ==
  /\ Idle
  /\ stream[s] # NoFb
  /\ stale' = StaleAt({s})
  /\ interface' = [interface EXCEPT ![stream[s].parent].ids = RemoveId(@, stream[s].streamId)]
  /\ stream' = [stream EXCEPT ![s] = NoFb]
  /\ Goto("removeStream", s)
  /\ UNCHANGED <<capture, tables, moving, history>>

RemoveStreamUnsubscribe ==
  /\ pc = "removeStream"
  /\ dataPublisher' \in Unsubscribe(dataPublisher, stale[fb], fb)
  /\ stale' = NoStale
  /\ Return
  /\ UNCHANGED <<capture, interface, stream, capturePublisher, moving, history>>

\* StreamFb::updateStreamIdInternal for a new id; ids of siblings are not
\* looked at.
SetStreamId(s, id) ==
  /\ Idle
  /\ stream[s] # NoFb /\ stream[s].streamId # id
  /\ LET i == stream[s].parent IN
       /\ interface' = [interface EXCEPT
            ![i].ids = AddId(RemoveId(@, stream[s].streamId), id, MaxStreamId)]
       /\ duplicateIds' = (duplicateIds \/ id \in StreamIdsOf(i))
  /\ stream' = [stream EXCEPT ![s].streamId = id]
  /\ stale' = StaleAt({s})
  /\ Goto("move", s)
  /\ UNCHANGED <<capture, tables, moving, interruptedRemoval, addedFromStatus>>

-----------------------------------------------------------------------------
(* The loops that unsubscribe, or unsubscribe and subscribe, streams.      *)

UnsubscribeStale(s) ==
  /\ pc \in {"removeCapture", "removeInterface"}
  /\ stale[s] # NoFb
  /\ dataPublisher' \in Unsubscribe(dataPublisher, stale[s], s)
  /\ stale' = [stale EXCEPT ![s] = NoFb]
  /\ UNCHANGED <<capture, interface, stream, capturePublisher, pc, fb, moving, history>>

MoveUnsubscribe(s) ==
  /\ pc = "move"
  /\ moving = NoFb
  /\ stale[s] # NoFb
  /\ dataPublisher' \in Unsubscribe(dataPublisher, stale[s], s)
  /\ stale' = [stale EXCEPT ![s] = NoFb]
  /\ moving' = s
  /\ UNCHANGED <<capture, interface, stream, capturePublisher, pc, fb, history>>

MoveSubscribe ==
  /\ pc = "move"
  /\ moving # NoFb
  /\ dataPublisher' = Subscribe(dataPublisher, Endpoint(moving), moving)
  /\ moving' = NoFb
  /\ \/ stale = NoStale /\ Return
     \/ stale # NoStale /\ UNCHANGED <<pc, fb>>
  /\ UNCHANGED <<capture, interface, stream, capturePublisher, stale, history>>

-----------------------------------------------------------------------------
Init ==
  /\ capture = [c \in Capture |-> NoFb]
  /\ interface = [i \in Interface |-> NoFb]
  /\ stream = [s \in Stream |-> NoFb]
  /\ dataPublisher = EmptyTable(Stream, Topic)
  /\ capturePublisher = EmptyTable(Capture, DeviceIds)
  /\ pc = "idle" /\ fb = NoFb
  /\ stale = NoStale /\ moving = NoFb
  /\ interruptedRemoval = FALSE /\ duplicateIds = FALSE /\ addedFromStatus = FALSE

NextCapture ==
  \/ \E c \in Capture :
       \/ AddCaptureModuleEmpty(c)
       \/ RemoveCaptureModule(c)
       \/ BeginUpdateCapture(c)
       \/ EndUpdateCapture(c)
       \/ \E deviceId \in DeviceIds :
            \/ AddCaptureModuleFromStatus(c, deviceId)
            \/ SetDeviceId(c, deviceId)
            \/ SetDeviceIdUpdating(c, deviceId)
  \/ FromStatusSubscribe \/ FromStatusDone \/ RemoveCaptureFinish \/ CaptureMoveSubscribe

NextInterface ==
  \/ \E i \in Interface :
       \/ \E c \in Capture : AddInterface(c, i)
       \/ RemoveInterface(i)
       \/ BeginUpdateInterface(i)
       \/ EndUpdateInterface(i)
       \/ \E id \in InterfaceIds :
            \/ FromStatusInterface(i, id)
            \/ SetInterfaceId(i, id)
            \/ SetInterfaceIdUpdating(i, id)
  \/ RemoveInterfaceFinish \/ RemoveInterfaceThrow

NextStream ==
  \/ \E s \in Stream :
       \/ \E i \in Interface : AddStream(i, s)
       \/ RemoveStream(s)
       \/ UnsubscribeStale(s)
       \/ MoveUnsubscribe(s)
       \/ \E id \in StreamIds :
            \/ \E i \in Interface : FromStatusStream(i, s, id)
            \/ SetStreamId(s, id)
  \/ RemoveStreamUnsubscribe \/ MoveSubscribe

Next == NextCapture \/ NextInterface \/ NextStream

Spec == Init /\ [][Next]_vars
-----------------------------------------------------------------------------
(* Properties.                                                             *)

Labels == {"idle", "statusSubscribe", "fromStatus", "removeCapture", "captureMove",
           "removeInterface", "removeStream", "move"}

\* Every variable has its type; a table never counts an entry below zero.
TypeOK ==
  /\ capture \in [Capture -> CaptureRecord \cup {NoFb}]
  /\ interface \in [Interface -> InterfaceRecord \cup {NoFb}]
  /\ stream \in [Stream -> StreamRecord \cup {NoFb}]
  /\ dataPublisher \in [Stream -> [Topic -> Nat]]
  /\ capturePublisher \in [Capture -> [DeviceIds -> Nat]]
  /\ pc \in Labels
  /\ fb \in Capture \cup Interface \cup Stream \cup {NoFb}
  /\ stale \in [Stream -> Topic \cup {NoFb}]
  /\ moving \in Stream \cup {NoFb}
  /\ interruptedRemoval \in BOOLEAN
  /\ duplicateIds \in BOOLEAN
  /\ addedFromStatus \in BOOLEAN

\* No entry of dataPacketsPublisher outlives its stream or its endpoint.  At
\* every moment, also between the publisher calls of an operation, a stream has
\* at most one entry; it is under the topic the running operation is about to
\* remove, or else the stream is in the tree and the topic is its endpoint now.
\* So publish never calls receive on a StreamFb that the tree has let go, and
\* never under ids that the stream gave up, whatever the user calls and in
\* whatever order, RemoveInterface during an update included.
NoStaleDataEntry ==
  \A s \in Stream, topic \in Topic :
    dataPublisher[s][topic] > 0 =>
      /\ dataPublisher[s][topic] = 1
      /\ s # moving
      /\ \/ stale[s] = topic
         \/ stale[s] = NoFb /\ stream[s] # NoFb /\ topic = Endpoint(s)

\* The same for capturePacketsPublisher: an entry belongs to a Capture block
\* that exists, under the DeviceId it has, and is the only one of the block.  In
\* the middle of a move or a removal the block has no entry.  This holds even
\* though unsubscribe may erase entries that it was not asked to erase.
NoStaleCaptureEntry ==
  \A c \in Capture, deviceId \in DeviceIds :
    capturePublisher[c][deviceId] > 0 =>
      /\ capturePublisher[c][deviceId] = 1
      /\ capture[c] # NoFb
      /\ capture[c].deviceId = deviceId
      /\ ~(fb = c /\ pc \in {"statusSubscribe", "captureMove", "removeCapture"})

\* Between operations a data packet reaches exactly the streams whose endpoint
\* it carries, however the tree and the ids above the streams were changed,
\* unless a RemoveInterface was cut short by an exception.
DataRoutingExact ==
  Idle /\ ~interruptedRemoval =>
    \A topic \in Topic :
      Subscribers(dataPublisher, topic) = {s \in Stream : stream[s] # NoFb /\ Endpoint(s) = topic}

\* Between operations a capture status packet reaches exactly the Capture blocks
\* with its DeviceId, as long as all of them were added by AddCaptureModuleEmpty.
CaptureRoutingExact ==
  Idle /\ ~addedFromStatus =>
    \A deviceId \in DeviceIds :
      Subscribers(capturePublisher, deviceId) =
        {c \in Capture : capture[c] # NoFb /\ capture[c].deviceId = deviceId}

\* An id manager never holds an id that no child of its block has: removals, id
\* writes with and without an update, and rejected removals leak no id.
NoLeakedId ==
  /\ \A c \in Capture : capture[c] # NoFb => capture[c].ids.used \subseteq InterfaceIdsOf(c)
  /\ \A i \in Interface : interface[i] # NoFb => interface[i].ids.used \subseteq StreamIdsOf(i)

\* Until two siblings were first given the same id, the id managers know the id
\* of every child, so that the id a new child is given is one that no sibling
\* has, unless all ids from 1 on are taken.
FreshIds ==
  ~duplicateIds =>
    /\ \A c \in Capture : capture[c] # NoFb /\ ~(1..MaxInterfaceId \subseteq InterfaceIdsOf(c)) =>
         FirstUnusedIds(capture[c].ids, MaxInterfaceId) \cap InterfaceIdsOf(c) = {}
    /\ \A i \in Interface : interface[i] # NoFb /\ ~(1..MaxStreamId \subseteq StreamIdsOf(i)) =>
         FirstUnusedIds(interface[i].ids, MaxStreamId) \cap StreamIdsOf(i) = {}

\* The streams an operation on the block b may subscribe or unsubscribe.
Under(b) == IF b \in Capture THEN StreamsUnder(b) ELSE IF b \in Interface THEN StreamsOf(b) ELSE {b}

\* A stream that is entered in dataPacketsPublisher loses its entry only to an
\* operation on it or on a block above it: nothing that happens to one Interface
\* or Capture makes the streams of another deaf.
OthersStaySubscribed ==
  [][~interruptedRemoval =>
       \A s \in Stream, topic \in Topic :
         dataPublisher'[s][topic] < dataPublisher[s][topic] => s \in Under(fb)]_vars
=============================================================================
