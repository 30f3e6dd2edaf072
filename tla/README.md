# TLA+ models of the openDAQ ASAM CMP modules

Two openDAQ modules speak ASAM CMP over Ethernet. The *capture module* encodes the
packets of openDAQ signals into CMP data messages and announces itself with CMP
status messages. The *data sink* receives both, lists the devices it hears of and
turns data messages into signals again. Both are trees of function blocks
(Capture, Interface, Stream) that a user changes while packets flow. This project
models the trees, the tables that route packets to them, the status table and its
thread, the way of a packet through the encoder and through the data sink, the
network adapters, and the locks of all threads.

Paths below are relative to `src/`; `C/` stands for
`shared/libraries/asam_cmp_common_lib/`, `K/` for `modules/asam_cmp_capture_module/`
and `S/` for `modules/asam_cmp_data_sink/`.

## The system

### Components

| Component | State | Operations | Model |
| --- | --- | --- | --- |
| `IdManager<T>` (`C/include/.../id_manager.h`) | `usedIds`, `unusedIds` | addId, removeId, isValidId, getFirstUnusedId | `IdManager` |
| `Publisher<Topic, Subscriber>` (`S/include/.../publisher.h`) | a multimap from topics to pointers, `subscribersMt` | subscribe, unsubscribe, publish | `Publisher` |
| Sink tree: `DataSinkFb`, `CaptureFb`, `InterfaceFb`, `StreamFb` and their base classes | blocks, ids, pools, `isUpdating` | add, add from status, remove, write an id, beginUpdate/endUpdate | `DataSink`, locks in `LockOrder` |
| Capture tree: `CaptureFb`, `InterfaceFb`, `StreamFb` and the same base classes | blocks, ids, pools, `captureStatus`, `streamIdsList`, `statusSync`, the status thread | as above, PayloadType, VendorData, device information, statusLoop, stopStatusLoop | `CaptureStatus`, locks in `LockOrder` |
| Stream input and `EncoderBank` of the capture module | descriptors, `isConfigured`, `InputStatus`, scaling; encoders with a sequence counter and a mutex each | onPacketReceived, onDisconnected, configure, setPayloadType, encode | `InputDescriptors`, `StreamInput`, `StreamChannel` |
| Dispatch of the sink (`S/src/data_sink_module_fb.cpp`) | the frame in `onPacketArrives` | onPacketArrives | `SinkDispatch` |
| Status list of the sink (`S/src/status_fb_impl.cpp`) | the device table, `CaptureModuleList`, `stMutex` | processStatusPacket, clear, getDeviceStatus | `SinkDispatch` |
| Stream blocks of the sink (`S/src/stream_fb.cpp`) | `payloadType`, `updateDescriptors`, `analogHeader`, descriptors of two signals | receive, setPayloadType | `SinkStream` |
| Adapters (`C/src/network_manager_fb.cpp`, `ethernet_pcpp_impl.cpp`, the module blocks) | the active device, `NetworkAdapters`, `captureStartedOnThisFb`, the capture of a device | construct, select, startCapture, stopCapture, remove | `Adapters` |
| Unit converter, module factories, example | none | | not modelled |

### How they interact

- A user (or a client of the example's kind) calls function properties such as
  `AddInterface` and writes properties; a handler of the write runs in the same
  thread. Between `beginUpdate` and `endUpdate` a write changes nothing but a flag,
  and `endUpdate` applies all of them.
- The blocks of a Capture take ids from its pool, those of an Interface from the
  Interface's. In the sink, several blocks may be given one id; the capture module
  refuses a write of a taken id and puts the old one back.
- In the sink, each Stream is entered in `dataPacketsPublisher` under its endpoint
  (DeviceId, InterfaceId, StreamId) and each Capture in `capturePacketsPublisher`
  under its DeviceId. A write of an id above moves the entries of all streams below.
  The capture thread of PcapPlusPlus publishes at any time in between.
- `onPacketArrives`, on that thread, decodes a frame. Data messages that agree in type and
  identifiers go to the Streams of their endpoint together, others one by one. Status
  messages go to `processStatusPacket`, which keeps the table and the list, and those of a
  capture module also to the Captures of the device. `AddCaptureModuleFromStatus` copies an
  entry of the table, found by the index it has in the list.
- A Stream of the sink decodes on the capture thread what the configuration thread has
  selected with PayloadType on its Interface. The two share no lock.
- All modules of a process share the devices of PcapPlusPlus. A device has one capture
  and one callback.
- In the capture module, every operation updates the packets of `captureStatus` and
  `statusLoop` sends all of them once a second. Both take `statusSync`. The packets go through
  the encoder of StreamId 1, which streams may use as well.
- Packets of a signal wait in the connection of an input port. Each schedules a call
  of `onPacketReceived` on a worker thread; the call holds the block's lock. Encoding
  takes the mutex of one of 256 encoders, chosen by StreamId and shared by all
  interfaces; frames are sent outside it.

### What is hard

An operation that makes several publisher calls is visible between any two of them.
A call may be cut short by an exception half way. An id can be written, refused,
delayed by an update, given back and handed out again. The status thread reads what
the configuration thread changes in more than one critical section. A disconnect
does not wait for the call that is draining the connection. A selection of another
PayloadType meets the decoding of a message. A selection of an adapter that fails is
taken back in the middle of itself. Locks of blocks and mutexes are taken in different
orders. `PROJECT.json` lists these hazards with their lines, and for each the properties
that cover it or the reason why none does.

### What makes each component correct

- *Publishers and sink tree*: no entry outlives its block or its ids; between
  operations a packet reaches exactly the blocks it is addressed to.
- *Pools*: no id leaks, no id is handed out twice as long as one is free.
- *Capture tree and status*: ids are unique; at any moment the status packets describe
  exactly the interfaces and streams there are; the destructor returns.
- *Input and encoding*: every sequence number is used once, each stream's samples leave in
  their order, once and whole, none is left behind, and a frame's payload is of the type
  it names.
- *Dispatch and status list*: the list is the table; an index means to the sink what the
  user saw; a capture module status reaches every Capture of its device, or as many as the first
  message of its frame lets it reach, and no block that is gone.
- *Stream blocks of the sink*: what is sent, and the descriptors it is sent under, suit the
  message it came from.
- *Adapters*: the adapter shown is used; a sink captures; no device calls a module that is gone.
- *Locks*: threads do not wait for each other in a circle, or only in ways that are known.

## Modules

| Module | Models | Notes |
| --- | --- | --- |
| `IdManager` | `id_manager.h` | operators on a pool `[used, unused]`; the owner keeps the pool |
| `Publisher` | `publisher.h` | a table counts the entries of a subscriber under a topic |
| `DataSink` | the sink tree and both publishers | EXTENDS the two above |
| `DataSinkMC` | | symmetry; checks `MinUnusedIds` against the loop of `getMinUnusedId` |
| `DataSinkProofs` | | theorems about `DataSink` |
| `CaptureStatus`, `CaptureStatusMC` | the capture tree, the status table, `statusLoop` | EXTENDS `IdManager` |
| `CaptureStatusProofs` | | theorems about `CaptureStatus` |
| `InputDescriptors` | `input_descriptors_validator.cpp`, the scaling part of `configure` | pure operators |
| `StreamInput`, `StreamInputMC` | `onPacketReceived` and the encoders | EXTENDS `InputDescriptors` |
| `StreamInputProofs` | | theorems about `StreamInput` |
| `Channels` | | abstract: a lossy channel for each signal that keeps order |
| `StreamChannel` | | `StreamInput` as an implementation of `Channels`; fairness |
| `StreamChannelProofs` | | that it is one |
| `SinkDispatch`, `SinkDispatchMC` | `onPacketArrives`, the status list, the Captures that receive | EXTENDS `Publisher` |
| `SinkDispatchProofs` | | theorems about `SinkDispatch` |
| `SinkStream`, `SinkStreamMC` | `receive` and `setPayloadType` of a sink Stream | |
| `SinkStreamProofs` | | theorems about `SinkStream` |
| `Adapters` | network adapters of several modules, capture on shared devices | its own model-checking module |
| `AdaptersProofs` | | theorems about `Adapters` |
| `LockOrder`, `LockOrderMC` | the locks every operation of both modules takes | |
| `LockOrderProofs` | | theorems about `LockOrder` |

Operators whose comment starts with "Fault" are not part of a specification. Each is
a mistake that could be made at that place; `PROJECT.json` names the property that
finds it when it replaces the definition it stands before.

### DataSink

One step is the code from one publisher call to the next, because a publisher holds
`subscribersMt` for one call and the capture thread may publish after each. `pc` and
`fb` say which operation the configuration thread is in, `stale` which entries it has
still to remove, `moving` the stream that has been unsubscribed and not subscribed yet.
`AddCaptureModuleFromStatus` is a sequence of steps that add any interfaces and streams
the status may have named, since the table it copies is filled from the network; the
device status lists an InterfaceId once (a library class looks it up by id), a stream
list may repeat one. `unsubscribe` compares the result of `find_if` over a bucket with
the container's `end()`; if the topic is there and the subscriber is not, the entry
that follows the bucket is erased. Which entry that is depends on the hash table, so
`UnsubscribeMiss` offers every one of another topic, and none.

The history variables say that an event has happened from which the code does not
recover: a `RemoveInterface` during an update (`interruptedRemoval`), the same id given
to two siblings (`duplicateIds`), a block added from a status (`addedFromStatus`).

### CaptureStatus

One step is a critical section of `statusSync` in the configuration thread.
`statusLoop` holds `statusSync` over several steps, so that what the configuration thread
does without it (the encoders' DeviceId, the stop flag, `notify_one`) may come in
between. `RejectInterfaceId` and `RelockStatusSync` are the two ends of a refused write:
the handler writes the old id back, which runs the handlers again, and either they find
nothing to do or they lock `statusSync` a second time. VendorData is kept as a flag (is the
value announced the one the property has), the device information as one value.

The history variables are `dropped` (a `RemoveInterface` during an update removed the packet and not the
block), `rejected` (the last write of a StreamId was turned down), `exhausted` (a block was added when its
parent had no identifier left) and `old`, the properties before the write under way. With `old` the packets can be
compared with what they were before a write and will be after it, as the tests do, and not with a
block whose members are half changed: `PacketsOldOrNew` for the interfaces, `DeviceAnnounced` for the device.

### StreamInput, Channels and StreamChannel

`queue` holds the packets of each connection a port has had. `ReceiveConnected` takes
the lock of the block and keeps the connection; `ProcessEventPacket`, `SkipDataPacket` and
`Encode` are one iteration of the loop each; `Encode` and `EncodeReturns` are the two ends of
the critical section of `EncoderBank::encode`, in which the counter is read and
advanced. `Disconnect` is `onDisconnected`, which takes no lock. The streams belong to different
interfaces and so may have the same StreamId. `retyped` is history: PayloadType was written
since the last `configure`. Of a descriptor `InputDescriptors` keeps what the validator tests.

`statusLoop` is an actor of its own, because it encodes with the encoder of StreamId 1 and so takes numbers from
the counter of the streams that have this StreamId: `StatusEncode`, `StatusEncodeReturns` and `StatusSendPacket`
are a call of `encodeAndSend`. Of its frames only the numbers are kept; `statusWire` holds those that were sent, in a sequence of
their own, since no property compares the order of data and status frames. The loop has `statusSync` while it has
a packet in hand, and a write of PayloadType or StreamId waits for that. What the packets say is in `CaptureStatus`.

`Channels` is what a user of a signal may rely on: messages are numbered and wait (`pending`), the oldest is begun and
its pieces go out one by one before the next of the signal is begun, and messages may be lost while
they wait. It knows no workers, locks, ports or encoders. `StreamChannel` maps the data
packets in all connections of a port to `pending`, the frames of the call that holds the block's lock
to `sending`, and the wire to `delivered`, the pieces of all signals in one sequence; it adds
the fairness of the workers. `StreamInput` implements `Channels`, step by step and in its liveness: `Put` is a data
packet sent, `Lose` what `onDisconnected` lets go of or `processDataPacket` makes nothing of, `Begin` the call
of `encode`, `Deliver` that of `sendPacket`, and every other step a stutter.

### SinkDispatch

`arrival` is the frame in `onPacketArrives` and the message its loop has reached. One step of the
capture thread ends where it takes or releases `stMutex` or the publisher's mutex, or has
called one block. `status` is the library's table, which enters a device with its first capture module
status and ignores an interface status before it; `list` is `CaptureModuleList`. `receive` of a
Capture casts the payload without a test of its type: `Garbled` is what an interface status reads as.
A block between
`beginUpdate` and `endUpdate` keeps what is written to its properties in `block[b].pending`, by `receive` too, whose
`setProtectedPropertyValue` waits like any other write; `EndUpdate` applies it, and moves the entry if DeviceId is
among it. An index past the end of the table gives a default `DeviceStatus`, whose packet has no payload: the block is then of
device 0 and reads as its description what is not one (`NoDeviceStatus`).
`block[b].meant`, `misread` and `fromStatus` are history; `misread` says that one of the two payloads was read that are
not a capture module status.

### SinkStream

`call` is the call of `receive` on the capture thread, `write` the call of `setPayloadType` on the
configuration thread. A step reads or writes one of the members they share, so
every interleaving of their accesses is there. `receive` reads `payloadType` four times
(`Test`, `Branch`, `TestAll`, `Switch`), and each time it may be another. Of a message the
model keeps its type, its sample interval and its `scaling` (data type, unit, offset and scale); decoded as
Analog, a message of another type says something else there (`Misread`). `raced` is history: the two calls
met, and since then Analog was not selected anew and answered with both descriptors.

### Adapters

`todo[m]` is the rest of the operation the thread of module `m` is in. `SelectFails` shows why it is a
sequence: when `setDevice` fails, the old index is written back, the handler runs again in
the middle of the first run, and with it another stop, selection and start. `capture[d]` is whose
callback device `d` calls, `busy[d]` that it is in it. A device that is open opens again; one that is not may
fail, which is the environment's choice. `disturbed` is history: another module stopped the capture of
this one, or kept it from starting.

### LockOrder

An operation is the sequence of locks its code takes and releases, nested by `With`: the lock
of the block an openDAQ property write or function call holds throughout, those of the
blocks whose properties it reads, and the mutexes. The thread sets are parameters; `module`
picks which of the two modules runs, because they share no lock. `setPayloadType` visits the Streams that the Interface
has in the order they were added, so `Order` is any sequence of some of them.

## Runs

| Run | Question | Bounds |
| --- | --- | --- |
| `sink_tables` | stale entries, exact routing, fresh ids, no leaked id, no effect on other streams | 3 Captures, 2 Interfaces, 2 Streams, 2 DeviceIds, InterfaceIds 0..1, StreamIds 0..1; goes on from a state only if it has one Capture and one block being updated at most, or one Stream and no update |
| `capture_tree` | unique ids, announced interfaces and streams, payload types of streams | 2 Interfaces, 3 Streams, InterfaceIds 0..2, StreamIds 0..1 |
| `capture_updates` | unique ids with updates of the Capture and an Interface, packets as before a write or after it, the announcement of the device, VendorData, the end of the thread | 2 Interfaces, 2 DeviceIds, 2 device informations, InterfaceIds 0..1 |
| `capture_relock` (violation) | does a refused write return? | 2 Interfaces |
| `capture_mixed` (violation) | does a status packet ever have a new InterfaceId and an old PayloadType? | 1 Interface with updates |
| `stream_frames` | sequence numbers, order, payload of frames | 2 streams, 2 workers, 3 data packets, a second connection, one descriptor change, one property write, a status packet of 2 frames |
| `stream_channel` | is each stream a channel, and does it drain? | 2 streams that share an encoder, 2 workers, 3 data packets, messages of 2 frames, a second connection, a status packet |
| `dispatch_status` | list and table, indices, whom a status reaches, what garbles a description | 2 Captures, one of them being updated, 2 DeviceIds, 2 descriptions, 8 kinds of frames with 1 or 2 messages, 3 frames |
| `dispatch_mixed` (violation) | does a data message reach the endpoint it names? | as above, without updates |
| `sink_signals` | what is sent and the descriptors, `receive` against `setPayloadType` | 5 payload types, 2 intervals, 2 scalings, calls with 1 or 2 messages |
| `adapters_shared` | callbacks, the adapter shown, captures | 2 data sinks, 1 capture module, 3 devices |
| `lock_order` | in which ways can threads get stuck? | 3 configuration threads; status thread, worker and 2 Streams, or the capture thread |

*Why the bounds are enough.* A property of the sink's tables relates one stream to its
endpoint, and is disturbed by operations on the stream, on a block above, or, through the
miss of `unsubscribe`, on a subscriber of the same publisher: two streams below two
interfaces have all of these, and three Captures are the least for a miss that takes a
third one's entry. Ids are small, so that the wrap of `getMinUnusedId` to 0, a rejected id and the
reuse of an id all happen within a few steps (in `sink_tables` and `capture_tree` MaxStreamId is 1,
and the second stream gets 0). The constraint of `sink_tables` (`Bounded` in `DataSinkMC`) cuts off the states that
have more than one Capture together with a full tree or with an update: the table of data packets sees the one, that of
capture packets the other. In `capture_tree` three streams may be
below one interface, one more than there are StreamIds. An encoder is shared or
it is not, so two streams show what sharing does. In `stream_frames` one stream has a CAN signal with
two packets, two connections and a property write, to PayloadType or to the StreamId of the
other encoder; the other has an analog signal whose descriptor changes from one scaling to
another before or after its packet, which makes two frames; every pair of these
overlaps. CAN messages have 8 bytes there: a longer one is skipped
as one of a stream that is not configured is. In `stream_channel` the stream with two connections and
messages of two frames is next to one that takes the workers and the encoder from it. In both, the constraint
`Bounded` of `StreamInputMC` lets the status packet meet the encoding of one packet of each stream, over one
connection: the numbers know neither connections nor descriptors, and what is left out does not
use the encoder in another way. In
`dispatch_status` three frames are enough for a device to be listed, seen, and changed while a block
from it is built; each kind of frame is there, those that `samePayloadType` must tell apart as well, and an interface status
before and behind a capture module status. One block is updated at a time (`Bounded` in `SinkDispatchMC`), and none once a
block came from the status, of which `StatusReachesBlocks` says nothing.
`SinkStream` has no bound on selections or messages: its states are finite. Three devices
let a selection fail and be taken back while both others are in use. In `lock_order` a circle of waiting threads
needs as many threads as locks in it; with three configuration threads, the worker and the
status thread there are enough for every circle of up to five, and the invariant says that two suffice.
`Updated`, `UpdatesCapture`, `MaxPackets`, `MaxConnections`, `MaxEvents`, `MaxWrites`, `MaxStatusFrames` and `MaxFrames`
are bounds and not part of the code; the last connection of
a stream stays. Block identities, workers and configuration threads are interchangeable
(they are compared and never ordered), hence the symmetry sets; the runs with a liveness property
use none.

`CHECK_DEADLOCK FALSE` is said where the system may stop: after the
destructor in `CaptureStatus`, after the last packet in `StreamInput` and `StreamChannel`, and in
`LockOrder`, whose threads really get stuck.

*Fairness.* `CaptureStatus` assumes weak fairness of `LoopStep`, one thread's steps that the
operating system schedules as long as it can run (`wait_for` times out, so it can), and of
`StopStep`, the rest of a destructor that was entered. Nothing is assumed about the user.
With both, `StopEnds` holds although the flag is written without `statusSync` and the
notification may come before the loop waits; with `wait` in the place of
`wait_for` it would not. `FairSpec` of `StreamChannel` assumes weak fairness of each worker's
steps: a call of `onPacketReceived` goes on as long as it is not waiting for a lock, and a worker
without a call takes one. Locks need no strong fairness there: each call that
got the lock before ends. The status thread is assumed to come to the end of a call of `encode`
it is in (`WF_vars(StatusEncodeReturns)`), as a worker may wait for that encoder; nothing is assumed of how often it
sends. Nothing is assumed about ports and signals. The other
specifications state safety only.

## What the runs show

The invariants listed hold. Three statements do not, each shown by a run of its own
(`findings` in `PROJECT.json` quotes both sides):

1. `capture_relock`: a taken InterfaceId written to an interface with a PayloadType
   locks `statusSync` twice (`K/src/interface_fb.cpp:82`).
2. `capture_mixed`: the end of an update that changes InterfaceId and PayloadType writes the packet of the interface
   twice, and `statusLoop` may send it in between (`C/src/interface_common_fb.cpp:139`).
   `TestStatusPacketConsistency` (`K/tests/test_interface.cpp:307-393`) asserts at line 392 that no such packet is seen; it
   passes as long as the loop does not meet the gap. The test of the same name for the device
   (`K/tests/test_capture_fb.cpp:276-363`) asks it of the DeviceId and the description, which change in two steps too
   (`K/src/capture_fb.cpp:52`): there `DeviceAnnounced` states what the gap shows.
3. `dispatch_mixed`: the messages of a frame that differ are published under the identifiers
   of the first one (`S/src/data_sink_module_fb.cpp:128`).

The conditions in the properties that hold name exactly the events from which the code does not
recover: `~interruptedRemoval` in `DataRoutingExact`, `~addedFromStatus` in `CaptureRoutingExact`, `dropped` in
`InterfacesAnnounced`, `exhausted` there and in `UniqueIds`, `rejected` in `StreamsAnnounced`, the Undefined PayloadType in
`VendorDataAnnounced`, `retyped` in `ConfiguredFramesFit`, `raced` in `SentFits` and
`DescriptorsFollowType`, `misread` in `GarbledByMisread`, `fromStatus` in `StatusReachesBlocks`, `disturbed` in
`SinksCapture`, `selected` in `ShownIsActive`. Each of them is the event itself, and the property says that nothing else
has its effect: it bounds the hazard and does not deny it. `ChangesBoth` in `PacketsOldOrNew` is the gap of
`capture_mixed`, of which the property says what is seen there.

*Known limits of the code*, met on the way; the conditions above keep each of them apart:

- `RemoveInterface` during an update throws after it has unsubscribed the streams, which stay
  in the tree and get no data (`S/src/capture_fb.cpp:83`).
- A Capture added from a device with DeviceId 0 is never subscribed (`S/src/data_sink_fb.cpp:39`).
- `unsubscribe` may erase an entry of another subscriber (`S/include/asam_cmp_data_sink/publisher.h:49`).
- A status packet may mix old and new properties (`K/src/capture_fb.cpp:52`, `C/src/interface_common_fb.cpp:139`).
- A write of PayloadType leaves a stream of the capture module configured for the old type
  (`K/src/stream_fb.cpp:487`).
- A selection of PayloadType that meets `receive` in the sink can leave the descriptors of the wrong
  one of the two until Analog is selected again (`S/src/stream_fb.cpp:34`).
- An interface status after a capture module status in one frame is read as one, and a capture module
  status after an interface status reaches the list and no Capture (`S/src/data_sink_module_fb.cpp:132`).
  `StatusReachesBlocks` is about frames that begin with a capture module status.
- `AddCaptureModuleFromStatus` with an index past the end of the table reads a packet that has no payload
  (`S/include/asam_cmp_data_sink/status_handler.h:46`).
- A description that `AddCaptureModuleFromStatus` copied may overwrite a newer one until the next status
  message (`S/src/capture_fb.cpp:88`).
- Until the first write `NetworkAdapters` shows the first adapter of the list, also if another one is in use
  (`C/src/network_manager_fb.cpp:32`); if none opens, there is no active device to send or capture on.
- Two data sinks on one device stop each other's capture (`C/src/ethernet_pcpp_impl.cpp:130`).
- Threads can get stuck on each other in the two ways that `StuckInKnownWays` names: a lock of an Interface or a
  Stream is taken under `statusSync` (`K/src/interface_fb.cpp:98`, `K/src/stream_fb.cpp:90`), and
  `publish` calls a Capture that is being renumbered under `subscribersMt` (`S/include/asam_cmp_data_sink/publisher.h:60`).
- With all identifiers from 1 on in use, `getMinUnusedId` returns 0 to each further block, so a
  257th stream repeats an id (`K/src/interface_fb.cpp:36`; `README.md:125` calls it unique). Without `exhausted`, `UniqueIds` of
  `CaptureStatus` fails in `capture_tree`; nothing is claimed of ids and packets after it.
- `README.md:147` asks for minimum and maximum of an analog signal, while the validator accepts Int16 and Int32
  without a range (`K/src/input_descriptors_validator.cpp:110`).

## Proofs

Each proof holds for every value of the constants that satisfies the module's assumption. The
assumptions say what the constants are (ids are natural numbers, 0 is a DeviceId, there is
a device, no module is both a sink and a sender, the messages of one call are of
one type, a block is of one class, the Streams of `LockOrder` are finitely many) and that the values which stand for "none" are different from all others.

`DataSinkProofs`:

- `TreeInvariant`, `Spec => []TreeInv`, and `TypeCorrect`, `Spec => []TypeOK`.
- `NoStaleData`, `Spec => []NoStaleDataEntry`: `publish` never calls a stream that has left
  the tree, nor under ids it gave up, at any moment of any operation.
- `DataRouting`, `Spec => []DataRoutingExact`.
- `NoStaleCapture` and `CaptureRouting`, the same for the table of Capture blocks: `Spec => []NoStaleCaptureEntry`
  and `Spec => []CaptureRoutingExact`.
- `OthersSubscribed`, `Spec => OthersStaySubscribed`, an action property.
- `NoLeaked` and `Fresh`, `Spec => []NoLeakedId` and `Spec => []FreshIds`.

*Argument.* Of the properties of the data table neither is inductive: that a removed stream has no entry follows
from what the operation has still to unsubscribe, and that from which operation it
is. `TreeInv` adds to the types that parents exist (`TreeOK`), that the block an operation works
on exists until the operation removes it (`BlockOK`), and that `stale` names only streams
the operation is about (`StaleOK`). Every step preserves it, one lemma for each action. `DataInv`
adds what the table holds: an entry is the only one of its stream and is either about to
be removed or where a routed stream belongs (`DataSound`); and, unless a removal was cut short, an
entry that is about to be removed is there, as is the one of each routed stream that
the operation has not unsubscribed (`DataComplete`). A stream is routed if it is in the
tree and no removal of a block above it is under way. The lemmas of this part are arranged
by what a step does: it leaves the table alone (`KeepData`), begins an operation on some streams
(`MarkStale`), removes an entry (`ReleaseStream`) or makes one (`SubscribeStream`). `unsubscribe` may miss
only after an interrupted removal: before that `DataComplete` provides the entry, and after it a
miss takes entries away, which `DataSound` tolerates and `DataComplete` no longer excludes.

For the table of Capture blocks `NoStaleCaptureEntry` is inductive; `CaptureComplete` adds that, as long as no block came
from a status, each block has its entry unless it is being added, moved or removed, so that `unsubscribe` finds what it
looks for. `OthersStaySubscribed` needs one fact more, `MovesOK`: the streams a move has still to
unsubscribe are those below its block, none that a removal left behind. For the ids, `PoolOK` relates a pool to the ids
of the children: it gave out no other, holds none of them for reuse, and gave out all of them unless two children were
ever given one id. `IdsInv` says so on both levels, with the ids of siblings
different until then; a write of an id returns the old one, which leaks nothing only because the sibling
with the same id, if there is one, is what `duplicateIds` records.

`CaptureStatusProofs`: `TypeCorrect`, `IdsAreUnique` (`Spec => []UniqueIds`), `PacketsOfInterfaces`
(`InterfacesAnnounced`), `PacketsAreOldOrNew` (`PacketsOldOrNew`), `PacketsOfStreams` (`StreamsAnnounced`), `StreamsFollow` (`StreamsFollowPayloadType`),
`VendorDataFollows` (`VendorDataAnnounced`) and `DeviceFollows` (`DeviceAnnounced`), from
`BlocksInvariant`, `Spec => []BlocksInv`, and `IdsInvariant`, `Spec => []IdsInv`: all invariants
of the component, for any number of blocks and identifiers.

*Argument.* The properties say what holds between operations, or at any moment of what `statusLoop` may send;
the invariant says how far the operation is. `BlocksInv` holds the parts in which no identifier occurs: the
block that an operation still has to apply a PayloadType to exists and has the old one until then (`OperationOK`), the encoders never differ
from the device, its packet only before `updateCaptureData` (`DeviceOK`), streams agree with their interface in every
step (`PayloadTypesOK`), and VendorData that is not announced will be by `updatePayloadType`, or the handler is stuck in the second lock
of `statusSync`, or the type is Undefined (`VendorDataOK`). `IdsInv` holds
until `exhausted`: the pool of a block, the ids of its children and the list a packet is made from
(`InterfaceLevel`, `StreamLevel`), and `PacketsOK`, which must also say that no other packet is there than those of
interfaces, or an interface that takes over an id could meet the packet of another. A step is one of four: it changes nothing that
ids are in (`QuietIds`), writes the packet of an interface under the id it has (`WriteInterface`) or under a
new one (`RenumberInterfaceIds`), erases it (`ErasePacket`), or, for a rejected StreamId, changes the list and no packet.
That the id which a pool gives out is not in use is `FirstUnusedFresh`: those given back are not in use, and the count
finds one in 1..max or wraps to 0, which is then free.

`SinkStreamProofs`: `TypeCorrect`, `SentPacketsFit` (`Spec => []SentFits`) and
`DescriptorsAreRight` (`Spec => []DescriptorsFollowType`), from `Invariant`, `Spec => []SinkStreamInv`.

*Argument.* Both properties say nothing while the calls have met, but they must come true again
when an undisturbed call builds both descriptors. So the invariant speaks of calls that
are alone, raced or not. A call that is alone decodes the type that is selected, although
it reads `payloadType` up to four times (`CallOfType`). `Building` says which part of the memory `analogHeader` and the
descriptors agree with the message while they are rebuilt, and distinguishes a rebuild of both, which
ends a disturbance, from one of what differs, which relies on what was there. `Writing` and
`Receiving` say where the descriptors stand in the middle of a call, `Descriptors` between calls.

`AdaptersProofs`: `TypeCorrect`, `NoCallbackLeft` (`CallbacksHaveModules`), `AdapterShown`
(`ShownIsActive`) and `SinksDoCapture` (`SinksCapture`), from `Invariant`, `Spec => []AdaptersInv`.

*Argument.* A selection leaves no capture behind because a stop comes right before it, also when
failed selections put operations in the middle of each other, any number of times. `Ordered` says so of what is
left of an operation: a sink selects or leaves at once only when it does not capture, else right after
a stop, and the last thing it does is to start or to leave. The lemmas before the actions show that `Ordered`
survives a step (`RestOrdered`) and an operation put before the rest of another (`ChangedOrdered`).
`CapturesStarted` adds that a module which captures knows it.

`SinkDispatchProofs`: `ListIsTable` (`Spec => []ListShowsStatus`), `AddsWhatWasSeen`
(`AddedIsTheOneSeen`) and `CalledBlocksExist` (`ReceiversExist`), from `Invariant`,
`Spec => [](Types /\ ListInv /\ EntryInv)`; then `TypeCorrect`, `GarbledByOthers` (`GarbledByMisread`)
and `StatusReaches`, `Spec => StatusReachesBlocks`, an action property.

*Argument.* `Types` are the types without the number of interfaces that a line shows, a cardinality, for which
`TypeCorrect` adds that a device names finitely many (`Counted`). Between the table's update and the list's the list is behind, by the one line that the
message in hand changed or added: `Behind`, with `Sections` for who is in which section and `OneEntry` for
one entry to a device. The user's index stays right because until it is cleared the table only grows at its
end (`StatusGrows`, `SeenStays`). For `publish`, `Entries` says that the only entry a block may have is under the topic
`TopicOf` names, also in the middle of a move and after an `unsubscribe` that missed, and `Called`
that no block being removed is among those to be called: both the removal's unsubscribe and `publish` need the mutex.
`Garbling` follows a frame from its first message to the blocks, their pending descriptions and the copies that wait
to be filled in: only a frame whose first status is that of a capture module and that has another, or a copy of no entry,
garbles. For `StatusReachesBlocks`, `Listening` says that each block has its
entry unless it is being moved or removed, as long as none came from the status, and `Told` that while
`publish` runs each block addressed shows the description already, or will when its update ends, or is among those still to be
called. The calls of an update and a write of DeviceId have one lemma of this kind together, since none of them loses a
description (`Rewrites`).

`StreamInputProofs`: `TypeCorrect`, `NumbersOnce` (`Spec => []EveryNumberOnce`), `FramesInOrder`
(`OwnFramesInOrder`) and `FramesFit` (`ConfiguredFramesFit`), from `Invariant`,
`Spec => [](Types /\ Locks /\ HandsOrdered /\ NumberInv /\ StatusInv /\ OrderInv /\ FitInv)`: for any number of
blocks, workers and identifiers, and any packets, connections, writes and status packets.

*Argument.* `Locks` says what a call may rely on: it holds its block's lock and, while it encodes, its encoder's, so
one call is in a block at a time (`OneCall`); and a connection that the port has left holds packets only as long as a
call drains it, because `onDisconnected` lets go of it. `HandsOrdered` describes the frames of a call: one message, one
StreamId (a write of StreamId needs the lock), numbers that go up, and while they are encoded the next
ones of the counter, which nobody else moves, `statusLoop` included. `NumberInv` then follows from the two steps that matter, the
end of `encode` and a send. `StatusInv` is its counterpart for the status frames: while `statusLoop` encodes it holds
`encoderSyncs` of StreamId 1 and has the next numbers, and afterwards its numbers are counted and no frame of data
has one of them. A number of that encoder is lost only if neither a stream nor the loop has it. `OrderInv` orders everything a packet passes: the wire, the hands, and the queues from the first
connection to the last. A new packet is behind all of them as no later connection has a packet, and the
next one to be encoded is ahead of all others as no earlier one has. `FitInv` follows the data descriptor
through a queue: `Then` says which descriptor a block has when it reaches a place in the
queue, and each data packet there has to meet its own. `Bases` is the point where that begins: the descriptor the
block has now, or any while a call works on another connection, because this one brings an event with a descriptor
before its data.
The rest are lemmas on what `Append` and `Tail` do to numbers and descriptors, and for each action one on its effect
(`...Does`), on which all parts of the invariant draw.

`StreamChannelProofs`: `ImplementsChannels`, `Spec => StreamsAreChannels`, the refinement of `Channels`, from
`ChannelInvariant`, `Spec => []ChannelInv`.

*Argument.* `ChannelInv` is the invariant of `StreamInputProofs` and two facts: who holds the lock of a block is in
a call on it, so that `Sending` of another stream does not change in a step of a call; and a signal has one of its
descriptors, so that what it sends is a `Message`. `WaitingAfterPut`, `WaitingShrinks` and `WaitingAfterTail` say
what `Append`, a disconnect and `dequeue` make of `Waiting`. The order of a channel rests on `OldestIsNext`: the
packet at the head of the call's connection has a smaller number than all others in the connections of the port, which is
what `OrderInv` says; that the packet is in no other place, so that it is gone once begun, is `BegunIsGone`. The end
of `sending` is the end of the hands: a call goes on with the next packet only when its frames are out. Each
action then has one lemma that names its step of `Channels`.

`LockOrderProofs`: `KnownWays` (`Spec => []StuckInKnownWays`) and `Pairs` (`Spec => []StuckInPairs`), from
`Disciplined`, `Spec => []Inv`: for any number of threads and Streams, hence for circles of any length.

*Argument.* `MayTake` is the order of the locks in one place: which lock may be taken by a thread that holds one other
(`After`), and the locks of blocks under `statusSync`. `Leads` says of a sequence of steps that it keeps to that from given
locks to given locks; it is shown for a lock around a body (`WithLeads`) and for what follows one another (`ThenLeads`),
then for every operation. The invariant is that what a thread has still to do leads from what it holds to
nothing, and that a lock has one owner. In a circle of threads each waits for a lock whose owner waits for
a later one of `After` (`StuckChain`), which ends, unless one of the known ways is in it. Such a thread holds
`statusSync` or `subscribersMt`, and the owner of the block it waits for can only wait for the same mutex: that is the pair.

*Model-checked only*: `StopEnds` and `QueuesDrain`, which are liveness properties, and the loop of
`getMinUnusedId`, an induction over the elements of a pool, which `DataSinkMC` evaluates for all pools up to 5. Every
invariant and every action property of the runs that pass is also a theorem, as is the refinement, except that liveness is no part
of it. The three statements that do not hold are shown by their runs.

## Assumptions of the models

- One configuration thread per module, except in `LockOrder`. openDAQ lets several threads write properties; the
  circles of locks they could wait in are what `LockOrder` is about.
- openDAQ holds the recursive lock of a block during a property write, its handlers included, and
  takes it for a property read.
- The user lets go of a block that was removed, and does not end its update later.
- During an update a property read returns the value before it, as the tests expect.
- A property write of the value the property has makes no event.
- The loops over the streams of a block take them in any order, which includes the code's.
- Payload types are Undefined and one other in `CaptureStatus`: the code distinguishes only
  whether index and type agree. The sink's tables do not depend on the PayloadType.
- In `StreamInput` every packet schedules a call, as the scheduler notification of the input port
  does; a signal has a domain; a descriptor missing from an event is unchanged; an
  encoder counts one for each frame. These are openDAQ's and ASAM-CMP-Library's and marked
  external in the map.
- All messages of a frame have one device and one message type, because the CMP header gives both.
- PcapPlusPlus: a device has one callback, `stopCapture` waits for the callback that runs, `startCapture` fails
  while a capture runs, and opening an open device succeeds.

## Not modelled, and why

- Byte layouts of CMP messages and Ethernet frames, and the numeric conversion of samples and time
  stamps: data that no property here tells apart, made by libraries or without state.
- The unit converter (a constant table) and the module factories: no state.
- The order in which the two packets of a sink Stream reach their signals: one call makes both.
- Races of unsynchronised members other than the ones named above, for example the
  DeviceId of the encoders during `EncoderBank::init` (`K/src/encoder_bank.cpp:5`): planned.
- A process in which no network device opens: its null device is dereferenced on the first send.
- The blocks of a Capture that comes from a status, in `SinkDispatch`: they are in `DataSink`.

## Plan

Done: `IdManager`, `Publisher`, `InputDescriptors`, `DataSink`, `CaptureStatus`,
`StreamInput`, `SinkDispatch`, `SinkStream` and `Adapters` with their proofs, the abstract
specification `Channels`, `LockOrder`.

Next:

1. `DataPath`: `StreamInput`, the wire, the decoder, `SinkDispatch` and `SinkStream` composed, with the encoders' DeviceId,
   for frames of two streams with one StreamId whose numbers swap on the wire, against an end-to-end channel.
2. A second configuration thread in `CaptureStatus`, for what two operations do to the state.
3. Proofs about these two when they are there; for what is there, the safety properties are proved.
