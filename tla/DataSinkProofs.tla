---------------------------- MODULE DataSinkProofs ----------------------------
(***************************************************************************)
(* Theorems about DataSink, for every value of its constants.              *)
(***************************************************************************)
EXTENDS DataSink, TLAPS

\* A block's parent exists.
TreeOK ==
  /\ \A i \in Interface : interface[i] # NoFb => capture[interface[i].parent] # NoFb
  /\ \A s \in Stream : stream[s] # NoFb => interface[stream[s].parent] # NoFb

\* The block an operation is called on exists until the operation removes it.
BlockOK ==
  /\ pc \in {"statusSubscribe", "fromStatus", "removeCapture", "captureMove"} =>
       fb \in Capture /\ capture[fb] # NoFb
  /\ pc = "removeInterface" => fb \in Interface /\ interface[fb] # NoFb
  /\ pc = "removeStream" => fb \in Stream /\ stream[fb] = NoFb /\ stale[fb] # NoFb

\* The streams an operation still has to unsubscribe are those it is about.
StaleOK ==
  /\ pc \in {"idle", "statusSubscribe", "fromStatus"} => stale = NoStale
  /\ pc # "move" => moving = NoFb
  /\ moving # NoFb => stream[moving] # NoFb /\ stale[moving] = NoFb
  /\ \A s \in Stream : stale[s] # NoFb =>
       \/ pc = "removeStream" /\ s = fb
       \/ pc \in {"captureMove", "move"} /\ stream[s] # NoFb
       \/ pc = "removeCapture" /\ s \in StreamsUnder(fb)
       \/ pc = "removeInterface" /\ s \in StreamsOf(fb)

\* The part of the inductive invariant that does not look into the tables.
TreeInv == TypeOK /\ TreeOK /\ BlockOK /\ StaleOK

-----------------------------------------------------------------------------
(* Facts about the operators the model is built from.                      *)

\* subscribe keeps a table a table.
LEMMA SubscribeType ==
  ASSUME NEW Sub, NEW T, NEW table \in [Sub -> [T -> Nat]], NEW topic \in T, NEW sub \in Sub
  PROVE  Subscribe(table, topic, sub) \in [Sub -> [T -> Nat]]
BY DEF Subscribe

\* unsubscribe, hit or miss, leaves a table that has no entry the old one had not.
LEMMA UnsubscribeType ==
  ASSUME NEW Sub, NEW T, NEW table \in [Sub -> [T -> Nat]], NEW topic \in T, NEW sub \in Sub,
         NEW result \in Unsubscribe(table, topic, sub)
  PROVE  /\ result \in [Sub -> [T -> Nat]]
         /\ \A x \in Sub, t \in T : result[x][t] <= table[x][t]
<1>1. CASE table[sub][topic] > 0
  BY <1>1 DEF Unsubscribe, Erase
<1>2. CASE ~(table[sub][topic] > 0)
  <2>1. table[sub][topic] = 0
    BY <1>2
  <2>2. CASE result = table
    BY <2>1, <2>2
  <2>3. CASE \E x \in Sub : \E t \in T : table[x][t] > 0 /\ t # topic /\ result = Erase(table, t, x)
    BY <2>1, <2>3 DEF Erase
  <2>4. result = table \/ \E x \in Sub : \E t \in T :
           table[x][t] > 0 /\ t # topic /\ result = Erase(table, t, x)
    BY <1>2 DEF Unsubscribe, UnsubscribeMiss, Subscribers
  <2> QED BY <2>2, <2>3, <2>4
<1> QED BY <1>1, <1>2

\* A subscriber with one entry under the topic has none after unsubscribe.
LEMMA UnsubscribeGone ==
  ASSUME NEW Sub, NEW T, NEW table \in [Sub -> [T -> Nat]], NEW topic \in T, NEW sub \in Sub,
         table[sub][topic] <= 1, NEW result \in Unsubscribe(table, topic, sub)
  PROVE  result[sub][topic] = 0
<1>1. CASE table[sub][topic] > 0
  BY <1>1 DEF Unsubscribe, Erase
<1>2. CASE ~(table[sub][topic] > 0)
  <2>1. table[sub][topic] = 0
    BY <1>2
  <2>2. CASE result = table
    BY <2>1, <2>2
  <2>3. CASE \E x \in Sub : \E t \in T : t # topic /\ result = Erase(table, t, x)
    BY <2>1, <2>3 DEF Erase
  <2>4. result = table \/ \E x \in Sub : \E t \in T : t # topic /\ result = Erase(table, t, x)
    BY <1>2 DEF Unsubscribe, UnsubscribeMiss, Subscribers
  <2> QED BY <2>2, <2>3, <2>4
<1> QED BY <1>1, <1>2

\* An unsubscribe that finds its entry takes just that entry.
LEMMA UnsubscribeHit ==
  ASSUME NEW table, NEW topic, NEW sub, table[sub][topic] > 0
  PROVE  Unsubscribe(table, topic, sub) = {[table EXCEPT ![sub][topic] = @ - 1]}
BY DEF Unsubscribe, Erase

\* The pools stay pools, and the ids they give out fit in T.
LEMMA IdPoolType ==
  ASSUME NEW max \in Nat, NEW ids \in IdPools(max), NEW id \in 0..max
  PROVE  /\ AddId(ids, id, max) \in IdPools(max)
         /\ RemoveId(ids, id) \in IdPools(max)
         /\ EmptyIds \in IdPools(max)
BY DEF AddId, RemoveId, EmptyIds, IdPools, IsValidId

LEMMA FirstUnusedType ==
  ASSUME NEW max \in Nat, NEW ids \in IdPools(max)
  PROVE  FirstUnusedIds(ids, max) \subseteq 0..max
BY DEF FirstUnusedIds, MinUnusedIds, IdPools

-----------------------------------------------------------------------------
(* The records and the tree.                                               *)

LEMMA RecordTypes ==
  /\ \A d \in DeviceIds : NewCapture(d) \in CaptureRecord
  /\ \A c \in Capture, id \in InterfaceIds : NewInterface(c, id) \in InterfaceRecord
  /\ \A i \in Interface, id \in StreamIds : NewStream(i, id) \in StreamRecord
BY DataSinkAssumption, IdPoolType
   DEF NewCapture, NewInterface, NewStream, CaptureRecord, InterfaceRecord, StreamRecord,
       InterfaceIds, StreamIds, EmptyIds, IdPools

\* Below an interface that exists there are topics, above a stream its endpoint.
LEMMA TopicType ==
  ASSUME TypeOK, TreeOK
  PROVE  /\ \A i \in Interface, id \in StreamIds : interface[i] # NoFb => TopicOf(i, id) \in Topic
         /\ \A s \in Stream : stream[s] # NoFb => Endpoint(s) \in Topic
<1>1. ASSUME NEW i \in Interface, NEW id \in StreamIds, interface[i] # NoFb
      PROVE  TopicOf(i, id) \in Topic
  <2>1. interface[i] \in InterfaceRecord
    BY <1>1 DEF TypeOK
  <2>2. interface[i].parent \in Capture /\ interface[i].interfaceId \in InterfaceIds
    BY <2>1 DEF InterfaceRecord
  <2>3. capture[interface[i].parent] \in CaptureRecord
    BY <1>1, <2>2 DEF TypeOK, TreeOK
  <2>4. capture[interface[i].parent].deviceId \in DeviceIds
    BY <2>3 DEF CaptureRecord
  <2> QED BY <2>2, <2>4 DEF TopicOf, Topic
<1>2. ASSUME NEW s \in Stream, stream[s] # NoFb
      PROVE  Endpoint(s) \in Topic
  <2>1. stream[s] \in StreamRecord
    BY <1>2 DEF TypeOK
  <2>2. stream[s].parent \in Interface /\ stream[s].streamId \in StreamIds
    BY <2>1 DEF StreamRecord
  <2>3. interface[stream[s].parent] # NoFb
    BY <1>2 DEF TreeOK
  <2> QED BY <1>1, <2>2, <2>3 DEF Endpoint
<1> QED BY <1>1, <1>2

\* The fields of the blocks that exist.
LEMMA FieldTypes ==
  ASSUME TypeOK
  PROVE  /\ \A c \in Capture : capture[c] # NoFb =>
              /\ capture[c] \in CaptureRecord
              /\ capture[c].deviceId \in DeviceIds /\ capture[c].pending \in DeviceIds
              /\ capture[c].ids \in IdPools(MaxInterfaceId)
         /\ \A i \in Interface : interface[i] # NoFb =>
              /\ interface[i] \in InterfaceRecord
              /\ interface[i].parent \in Capture
              /\ interface[i].interfaceId \in InterfaceIds
              /\ interface[i].pending \in InterfaceIds
              /\ interface[i].ids \in IdPools(MaxStreamId)
         /\ \A s \in Stream : stream[s] # NoFb =>
              /\ stream[s] \in StreamRecord
              /\ stream[s].parent \in Interface
              /\ stream[s].streamId \in StreamIds
BY DEF TypeOK, CaptureRecord, InterfaceRecord, StreamRecord

\* Giving one block another record, or removing it.
LEMMA PutCapture ==
  ASSUME TypeOK, NEW c \in Capture, NEW r \in CaptureRecord, capture' = [capture EXCEPT ![c] = r]
  PROVE  /\ capture' \in [Capture -> CaptureRecord \cup {NoFb}]
         /\ \A x \in Capture : capture[x] # NoFb => capture'[x] # NoFb
         /\ \A x \in Capture : x # c => capture'[x] = capture[x]
         /\ capture'[c] = r /\ r # NoFb
BY DataSinkAssumption DEF TypeOK

LEMMA PutInterface ==
  ASSUME TypeOK, NEW i \in Interface, NEW r \in InterfaceRecord,
         interface' = [interface EXCEPT ![i] = r]
  PROVE  /\ interface' \in [Interface -> InterfaceRecord \cup {NoFb}]
         /\ \A x \in Interface : interface[x] # NoFb => interface'[x] # NoFb
         /\ \A x \in Interface : x # i => interface'[x] = interface[x]
         /\ interface'[i] = r /\ r # NoFb
BY DataSinkAssumption DEF TypeOK

LEMMA PutStream ==
  ASSUME TypeOK, NEW s \in Stream, NEW r \in StreamRecord, stream' = [stream EXCEPT ![s] = r]
  PROVE  /\ stream' \in [Stream -> StreamRecord \cup {NoFb}]
         /\ \A x \in Stream : stream[x] # NoFb => stream'[x] # NoFb
         /\ \A x \in Stream : x # s => stream'[x] = stream[x]
         /\ stream'[s] = r /\ r # NoFb
BY DataSinkAssumption DEF TypeOK

\* Changing the id pool of a Capture or an Interface block.
LEMMA PutCaptureIds ==
  ASSUME TypeOK, NEW c \in Capture, capture[c] # NoFb, NEW ids \in IdPools(MaxInterfaceId),
         capture' = [capture EXCEPT ![c].ids = ids]
  PROVE  /\ capture' \in [Capture -> CaptureRecord \cup {NoFb}]
         /\ \A x \in Capture : capture[x] # NoFb =>
              capture'[x] # NoFb /\ capture'[x].deviceId = capture[x].deviceId
         /\ \A x \in Capture : x # c => capture'[x] = capture[x]
<1> DEFINE r == [capture[c] EXCEPT !.ids = ids]
<1>1. r \in CaptureRecord /\ r.deviceId = capture[c].deviceId
  BY FieldTypes DEF CaptureRecord
<1>2. capture' = [capture EXCEPT ![c] = r]
  OBVIOUS
<1> HIDE DEF r
<1> QED BY <1>1, <1>2, PutCapture

LEMMA PutInterfaceIds ==
  ASSUME TypeOK, NEW i \in Interface, interface[i] # NoFb, NEW ids \in IdPools(MaxStreamId),
         interface' = [interface EXCEPT ![i].ids = ids]
  PROVE  /\ interface' \in [Interface -> InterfaceRecord \cup {NoFb}]
         /\ \A x \in Interface : interface[x] # NoFb =>
              /\ interface'[x] # NoFb
              /\ interface'[x].parent = interface[x].parent
              /\ interface'[x].interfaceId = interface[x].interfaceId
         /\ \A x \in Interface : x # i => interface'[x] = interface[x]
<1> DEFINE r == [interface[i] EXCEPT !.ids = ids]
<1>1. r \in InterfaceRecord /\ r.parent = interface[i].parent /\ r.interfaceId = interface[i].interfaceId
  BY FieldTypes DEF InterfaceRecord
<1>2. interface' = [interface EXCEPT ![i] = r]
  OBVIOUS
<1> HIDE DEF r
<1> QED BY <1>1, <1>2, PutInterface

-----------------------------------------------------------------------------
(* Every step preserves TreeInv: the operations on Capture blocks.         *)

LEMMA AddCaptureModuleEmptyTree ==
  ASSUME TreeInv, NEW c \in Capture, AddCaptureModuleEmpty(c)
  PROVE  TreeInv'
<1> USE DEF TreeInv, AddCaptureModuleEmpty, history
<1>1. NewCapture(0) \in CaptureRecord
  BY RecordTypes, DataSinkAssumption
<1>2. /\ capture' \in [Capture -> CaptureRecord \cup {NoFb}]
      /\ \A x \in Capture : capture[x] # NoFb => capture'[x] # NoFb
  BY <1>1, PutCapture
<1>3. TypeOK'
  BY <1>2, SubscribeType, DataSinkAssumption DEF TypeOK
<1>4. TreeOK' /\ BlockOK'
  BY <1>2 DEF TypeOK, InterfaceRecord, TreeOK, BlockOK
<1>5. StaleOK'
  BY DEF StaleOK, NoStale, StreamsUnder, StreamsOf
<1> QED BY <1>3, <1>4, <1>5

LEMMA AddCaptureModuleFromStatusTree ==
  ASSUME TreeInv, NEW c \in Capture, NEW deviceId \in DeviceIds,
         AddCaptureModuleFromStatus(c, deviceId)
  PROVE  TreeInv'
<1> USE DEF TreeInv, AddCaptureModuleFromStatus, Idle, Goto
<1>1. NewCapture(deviceId) \in CaptureRecord
  BY RecordTypes
<1>2. /\ capture' \in [Capture -> CaptureRecord \cup {NoFb}]
      /\ \A x \in Capture : capture[x] # NoFb => capture'[x] # NoFb
      /\ capture'[c] # NoFb
  BY <1>1, PutCapture
<1>3. capturePublisher' \in [Capture -> [DeviceIds -> Nat]]
  BY UnsubscribeType, DataSinkAssumption DEF TypeOK
<1>4. TypeOK'
  BY <1>2, <1>3 DEF TypeOK, Labels
<1>5. TreeOK' /\ BlockOK'
  BY <1>2 DEF TypeOK, InterfaceRecord, TreeOK, BlockOK
<1>6. StaleOK'
  BY DEF StaleOK, NoStale
<1> QED BY <1>4, <1>5, <1>6

LEMMA FromStatusSubscribeTree ==
  ASSUME TreeInv, FromStatusSubscribe
  PROVE  TreeInv'
<1> USE DEF TreeInv, FromStatusSubscribe, Goto, history
<1>1. fb \in Capture /\ capture[fb].deviceId \in DeviceIds
  BY FieldTypes DEF BlockOK
<1>2. TypeOK'
  BY <1>1, SubscribeType DEF TypeOK, Labels
<1>3. TreeOK' /\ BlockOK' /\ StaleOK'
  BY DEF TreeOK, BlockOK, StaleOK, NoStale
<1> QED BY <1>2, <1>3

LEMMA FromStatusDoneTree ==
  ASSUME TreeInv, FromStatusDone
  PROVE  TreeInv'
BY DEF TreeInv, FromStatusDone, Return, tables, history, TypeOK, Labels, TreeOK, BlockOK, StaleOK,
       NoStale

LEMMA RemoveCaptureModuleTree ==
  ASSUME TreeInv, NEW c \in Capture, RemoveCaptureModule(c)
  PROVE  TreeInv'
<1> USE DEF TreeInv, RemoveCaptureModule, Idle, Goto, history
<1>1. capturePublisher' \in [Capture -> [DeviceIds -> Nat]]
  BY FieldTypes, UnsubscribeType DEF TypeOK
<1>2. stale' \in [Stream -> Topic \cup {NoFb}]
  BY TopicType DEF StaleAt, StreamsUnder
<1>3. TypeOK'
  BY <1>1, <1>2 DEF TypeOK, Labels
<1>4. TreeOK' /\ BlockOK' /\ StaleOK'
  BY DEF TreeOK, BlockOK, StaleOK, NoStale, StaleAt, StreamsUnder
<1> QED BY <1>3, <1>4

LEMMA RemoveCaptureFinishTree ==
  ASSUME TreeInv, RemoveCaptureFinish
  PROVE  TreeInv'
<1> USE DEF TreeInv, RemoveCaptureFinish, Return, tables, history
<1>1. TypeOK'
  BY DEF TypeOK, Labels
<1>2. TreeOK'
  BY DEF TypeOK, TreeOK, StreamsUnder, InterfacesOf, InterfaceRecord, StreamRecord
<1>3. BlockOK' /\ StaleOK'
  BY DEF BlockOK, StaleOK, NoStale
<1> QED BY <1>1, <1>2, <1>3

LEMMA UpdateDeviceIdTree ==
  ASSUME TreeInv, NEW c \in Capture, NEW deviceId \in DeviceIds, Idle, capture[c] # NoFb,
         UpdateDeviceId(c, deviceId)
  PROVE  /\ TreeInv'
         /\ \A x \in Capture : x # c => capture'[x] = capture[x]
         /\ capture'[c].deviceId = deviceId
<1> USE DEF TreeInv, UpdateDeviceId, Idle, Goto, history
<1> DEFINE r == [capture[c] EXCEPT !.deviceId = deviceId, !.updating = FALSE, !.pending = 0]
<1>1. r \in CaptureRecord /\ r.deviceId = deviceId
  BY FieldTypes, DataSinkAssumption DEF CaptureRecord
<1>2. capture' = [capture EXCEPT ![c] = r]
  OBVIOUS
<1>3. /\ capture' \in [Capture -> CaptureRecord \cup {NoFb}]
      /\ \A x \in Capture : capture[x] # NoFb => capture'[x] # NoFb
      /\ \A x \in Capture : x # c => capture'[x] = capture[x]
      /\ capture'[c] = r /\ r # NoFb
  <2> HIDE DEF r
  <2> QED BY <1>1, <1>2, PutCapture
<1> HIDE DEF r
<1>4. capturePublisher' \in [Capture -> [DeviceIds -> Nat]]
  BY FieldTypes, UnsubscribeType DEF TypeOK
<1>5. stale' \in [Stream -> Topic \cup {NoFb}]
  BY TopicType DEF StaleAt, StreamsUnder
<1>6. TypeOK'
  BY <1>3, <1>4, <1>5 DEF TypeOK, Labels
<1>7. TreeOK' /\ BlockOK'
  BY <1>3 DEF TypeOK, InterfaceRecord, TreeOK, BlockOK
<1>8. StaleOK'
  BY DEF StaleOK, NoStale, StaleAt, StreamsUnder
<1> QED BY <1>1, <1>3, <1>6, <1>7, <1>8

LEMMA CaptureMoveSubscribeTree ==
  ASSUME TreeInv, CaptureMoveSubscribe
  PROVE  TreeInv'
<1> USE DEF TreeInv, CaptureMoveSubscribe, Goto, Return, history
<1>1. fb \in Capture /\ capture[fb].deviceId \in DeviceIds
  BY FieldTypes DEF BlockOK
<1>2. TypeOK'
  BY <1>1, SubscribeType DEF TypeOK, Labels
<1>3. TreeOK' /\ BlockOK' /\ StaleOK'
  BY DEF TreeOK, BlockOK, StaleOK, NoStale
<1> QED BY <1>2, <1>3

\* An update that changes no id: what beginUpdate, a write during the update and
\* an endUpdate without a new id leave.
LEMMA PutCaptureUpdate ==
  ASSUME TreeInv, Idle, NEW c \in Capture, capture[c] # NoFb, NEW updating \in BOOLEAN,
         NEW pending \in DeviceIds,
         capture' = [capture EXCEPT ![c].updating = updating, ![c].pending = pending],
         UNCHANGED <<interface, stream, tables, pc, fb, stale, moving, history>>
  PROVE  /\ TreeInv'
         /\ \A x \in Capture : capture[x] # NoFb =>
              capture'[x] # NoFb /\ capture'[x].deviceId = capture[x].deviceId
<1> USE DEF TreeInv, tables, history
<1> DEFINE r == [capture[c] EXCEPT !.updating = updating, !.pending = pending]
<1>1. r \in CaptureRecord /\ r.deviceId = capture[c].deviceId
  BY FieldTypes DEF CaptureRecord
<1>2. capture' = [capture EXCEPT ![c] = r]
  OBVIOUS
<1>3. /\ capture' \in [Capture -> CaptureRecord \cup {NoFb}]
      /\ \A x \in Capture : capture[x] # NoFb => capture'[x] # NoFb
      /\ \A x \in Capture : x # c => capture'[x] = capture[x]
      /\ capture'[c] = r /\ r # NoFb
  <2> HIDE DEF r
  <2> QED BY <1>1, <1>2, PutCapture
<1> HIDE DEF r
<1>4. TypeOK'
  BY <1>3 DEF TypeOK
<1>5. TreeOK' /\ BlockOK'
  BY <1>3 DEF TypeOK, InterfaceRecord, TreeOK, BlockOK
<1>6. StaleOK'
  BY DEF StaleOK, NoStale, Idle
<1> QED BY <1>1, <1>3, <1>4, <1>5, <1>6

LEMMA CaptureUpdateTree ==
  ASSUME TreeInv, NEW c \in Capture,
         \/ BeginUpdateCapture(c)
         \/ \E deviceId \in DeviceIds : SetDeviceIdUpdating(c, deviceId)
         \/ capture[c].pending = capture[c].deviceId /\ EndUpdateCapture(c)
  PROVE  /\ TreeInv'
         /\ \A x \in Capture : capture[x] # NoFb =>
              capture'[x] # NoFb /\ capture'[x].deviceId = capture[x].deviceId
<1>1. capture[c] # NoFb /\ capture[c] \in CaptureRecord
  BY FieldTypes DEF TreeInv, BeginUpdateCapture, SetDeviceIdUpdating, EndUpdateCapture
<1>2. PICK updating \in BOOLEAN, pending \in DeviceIds :
        capture' = [capture EXCEPT ![c].updating = updating, ![c].pending = pending]
  <2>1. CASE BeginUpdateCapture(c)
    BY <1>1, <2>1 DEF BeginUpdateCapture, CaptureRecord
  <2>2. CASE \E deviceId \in DeviceIds : SetDeviceIdUpdating(c, deviceId)
    <3>1. PICK deviceId \in DeviceIds : SetDeviceIdUpdating(c, deviceId)
      BY <2>2
    <3>2. capture' = [capture EXCEPT ![c].updating = TRUE, ![c].pending = deviceId]
      BY <1>1, <3>1 DEF SetDeviceIdUpdating, CaptureRecord, TreeInv, TypeOK
    <3> QED BY <3>2
  <2>3. CASE capture[c].pending = capture[c].deviceId /\ EndUpdateCapture(c)
    BY <1>1, <2>3, DataSinkAssumption DEF EndUpdateCapture
  <2> QED BY <2>1, <2>2, <2>3
<1>3. Idle /\ UNCHANGED <<interface, stream, tables, pc, fb, stale, moving, history>>
  BY DEF BeginUpdateCapture, SetDeviceIdUpdating, EndUpdateCapture
<1> QED BY <1>1, <1>2, <1>3, PutCaptureUpdate

-----------------------------------------------------------------------------
(* Every step preserves TreeInv: the operations on Interface blocks.       *)

\* What CreateInterface leaves: the ids of the blocks that existed do not change.
LEMMA CreateInterfaceTypes ==
  ASSUME TypeOK, NEW c \in Capture, NEW i \in Interface, NEW id \in InterfaceIds,
         capture[c] # NoFb, CreateInterface(c, i, id)
  PROVE  /\ capture' \in [Capture -> CaptureRecord \cup {NoFb}]
         /\ \A x \in Capture : capture[x] # NoFb =>
              capture'[x] # NoFb /\ capture'[x].deviceId = capture[x].deviceId
         /\ interface' \in [Interface -> InterfaceRecord \cup {NoFb}]
         /\ \A x \in Interface : interface[x] # NoFb => interface'[x] = interface[x]
         /\ \A x \in Interface : x # i => interface'[x] = interface[x]
         /\ interface'[i] # NoFb /\ interface'[i].parent = c /\ interface'[i].interfaceId = id
         /\ duplicateIds' \in BOOLEAN
<1> USE DEF CreateInterface
<1> DEFINE newIds == AddId(capture[c].ids, id, MaxInterfaceId)
<1>1. newIds \in IdPools(MaxInterfaceId)
  BY FieldTypes, IdPoolType, DataSinkAssumption DEF InterfaceIds
<1>2. capture' = [capture EXCEPT ![c].ids = newIds]
  OBVIOUS
<1>3. /\ capture' \in [Capture -> CaptureRecord \cup {NoFb}]
      /\ \A x \in Capture : capture[x] # NoFb =>
           capture'[x] # NoFb /\ capture'[x].deviceId = capture[x].deviceId
  <2> HIDE DEF newIds
  <2> QED BY <1>1, <1>2, PutCaptureIds
<1>4. NewInterface(c, id) \in InterfaceRecord
  BY RecordTypes
<1>5. /\ interface' \in [Interface -> InterfaceRecord \cup {NoFb}]
      /\ \A x \in Interface : x # i => interface'[x] = interface[x]
      /\ interface'[i] = NewInterface(c, id) /\ interface'[i] # NoFb
  BY <1>4, PutInterface
<1>6. interface'[i].parent = c /\ interface'[i].interfaceId = id
  BY <1>5 DEF NewInterface
<1> QED BY <1>3, <1>5, <1>6 DEF TypeOK

LEMMA AddInterfaceTree ==
  ASSUME TreeInv, NEW c \in Capture, NEW i \in Interface, AddInterface(c, i)
  PROVE  /\ TreeInv'
         /\ \A x \in Capture : capture[x] # NoFb =>
              capture'[x] # NoFb /\ capture'[x].deviceId = capture[x].deviceId
         /\ \A x \in Interface : interface[x] # NoFb => interface'[x] = interface[x]
<1> USE DEF TreeInv, AddInterface, tables
<1>1. PICK id \in InterfaceIds : CreateInterface(c, i, id)
  BY FieldTypes, FirstUnusedType, DataSinkAssumption DEF InterfaceIds
<1>2. /\ capture' \in [Capture -> CaptureRecord \cup {NoFb}]
      /\ \A x \in Capture : capture[x] # NoFb =>
           capture'[x] # NoFb /\ capture'[x].deviceId = capture[x].deviceId
      /\ interface' \in [Interface -> InterfaceRecord \cup {NoFb}]
      /\ \A x \in Interface : interface[x] # NoFb => interface'[x] = interface[x]
      /\ \A x \in Interface : x # i => interface'[x] = interface[x]
      /\ interface'[i] # NoFb /\ interface'[i].parent = c
      /\ duplicateIds' \in BOOLEAN
  BY <1>1, CreateInterfaceTypes
<1>3. TypeOK'
  BY <1>2 DEF TypeOK
<1>4. TreeOK' /\ BlockOK'
  BY <1>2, FieldTypes DEF TreeOK, BlockOK
<1>5. StaleOK'
  BY <1>2 DEF StaleOK, NoStale, Idle
<1> QED BY <1>2, <1>3, <1>4, <1>5

LEMMA FromStatusInterfaceTree ==
  ASSUME TreeInv, NEW i \in Interface, NEW id \in InterfaceIds, FromStatusInterface(i, id)
  PROVE  /\ TreeInv'
         /\ \A x \in Capture : capture[x] # NoFb =>
              capture'[x] # NoFb /\ capture'[x].deviceId = capture[x].deviceId
         /\ \A x \in Interface : interface[x] # NoFb => interface'[x] = interface[x]
<1> USE DEF TreeInv, FromStatusInterface, tables
<1>1. fb \in Capture /\ capture[fb] # NoFb
  BY DEF BlockOK
<1>2. /\ capture' \in [Capture -> CaptureRecord \cup {NoFb}]
      /\ \A x \in Capture : capture[x] # NoFb =>
           capture'[x] # NoFb /\ capture'[x].deviceId = capture[x].deviceId
      /\ interface' \in [Interface -> InterfaceRecord \cup {NoFb}]
      /\ \A x \in Interface : interface[x] # NoFb => interface'[x] = interface[x]
      /\ \A x \in Interface : x # i => interface'[x] = interface[x]
      /\ interface'[i] # NoFb /\ interface'[i].parent = fb
      /\ duplicateIds' \in BOOLEAN
  BY <1>1, CreateInterfaceTypes
<1>3. TypeOK'
  BY <1>2 DEF TypeOK
<1>4. TreeOK' /\ BlockOK'
  BY <1>1, <1>2, FieldTypes DEF TreeOK, BlockOK
<1>5. StaleOK'
  BY <1>2 DEF StaleOK, NoStale
<1> QED BY <1>2, <1>3, <1>4, <1>5

LEMMA RemoveInterfaceTree ==
  ASSUME TreeInv, NEW i \in Interface, RemoveInterface(i)
  PROVE  TreeInv'
<1> USE DEF TreeInv, RemoveInterface, Idle, Goto, tables, history
<1>1. stale' \in [Stream -> Topic \cup {NoFb}]
  BY TopicType DEF StaleAt, StreamsOf
<1>2. TypeOK'
  BY <1>1 DEF TypeOK, Labels
<1>3. TreeOK' /\ BlockOK' /\ StaleOK'
  BY DEF TreeOK, BlockOK, StaleOK, NoStale, StaleAt, StreamsOf
<1> QED BY <1>2, <1>3

LEMMA RemoveInterfaceFinishTree ==
  ASSUME TreeInv, RemoveInterfaceFinish
  PROVE  /\ TreeInv'
         /\ \A x \in Capture : capture[x] # NoFb =>
              capture'[x] # NoFb /\ capture'[x].deviceId = capture[x].deviceId
<1> USE DEF TreeInv, RemoveInterfaceFinish, Return, tables, history
<1> DEFINE c == interface[fb].parent
           newIds == RemoveId(capture[c].ids, interface[fb].interfaceId)
<1>1. fb \in Interface /\ interface[fb] # NoFb
  BY DEF BlockOK
<1>2. c \in Capture /\ capture[c] # NoFb
  BY <1>1, FieldTypes DEF TreeOK
<1>3. newIds \in IdPools(MaxInterfaceId)
  BY <1>1, <1>2, FieldTypes, IdPoolType, DataSinkAssumption DEF InterfaceIds
<1>4. capture' = [capture EXCEPT ![c].ids = newIds]
  OBVIOUS
<1>5. /\ capture' \in [Capture -> CaptureRecord \cup {NoFb}]
      /\ \A x \in Capture : capture[x] # NoFb =>
           capture'[x] # NoFb /\ capture'[x].deviceId = capture[x].deviceId
  <2> HIDE DEF newIds, c
  <2> QED BY <1>2, <1>3, <1>4, PutCaptureIds
<1>6. TypeOK'
  BY <1>5 DEF TypeOK, Labels
<1>7. TreeOK'
  BY <1>5, FieldTypes DEF TypeOK, TreeOK, StreamsOf
<1>8. BlockOK' /\ StaleOK'
  BY DEF BlockOK, StaleOK, NoStale
<1> QED BY <1>5, <1>6, <1>7, <1>8

LEMMA RemoveInterfaceThrowTree ==
  ASSUME TreeInv, RemoveInterfaceThrow
  PROVE  TreeInv'
BY DEF TreeInv, RemoveInterfaceThrow, Return, tables, history, TypeOK, Labels, TreeOK, BlockOK,
       StaleOK, NoStale

LEMMA UpdateInterfaceIdTree ==
  ASSUME TreeInv, NEW i \in Interface, NEW id \in InterfaceIds, Idle, interface[i] # NoFb,
         UpdateInterfaceId(i, id)
  PROVE  /\ TreeInv'
         /\ \A x \in Capture : capture[x] # NoFb =>
              capture'[x] # NoFb /\ capture'[x].deviceId = capture[x].deviceId
         /\ \A x \in Interface : x # i => interface'[x] = interface[x]
         /\ interface'[i] # NoFb /\ interface'[i].parent = interface[i].parent
         /\ interface'[i].interfaceId = id
<1> USE DEF TreeInv, UpdateInterfaceId, Idle
<1> DEFINE c == interface[i].parent
           newIds == AddId(RemoveId(capture[c].ids, interface[i].interfaceId), id, MaxInterfaceId)
           r == [interface[i] EXCEPT !.interfaceId = id, !.updating = FALSE, !.pending = 0]
<1>1. c \in Capture /\ capture[c] # NoFb
  BY FieldTypes DEF TreeOK
<1>2. newIds \in IdPools(MaxInterfaceId)
  BY <1>1, FieldTypes, IdPoolType, DataSinkAssumption DEF InterfaceIds
<1>3. capture' = [capture EXCEPT ![c].ids = newIds]
  OBVIOUS
<1>4. /\ capture' \in [Capture -> CaptureRecord \cup {NoFb}]
      /\ \A x \in Capture : capture[x] # NoFb =>
           capture'[x] # NoFb /\ capture'[x].deviceId = capture[x].deviceId
  <2> HIDE DEF newIds, c
  <2> QED BY <1>1, <1>2, <1>3, PutCaptureIds
<1>5. r \in InterfaceRecord /\ r.parent = c /\ r.interfaceId = id
  <2>1. 0 \in InterfaceIds
    BY DataSinkAssumption DEF InterfaceIds
  <2>2. interface[i] \in InterfaceRecord
    BY FieldTypes
  <2> QED BY <2>1, <2>2 DEF InterfaceRecord
<1>6. interface' = [interface EXCEPT ![i] = r]
  OBVIOUS
<1>7. /\ interface' \in [Interface -> InterfaceRecord \cup {NoFb}]
      /\ \A x \in Interface : interface[x] # NoFb => interface'[x] # NoFb
      /\ \A x \in Interface : x # i => interface'[x] = interface[x]
      /\ interface'[i] = r /\ r # NoFb
  <2> HIDE DEF r
  <2> QED BY <1>5, <1>6, PutInterface
<1> HIDE DEF r
<1>8. stale' \in [Stream -> Topic \cup {NoFb}]
  BY TopicType DEF StaleAt, StreamsOf
<1>9. duplicateIds' \in BOOLEAN /\ pc' \in Labels /\ fb' \in Interface \cup {NoFb}
  BY DEF Return, Goto, Labels, TypeOK
<1>10. TypeOK'
  BY <1>4, <1>7, <1>8, <1>9 DEF TypeOK, tables
<1>11. TreeOK' /\ BlockOK'
  BY <1>1, <1>4, <1>5, <1>7, FieldTypes DEF TypeOK, TreeOK, BlockOK, Return, Goto
<1>12. StaleOK'
  BY DEF StaleOK, NoStale, StaleAt, StreamsOf, Return, Goto
<1> QED BY <1>4, <1>5, <1>7, <1>10, <1>11, <1>12

\* As for Capture blocks: the steps of an update that change no id.
LEMMA PutInterfaceUpdate ==
  ASSUME TreeInv, Idle, NEW i \in Interface, interface[i] # NoFb, NEW updating \in BOOLEAN,
         NEW pending \in InterfaceIds,
         interface' = [interface EXCEPT ![i].updating = updating, ![i].pending = pending],
         UNCHANGED <<capture, stream, tables, pc, fb, stale, moving, history>>
  PROVE  /\ TreeInv'
         /\ \A x \in Interface : interface[x] # NoFb =>
              /\ interface'[x] # NoFb
              /\ interface'[x].parent = interface[x].parent
              /\ interface'[x].interfaceId = interface[x].interfaceId
<1> USE DEF TreeInv, tables, history
<1> DEFINE r == [interface[i] EXCEPT !.updating = updating, !.pending = pending]
<1>1. /\ r \in InterfaceRecord
      /\ r.parent = interface[i].parent /\ r.interfaceId = interface[i].interfaceId
  BY FieldTypes DEF InterfaceRecord
<1>2. interface' = [interface EXCEPT ![i] = r]
  OBVIOUS
<1>3. /\ interface' \in [Interface -> InterfaceRecord \cup {NoFb}]
      /\ \A x \in Interface : interface[x] # NoFb => interface'[x] # NoFb
      /\ \A x \in Interface : x # i => interface'[x] = interface[x]
      /\ interface'[i] = r /\ r # NoFb
  <2> HIDE DEF r
  <2> QED BY <1>1, <1>2, PutInterface
<1> HIDE DEF r
<1>4. TypeOK'
  BY <1>3 DEF TypeOK
<1>5. TreeOK' /\ BlockOK'
  BY <1>1, <1>3, FieldTypes DEF TypeOK, TreeOK, BlockOK, Idle
<1>6. StaleOK'
  BY DEF StaleOK, NoStale, Idle
<1> QED BY <1>1, <1>3, <1>4, <1>5, <1>6

LEMMA InterfaceUpdateTree ==
  ASSUME TreeInv, NEW i \in Interface,
         \/ BeginUpdateInterface(i)
         \/ \E id \in InterfaceIds : SetInterfaceIdUpdating(i, id)
         \/ interface[i].pending = interface[i].interfaceId /\ EndUpdateInterface(i)
  PROVE  /\ TreeInv'
         /\ \A x \in Interface : interface[x] # NoFb =>
              /\ interface'[x] # NoFb
              /\ interface'[x].parent = interface[x].parent
              /\ interface'[x].interfaceId = interface[x].interfaceId
<1>1. interface[i] # NoFb /\ interface[i] \in InterfaceRecord
  BY FieldTypes DEF TreeInv, BeginUpdateInterface, SetInterfaceIdUpdating, EndUpdateInterface
<1>2. PICK updating \in BOOLEAN, pending \in InterfaceIds :
        interface' = [interface EXCEPT ![i].updating = updating, ![i].pending = pending]
  <2>1. CASE BeginUpdateInterface(i)
    BY <1>1, <2>1 DEF BeginUpdateInterface, InterfaceRecord
  <2>2. CASE \E id \in InterfaceIds : SetInterfaceIdUpdating(i, id)
    <3>1. PICK id \in InterfaceIds : SetInterfaceIdUpdating(i, id)
      BY <2>2
    <3>2. interface' = [interface EXCEPT ![i].updating = TRUE, ![i].pending = id]
      BY <1>1, <3>1 DEF SetInterfaceIdUpdating, InterfaceRecord, TreeInv, TypeOK
    <3> QED BY <3>2
  <2>3. CASE interface[i].pending = interface[i].interfaceId /\ EndUpdateInterface(i)
    <3>1. 0 \in InterfaceIds
      BY DataSinkAssumption DEF InterfaceIds
    <3>2. interface' = [interface EXCEPT ![i].updating = FALSE, ![i].pending = 0]
      BY <2>3 DEF EndUpdateInterface
    <3> QED BY <3>1, <3>2
  <2> QED BY <2>1, <2>2, <2>3
<1>3. Idle /\ UNCHANGED <<capture, stream, tables, pc, fb, stale, moving, history>>
  BY DEF BeginUpdateInterface, SetInterfaceIdUpdating, EndUpdateInterface
<1> QED BY <1>1, <1>2, <1>3, PutInterfaceUpdate

-----------------------------------------------------------------------------
(* Every step preserves TreeInv: the operations on Stream blocks.          *)

LEMMA CreateStreamTypes ==
  ASSUME TypeOK, TreeOK, NEW i \in Interface, NEW s \in Stream, NEW id \in StreamIds,
         interface[i] # NoFb, CreateStream(i, s, id)
  PROVE  /\ interface' \in [Interface -> InterfaceRecord \cup {NoFb}]
         /\ \A x \in Interface : interface[x] # NoFb =>
              /\ interface'[x] # NoFb
              /\ interface'[x].parent = interface[x].parent
              /\ interface'[x].interfaceId = interface[x].interfaceId
         /\ \A x \in Interface : x # i => interface'[x] = interface[x]
         /\ stream' \in [Stream -> StreamRecord \cup {NoFb}]
         /\ \A x \in Stream : x # s => stream'[x] = stream[x]
         /\ stream'[s] # NoFb /\ stream'[s].parent = i /\ stream'[s].streamId = id
         /\ dataPublisher' \in [Stream -> [Topic -> Nat]]
         /\ duplicateIds' \in BOOLEAN
<1> USE DEF CreateStream
<1> DEFINE newIds == AddId(interface[i].ids, id, MaxStreamId)
<1>1. newIds \in IdPools(MaxStreamId)
  BY FieldTypes, IdPoolType, DataSinkAssumption DEF StreamIds
<1>2. interface' = [interface EXCEPT ![i].ids = newIds]
  OBVIOUS
<1>3. /\ interface' \in [Interface -> InterfaceRecord \cup {NoFb}]
      /\ \A x \in Interface : interface[x] # NoFb =>
           /\ interface'[x] # NoFb
           /\ interface'[x].parent = interface[x].parent
           /\ interface'[x].interfaceId = interface[x].interfaceId
      /\ \A x \in Interface : x # i => interface'[x] = interface[x]
  <2> HIDE DEF newIds
  <2> QED BY <1>1, <1>2, PutInterfaceIds
<1>4. NewStream(i, id) \in StreamRecord
  BY RecordTypes
<1>5. /\ stream' \in [Stream -> StreamRecord \cup {NoFb}]
      /\ \A x \in Stream : x # s => stream'[x] = stream[x]
      /\ stream'[s] = NewStream(i, id) /\ stream'[s] # NoFb
  BY <1>4, PutStream
<1>6. stream'[s].parent = i /\ stream'[s].streamId = id
  BY <1>5 DEF NewStream
<1>7. dataPublisher' \in [Stream -> [Topic -> Nat]]
  BY TopicType, SubscribeType DEF TypeOK
<1> QED BY <1>3, <1>5, <1>6, <1>7 DEF TypeOK

LEMMA AddStreamTree ==
  ASSUME TreeInv, NEW i \in Interface, NEW s \in Stream, AddStream(i, s)
  PROVE  /\ TreeInv'
         /\ \E id \in StreamIds : CreateStream(i, s, id)
<1> USE DEF TreeInv, AddStream
<1>1. PICK id \in StreamIds : CreateStream(i, s, id)
  BY FieldTypes, FirstUnusedType, DataSinkAssumption DEF StreamIds
<1>2. /\ interface' \in [Interface -> InterfaceRecord \cup {NoFb}]
      /\ \A x \in Interface : interface[x] # NoFb =>
           /\ interface'[x] # NoFb
           /\ interface'[x].parent = interface[x].parent
           /\ interface'[x].interfaceId = interface[x].interfaceId
      /\ \A x \in Interface : x # i => interface'[x] = interface[x]
      /\ stream' \in [Stream -> StreamRecord \cup {NoFb}]
      /\ \A x \in Stream : x # s => stream'[x] = stream[x]
      /\ stream'[s] # NoFb /\ stream'[s].parent = i
      /\ dataPublisher' \in [Stream -> [Topic -> Nat]]
      /\ duplicateIds' \in BOOLEAN
  BY <1>1, CreateStreamTypes
<1>3. TypeOK'
  BY <1>2 DEF TypeOK
<1>4. TreeOK'
  BY <1>2, FieldTypes DEF TreeOK
<1>5. BlockOK' /\ StaleOK'
  BY <1>2 DEF BlockOK, StaleOK, NoStale, Idle
<1> QED BY <1>1, <1>3, <1>4, <1>5

LEMMA FromStatusStreamTree ==
  ASSUME TreeInv, NEW i \in Interface, NEW s \in Stream, NEW id \in StreamIds,
         FromStatusStream(i, s, id)
  PROVE  TreeInv' /\ interface[i] # NoFb
<1> USE DEF TreeInv, FromStatusStream
<1>1. interface[i] # NoFb
  BY DEF InterfacesOf
<1>2. /\ interface' \in [Interface -> InterfaceRecord \cup {NoFb}]
      /\ \A x \in Interface : interface[x] # NoFb =>
           /\ interface'[x] # NoFb
           /\ interface'[x].parent = interface[x].parent
           /\ interface'[x].interfaceId = interface[x].interfaceId
      /\ \A x \in Interface : x # i => interface'[x] = interface[x]
      /\ stream' \in [Stream -> StreamRecord \cup {NoFb}]
      /\ \A x \in Stream : x # s => stream'[x] = stream[x]
      /\ stream'[s] # NoFb /\ stream'[s].parent = i
      /\ dataPublisher' \in [Stream -> [Topic -> Nat]]
      /\ duplicateIds' \in BOOLEAN
  BY <1>1, CreateStreamTypes
<1>3. TypeOK'
  BY <1>2 DEF TypeOK
<1>4. TreeOK'
  BY <1>1, <1>2, FieldTypes DEF TreeOK
<1>5. BlockOK' /\ StaleOK'
  BY <1>2 DEF BlockOK, StaleOK, NoStale
<1> QED BY <1>1, <1>3, <1>4, <1>5

LEMMA RemoveStreamTree ==
  ASSUME TreeInv, NEW s \in Stream, RemoveStream(s)
  PROVE  /\ TreeInv'
         /\ \A x \in Interface : interface[x] # NoFb =>
              /\ interface'[x] # NoFb
              /\ interface'[x].parent = interface[x].parent
              /\ interface'[x].interfaceId = interface[x].interfaceId
<1> USE DEF TreeInv, RemoveStream, Idle, Goto, tables, history
<1> DEFINE i == stream[s].parent
           newIds == RemoveId(interface[i].ids, stream[s].streamId)
<1>1. i \in Interface /\ interface[i] # NoFb
  BY FieldTypes DEF TreeOK
<1>2. newIds \in IdPools(MaxStreamId)
  BY <1>1, FieldTypes, IdPoolType, DataSinkAssumption DEF StreamIds
<1>3. interface' = [interface EXCEPT ![i].ids = newIds]
  OBVIOUS
<1>4. /\ interface' \in [Interface -> InterfaceRecord \cup {NoFb}]
      /\ \A x \in Interface : interface[x] # NoFb =>
           /\ interface'[x] # NoFb
           /\ interface'[x].parent = interface[x].parent
           /\ interface'[x].interfaceId = interface[x].interfaceId
  <2> HIDE DEF newIds, i
  <2> QED BY <1>1, <1>2, <1>3, PutInterfaceIds
<1>5. stale' \in [Stream -> Topic \cup {NoFb}] /\ stale'[s] # NoFb
  BY TopicType, DataSinkAssumption DEF StaleAt
<1>6. TypeOK'
  BY <1>4, <1>5 DEF TypeOK, Labels
<1>7. TreeOK'
  BY <1>4, FieldTypes DEF TypeOK, TreeOK
<1>8. BlockOK' /\ StaleOK'
  BY <1>5 DEF TypeOK, BlockOK, StaleOK, StaleAt, NoStale
<1> QED BY <1>4, <1>6, <1>7, <1>8

LEMMA RemoveStreamUnsubscribeTree ==
  ASSUME TreeInv, RemoveStreamUnsubscribe
  PROVE  TreeInv'
<1> USE DEF TreeInv, RemoveStreamUnsubscribe, Return, history
<1>1. fb \in Stream /\ stale[fb] \in Topic
  BY DEF BlockOK, TypeOK
<1>2. dataPublisher' \in [Stream -> [Topic -> Nat]]
  BY <1>1, UnsubscribeType DEF TypeOK
<1>3. TypeOK' /\ TreeOK' /\ BlockOK' /\ StaleOK'
  BY <1>2 DEF TypeOK, Labels, NoStale, TreeOK, BlockOK, StaleOK
<1> QED BY <1>3

LEMMA SetStreamIdTree ==
  ASSUME TreeInv, NEW s \in Stream, NEW id \in StreamIds, SetStreamId(s, id)
  PROVE  /\ TreeInv'
         /\ \A x \in Interface : interface[x] # NoFb =>
              /\ interface'[x] # NoFb
              /\ interface'[x].parent = interface[x].parent
              /\ interface'[x].interfaceId = interface[x].interfaceId
         /\ \A x \in Stream : x # s => stream'[x] = stream[x]
<1> USE DEF TreeInv, SetStreamId, Idle, Goto
<1> DEFINE i == stream[s].parent
           newIds == AddId(RemoveId(interface[i].ids, stream[s].streamId), id, MaxStreamId)
           r == [stream[s] EXCEPT !.streamId = id]
<1>1. i \in Interface /\ interface[i] # NoFb
  BY FieldTypes DEF TreeOK
<1>2. newIds \in IdPools(MaxStreamId)
  BY <1>1, FieldTypes, IdPoolType, DataSinkAssumption DEF StreamIds
<1>3. interface' = [interface EXCEPT ![i].ids = newIds]
  OBVIOUS
<1>4. /\ interface' \in [Interface -> InterfaceRecord \cup {NoFb}]
      /\ \A x \in Interface : interface[x] # NoFb =>
           /\ interface'[x] # NoFb
           /\ interface'[x].parent = interface[x].parent
           /\ interface'[x].interfaceId = interface[x].interfaceId
  <2> HIDE DEF newIds, i
  <2> QED BY <1>1, <1>2, <1>3, PutInterfaceIds
<1>5. r \in StreamRecord /\ r.parent = i
  BY FieldTypes DEF StreamRecord
<1>6. stream' = [stream EXCEPT ![s] = r]
  OBVIOUS
<1>7. /\ stream' \in [Stream -> StreamRecord \cup {NoFb}]
      /\ \A x \in Stream : stream[x] # NoFb => stream'[x] # NoFb
      /\ \A x \in Stream : x # s => stream'[x] = stream[x]
      /\ stream'[s] = r
  <2> HIDE DEF r
  <2> QED BY <1>5, <1>6, PutStream
<1> HIDE DEF r
<1>8. stale' \in [Stream -> Topic \cup {NoFb}]
  BY TopicType DEF StaleAt
<1>9. TypeOK'
  BY <1>4, <1>7, <1>8 DEF TypeOK, tables, Labels
<1>10. TreeOK'
  BY <1>1, <1>4, <1>5, <1>7, FieldTypes DEF TypeOK, TreeOK
<1>11. BlockOK' /\ StaleOK'
  BY <1>7 DEF BlockOK, StaleOK, StaleAt, NoStale
<1> QED BY <1>4, <1>7, <1>9, <1>10, <1>11

LEMMA UnsubscribeStaleTree ==
  ASSUME TreeInv, NEW s \in Stream, UnsubscribeStale(s)
  PROVE  TreeInv'
<1> USE DEF TreeInv, UnsubscribeStale, history
<1>1. dataPublisher' \in [Stream -> [Topic -> Nat]]
  BY UnsubscribeType DEF TypeOK
<1>2. TypeOK' /\ TreeOK' /\ BlockOK'
  BY <1>1 DEF TypeOK, TreeOK, BlockOK
<1>3. StaleOK'
  BY DEF TypeOK, StaleOK, StreamsUnder, StreamsOf
<1> QED BY <1>2, <1>3

LEMMA MoveUnsubscribeTree ==
  ASSUME TreeInv, NEW s \in Stream, MoveUnsubscribe(s)
  PROVE  TreeInv'
<1> USE DEF TreeInv, MoveUnsubscribe, history
<1>1. dataPublisher' \in [Stream -> [Topic -> Nat]]
  BY UnsubscribeType DEF TypeOK
<1>2. TypeOK' /\ TreeOK' /\ BlockOK'
  BY <1>1 DEF TypeOK, TreeOK, BlockOK
<1>3. StaleOK'
  BY DEF TypeOK, StaleOK
<1> QED BY <1>2, <1>3

LEMMA MoveSubscribeTree ==
  ASSUME TreeInv, MoveSubscribe
  PROVE  TreeInv'
<1> USE DEF TreeInv, MoveSubscribe, Return, history
<1>1. dataPublisher' \in [Stream -> [Topic -> Nat]]
  BY TopicType, SubscribeType DEF TypeOK, StaleOK
<1>2. TypeOK' /\ TreeOK' /\ BlockOK'
  BY <1>1 DEF TypeOK, Labels, TreeOK, BlockOK
<1>3. StaleOK'
  BY DEF StaleOK, NoStale
<1> QED BY <1>2, <1>3

-----------------------------------------------------------------------------
(* TreeInv is an invariant.                                                *)

LEMMA TreeInit == Init => TreeInv
<1> SUFFICES ASSUME Init
             PROVE  TreeInv
  OBVIOUS
<1>1. TypeOK
  BY DEF Init, TypeOK, EmptyTable, NoStale, Labels
<1>2. TreeOK /\ BlockOK /\ StaleOK
  BY DEF Init, TreeOK, BlockOK, StaleOK, NoStale
<1> QED BY <1>1, <1>2 DEF TreeInv

LEMMA TreeStep == TreeInv /\ [Next]_vars => TreeInv'
<1> SUFFICES ASSUME TreeInv, [Next]_vars
             PROVE  TreeInv'
  OBVIOUS
<1>1. CASE NextCapture
  <2>1. ASSUME NEW c \in Capture, AddCaptureModuleEmpty(c) PROVE TreeInv'
    BY <2>1, AddCaptureModuleEmptyTree
  <2>2. ASSUME NEW c \in Capture, RemoveCaptureModule(c) PROVE TreeInv'
    BY <2>2, RemoveCaptureModuleTree
  <2>3. ASSUME NEW c \in Capture, BeginUpdateCapture(c) PROVE TreeInv'
    BY <2>3, CaptureUpdateTree
  <2>4. ASSUME NEW c \in Capture, EndUpdateCapture(c) PROVE TreeInv'
    <3>1. Idle /\ capture[c] # NoFb /\ capture[c].pending \in DeviceIds
      BY <2>4, FieldTypes DEF EndUpdateCapture, TreeInv
    <3>2. CASE capture[c].pending = capture[c].deviceId
      BY <2>4, <3>2, CaptureUpdateTree
    <3>3. CASE capture[c].pending # capture[c].deviceId
      BY <2>4, <3>1, <3>3, UpdateDeviceIdTree DEF EndUpdateCapture
    <3> QED BY <3>2, <3>3
  <2>5. ASSUME NEW c \in Capture, NEW deviceId \in DeviceIds,
               AddCaptureModuleFromStatus(c, deviceId)
        PROVE  TreeInv'
    BY <2>5, AddCaptureModuleFromStatusTree
  <2>6. ASSUME NEW c \in Capture, NEW deviceId \in DeviceIds, SetDeviceId(c, deviceId)
        PROVE  TreeInv'
    BY <2>6, UpdateDeviceIdTree DEF SetDeviceId
  <2>7. ASSUME NEW c \in Capture, NEW deviceId \in DeviceIds, SetDeviceIdUpdating(c, deviceId)
        PROVE  TreeInv'
    BY <2>7, CaptureUpdateTree
  <2> QED BY <1>1, <2>1, <2>2, <2>3, <2>4, <2>5, <2>6, <2>7, FromStatusSubscribeTree,
             FromStatusDoneTree, RemoveCaptureFinishTree, CaptureMoveSubscribeTree
          DEF NextCapture
<1>2. CASE NextInterface
  <2>1. ASSUME NEW i \in Interface, EndUpdateInterface(i) PROVE TreeInv'
    <3>1. Idle /\ interface[i] # NoFb /\ interface[i].pending \in InterfaceIds
      BY <2>1, FieldTypes DEF EndUpdateInterface, TreeInv
    <3>2. CASE interface[i].pending = interface[i].interfaceId
      BY <2>1, <3>2, InterfaceUpdateTree
    <3>3. CASE interface[i].pending # interface[i].interfaceId
      BY <2>1, <3>1, <3>3, UpdateInterfaceIdTree DEF EndUpdateInterface
    <3> QED BY <3>2, <3>3
  <2>2. ASSUME NEW i \in Interface, NEW id \in InterfaceIds, SetInterfaceId(i, id) PROVE TreeInv'
    BY <2>2, UpdateInterfaceIdTree DEF SetInterfaceId
  <2>3. ASSUME NEW i \in Interface,
               BeginUpdateInterface(i) \/ \E id \in InterfaceIds : SetInterfaceIdUpdating(i, id)
        PROVE  TreeInv'
    BY <2>3, InterfaceUpdateTree
  <2> QED BY <1>2, <2>1, <2>2, <2>3, AddInterfaceTree, RemoveInterfaceTree,
             FromStatusInterfaceTree, RemoveInterfaceFinishTree, RemoveInterfaceThrowTree
          DEF NextInterface
<1>3. CASE NextStream
  BY <1>3, AddStreamTree, RemoveStreamTree, UnsubscribeStaleTree, MoveUnsubscribeTree,
     FromStatusStreamTree, SetStreamIdTree, RemoveStreamUnsubscribeTree, MoveSubscribeTree
     DEF NextStream
<1>4. CASE UNCHANGED vars
  BY <1>4 DEF vars, tables, history, TreeInv, TypeOK, TreeOK, BlockOK, StaleOK, NoStale,
              StreamsUnder, StreamsOf
<1> QED BY <1>1, <1>2, <1>3, <1>4 DEF Next

\* In every execution the tree is well formed (every block's parent exists), a
\* running operation's block exists until the operation removes it, and the
\* streams it still has to unsubscribe are those below that block.
THEOREM TreeInvariant == Spec => []TreeInv
<1> QED BY TreeInit, TreeStep, PTL DEF Spec

\* Every variable always has its type; no table counts an entry below zero.
THEOREM TypeCorrect == Spec => []TypeOK
<1>1. TreeInv => TypeOK
  BY DEF TreeInv
<1> QED BY <1>1, TreeInvariant, PTL

-----------------------------------------------------------------------------
(* The data publisher: what the invariant says of its entries.             *)

\* The stream s is in the tree and no removal of a block above it is under way.
Routed(s) ==
  /\ stream[s] # NoFb
  /\ ~(pc = "removeCapture" /\ s \in StreamsUnder(fb))
  /\ ~(pc = "removeInterface" /\ s \in StreamsOf(fb))

\* An entry is the only one of its stream, and either it is about to be removed
\* or it is where a routed stream belongs.
DataSound ==
  \A s \in Stream, topic \in Topic :
    dataPublisher[s][topic] > 0 =>
      /\ dataPublisher[s][topic] = 1
      /\ s # moving
      /\ stale[s] = topic \/ (stale[s] = NoFb /\ Routed(s) /\ topic = Endpoint(s))

\* An entry that is about to be removed is there, and so is the one of a routed
\* stream that no operation has unsubscribed.
DataComplete ==
  ~interruptedRemoval =>
    \A s \in Stream :
      /\ stale[s] # NoFb => dataPublisher[s][stale[s]] > 0
      /\ Routed(s) /\ stale[s] = NoFb /\ s # moving => dataPublisher[s][Endpoint(s)] > 0

DataInv == TreeInv /\ DataSound /\ DataComplete

\* What a step must keep of the streams in S.
Frame(S) ==
  /\ interruptedRemoval => interruptedRemoval'
  /\ \A s \in S : Routed(s) => Routed(s)' /\ Endpoint(s)' = Endpoint(s)
  /\ ~interruptedRemoval' => \A s \in S : Routed(s)' => Routed(s)

\* A step that leaves the table and the ids alone.
LEMMA KeepData ==
  ASSUME DataInv, Frame(Stream), UNCHANGED <<dataPublisher, stale, moving>>
  PROVE  DataSound' /\ DataComplete'
<1>1. DataSound'
  BY DEF DataInv, Frame, DataSound
<1>2. DataComplete'
  BY DEF DataInv, Frame, DataComplete
<1> QED BY <1>1, <1>2

\* A step that starts an operation, which is to unsubscribe the streams in S.
LEMMA MarkStale ==
  ASSUME DataInv, Idle, NEW S \in SUBSET Stream, \A s \in S : stream[s] # NoFb,
         Frame(Stream \ S), stale' = StaleAt(S), UNCHANGED <<dataPublisher, moving>>
  PROVE  DataSound' /\ DataComplete'
<1>1. moving = NoFb /\ \A s \in Stream : stale[s] = NoFb
  BY DEF DataInv, TreeInv, StaleOK, Idle, NoStale
<1>2. \A s \in Stream : Routed(s) <=> stream[s] # NoFb
  BY DEF Routed, Idle
<1>3. \A s \in S : Endpoint(s) \in Topic /\ Endpoint(s) # NoFb
  BY TopicType, DataSinkAssumption DEF DataInv, TreeInv
<1>4. \A s \in Stream : stale'[s] = IF s \in S THEN Endpoint(s) ELSE NoFb
  BY DEF StaleAt
<1>5. NoFb \notin Topic
  BY DataSinkAssumption
<1>6. DataSound'
  <2> SUFFICES ASSUME NEW s \in Stream, NEW topic \in Topic, dataPublisher[s][topic] > 0
               PROVE  /\ dataPublisher[s][topic] = 1
                      /\ s # moving
                      /\ \/ stale'[s] = topic
                         \/ stale'[s] = NoFb /\ Routed(s)' /\ topic = Endpoint(s)'
    BY DEF DataSound
  <2>1. dataPublisher[s][topic] = 1 /\ s # moving /\ Routed(s) /\ topic = Endpoint(s)
    BY <1>1, <1>5 DEF DataInv, DataSound
  <2> QED BY <2>1, <1>4 DEF Frame
<1>7. DataComplete'
  <2> SUFFICES ASSUME ~interruptedRemoval', NEW s \in Stream
               PROVE  /\ stale'[s] # NoFb => dataPublisher[s][stale'[s]] > 0
                      /\ Routed(s)' /\ stale'[s] = NoFb /\ s # moving =>
                           dataPublisher[s][Endpoint(s)'] > 0
    BY DEF DataComplete
  <2>1. Routed(s) => dataPublisher[s][Endpoint(s)] > 0
    BY <1>1, DataSinkAssumption DEF DataInv, DataComplete, Frame
  <2>2. CASE s \in S
    BY <2>1, <2>2, <1>2, <1>3, <1>4
  <2>3. CASE s \notin S
    BY <2>1, <2>3, <1>4 DEF Frame
  <2> QED BY <2>2, <2>3
<1> QED BY <1>6, <1>7

\* A step that unsubscribes the stream s.
LEMMA ReleaseStream ==
  ASSUME DataInv, NEW s \in Stream, stale[s] # NoFb, moving = NoFb,
         dataPublisher' \in Unsubscribe(dataPublisher, stale[s], s),
         stale' = [stale EXCEPT ![s] = NoFb],
         moving' \in {s, NoFb}, Routed(s)' => moving' = s, Frame(Stream \ {s})
  PROVE  DataSound' /\ DataComplete'
<1> DEFINE topic == stale[s]
<1>1. topic \in Topic /\ dataPublisher \in [Stream -> [Topic -> Nat]] /\ NoFb \notin Topic
  BY DataSinkAssumption DEF DataInv, TreeInv, TypeOK
<1>2. /\ dataPublisher' \in [Stream -> [Topic -> Nat]]
      /\ \A x \in Stream, t \in Topic : dataPublisher'[x][t] <= dataPublisher[x][t]
      /\ dataPublisher[s][topic] <= 1 => dataPublisher'[s][topic] = 0
  <2>1. dataPublisher' \in Unsubscribe(dataPublisher, topic, s)
    OBVIOUS
  <2> HIDE DEF topic
  <2>2. dataPublisher' \in [Stream -> [Topic -> Nat]]
    BY <1>1, <2>1, UnsubscribeType
  <2>3. \A x \in Stream, t \in Topic : dataPublisher'[x][t] <= dataPublisher[x][t]
    BY <1>1, <2>1, UnsubscribeType
  <2>4. dataPublisher[s][topic] <= 1 => dataPublisher'[s][topic] = 0
    <3>1. SUFFICES ASSUME dataPublisher[s][topic] <= 1
                   PROVE  dataPublisher'[s][topic] = 0
      OBVIOUS
    <3> QED BY <1>1, <2>1, <3>1, UnsubscribeGone
  <2> QED BY <2>2, <2>3, <2>4
<1>3. \A t \in Topic : dataPublisher[s][t] > 0 => t = topic /\ dataPublisher[s][t] = 1
  BY <1>1 DEF DataInv, DataSound
<1>4. \A t \in Topic : dataPublisher'[s][t] = 0
  <2> TAKE t \in Topic
  <2>1. dataPublisher[s][t] \in Nat /\ dataPublisher'[s][t] \in Nat
    BY <1>1, <1>2
  <2>2. CASE t = topic
    BY <2>1, <2>2, <1>2, <1>3
  <2>3. CASE t # topic
    BY <2>1, <2>3, <1>2, <1>3
  <2> QED BY <2>2, <2>3
<1>5. stale'[s] = NoFb /\ \A x \in Stream \ {s} : stale'[x] = stale[x]
  BY DEF DataInv, TreeInv, TypeOK
<1>6. DataSound'
  <2> SUFFICES ASSUME NEW x \in Stream, NEW t \in Topic, dataPublisher'[x][t] > 0
               PROVE  /\ dataPublisher'[x][t] = 1
                      /\ x # moving'
                      /\ \/ stale'[x] = t
                         \/ stale'[x] = NoFb /\ Routed(x)' /\ t = Endpoint(x)'
    BY DEF DataSound
  <2>1. x # s
    BY <1>4
  <2>2. dataPublisher[x][t] > 0 /\ dataPublisher[x][t] \in Nat /\ dataPublisher'[x][t] \in Nat
        /\ dataPublisher'[x][t] <= dataPublisher[x][t]
    BY <1>1, <1>2
  <2>3. /\ dataPublisher[x][t] = 1
        /\ stale[x] = t \/ (stale[x] = NoFb /\ Routed(x) /\ t = Endpoint(x))
    BY <2>2 DEF DataInv, DataSound
  <2>4. dataPublisher'[x][t] = 1
    BY <2>2, <2>3
  <2>5. x # moving'
    BY <2>1, DataSinkAssumption
  <2> QED BY <2>1, <2>3, <2>4, <2>5, <1>5 DEF Frame
<1>7. DataComplete'
  <2> SUFFICES ASSUME ~interruptedRemoval', NEW x \in Stream
               PROVE  /\ stale'[x] # NoFb => dataPublisher'[x][stale'[x]] > 0
                      /\ Routed(x)' /\ stale'[x] = NoFb /\ x # moving' =>
                           dataPublisher'[x][Endpoint(x)'] > 0
    BY DEF DataComplete
  <2>1. ~interruptedRemoval
    BY DEF Frame, DataInv, TreeInv, TypeOK
  <2>2. dataPublisher[s][topic] > 0
    BY <2>1 DEF DataInv, DataComplete
  <2>3. dataPublisher' = [dataPublisher EXCEPT ![s][topic] = @ - 1]
    BY <2>2, UnsubscribeHit
  <2>4. CASE x = s
    BY <2>4, <1>5
  <2>5. CASE x # s
    <3>1. dataPublisher'[x] = dataPublisher[x]
      BY <2>3, <2>5, <1>1
    <3>2. x # moving
      BY DataSinkAssumption
    <3>3. /\ stale[x] # NoFb => dataPublisher[x][stale[x]] > 0
          /\ Routed(x) /\ stale[x] = NoFb => dataPublisher[x][Endpoint(x)] > 0
      BY <2>1, <3>2 DEF DataInv, DataComplete
    <3> QED BY <2>5, <3>1, <3>3, <1>5 DEF Frame
  <2> QED BY <2>4, <2>5
<1> QED BY <1>6, <1>7

\* A step that subscribes the stream s, which has no entry.
LEMMA SubscribeStream ==
  ASSUME DataInv, NEW s \in Stream, NEW topic \in Topic, stale[s] = NoFb, moving \in {s, NoFb},
         s = moving \/ stream[s] = NoFb,
         dataPublisher' = Subscribe(dataPublisher, topic, s),
         stale' = stale, moving' = NoFb, Routed(s)', Endpoint(s)' = topic, Frame(Stream \ {s})
  PROVE  DataSound' /\ DataComplete'
<1>1. dataPublisher \in [Stream -> [Topic -> Nat]] /\ NoFb \notin Topic /\ NoFb \notin Stream
  BY DataSinkAssumption DEF DataInv, TreeInv, TypeOK
<1>2. \A t \in Topic : dataPublisher[s][t] = 0
  BY <1>1 DEF DataInv, DataSound, Routed
<1>3. /\ \A x \in Stream \ {s} : dataPublisher'[x] = dataPublisher[x]
      /\ \A t \in Topic : dataPublisher'[s][t] = IF t = topic THEN 1 ELSE 0
  BY <1>1, <1>2 DEF Subscribe
<1>4. DataSound'
  <2> SUFFICES ASSUME NEW x \in Stream, NEW t \in Topic, dataPublisher'[x][t] > 0
               PROVE  /\ dataPublisher'[x][t] = 1
                      /\ x # moving'
                      /\ \/ stale'[x] = t
                         \/ stale'[x] = NoFb /\ Routed(x)' /\ t = Endpoint(x)'
    BY DEF DataSound
  <2>1. CASE x = s
    BY <1>1, <1>3, <2>1
  <2>2. CASE x # s
    BY <1>1, <1>3, <2>2 DEF DataInv, DataSound, Frame
  <2> QED BY <2>1, <2>2
<1>5. DataComplete'
  <2> SUFFICES ASSUME ~interruptedRemoval', NEW x \in Stream
               PROVE  /\ stale'[x] # NoFb => dataPublisher'[x][stale'[x]] > 0
                      /\ Routed(x)' /\ stale'[x] = NoFb /\ x # moving' =>
                           dataPublisher'[x][Endpoint(x)'] > 0
    BY DEF DataComplete
  <2>1. CASE x = s
    BY <1>3, <2>1
  <2>2. CASE x # s
    <3>1. ~interruptedRemoval /\ x # moving
      BY <2>2, <1>1 DEF Frame
    <3> QED BY <1>3, <2>2, <3>1 DEF DataInv, DataComplete, Frame
  <2> QED BY <2>1, <2>2
<1> QED BY <1>4, <1>5

Removals == {"removeCapture", "removeInterface"}

\* The step changes no id and no parent of a Capture or Interface that exists.
SameIds ==
  /\ \A c \in Capture : capture[c] # NoFb => capture'[c].deviceId = capture[c].deviceId
  /\ \A i \in Interface : interface[i] # NoFb =>
       /\ interface'[i].parent = interface[i].parent
       /\ interface'[i].interfaceId = interface[i].interfaceId

\* Such a step keeps the streams it does not change, unless it starts or ends a
\* removal.
LEMMA SameBlocks ==
  ASSUME TreeInv, SameIds, NEW S \in SUBSET Stream,
         \A s \in S : stream'[s] = stream[s],
         (pc' = pc /\ fb' = fb) \/ (pc \notin Removals /\ pc' \notin Removals),
         interruptedRemoval' = interruptedRemoval
  PROVE  Frame(S)
<1> USE DEF TreeInv
<1>1. ASSUME NEW s \in S, stream[s] # NoFb
      PROVE  /\ Endpoint(s)' = Endpoint(s)
             /\ interface'[stream[s].parent].parent = interface[stream[s].parent].parent
  <2>1. stream[s].parent \in Interface /\ interface[stream[s].parent] # NoFb
    BY <1>1, FieldTypes DEF TreeOK
  <2>2. interface[stream[s].parent].parent \in Capture
        /\ capture[interface[stream[s].parent].parent] # NoFb
    BY <2>1, FieldTypes DEF TreeOK
  <2> QED BY <2>1, <2>2 DEF SameIds, Endpoint, TopicOf
<1>2. ASSUME NEW s \in S
      PROVE  Routed(s)' <=> Routed(s)
  BY <1>1 DEF Routed, Removals, StreamsUnder, StreamsOf
<1>3. \A s \in S : Routed(s) => stream[s] # NoFb
  BY DEF Routed
<1> QED BY <1>1, <1>2, <1>3 DEF Frame

-----------------------------------------------------------------------------
(* Every step preserves DataInv.                                           *)

LEMMA AddCaptureData ==
  ASSUME DataInv, NEW c \in Capture,
         AddCaptureModuleEmpty(c) \/ \E deviceId \in DeviceIds : AddCaptureModuleFromStatus(c, deviceId)
  PROVE  DataSound' /\ DataComplete'
<1> USE DEF DataInv, TreeInv, history
<1>1. /\ capture[c] = NoFb
      /\ \A x \in Capture : x # c => capture'[x] = capture[x]
      /\ UNCHANGED <<interface, stream, dataPublisher, stale, moving, interruptedRemoval>>
      /\ pc \notin Removals /\ pc' \notin Removals
  BY DEF AddCaptureModuleEmpty, AddCaptureModuleFromStatus, TypeOK, Idle, Goto, Removals
<1>2. Frame(Stream)
  BY <1>1, SameBlocks DEF SameIds
<1> QED BY <1>1, <1>2, KeepData

LEMMA CaptureStepData ==
  ASSUME DataInv, FromStatusSubscribe \/ FromStatusDone \/ CaptureMoveSubscribe
  PROVE  DataSound' /\ DataComplete'
<1> USE DEF DataInv, TreeInv, tables, history
<1>1. /\ UNCHANGED <<capture, interface, stream, dataPublisher, stale, moving, interruptedRemoval>>
      /\ pc \notin Removals /\ pc' \notin Removals
  BY DEF FromStatusSubscribe, FromStatusDone, CaptureMoveSubscribe, Return, Goto, Removals
<1>2. Frame(Stream)
  BY <1>1, SameBlocks DEF SameIds
<1> QED BY <1>1, <1>2, KeepData

LEMMA RemoveCaptureModuleData ==
  ASSUME DataInv, NEW c \in Capture, RemoveCaptureModule(c)
  PROVE  DataSound' /\ DataComplete'
<1> USE DEF RemoveCaptureModule, Idle, Goto, history
<1> DEFINE S == StreamsUnder(c)
<1>1. S \in SUBSET Stream /\ \A s \in S : stream[s] # NoFb
  BY DEF StreamsUnder
<1>2. Frame(Stream \ S)
  BY DEF Frame, Routed, StreamsUnder, Endpoint, TopicOf
<1> QED BY <1>1, <1>2, MarkStale

LEMMA RemoveInterfaceData ==
  ASSUME DataInv, NEW i \in Interface, RemoveInterface(i)
  PROVE  DataSound' /\ DataComplete'
<1> USE DEF RemoveInterface, Idle, Goto, tables, history
<1> DEFINE S == StreamsOf(i)
<1>1. S \in SUBSET Stream /\ \A s \in S : stream[s] # NoFb
  BY DEF StreamsOf
<1>2. Frame(Stream \ S)
  BY DEF Frame, Routed, StreamsOf, Endpoint, TopicOf
<1> QED BY <1>1, <1>2, MarkStale

LEMMA RemoveCaptureFinishData ==
  ASSUME DataInv, RemoveCaptureFinish
  PROVE  DataSound' /\ DataComplete'
<1> USE DEF RemoveCaptureFinish, Return, tables, history
<1>1. ASSUME NEW s \in Stream, Routed(s)
      PROVE  Routed(s)' /\ Endpoint(s)' = Endpoint(s)
  <2>1. stream[s] # NoFb /\ s \notin StreamsUnder(fb) /\ stream'[s] = stream[s]
    BY <1>1 DEF Routed, StreamsUnder
  <2>2. stream[s].parent \in Interface /\ interface[stream[s].parent] # NoFb
    BY <2>1, FieldTypes DEF DataInv, TreeInv, TreeOK
  <2>3. interface[stream[s].parent].parent \in Capture
        /\ interface[stream[s].parent].parent # fb
    BY <2>1, <2>2, FieldTypes DEF DataInv, TreeInv, StreamsUnder
  <2>4. interface'[stream[s].parent] = interface[stream[s].parent]
        /\ capture'[interface[stream[s].parent].parent] = capture[interface[stream[s].parent].parent]
    BY <2>2, <2>3 DEF InterfacesOf, DataInv, TreeInv, TypeOK
  <2> QED BY <2>1, <2>4 DEF Routed, Endpoint, TopicOf
<1>2. \A s \in Stream : Routed(s)' => Routed(s)
  BY DEF Routed
<1>3. Frame(Stream)
  BY <1>1, <1>2 DEF Frame
<1> QED BY <1>3, KeepData

LEMMA RemoveInterfaceFinishData ==
  ASSUME DataInv, RemoveInterfaceFinish
  PROVE  DataSound' /\ DataComplete'
<1> USE DEF RemoveInterfaceFinish, Return, tables, history
<1>1. ASSUME NEW s \in Stream, Routed(s)
      PROVE  Routed(s)' /\ Endpoint(s)' = Endpoint(s)
  <2>1. stream[s] # NoFb /\ s \notin StreamsOf(fb) /\ stream'[s] = stream[s]
    BY <1>1 DEF Routed, StreamsOf
  <2>2. /\ stream[s].parent \in Interface /\ stream[s].parent # fb
        /\ interface[stream[s].parent] # NoFb
    BY <2>1, FieldTypes DEF DataInv, TreeInv, TreeOK, StreamsOf
  <2>3. /\ interface[stream[s].parent].parent \in Capture
        /\ capture[interface[stream[s].parent].parent] # NoFb
    BY <2>2, FieldTypes DEF DataInv, TreeInv, TreeOK
  <2>4. interface'[stream[s].parent] = interface[stream[s].parent]
    BY <2>2 DEF DataInv, TreeInv, TypeOK
  <2>5. capture'[interface[stream[s].parent].parent].deviceId
          = capture[interface[stream[s].parent].parent].deviceId
    BY <2>3, RemoveInterfaceFinishTree DEF DataInv
  <2> QED BY <2>1, <2>4, <2>5 DEF Routed, Endpoint, TopicOf
<1>2. \A s \in Stream : Routed(s)' => Routed(s)
  BY DEF Routed
<1>3. Frame(Stream)
  BY <1>1, <1>2 DEF Frame
<1> QED BY <1>3, KeepData

LEMMA RemoveInterfaceThrowData ==
  ASSUME DataInv, RemoveInterfaceThrow
  PROVE  DataSound' /\ DataComplete'
<1> USE DEF RemoveInterfaceThrow, Return, tables, history
<1>1. \A s \in Stream : Routed(s) => Routed(s)' /\ Endpoint(s)' = Endpoint(s)
  BY DEF Routed, Endpoint, TopicOf
<1>2. ~interruptedRemoval' => \A s \in Stream : Routed(s)' => Routed(s)
  BY DEF Routed, DataInv, TreeInv, TypeOK
<1>3. Frame(Stream)
  BY <1>1, <1>2 DEF Frame
<1> QED BY <1>3, KeepData

\* A write to DeviceId or InterfaceId starts a move of the streams below, and
\* only their endpoints change.
LEMMA UpdateDeviceIdData ==
  ASSUME DataInv, NEW c \in Capture, NEW deviceId \in DeviceIds, Idle, capture[c] # NoFb,
         UpdateDeviceId(c, deviceId)
  PROVE  DataSound' /\ DataComplete'
<1> USE DEF UpdateDeviceId, Idle, Goto, history
<1> DEFINE S == StreamsUnder(c)
<1>1. S \in SUBSET Stream /\ \A s \in S : stream[s] # NoFb
  BY DEF StreamsUnder
<1>2. \A x \in Capture : x # c => capture'[x] = capture[x]
  BY DEF DataInv, TreeInv, TypeOK
<1>3. ASSUME NEW s \in Stream \ S, stream[s] # NoFb
      PROVE  Endpoint(s)' = Endpoint(s)
  <2>1. interface[stream[s].parent].parent \in Capture \ {c}
    BY <1>3, FieldTypes DEF StreamsUnder, DataInv, TreeInv, TreeOK
  <2> QED BY <1>2, <2>1 DEF Endpoint, TopicOf
<1>4. Frame(Stream \ S)
  BY <1>3 DEF Frame, Routed
<1> QED BY <1>1, <1>4, MarkStale

LEMMA UpdateInterfaceIdData ==
  ASSUME DataInv, NEW i \in Interface, NEW id \in InterfaceIds, Idle, interface[i] # NoFb,
         UpdateInterfaceId(i, id)
  PROVE  DataSound' /\ DataComplete'
<1> DEFINE S == StreamsOf(i)
<1>1. S \in SUBSET Stream /\ \A s \in S : stream[s] # NoFb
  BY DEF StreamsOf
<1>2. /\ pc = "idle" /\ pc' \in {"idle", "move"} /\ interruptedRemoval' = interruptedRemoval
      /\ stale' = StaleAt(S) /\ UNCHANGED <<stream, dataPublisher, moving>>
  BY DEF UpdateInterfaceId, Idle, Goto, Return, tables
<1>3. /\ \A x \in Capture : capture[x] # NoFb => capture'[x].deviceId = capture[x].deviceId
      /\ \A x \in Interface : x # i => interface'[x] = interface[x]
  BY UpdateInterfaceIdTree DEF DataInv
<1>4. ASSUME NEW s \in Stream \ S, stream[s] # NoFb
      PROVE  Endpoint(s)' = Endpoint(s)
  <2>1. /\ stream[s].parent \in Interface \ {i} /\ interface[stream[s].parent] # NoFb
    BY <1>4, FieldTypes DEF StreamsOf, DataInv, TreeInv, TreeOK
  <2>2. /\ interface[stream[s].parent].parent \in Capture
        /\ capture[interface[stream[s].parent].parent] # NoFb
    BY <2>1, FieldTypes DEF DataInv, TreeInv, TreeOK
  <2> QED BY <1>2, <1>3, <2>1, <2>2 DEF Endpoint, TopicOf
<1>5. Frame(Stream \ S)
  BY <1>2, <1>4 DEF Frame, Routed
<1> QED BY <1>1, <1>2, <1>5, MarkStale

LEMMA UpdateData ==
  ASSUME DataInv,
         \/ \E c \in Capture : BeginUpdateCapture(c)
         \/ \E c \in Capture, deviceId \in DeviceIds : SetDeviceIdUpdating(c, deviceId)
         \/ \E c \in Capture : capture[c].pending = capture[c].deviceId /\ EndUpdateCapture(c)
         \/ \E i \in Interface : BeginUpdateInterface(i)
         \/ \E i \in Interface, id \in InterfaceIds : SetInterfaceIdUpdating(i, id)
         \/ \E i \in Interface : interface[i].pending = interface[i].interfaceId /\ EndUpdateInterface(i)
  PROVE  DataSound' /\ DataComplete'
<1> USE DEF DataInv
<1>1. /\ UNCHANGED <<stream, dataPublisher, pc, fb, stale, moving, interruptedRemoval>>
      /\ UNCHANGED interface \/ UNCHANGED capture
  BY DEF BeginUpdateCapture, SetDeviceIdUpdating, EndUpdateCapture, BeginUpdateInterface,
         SetInterfaceIdUpdating, EndUpdateInterface, tables, history
<1>2. \/ /\ UNCHANGED interface
         /\ \A x \in Capture : capture[x] # NoFb => capture'[x].deviceId = capture[x].deviceId
      \/ /\ UNCHANGED capture
         /\ \A x \in Interface : interface[x] # NoFb =>
              /\ interface'[x].parent = interface[x].parent
              /\ interface'[x].interfaceId = interface[x].interfaceId
  BY CaptureUpdateTree, InterfaceUpdateTree
     DEF BeginUpdateCapture, SetDeviceIdUpdating, EndUpdateCapture, BeginUpdateInterface,
         SetInterfaceIdUpdating, EndUpdateInterface
<1>3. SameIds
  BY <1>2 DEF SameIds
<1>4. Frame(Stream)
  BY <1>1, <1>3, SameBlocks
<1> QED BY <1>1, <1>4, KeepData

LEMMA AddInterfaceData ==
  ASSUME DataInv, NEW i \in Interface,
         \/ \E c \in Capture : AddInterface(c, i)
         \/ \E id \in InterfaceIds : FromStatusInterface(i, id)
  PROVE  DataSound' /\ DataComplete'
<1> USE DEF DataInv
<1>1. UNCHANGED <<stream, dataPublisher, pc, fb, stale, moving, interruptedRemoval>>
  BY DEF AddInterface, FromStatusInterface, tables
<1>2. /\ \A x \in Capture : capture[x] # NoFb => capture'[x].deviceId = capture[x].deviceId
      /\ \A x \in Interface : interface[x] # NoFb => interface'[x] = interface[x]
  BY AddInterfaceTree, FromStatusInterfaceTree
<1>3. SameIds
  BY <1>2 DEF SameIds
<1>4. Frame(Stream)
  BY <1>1, <1>3, SameBlocks
<1> QED BY <1>1, <1>4, KeepData

LEMMA AddStreamData ==
  ASSUME DataInv, NEW i \in Interface, NEW s \in Stream,
         AddStream(i, s) \/ \E id \in StreamIds : FromStatusStream(i, s, id)
  PROVE  DataSound' /\ DataComplete'
<1> USE DEF DataInv
<1>1. PICK id \in StreamIds : CreateStream(i, s, id)
  BY AddStreamTree DEF FromStatusStream
<1>2. /\ interface[i] # NoFb /\ pc \notin Removals
      /\ UNCHANGED <<capture, pc, fb, stale, moving, interruptedRemoval>>
  BY FromStatusStreamTree DEF AddStream, FromStatusStream, Idle, Removals
<1>3. /\ \A x \in Interface : interface[x] # NoFb =>
           /\ interface'[x].parent = interface[x].parent
           /\ interface'[x].interfaceId = interface[x].interfaceId
      /\ \A x \in Stream : x # s => stream'[x] = stream[x]
      /\ stream'[s] # NoFb /\ stream'[s].parent = i /\ stream'[s].streamId = id
  BY <1>1, <1>2, CreateStreamTypes DEF TreeInv
<1>4. Frame(Stream \ {s})
  <2>1. SameIds
    BY <1>2, <1>3 DEF SameIds
  <2> QED BY <1>2, <1>3, <2>1, SameBlocks
<1>5. interface[i].parent \in Capture
  BY <1>2, FieldTypes DEF TreeInv
<1>6. Routed(s)'
  BY <1>2, <1>3 DEF Routed, Removals
<1>7. Endpoint(s)' = TopicOf(i, id)
  BY <1>2, <1>3 DEF Endpoint, TopicOf
<1>8. TopicOf(i, id) \in Topic
  BY <1>2, TopicType DEF TreeInv
<1>9. /\ stale[s] = NoFb /\ moving = NoFb /\ stream[s] = NoFb
      /\ dataPublisher' = Subscribe(dataPublisher, TopicOf(i, id), s)
  BY <1>1, DataSinkAssumption
     DEF AddStream, FromStatusStream, CreateStream, Idle, TreeInv, StaleOK, NoStale
<1> QED BY <1>2, <1>4, <1>6, <1>7, <1>8, <1>9, SubscribeStream

LEMMA RemoveStreamData ==
  ASSUME DataInv, NEW s \in Stream, RemoveStream(s)
  PROVE  DataSound' /\ DataComplete'
<1>1. /\ stream[s] # NoFb /\ Idle /\ stale' = StaleAt({s})
      /\ UNCHANGED <<capture, dataPublisher, moving, interruptedRemoval>>
      /\ pc \notin Removals /\ pc' \notin Removals
      /\ \A x \in Stream \ {s} : stream'[x] = stream[x]
  BY DEF RemoveStream, Idle, Goto, Removals, tables, history, DataInv, TreeInv, TypeOK
<1>2. SameIds
  BY <1>1, RemoveStreamTree DEF SameIds, DataInv
<1>3. Frame(Stream \ {s})
  BY <1>1, <1>2, SameBlocks DEF DataInv
<1> QED BY <1>1, <1>3, MarkStale

LEMMA SetStreamIdData ==
  ASSUME DataInv, NEW s \in Stream, NEW id \in StreamIds, SetStreamId(s, id)
  PROVE  DataSound' /\ DataComplete'
<1>1. /\ stream[s] # NoFb /\ Idle /\ stale' = StaleAt({s})
      /\ UNCHANGED <<capture, dataPublisher, moving, interruptedRemoval>>
      /\ pc \notin Removals /\ pc' \notin Removals
      /\ \A x \in Stream \ {s} : stream'[x] = stream[x]
  BY DEF SetStreamId, Idle, Goto, Removals, tables, DataInv, TreeInv, TypeOK
<1>2. SameIds
  BY <1>1, SetStreamIdTree DEF SameIds, DataInv
<1>3. Frame(Stream \ {s})
  BY <1>1, <1>2, SameBlocks DEF DataInv
<1> QED BY <1>1, <1>3, MarkStale

\* A step that changes no block, in the middle of an operation or at its end.
LEMMA SameTree ==
  ASSUME DataInv, UNCHANGED <<capture, interface, stream, interruptedRemoval>>,
         (pc' = pc /\ fb' = fb) \/ (pc \notin Removals /\ pc' \notin Removals)
  PROVE  \A S \in SUBSET Stream : Frame(S)
<1>1. SameIds
  BY DEF SameIds
<1> QED BY <1>1, SameBlocks DEF DataInv

LEMMA RemoveStreamUnsubscribeData ==
  ASSUME DataInv, RemoveStreamUnsubscribe
  PROVE  DataSound' /\ DataComplete'
<1> USE DEF RemoveStreamUnsubscribe, Return, history
<1>1. PICK s \in Stream : s = fb
  BY DEF DataInv, TreeInv, BlockOK
<1>2. stream[s] = NoFb /\ stale[s] # NoFb /\ moving = NoFb
  BY <1>1 DEF DataInv, TreeInv, BlockOK, StaleOK
<1>3. \A x \in Stream \ {s} : stale[x] = NoFb
  BY <1>1 DEF DataInv, TreeInv, StaleOK
<1>4. stale' = [stale EXCEPT ![s] = NoFb]
  BY <1>3 DEF NoStale, DataInv, TreeInv, TypeOK
<1>5. Frame(Stream \ {s})
  BY SameTree DEF Removals
<1>6. ~Routed(s)'
  BY <1>2 DEF Routed
<1> QED BY <1>1, <1>2, <1>4, <1>5, <1>6, ReleaseStream

LEMMA UnsubscribeStaleData ==
  ASSUME DataInv, NEW s \in Stream, UnsubscribeStale(s)
  PROVE  DataSound' /\ DataComplete'
<1> USE DEF UnsubscribeStale, history
<1>1. moving = NoFb /\ stale[s] # NoFb
  BY DEF DataInv, TreeInv, StaleOK
<1>2. ~Routed(s)'
  BY DEF DataInv, TreeInv, StaleOK, Routed, StreamsUnder, StreamsOf
<1>3. Frame(Stream \ {s})
  BY SameTree
<1> QED BY <1>1, <1>2, <1>3, ReleaseStream

LEMMA MoveUnsubscribeData ==
  ASSUME DataInv, NEW s \in Stream, MoveUnsubscribe(s)
  PROVE  DataSound' /\ DataComplete'
<1> USE DEF MoveUnsubscribe, history
<1>1. Frame(Stream \ {s})
  BY SameTree
<1> QED BY <1>1, ReleaseStream

LEMMA MoveSubscribeData ==
  ASSUME DataInv, MoveSubscribe
  PROVE  DataSound' /\ DataComplete'
<1> USE DEF MoveSubscribe, Return, history
<1>1. moving \in Stream /\ stream[moving] # NoFb /\ stale[moving] = NoFb
  BY DEF DataInv, TreeInv, StaleOK, TypeOK
<1>2. Endpoint(moving) \in Topic
  BY <1>1, TopicType DEF DataInv, TreeInv
<1>3. Frame(Stream \ {moving})
  BY SameTree DEF Removals
<1>4. \A s \in Stream : stream[s] # NoFb => Routed(s)' /\ Endpoint(s)' = Endpoint(s)
  BY DEF Routed, Endpoint, TopicOf
<1> QED BY <1>1, <1>2, <1>3, <1>4, SubscribeStream

-----------------------------------------------------------------------------
(* DataInv is an invariant, and what follows from it.                      *)

LEMMA DataInit == Init => DataSound /\ DataComplete
BY DEF Init, DataSound, DataComplete, EmptyTable, NoStale, Routed

LEMMA DataStep == DataInv /\ [Next]_vars => DataInv'
<1> SUFFICES ASSUME DataInv, [Next]_vars
             PROVE  DataSound' /\ DataComplete'
  BY TreeStep DEF DataInv
<1>1. CASE NextCapture
  <2>1. ASSUME NEW c \in Capture, EndUpdateCapture(c)
        PROVE  DataSound' /\ DataComplete'
    <3>1. Idle /\ capture[c] # NoFb /\ capture[c].pending \in DeviceIds
      BY <2>1, FieldTypes DEF EndUpdateCapture, DataInv, TreeInv
    <3>2. CASE capture[c].pending = capture[c].deviceId
      BY <2>1, <3>2, UpdateData
    <3>3. CASE capture[c].pending # capture[c].deviceId
      BY <2>1, <3>1, <3>3, UpdateDeviceIdData DEF EndUpdateCapture
    <3> QED BY <3>2, <3>3
  <2>2. ASSUME NEW c \in Capture, NEW deviceId \in DeviceIds, SetDeviceId(c, deviceId)
        PROVE  DataSound' /\ DataComplete'
    BY <2>2, UpdateDeviceIdData DEF SetDeviceId
  <2> QED BY <1>1, <2>1, <2>2, AddCaptureData, RemoveCaptureModuleData, UpdateData,
             CaptureStepData, RemoveCaptureFinishData
          DEF NextCapture
<1>2. CASE NextInterface
  <2>1. ASSUME NEW i \in Interface, EndUpdateInterface(i)
        PROVE  DataSound' /\ DataComplete'
    <3>1. Idle /\ interface[i] # NoFb /\ interface[i].pending \in InterfaceIds
      BY <2>1, FieldTypes DEF EndUpdateInterface, DataInv, TreeInv
    <3>2. CASE interface[i].pending = interface[i].interfaceId
      BY <2>1, <3>2, UpdateData
    <3>3. CASE interface[i].pending # interface[i].interfaceId
      BY <2>1, <3>1, <3>3, UpdateInterfaceIdData DEF EndUpdateInterface
    <3> QED BY <3>2, <3>3
  <2>2. ASSUME NEW i \in Interface, NEW id \in InterfaceIds, SetInterfaceId(i, id)
        PROVE  DataSound' /\ DataComplete'
    BY <2>2, UpdateInterfaceIdData DEF SetInterfaceId
  <2> QED BY <1>2, <2>1, <2>2, AddInterfaceData, RemoveInterfaceData, UpdateData,
             RemoveInterfaceFinishData, RemoveInterfaceThrowData
          DEF NextInterface
<1>3. CASE NextStream
  BY <1>3, AddStreamData, RemoveStreamData, UnsubscribeStaleData, MoveUnsubscribeData,
     SetStreamIdData, RemoveStreamUnsubscribeData, MoveSubscribeData
     DEF NextStream
<1>4. CASE UNCHANGED vars
  <2>1. Frame(Stream)
    BY <1>4, SameTree DEF vars, history
  <2> QED BY <1>4, <2>1, KeepData DEF vars, tables
<1> QED BY <1>1, <1>2, <1>3, <1>4 DEF Next

LEMMA DataInvariant == Spec => []DataInv
<1>1. Init => DataInv
  BY TreeInit, DataInit DEF DataInv
<1> QED BY <1>1, DataStep, PTL DEF Spec

\* In every execution, and at every point of every operation, an entry of
\* dataPacketsPublisher is the only one of its stream and is under the endpoint
\* the stream has now, or under the topic that the running operation is about to
\* remove.
THEOREM NoStaleData == Spec => []NoStaleDataEntry
<1>1. DataInv => NoStaleDataEntry
  BY DEF DataInv, DataSound, NoStaleDataEntry, Routed
<1> QED BY <1>1, DataInvariant, PTL

\* In every execution, between operations a data packet reaches exactly the
\* streams whose endpoint it carries, as long as no RemoveInterface was cut
\* short by an exception.
THEOREM DataRouting == Spec => []DataRoutingExact
<1>1. DataInv => DataRoutingExact
  <2> SUFFICES ASSUME DataInv, Idle, ~interruptedRemoval, NEW topic \in Topic, NEW s \in Stream
               PROVE  dataPublisher[s][topic] > 0 <=> stream[s] # NoFb /\ Endpoint(s) = topic
    BY DEF DataRoutingExact, Subscribers, DataInv, TreeInv, TypeOK
  <2>1. stale[s] = NoFb /\ s # moving /\ NoFb \notin Topic
    BY DataSinkAssumption DEF DataInv, TreeInv, StaleOK, NoStale, Idle
  <2>2. Routed(s) <=> stream[s] # NoFb
    BY DEF Routed, Idle
  <2> QED BY <2>1, <2>2 DEF DataInv, DataSound, DataComplete
<1> QED BY <1>1, DataInvariant, PTL

-----------------------------------------------------------------------------
(* The capture publisher.                                                  *)

\* A block in the middle of a move or a removal, or not yet entered.
CaptureOut(c) == fb = c /\ pc \in {"statusSubscribe", "captureMove", "removeCapture"}

\* As long as every block was added empty, each of them that is not on the way
\* has its entry.
CaptureComplete ==
  ~addedFromStatus =>
    \A c \in Capture : capture[c] # NoFb /\ ~CaptureOut(c) => capturePublisher[c][capture[c].deviceId] > 0

\* An entry of a block that is there, the only one (NoStaleCaptureEntry); and each
\* block that is to have one has it.
CaptureInv == NoStaleCaptureEntry /\ CaptureComplete

\* A step that leaves the entries and the DeviceIds alone.
LEMMA KeepCaptures ==
  ASSUME CaptureInv, capturePublisher' = capturePublisher, addedFromStatus' = addedFromStatus,
         \A c \in Capture : capture[c] # NoFb => capture'[c] # NoFb /\ capture'[c].deviceId = capture[c].deviceId,
         \A c \in Capture : capture'[c] # NoFb => capture[c] # NoFb,
         \A c \in Capture : CaptureOut(c)' <=> CaptureOut(c)
  PROVE  CaptureInv'
<1>1. NoStaleCaptureEntry'
  BY DEF CaptureInv, NoStaleCaptureEntry, CaptureOut
<1>2. CaptureComplete'
  BY DEF CaptureInv, CaptureComplete
<1> QED BY <1>1, <1>2 DEF CaptureInv

\* A step that enters the block c, which has no entry.
LEMMA EnterCapture ==
  ASSUME TypeOK, CaptureInv, NEW c \in Capture, capture[c] = NoFb \/ CaptureOut(c),
         NEW d \in DeviceIds, capture'[c] # NoFb, capture'[c].deviceId = d,
         capturePublisher' = Subscribe(capturePublisher, d, c),
         \A x \in Capture : x # c => capture'[x] = capture[x], ~CaptureOut(c)',
         \A x \in Capture : x # c => (CaptureOut(x)' <=> CaptureOut(x)),
         addedFromStatus' = addedFromStatus
  PROVE  CaptureInv'
<1>1. capturePublisher \in [Capture -> [DeviceIds -> Nat]]
  BY DEF TypeOK
<1>2. \A t \in DeviceIds : capturePublisher[c][t] = 0
  BY <1>1 DEF CaptureInv, NoStaleCaptureEntry, CaptureOut
<1>3. /\ \A x \in Capture, t \in DeviceIds : x # c => capturePublisher'[x][t] = capturePublisher[x][t]
      /\ \A t \in DeviceIds : capturePublisher'[c][t] = IF t = d THEN 1 ELSE 0
  BY <1>1, <1>2 DEF Subscribe
<1>4. NoStaleCaptureEntry'
  <2> SUFFICES ASSUME NEW x \in Capture, NEW t \in DeviceIds, capturePublisher'[x][t] > 0
               PROVE  /\ capturePublisher'[x][t] = 1
                      /\ capture'[x] # NoFb /\ capture'[x].deviceId = t /\ ~CaptureOut(x)'
    BY DEF NoStaleCaptureEntry, CaptureOut
  <2>1. CASE x = c
    BY <2>1, <1>3
  <2>2. CASE x # c
    BY <2>2, <1>3 DEF CaptureInv, NoStaleCaptureEntry, CaptureOut
  <2> QED BY <2>1, <2>2
<1>5. CaptureComplete'
  <2> SUFFICES ASSUME ~addedFromStatus, NEW x \in Capture, capture'[x] # NoFb, ~CaptureOut(x)'
               PROVE  capturePublisher'[x][capture'[x].deviceId] > 0
    BY DEF CaptureComplete
  <2>1. CASE x = c
    BY <2>1, <1>3
  <2>2. CASE x # c
    <3>1. capturePublisher[x][capture[x].deviceId] > 0 /\ capture[x].deviceId \in DeviceIds
      BY <2>2, FieldTypes DEF CaptureInv, CaptureComplete
    <3> QED BY <2>2, <3>1, <1>3
  <2> QED BY <2>1, <2>2
<1> QED BY <1>4, <1>5 DEF CaptureInv

\* A step that starts a removal or a move of the block c: it takes the entry, or
\* if there is none some other one, which is then missing from an incomplete table.
LEMMA LeaveCapture ==
  ASSUME TypeOK, CaptureInv, Idle, NEW c \in Capture, capture[c] # NoFb,
         capturePublisher' \in Unsubscribe(capturePublisher, capture[c].deviceId, c),
         \A x \in Capture : x # c => capture'[x] = capture[x],
         \A x \in Capture : x # c => ~CaptureOut(x)', CaptureOut(c)',
         addedFromStatus' = addedFromStatus
  PROVE  CaptureInv'
<1> DEFINE d == capture[c].deviceId
<1>1. capturePublisher \in [Capture -> [DeviceIds -> Nat]] /\ d \in DeviceIds
  BY FieldTypes DEF TypeOK
<1>2. \A x \in Capture : ~CaptureOut(x)
  BY DEF CaptureOut, Idle
<1>3. capturePublisher[c][d] <= 1 /\ \A t \in DeviceIds : t # d => capturePublisher[c][t] = 0
  BY <1>1 DEF CaptureInv, NoStaleCaptureEntry
<1> HIDE DEF d
<1>4. /\ capturePublisher' \in [Capture -> [DeviceIds -> Nat]]
      /\ \A x \in Capture, t \in DeviceIds : capturePublisher'[x][t] <= capturePublisher[x][t]
      /\ capturePublisher'[c][d] = 0
  <2>1. capturePublisher' \in Unsubscribe(capturePublisher, d, c)
    BY DEF d
  <2>2. /\ capturePublisher' \in [Capture -> [DeviceIds -> Nat]]
        /\ \A x \in Capture, t \in DeviceIds : capturePublisher'[x][t] <= capturePublisher[x][t]
    BY <1>1, <2>1, UnsubscribeType
  <2>3. capturePublisher'[c][d] = 0
    BY <1>1, <1>3, <2>1, UnsubscribeGone
  <2> QED BY <2>2, <2>3
<1>5. \A t \in DeviceIds : capturePublisher'[c][t] = 0
  BY <1>1, <1>3, <1>4
<1>6. NoStaleCaptureEntry'
  <2> SUFFICES ASSUME NEW x \in Capture, NEW t \in DeviceIds, capturePublisher'[x][t] > 0
               PROVE  /\ capturePublisher'[x][t] = 1
                      /\ capture'[x] # NoFb /\ capture'[x].deviceId = t /\ ~CaptureOut(x)'
    BY DEF NoStaleCaptureEntry, CaptureOut
  <2>1. x # c
    BY <1>5
  <2>2. capturePublisher[x][t] > 0 /\ capturePublisher'[x][t] <= capturePublisher[x][t]
    BY <1>1, <1>4
  <2>3. capturePublisher[x][t] = 1 /\ capture[x] # NoFb /\ capture[x].deviceId = t
    BY <2>2 DEF CaptureInv, NoStaleCaptureEntry
  <2>4. capturePublisher'[x][t] = 1
    BY <1>4, <2>2, <2>3
  <2>5. capture'[x] = capture[x] /\ ~CaptureOut(x)'
    BY <2>1
  <2>6. capture'[x] # NoFb /\ capture'[x].deviceId = t
    BY <2>3, <2>5
  <2> QED BY <2>4, <2>5, <2>6
<1>7. CaptureComplete'
  <2> SUFFICES ASSUME ~addedFromStatus, NEW x \in Capture, capture'[x] # NoFb, ~CaptureOut(x)'
               PROVE  capturePublisher'[x][capture'[x].deviceId] > 0
    BY DEF CaptureComplete
  <2>1. x # c /\ capture[x] = capture'[x] /\ capture[x].deviceId \in DeviceIds
    BY FieldTypes
  <2>2. capturePublisher[c][d] > 0 /\ capturePublisher[x][capture[x].deviceId] > 0
    BY <1>2, <2>1 DEF CaptureInv, CaptureComplete, d
  <2>3. capturePublisher' = [capturePublisher EXCEPT ![c][d] = @ - 1]
    BY <2>2, UnsubscribeHit DEF d
  <2> QED BY <1>1, <2>1, <2>2, <2>3
<1> QED BY <1>6, <1>7 DEF CaptureInv

LEMMA AddCaptureEntries ==
  ASSUME TreeInv, CaptureInv, NEW c \in Capture,
         AddCaptureModuleEmpty(c) \/ \E deviceId \in DeviceIds : AddCaptureModuleFromStatus(c, deviceId)
  PROVE  CaptureInv'
<1> USE DEF TreeInv
<1>1. Idle /\ capture[c] = NoFb /\ \A x \in Capture : ~CaptureOut(x)
  BY DEF AddCaptureModuleEmpty, AddCaptureModuleFromStatus, Idle, CaptureOut
<1>2. CASE AddCaptureModuleEmpty(c)
  <2>1. NewCapture(0) \in CaptureRecord /\ NewCapture(0).deviceId = 0 /\ 0 \in DeviceIds /\ NewCapture(0) # NoFb
    BY RecordTypes, DataSinkAssumption DEF NewCapture
  <2>2. /\ capture' = [capture EXCEPT ![c] = NewCapture(0)]
        /\ capturePublisher' = Subscribe(capturePublisher, 0, c)
        /\ pc' = pc /\ fb' = fb /\ addedFromStatus' = addedFromStatus
    BY <1>2 DEF AddCaptureModuleEmpty, history
  <2>3. /\ capture'[c] # NoFb /\ capture'[c].deviceId = 0
        /\ \A x \in Capture : x # c => capture'[x] = capture[x]
    BY <2>1, <2>2 DEF TypeOK
  <2>4. \A x \in Capture : ~CaptureOut(x)'
    BY <1>1, <2>2 DEF CaptureOut
  <2> QED BY <1>1, <2>1, <2>2, <2>3, <2>4, EnterCapture
<1>3. ASSUME NEW deviceId \in DeviceIds, AddCaptureModuleFromStatus(c, deviceId)
      PROVE  CaptureInv'
  <2>1. /\ addedFromStatus' /\ \A x \in Capture : x # c => capture'[x] = capture[x]
        /\ fb' = c
    BY <1>3 DEF AddCaptureModuleFromStatus, Goto, TypeOK
  <2>2. capturePublisher \in [Capture -> [DeviceIds -> Nat]] /\ 0 \in DeviceIds
    BY DataSinkAssumption DEF TypeOK
  <2>3. /\ capturePublisher' \in [Capture -> [DeviceIds -> Nat]]
        /\ \A x \in Capture, t \in DeviceIds : capturePublisher'[x][t] <= capturePublisher[x][t]
    <3>1. capturePublisher' = capturePublisher \/ capturePublisher' \in Unsubscribe(capturePublisher, 0, c)
      BY <1>3 DEF AddCaptureModuleFromStatus
    <3>2. CASE capturePublisher' = capturePublisher
      BY <2>2, <3>2
    <3>3. CASE capturePublisher' \in Unsubscribe(capturePublisher, 0, c)
      BY <2>2, <3>3, UnsubscribeType
    <3> QED BY <3>1, <3>2, <3>3
  <2>4. \A t \in DeviceIds : capturePublisher[c][t] = 0
    BY <1>1, <2>2 DEF CaptureInv, NoStaleCaptureEntry
  <2>5. NoStaleCaptureEntry'
    <3> SUFFICES ASSUME NEW x \in Capture, NEW t \in DeviceIds, capturePublisher'[x][t] > 0
                 PROVE  /\ capturePublisher'[x][t] = 1
                        /\ capture'[x] # NoFb /\ capture'[x].deviceId = t /\ ~CaptureOut(x)'
      BY DEF NoStaleCaptureEntry, CaptureOut
    <3>1. x # c /\ capturePublisher[x][t] > 0
      BY <2>2, <2>3, <2>4
    <3>2. capturePublisher[x][t] = 1 /\ capture[x] # NoFb /\ capture[x].deviceId = t
      BY <3>1 DEF CaptureInv, NoStaleCaptureEntry
    <3>3. capturePublisher'[x][t] = 1
      BY <2>2, <2>3, <3>2
    <3>4. ~CaptureOut(x)'
      BY <2>1, <3>1 DEF CaptureOut
    <3> QED BY <2>1, <3>1, <3>2, <3>3, <3>4
  <2> QED BY <2>1, <2>5 DEF CaptureInv, CaptureComplete
<1> QED BY <1>2, <1>3

\* The second half of a move, and of the entry of a block from the status.
LEMMA CaptureSubscribeEntries ==
  ASSUME TreeInv, CaptureInv, FromStatusSubscribe \/ CaptureMoveSubscribe
  PROVE  CaptureInv'
<1>1. PICK c \in Capture : c = fb /\ capture[c] # NoFb /\ CaptureOut(c)
  BY DEF TreeInv, BlockOK, FromStatusSubscribe, CaptureMoveSubscribe, CaptureOut
<1>2. /\ capturePublisher' = Subscribe(capturePublisher, capture[c].deviceId, c)
      /\ capture' = capture /\ addedFromStatus' = addedFromStatus
      /\ pc' \in {"idle", "fromStatus", "move"}
  BY <1>1 DEF FromStatusSubscribe, CaptureMoveSubscribe, Goto, Return, history
<1>3. \A x \in Capture : ~CaptureOut(x)' /\ (x # c => ~CaptureOut(x))
  BY <1>1, <1>2 DEF CaptureOut
<1>4. capture[c].deviceId \in DeviceIds
  BY <1>1, FieldTypes DEF TreeInv
<1> QED BY <1>1, <1>2, <1>3, <1>4, EnterCapture DEF TreeInv

LEMMA CaptureLeavesEntries ==
  ASSUME TreeInv, CaptureInv, NEW c \in Capture, Idle, capture[c] # NoFb,
         RemoveCaptureModule(c) \/ \E deviceId \in DeviceIds : UpdateDeviceId(c, deviceId)
  PROVE  CaptureInv'
<1>1. /\ capturePublisher' \in Unsubscribe(capturePublisher, capture[c].deviceId, c)
      /\ fb' = c /\ pc' \in {"removeCapture", "captureMove"} /\ addedFromStatus' = addedFromStatus
      /\ \A x \in Capture : x # c => capture'[x] = capture[x]
  BY DEF RemoveCaptureModule, UpdateDeviceId, Goto, history, TreeInv, TypeOK
<1>2. CaptureOut(c)' /\ \A x \in Capture : x # c => ~CaptureOut(x)'
  BY <1>1 DEF CaptureOut
<1> QED BY <1>1, <1>2, LeaveCapture DEF TreeInv

LEMMA RemoveCaptureFinishEntries ==
  ASSUME TreeInv, CaptureInv, RemoveCaptureFinish
  PROVE  CaptureInv'
<1>1. /\ pc = "removeCapture" /\ pc' = "idle" /\ fb \in Capture
      /\ capturePublisher' = capturePublisher /\ addedFromStatus' = addedFromStatus
      /\ capture'[fb] = NoFb /\ \A x \in Capture : x # fb => capture'[x] = capture[x]
  BY DEF RemoveCaptureFinish, Return, tables, history, TreeInv, BlockOK, TypeOK
<1>2. CaptureOut(fb) /\ \A x \in Capture : ~CaptureOut(x)' /\ (x # fb => ~CaptureOut(x))
  BY <1>1 DEF CaptureOut
<1>3. NoStaleCaptureEntry'
  BY <1>1, <1>2 DEF CaptureInv, NoStaleCaptureEntry, CaptureOut
<1>4. CaptureComplete'
  BY <1>1, <1>2 DEF CaptureInv, CaptureComplete
<1> QED BY <1>3, <1>4 DEF CaptureInv

\* A step of an operation on Interface or Stream blocks, or one that changes no id.
LEMMA OtherEntries ==
  ASSUME TreeInv, CaptureInv, UNCHANGED <<capturePublisher, addedFromStatus>>,
         (pc' = pc /\ fb' = fb) \/
           (pc \notin {"statusSubscribe", "captureMove", "removeCapture"} /\
            pc' \notin {"statusSubscribe", "captureMove", "removeCapture"}),
         \A x \in Capture : capture[x] # NoFb => capture'[x] # NoFb /\ capture'[x].deviceId = capture[x].deviceId,
         \A x \in Capture : capture'[x] # NoFb => capture[x] # NoFb
  PROVE  CaptureInv'
<1>1. \A x \in Capture : CaptureOut(x)' <=> CaptureOut(x)
  BY DEF CaptureOut
<1> QED BY <1>1, KeepCaptures

LEMMA CaptureUpdateEntries ==
  ASSUME TreeInv, CaptureInv, NEW c \in Capture,
         \/ BeginUpdateCapture(c)
         \/ \E deviceId \in DeviceIds : SetDeviceIdUpdating(c, deviceId)
         \/ capture[c].pending = capture[c].deviceId /\ EndUpdateCapture(c)
  PROVE  CaptureInv'
<1>1. /\ UNCHANGED <<capturePublisher, addedFromStatus, pc, fb>> /\ capture[c] # NoFb
      /\ \A x \in Capture : x # c => capture'[x] = capture[x]
  BY DEF BeginUpdateCapture, SetDeviceIdUpdating, EndUpdateCapture, tables, history, TreeInv, TypeOK
<1>2. \A x \in Capture : capture[x] # NoFb => capture'[x] # NoFb /\ capture'[x].deviceId = capture[x].deviceId
  BY CaptureUpdateTree
<1>3. \A x \in Capture : capture'[x] # NoFb => capture[x] # NoFb
  BY <1>1
<1> QED BY <1>1, <1>2, <1>3, OtherEntries

LEMMA InterfaceEntries ==
  ASSUME TreeInv, CaptureInv, NextInterface
  PROVE  CaptureInv'
<1>1. ASSUME NEW c \in Capture, NEW ids, capture[c] # NoFb, capture' = [capture EXCEPT ![c].ids = ids],
             NEW x \in Capture, capture'[x] # NoFb
      PROVE  capture[x] # NoFb
  BY <1>1 DEF TreeInv, TypeOK
<1>2. ASSUME NEW c \in Capture, NEW i \in Interface, AddInterface(c, i) PROVE CaptureInv'
  <2>1. /\ UNCHANGED <<capturePublisher, addedFromStatus, pc, fb>> /\ capture[c] # NoFb
        /\ \E ids : capture' = [capture EXCEPT ![c].ids = ids]
    BY <1>2 DEF AddInterface, CreateInterface, tables
  <2>2. \A x \in Capture : capture[x] # NoFb => capture'[x] # NoFb /\ capture'[x].deviceId = capture[x].deviceId
    BY <1>2, AddInterfaceTree
  <2>3. \A x \in Capture : capture'[x] # NoFb => capture[x] # NoFb
    BY <1>1, <2>1
  <2> QED BY <2>1, <2>2, <2>3, OtherEntries
<1>3. ASSUME NEW i \in Interface, NEW id \in InterfaceIds, FromStatusInterface(i, id) PROVE CaptureInv'
  <2>1. /\ UNCHANGED <<capturePublisher, addedFromStatus, pc, fb>> /\ fb \in Capture /\ capture[fb] # NoFb
        /\ \E ids : capture' = [capture EXCEPT ![fb].ids = ids]
    BY <1>3 DEF FromStatusInterface, CreateInterface, tables, TreeInv, BlockOK
  <2>2. \A x \in Capture : capture[x] # NoFb => capture'[x] # NoFb /\ capture'[x].deviceId = capture[x].deviceId
    BY <1>3, FromStatusInterfaceTree
  <2>3. \A x \in Capture : capture'[x] # NoFb => capture[x] # NoFb
    BY <1>1, <2>1
  <2> QED BY <2>1, <2>2, <2>3, OtherEntries
<1>4. ASSUME NEW i \in Interface, NEW id \in InterfaceIds, interface[i] # NoFb, Idle, UpdateInterfaceId(i, id)
      PROVE  CaptureInv'
  <2> DEFINE c == interface[i].parent
  <2>1. /\ UNCHANGED <<capturePublisher, addedFromStatus>> /\ pc = "idle" /\ pc' \in {"idle", "move"}
        /\ \E ids : capture' = [capture EXCEPT ![c].ids = ids]
    BY <1>4 DEF UpdateInterfaceId, tables, Idle, Return, Goto
  <2>2. \A x \in Capture : capture[x] # NoFb => capture'[x] # NoFb /\ capture'[x].deviceId = capture[x].deviceId
    BY <1>4, UpdateInterfaceIdTree
  <2>3. c \in Capture /\ capture[c] # NoFb
    BY <1>4, FieldTypes DEF TreeInv, TreeOK
  <2> HIDE DEF c
  <2>4. \A x \in Capture : capture'[x] # NoFb => capture[x] # NoFb
    BY <1>1, <2>1, <2>3
  <2> QED BY <2>1, <2>2, <2>4, OtherEntries
<1>5. CASE RemoveInterfaceFinish
  <2> DEFINE c == interface[fb].parent
  <2>1. /\ UNCHANGED <<capturePublisher, addedFromStatus>> /\ pc = "removeInterface" /\ pc' = "idle"
        /\ \E ids : capture' = [capture EXCEPT ![c].ids = ids]
    BY <1>5 DEF RemoveInterfaceFinish, tables, history, Return
  <2>2. \A x \in Capture : capture[x] # NoFb => capture'[x] # NoFb /\ capture'[x].deviceId = capture[x].deviceId
    BY <1>5, RemoveInterfaceFinishTree
  <2>3. c \in Capture /\ capture[c] # NoFb
    BY <2>1, FieldTypes DEF TreeInv, TreeOK, BlockOK
  <2> HIDE DEF c
  <2>4. \A x \in Capture : capture'[x] # NoFb => capture[x] # NoFb
    BY <1>1, <2>1, <2>3
  <2> QED BY <2>1, <2>2, <2>4, OtherEntries
<1>6. ASSUME UNCHANGED <<capture, capturePublisher, addedFromStatus>>,
             (pc' = pc /\ fb' = fb) \/ (pc \in {"idle", "removeInterface"} /\ pc' \in {"idle", "removeInterface"})
      PROVE  CaptureInv'
  BY <1>6, OtherEntries
<1>7. ASSUME NEW i \in Interface, EndUpdateInterface(i) PROVE CaptureInv'
  <2>1. Idle /\ interface[i] # NoFb /\ interface[i].pending \in InterfaceIds
    BY <1>7, FieldTypes DEF EndUpdateInterface, TreeInv
  <2>2. CASE UpdateInterfaceId(i, interface[i].pending)
    BY <1>4, <2>1, <2>2
  <2>3. CASE UNCHANGED <<capture, capturePublisher, addedFromStatus, pc, fb>>
    BY <1>6, <2>3
  <2> QED BY <1>7, <2>2, <2>3 DEF EndUpdateInterface, tables, history
<1>8. ASSUME NEW i \in Interface, \/ RemoveInterface(i) \/ BeginUpdateInterface(i)
                                  \/ \E id \in InterfaceIds : SetInterfaceIdUpdating(i, id)
      PROVE CaptureInv'
  BY <1>6, <1>8 DEF RemoveInterface, BeginUpdateInterface, SetInterfaceIdUpdating, tables, history, Idle, Goto
<1>9. CASE RemoveInterfaceThrow
  BY <1>6, <1>9 DEF RemoveInterfaceThrow, tables, Return
<1>10. ASSUME NEW i \in Interface, NEW id \in InterfaceIds, SetInterfaceId(i, id) PROVE CaptureInv'
  BY <1>4, <1>10 DEF SetInterfaceId
<1> QED BY <1>2, <1>3, <1>5, <1>7, <1>8, <1>9, <1>10 DEF NextInterface

LEMMA StreamEntries ==
  ASSUME TreeInv, CaptureInv, NextStream \/ FromStatusDone
  PROVE  CaptureInv'
<1> DEFINE Quiet == {"idle", "fromStatus", "removeStream", "move"}
<1>1. ASSUME UNCHANGED <<capture, capturePublisher, addedFromStatus>>,
             (pc' = pc /\ fb' = fb) \/ (pc \in Quiet /\ pc' \in Quiet)
      PROVE  CaptureInv'
  BY <1>1, OtherEntries
<1>2. CASE FromStatusDone
  BY <1>1, <1>2 DEF FromStatusDone, tables, history, Return
<1>3. ASSUME NEW s \in Stream, \/ \E i \in Interface : AddStream(i, s)
                               \/ \E i \in Interface, id \in StreamIds : FromStatusStream(i, s, id)
      PROVE  CaptureInv'
  BY <1>1, <1>3 DEF AddStream, FromStatusStream
<1>4. ASSUME NEW s \in Stream, \/ RemoveStream(s) \/ UnsubscribeStale(s) \/ MoveUnsubscribe(s)
                               \/ \E id \in StreamIds : SetStreamId(s, id)
      PROVE  CaptureInv'
  BY <1>1, <1>4 DEF RemoveStream, UnsubscribeStale, MoveUnsubscribe, SetStreamId, tables, history, Idle, Goto
<1>5. CASE RemoveStreamUnsubscribe \/ MoveSubscribe
  BY <1>1, <1>5 DEF RemoveStreamUnsubscribe, MoveSubscribe, history, Return
<1> QED BY <1>2, <1>3, <1>4, <1>5 DEF NextStream

LEMMA EntriesStep == TreeInv /\ CaptureInv /\ [Next]_vars => CaptureInv'
<1> SUFFICES ASSUME TreeInv, CaptureInv, [Next]_vars
             PROVE  CaptureInv'
  OBVIOUS
<1>1. CASE NextCapture
  <2>1. ASSUME NEW c \in Capture, EndUpdateCapture(c) PROVE CaptureInv'
    <3>1. Idle /\ capture[c] # NoFb /\ capture[c].pending \in DeviceIds
      BY <2>1, FieldTypes DEF EndUpdateCapture, TreeInv
    <3>2. CASE capture[c].pending = capture[c].deviceId
      BY <2>1, <3>2, CaptureUpdateEntries
    <3>3. CASE capture[c].pending # capture[c].deviceId
      BY <2>1, <3>1, <3>3, CaptureLeavesEntries DEF EndUpdateCapture
    <3> QED BY <3>2, <3>3
  <2>2. ASSUME NEW c \in Capture, NEW deviceId \in DeviceIds, SetDeviceId(c, deviceId) PROVE CaptureInv'
    BY <2>2, CaptureLeavesEntries DEF SetDeviceId
  <2>3. ASSUME NEW c \in Capture, RemoveCaptureModule(c) PROVE CaptureInv'
    BY <2>3, CaptureLeavesEntries DEF RemoveCaptureModule
  <2> QED BY <1>1, <2>1, <2>2, <2>3, AddCaptureEntries, CaptureUpdateEntries, CaptureSubscribeEntries,
             StreamEntries, RemoveCaptureFinishEntries
          DEF NextCapture
<1>2. CASE UNCHANGED vars
  BY <1>2, OtherEntries DEF vars, tables, history
<1> QED BY <1>1, <1>2, InterfaceEntries, StreamEntries DEF Next

LEMMA EntriesInvariant == Spec => []CaptureInv
<1>1. Init => CaptureInv
  BY DEF Init, CaptureInv, NoStaleCaptureEntry, CaptureComplete, EmptyTable
<1> QED BY <1>1, EntriesStep, TreeInvariant, PTL DEF Spec

\* The same for capturePacketsPublisher: no Capture block that was removed is
\* called, nor one under a DeviceId that it gave up, although unsubscribe may erase
\* an entry that it was not asked to erase (publisher.h:46).
THEOREM NoStaleCapture == Spec => []NoStaleCaptureEntry
<1>1. CaptureInv => NoStaleCaptureEntry
  BY DEF CaptureInv
<1> QED BY <1>1, EntriesInvariant, PTL

\* Between operations a status reaches exactly the Capture blocks with its
\* DeviceId, as long as all of them were added empty (capture_fb.cpp:88).
THEOREM CaptureRouting == Spec => []CaptureRoutingExact
<1>1. TypeOK /\ CaptureInv => CaptureRoutingExact
  <2> SUFFICES ASSUME TypeOK, CaptureInv, Idle, ~addedFromStatus, NEW d \in DeviceIds, NEW c \in Capture
               PROVE  capturePublisher[c][d] > 0 <=> capture[c] # NoFb /\ capture[c].deviceId = d
    BY DEF CaptureRoutingExact, Subscribers, TypeOK
  <2>1. ~CaptureOut(c)
    BY DEF CaptureOut, Idle
  <2> QED BY <2>1 DEF CaptureInv, NoStaleCaptureEntry, CaptureComplete
<1> QED BY <1>1, EntriesInvariant, TypeCorrect, PTL

-----------------------------------------------------------------------------
(* Who loses an entry.                                                     *)

\* The streams that a move is still to unsubscribe are those below its block.
MovesOK ==
  pc \in {"captureMove", "move"} => \A s \in Stream : stale[s] # NoFb => s \in Under(fb)

\* The streams below a block, by its class.
LEMMA UnderBlock ==
  /\ \A c \in Capture : Under(c) = StreamsUnder(c)
  /\ \A i \in Interface : Under(i) = StreamsOf(i)
  /\ \A s \in Stream : Under(s) = {s}
BY DataSinkAssumption DEF Under

LEMMA MovesStep == TreeInv /\ MovesOK /\ [Next]_vars => MovesOK'
<1> SUFFICES ASSUME TreeInv, MovesOK, [Next]_vars, pc' \in {"captureMove", "move"}
             PROVE  \A s \in Stream : stale'[s] # NoFb => s \in Under(fb)'
  BY DEF MovesOK
<1>1. ASSUME NEW c \in Capture, NEW deviceId, Idle, UpdateDeviceId(c, deviceId), NEW s \in Stream, stale'[s] # NoFb
      PROVE  s \in Under(fb)'
  <2>1. /\ fb' = c /\ stale' = StaleAt(StreamsUnder(c)) /\ stream' = stream /\ interface' = interface
    BY <1>1 DEF UpdateDeviceId, Goto
  <2>2. s \in StreamsUnder(c)
    BY <1>1, <2>1 DEF StaleAt
  <2>3. Under(fb)' = StreamsUnder(c)
    BY <2>1, DataSinkAssumption DEF Under, StreamsUnder
  <2> QED BY <2>2, <2>3
<1>2. ASSUME NEW i \in Interface, NEW id \in InterfaceIds, Idle, interface[i] # NoFb, UpdateInterfaceId(i, id),
             NEW s \in Stream, stale'[s] # NoFb
      PROVE  s \in Under(fb)'
  <2>1. stale' = StaleAt(StreamsOf(i)) /\ stream' = stream /\ fb' = i
    BY <1>2 DEF UpdateInterfaceId, Goto, Return
  <2>2. s \in StreamsOf(i)
    BY <1>2, <2>1 DEF StaleAt
  <2>3. Under(fb)' = StreamsOf(i)
    BY <2>1, DataSinkAssumption DEF Under, StreamsOf
  <2> QED BY <2>2, <2>3
<1>3. ASSUME NEW t \in Stream, NEW id \in StreamIds, SetStreamId(t, id), NEW s \in Stream, stale'[s] # NoFb
      PROVE  s \in Under(fb)'
  <2>1. stale' = StaleAt({t}) /\ fb' = t
    BY <1>3 DEF SetStreamId, Goto
  <2>2. Under(fb)' = {t}
    BY <2>1, DataSinkAssumption DEF Under
  <2> QED BY <1>3, <2>1, <2>2 DEF StaleAt
<1>4. ASSUME pc \in {"captureMove", "move"}, UNCHANGED <<interface, stream, fb>>,
             \A s \in Stream : stale'[s] # NoFb => stale[s] # NoFb
      PROVE  \A s \in Stream : stale'[s] # NoFb => s \in Under(fb)'
  BY <1>4 DEF MovesOK, Under, StreamsUnder, StreamsOf
<1>5. CASE NextCapture
  <2>1. ASSUME NEW c \in Capture, EndUpdateCapture(c) \/ \E deviceId \in DeviceIds : SetDeviceId(c, deviceId)
        PROVE  Idle /\ \E deviceId : UpdateDeviceId(c, deviceId)
    BY <2>1 DEF EndUpdateCapture, SetDeviceId, Idle
  <2>2. CASE CaptureMoveSubscribe
    BY <1>4, <2>2 DEF CaptureMoveSubscribe, Goto, Return
  <2>3. ~FromStatusSubscribe /\ ~FromStatusDone /\ ~RemoveCaptureFinish
    BY DEF FromStatusSubscribe, FromStatusDone, RemoveCaptureFinish, Goto, Return
  <2>4. ASSUME NEW c \in Capture
        PROVE  /\ ~AddCaptureModuleEmpty(c) /\ ~RemoveCaptureModule(c) /\ ~BeginUpdateCapture(c)
               /\ \A deviceId \in DeviceIds :
                    ~AddCaptureModuleFromStatus(c, deviceId) /\ ~SetDeviceIdUpdating(c, deviceId)
    BY DEF AddCaptureModuleEmpty, RemoveCaptureModule, BeginUpdateCapture, AddCaptureModuleFromStatus,
           SetDeviceIdUpdating, Idle, Goto
  <2> QED BY <1>1, <1>5, <2>1, <2>2, <2>3, <2>4 DEF NextCapture
<1>6. CASE NextInterface
  <2>1. ASSUME NEW i \in Interface, EndUpdateInterface(i) PROVE
               Idle /\ interface[i] # NoFb /\ \E id \in InterfaceIds : UpdateInterfaceId(i, id)
    BY <2>1, FieldTypes DEF EndUpdateInterface, Idle, TreeInv
  <2>2. ASSUME NEW i \in Interface, NEW id \in InterfaceIds, SetInterfaceId(i, id)
        PROVE  Idle /\ interface[i] # NoFb /\ UpdateInterfaceId(i, id)
    BY <2>2 DEF SetInterfaceId
  <2>3. ASSUME NEW i \in Interface
        PROVE  /\ ~RemoveInterface(i) /\ ~BeginUpdateInterface(i)
               /\ \A id \in InterfaceIds : ~FromStatusInterface(i, id) /\ ~SetInterfaceIdUpdating(i, id)
               /\ \A c \in Capture : ~AddInterface(c, i)
    BY DEF RemoveInterface, BeginUpdateInterface, FromStatusInterface, SetInterfaceIdUpdating, AddInterface,
           Idle, Goto
  <2>4. ~RemoveInterfaceFinish /\ ~RemoveInterfaceThrow
    BY DEF RemoveInterfaceFinish, RemoveInterfaceThrow, Return
  <2> QED BY <1>2, <1>6, <2>1, <2>2, <2>3, <2>4 DEF NextInterface
<1>7. CASE NextStream
  <2>1. ASSUME NEW s \in Stream, MoveUnsubscribe(s)
        PROVE  \A t \in Stream : stale'[t] # NoFb => t \in Under(fb)'
    BY <1>4, <2>1 DEF MoveUnsubscribe, TreeInv, TypeOK
  <2>2. CASE MoveSubscribe
    BY <1>4, <2>2 DEF MoveSubscribe, Return
  <2>3. ASSUME NEW s \in Stream
        PROVE  /\ ~RemoveStream(s) /\ ~UnsubscribeStale(s)
               /\ \A i \in Interface : ~AddStream(i, s) /\ \A id \in StreamIds : ~FromStatusStream(i, s, id)
    BY DEF RemoveStream, UnsubscribeStale, AddStream, FromStatusStream, Idle, Goto
  <2>4. ~RemoveStreamUnsubscribe
    BY DEF RemoveStreamUnsubscribe, Return
  <2> QED BY <1>3, <1>7, <2>1, <2>2, <2>3, <2>4 DEF NextStream
<1>8. CASE UNCHANGED vars
  BY <1>4, <1>8 DEF vars
<1> QED BY <1>5, <1>6, <1>7, <1>8 DEF Next

\* An unsubscribe that an operation makes finds the entry, and it is of a stream
\* the operation is about.
LEMMA LosesOwn ==
  ASSUME DataInv, MovesOK, ~interruptedRemoval, NEW t \in Stream, stale[t] # NoFb,
         pc \in {"removeCapture", "removeInterface", "move"} \/ (pc = "removeStream" /\ t = fb),
         dataPublisher' \in Unsubscribe(dataPublisher, stale[t], t),
         NEW s \in Stream, NEW topic \in Topic, dataPublisher'[s][topic] < dataPublisher[s][topic]
  PROVE  s \in Under(fb)
<1>1. dataPublisher[t][stale[t]] > 0 /\ stale[t] \in Topic
  BY DEF DataInv, DataComplete, TreeInv, TypeOK
<1>2. dataPublisher' = [dataPublisher EXCEPT ![t][stale[t]] = @ - 1]
  BY <1>1, UnsubscribeHit
<1>3. s = t
  BY <1>1, <1>2 DEF DataInv, TreeInv, TypeOK
<1>4. CASE pc = "removeCapture"
  BY <1>3, <1>4, UnderBlock DEF DataInv, TreeInv, BlockOK, StaleOK
<1>5. CASE pc = "removeInterface"
  BY <1>3, <1>5, UnderBlock DEF DataInv, TreeInv, BlockOK, StaleOK
<1>6. CASE pc = "removeStream" /\ t = fb
  BY <1>3, <1>6, UnderBlock
<1>7. CASE pc = "move"
  BY <1>3, <1>7 DEF MovesOK
<1> QED BY <1>4, <1>5, <1>6, <1>7

\* A stream loses its entry only to an operation on it or on a block above it, as long
\* as no RemoveInterface was cut short (publisher.h:46).
THEOREM OthersSubscribed == Spec => OthersStaySubscribed
<1>1. ASSUME DataInv, MovesOK, [Next]_vars, ~interruptedRemoval,
             NEW s \in Stream, NEW topic \in Topic, dataPublisher'[s][topic] < dataPublisher[s][topic]
      PROVE  s \in Under(fb)
  <2>1. dataPublisher \in [Stream -> [Topic -> Nat]]
    BY <1>1 DEF DataInv, TreeInv, TypeOK
  <2>2. dataPublisher' # dataPublisher
    BY <1>1, <2>1
  <2>3. ASSUME NEW t \in Stream, NEW to, dataPublisher' = Subscribe(dataPublisher, to, t) PROVE FALSE
    BY <1>1, <2>1, <2>3 DEF Subscribe
  <2>4. NextStream
    BY <1>1, <2>2
       DEF Next, vars, tables, NextCapture, AddCaptureModuleEmpty, RemoveCaptureModule, BeginUpdateCapture,
           EndUpdateCapture, AddCaptureModuleFromStatus, SetDeviceId, SetDeviceIdUpdating, UpdateDeviceId,
           FromStatusSubscribe, FromStatusDone, RemoveCaptureFinish, CaptureMoveSubscribe,
           NextInterface, AddInterface, RemoveInterface, BeginUpdateInterface, EndUpdateInterface,
           FromStatusInterface, SetInterfaceId, SetInterfaceIdUpdating, UpdateInterfaceId,
           RemoveInterfaceFinish, RemoveInterfaceThrow
  <2>5. ASSUME NEW t \in Stream, \/ RemoveStream(t) \/ \E id \in StreamIds : SetStreamId(t, id)
                                 \/ \E i \in Interface : AddStream(i, t)
                                 \/ \E i \in Interface, id \in StreamIds : FromStatusStream(i, t, id)
        PROVE  FALSE
    BY <2>2, <2>3, <2>5 DEF RemoveStream, SetStreamId, AddStream, FromStatusStream, CreateStream, tables
  <2>6. CASE MoveSubscribe
    <3>1. moving \in Stream
      BY <1>1, <2>6 DEF MoveSubscribe, DataInv, TreeInv, TypeOK
    <3> QED BY <2>3, <2>6, <3>1 DEF MoveSubscribe
  <2>7. ASSUME NEW t \in Stream, UnsubscribeStale(t) \/ MoveUnsubscribe(t) PROVE s \in Under(fb)
    BY <1>1, <2>7, LosesOwn DEF UnsubscribeStale, MoveUnsubscribe
  <2>8. CASE RemoveStreamUnsubscribe
    <3>1. fb \in Stream /\ stale[fb] # NoFb
      BY <1>1, <2>8 DEF RemoveStreamUnsubscribe, DataInv, TreeInv, BlockOK
    <3> QED BY <1>1, <2>8, <3>1, LosesOwn DEF RemoveStreamUnsubscribe
  <2> QED BY <2>4, <2>5, <2>6, <2>7, <2>8 DEF NextStream
<1>2. DataInv /\ MovesOK /\ [Next]_vars =>
        [~interruptedRemoval =>
           \A s \in Stream, topic \in Topic :
             dataPublisher'[s][topic] < dataPublisher[s][topic] => s \in Under(fb)]_vars
  BY <1>1
<1>3. Spec => []MovesOK
  <2>1. Init => MovesOK
    BY DEF Init, MovesOK
  <2> QED BY <2>1, MovesStep, TreeInvariant, PTL DEF Spec
<1> QED BY <1>2, <1>3, DataInvariant, PTL DEF Spec, OthersStaySubscribed

-----------------------------------------------------------------------------
(* The identifier pools.                                                   *)

\* What a pool knows of the ids that the children of its block have: it has given
\* out no other, none that it holds for reuse, and unless two children were ever
\* given one id all of them.
PoolOK(ids, taken, duplicate) ==
  /\ ids.used \subseteq taken
  /\ ids.used \cap ids.unused = {}
  /\ ~duplicate => taken \subseteq ids.used

InterfacesDiffer ==
  ~duplicateIds =>
    \A i, j \in Interface :
      /\ interface[i] # NoFb /\ interface[j] # NoFb /\ interface[i].parent = interface[j].parent
      /\ interface[i].interfaceId = interface[j].interfaceId
      => i = j
StreamsDiffer ==
  ~duplicateIds =>
    \A s, t \in Stream :
      /\ stream[s] # NoFb /\ stream[t] # NoFb /\ stream[s].parent = stream[t].parent
      /\ stream[s].streamId = stream[t].streamId
      => s = t

CapturePools ==
  \A c \in Capture : capture[c] # NoFb => PoolOK(capture[c].ids, InterfaceIdsOf(c), duplicateIds)
InterfacePools ==
  \A i \in Interface : interface[i] # NoFb => PoolOK(interface[i].ids, StreamIdsOf(i), duplicateIds)

\* The pools of both levels and the ids of the blocks below them.
InterfaceLevel == InterfacesDiffer /\ CapturePools
StreamLevel == StreamsDiffer /\ InterfacePools

LEMMA PoolAdd ==
  ASSUME NEW max \in Nat, NEW ids \in IdPools(max), NEW id \in 0..max, NEW taken, NEW duplicate \in BOOLEAN,
         PoolOK(ids, taken, duplicate)
  PROVE  PoolOK(AddId(ids, id, max), taken \cup {id}, duplicate \/ id \in taken)
BY DEF PoolOK, AddId, IsValidId, IdPools

LEMMA PoolRemove ==
  ASSUME NEW max \in Nat, NEW ids \in IdPools(max), NEW id \in 0..max, NEW rest, NEW duplicate \in BOOLEAN,
         PoolOK(ids, rest \cup {id}, duplicate), ~duplicate => id \notin rest
  PROVE  PoolOK(RemoveId(ids, id), rest, duplicate)
BY DEF PoolOK, RemoveId, IdPools

\* A pool whose parts are disjoint gives out an id that is not in use, unless all
\* from 1 on are.
LEMMA FirstUnusedFresh ==
  ASSUME NEW max \in Nat, NEW ids \in IdPools(max), ids.used \cap ids.unused = {},
         ~(1..max \subseteq ids.used)
  PROVE  FirstUnusedIds(ids, max) \cap ids.used = {}
BY DEF FirstUnusedIds, MinUnusedIds, IdPools

-----------------------------------------------------------------------------
(* The ids of Interface blocks.                                            *)

\* A step that changes no pool of a Capture block and no InterfaceId.
LEMMA KeepInterfaceLevel ==
  ASSUME TreeInv, InterfaceLevel, duplicateIds => duplicateIds',
         \A c \in Capture : capture'[c] # NoFb =>
           \/ capture[c] = NoFb /\ capture'[c].ids = EmptyIds
           \/ capture[c] # NoFb /\ capture'[c].ids = capture[c].ids,
         \A i \in Interface : interface'[i] # NoFb =>
           /\ interface[i] # NoFb /\ interface'[i].parent = interface[i].parent
           /\ interface'[i].interfaceId = interface[i].interfaceId,
         \A i \in Interface : interface[i] # NoFb /\ capture'[interface[i].parent] # NoFb => interface'[i] # NoFb
  PROVE  InterfaceLevel'
<1>1. InterfacesDiffer'
  BY DEF InterfaceLevel, InterfacesDiffer
<1>2. ASSUME NEW c \in Capture, capture'[c] # NoFb
      PROVE  PoolOK(capture'[c].ids, InterfaceIdsOf(c)', duplicateIds')
  <2>1. InterfaceIdsOf(c)' = InterfaceIdsOf(c)
    BY <1>2 DEF InterfaceIdsOf, InterfacesOf
  <2>2. CASE capture[c] = NoFb
    <3>1. InterfaceIdsOf(c) = {}
      BY <2>2 DEF InterfaceIdsOf, InterfacesOf, TreeInv, TreeOK
    <3>2. capture'[c].ids = EmptyIds
      BY <1>2, <2>2
    <3> QED BY <2>1, <3>1, <3>2 DEF PoolOK, EmptyIds
  <2>3. CASE capture[c] # NoFb
    <3>1. PoolOK(capture[c].ids, InterfaceIdsOf(c), duplicateIds) /\ capture'[c].ids = capture[c].ids
      BY <1>2, <2>3 DEF InterfaceLevel, CapturePools
    <3> QED BY <2>1, <3>1 DEF PoolOK
  <2> QED BY <2>2, <2>3
<1>3. CapturePools'
  BY <1>2 DEF CapturePools
<1> QED BY <1>1, <1>3 DEF InterfaceLevel

\* A new block under c.
LEMMA CreateInterfaceIds ==
  ASSUME TreeInv, InterfaceLevel, NEW c \in Capture, NEW i \in Interface, NEW id \in InterfaceIds,
         capture[c] # NoFb, CreateInterface(c, i, id)
  PROVE  InterfaceLevel'
<1> DEFINE newIds == AddId(capture[c].ids, id, MaxInterfaceId)
<1>1. /\ interface[i] = NoFb
      /\ \A x \in Interface : x # i => interface'[x] = interface[x]
      /\ interface'[i] # NoFb /\ interface'[i].parent = c /\ interface'[i].interfaceId = id
  BY CreateInterfaceTypes DEF TreeInv, CreateInterface
<1>2. capture[c].ids \in IdPools(MaxInterfaceId) /\ duplicateIds \in BOOLEAN /\ capture[c] \in CaptureRecord
  BY FieldTypes DEF TreeInv, TypeOK
<1>3. capture' = [capture EXCEPT ![c].ids = newIds] /\ duplicateIds' = (duplicateIds \/ id \in InterfaceIdsOf(c))
  BY DEF CreateInterface
<1>4. capture'[c].ids = newIds /\ \A x \in Capture : x # c => capture'[x] = capture[x]
  BY <1>2, <1>3 DEF TreeInv, TypeOK, CaptureRecord
<1>5. InterfaceIdsOf(c)' = InterfaceIdsOf(c) \cup {id}
  BY <1>1 DEF InterfaceIdsOf, InterfacesOf
<1>6. ASSUME NEW x \in Capture, x # c PROVE InterfaceIdsOf(x)' = InterfaceIdsOf(x)
  BY <1>1, <1>6 DEF InterfaceIdsOf, InterfacesOf
<1>7. InterfacesDiffer'
  <2>1. ~duplicateIds' =>
          \A j \in Interface : interface[j] # NoFb /\ interface[j].parent = c => interface[j].interfaceId # id
    BY <1>3 DEF InterfaceIdsOf, InterfacesOf
  <2> SUFFICES ASSUME ~duplicateIds', NEW j \in Interface, NEW k \in Interface,
                      interface'[j] # NoFb, interface'[k] # NoFb, interface'[j].parent = interface'[k].parent,
                      interface'[j].interfaceId = interface'[k].interfaceId, j # k
               PROVE  FALSE
    BY DEF InterfacesDiffer
  <2>2. CASE j # i /\ k # i
    BY <1>1, <1>3, <2>2 DEF InterfaceLevel, InterfacesDiffer
  <2>3. CASE j = i \/ k = i
    BY <1>1, <1>3, <2>1, <2>3
  <2> QED BY <2>2, <2>3
<1>8. ASSUME NEW x \in Capture, capture'[x] # NoFb
      PROVE  PoolOK(capture'[x].ids, InterfaceIdsOf(x)', duplicateIds')
  <2>1. CASE x = c
    <3>1. PoolOK(capture[c].ids, InterfaceIdsOf(c), duplicateIds)
      BY DEF InterfaceLevel, CapturePools
    <3>2. PoolOK(newIds, InterfaceIdsOf(c) \cup {id}, duplicateIds \/ id \in InterfaceIdsOf(c))
      BY <1>2, <3>1, PoolAdd, DataSinkAssumption DEF InterfaceIds
    <3> QED BY <1>3, <1>4, <1>5, <2>1, <3>2
  <2>2. CASE x # c
    <3>1. PoolOK(capture[x].ids, InterfaceIdsOf(x), duplicateIds) /\ capture'[x] = capture[x]
      BY <1>4, <1>8, <2>2 DEF InterfaceLevel, CapturePools
    <3> QED BY <1>3, <1>6, <2>2, <3>1 DEF PoolOK
  <2> QED BY <2>1, <2>2
<1> QED BY <1>7, <1>8 DEF InterfaceLevel, CapturePools

\* The ids of the siblings of i.
OtherInterfaceIds(i) == {interface[j].interfaceId : j \in InterfacesOf(interface[i].parent) \ {i}}

LEMMA TakenByInterfaces ==
  ASSUME TreeInv, InterfaceLevel, NEW i \in Interface, interface[i] # NoFb
  PROVE  /\ InterfaceIdsOf(interface[i].parent) = OtherInterfaceIds(i) \cup {interface[i].interfaceId}
         /\ ~duplicateIds => interface[i].interfaceId \notin OtherInterfaceIds(i)
         /\ PoolOK(capture[interface[i].parent].ids, OtherInterfaceIds(i) \cup {interface[i].interfaceId},
                   duplicateIds)
<1>1. InterfaceIdsOf(interface[i].parent) = OtherInterfaceIds(i) \cup {interface[i].interfaceId}
  BY DEF InterfaceIdsOf, OtherInterfaceIds, InterfacesOf
<1>2. ~duplicateIds => interface[i].interfaceId \notin OtherInterfaceIds(i)
  BY DEF InterfaceLevel, InterfacesDiffer, OtherInterfaceIds, InterfacesOf
<1>3. interface[i].parent \in Capture /\ capture[interface[i].parent] # NoFb
  BY FieldTypes DEF TreeInv, TreeOK
<1>4. PoolOK(capture[interface[i].parent].ids, InterfaceIdsOf(interface[i].parent), duplicateIds)
  BY <1>3 DEF InterfaceLevel, CapturePools
<1> QED BY <1>1, <1>2, <1>4

LEMMA RemoveInterfaceFinishIds ==
  ASSUME TreeInv, InterfaceLevel, RemoveInterfaceFinish
  PROVE  InterfaceLevel'
<1>1. PICK i \in Interface : i = fb /\ interface[i] # NoFb
  BY DEF RemoveInterfaceFinish, TreeInv, BlockOK
<1>2. PICK c \in Capture : c = interface[i].parent /\ capture[c] # NoFb
  BY <1>1, FieldTypes DEF TreeInv, TreeOK
<1> DEFINE id == interface[i].interfaceId
           newIds == RemoveId(capture[c].ids, id)
<1>3. /\ capture[c].ids \in IdPools(MaxInterfaceId) /\ duplicateIds \in BOOLEAN /\ id \in InterfaceIds
      /\ capture[c] \in CaptureRecord
  BY <1>1, <1>2, FieldTypes DEF TreeInv, TypeOK
<1>4. /\ capture' = [capture EXCEPT ![c].ids = newIds] /\ interface' = [interface EXCEPT ![i] = NoFb]
      /\ duplicateIds' = duplicateIds
  BY <1>1, <1>2 DEF RemoveInterfaceFinish, history
<1>5. capture'[c].ids = newIds /\ \A x \in Capture : x # c => capture'[x] = capture[x]
  BY <1>3, <1>4 DEF TreeInv, TypeOK, CaptureRecord
<1>6. interface'[i] = NoFb /\ \A x \in Interface : x # i => interface'[x] = interface[x]
  BY <1>4 DEF TreeInv, TypeOK
<1>7. InterfaceIdsOf(c)' = OtherInterfaceIds(i)
  BY <1>2, <1>6 DEF InterfaceIdsOf, InterfacesOf, OtherInterfaceIds
<1>8. ASSUME NEW x \in Capture, x # c PROVE InterfaceIdsOf(x)' = InterfaceIdsOf(x)
  BY <1>2, <1>6, <1>8 DEF InterfaceIdsOf, InterfacesOf
<1>9. InterfacesDiffer'
  BY <1>4, <1>6 DEF InterfaceLevel, InterfacesDiffer
<1>10. ASSUME NEW x \in Capture, capture'[x] # NoFb
       PROVE  PoolOK(capture'[x].ids, InterfaceIdsOf(x)', duplicateIds')
  <2>1. CASE x = c
    <3>1. PoolOK(capture[c].ids, OtherInterfaceIds(i) \cup {id}, duplicateIds)
      BY <1>1, <1>2, TakenByInterfaces
    <3>2. ~duplicateIds => id \notin OtherInterfaceIds(i)
      BY <1>1, TakenByInterfaces
    <3>3. PoolOK(newIds, OtherInterfaceIds(i), duplicateIds)
      BY <1>3, <3>1, <3>2, PoolRemove, DataSinkAssumption DEF InterfaceIds
    <3> QED BY <1>4, <1>5, <1>7, <2>1, <3>3
  <2>2. CASE x # c
    <3>1. PoolOK(capture[x].ids, InterfaceIdsOf(x), duplicateIds) /\ capture'[x] = capture[x]
      BY <1>5, <1>10, <2>2 DEF InterfaceLevel, CapturePools
    <3> QED BY <1>4, <1>8, <2>2, <3>1
  <2> QED BY <2>1, <2>2
<1> QED BY <1>9, <1>10 DEF InterfaceLevel, CapturePools

LEMMA UpdateInterfaceIdIds ==
  ASSUME TreeInv, InterfaceLevel, NEW i \in Interface, NEW id \in InterfaceIds, Idle, interface[i] # NoFb,
         UpdateInterfaceId(i, id)
  PROVE  InterfaceLevel'
<1>1. PICK c \in Capture : c = interface[i].parent /\ capture[c] # NoFb
  BY FieldTypes DEF TreeInv, TreeOK
<1> DEFINE old == interface[i].interfaceId
           newIds == AddId(RemoveId(capture[c].ids, old), id, MaxInterfaceId)
<1>2. /\ capture[c].ids \in IdPools(MaxInterfaceId) /\ duplicateIds \in BOOLEAN /\ old \in InterfaceIds
      /\ capture[c] \in CaptureRecord
  BY <1>1, FieldTypes DEF TreeInv, TypeOK
<1>3. /\ capture' = [capture EXCEPT ![c].ids = newIds]
      /\ duplicateIds' = (duplicateIds \/ id \in InterfaceIdsOf(c))
  BY <1>1 DEF UpdateInterfaceId
<1>4. capture'[c].ids = newIds /\ \A x \in Capture : x # c => capture'[x] = capture[x]
  BY <1>2, <1>3 DEF TreeInv, TypeOK, CaptureRecord
<1>5. /\ \A x \in Interface : x # i => interface'[x] = interface[x]
      /\ interface'[i].parent = c /\ interface'[i].interfaceId = id
  BY <1>1, UpdateInterfaceIdTree
<1>6. interface'[i] # NoFb
  BY UpdateInterfaceIdTree
<1>7. InterfaceIdsOf(c)' = OtherInterfaceIds(i) \cup {id}
  BY <1>1, <1>5, <1>6 DEF InterfaceIdsOf, InterfacesOf, OtherInterfaceIds
<1>8. ASSUME NEW x \in Capture, x # c PROVE InterfaceIdsOf(x)' = InterfaceIdsOf(x)
  BY <1>1, <1>5, <1>8 DEF InterfaceIdsOf, InterfacesOf
<1>9. InterfacesDiffer'
  <2>1. ~duplicateIds' =>
          \A j \in Interface : interface[j] # NoFb /\ interface[j].parent = c => interface[j].interfaceId # id
    BY <1>3 DEF InterfaceIdsOf, InterfacesOf
  <2> SUFFICES ASSUME ~duplicateIds', NEW j \in Interface, NEW k \in Interface,
                      interface'[j] # NoFb, interface'[k] # NoFb, interface'[j].parent = interface'[k].parent,
                      interface'[j].interfaceId = interface'[k].interfaceId, j # k
               PROVE  FALSE
    BY DEF InterfacesDiffer
  <2>2. CASE j # i /\ k # i
    BY <1>1, <1>3, <1>5, <2>2 DEF InterfaceLevel, InterfacesDiffer
  <2>3. CASE j = i \/ k = i
    BY <1>1, <1>3, <1>5, <2>1, <2>3
  <2> QED BY <2>2, <2>3
<1>10. ASSUME NEW x \in Capture, capture'[x] # NoFb
       PROVE  PoolOK(capture'[x].ids, InterfaceIdsOf(x)', duplicateIds')
  <2>1. CASE x = c
    <3>1. PoolOK(capture[c].ids, OtherInterfaceIds(i) \cup {old}, duplicateIds)
      BY <1>1, TakenByInterfaces
    <3>2. /\ ~duplicateIds => old \notin OtherInterfaceIds(i)
          /\ InterfaceIdsOf(c) = OtherInterfaceIds(i) \cup {old}
      BY <1>1, TakenByInterfaces
    <3>3. MaxInterfaceId \in Nat /\ old \in 0..MaxInterfaceId /\ id \in 0..MaxInterfaceId
      BY <1>2, DataSinkAssumption DEF InterfaceIds
    <3>4. PoolOK(RemoveId(capture[c].ids, old), OtherInterfaceIds(i), duplicateIds)
      BY <1>2, <3>1, <3>2, <3>3, PoolRemove
    <3>5. RemoveId(capture[c].ids, old) \in IdPools(MaxInterfaceId)
      BY <1>2, <3>3, IdPoolType
    <3>6. PoolOK(newIds, OtherInterfaceIds(i) \cup {id}, duplicateIds \/ id \in OtherInterfaceIds(i))
      <4> DEFINE pool == RemoveId(capture[c].ids, old)
                 rest == OtherInterfaceIds(i)
      <4>1. pool \in IdPools(MaxInterfaceId) /\ PoolOK(pool, rest, duplicateIds)
        BY <3>4, <3>5
      <4> HIDE DEF pool, rest
      <4>2. PoolOK(AddId(pool, id, MaxInterfaceId), rest \cup {id}, duplicateIds \/ id \in rest)
        BY <1>2, <3>3, <4>1, PoolAdd
      <4> QED BY <4>2 DEF pool, rest
    <3>7. PoolOK(newIds, OtherInterfaceIds(i) \cup {id}, duplicateIds')
      BY <1>3, <3>2, <3>6 DEF PoolOK
    <3> QED BY <1>4, <1>7, <2>1, <3>7
  <2>2. CASE x # c
    <3>1. PoolOK(capture[x].ids, InterfaceIdsOf(x), duplicateIds) /\ capture'[x] = capture[x]
      BY <1>4, <1>10, <2>2 DEF InterfaceLevel, CapturePools
    <3> QED BY <1>3, <1>8, <2>2, <3>1 DEF PoolOK
  <2> QED BY <2>1, <2>2
<1> QED BY <1>9, <1>10 DEF InterfaceLevel, CapturePools

-----------------------------------------------------------------------------
(* The ids of Stream blocks.                                               *)

\* A step that changes no pool of an Interface block and no StreamId.
LEMMA KeepStreamLevel ==
  ASSUME TreeInv, StreamLevel, duplicateIds => duplicateIds',
         \A i \in Interface : interface'[i] # NoFb =>
           \/ interface[i] = NoFb /\ interface'[i].ids = EmptyIds
           \/ interface[i] # NoFb /\ interface'[i].ids = interface[i].ids,
         \A s \in Stream : stream'[s] # NoFb =>
           /\ stream[s] # NoFb /\ stream'[s].parent = stream[s].parent
           /\ stream'[s].streamId = stream[s].streamId,
         \A s \in Stream : stream[s] # NoFb /\ interface'[stream[s].parent] # NoFb => stream'[s] # NoFb
  PROVE  StreamLevel'
<1>1. StreamsDiffer'
  BY DEF StreamLevel, StreamsDiffer
<1>2. ASSUME NEW i \in Interface, interface'[i] # NoFb
      PROVE  PoolOK(interface'[i].ids, StreamIdsOf(i)', duplicateIds')
  <2>1. StreamIdsOf(i)' = StreamIdsOf(i)
    BY <1>2 DEF StreamIdsOf, StreamsOf
  <2>2. CASE interface[i] = NoFb
    <3>1. StreamIdsOf(i) = {}
      BY <2>2 DEF StreamIdsOf, StreamsOf, TreeInv, TreeOK
    <3>2. interface'[i].ids = EmptyIds
      BY <1>2, <2>2
    <3> QED BY <2>1, <3>1, <3>2 DEF PoolOK, EmptyIds
  <2>3. CASE interface[i] # NoFb
    <3>1. PoolOK(interface[i].ids, StreamIdsOf(i), duplicateIds) /\ interface'[i].ids = interface[i].ids
      BY <1>2, <2>3 DEF StreamLevel, InterfacePools
    <3> QED BY <2>1, <3>1 DEF PoolOK
  <2> QED BY <2>2, <2>3
<1>3. InterfacePools'
  BY <1>2 DEF InterfacePools
<1> QED BY <1>1, <1>3 DEF StreamLevel

\* A new block under i.
LEMMA CreateStreamIds ==
  ASSUME TreeInv, StreamLevel, NEW i \in Interface, NEW s \in Stream, NEW id \in StreamIds,
         interface[i] # NoFb, CreateStream(i, s, id)
  PROVE  StreamLevel'
<1> DEFINE newIds == AddId(interface[i].ids, id, MaxStreamId)
<1>1. /\ stream[s] = NoFb
      /\ \A x \in Stream : x # s => stream'[x] = stream[x]
      /\ stream'[s] # NoFb /\ stream'[s].parent = i /\ stream'[s].streamId = id
  <2>1. stream[s] = NoFb
    BY DEF CreateStream
  <2> QED BY <2>1, CreateStreamTypes DEF TreeInv
<1>2. interface[i].ids \in IdPools(MaxStreamId) /\ duplicateIds \in BOOLEAN /\ interface[i] \in InterfaceRecord
  BY FieldTypes DEF TreeInv, TypeOK
<1>3. interface' = [interface EXCEPT ![i].ids = newIds] /\ duplicateIds' = (duplicateIds \/ id \in StreamIdsOf(i))
  BY DEF CreateStream
<1>4. interface'[i].ids = newIds /\ \A x \in Interface : x # i => interface'[x] = interface[x]
  BY <1>2, <1>3 DEF TreeInv, TypeOK, InterfaceRecord
<1>5. StreamIdsOf(i)' = StreamIdsOf(i) \cup {id}
  BY <1>1 DEF StreamIdsOf, StreamsOf
<1>6. ASSUME NEW x \in Interface, x # i PROVE StreamIdsOf(x)' = StreamIdsOf(x)
  BY <1>1, <1>6 DEF StreamIdsOf, StreamsOf
<1>7. StreamsDiffer'
  <2>1. ~duplicateIds' => \A t \in Stream : stream[t] # NoFb /\ stream[t].parent = i => stream[t].streamId # id
    BY <1>3 DEF StreamIdsOf, StreamsOf
  <2> SUFFICES ASSUME ~duplicateIds', NEW t \in Stream, NEW u \in Stream,
                      stream'[t] # NoFb, stream'[u] # NoFb, stream'[t].parent = stream'[u].parent,
                      stream'[t].streamId = stream'[u].streamId, t # u
               PROVE  FALSE
    BY DEF StreamsDiffer
  <2>2. CASE t # s /\ u # s
    BY <1>1, <1>3, <2>2 DEF StreamLevel, StreamsDiffer
  <2>3. CASE t = s \/ u = s
    BY <1>1, <1>3, <2>1, <2>3
  <2> QED BY <2>2, <2>3
<1>8. ASSUME NEW x \in Interface, interface'[x] # NoFb
      PROVE  PoolOK(interface'[x].ids, StreamIdsOf(x)', duplicateIds')
  <2>1. CASE x = i
    <3>1. PoolOK(interface[i].ids, StreamIdsOf(i), duplicateIds)
      BY DEF StreamLevel, InterfacePools
    <3>2. PoolOK(newIds, StreamIdsOf(i) \cup {id}, duplicateIds \/ id \in StreamIdsOf(i))
      BY <1>2, <3>1, PoolAdd, DataSinkAssumption DEF StreamIds
    <3> QED BY <1>3, <1>4, <1>5, <2>1, <3>2
  <2>2. CASE x # i
    <3>1. PoolOK(interface[x].ids, StreamIdsOf(x), duplicateIds) /\ interface'[x] = interface[x]
      BY <1>4, <1>8, <2>2 DEF StreamLevel, InterfacePools
    <3> QED BY <1>3, <1>6, <2>2, <3>1 DEF PoolOK
  <2> QED BY <2>1, <2>2
<1> QED BY <1>7, <1>8 DEF StreamLevel, InterfacePools

\* The ids of the siblings of s.
OtherStreamIds(s) == {stream[t].streamId : t \in StreamsOf(stream[s].parent) \ {s}}

LEMMA TakenByStreams ==
  ASSUME TreeInv, StreamLevel, NEW s \in Stream, stream[s] # NoFb
  PROVE  /\ StreamIdsOf(stream[s].parent) = OtherStreamIds(s) \cup {stream[s].streamId}
         /\ ~duplicateIds => stream[s].streamId \notin OtherStreamIds(s)
         /\ PoolOK(interface[stream[s].parent].ids, OtherStreamIds(s) \cup {stream[s].streamId},
                   duplicateIds)
<1>1. StreamIdsOf(stream[s].parent) = OtherStreamIds(s) \cup {stream[s].streamId}
  BY DEF StreamIdsOf, OtherStreamIds, StreamsOf
<1>2. ~duplicateIds => stream[s].streamId \notin OtherStreamIds(s)
  BY DEF StreamLevel, StreamsDiffer, OtherStreamIds, StreamsOf
<1>3. stream[s].parent \in Interface /\ interface[stream[s].parent] # NoFb
  BY FieldTypes DEF TreeInv, TreeOK
<1>4. PoolOK(interface[stream[s].parent].ids, StreamIdsOf(stream[s].parent), duplicateIds)
  BY <1>3 DEF StreamLevel, InterfacePools
<1> QED BY <1>1, <1>2, <1>4

LEMMA RemoveStreamIds ==
  ASSUME TreeInv, StreamLevel, NEW s \in Stream, RemoveStream(s)
  PROVE  StreamLevel'
<1>1. stream[s] # NoFb
  BY DEF RemoveStream
<1>2. PICK i \in Interface : i = stream[s].parent /\ interface[i] # NoFb
  BY <1>1, FieldTypes DEF TreeInv, TreeOK
<1> DEFINE id == stream[s].streamId
           newIds == RemoveId(interface[i].ids, id)
<1>3. /\ interface[i].ids \in IdPools(MaxStreamId) /\ duplicateIds \in BOOLEAN /\ id \in StreamIds
      /\ interface[i] \in InterfaceRecord
  BY <1>1, <1>2, FieldTypes DEF TreeInv, TypeOK
<1>4. /\ interface' = [interface EXCEPT ![i].ids = newIds] /\ stream' = [stream EXCEPT ![s] = NoFb]
      /\ duplicateIds' = duplicateIds
  BY <1>1, <1>2 DEF RemoveStream, history
<1>5. interface'[i].ids = newIds /\ \A x \in Interface : x # i => interface'[x] = interface[x]
  BY <1>3, <1>4 DEF TreeInv, TypeOK, InterfaceRecord
<1>6. stream'[s] = NoFb /\ \A x \in Stream : x # s => stream'[x] = stream[x]
  BY <1>4 DEF TreeInv, TypeOK
<1>7. StreamIdsOf(i)' = OtherStreamIds(s)
  BY <1>2, <1>6 DEF StreamIdsOf, StreamsOf, OtherStreamIds
<1>8. ASSUME NEW x \in Interface, x # i PROVE StreamIdsOf(x)' = StreamIdsOf(x)
  BY <1>2, <1>6, <1>8 DEF StreamIdsOf, StreamsOf
<1>9. StreamsDiffer'
  BY <1>4, <1>6 DEF StreamLevel, StreamsDiffer
<1>10. ASSUME NEW x \in Interface, interface'[x] # NoFb
       PROVE  PoolOK(interface'[x].ids, StreamIdsOf(x)', duplicateIds')
  <2>1. CASE x = i
    <3>1. PoolOK(interface[i].ids, OtherStreamIds(s) \cup {id}, duplicateIds)
      BY <1>1, <1>2, TakenByStreams
    <3>2. ~duplicateIds => id \notin OtherStreamIds(s)
      BY <1>1, TakenByStreams
    <3>3. PoolOK(newIds, OtherStreamIds(s), duplicateIds)
      BY <1>3, <3>1, <3>2, PoolRemove, DataSinkAssumption DEF StreamIds
    <3> QED BY <1>4, <1>5, <1>7, <2>1, <3>3
  <2>2. CASE x # i
    <3>1. PoolOK(interface[x].ids, StreamIdsOf(x), duplicateIds) /\ interface'[x] = interface[x]
      BY <1>5, <1>10, <2>2 DEF StreamLevel, InterfacePools
    <3> QED BY <1>4, <1>8, <2>2, <3>1
  <2> QED BY <2>1, <2>2
<1> QED BY <1>9, <1>10 DEF StreamLevel, InterfacePools

LEMMA SetStreamIdIds ==
  ASSUME TreeInv, StreamLevel, NEW s \in Stream, NEW id \in StreamIds, SetStreamId(s, id)
  PROVE  StreamLevel'
<1>1. stream[s] # NoFb /\ stream[s] \in StreamRecord
  BY FieldTypes DEF SetStreamId, TreeInv
<1>2. PICK i \in Interface : i = stream[s].parent /\ interface[i] # NoFb
  BY <1>1, FieldTypes DEF TreeInv, TreeOK
<1> DEFINE old == stream[s].streamId
           newIds == AddId(RemoveId(interface[i].ids, old), id, MaxStreamId)
<1>3. /\ interface[i].ids \in IdPools(MaxStreamId) /\ duplicateIds \in BOOLEAN /\ old \in StreamIds
      /\ interface[i] \in InterfaceRecord
  BY <1>1, <1>2, FieldTypes DEF TreeInv, TypeOK
<1>4. /\ interface' = [interface EXCEPT ![i].ids = newIds] /\ stream' = [stream EXCEPT ![s].streamId = id]
      /\ duplicateIds' = (duplicateIds \/ id \in StreamIdsOf(i))
  BY <1>2 DEF SetStreamId
<1>5. interface'[i].ids = newIds /\ \A x \in Interface : x # i => interface'[x] = interface[x]
  BY <1>3, <1>4 DEF TreeInv, TypeOK, InterfaceRecord
<1>6. /\ \A x \in Stream : x # s => stream'[x] = stream[x]
      /\ stream'[s].parent = i /\ stream'[s].streamId = id
  BY <1>1, <1>2, <1>4 DEF StreamRecord, TreeInv, TypeOK
<1>7. StreamIdsOf(i)' = OtherStreamIds(s) \cup {id}
  <2>1. stream'[s] # NoFb
    <3> DEFINE r == [stream[s] EXCEPT !.streamId = id]
    <3>1. r \in StreamRecord /\ stream'[s] = r
      BY <1>1, <1>4 DEF StreamRecord, TreeInv, TypeOK
    <3> HIDE DEF r
    <3> QED BY <3>1, DataSinkAssumption
  <2> QED BY <1>2, <1>6, <2>1 DEF StreamIdsOf, StreamsOf, OtherStreamIds
<1>8. ASSUME NEW x \in Interface, x # i PROVE StreamIdsOf(x)' = StreamIdsOf(x)
  BY <1>2, <1>6, <1>8 DEF StreamIdsOf, StreamsOf
<1>9. StreamsDiffer'
  <2>1. ~duplicateIds' => \A t \in Stream : stream[t] # NoFb /\ stream[t].parent = i => stream[t].streamId # id
    BY <1>4 DEF StreamIdsOf, StreamsOf
  <2> SUFFICES ASSUME ~duplicateIds', NEW t \in Stream, NEW u \in Stream,
                      stream'[t] # NoFb, stream'[u] # NoFb, stream'[t].parent = stream'[u].parent,
                      stream'[t].streamId = stream'[u].streamId, t # u
               PROVE  FALSE
    BY DEF StreamsDiffer
  <2>2. CASE t # s /\ u # s
    BY <1>4, <1>6, <2>2 DEF StreamLevel, StreamsDiffer
  <2>3. CASE t = s \/ u = s
    BY <1>4, <1>6, <2>1, <2>3
  <2> QED BY <2>2, <2>3
<1>10. ASSUME NEW x \in Interface, interface'[x] # NoFb
       PROVE  PoolOK(interface'[x].ids, StreamIdsOf(x)', duplicateIds')
  <2>1. CASE x = i
    <3>1. PoolOK(interface[i].ids, OtherStreamIds(s) \cup {old}, duplicateIds)
      BY <1>1, <1>2, TakenByStreams
    <3>2. /\ ~duplicateIds => old \notin OtherStreamIds(s)
          /\ StreamIdsOf(i) = OtherStreamIds(s) \cup {old}
      BY <1>1, <1>2, TakenByStreams
    <3>3. MaxStreamId \in Nat /\ old \in 0..MaxStreamId /\ id \in 0..MaxStreamId
      BY <1>3, DataSinkAssumption DEF StreamIds
    <3>4. PoolOK(RemoveId(interface[i].ids, old), OtherStreamIds(s), duplicateIds)
      BY <1>3, <3>1, <3>2, <3>3, PoolRemove
    <3>5. RemoveId(interface[i].ids, old) \in IdPools(MaxStreamId)
      BY <1>3, <3>3, IdPoolType
    <3>6. PoolOK(newIds, OtherStreamIds(s) \cup {id}, duplicateIds \/ id \in OtherStreamIds(s))
      <4> DEFINE pool == RemoveId(interface[i].ids, old)
                 rest == OtherStreamIds(s)
      <4>1. pool \in IdPools(MaxStreamId) /\ PoolOK(pool, rest, duplicateIds)
        BY <3>4, <3>5
      <4> HIDE DEF pool, rest
      <4>2. PoolOK(AddId(pool, id, MaxStreamId), rest \cup {id}, duplicateIds \/ id \in rest)
        BY <1>3, <3>3, <4>1, PoolAdd
      <4> QED BY <4>2 DEF pool, rest
    <3>7. PoolOK(newIds, OtherStreamIds(s) \cup {id}, duplicateIds')
      BY <1>4, <3>2, <3>6 DEF PoolOK
    <3> QED BY <1>5, <1>7, <2>1, <3>7
  <2>2. CASE x # i
    <3>1. PoolOK(interface[x].ids, StreamIdsOf(x), duplicateIds) /\ interface'[x] = interface[x]
      BY <1>5, <1>10, <2>2 DEF StreamLevel, InterfacePools
    <3> QED BY <1>4, <1>8, <2>2, <3>1 DEF PoolOK
  <2> QED BY <2>1, <2>2
<1> QED BY <1>9, <1>10 DEF StreamLevel, InterfacePools

-----------------------------------------------------------------------------
(* Every step preserves the two levels.                                    *)

IdsInv == InterfaceLevel /\ StreamLevel

\* A step that only changes Capture blocks, and the pool of none.
LEMMA CaptureIds ==
  ASSUME TreeInv, IdsInv, duplicateIds' = duplicateIds, UNCHANGED <<interface, stream>>,
         NEW c \in Capture, NEW r, capture' = [capture EXCEPT ![c] = r],
         IF capture[c] = NoFb THEN r.ids = EmptyIds ELSE r.ids = capture[c].ids
  PROVE  IdsInv'
<1>1. ASSUME NEW x \in Capture, capture'[x] # NoFb
      PROVE  \/ capture[x] = NoFb /\ capture'[x].ids = EmptyIds
             \/ capture[x] # NoFb /\ capture'[x].ids = capture[x].ids
  BY <1>1 DEF TreeInv, TypeOK
<1>2. InterfaceLevel'
  BY <1>1, KeepInterfaceLevel DEF IdsInv
<1>3. StreamLevel'
  BY KeepStreamLevel DEF IdsInv
<1> QED BY <1>2, <1>3 DEF IdsInv

LEMMA NextCaptureIds ==
  ASSUME TreeInv, IdsInv, NextCapture
  PROVE  IdsInv'
<1>1. ASSUME NEW c \in Capture, NEW deviceId, UpdateDeviceId(c, deviceId), capture[c] # NoFb PROVE IdsInv'
  <2> DEFINE r == [capture[c] EXCEPT !.deviceId = deviceId, !.updating = FALSE, !.pending = 0]
  <2>1. r.ids = capture[c].ids
    BY <1>1, FieldTypes DEF TreeInv, CaptureRecord
  <2>2. capture' = [capture EXCEPT ![c] = r] /\ duplicateIds' = duplicateIds /\ UNCHANGED <<interface, stream>>
    BY <1>1 DEF UpdateDeviceId, history
  <2> HIDE DEF r
  <2> QED BY <1>1, <2>1, <2>2, CaptureIds
<1>2. ASSUME NEW c \in Capture, capture[c] # NoFb, NEW updating, NEW pending,
             capture' = [capture EXCEPT ![c].updating = updating, ![c].pending = pending],
             duplicateIds' = duplicateIds, UNCHANGED <<interface, stream>>
      PROVE  IdsInv'
  <2> DEFINE r == [capture[c] EXCEPT !.updating = updating, !.pending = pending]
  <2>1. r.ids = capture[c].ids
    BY <1>2, FieldTypes DEF TreeInv, CaptureRecord
  <2>2. capture' = [capture EXCEPT ![c] = r]
    BY <1>2
  <2> HIDE DEF r
  <2> QED BY <1>2, <2>1, <2>2, CaptureIds
<1>3. ASSUME NEW c \in Capture, NEW d, capture[c] = NoFb, capture' = [capture EXCEPT ![c] = NewCapture(d)],
             duplicateIds' = duplicateIds, UNCHANGED <<interface, stream>>
      PROVE  IdsInv'
  <2>1. NewCapture(d).ids = EmptyIds
    BY DEF NewCapture
  <2> QED BY <1>3, <2>1, CaptureIds
<1>4. ASSUME UNCHANGED <<capture, interface, stream, duplicateIds>> PROVE IdsInv'
  <2>1. InterfaceLevel'
    BY <1>4, KeepInterfaceLevel DEF IdsInv
  <2>2. StreamLevel'
    BY <1>4, KeepStreamLevel DEF IdsInv
  <2> QED BY <2>1, <2>2 DEF IdsInv
<1>5. ASSUME NEW c \in Capture PROVE AddCaptureModuleEmpty(c) => IdsInv'
  BY <1>3, <1>5 DEF AddCaptureModuleEmpty, history
<1>6. ASSUME NEW c \in Capture PROVE RemoveCaptureModule(c) => IdsInv'
  BY <1>4, <1>6 DEF RemoveCaptureModule, history
<1>7. ASSUME NEW c \in Capture PROVE BeginUpdateCapture(c) => IdsInv'
  BY <1>2, <1>7 DEF BeginUpdateCapture, history
<1>8. ASSUME NEW c \in Capture, EndUpdateCapture(c) PROVE IdsInv'
  <2>1. CASE capture[c].pending # capture[c].deviceId
    BY <1>1, <1>8, <2>1 DEF EndUpdateCapture
  <2>2. CASE capture[c].pending = capture[c].deviceId
    BY <1>2, <1>8, <2>2 DEF EndUpdateCapture, history
  <2> QED BY <2>1, <2>2
<1>9. ASSUME NEW c \in Capture, NEW d \in DeviceIds PROVE AddCaptureModuleFromStatus(c, d) => IdsInv'
  BY <1>3, <1>9 DEF AddCaptureModuleFromStatus
<1>10. ASSUME NEW c \in Capture, NEW d \in DeviceIds PROVE SetDeviceId(c, d) => IdsInv'
  BY <1>1, <1>10 DEF SetDeviceId
<1>11. ASSUME NEW c \in Capture, NEW d \in DeviceIds, SetDeviceIdUpdating(c, d) PROVE IdsInv'
  <2>1. /\ capture[c] # NoFb /\ capture[c].updating \in BOOLEAN /\ capture[c].updating
        /\ duplicateIds' = duplicateIds /\ UNCHANGED <<interface, stream>>
        /\ capture' = [capture EXCEPT ![c].pending = d]
    BY <1>11, FieldTypes DEF SetDeviceIdUpdating, history, TreeInv, CaptureRecord
  <2> DEFINE r == [capture[c] EXCEPT !.pending = d]
  <2>2. r.ids = capture[c].ids
    BY <2>1, FieldTypes DEF TreeInv, CaptureRecord
  <2>3. capture' = [capture EXCEPT ![c] = r]
    BY <2>1
  <2> HIDE DEF r
  <2> QED BY <2>1, <2>2, <2>3, CaptureIds
<1>12. CASE FromStatusSubscribe \/ FromStatusDone \/ CaptureMoveSubscribe
  BY <1>4, <1>12 DEF FromStatusSubscribe, FromStatusDone, CaptureMoveSubscribe, history
<1>13. CASE RemoveCaptureFinish
  <2>1. PICK c \in Capture : c = fb
    BY <1>13 DEF RemoveCaptureFinish, TreeInv, BlockOK
  <2>2. /\ capture' = [capture EXCEPT ![c] = NoFb] /\ duplicateIds' = duplicateIds
        /\ interface' = [i \in Interface |-> IF i \in InterfacesOf(c) THEN NoFb ELSE interface[i]]
        /\ stream' = [s \in Stream |-> IF s \in StreamsUnder(c) THEN NoFb ELSE stream[s]]
    BY <1>13, <2>1 DEF RemoveCaptureFinish, history
  <2>3. \A x \in Capture : capture'[x] # NoFb => capture[x] # NoFb /\ capture'[x].ids = capture[x].ids
    BY <2>2 DEF TreeInv, TypeOK
  <2>4. \A i \in Interface : interface'[i] # NoFb => interface[i] # NoFb /\ interface'[i] = interface[i]
    BY <2>2
  <2>5. \A i \in Interface : interface[i] # NoFb /\ capture'[interface[i].parent] # NoFb => interface'[i] # NoFb
    <3>1. ASSUME NEW i \in Interface, interface[i] # NoFb, capture'[interface[i].parent] # NoFb
          PROVE  interface'[i] # NoFb
      <4>1. interface[i].parent # c
        BY <2>2, <3>1, FieldTypes DEF TreeInv, TypeOK
      <4> QED BY <2>2, <3>1, <4>1 DEF InterfacesOf
    <3> QED BY <3>1
  <2>6. \A s \in Stream : stream'[s] # NoFb => stream[s] # NoFb /\ stream'[s] = stream[s]
    BY <2>2
  <2>7. \A s \in Stream : stream[s] # NoFb /\ interface'[stream[s].parent] # NoFb => stream'[s] # NoFb
    BY <2>2, FieldTypes DEF TreeInv, TreeOK, StreamsUnder, InterfacesOf
  <2>8. InterfaceLevel'
    BY <2>2, <2>3, <2>4, <2>5, KeepInterfaceLevel DEF IdsInv
  <2>9. StreamLevel'
    BY <2>2, <2>4, <2>6, <2>7, KeepStreamLevel DEF IdsInv
  <2> QED BY <2>8, <2>9 DEF IdsInv
<1> QED BY <1>5, <1>6, <1>7, <1>8, <1>9, <1>10, <1>11, <1>12, <1>13 DEF NextCapture

LEMMA UnchangedIds ==
  ASSUME TreeInv, IdsInv, UNCHANGED <<capture, interface, stream, duplicateIds>>
  PROVE  IdsInv'
<1>1. InterfaceLevel'
  BY KeepInterfaceLevel DEF IdsInv
<1>2. StreamLevel'
  BY KeepStreamLevel DEF IdsInv
<1> QED BY <1>1, <1>2 DEF IdsInv

LEMMA NextInterfaceIds ==
  ASSUME TreeInv, IdsInv, NextInterface
  PROVE  IdsInv'
<1>1. ASSUME NEW c \in Capture, NEW i \in Interface, NEW id \in InterfaceIds, capture[c] # NoFb,
             CreateInterface(c, i, id), stream' = stream
      PROVE  IdsInv'
  <2>1. InterfaceLevel'
    BY <1>1, CreateInterfaceIds DEF IdsInv
  <2>2. interface[i] = NoFb /\ interface' = [interface EXCEPT ![i] = NewInterface(c, id)]
    BY <1>1 DEF CreateInterface
  <2>3. interface'[i].ids = EmptyIds /\ \A x \in Interface : x # i => interface'[x] = interface[x]
    BY <2>2 DEF TreeInv, TypeOK, NewInterface
  <2>4. ASSUME NEW x \in Interface, interface'[x] # NoFb
        PROVE  \/ interface[x] = NoFb /\ interface'[x].ids = EmptyIds
               \/ interface[x] # NoFb /\ interface'[x].ids = interface[x].ids
    BY <2>2, <2>3, <2>4
  <2>5. duplicateIds => duplicateIds'
    BY <1>1 DEF CreateInterface
  <2>6. StreamLevel'
    BY <1>1, <2>4, <2>5, KeepStreamLevel DEF IdsInv
  <2> QED BY <2>1, <2>6 DEF IdsInv
<1>2. ASSUME NEW i \in Interface, interface[i] # NoFb, NEW r, interface' = [interface EXCEPT ![i] = r],
             r.parent = interface[i].parent, r.interfaceId = interface[i].interfaceId,
             r.ids = interface[i].ids, r # NoFb, UNCHANGED <<capture, stream, duplicateIds>>
      PROVE  IdsInv'
  <2>1. \A x \in Interface : x # i => interface'[x] = interface[x]
    BY <1>2 DEF TreeInv, TypeOK
  <2>2. interface'[i] = r
    BY <1>2 DEF TreeInv, TypeOK
  <2>3. InterfaceLevel'
    BY <1>2, <2>1, <2>2, KeepInterfaceLevel DEF IdsInv
  <2>4. StreamLevel'
    BY <1>2, <2>1, <2>2, KeepStreamLevel DEF IdsInv
  <2> QED BY <2>3, <2>4 DEF IdsInv
<1>3. ASSUME NEW i \in Interface, interface[i] # NoFb, NEW updating \in BOOLEAN, NEW pending \in InterfaceIds,
             interface' = [interface EXCEPT ![i].updating = updating, ![i].pending = pending],
             UNCHANGED <<capture, stream, duplicateIds>>
      PROVE  IdsInv'
  <2> DEFINE r == [interface[i] EXCEPT !.updating = updating, !.pending = pending]
  <2>1. /\ r \in InterfaceRecord /\ r.ids = interface[i].ids
        /\ r.parent = interface[i].parent /\ r.interfaceId = interface[i].interfaceId
    BY <1>3, FieldTypes DEF TreeInv, InterfaceRecord
  <2>2. interface' = [interface EXCEPT ![i] = r]
    BY <1>3
  <2> HIDE DEF r
  <2>3. r # NoFb
    BY <2>1, DataSinkAssumption
  <2> QED BY <1>2, <1>3, <2>1, <2>2, <2>3
<1>4. ASSUME NEW i \in Interface, NEW id \in InterfaceIds, interface[i] # NoFb, Idle, UpdateInterfaceId(i, id)
      PROVE  IdsInv'
  <2>1. InterfaceLevel'
    BY <1>4, UpdateInterfaceIdIds DEF IdsInv
  <2> DEFINE r == [interface[i] EXCEPT !.interfaceId = id, !.updating = FALSE, !.pending = 0]
  <2>2. r.ids = interface[i].ids
    BY <1>4, FieldTypes DEF TreeInv, InterfaceRecord
  <2>3. interface' = [interface EXCEPT ![i] = r] /\ stream' = stream /\ (duplicateIds => duplicateIds')
    BY <1>4 DEF UpdateInterfaceId
  <2> HIDE DEF r
  <2>4. \A x \in Interface : interface'[x] # NoFb => interface[x] # NoFb /\ interface'[x].ids = interface[x].ids
    BY <1>4, <2>2, <2>3 DEF TreeInv, TypeOK
  <2>5. StreamLevel'
    BY <2>3, <2>4, KeepStreamLevel DEF IdsInv
  <2> QED BY <2>1, <2>5 DEF IdsInv
<1>5. ASSUME NEW c \in Capture, NEW i \in Interface, AddInterface(c, i) PROVE IdsInv'
  <2>1. PICK id \in FirstUnusedIds(capture[c].ids, MaxInterfaceId) : CreateInterface(c, i, id)
    BY <1>5 DEF AddInterface
  <2>2. capture[c] # NoFb /\ stream' = stream /\ capture[c].ids \in IdPools(MaxInterfaceId)
    BY <1>5, FieldTypes DEF AddInterface, TreeInv
  <2>3. id \in InterfaceIds
    BY <2>2, FirstUnusedType, DataSinkAssumption DEF InterfaceIds
  <2> QED BY <1>1, <2>1, <2>2, <2>3
<1>6. ASSUME NEW i \in Interface, NEW id \in InterfaceIds, FromStatusInterface(i, id) PROVE IdsInv'
  <2>1. PICK c \in Capture : c = fb /\ capture[c] # NoFb
    BY <1>6 DEF FromStatusInterface, TreeInv, BlockOK
  <2> QED BY <1>1, <1>6, <2>1 DEF FromStatusInterface
<1>7. ASSUME NEW i \in Interface PROVE RemoveInterface(i) => IdsInv'
  BY <1>7, UnchangedIds DEF RemoveInterface, history
<1>8. ASSUME NEW i \in Interface, BeginUpdateInterface(i) PROVE IdsInv'
  BY <1>3, <1>8, FieldTypes DEF BeginUpdateInterface, history, TreeInv
<1>9. ASSUME NEW i \in Interface, EndUpdateInterface(i) PROVE IdsInv'
  <2>1. interface[i] # NoFb /\ interface[i].pending \in InterfaceIds /\ 0 \in InterfaceIds
    BY <1>9, FieldTypes, DataSinkAssumption DEF EndUpdateInterface, TreeInv, InterfaceIds
  <2>2. CASE interface[i].pending # interface[i].interfaceId
    BY <1>4, <1>9, <2>1, <2>2 DEF EndUpdateInterface
  <2>3. CASE interface[i].pending = interface[i].interfaceId
    BY <1>3, <1>9, <2>1, <2>3 DEF EndUpdateInterface, history
  <2> QED BY <2>2, <2>3
<1>10. ASSUME NEW i \in Interface, NEW id \in InterfaceIds PROVE SetInterfaceId(i, id) => IdsInv'
  BY <1>4, <1>10 DEF SetInterfaceId
<1>11. ASSUME NEW i \in Interface, NEW id \in InterfaceIds, SetInterfaceIdUpdating(i, id) PROVE IdsInv'
  <2> DEFINE r == [interface[i] EXCEPT !.pending = id]
  <2>1. interface[i] # NoFb /\ interface[i] \in InterfaceRecord
    BY <1>11, FieldTypes DEF SetInterfaceIdUpdating, TreeInv
  <2>2. /\ r \in InterfaceRecord /\ r.ids = interface[i].ids
        /\ r.parent = interface[i].parent /\ r.interfaceId = interface[i].interfaceId
    BY <2>1 DEF InterfaceRecord
  <2>3. interface' = [interface EXCEPT ![i] = r] /\ UNCHANGED <<capture, stream, duplicateIds>>
    BY <1>11 DEF SetInterfaceIdUpdating, history
  <2> HIDE DEF r
  <2>4. r # NoFb
    BY <2>2, DataSinkAssumption
  <2> QED BY <1>2, <2>1, <2>2, <2>3, <2>4
<1>12. CASE RemoveInterfaceThrow
  BY <1>12, UnchangedIds DEF RemoveInterfaceThrow
<1>13. CASE RemoveInterfaceFinish
  <2>1. InterfaceLevel'
    BY <1>13, RemoveInterfaceFinishIds DEF IdsInv
  <2>2. PICK i \in Interface : i = fb
    BY <1>13 DEF RemoveInterfaceFinish, TreeInv, BlockOK
  <2>3. /\ interface' = [interface EXCEPT ![i] = NoFb] /\ duplicateIds' = duplicateIds
        /\ stream' = [s \in Stream |-> IF s \in StreamsOf(i) THEN NoFb ELSE stream[s]]
    BY <1>13, <2>2 DEF RemoveInterfaceFinish, history
  <2>4. \A x \in Interface : interface'[x] # NoFb => x # i /\ interface'[x] = interface[x]
    BY <2>3 DEF TreeInv, TypeOK
  <2>5. \A s \in Stream : stream'[s] # NoFb => stream[s] # NoFb /\ stream'[s] = stream[s]
    BY <2>3
  <2>6. \A s \in Stream : stream[s] # NoFb /\ interface'[stream[s].parent] # NoFb => stream'[s] # NoFb
    BY <2>3, <2>4, FieldTypes DEF TreeInv, StreamsOf
  <2>7. StreamLevel'
    BY <2>3, <2>4, <2>5, <2>6, KeepStreamLevel DEF IdsInv
  <2> QED BY <2>1, <2>7 DEF IdsInv
<1> QED BY <1>5, <1>6, <1>7, <1>8, <1>9, <1>10, <1>11, <1>12, <1>13 DEF NextInterface

LEMMA NextStreamIds ==
  ASSUME TreeInv, IdsInv, NextStream
  PROVE  IdsInv'
<1>1. ASSUME NEW i \in Interface, interface[i] # NoFb, NEW ids, interface' = [interface EXCEPT ![i].ids = ids],
             \A x \in Interface : interface[x] # NoFb =>
               /\ interface'[x] # NoFb
               /\ interface'[x].parent = interface[x].parent
               /\ interface'[x].interfaceId = interface[x].interfaceId,
             capture' = capture, duplicateIds => duplicateIds'
      PROVE  InterfaceLevel'
  <2>1. \A x \in Interface : interface'[x] # NoFb => interface[x] # NoFb
    BY <1>1 DEF TreeInv, TypeOK
  <2> QED BY <1>1, <2>1, KeepInterfaceLevel DEF IdsInv
<1>2. ASSUME NEW i \in Interface, NEW s \in Stream, NEW id \in StreamIds, interface[i] # NoFb,
             CreateStream(i, s, id), capture' = capture
      PROVE  IdsInv'
  <2>1. StreamLevel'
    BY <1>2, CreateStreamIds DEF IdsInv
  <2>2. \A x \in Interface : interface[x] # NoFb =>
          /\ interface'[x] # NoFb
          /\ interface'[x].parent = interface[x].parent
          /\ interface'[x].interfaceId = interface[x].interfaceId
    BY <1>2, CreateStreamTypes DEF TreeInv
  <2>3. InterfaceLevel'
    BY <1>1, <1>2, <2>2 DEF CreateStream
  <2> QED BY <2>1, <2>3 DEF IdsInv
<1>3. ASSUME NEW i \in Interface, NEW s \in Stream, AddStream(i, s) PROVE IdsInv'
  <2>1. PICK id \in StreamIds : CreateStream(i, s, id)
    BY <1>3, AddStreamTree
  <2> QED BY <1>2, <1>3, <2>1 DEF AddStream
<1>4. ASSUME NEW i \in Interface, NEW s \in Stream, NEW id \in StreamIds, FromStatusStream(i, s, id) PROVE IdsInv'
  <2>1. interface[i] # NoFb
    BY <1>4, FromStatusStreamTree
  <2> QED BY <1>2, <1>4, <2>1 DEF FromStatusStream
<1>5. ASSUME NEW s \in Stream, RemoveStream(s) PROVE IdsInv'
  <2>1. StreamLevel'
    BY <1>5, RemoveStreamIds DEF IdsInv
  <2>2. PICK i \in Interface : i = stream[s].parent /\ interface[i] # NoFb
    BY <1>5, FieldTypes DEF RemoveStream, TreeInv, TreeOK
  <2>3. /\ \E ids : interface' = [interface EXCEPT ![i].ids = ids]
        /\ capture' = capture /\ duplicateIds' = duplicateIds
    BY <1>5, <2>2 DEF RemoveStream, history
  <2>4. \A x \in Interface : interface[x] # NoFb =>
          /\ interface'[x] # NoFb
          /\ interface'[x].parent = interface[x].parent
          /\ interface'[x].interfaceId = interface[x].interfaceId
    BY <1>5, RemoveStreamTree
  <2>5. InterfaceLevel'
    BY <1>1, <2>2, <2>3, <2>4
  <2> QED BY <2>1, <2>5 DEF IdsInv
<1>6. ASSUME NEW s \in Stream, NEW id \in StreamIds, SetStreamId(s, id) PROVE IdsInv'
  <2>1. StreamLevel'
    BY <1>6, SetStreamIdIds DEF IdsInv
  <2>2. PICK i \in Interface : i = stream[s].parent /\ interface[i] # NoFb
    BY <1>6, FieldTypes DEF SetStreamId, TreeInv, TreeOK
  <2>3. /\ \E ids : interface' = [interface EXCEPT ![i].ids = ids]
        /\ capture' = capture /\ (duplicateIds => duplicateIds')
    BY <1>6, <2>2 DEF SetStreamId
  <2>4. \A x \in Interface : interface[x] # NoFb =>
          /\ interface'[x] # NoFb
          /\ interface'[x].parent = interface[x].parent
          /\ interface'[x].interfaceId = interface[x].interfaceId
    BY <1>6, SetStreamIdTree
  <2>5. InterfaceLevel'
    BY <1>1, <2>2, <2>3, <2>4
  <2> QED BY <2>1, <2>5 DEF IdsInv
<1>7. ASSUME NEW s \in Stream PROVE UnsubscribeStale(s) \/ MoveUnsubscribe(s) => IdsInv'
  BY <1>7, UnchangedIds DEF UnsubscribeStale, MoveUnsubscribe, history
<1>8. CASE RemoveStreamUnsubscribe \/ MoveSubscribe
  BY <1>8, UnchangedIds DEF RemoveStreamUnsubscribe, MoveSubscribe, history
<1> QED BY <1>3, <1>4, <1>5, <1>6, <1>7, <1>8 DEF NextStream

LEMMA IdsInvariant == Spec => []IdsInv
<1>1. Init => IdsInv
  BY DEF Init, IdsInv, InterfaceLevel, StreamLevel, InterfacesDiffer, StreamsDiffer, CapturePools, InterfacePools
<1>2. TreeInv /\ IdsInv /\ [Next]_vars => IdsInv'
  <2>1. TreeInv /\ IdsInv /\ UNCHANGED vars => IdsInv'
    BY UnchangedIds DEF vars, history
  <2> QED BY <2>1, NextCaptureIds, NextInterfaceIds, NextStreamIds DEF Next
<1> QED BY <1>1, <1>2, TreeInvariant, PTL DEF Spec

\* An id manager never holds an id that no child of its block has, whatever was
\* removed, renamed or rejected (interface_fb.cpp:36).
THEOREM NoLeaked == Spec => []NoLeakedId
<1>1. IdsInv => NoLeakedId
  BY DEF IdsInv, InterfaceLevel, StreamLevel, CapturePools, InterfacePools, PoolOK, NoLeakedId
<1> QED BY <1>1, IdsInvariant, PTL

\* Until two siblings are first given one id, the id that a new child is given is
\* one that no sibling has (id_manager.h:40).
THEOREM Fresh == Spec => []FreshIds
<1>1. TypeOK /\ IdsInv => FreshIds
  <2> SUFFICES ASSUME TypeOK, IdsInv, ~duplicateIds
               PROVE  /\ \A c \in Capture : capture[c] # NoFb /\ ~(1..MaxInterfaceId \subseteq InterfaceIdsOf(c)) =>
                           FirstUnusedIds(capture[c].ids, MaxInterfaceId) \cap InterfaceIdsOf(c) = {}
                      /\ \A i \in Interface : interface[i] # NoFb /\ ~(1..MaxStreamId \subseteq StreamIdsOf(i)) =>
                           FirstUnusedIds(interface[i].ids, MaxStreamId) \cap StreamIdsOf(i) = {}
    BY DEF FreshIds
  <2>1. ASSUME NEW c \in Capture, capture[c] # NoFb, ~(1..MaxInterfaceId \subseteq InterfaceIdsOf(c))
        PROVE  FirstUnusedIds(capture[c].ids, MaxInterfaceId) \cap InterfaceIdsOf(c) = {}
    <3>1. capture[c].ids.used = InterfaceIdsOf(c) /\ capture[c].ids.used \cap capture[c].ids.unused = {}
      BY <2>1 DEF IdsInv, InterfaceLevel, CapturePools, PoolOK
    <3>2. capture[c].ids \in IdPools(MaxInterfaceId) /\ MaxInterfaceId \in Nat
      BY <2>1, FieldTypes, DataSinkAssumption
    <3> QED BY <2>1, <3>1, <3>2, FirstUnusedFresh
  <2>2. ASSUME NEW i \in Interface, interface[i] # NoFb, ~(1..MaxStreamId \subseteq StreamIdsOf(i))
        PROVE  FirstUnusedIds(interface[i].ids, MaxStreamId) \cap StreamIdsOf(i) = {}
    <3>1. interface[i].ids.used = StreamIdsOf(i) /\ interface[i].ids.used \cap interface[i].ids.unused = {}
      BY <2>2 DEF IdsInv, StreamLevel, InterfacePools, PoolOK
    <3>2. interface[i].ids \in IdPools(MaxStreamId) /\ MaxStreamId \in Nat
      BY <2>2, FieldTypes, DataSinkAssumption
    <3> QED BY <2>2, <3>1, <3>2, FirstUnusedFresh
  <2> QED BY <2>1, <2>2
<1> QED BY <1>1, IdsInvariant, TypeCorrect, PTL
==============================================================================
