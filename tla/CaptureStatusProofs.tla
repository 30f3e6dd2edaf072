-------------------------- MODULE CaptureStatusProofs --------------------------
(***************************************************************************)
(* Theorems about CaptureStatus, for every value of its constants.         *)
(***************************************************************************)
EXTENDS CaptureStatus, TLAPS

\* A stream's interface exists.
TreeOK == \A s \in Stream : stream[s] # None => Exists(stream[s].parent)

\* What an operation has still to apply is of the kind it applies, the block it
\* applies it to exists, and until it is applied the old one is in force.
OperationOK ==
  /\ pc = "updateCaptureData" => new = device.set /\ deviceInfo = old.info
  /\ pc = "updatePayloadType" =>
       /\ fb \in Interface /\ Exists(fb)
       /\ new \in InterfaceProperties /\ old \in InterfaceProperties
       /\ interface[fb].set.payloadType = old.payloadType

\* The encoders have the device's id at any time, its packet the rest of its
\* properties but in the middle of a write of them.
DeviceOK ==
  /\ encoders = device.set.id
  /\ pc # "updateCaptureData" => deviceInfo = device.set.info

\* A stream encodes the PayloadType of its interface, also while that changes.
PayloadTypesOK ==
  \A s \in Stream : stream[s] # None => stream[s].payloadType = interface[stream[s].parent].set.payloadType

\* VendorData that is not announced is about to be, or of an undefined type.
VendorDataOK ==
  \A i \in Interface : Exists(i) =>
    \/ interface[i].set.vendorData
    \/ interface[i].set.payloadType = Undefined
    \/ fb = i /\ pc \in {"updatePayloadType", "relock"}

\* The part of the inductive invariant that no identifier is in.
BlocksInv == TypeOK /\ TreeOK /\ OperationOK /\ DeviceOK /\ PayloadTypesOK /\ VendorDataOK

\* The Interface blocks have different ids, which are those in use in the pool;
\* no id is in use and given back.
InterfaceLevel ==
  /\ InterfaceIdsUnique
  /\ ids.used = InterfaceIdsInUse
  /\ ids.used \cap ids.unused = {}

\* A packet, or the list it is made from, names the streams of an interface, all
\* but those whose last write to StreamId was rejected.
Lists(i, streams) ==
  /\ streams \subseteq StreamIdsOf(i)
  /\ \A s \in StreamsOf(i) : stream[s].streamId \in streams \/ stream[s].rejected

\* The same for the Stream blocks of an Interface block, and its list of them.
StreamLevel(i) ==
  /\ \A s, t \in StreamsOf(i) : stream[s].streamId = stream[t].streamId => s = t
  /\ interface[i].ids.used = StreamIdsOf(i)
  /\ interface[i].ids.used \cap interface[i].ids.unused = {}
  /\ Lists(i, interface[i].streamIdsList)

StreamLevels == \A i \in Interface : Exists(i) => StreamLevel(i)

\* An interface that was not dropped has a packet, ...
Announced(i) ==
  ~interface[i].dropped =>
    /\ interfaceStatus[interface[i].set.id] # None
    /\ interfaceStatus[interface[i].set.id].payloadType = interface[i].set.payloadType
    /\ Lists(i, interfaceStatus[interface[i].set.id].streams)

\* ... and every packet is that of such an interface.
PacketsOK ==
  /\ \A i \in Interface : Exists(i) => Announced(i)
  /\ \A id \in InterfaceIds : interfaceStatus[id] # None =>
       \E i \in Interface : Exists(i) /\ interface[i].set.id = id /\ ~interface[i].dropped

\* The part the identifiers are in, until a block is added when none is left.
IdsInv == ~exhausted => InterfaceLevel /\ StreamLevels /\ PacketsOK
-----------------------------------------------------------------------------
(* Facts about the records and the operators the model is built from.      *)

\* The pools stay pools, and the ids they give out fit in T.
LEMMA IdPoolType ==
  ASSUME NEW max \in Nat, NEW pool \in IdPools(max), NEW id \in 0..max
  PROVE  /\ AddId(pool, id, max) \in IdPools(max)
         /\ RemoveId(pool, id) \in IdPools(max)
         /\ EmptyIds \in IdPools(max)
         /\ FirstUnusedIds(pool, max) \subseteq 0..max
BY DEF AddId, RemoveId, EmptyIds, IdPools, IsValidId, FirstUnusedIds, MinUnusedIds

\* The fields of the blocks that exist.
LEMMA FieldTypes ==
  ASSUME TypeOK
  PROVE  /\ \A i \in Interface : Exists(i) =>
              /\ interface[i] \in InterfaceRecord
              /\ interface[i].set \in InterfaceProperties
              /\ interface[i].set.id \in InterfaceIds
              /\ interface[i].set.payloadType \in PayloadTypes
              /\ interface[i].set.vendorData \in BOOLEAN
              /\ interface[i].ids \in IdPools(MaxStreamId)
              /\ interface[i].streamIdsList \subseteq StreamIds
              /\ interface[i].updating \in BOOLEAN
              /\ interface[i].pending \in InterfaceProperties
              /\ interface[i].dropped \in BOOLEAN
         /\ \A s \in Stream : stream[s] # None =>
              /\ stream[s] \in StreamRecord
              /\ stream[s].parent \in Interface
              /\ stream[s].streamId \in StreamIds
              /\ stream[s].payloadType \in PayloadTypes
BY DEF TypeOK, Exists, InterfaceRecord, InterfaceProperties, StreamRecord

\* Giving one block another record.
LEMMA PutInterface ==
  ASSUME TypeOK, NEW i \in Interface, NEW r \in InterfaceRecord, interface' = [interface EXCEPT ![i] = r]
  PROVE  /\ interface' \in [Interface -> InterfaceRecord \cup {None}]
         /\ interface'[i] = r /\ r # None
         /\ \A x \in Interface : x # i => interface'[x] = interface[x]
BY CaptureStatusAssumption DEF TypeOK

\* What updateInterfaceData leaves of a block.
Written(block) == [block EXCEPT !.set.vendorData = TRUE, !.dropped = FALSE]

LEMMA WrittenRecord ==
  ASSUME NEW block \in InterfaceRecord
  PROVE  /\ Written(block) \in InterfaceRecord
         /\ Written(block).set.id = block.set.id
         /\ Written(block).set.payloadType = block.set.payloadType
         /\ Written(block).set.vendorData
         /\ Written(block).ids = block.ids
         /\ Written(block).streamIdsList = block.streamIdsList
         /\ ~Written(block).dropped
BY DEF Written, InterfaceRecord, InterfaceProperties

Table == [InterfaceIds -> Entry \cup {None}]

LEMMA UpdateInterfaceDataTypes ==
  ASSUME TypeOK, NEW i \in Interface, NEW block \in InterfaceRecord, NEW table \in Table,
         UpdateInterfaceData(i, block, table)
  PROVE  /\ interface' \in [Interface -> InterfaceRecord \cup {None}]
         /\ interface'[i] = Written(block) /\ Exists(i)'
         /\ \A x \in Interface : x # i => interface'[x] = interface[x]
         /\ interfaceStatus' \in Table
         /\ interfaceStatus'[block.set.id] = EntryOf(block) /\ EntryOf(block) # None
         /\ \A id \in InterfaceIds : id # block.set.id => interfaceStatus'[id] = table[id]
<1>1. interface' = [interface EXCEPT ![i] = Written(block)]
  BY DEF UpdateInterfaceData, Written
<1>2. Written(block) \in InterfaceRecord
  BY WrittenRecord
<1>3. /\ interface' \in [Interface -> InterfaceRecord \cup {None}]
      /\ interface'[i] = Written(block) /\ Exists(i)'
      /\ \A x \in Interface : x # i => interface'[x] = interface[x]
  BY <1>1, <1>2, PutInterface DEF Exists
<1>4. EntryOf(block) \in Entry /\ block.set.id \in InterfaceIds
  BY DEF EntryOf, Entry, InterfaceRecord, InterfaceProperties
<1>5. interfaceStatus' = [table EXCEPT ![block.set.id] = EntryOf(block)]
  BY DEF UpdateInterfaceData
<1>6. /\ interfaceStatus' \in Table
      /\ interfaceStatus'[block.set.id] = EntryOf(block)
      /\ \A id \in InterfaceIds : id # block.set.id => interfaceStatus'[id] = table[id]
  BY <1>4, <1>5 DEF Table
<1>7. EntryOf(block) # None
  BY <1>4, CaptureStatusAssumption
<1> QED BY <1>3, <1>6, <1>7

LEMMA WithoutEntryType ==
  ASSUME TypeOK, NEW id \in InterfaceIds
  PROVE  WithoutEntry(id) \in Table
BY DEF TypeOK, WithoutEntry, Table

-----------------------------------------------------------------------------
(* Every step preserves BlocksInv: steps that change no Interface block.   *)

LEMMA SameBlocks ==
  ASSUME TreeOK, PayloadTypesOK, VendorDataOK, UNCHANGED <<interface, stream>>,
         pc \notin {"updatePayloadType", "relock"} \/ UNCHANGED <<pc, fb>>
  PROVE  TreeOK' /\ PayloadTypesOK' /\ VendorDataOK'
<1>1. TreeOK' /\ PayloadTypesOK'
  BY DEF TreeOK, PayloadTypesOK, Exists
<1>2. VendorDataOK'
  BY DEF VendorDataOK, Exists
<1> QED BY <1>1, <1>2

LEMMA PropertyChangedCaptureBlocks ==
  ASSUME BlocksInv, Idle, NEW properties \in DeviceProperties, PropertyChangedCapture(properties)
  PROVE  BlocksInv'
<1> USE DEF BlocksInv, PropertyChangedCapture, Idle
<1>1. properties.id \in DeviceIds /\ device' \in DeviceRecord /\ device'.set = properties
  BY DEF DeviceProperties, DeviceRecord
<1>2. old' \in DeviceProperties
  BY DEF TypeOK, DeviceRecord
<1>3. TypeOK'
  BY <1>1, <1>2 DEF TypeOK, thread
<1>4. OperationOK' /\ DeviceOK'
  BY <1>1 DEF OperationOK, DeviceOK
<1>5. TreeOK' /\ PayloadTypesOK' /\ VendorDataOK'
  BY SameBlocks
<1> QED BY <1>3, <1>4, <1>5

\* An update of the Capture that changes no property yet.
LEMMA CaptureUpdateBlocks ==
  ASSUME BlocksInv, Idle, device' \in DeviceRecord, device'.set = device.set,
         UNCHANGED <<ids, interface, stream, status, operation, exhausted, thread>>
  PROVE  BlocksInv'
<1> USE DEF BlocksInv, status, operation, thread, Idle
<1>1. TypeOK'
  BY DEF TypeOK
<1>2. OperationOK' /\ DeviceOK'
  BY DEF OperationOK, DeviceOK
<1>3. TreeOK' /\ PayloadTypesOK' /\ VendorDataOK'
  BY SameBlocks
<1> QED BY <1>1, <1>2, <1>3

LEMMA NextCaptureBlocks ==
  ASSUME BlocksInv, NextCapture
  PROVE  BlocksInv'
<1>1. /\ device \in DeviceRecord /\ device.set \in DeviceProperties /\ device.pending \in DeviceProperties
      /\ DeviceProperties = [id : DeviceIds, info : DeviceInfos]
  BY DEF BlocksInv, TypeOK, DeviceRecord, DeviceProperties
<1>2. ASSUME NEW id \in DeviceIds, SetDeviceId(id) PROVE BlocksInv'
  <2>1. [device.set EXCEPT !.id = id] \in DeviceProperties
    BY <1>1
  <2> QED BY <1>2, <2>1, PropertyChangedCaptureBlocks DEF SetDeviceId
<1>3. ASSUME NEW info \in DeviceInfos, SetDeviceInfo(info) PROVE BlocksInv'
  <2>1. [device.set EXCEPT !.info = info] \in DeviceProperties
    BY <1>1
  <2> QED BY <1>3, <2>1, PropertyChangedCaptureBlocks DEF SetDeviceInfo
<1>4. ASSUME NEW id \in DeviceIds, NEW info \in DeviceInfos, SetCaptureUpdating(id, info) PROVE BlocksInv'
  <2>1. device' \in DeviceRecord /\ device'.set = device.set
    BY <1>1, <1>4 DEF SetCaptureUpdating, DeviceRecord
  <2> QED BY <1>4, <2>1, CaptureUpdateBlocks DEF SetCaptureUpdating
<1>5. CASE BeginUpdateCapture
  <2>1. device' \in DeviceRecord /\ device'.set = device.set
    BY <1>1, <1>5 DEF BeginUpdateCapture, DeviceRecord
  <2> QED BY <1>5, <2>1, CaptureUpdateBlocks DEF BeginUpdateCapture
<1>6. CASE EndUpdateCapture
  <2>1. CASE device.pending # device.set
    BY <1>1, <1>6, <2>1, PropertyChangedCaptureBlocks DEF EndUpdateCapture
  <2>2. CASE device.pending = device.set
    <3>1. device' \in DeviceRecord /\ device'.set = device.set
      BY <1>1, <1>6, <2>2 DEF EndUpdateCapture, DeviceRecord
    <3> QED BY <1>6, <2>2, <3>1, CaptureUpdateBlocks DEF EndUpdateCapture
  <2> QED BY <2>1, <2>2
<1>7. CASE UpdateCaptureData
  <2> USE <1>7 DEF BlocksInv, UpdateCaptureData, Return, tree, thread
  <2>1. TypeOK'
    BY <1>1 DEF TypeOK, DeviceProperties
  <2>2. OperationOK' /\ DeviceOK'
    BY DEF OperationOK, DeviceOK
  <2>3. TreeOK' /\ PayloadTypesOK' /\ VendorDataOK'
    BY SameBlocks
  <2> QED BY <2>1, <2>2, <2>3
<1> QED BY <1>2, <1>3, <1>4, <1>5, <1>6, <1>7 DEF NextCapture

\* The thread of statusLoop, and its end.
LEMMA LoopBlocks ==
  ASSUME BlocksInv, LoopStep \/ StopStatusLoop \/ StopStep
  PROVE  BlocksInv'
<1> USE DEF BlocksInv, LoopStep, LoopCheck, LoopWait, LoopSendDevice, LoopSendInterfaces,
            StopStatusLoop, StopStep, Notify, Join, tree, status, operation, thread, Idle
<1>1. TypeOK'
  BY DEF TypeOK
<1>2. OperationOK' /\ DeviceOK'
  BY DEF OperationOK, DeviceOK, Exists
<1>3. TreeOK' /\ PayloadTypesOK' /\ VendorDataOK'
  BY SameBlocks
<1> QED BY <1>1, <1>2, <1>3

-----------------------------------------------------------------------------
(* Every step preserves BlocksInv: steps of an Interface block.            *)

\* One Interface block gets another record, with the same PayloadType.
LEMMA PutBlock ==
  ASSUME TypeOK, TreeOK, PayloadTypesOK, VendorDataOK, Idle, UNCHANGED stream,
         NEW i \in Interface, Exists(i), Exists(i)',
         \A x \in Interface : x # i => interface'[x] = interface[x],
         interface'[i].set.payloadType = interface[i].set.payloadType,
         \/ interface'[i].set.vendorData
         \/ interface'[i].set.payloadType = Undefined
         \/ fb' = i /\ pc' \in {"updatePayloadType", "relock"}
  PROVE  TreeOK' /\ PayloadTypesOK' /\ VendorDataOK'
<1>1. \A s \in Stream : stream[s] # None => stream[s].parent \in Interface
  BY FieldTypes
<1>2. TreeOK'
  BY <1>1 DEF TreeOK, Exists
<1>3. PayloadTypesOK'
  BY <1>1 DEF PayloadTypesOK
<1>4. VendorDataOK'
  BY DEF VendorDataOK, Exists, Idle
<1> QED BY <1>2, <1>3, <1>4

\* InterfaceCommonFb::propertyChanged, whichever way it takes.
LEMMA PropertyChangedBlocks ==
  ASSUME BlocksInv, Idle, NEW i \in Interface, Exists(i),
         NEW block \in InterfaceRecord, block.set.payloadType = interface[i].set.payloadType,
         NEW properties \in InterfaceProperties, PropertyChanged(i, block, properties)
  PROVE  BlocksInv'
<1> USE DEF BlocksInv, PropertyChanged
<1>1. /\ properties.id \in InterfaceIds /\ block.set.id \in InterfaceIds
      /\ interface[i].set \in InterfaceProperties /\ interface[i] \in InterfaceRecord
      /\ interfaceStatus \in Table /\ WithoutEntry(block.set.id) \in Table
  <2>1. properties.id \in InterfaceIds /\ block.set.id \in InterfaceIds
    BY DEF InterfaceRecord, InterfaceProperties
  <2> QED BY <2>1, FieldTypes, WithoutEntryType DEF TypeOK, Table
<1>2. /\ interface' \in [Interface -> InterfaceRecord \cup {None}] /\ Exists(i)'
      /\ interface'[i].set.payloadType = interface[i].set.payloadType
      /\ \A x \in Interface : x # i => interface'[x] = interface[x]
      /\ interfaceStatus' \in Table /\ ids' \in IdPools(MaxInterfaceId)
      /\ pc' \in {"updatePayloadType", "relock"}
  <2>1. CASE properties.id # block.set.id /\ RenumberInterface(i, block, properties.id)
    <3> DEFINE r == [block EXCEPT !.set.id = properties.id]
    <3>1. r \in InterfaceRecord /\ r.set.payloadType = block.set.payloadType
      BY <1>1 DEF InterfaceRecord, InterfaceProperties
    <3>2. UpdateInterfaceData(i, r, WithoutEntry(block.set.id))
      BY <2>1 DEF RenumberInterface
    <3>3. ids' \in IdPools(MaxInterfaceId)
      BY <1>1, <2>1, IdPoolType, CaptureStatusAssumption DEF TypeOK, RenumberInterface, InterfaceIds
    <3>4. pc' = "updatePayloadType"
      BY <2>1 DEF RenumberInterface
    <3> HIDE DEF r
    <3> QED BY <1>1, <3>1, <3>2, <3>3, <3>4, UpdateInterfaceDataTypes, WrittenRecord
  <2>2. CASE properties.id # block.set.id /\ RejectInterfaceId(i, block, properties.id)
    BY <1>1, <2>2, UpdateInterfaceDataTypes, WrittenRecord DEF RejectInterfaceId, TypeOK
  <2>3. CASE properties.id # block.set.id /\ RelockStatusSync(i, block, properties.id)
    BY <1>1, <2>3 DEF RelockStatusSync, TypeOK, Exists
  <2>4. CASE properties.id = block.set.id
    BY <1>1, <2>4, PutInterface DEF TypeOK, Exists
  <2> QED BY <2>1, <2>2, <2>3, <2>4
<1>3. TypeOK'
  BY <1>1, <1>2 DEF TypeOK, Table, thread
<1>4. OperationOK' /\ DeviceOK'
  <2>1. DeviceOK'
    BY <1>2 DEF DeviceOK, Idle
  <2>2. fb' = i /\ new' = properties /\ old' = interface[i].set
    OBVIOUS
  <2> HIDE DEF PropertyChanged
  <2>3. OperationOK'
    BY <1>1, <1>2, <2>2 DEF OperationOK
  <2> QED BY <2>1, <2>3
<1>5. TreeOK' /\ PayloadTypesOK' /\ VendorDataOK'
  <2>1. fb' = i /\ UNCHANGED stream
    OBVIOUS
  <2> HIDE DEF PropertyChanged
  <2> QED BY <1>2, <2>1, PutBlock
<1> QED BY <1>3, <1>4, <1>5

\* A step that gives an Interface block another record, and no more.
LEMMA InterfaceUpdateBlocks ==
  ASSUME BlocksInv, Idle, NEW i \in Interface, Exists(i),
         NEW r \in InterfaceRecord, interface' = [interface EXCEPT ![i] = r],
         r.set.payloadType = interface[i].set.payloadType,
         r.set.vendorData \/ r.set.payloadType = Undefined,
         UNCHANGED <<device, ids, stream, status, operation, exhausted, thread>>
  PROVE  BlocksInv'
<1> USE DEF BlocksInv
<1>1. /\ interface' \in [Interface -> InterfaceRecord \cup {None}]
      /\ interface'[i] = r /\ Exists(i)'
      /\ \A x \in Interface : x # i => interface'[x] = interface[x]
  BY PutInterface DEF Exists
<1>2. TypeOK'
  BY <1>1 DEF TypeOK, status, operation, thread
<1>3. OperationOK' /\ DeviceOK'
  BY DEF OperationOK, DeviceOK, status, operation, Idle
<1>4. TreeOK' /\ PayloadTypesOK' /\ VendorDataOK'
  BY <1>1, PutBlock
<1> QED BY <1>2, <1>3, <1>4

LEMMA AddInterfaceBlocks ==
  ASSUME BlocksInv, NEW i \in Interface, AddInterface(i)
  PROVE  BlocksInv'
<1> USE DEF BlocksInv, AddInterface, Idle
<1>1. PICK id \in FirstUnusedIds(ids, MaxInterfaceId) :
        /\ ids' = AddId(ids, id, MaxInterfaceId)
        /\ UpdateInterfaceData(i, NewInterface(id), interfaceStatus)
  OBVIOUS
<1>2. id \in InterfaceIds /\ ids' \in IdPools(MaxInterfaceId)
  BY <1>1, IdPoolType, CaptureStatusAssumption DEF TypeOK, InterfaceIds
<1>3. NewInterface(id) \in InterfaceRecord /\ NewInterface(id).set.payloadType = Undefined
  <2>1. EmptyIds \in IdPools(MaxStreamId) /\ 0 \in InterfaceIds
    BY CaptureStatusAssumption DEF EmptyIds, IdPools, InterfaceIds
  <2> QED BY <1>2, <2>1, CaptureStatusAssumption
    DEF NewInterface, NoWrite, InterfaceRecord, InterfaceProperties
<1>4. interfaceStatus \in Table
  BY DEF TypeOK, Table
<1>5. /\ interface' \in [Interface -> InterfaceRecord \cup {None}] /\ Exists(i)'
      /\ interface'[i].set.payloadType = Undefined
      /\ \A x \in Interface : x # i => interface'[x] = interface[x]
      /\ interfaceStatus' \in Table
  BY <1>1, <1>3, <1>4, UpdateInterfaceDataTypes, WrittenRecord
<1>6. TypeOK'
  BY <1>2, <1>5 DEF TypeOK, Table, operation, thread
<1>7. OperationOK' /\ DeviceOK'
  BY DEF OperationOK, DeviceOK, operation
<1>8. \A s \in Stream : stream[s] # None => stream[s].parent \in Interface /\ stream[s].parent # i
  BY FieldTypes DEF TreeOK
<1>9. TreeOK' /\ PayloadTypesOK'
  BY <1>5, <1>8 DEF TreeOK, PayloadTypesOK, Exists
<1>10. VendorDataOK'
  BY <1>5 DEF VendorDataOK, Exists
<1> QED BY <1>6, <1>7, <1>9, <1>10

LEMMA RemoveInterfaceBlocks ==
  ASSUME BlocksInv, NEW i \in Interface, RemoveInterface(i)
  PROVE  BlocksInv'
<1> USE DEF BlocksInv, RemoveInterface, Idle
<1>1. interfaceStatus' \in Table
  BY FieldTypes, WithoutEntryType
<1>2. OperationOK' /\ DeviceOK'
  BY DEF OperationOK, DeviceOK, operation
<1>3. CASE device.updating
  <2> DEFINE r == [interface[i] EXCEPT !.dropped = TRUE]
  <2>1. r \in InterfaceRecord /\ r.set = interface[i].set
    BY FieldTypes DEF InterfaceRecord
  <2>2. interface' = [interface EXCEPT ![i] = r]
    BY <1>3
  <2> HIDE DEF r
  <2>3. /\ interface' \in [Interface -> InterfaceRecord \cup {None}]
        /\ interface'[i] = r /\ Exists(i)'
        /\ \A x \in Interface : x # i => interface'[x] = interface[x]
    BY <2>1, <2>2, PutInterface DEF Exists
  <2>4. TypeOK'
    BY <1>1, <1>3, <2>3 DEF TypeOK, Table, operation, thread
  <2>5. interface[i].set.vendorData \/ interface[i].set.payloadType = Undefined
    BY DEF VendorDataOK
  <2>6. TreeOK' /\ PayloadTypesOK' /\ VendorDataOK'
    BY <1>3, <2>1, <2>3, <2>5, PutBlock
  <2> QED BY <1>2, <2>4, <2>6
<1>4. CASE ~device.updating
  <2>1. ids' \in IdPools(MaxInterfaceId)
    BY <1>4, FieldTypes, IdPoolType, CaptureStatusAssumption DEF TypeOK, InterfaceIds
  <2>2. /\ interface' \in [Interface -> InterfaceRecord \cup {None}]
        /\ stream' \in [Stream -> StreamRecord \cup {None}]
    BY <1>4 DEF TypeOK
  <2>3. TypeOK'
    BY <1>1, <1>4, <2>1, <2>2 DEF TypeOK, Table, operation, thread
  <2>4. \A s \in Stream : stream'[s] # None =>
          /\ stream'[s] = stream[s]
          /\ stream[s].parent \in Interface /\ interface'[stream[s].parent] = interface[stream[s].parent]
    BY <1>4, FieldTypes DEF StreamsOf, TypeOK
  <2>5. \A x \in Interface : x # i => interface'[x] = interface[x]
    BY <1>4 DEF TypeOK
  <2>6. interface'[i] = None
    BY <1>4 DEF TypeOK
  <2>7. TreeOK' /\ PayloadTypesOK'
    BY <2>4 DEF TreeOK, PayloadTypesOK, Exists
  <2>8. VendorDataOK'
    BY <2>5, <2>6 DEF VendorDataOK, Exists
  <2> QED BY <1>2, <2>3, <2>7, <2>8
<1> QED BY <1>3, <1>4

LEMMA UpdatePayloadTypeBlocks ==
  ASSUME BlocksInv, UpdatePayloadType
  PROVE  BlocksInv'
<1> USE DEF BlocksInv, UpdatePayloadType, Return
<1>1. /\ fb \in Interface /\ Exists(fb) /\ new \in InterfaceProperties
      /\ new.payloadType \in PayloadTypes
  BY DEF OperationOK, InterfaceProperties
<1>2. OperationOK' /\ DeviceOK'
  BY DEF OperationOK, DeviceOK
<1>3. CASE interfaceStatus' = interfaceStatus /\ UNCHANGED <<interface, stream>>
           /\ interface[fb].set.payloadType = Undefined
  <2>1. TypeOK'
    BY <1>3 DEF TypeOK, thread
  <2>2. TreeOK' /\ PayloadTypesOK'
    BY <1>3 DEF TreeOK, PayloadTypesOK, Exists
  <2>3. VendorDataOK'
    BY <1>3 DEF VendorDataOK, Exists
  <2> QED BY <1>2, <2>1, <2>2, <2>3
<1>4. CASE /\ UpdateInterfaceData(fb, [interface[fb] EXCEPT !.set.payloadType = new.payloadType],
                                  interfaceStatus)
           /\ stream' = [s \in Stream |->
                IF s \in StreamsOf(fb) THEN [stream[s] EXCEPT !.payloadType = new.payloadType]
                ELSE stream[s]]
  <2> DEFINE r == [interface[fb] EXCEPT !.set.payloadType = new.payloadType]
  <2>1. r \in InterfaceRecord /\ r.set.payloadType = new.payloadType
    BY <1>1, FieldTypes DEF InterfaceRecord, InterfaceProperties
  <2>2. UpdateInterfaceData(fb, r, interfaceStatus) /\ interfaceStatus \in Table
    BY <1>4 DEF TypeOK, Table
  <2> HIDE DEF r
  <2>3. /\ interface' \in [Interface -> InterfaceRecord \cup {None}]
        /\ interface'[fb] = Written(r) /\ interface'[fb] # None
        /\ \A x \in Interface : x # fb => interface'[x] = interface[x]
        /\ interfaceStatus' \in Table
    <3>1. PICK b : b = fb
      OBVIOUS
    <3>2. b \in Interface /\ UpdateInterfaceData(b, r, interfaceStatus)
      BY <1>1, <2>2, <3>1
    <3>3. /\ interface' \in [Interface -> InterfaceRecord \cup {None}]
          /\ interface'[b] = Written(r) /\ Exists(b)'
          /\ \A x \in Interface : x # b => interface'[x] = interface[x]
          /\ interfaceStatus' \in Table
      BY <2>1, <2>2, <3>2, UpdateInterfaceDataTypes
    <3> QED BY <3>1, <3>3 DEF Exists
  <2>4. Written(r).set.payloadType = new.payloadType /\ Written(r).set.vendorData
    BY <2>1, WrittenRecord
  <2>5. \A s \in Stream :
          /\ s \in StreamsOf(fb) =>
               /\ stream'[s] \in StreamRecord /\ stream'[s] # None
               /\ stream'[s].parent = fb /\ stream'[s].payloadType = new.payloadType
          /\ s \notin StreamsOf(fb) =>
               /\ stream'[s] = stream[s]
               /\ stream[s] # None => stream[s].parent \in Interface /\ stream[s].parent # fb
    <3>1. SUFFICES ASSUME NEW s \in Stream
                   PROVE /\ s \in StreamsOf(fb) =>
                              /\ stream'[s] \in StreamRecord /\ stream'[s] # None
                              /\ stream'[s].parent = fb /\ stream'[s].payloadType = new.payloadType
                         /\ s \notin StreamsOf(fb) =>
                              /\ stream'[s] = stream[s]
                              /\ stream[s] # None => stream[s].parent \in Interface /\ stream[s].parent # fb
      OBVIOUS
    <3>2. CASE s \in StreamsOf(fb)
      <4>1. stream[s] \in StreamRecord /\ stream[s].parent = fb
        BY <3>2, FieldTypes DEF StreamsOf
      <4>2. stream'[s] = [stream[s] EXCEPT !.payloadType = new.payloadType]
        BY <1>4, <3>2
      <4>3. stream'[s] \in StreamRecord /\ stream'[s].parent = fb /\ stream'[s].payloadType = new.payloadType
        BY <1>1, <4>1, <4>2 DEF StreamRecord
      <4> QED BY <3>2, <4>3, CaptureStatusAssumption
    <3>3. CASE s \notin StreamsOf(fb)
      BY <1>4, <3>3, FieldTypes DEF StreamsOf
    <3> QED BY <3>2, <3>3
  <2>6. stream' \in [Stream -> StreamRecord \cup {None}]
    <3>1. \A s \in Stream : stream'[s] \in StreamRecord \cup {None}
      BY <2>5 DEF TypeOK
    <3> QED BY <1>4, <3>1
  <2>7. TypeOK'
    BY <2>3, <2>6 DEF TypeOK, Table, thread
  <2>8. TreeOK'
    BY <1>1, <2>3, <2>5 DEF TreeOK, Exists
  <2>9. PayloadTypesOK'
    BY <1>1, <2>3, <2>4, <2>5 DEF PayloadTypesOK
  <2>10. VendorDataOK'
    BY <1>1, <2>3, <2>4 DEF VendorDataOK, Exists
  <2> QED BY <1>2, <2>7, <2>8, <2>9, <2>10
<1> QED BY <1>3, <1>4

LEMMA NextInterfaceBlocks ==
  ASSUME BlocksInv, NextInterface
  PROVE  BlocksInv'
<1>1. TypeOK /\ VendorDataOK
  BY DEF BlocksInv
<1>2. ASSUME NEW i \in Interface, NEW id \in InterfaceIds, SetInterfaceId(i, id) PROVE BlocksInv'
  <2>1. [interface[i].set EXCEPT !.id = id] \in InterfaceProperties
    BY <1>1, <1>2, FieldTypes DEF SetInterfaceId, InterfaceProperties
  <2> QED BY <1>1, <1>2, <2>1, FieldTypes, PropertyChangedBlocks DEF SetInterfaceId
<1>3. ASSUME NEW i \in Interface, NEW type \in PayloadTypes, SetPayloadType(i, type) PROVE BlocksInv'
  <2>1. [interface[i].set EXCEPT !.payloadType = type] \in InterfaceProperties
    BY <1>1, <1>3, FieldTypes DEF SetPayloadType, InterfaceProperties
  <2> QED BY <1>1, <1>3, <2>1, FieldTypes, PropertyChangedBlocks DEF SetPayloadType
<1>4. ASSUME NEW i \in Interface, SetVendorData(i) PROVE BlocksInv'
  <2> DEFINE r == [interface[i] EXCEPT !.set.vendorData = FALSE]
  <2>1. r \in InterfaceRecord /\ r.set.payloadType = interface[i].set.payloadType
    BY <1>1, <1>4, FieldTypes DEF SetVendorData, InterfaceRecord, InterfaceProperties
  <2>2. /\ Idle /\ Exists(i) /\ interface[i].set \in InterfaceProperties
        /\ PropertyChanged(i, r, interface[i].set)
    BY <1>1, <1>4, FieldTypes DEF SetVendorData
  <2> HIDE DEF r
  <2> QED BY <2>1, <2>2, PropertyChangedBlocks
<1>5. ASSUME NEW i \in Interface, Exists(i)
      PROVE  /\ interface[i] \in InterfaceRecord /\ interface[i].set \in InterfaceProperties
             /\ interface[i].pending \in InterfaceProperties
             /\ Idle => interface[i].set.vendorData \/ interface[i].set.payloadType = Undefined
  BY <1>1, <1>5, FieldTypes DEF VendorDataOK, Idle
<1>6. ASSUME NEW i \in Interface, BeginUpdateInterface(i) PROVE BlocksInv'
  <2> DEFINE r == [interface[i] EXCEPT !.updating = TRUE,
                                       !.pending = [interface[i].set EXCEPT !.vendorData = TRUE]]
  <2>1. r \in InterfaceRecord /\ r.set = interface[i].set
    BY <1>5, <1>6 DEF BeginUpdateInterface, InterfaceRecord, InterfaceProperties
  <2>2. interface' = [interface EXCEPT ![i] = r]
    BY <1>6 DEF BeginUpdateInterface
  <2> HIDE DEF r
  <2> QED BY <1>5, <1>6, <2>1, <2>2, InterfaceUpdateBlocks DEF BeginUpdateInterface
<1>7. ASSUME NEW i \in Interface, NEW id \in InterfaceIds, NEW type \in PayloadTypes,
             SetInterfaceUpdating(i, id, type)
      PROVE  BlocksInv'
  <2>1. ASSUME NEW p \in InterfaceProperties, interface' = [interface EXCEPT ![i].pending = p]
        PROVE  BlocksInv'
    <3> DEFINE r == [interface[i] EXCEPT !.pending = p]
    <3>1. r \in InterfaceRecord /\ r.set = interface[i].set
      BY <1>5, <1>7 DEF SetInterfaceUpdating, InterfaceRecord
    <3>2. interface' = [interface EXCEPT ![i] = r]
      BY <2>1
    <3> HIDE DEF r
    <3> QED BY <1>5, <1>7, <3>1, <3>2, InterfaceUpdateBlocks DEF SetInterfaceUpdating
  <2>2. /\ interface[i].pending \in InterfaceProperties
        /\ [interface[i].pending EXCEPT !.id = id] \in InterfaceProperties
        /\ [interface[i].pending EXCEPT !.payloadType = type] \in InterfaceProperties
        /\ [interface[i].pending EXCEPT !.vendorData = FALSE] \in InterfaceProperties
    BY <1>5, <1>7 DEF SetInterfaceUpdating, InterfaceProperties
  <2> QED BY <1>7, <2>1, <2>2 DEF SetInterfaceUpdating
<1>8. ASSUME NEW i \in Interface, EndUpdateInterface(i) PROVE BlocksInv'
  <2> DEFINE pending == interface[i].pending
             block == [interface[i] EXCEPT !.updating = FALSE, !.pending = NoWrite,
                                           !.set.vendorData = @ /\ pending.vendorData]
             written == pending # [interface[i].set EXCEPT !.vendorData = TRUE]
  <2>1. NoWrite \in InterfaceProperties
    BY CaptureStatusAssumption DEF NoWrite, InterfaceProperties, InterfaceIds
  <2>2. Idle /\ Exists(i)
    BY <1>8 DEF EndUpdateInterface
  <2>3. /\ block \in InterfaceRecord /\ block.set.payloadType = interface[i].set.payloadType
        /\ pending \in InterfaceProperties
    BY <1>5, <2>1, <2>2 DEF InterfaceRecord, InterfaceProperties
  <2>4. CASE written
    <3>1. PropertyChanged(i, block, pending)
      BY <1>8, <2>4 DEF EndUpdateInterface
    <3> HIDE DEF block, pending
    <3> QED BY <2>2, <2>3, <3>1, PropertyChangedBlocks
  <2>5. CASE ~written
    <3>1. block.set.vendorData = interface[i].set.vendorData
      BY <1>5, <2>2, <2>5 DEF InterfaceRecord, InterfaceProperties
    <3>2. /\ interface' = [interface EXCEPT ![i] = block]
          /\ UNCHANGED <<device, ids, stream, status, operation, exhausted, thread>>
      BY <1>8, <2>5 DEF EndUpdateInterface
    <3> HIDE DEF block
    <3> QED BY <1>5, <2>2, <2>3, <3>1, <3>2, InterfaceUpdateBlocks
  <2> QED BY <2>4, <2>5
<1> QED BY <1>2, <1>3, <1>4, <1>6, <1>7, <1>8, AddInterfaceBlocks, RemoveInterfaceBlocks,
           UpdatePayloadTypeBlocks DEF NextInterface

-----------------------------------------------------------------------------
(* Every step preserves BlocksInv: steps of a Stream block.                *)

\* A stream of interface i comes, goes or changes, and the interface's record with it.
LEMMA PutStream ==
  ASSUME BlocksInv, Idle, NEW i \in Interface, Exists(i), Exists(i)',
         NEW s \in Stream, NEW t \in StreamRecord \cup {None}, stream' = [stream EXCEPT ![s] = t],
         t # None => t.parent = i /\ t.payloadType = interface[i].set.payloadType,
         interface' \in [Interface -> InterfaceRecord \cup {None}],
         \A x \in Interface : x # i => interface'[x] = interface[x],
         interface'[i].set.payloadType = interface[i].set.payloadType,
         interface'[i].set.vendorData \/ interface'[i].set = interface[i].set,
         interfaceStatus' \in Table, exhausted' \in BOOLEAN,
         UNCHANGED <<device, ids, encoders, deviceInfo, operation, thread>>
  PROVE  BlocksInv'
<1> USE DEF BlocksInv
<1>1. /\ stream' \in [Stream -> StreamRecord \cup {None}] /\ stream'[s] = t
      /\ \A x \in Stream : x # s => stream'[x] = stream[x]
  BY DEF TypeOK
<1>2. TypeOK'
  BY <1>1 DEF TypeOK, Table, operation, thread
<1>3. OperationOK' /\ DeviceOK'
  BY DEF OperationOK, DeviceOK, operation, Idle
<1>4. \A x \in Stream : stream[x] # None => stream[x].parent \in Interface
  BY FieldTypes
<1>5. TreeOK'
  BY <1>1, <1>4 DEF TreeOK, Exists
<1>6. PayloadTypesOK'
  BY <1>1, <1>4 DEF PayloadTypesOK
<1>7. VendorDataOK'
  BY DEF VendorDataOK, Exists, Idle, operation
<1> QED BY <1>2, <1>3, <1>5, <1>6, <1>7

LEMMA AddStreamBlocks ==
  ASSUME BlocksInv, NEW i \in Interface, NEW s \in Stream, AddStream(i, s)
  PROVE  BlocksInv'
<1>1. TypeOK /\ Idle /\ Exists(i) /\ interfaceStatus \in Table
  BY DEF BlocksInv, TypeOK, Table, AddStream
<1>2. interface[i] \in InterfaceRecord /\ interface[i].set.payloadType \in PayloadTypes
  BY <1>1, FieldTypes
<1>3. PICK id \in FirstUnusedIds(interface[i].ids, MaxStreamId) :
        /\ stream' = [stream EXCEPT ![s] =
             [parent |-> i, streamId |-> id, payloadType |-> interface[i].set.payloadType,
              rejected |-> FALSE]]
        /\ UpdateInterfaceData(i, [interface[i] EXCEPT !.ids = AddId(@, id, MaxStreamId),
                                                       !.streamIdsList = @ \cup {id}],
                               interfaceStatus)
  BY DEF AddStream
<1> DEFINE t == [parent |-> i, streamId |-> id, payloadType |-> interface[i].set.payloadType,
                 rejected |-> FALSE]
           r == [interface[i] EXCEPT !.ids = AddId(@, id, MaxStreamId), !.streamIdsList = @ \cup {id}]
<1>4. id \in StreamIds /\ AddId(interface[i].ids, id, MaxStreamId) \in IdPools(MaxStreamId)
  BY <1>1, FieldTypes, IdPoolType, CaptureStatusAssumption DEF StreamIds
<1>5. t \in StreamRecord /\ t.parent = i /\ t.payloadType = interface[i].set.payloadType
  BY <1>2, <1>4 DEF StreamRecord
<1>6. r \in InterfaceRecord /\ r.set = interface[i].set
  BY <1>2, <1>4 DEF InterfaceRecord
<1>7. /\ UpdateInterfaceData(i, r, interfaceStatus) /\ stream' = [stream EXCEPT ![s] = t]
      /\ exhausted' \in BOOLEAN
      /\ UNCHANGED <<device, ids, encoders, deviceInfo, operation, thread>>
  BY <1>3 DEF AddStream
<1> HIDE DEF t, r
<1>8. /\ interface' \in [Interface -> InterfaceRecord \cup {None}] /\ Exists(i)'
      /\ interface'[i].set.payloadType = interface[i].set.payloadType /\ interface'[i].set.vendorData
      /\ \A x \in Interface : x # i => interface'[x] = interface[x]
      /\ interfaceStatus' \in Table
  BY <1>1, <1>6, <1>7, UpdateInterfaceDataTypes, WrittenRecord
<1> QED BY <1>1, <1>5, <1>7, <1>8, PutStream

LEMMA RemoveStreamBlocks ==
  ASSUME BlocksInv, NEW s \in Stream, RemoveStream(s)
  PROVE  BlocksInv'
<1>1. PICK i, id : i = stream[s].parent /\ id = stream[s].streamId
  OBVIOUS
<1>2. TypeOK /\ TreeOK /\ Idle /\ interfaceStatus \in Table /\ stream[s] # None
  BY DEF BlocksInv, TypeOK, Table, RemoveStream
<1>3. i \in Interface /\ Exists(i) /\ id \in StreamIds
  BY <1>1, <1>2, FieldTypes DEF TreeOK
<1> DEFINE r == [interface[i] EXCEPT !.ids = RemoveId(@, id), !.streamIdsList = @ \ {id}]
<1>4. r \in InterfaceRecord /\ r.set = interface[i].set
  <2>1. interface[i] \in InterfaceRecord /\ RemoveId(interface[i].ids, id) \in IdPools(MaxStreamId)
    BY <1>2, <1>3, FieldTypes, IdPoolType, CaptureStatusAssumption DEF StreamIds
  <2> QED BY <2>1 DEF InterfaceRecord
<1>5. /\ UpdateInterfaceData(i, r, interfaceStatus) /\ stream' = [stream EXCEPT ![s] = None]
      /\ UNCHANGED <<device, ids, encoders, deviceInfo, operation, exhausted, thread>>
  BY <1>1 DEF RemoveStream
<1> HIDE DEF r
<1>6. /\ interface' \in [Interface -> InterfaceRecord \cup {None}] /\ Exists(i)'
      /\ interface'[i].set.payloadType = interface[i].set.payloadType /\ interface'[i].set.vendorData
      /\ \A x \in Interface : x # i => interface'[x] = interface[x]
      /\ interfaceStatus' \in Table
  BY <1>2, <1>3, <1>4, <1>5, UpdateInterfaceDataTypes, WrittenRecord
<1>7. exhausted' \in BOOLEAN
  BY <1>2, <1>5 DEF TypeOK
<1> QED BY <1>2, <1>3, <1>5, <1>6, <1>7, PutStream

LEMMA SetStreamIdBlocks ==
  ASSUME BlocksInv, NEW s \in Stream, NEW id \in StreamIds, SetStreamId(s, id)
  PROVE  BlocksInv'
<1>1. PICK i, was : i = stream[s].parent /\ was = stream[s].streamId
  OBVIOUS
<1>2. /\ TypeOK /\ TreeOK /\ PayloadTypesOK /\ Idle /\ interfaceStatus \in Table /\ stream[s] # None
      /\ UNCHANGED <<device, ids, encoders, deviceInfo, operation, thread>> /\ exhausted' \in BOOLEAN
  BY DEF BlocksInv, TypeOK, Table, SetStreamId
<1>3. i \in Interface /\ Exists(i) /\ was \in StreamIds /\ interface[i] \in InterfaceRecord
  BY <1>1, <1>2, FieldTypes DEF TreeOK
<1>4. CASE RenumberStream(s, id)
  <2> DEFINE t == [stream[s] EXCEPT !.streamId = id, !.rejected = FALSE]
             r == [interface[i] EXCEPT !.ids = AddId(RemoveId(@, was), id, MaxStreamId),
                                       !.streamIdsList = (@ \ {was}) \cup {id}]
  <2>1. t \in StreamRecord /\ t.parent = i /\ t.payloadType = interface[i].set.payloadType
    BY <1>1, <1>2, FieldTypes DEF StreamRecord, PayloadTypesOK
  <2>2. r \in InterfaceRecord /\ r.set = interface[i].set
    <3>1. AddId(RemoveId(interface[i].ids, was), id, MaxStreamId) \in IdPools(MaxStreamId)
      BY <1>2, <1>3, FieldTypes, IdPoolType, CaptureStatusAssumption DEF StreamIds
    <3> QED BY <1>3, <3>1 DEF InterfaceRecord
  <2>3. UpdateInterfaceData(i, r, interfaceStatus) /\ stream' = [stream EXCEPT ![s] = t]
    BY <1>1, <1>4 DEF RenumberStream
  <2> HIDE DEF t, r
  <2>4. /\ interface' \in [Interface -> InterfaceRecord \cup {None}] /\ Exists(i)'
        /\ interface'[i].set.payloadType = interface[i].set.payloadType /\ interface'[i].set.vendorData
        /\ \A x \in Interface : x # i => interface'[x] = interface[x]
        /\ interfaceStatus' \in Table
    BY <1>2, <1>3, <2>2, <2>3, UpdateInterfaceDataTypes, WrittenRecord
  <2> QED BY <1>2, <1>3, <2>1, <2>3, <2>4, PutStream
<1>5. CASE RejectStreamId(s, id)
  <2> DEFINE t == [stream[s] EXCEPT !.rejected = TRUE]
             r == [interface[i] EXCEPT !.streamIdsList = @ \ {was}]
  <2>1. t \in StreamRecord /\ t.parent = i /\ t.payloadType = interface[i].set.payloadType
    BY <1>1, <1>2, FieldTypes DEF StreamRecord, PayloadTypesOK
  <2>2. r \in InterfaceRecord /\ r.set = interface[i].set
    BY <1>3 DEF InterfaceRecord
  <2>3. /\ interface' = [interface EXCEPT ![i] = r] /\ stream' = [stream EXCEPT ![s] = t]
        /\ interfaceStatus' \in Table
    BY <1>1, <1>2, <1>5 DEF RejectStreamId
  <2> HIDE DEF t, r
  <2>4. /\ interface' \in [Interface -> InterfaceRecord \cup {None}] /\ Exists(i)'
        /\ interface'[i].set = interface[i].set
        /\ \A x \in Interface : x # i => interface'[x] = interface[x]
    BY <1>2, <1>3, <2>2, <2>3, PutInterface DEF Exists
  <2> QED BY <1>2, <1>3, <2>1, <2>3, <2>4, PutStream
<1> QED BY <1>4, <1>5 DEF SetStreamId

LEMMA NextBlocks ==
  ASSUME BlocksInv, [Next]_vars
  PROVE  BlocksInv'
<1>1. CASE NextStream
  BY <1>1, AddStreamBlocks, RemoveStreamBlocks, SetStreamIdBlocks DEF NextStream
<1>2. CASE UNCHANGED vars
  <2> USE <1>2 DEF BlocksInv, vars, tree, status, operation, thread
  <2>1. TypeOK'
    BY DEF TypeOK
  <2>2. OperationOK' /\ DeviceOK'
    BY DEF OperationOK, DeviceOK, Exists
  <2>3. TreeOK' /\ PayloadTypesOK' /\ VendorDataOK'
    BY SameBlocks
  <2> QED BY <2>1, <2>2, <2>3
<1> QED BY <1>1, <1>2, NextCaptureBlocks, NextInterfaceBlocks, LoopBlocks DEF Next

LEMMA InitBlocks ==
  ASSUME Init
  PROVE  BlocksInv
<1> USE CaptureStatusAssumption DEF Init
<1>1. TypeOK
  <2>1. device \in DeviceRecord
    BY DEF DeviceRecord, DeviceProperties
  <2>2. ids \in IdPools(MaxInterfaceId)
    BY DEF EmptyIds, IdPools
  <2> QED BY <2>1, <2>2 DEF TypeOK
<1>2. TreeOK /\ OperationOK /\ DeviceOK /\ PayloadTypesOK /\ VendorDataOK
  BY DEF TreeOK, OperationOK, DeviceOK, PayloadTypesOK, VendorDataOK, Exists
<1> QED BY <1>1, <1>2 DEF BlocksInv

\* The blocks, whatever the identifiers: types, parents, and what the operation under
\* way has left of the PayloadType, the VendorData and the device's packet.
THEOREM BlocksInvariant == Spec => []BlocksInv
<1>1. Init => BlocksInv
  BY InitBlocks
<1>2. BlocksInv /\ [Next]_vars => BlocksInv'
  BY NextBlocks
<1> QED BY <1>1, <1>2, PTL DEF Spec

-----------------------------------------------------------------------------
(* What a step leaves of the levels and the packets.                       *)

\* As long as an identifier is left, the one a pool gives out is not in use.
LEMMA FirstUnusedFresh ==
  ASSUME NEW max \in Nat, NEW pool \in IdPools(max), pool.used \cap pool.unused = {},
         ~(0..max \subseteq pool.used)
  PROVE  FirstUnusedIds(pool, max) \cap pool.used = {}
BY DEF FirstUnusedIds, MinUnusedIds, IdPools

\* No stream of interface i comes, goes or gets another id.
SameStreams(i) ==
  /\ StreamsOf(i)' = StreamsOf(i)
  /\ \A s \in StreamsOf(i) :
       stream'[s].streamId = stream[s].streamId /\ stream'[s].rejected = stream[s].rejected

LEMMA SameStreamsLists ==
  ASSUME NEW i, SameStreams(i)
  PROVE  /\ StreamIdsOf(i)' = StreamIdsOf(i)
         /\ \A streams : Lists(i, streams) => Lists(i, streams)'
BY DEF SameStreams, StreamIdsOf, Lists

LEMMA KeepStreamLevel ==
  ASSUME NEW i, SameStreams(i), StreamLevel(i), interface'[i].ids = interface[i].ids,
         interface'[i].streamIdsList = interface[i].streamIdsList
  PROVE  StreamLevel(i)'
<1>1. \A s, t \in StreamsOf(i)' : stream'[s].streamId = stream'[t].streamId => s = t
  BY DEF SameStreams, StreamLevel
<1>2. StreamIdsOf(i)' = StreamIdsOf(i)
  BY SameStreamsLists
<1>3. Lists(i, interface[i].streamIdsList) => Lists(i, interface[i].streamIdsList)'
  <2>1. PICK list : list = interface[i].streamIdsList
    OBVIOUS
  <2>2. Lists(i, list) => Lists(i, list)'
    BY SameStreamsLists DEF Lists
  <2> QED BY <2>1, <2>2 DEF Lists
<1> QED BY <1>1, <1>2, <1>3 DEF StreamLevel

\* The Interface blocks stay and keep their ids.
LEMMA KeepInterfaceLevel ==
  ASSUME InterfaceLevel, UNCHANGED ids,
         \A x \in Interface : Exists(x)' <=> Exists(x),
         \A x \in Interface : Exists(x) => interface'[x].set.id = interface[x].set.id
  PROVE  InterfaceLevel'
<1>1. InterfaceIdsUnique'
  BY DEF InterfaceLevel, InterfaceIdsUnique
<1>2. InterfaceIdsInUse' = InterfaceIdsInUse
  BY DEF InterfaceIdsInUse
<1> QED BY <1>1, <1>2 DEF InterfaceLevel

\* A step that changes nothing the identifiers are in.
LEMMA QuietIds ==
  ASSUME IdsInv, TypeOK, UNCHANGED <<exhausted, ids, stream, interfaceStatus>>,
         \A x \in Interface : Exists(x)' <=> Exists(x),
         \A x \in Interface : Exists(x) =>
           /\ interface'[x].set.id = interface[x].set.id
           /\ interface'[x].set.payloadType = interface[x].set.payloadType
           /\ interface'[x].ids = interface[x].ids
           /\ interface'[x].streamIdsList = interface[x].streamIdsList
           /\ interface'[x].dropped = interface[x].dropped
  PROVE  IdsInv'
<1> SUFFICES ASSUME ~exhausted PROVE InterfaceLevel' /\ StreamLevels' /\ PacketsOK'
  BY DEF IdsInv
<1>1. InterfaceLevel /\ StreamLevels /\ PacketsOK
  BY DEF IdsInv
<1>2. InterfaceLevel'
  BY <1>1, KeepInterfaceLevel
<1>3. ASSUME NEW x PROVE SameStreams(x)
  BY DEF SameStreams, StreamsOf
<1>4. StreamLevels'
  BY <1>1, <1>3, KeepStreamLevel DEF StreamLevels
<1>5. ASSUME NEW x \in Interface, Exists(x)' PROVE Announced(x)'
  <2>1. Exists(x) /\ Announced(x)
    BY <1>1, <1>5 DEF PacketsOK
  <2>2. ASSUME ~interface[x].dropped PROVE Lists(x, interfaceStatus[interface[x].set.id].streams)'
    BY <2>1, <2>2 DEF Announced, Lists, StreamIdsOf, StreamsOf
  <2> QED BY <2>1, <2>2 DEF Announced
<1>6. PacketsOK'
  BY <1>1, <1>5 DEF PacketsOK
<1> QED BY <1>2, <1>4, <1>6

\* The packet of interface i is written under the id now, `now', and the one under
\* the id it had, `was', is gone if that is another id.
LEMMA WritePacket ==
  ASSUME PacketsOK, NEW i \in Interface, Exists(i)', NEW now \in InterfaceIds, NEW was \in InterfaceIds,
         interface'[i].set.id = now, Exists(i) => interface[i].set.id = was,
         ~interface'[i].dropped, Lists(i, interface[i].streamIdsList)',
         interfaceStatus'[now] # None,
         interfaceStatus'[now].payloadType = interface'[i].set.payloadType,
         interfaceStatus'[now].streams = interface'[i].streamIdsList,
         was # now => interfaceStatus'[was] = None,
         \A id \in InterfaceIds \ {now, was} : interfaceStatus'[id] = interfaceStatus[id],
         \A x \in Interface : x # i => interface'[x] = interface[x],
         \A x \in Interface : x # i => SameStreams(x),
         \A x \in Interface : (x # i /\ Exists(x)) =>
           interface[x].set.id \in InterfaceIds \ {now, was}
  PROVE  PacketsOK'
<1>1. Announced(i)'
  BY DEF Announced, Lists
<1>2. ASSUME NEW x \in Interface, x # i, Exists(x)' PROVE Announced(x)'
  <2>1. Exists(x) /\ interface'[x] = interface[x] /\ Announced(x)
    BY <1>2 DEF Exists, PacketsOK
  <2>2. PICK streams : streams = interfaceStatus[interface[x].set.id].streams
    OBVIOUS
  <2>3. interfaceStatus'[interface'[x].set.id] = interfaceStatus[interface[x].set.id]
    BY <1>2, <2>1
  <2>4. Lists(x, streams) => Lists(x, streams)'
    BY <1>2, SameStreamsLists
  <2> QED BY <2>1, <2>2, <2>3, <2>4 DEF Announced, Lists
<1>3. ASSUME NEW id \in InterfaceIds, interfaceStatus'[id] # None
      PROVE  \E x \in Interface : Exists(x)' /\ interface'[x].set.id = id /\ ~interface'[x].dropped
  <2>1. CASE id = now
    BY <2>1
  <2>2. CASE id # now
    <3>1. id # was /\ interfaceStatus[id] # None
      BY <1>3, <2>2
    <3>2. PICK x \in Interface : Exists(x) /\ interface[x].set.id = id /\ ~interface[x].dropped
      BY <3>1 DEF PacketsOK
    <3>3. x # i
      BY <3>1, <3>2
    <3> QED BY <3>2, <3>3 DEF Exists
  <2> QED BY <2>1, <2>2
<1> QED BY <1>1, <1>2, <1>3 DEF PacketsOK

\* What comes of a pool in which no id is in use and given back.
LEMMA PoolAdd ==
  ASSUME NEW max \in Nat, NEW pool \in IdPools(max), pool.used \cap pool.unused = {},
         NEW id \in 0..max, id \notin pool.used
  PROVE  /\ AddId(pool, id, max).used = pool.used \cup {id}
         /\ AddId(pool, id, max).used \cap AddId(pool, id, max).unused = {}
BY DEF AddId, IsValidId, IdPools

LEMMA PoolRemove ==
  ASSUME NEW max \in Nat, NEW pool \in IdPools(max), pool.used \cap pool.unused = {},
         NEW id \in pool.used
  PROVE  /\ RemoveId(pool, id) \in IdPools(max)
         /\ RemoveId(pool, id).used = pool.used \ {id}
         /\ RemoveId(pool, id).used \cap RemoveId(pool, id).unused = {}
BY DEF RemoveId, IdPools

LEMMA PoolMove ==
  ASSUME NEW max \in Nat, NEW pool \in IdPools(max), pool.used \cap pool.unused = {},
         NEW was \in pool.used, NEW id \in 0..max, id \notin pool.used
  PROVE  /\ AddId(RemoveId(pool, was), id, max).used = (pool.used \ {was}) \cup {id}
         /\ AddId(RemoveId(pool, was), id, max).used \cap AddId(RemoveId(pool, was), id, max).unused = {}
BY PoolAdd, PoolRemove

-----------------------------------------------------------------------------
(* Every step preserves IdsInv: steps of an Interface block.               *)

\* Interface i is written as r, under the same id.
LEMMA WriteInterface ==
  ASSUME TypeOK, InterfaceLevel, StreamLevels, PacketsOK, NEW i \in Interface, Exists(i),
         NEW r \in InterfaceRecord, r.set.id = interface[i].set.id,
         UpdateInterfaceData(i, r, interfaceStatus), UNCHANGED ids,
         \A x \in Interface : x # i => SameStreams(x), StreamLevel(i)'
  PROVE  InterfaceLevel' /\ StreamLevels' /\ PacketsOK'
<1>1. interfaceStatus \in Table
  BY DEF TypeOK, Table
<1>2. /\ interface'[i] = Written(r) /\ Exists(i)'
      /\ \A x \in Interface : x # i => interface'[x] = interface[x]
      /\ interfaceStatus'[r.set.id] = EntryOf(r) /\ EntryOf(r) # None
      /\ \A id \in InterfaceIds : id # r.set.id => interfaceStatus'[id] = interfaceStatus[id]
  BY <1>1, UpdateInterfaceDataTypes
<1>3. /\ Written(r).set.id = r.set.id /\ Written(r).set.payloadType = r.set.payloadType
      /\ Written(r).streamIdsList = r.streamIdsList /\ ~Written(r).dropped
  BY WrittenRecord
<1>4. InterfaceLevel'
  BY <1>2, <1>3, KeepInterfaceLevel DEF Exists
<1>5. StreamLevels'
  BY <1>2, KeepStreamLevel DEF StreamLevels, Exists
<1>6. \A x \in Interface : (x # i /\ Exists(x)) => interface[x].set.id \in InterfaceIds \ {r.set.id}
  BY FieldTypes DEF InterfaceLevel, InterfaceIdsUnique
<1>7. Lists(i, interface[i].streamIdsList)'
  BY DEF StreamLevel
<1>8. /\ r.set.id \in InterfaceIds /\ EntryOf(r).payloadType = r.set.payloadType
      /\ EntryOf(r).streams = r.streamIdsList
  BY DEF EntryOf, InterfaceRecord, InterfaceProperties
<1>9. PICK id : id = r.set.id
  OBVIOUS
<1>10. PacketsOK'
  BY <1>2, <1>3, <1>6, <1>7, <1>8, <1>9, WritePacket
<1> QED BY <1>4, <1>5, <1>10

\* The level of the interfaces when one of them gets another id.
LEMMA RenumberInterfaceLevel ==
  ASSUME TypeOK, InterfaceLevel, NEW i \in Interface, Exists(i), Exists(i)',
         NEW id \in InterfaceIds, id \notin ids.used, interface'[i].set.id = id,
         ids' = AddId(RemoveId(ids, interface[i].set.id), id, MaxInterfaceId),
         \A x \in Interface : x # i => interface'[x] = interface[x]
  PROVE  InterfaceLevel'
<1>1. PICK was : was = interface[i].set.id
  OBVIOUS
<1>2. was \in ids.used /\ \A x \in Interface : Exists(x) => interface[x].set.id \in ids.used
  BY <1>1 DEF InterfaceLevel, InterfaceIdsInUse
<1>3. ids \in IdPools(MaxInterfaceId) /\ MaxInterfaceId \in Nat /\ ids.used \cap ids.unused = {}
  BY CaptureStatusAssumption DEF TypeOK, InterfaceLevel
<1>4. ids'.used = (ids.used \ {was}) \cup {id} /\ ids'.used \cap ids'.unused = {}
  BY <1>1, <1>2, <1>3, PoolMove DEF InterfaceIds
<1>5. InterfaceIdsUnique'
  BY <1>2 DEF InterfaceLevel, InterfaceIdsUnique, Exists
<1>6. InterfaceIdsInUse' = (InterfaceIdsInUse \ {was}) \cup {id}
  BY <1>1 DEF InterfaceLevel, InterfaceIdsUnique, InterfaceIdsInUse, Exists
<1> QED BY <1>4, <1>5, <1>6 DEF InterfaceLevel

LEMMA RenumberInterfaceIds ==
  ASSUME TypeOK, InterfaceLevel, StreamLevels, PacketsOK, UNCHANGED stream,
         NEW i \in Interface, Exists(i), NEW block \in InterfaceRecord,
         block.set.id = interface[i].set.id, block.ids = interface[i].ids,
         block.streamIdsList = interface[i].streamIdsList,
         NEW id \in InterfaceIds, id # block.set.id, RenumberInterface(i, block, id)
  PROVE  InterfaceLevel' /\ StreamLevels' /\ PacketsOK'
<1> DEFINE r == [block EXCEPT !.set.id = id]
<1>1. PICK was : was = block.set.id
  OBVIOUS
<1>2. was \in InterfaceIds /\ WithoutEntry(was) \in Table
  BY <1>1, FieldTypes, WithoutEntryType
<1>3. r \in InterfaceRecord /\ r.set.id = id /\ r.ids = block.ids /\ r.streamIdsList = block.streamIdsList
  BY DEF InterfaceRecord, InterfaceProperties
<1>4. /\ UpdateInterfaceData(i, r, WithoutEntry(was)) /\ id \notin ids.used
      /\ ids' = AddId(RemoveId(ids, interface[i].set.id), id, MaxInterfaceId)
  BY <1>1 DEF RenumberInterface, IsValidId
<1> HIDE DEF r
<1>5. /\ interface'[i] = Written(r) /\ Exists(i)'
      /\ \A x \in Interface : x # i => interface'[x] = interface[x]
      /\ interfaceStatus'[r.set.id] = EntryOf(r) /\ EntryOf(r) # None
      /\ \A x \in InterfaceIds : x # r.set.id => interfaceStatus'[x] = WithoutEntry(was)[x]
  BY <1>2, <1>3, <1>4, UpdateInterfaceDataTypes
<1>6. /\ Written(r).set.id = id /\ Written(r).set.payloadType = r.set.payloadType
      /\ Written(r).streamIdsList = r.streamIdsList /\ Written(r).ids = r.ids /\ ~Written(r).dropped
  BY <1>3, WrittenRecord
<1>7. InterfaceLevel'
  BY <1>4, <1>5, <1>6, RenumberInterfaceLevel
<1>8. ASSUME NEW x PROVE SameStreams(x)
  BY DEF SameStreams, StreamsOf
<1>9. ASSUME NEW x \in Interface, Exists(x)' PROVE StreamLevel(x)'
  <2>1. Exists(x) /\ StreamLevel(x)
    BY <1>5, <1>9 DEF StreamLevels, Exists
  <2>2. interface'[x].ids = interface[x].ids /\ interface'[x].streamIdsList = interface[x].streamIdsList
    BY <1>3, <1>5, <1>6
  <2> QED BY <1>8, <2>1, <2>2, KeepStreamLevel
<1>10. Lists(i, interface[i].streamIdsList)'
  BY <1>5, <1>9 DEF StreamLevel
<1>11. \A x \in Interface : (x # i /\ Exists(x)) => interface[x].set.id \in InterfaceIds \ {id, was}
  BY <1>1, <1>4, FieldTypes DEF InterfaceLevel, InterfaceIdsUnique, InterfaceIdsInUse
<1>12. /\ interfaceStatus'[was] = None
       /\ \A x \in InterfaceIds \ {id, was} : interfaceStatus'[x] = interfaceStatus[x]
  BY <1>1, <1>2, <1>3, <1>5 DEF WithoutEntry, TypeOK
<1>13. /\ interfaceStatus'[id] # None /\ interfaceStatus'[id].payloadType = interface'[i].set.payloadType
       /\ interfaceStatus'[id].streams = interface'[i].streamIdsList
  BY <1>3, <1>5, <1>6 DEF EntryOf
<1>14. interface'[i].set.id = id /\ interface[i].set.id = was /\ ~interface'[i].dropped
  BY <1>1, <1>5, <1>6
<1>15. PacketsOK'
  BY <1>2, <1>5, <1>8, <1>10, <1>11, <1>12, <1>13, <1>14, WritePacket
<1> QED BY <1>7, <1>9, <1>15 DEF StreamLevels

LEMMA PropertyChangedIds ==
  ASSUME BlocksInv, IdsInv, NEW i \in Interface, Exists(i), NEW block \in InterfaceRecord,
         block.set.id = interface[i].set.id, block.set.payloadType = interface[i].set.payloadType,
         block.ids = interface[i].ids, block.streamIdsList = interface[i].streamIdsList,
         block.dropped = interface[i].dropped,
         NEW properties \in InterfaceProperties, PropertyChanged(i, block, properties)
  PROVE  IdsInv'
<1>1. TypeOK /\ UNCHANGED <<stream, exhausted>> /\ properties.id \in InterfaceIds
  BY DEF BlocksInv, PropertyChanged, InterfaceProperties
<1>2. ASSUME NEW x PROVE SameStreams(x)
  BY <1>1 DEF SameStreams, StreamsOf
<1>3. CASE properties.id # block.set.id /\ RenumberInterface(i, block, properties.id)
  BY <1>1, <1>3, RenumberInterfaceIds DEF IdsInv
<1>4. CASE RejectInterfaceId(i, block, properties.id)
  <2> SUFFICES ASSUME ~exhausted PROVE InterfaceLevel' /\ StreamLevels' /\ PacketsOK'
    BY <1>1 DEF IdsInv
  <2>1. InterfaceLevel /\ StreamLevels /\ PacketsOK /\ StreamLevel(i)
    BY DEF IdsInv, StreamLevels
  <2>2. UpdateInterfaceData(i, block, interfaceStatus) /\ UNCHANGED ids
    BY <1>4 DEF RejectInterfaceId
  <2>3. interface'[i] = Written(block)
    BY <1>1, <2>2, UpdateInterfaceDataTypes DEF TypeOK, Table
  <2>4. StreamLevel(i)'
    BY <1>2, <2>1, <2>3, WrittenRecord, KeepStreamLevel
  <2> QED BY <1>1, <1>2, <2>1, <2>2, <2>4, WriteInterface
<1>5. CASE RelockStatusSync(i, block, properties.id)
  <2>1. UNCHANGED <<ids, interface, interfaceStatus>>
    BY <1>5 DEF RelockStatusSync
  <2> QED BY <1>1, <2>1, QuietIds DEF Exists
<1>6. CASE interface' = [interface EXCEPT ![i] = block] /\ UNCHANGED <<ids, interfaceStatus>>
  <2>1. interface'[i] = block /\ Exists(i)' /\ \A x \in Interface : x # i => interface'[x] = interface[x]
    BY <1>1, <1>6, PutInterface DEF Exists
  <2> QED BY <1>1, <1>6, <2>1, QuietIds DEF Exists
<1> QED BY <1>3, <1>4, <1>5, <1>6 DEF PropertyChanged

LEMMA AddInterfaceIds ==
  ASSUME BlocksInv, IdsInv, NEW i \in Interface, AddInterface(i)
  PROVE  IdsInv'
<1> SUFFICES ASSUME ~exhausted' PROVE InterfaceLevel' /\ StreamLevels' /\ PacketsOK'
  BY DEF IdsInv
<1>1. /\ TypeOK /\ TreeOK /\ ~Exists(i) /\ UNCHANGED stream
      /\ ~exhausted /\ ~(InterfaceIds \subseteq ids.used)
  BY DEF BlocksInv, AddInterface
<1>2. InterfaceLevel /\ StreamLevels /\ PacketsOK
  BY <1>1 DEF IdsInv
<1>3. PICK id \in FirstUnusedIds(ids, MaxInterfaceId) :
        /\ ids' = AddId(ids, id, MaxInterfaceId)
        /\ UpdateInterfaceData(i, NewInterface(id), interfaceStatus)
  BY DEF AddInterface
<1>4. ids \in IdPools(MaxInterfaceId) /\ MaxInterfaceId \in Nat /\ interfaceStatus \in Table
  BY <1>1, CaptureStatusAssumption DEF TypeOK, Table
<1>5. id \in InterfaceIds /\ id \notin ids.used
  BY <1>1, <1>2, <1>4, IdPoolType, FirstUnusedFresh DEF InterfaceIds, InterfaceLevel
<1>6. ids'.used = ids.used \cup {id} /\ ids'.used \cap ids'.unused = {}
  BY <1>2, <1>3, <1>4, <1>5, PoolAdd DEF InterfaceIds, InterfaceLevel
<1> DEFINE r == NewInterface(id)
<1>7. /\ r \in InterfaceRecord /\ r.set.id = id /\ r.ids = EmptyIds /\ r.streamIdsList = {}
  <2>1. EmptyIds \in IdPools(MaxStreamId) /\ 0 \in InterfaceIds
    BY CaptureStatusAssumption DEF EmptyIds, IdPools, InterfaceIds
  <2> QED BY <1>5, <2>1, CaptureStatusAssumption
    DEF NewInterface, NoWrite, InterfaceRecord, InterfaceProperties
<1> HIDE DEF r
<1>8. /\ interface'[i] = Written(r) /\ Exists(i)'
      /\ \A x \in Interface : x # i => interface'[x] = interface[x]
      /\ interfaceStatus'[id] = EntryOf(r) /\ EntryOf(r) # None
      /\ \A x \in InterfaceIds : x # id => interfaceStatus'[x] = interfaceStatus[x]
  <2>1. UpdateInterfaceData(i, r, interfaceStatus)
    BY <1>3 DEF r
  <2> QED BY <1>1, <1>4, <1>7, <2>1, UpdateInterfaceDataTypes
<1>9. /\ Written(r).set.id = id /\ Written(r).set.payloadType = r.set.payloadType
      /\ Written(r).ids = EmptyIds /\ Written(r).streamIdsList = {} /\ ~Written(r).dropped
  BY <1>7, WrittenRecord
<1>10. \A x \in Interface : Exists(x) => interface[x].set.id \in ids.used
  BY <1>2 DEF InterfaceLevel, InterfaceIdsInUse
<1>11. InterfaceLevel'
  <2>1. InterfaceIdsUnique'
    BY <1>2, <1>5, <1>8, <1>9, <1>10 DEF InterfaceLevel, InterfaceIdsUnique, Exists
  <2>2. InterfaceIdsInUse' = InterfaceIdsInUse \cup {id}
    BY <1>1, <1>8, <1>9 DEF InterfaceIdsInUse, Exists
  <2> QED BY <1>2, <1>6, <2>1, <2>2 DEF InterfaceLevel
<1>12. ASSUME NEW x PROVE SameStreams(x)
  BY <1>1 DEF SameStreams, StreamsOf
<1>13. StreamsOf(i)' = {} /\ StreamIdsOf(i)' = {}
  <2>1. StreamsOf(i) = {}
    BY <1>1 DEF StreamsOf, TreeOK
  <2> QED BY <1>12, <2>1 DEF SameStreams, StreamIdsOf
<1>14. StreamLevel(i)'
  BY <1>8, <1>9, <1>13 DEF StreamLevel, Lists, EmptyIds
<1>15. StreamLevels'
  BY <1>2, <1>8, <1>12, <1>14, KeepStreamLevel DEF StreamLevels, Exists
<1>16. Lists(i, interface[i].streamIdsList)'
  BY <1>14 DEF StreamLevel
<1>17. /\ interfaceStatus'[id] # None /\ interfaceStatus'[id].payloadType = interface'[i].set.payloadType
       /\ interfaceStatus'[id].streams = interface'[i].streamIdsList
  BY <1>7, <1>8, <1>9 DEF EntryOf
<1>18. /\ \A x \in Interface : (x # i /\ Exists(x)) => interface[x].set.id \in InterfaceIds \ {id}
       /\ interface'[i].set.id = id /\ ~interface'[i].dropped
  BY <1>1, <1>5, <1>8, <1>9, <1>10, FieldTypes
<1>19. PacketsOK'
  BY <1>1, <1>2, <1>5, <1>8, <1>12, <1>16, <1>17, <1>18, WritePacket
<1> QED BY <1>11, <1>15, <1>19

\* The packet of interface i goes, and the block with it or it is marked.
LEMMA ErasePacket ==
  ASSUME TypeOK, InterfaceLevel, PacketsOK, NEW i \in Interface, Exists(i),
         interfaceStatus' = WithoutEntry(interface[i].set.id),
         Exists(i)' => interface'[i].dropped,
         \A x \in Interface : x # i => interface'[x] = interface[x],
         \A x \in Interface : x # i => SameStreams(x)
  PROVE  PacketsOK'
<1>1. PICK was : was = interface[i].set.id
  OBVIOUS
<1>2. /\ was \in InterfaceIds /\ interfaceStatus'[was] = None
      /\ \A id \in InterfaceIds : id # was => interfaceStatus'[id] = interfaceStatus[id]
  BY <1>1, FieldTypes DEF WithoutEntry, TypeOK
<1>3. \A x \in Interface : (x # i /\ Exists(x)) => interface[x].set.id \in InterfaceIds \ {was}
  BY <1>1, FieldTypes DEF InterfaceLevel, InterfaceIdsUnique
<1>4. Exists(i)' => Announced(i)'
  BY DEF Announced
<1>5. ASSUME NEW x \in Interface, x # i, Exists(x)' PROVE Announced(x)'
  <2>1. Exists(x) /\ interface'[x] = interface[x] /\ Announced(x)
    BY <1>5 DEF Exists, PacketsOK
  <2>2. PICK streams : streams = interfaceStatus[interface[x].set.id].streams
    OBVIOUS
  <2>3. interfaceStatus'[interface'[x].set.id] = interfaceStatus[interface[x].set.id]
    BY <1>2, <1>3, <1>5, <2>1
  <2>4. Lists(x, streams) => Lists(x, streams)'
    BY <1>5, SameStreamsLists
  <2> QED BY <2>1, <2>2, <2>3, <2>4 DEF Announced, Lists
<1>6. ASSUME NEW id \in InterfaceIds, interfaceStatus'[id] # None
      PROVE  \E x \in Interface : Exists(x)' /\ interface'[x].set.id = id /\ ~interface'[x].dropped
  <2>1. id # was /\ interfaceStatus[id] # None
    BY <1>2, <1>6
  <2>2. PICK x \in Interface : Exists(x) /\ interface[x].set.id = id /\ ~interface[x].dropped
    BY <2>1 DEF PacketsOK
  <2>3. x # i
    BY <1>1, <2>1, <2>2
  <2> QED BY <2>2, <2>3 DEF Exists
<1> QED BY <1>4, <1>5, <1>6 DEF PacketsOK

LEMMA RemoveInterfaceIds ==
  ASSUME BlocksInv, IdsInv, NEW i \in Interface, RemoveInterface(i)
  PROVE  IdsInv'
<1>1. TypeOK /\ Exists(i) /\ UNCHANGED exhausted /\ interfaceStatus' = WithoutEntry(interface[i].set.id)
  BY DEF BlocksInv, RemoveInterface
<1> SUFFICES ASSUME ~exhausted PROVE InterfaceLevel' /\ StreamLevels' /\ PacketsOK'
  BY <1>1 DEF IdsInv
<1>2. InterfaceLevel /\ StreamLevels /\ PacketsOK
  BY DEF IdsInv
<1>3. CASE device.updating
  <2> DEFINE r == [interface[i] EXCEPT !.dropped = TRUE]
  <2>1. /\ r \in InterfaceRecord /\ r.set = interface[i].set /\ r.ids = interface[i].ids
        /\ r.streamIdsList = interface[i].streamIdsList /\ r.dropped
    BY <1>1, FieldTypes DEF InterfaceRecord
  <2>2. interface' = [interface EXCEPT ![i] = r] /\ UNCHANGED <<ids, stream>>
    BY <1>3 DEF RemoveInterface
  <2> HIDE DEF r
  <2>3. interface'[i] = r /\ Exists(i)' /\ \A x \in Interface : x # i => interface'[x] = interface[x]
    BY <1>1, <2>1, <2>2, PutInterface DEF Exists
  <2>4. ASSUME NEW x PROVE SameStreams(x)
    BY <2>2 DEF SameStreams, StreamsOf
  <2>5. InterfaceLevel'
    BY <1>1, <1>2, <2>1, <2>2, <2>3, KeepInterfaceLevel DEF Exists
  <2>6. ASSUME NEW x \in Interface, Exists(x)' PROVE StreamLevel(x)'
    <3>1. Exists(x) /\ StreamLevel(x)
      BY <1>1, <1>2, <2>3, <2>6 DEF StreamLevels, Exists
    <3>2. interface'[x].ids = interface[x].ids /\ interface'[x].streamIdsList = interface[x].streamIdsList
      BY <2>1, <2>3
    <3> QED BY <2>4, <3>1, <3>2, KeepStreamLevel
  <2>7. PacketsOK'
    BY <1>1, <1>2, <2>1, <2>3, <2>4, ErasePacket
  <2> QED BY <2>5, <2>6, <2>7 DEF StreamLevels
<1>4. CASE ~device.updating
  <2>1. /\ ids' = RemoveId(ids, interface[i].set.id)
        /\ interface' = [interface EXCEPT ![i] = None]
        /\ stream' = [s \in Stream |-> IF s \in StreamsOf(i) THEN None ELSE stream[s]]
    BY <1>4 DEF RemoveInterface
  <2>2. ~Exists(i)' /\ \A x \in Interface : x # i => interface'[x] = interface[x]
    BY <1>1, <2>1 DEF TypeOK, Exists
  <2>3. ASSUME NEW x \in Interface, x # i PROVE SameStreams(x)
    BY <2>1, <2>3 DEF SameStreams, StreamsOf
  <2>4. PICK was : was = interface[i].set.id
    OBVIOUS
  <2>5. ids'.used = ids.used \ {was} /\ ids'.used \cap ids'.unused = {}
    <3>1. was \in ids.used
      BY <1>1, <1>2, <2>4 DEF InterfaceLevel, InterfaceIdsInUse
    <3>2. ids \in IdPools(MaxInterfaceId) /\ MaxInterfaceId \in Nat /\ ids.used \cap ids.unused = {}
      BY <1>1, <1>2, CaptureStatusAssumption DEF TypeOK, InterfaceLevel
    <3> QED BY <2>1, <2>4, <3>1, <3>2, PoolRemove
  <2>6. InterfaceIdsUnique'
    BY <1>2, <2>2 DEF InterfaceLevel, InterfaceIdsUnique, Exists
  <2>7. InterfaceIdsInUse' = InterfaceIdsInUse \ {was}
    BY <1>1, <1>2, <2>2, <2>4 DEF InterfaceLevel, InterfaceIdsUnique, InterfaceIdsInUse, Exists
  <2>8. InterfaceLevel'
    BY <1>2, <2>5, <2>6, <2>7 DEF InterfaceLevel
  <2>9. StreamLevels'
    BY <1>2, <2>2, <2>3, KeepStreamLevel DEF StreamLevels, Exists
  <2>10. PacketsOK'
    BY <1>1, <1>2, <2>2, <2>3, ErasePacket
  <2> QED BY <2>8, <2>9, <2>10
<1> QED BY <1>3, <1>4

LEMMA UpdatePayloadTypeIds ==
  ASSUME BlocksInv, IdsInv, UpdatePayloadType
  PROVE  IdsInv'
<1>1. /\ TypeOK /\ fb \in Interface /\ Exists(fb) /\ new.payloadType \in PayloadTypes
      /\ UNCHANGED <<ids, exhausted>>
  BY DEF BlocksInv, OperationOK, UpdatePayloadType, InterfaceProperties
<1>2. CASE UNCHANGED <<interface, stream, interfaceStatus>>
  BY <1>1, <1>2, QuietIds DEF Exists
<1>3. CASE /\ UpdateInterfaceData(fb, [interface[fb] EXCEPT !.set.payloadType = new.payloadType],
                                  interfaceStatus)
           /\ stream' = [s \in Stream |->
                IF s \in StreamsOf(fb) THEN [stream[s] EXCEPT !.payloadType = new.payloadType]
                ELSE stream[s]]
  <2> SUFFICES ASSUME ~exhausted PROVE InterfaceLevel' /\ StreamLevels' /\ PacketsOK'
    BY <1>1 DEF IdsInv
  <2>1. InterfaceLevel /\ StreamLevels /\ PacketsOK
    BY DEF IdsInv
  <2>2. PICK i : i = fb
    OBVIOUS
  <2> DEFINE r == [interface[i] EXCEPT !.set.payloadType = new.payloadType]
  <2>3. /\ r \in InterfaceRecord /\ r.set.id = interface[i].set.id
        /\ r.ids = interface[i].ids /\ r.streamIdsList = interface[i].streamIdsList
    BY <1>1, <2>2, FieldTypes DEF InterfaceRecord, InterfaceProperties
  <2>4. UpdateInterfaceData(i, r, interfaceStatus) /\ interfaceStatus \in Table
    BY <1>1, <1>3, <2>2 DEF TypeOK, Table
  <2> HIDE DEF r
  <2>5. interface'[i] = Written(r)
    BY <1>1, <2>2, <2>3, <2>4, UpdateInterfaceDataTypes
  <2>6. ASSUME NEW s \in Stream
        PROVE  /\ (stream'[s] # None) <=> (stream[s] # None)
               /\ stream[s] # None =>
                    /\ stream'[s].parent = stream[s].parent
                    /\ stream'[s].streamId = stream[s].streamId
                    /\ stream'[s].rejected = stream[s].rejected
    <3>1. CASE stream[s] # None /\ stream[s].parent = fb
      <4> DEFINE t == [stream[s] EXCEPT !.payloadType = new.payloadType]
      <4>1. /\ t \in StreamRecord /\ t.parent = stream[s].parent
            /\ t.streamId = stream[s].streamId /\ t.rejected = stream[s].rejected
        BY <1>1, <3>1, FieldTypes DEF StreamRecord
      <4>2. stream'[s] = t
        BY <1>3, <3>1 DEF StreamsOf
      <4>3. t # None
        BY <4>1, CaptureStatusAssumption
      <4> QED BY <3>1, <4>1, <4>2, <4>3
    <3>2. CASE ~(stream[s] # None /\ stream[s].parent = fb)
      BY <1>3, <3>2 DEF StreamsOf
    <3> QED BY <3>1, <3>2
  <2>7. ASSUME NEW x PROVE SameStreams(x)
    BY <2>6 DEF SameStreams, StreamsOf
  <2>8. StreamLevel(i)'
    BY <1>1, <2>1, <2>2, <2>3, <2>5, <2>7, WrittenRecord, KeepStreamLevel DEF StreamLevels
  <2> QED BY <1>1, <2>1, <2>2, <2>3, <2>4, <2>7, <2>8, WriteInterface
<1> QED BY <1>2, <1>3 DEF UpdatePayloadType

LEMMA NextInterfaceIds ==
  ASSUME BlocksInv, IdsInv, NextInterface
  PROVE  IdsInv'
<1>1. TypeOK
  BY DEF BlocksInv
<1>2. ASSUME NEW i \in Interface, Exists(i)
      PROVE  /\ interface[i] \in InterfaceRecord /\ interface[i].set \in InterfaceProperties
             /\ interface[i].pending \in InterfaceProperties
  BY <1>1, <1>2, FieldTypes
<1>3. ASSUME NEW i \in Interface, NEW id \in InterfaceIds, SetInterfaceId(i, id) PROVE IdsInv'
  <2>1. [interface[i].set EXCEPT !.id = id] \in InterfaceProperties
    BY <1>2, <1>3 DEF SetInterfaceId, InterfaceProperties
  <2> QED BY <1>2, <1>3, <2>1, PropertyChangedIds DEF SetInterfaceId
<1>4. ASSUME NEW i \in Interface, NEW type \in PayloadTypes, SetPayloadType(i, type) PROVE IdsInv'
  <2>1. [interface[i].set EXCEPT !.payloadType = type] \in InterfaceProperties
    BY <1>2, <1>4 DEF SetPayloadType, InterfaceProperties
  <2> QED BY <1>2, <1>4, <2>1, PropertyChangedIds DEF SetPayloadType
<1>5. ASSUME NEW i \in Interface, SetVendorData(i) PROVE IdsInv'
  <2> DEFINE r == [interface[i] EXCEPT !.set.vendorData = FALSE]
  <2>1. /\ r \in InterfaceRecord /\ r.set.id = interface[i].set.id
        /\ r.set.payloadType = interface[i].set.payloadType /\ r.ids = interface[i].ids
        /\ r.streamIdsList = interface[i].streamIdsList /\ r.dropped = interface[i].dropped
    BY <1>2, <1>5 DEF SetVendorData, InterfaceRecord, InterfaceProperties
  <2>2. Exists(i) /\ interface[i].set \in InterfaceProperties /\ PropertyChanged(i, r, interface[i].set)
    BY <1>2, <1>5 DEF SetVendorData
  <2> HIDE DEF r
  <2> QED BY <2>1, <2>2, PropertyChangedIds
<1>6. ASSUME NEW i \in Interface, BeginUpdateInterface(i) \/ \E id \in InterfaceIds, type \in PayloadTypes :
                                                               SetInterfaceUpdating(i, id, type)
      PROVE  IdsInv'
  <2>1. /\ UNCHANGED <<exhausted, ids, stream, interfaceStatus>> /\ Exists(i)
        /\ interface \in [Interface -> InterfaceRecord \cup {None}]
    BY <1>1, <1>6 DEF BeginUpdateInterface, SetInterfaceUpdating, status, TypeOK
  <2>2. \A x \in Interface : x # i => interface'[x] = interface[x]
    BY <1>6, <2>1 DEF BeginUpdateInterface, SetInterfaceUpdating
  <2>3. /\ interface'[i].set = interface[i].set /\ interface'[i].ids = interface[i].ids
        /\ interface'[i].streamIdsList = interface[i].streamIdsList
        /\ interface'[i].dropped = interface[i].dropped
        /\ interface'[i] \in InterfaceRecord
    <3>1. CASE BeginUpdateInterface(i)
      BY <1>2, <2>1, <3>1 DEF BeginUpdateInterface, InterfaceRecord, InterfaceProperties
    <3>2. ASSUME NEW id \in InterfaceIds, NEW type \in PayloadTypes, SetInterfaceUpdating(i, id, type)
          PROVE  \E p \in InterfaceProperties : interface'[i] = [interface[i] EXCEPT !.pending = p]
      <4>1. /\ [interface[i].pending EXCEPT !.id = id] \in InterfaceProperties
            /\ [interface[i].pending EXCEPT !.payloadType = type] \in InterfaceProperties
            /\ [interface[i].pending EXCEPT !.vendorData = FALSE] \in InterfaceProperties
        BY <1>2, <2>1 DEF InterfaceProperties
      <4>2. \/ interface' = [interface EXCEPT ![i].pending.id = id]
            \/ interface' = [interface EXCEPT ![i].pending.payloadType = type]
            \/ interface' = [interface EXCEPT ![i].pending.vendorData = FALSE]
        BY <3>2 DEF SetInterfaceUpdating
      <4>3. \/ interface'[i] = [interface[i] EXCEPT !.pending = [interface[i].pending EXCEPT !.id = id]]
            \/ interface'[i] = [interface[i] EXCEPT !.pending =
                                  [interface[i].pending EXCEPT !.payloadType = type]]
            \/ interface'[i] = [interface[i] EXCEPT !.pending =
                                  [interface[i].pending EXCEPT !.vendorData = FALSE]]
        BY <2>1, <4>2
      <4> QED BY <4>1, <4>3
    <3>3. ASSUME NEW p \in InterfaceProperties, interface'[i] = [interface[i] EXCEPT !.pending = p]
          PROVE  /\ interface'[i].set = interface[i].set /\ interface'[i].ids = interface[i].ids
                 /\ interface'[i].streamIdsList = interface[i].streamIdsList
                 /\ interface'[i].dropped = interface[i].dropped
                 /\ interface'[i] \in InterfaceRecord
      BY <1>2, <2>1, <3>3 DEF InterfaceRecord
    <3> QED BY <1>6, <3>1, <3>2, <3>3
  <2>4. Exists(i)'
    BY <2>3, CaptureStatusAssumption DEF Exists
  <2> QED BY <1>1, <2>1, <2>2, <2>3, <2>4, QuietIds DEF Exists
<1>7. ASSUME NEW i \in Interface, EndUpdateInterface(i) PROVE IdsInv'
  <2> DEFINE pending == interface[i].pending
             block == [interface[i] EXCEPT !.updating = FALSE, !.pending = NoWrite,
                                           !.set.vendorData = @ /\ pending.vendorData]
             written == pending # [interface[i].set EXCEPT !.vendorData = TRUE]
  <2>1. NoWrite \in InterfaceProperties /\ Exists(i)
    BY <1>7, CaptureStatusAssumption DEF NoWrite, InterfaceProperties, InterfaceIds, EndUpdateInterface
  <2>2. /\ block \in InterfaceRecord /\ block.set.id = interface[i].set.id
        /\ block.set.payloadType = interface[i].set.payloadType /\ block.ids = interface[i].ids
        /\ block.streamIdsList = interface[i].streamIdsList /\ block.dropped = interface[i].dropped
        /\ pending \in InterfaceProperties
    BY <1>2, <2>1 DEF InterfaceRecord, InterfaceProperties
  <2>3. CASE written
    <3>1. PropertyChanged(i, block, pending)
      BY <1>7, <2>3 DEF EndUpdateInterface
    <3> HIDE DEF block, pending
    <3> QED BY <2>1, <2>2, <3>1, PropertyChangedIds
  <2>4. CASE ~written
    <3>1. /\ interface' = [interface EXCEPT ![i] = block]
          /\ UNCHANGED <<exhausted, ids, stream, interfaceStatus>>
      BY <1>7, <2>4 DEF EndUpdateInterface, status
    <3> HIDE DEF block
    <3>2. interface'[i] = block /\ Exists(i)' /\ \A x \in Interface : x # i => interface'[x] = interface[x]
      BY <1>1, <2>2, <3>1, PutInterface DEF Exists
    <3> QED BY <1>1, <2>1, <2>2, <3>1, <3>2, QuietIds DEF Exists
  <2> QED BY <2>3, <2>4
<1> QED BY <1>3, <1>4, <1>5, <1>6, <1>7, AddInterfaceIds, RemoveInterfaceIds,
           UpdatePayloadTypeIds DEF NextInterface

-----------------------------------------------------------------------------
(* Every step preserves IdsInv: steps of a Stream block, and the rest.     *)

\* A change of one stream is none for the streams of the other interfaces.
LEMMA OtherStreams ==
  ASSUME NEW i \in Interface, NEW s \in Stream, stream' \in [Stream -> StreamRecord \cup {None}],
         \A t \in Stream : t # s => stream'[t] = stream[t],
         stream[s] # None => stream[s].parent = i, stream'[s] # None => stream'[s].parent = i
  PROVE  \A x \in Interface : x # i => SameStreams(x)
<1> SUFFICES ASSUME NEW x \in Interface, x # i PROVE SameStreams(x)
  OBVIOUS
<1>1. s \notin StreamsOf(x) /\ s \notin StreamsOf(x)'
  BY DEF StreamsOf
<1>2. StreamsOf(x)' = StreamsOf(x)
  BY <1>1 DEF StreamsOf
<1> QED BY <1>1, <1>2 DEF SameStreams, StreamsOf

LEMMA AddStreamIds ==
  ASSUME BlocksInv, IdsInv, NEW i \in Interface, NEW s \in Stream, AddStream(i, s)
  PROVE  IdsInv'
<1> SUFFICES ASSUME ~exhausted' PROVE InterfaceLevel' /\ StreamLevels' /\ PacketsOK'
  BY DEF IdsInv
<1>1. /\ TypeOK /\ Exists(i) /\ UNCHANGED ids /\ stream[s] = None
      /\ ~exhausted /\ ~(StreamIds \subseteq interface[i].ids.used)
  BY DEF BlocksInv, AddStream
<1>2. InterfaceLevel /\ StreamLevels /\ PacketsOK /\ StreamLevel(i)
  BY <1>1 DEF IdsInv, StreamLevels
<1>3. PICK id \in FirstUnusedIds(interface[i].ids, MaxStreamId) :
        /\ stream' = [stream EXCEPT ![s] =
             [parent |-> i, streamId |-> id, payloadType |-> interface[i].set.payloadType,
              rejected |-> FALSE]]
        /\ UpdateInterfaceData(i, [interface[i] EXCEPT !.ids = AddId(@, id, MaxStreamId),
                                                       !.streamIdsList = @ \cup {id}],
                               interfaceStatus)
  BY DEF AddStream
<1>4. interface[i].ids \in IdPools(MaxStreamId) /\ MaxStreamId \in Nat /\ interfaceStatus \in Table
  BY <1>1, FieldTypes, CaptureStatusAssumption DEF TypeOK, Table
<1>5. id \in StreamIds /\ id \notin interface[i].ids.used
  BY <1>1, <1>2, <1>4, IdPoolType, FirstUnusedFresh DEF StreamIds, StreamLevel
<1> DEFINE pool == AddId(interface[i].ids, id, MaxStreamId)
           t == [parent |-> i, streamId |-> id, payloadType |-> interface[i].set.payloadType,
                 rejected |-> FALSE]
           r == [interface[i] EXCEPT !.ids = AddId(@, id, MaxStreamId), !.streamIdsList = @ \cup {id}]
<1>6. /\ pool.used = interface[i].ids.used \cup {id} /\ pool.used \cap pool.unused = {}
      /\ pool \in IdPools(MaxStreamId)
  <2>1. interface[i].ids.used \cap interface[i].ids.unused = {} /\ id \in 0..MaxStreamId
    BY <1>2, <1>5 DEF StreamIds, StreamLevel
  <2>2. pool.used = interface[i].ids.used \cup {id} /\ pool.used \cap pool.unused = {}
    BY <1>4, <1>5, <2>1, PoolAdd
  <2>3. pool \in IdPools(MaxStreamId)
    BY <1>4, <2>1, IdPoolType
  <2> QED BY <2>2, <2>3
<1>7. t \in StreamRecord /\ t.parent = i /\ t.streamId = id
  BY <1>1, <1>5, FieldTypes DEF StreamRecord
<1>8. /\ r \in InterfaceRecord /\ r.set.id = interface[i].set.id /\ r.ids = pool
      /\ r.streamIdsList = interface[i].streamIdsList \cup {id}
  BY <1>1, <1>5, <1>6, FieldTypes DEF InterfaceRecord
<1>9. UpdateInterfaceData(i, r, interfaceStatus) /\ stream' = [stream EXCEPT ![s] = t]
  BY <1>3
<1> HIDE DEF pool, t, r
<1>10. /\ stream' \in [Stream -> StreamRecord \cup {None}] /\ stream'[s] = t /\ t # None
       /\ \A x \in Stream : x # s => stream'[x] = stream[x]
  BY <1>1, <1>7, <1>9, CaptureStatusAssumption DEF TypeOK
<1>11. \A x \in Interface : x # i => SameStreams(x)
  BY <1>1, <1>7, <1>10, OtherStreams
<1>12. StreamsOf(i)' = StreamsOf(i) \cup {s} /\ s \notin StreamsOf(i)
  BY <1>1, <1>7, <1>10 DEF StreamsOf
<1>13. \A x \in StreamsOf(i) : stream'[x] = stream[x] /\ stream[x].streamId \in interface[i].ids.used
  BY <1>2, <1>10, <1>12 DEF StreamLevel, StreamIdsOf, StreamsOf
<1>14. StreamIdsOf(i)' = StreamIdsOf(i) \cup {id}
  BY <1>7, <1>10, <1>12, <1>13 DEF StreamIdsOf
<1>15. /\ interface'[i].ids = pool
       /\ interface'[i].streamIdsList = interface[i].streamIdsList \cup {id}
  <2>1. interface'[i] = Written(r)
    BY <1>1, <1>4, <1>8, <1>9, UpdateInterfaceDataTypes
  <2> QED BY <1>8, <2>1, WrittenRecord
<1>16. \A x, y \in StreamsOf(i)' : stream'[x].streamId = stream'[y].streamId => x = y
  BY <1>2, <1>5, <1>7, <1>10, <1>12, <1>13 DEF StreamLevel
<1>17. Lists(i, interface[i].streamIdsList)'
  <2>1. interface'[i].streamIdsList \subseteq StreamIdsOf(i)'
    BY <1>2, <1>14, <1>15 DEF StreamLevel, Lists
  <2>2. \A x \in StreamsOf(i)' : stream'[x].streamId \in interface'[i].streamIdsList \/ stream'[x].rejected
    BY <1>2, <1>7, <1>10, <1>12, <1>13, <1>15 DEF StreamLevel, Lists
  <2> QED BY <2>1, <2>2 DEF Lists
<1>18. StreamLevel(i)'
  BY <1>2, <1>6, <1>14, <1>15, <1>16, <1>17 DEF StreamLevel
<1> QED BY <1>1, <1>2, <1>8, <1>9, <1>11, <1>18, WriteInterface

LEMMA RemoveStreamIds ==
  ASSUME BlocksInv, IdsInv, NEW s \in Stream, RemoveStream(s)
  PROVE  IdsInv'
<1>1. PICK i, id : i = stream[s].parent /\ id = stream[s].streamId
  OBVIOUS
<1>2. TypeOK /\ TreeOK /\ stream[s] # None /\ UNCHANGED <<ids, exhausted>>
  BY DEF BlocksInv, RemoveStream
<1>3. i \in Interface /\ Exists(i) /\ id \in StreamIds /\ interface[i] \in InterfaceRecord
  BY <1>1, <1>2, FieldTypes DEF TreeOK
<1> SUFFICES ASSUME ~exhausted PROVE InterfaceLevel' /\ StreamLevels' /\ PacketsOK'
  BY <1>2 DEF IdsInv
<1>4. InterfaceLevel /\ StreamLevels /\ PacketsOK /\ StreamLevel(i)
  BY <1>3 DEF IdsInv, StreamLevels
<1>5. interface[i].ids \in IdPools(MaxStreamId) /\ MaxStreamId \in Nat /\ interfaceStatus \in Table
  BY <1>2, <1>3, FieldTypes, CaptureStatusAssumption DEF TypeOK, Table
<1>6. s \in StreamsOf(i) /\ id \in interface[i].ids.used
  BY <1>1, <1>2, <1>4 DEF StreamLevel, StreamIdsOf, StreamsOf
<1> DEFINE pool == RemoveId(interface[i].ids, id)
           r == [interface[i] EXCEPT !.ids = RemoveId(@, id), !.streamIdsList = @ \ {id}]
<1>7. /\ pool.used = interface[i].ids.used \ {id} /\ pool.used \cap pool.unused = {}
      /\ pool \in IdPools(MaxStreamId)
  BY <1>4, <1>5, <1>6, PoolRemove DEF StreamLevel
<1>8. /\ r \in InterfaceRecord /\ r.set.id = interface[i].set.id /\ r.ids = pool
      /\ r.streamIdsList = interface[i].streamIdsList \ {id}
  BY <1>3, <1>7 DEF InterfaceRecord
<1>9. UpdateInterfaceData(i, r, interfaceStatus) /\ stream' = [stream EXCEPT ![s] = None]
  BY <1>1 DEF RemoveStream
<1> HIDE DEF pool, r
<1>10. /\ stream' \in [Stream -> StreamRecord \cup {None}] /\ stream'[s] = None
       /\ \A x \in Stream : x # s => stream'[x] = stream[x]
  BY <1>2, <1>9 DEF TypeOK
<1>11. \A x \in Interface : x # i => SameStreams(x)
  BY <1>1, <1>3, <1>10, OtherStreams
<1>12. StreamsOf(i)' = StreamsOf(i) \ {s}
  BY <1>10 DEF StreamsOf
<1>13. \A x \in StreamsOf(i)' : stream'[x] = stream[x] /\ stream[x].streamId # id
  BY <1>1, <1>4, <1>6, <1>10, <1>12 DEF StreamLevel, StreamsOf
<1>14. StreamIdsOf(i)' = StreamIdsOf(i) \ {id}
  BY <1>1, <1>6, <1>12, <1>13 DEF StreamIdsOf
<1>15. /\ interface'[i].ids = pool
       /\ interface'[i].streamIdsList = interface[i].streamIdsList \ {id}
  <2>1. interface'[i] = Written(r)
    BY <1>2, <1>3, <1>5, <1>8, <1>9, UpdateInterfaceDataTypes
  <2> QED BY <1>8, <2>1, WrittenRecord
<1>16. \A x, y \in StreamsOf(i)' : stream'[x].streamId = stream'[y].streamId => x = y
  BY <1>4, <1>12, <1>13 DEF StreamLevel
<1>17. Lists(i, interface[i].streamIdsList)'
  <2>1. interface'[i].streamIdsList \subseteq StreamIdsOf(i)'
    BY <1>4, <1>14, <1>15 DEF StreamLevel, Lists
  <2>2. \A x \in StreamsOf(i)' : stream'[x].streamId \in interface'[i].streamIdsList \/ stream'[x].rejected
    BY <1>4, <1>12, <1>13, <1>15 DEF StreamLevel, Lists
  <2> QED BY <2>1, <2>2 DEF Lists
<1>18. StreamLevel(i)'
  BY <1>4, <1>7, <1>14, <1>15, <1>16, <1>17 DEF StreamLevel
<1> QED BY <1>2, <1>3, <1>4, <1>8, <1>9, <1>11, <1>18, WriteInterface

LEMMA RenumberStreamIds ==
  ASSUME TypeOK, TreeOK, NEW s \in Stream, stream[s] # None, NEW id \in StreamIds,
         InterfaceLevel, StreamLevels, PacketsOK, UNCHANGED ids, RenumberStream(s, id)
  PROVE  InterfaceLevel' /\ StreamLevels' /\ PacketsOK'
<1>1. PICK i, was : i = stream[s].parent /\ was = stream[s].streamId
  OBVIOUS
<1>2. i \in Interface /\ Exists(i) /\ was \in StreamIds /\ interface[i] \in InterfaceRecord
  BY <1>1, FieldTypes DEF TreeOK
<1>3. StreamLevel(i)
  BY <1>2 DEF StreamLevels
<1>4. interface[i].ids \in IdPools(MaxStreamId) /\ MaxStreamId \in Nat /\ interfaceStatus \in Table
  BY <1>2, FieldTypes, CaptureStatusAssumption DEF TypeOK, Table
<1>5. s \in StreamsOf(i) /\ was \in interface[i].ids.used /\ id \notin interface[i].ids.used
  BY <1>1, <1>3 DEF StreamLevel, StreamIdsOf, StreamsOf, RenumberStream, IsValidId
<1> DEFINE pool == AddId(RemoveId(interface[i].ids, was), id, MaxStreamId)
           t == [stream[s] EXCEPT !.streamId = id, !.rejected = FALSE]
           r == [interface[i] EXCEPT !.ids = AddId(RemoveId(@, was), id, MaxStreamId),
                                     !.streamIdsList = (@ \ {was}) \cup {id}]
<1>6. /\ pool.used = (interface[i].ids.used \ {was}) \cup {id} /\ pool.used \cap pool.unused = {}
      /\ pool \in IdPools(MaxStreamId)
  <2>1. RemoveId(interface[i].ids, was) \in IdPools(MaxStreamId)
    BY <1>2, <1>4, IdPoolType DEF StreamIds
  <2>2. interface[i].ids.used \cap interface[i].ids.unused = {} /\ id \in 0..MaxStreamId
    BY <1>3 DEF StreamIds, StreamLevel
  <2>3. /\ pool.used = (interface[i].ids.used \ {was}) \cup {id}
        /\ pool.used \cap pool.unused = {}
    BY <1>4, <1>5, <2>2, PoolMove
  <2>4. pool \in IdPools(MaxStreamId)
    BY <1>4, <2>1, <2>2, IdPoolType
  <2> QED BY <2>3, <2>4
<1>7. t \in StreamRecord /\ t.parent = i /\ t.streamId = id
  BY <1>1, FieldTypes DEF StreamRecord
<1>8. /\ r \in InterfaceRecord /\ r.set.id = interface[i].set.id /\ r.ids = pool
      /\ r.streamIdsList = (interface[i].streamIdsList \ {was}) \cup {id}
  BY <1>2, <1>6 DEF InterfaceRecord
<1>9. UpdateInterfaceData(i, r, interfaceStatus) /\ stream' = [stream EXCEPT ![s] = t]
  BY <1>1 DEF RenumberStream
<1> HIDE DEF pool, t, r
<1>10. /\ stream' \in [Stream -> StreamRecord \cup {None}] /\ stream'[s] = t /\ t # None
       /\ \A x \in Stream : x # s => stream'[x] = stream[x]
  BY <1>7, <1>9, CaptureStatusAssumption DEF TypeOK
<1>11. \A x \in Interface : x # i => SameStreams(x)
  BY <1>1, <1>2, <1>7, <1>10, OtherStreams
<1>12. StreamsOf(i)' = StreamsOf(i)
  BY <1>5, <1>7, <1>10 DEF StreamsOf
<1>13. \A x \in StreamsOf(i) : x # s =>
         stream'[x] = stream[x] /\ stream[x].streamId # was /\ stream[x].streamId # id
  BY <1>1, <1>3, <1>5, <1>10 DEF StreamLevel, StreamIdsOf, StreamsOf
<1>14. StreamIdsOf(i)' = (StreamIdsOf(i) \ {was}) \cup {id}
  BY <1>1, <1>5, <1>7, <1>10, <1>12, <1>13 DEF StreamIdsOf
<1>15. /\ interface'[i].ids = pool
       /\ interface'[i].streamIdsList = (interface[i].streamIdsList \ {was}) \cup {id}
  <2>1. interface'[i] = Written(r)
    BY <1>2, <1>4, <1>8, <1>9, UpdateInterfaceDataTypes
  <2> QED BY <1>8, <2>1, WrittenRecord
<1>16. \A x, y \in StreamsOf(i)' : stream'[x].streamId = stream'[y].streamId => x = y
  BY <1>3, <1>7, <1>10, <1>12, <1>13 DEF StreamLevel
<1>17. Lists(i, interface[i].streamIdsList)'
  <2>1. interface'[i].streamIdsList \subseteq StreamIdsOf(i)'
    BY <1>3, <1>14, <1>15 DEF StreamLevel, Lists
  <2>2. \A x \in StreamsOf(i)' : stream'[x].streamId \in interface'[i].streamIdsList \/ stream'[x].rejected
    BY <1>3, <1>7, <1>10, <1>12, <1>13, <1>15 DEF StreamLevel, Lists
  <2> QED BY <2>1, <2>2 DEF Lists
<1>18. StreamLevel(i)'
  BY <1>3, <1>6, <1>14, <1>15, <1>16, <1>17 DEF StreamLevel
<1> QED BY <1>2, <1>8, <1>9, <1>11, <1>18, WriteInterface

\* The packet still names the stream whose id left the list, and may.
LEMMA RejectStreamIdIds ==
  ASSUME TypeOK, TreeOK, NEW s \in Stream, stream[s] # None, NEW id \in StreamIds,
         InterfaceLevel, StreamLevels, PacketsOK, UNCHANGED ids, RejectStreamId(s, id)
  PROVE  InterfaceLevel' /\ StreamLevels' /\ PacketsOK'
<1>1. PICK i, was : i = stream[s].parent /\ was = stream[s].streamId
  OBVIOUS
<1>2. i \in Interface /\ Exists(i) /\ interface[i] \in InterfaceRecord
  BY <1>1, FieldTypes DEF TreeOK
<1>3. StreamLevel(i)
  BY <1>2 DEF StreamLevels
<1> DEFINE t == [stream[s] EXCEPT !.rejected = TRUE]
           r == [interface[i] EXCEPT !.streamIdsList = @ \ {was}]
<1>4. t \in StreamRecord /\ t.parent = i /\ t.streamId = was /\ t.rejected
  BY <1>1, FieldTypes DEF StreamRecord
<1>5. /\ r \in InterfaceRecord /\ r.set = interface[i].set /\ r.ids = interface[i].ids
      /\ r.dropped = interface[i].dropped /\ r.streamIdsList = interface[i].streamIdsList \ {was}
  BY <1>2 DEF InterfaceRecord
<1>6. /\ interface' = [interface EXCEPT ![i] = r] /\ stream' = [stream EXCEPT ![s] = t]
      /\ UNCHANGED interfaceStatus
  BY <1>1 DEF RejectStreamId
<1> HIDE DEF t, r
<1>7. interface'[i] = r /\ Exists(i)' /\ \A x \in Interface : x # i => interface'[x] = interface[x]
  BY <1>2, <1>5, <1>6, PutInterface DEF Exists
<1>8. /\ stream' \in [Stream -> StreamRecord \cup {None}] /\ stream'[s] = t /\ t # None
      /\ \A x \in Stream : x # s => stream'[x] = stream[x]
  BY <1>4, <1>6, CaptureStatusAssumption DEF TypeOK
<1>9. \A x \in Interface : x # i => SameStreams(x)
  BY <1>1, <1>2, <1>4, <1>8, OtherStreams
<1>10. s \in StreamsOf(i) /\ StreamsOf(i)' = StreamsOf(i)
  BY <1>1, <1>4, <1>8 DEF StreamsOf
<1>11. \A x \in StreamsOf(i) : /\ stream'[x].streamId = stream[x].streamId
                               /\ stream[x].rejected => stream'[x].rejected
  BY <1>1, <1>4, <1>8 DEF StreamsOf
<1>12. StreamIdsOf(i)' = StreamIdsOf(i)
  BY <1>10, <1>11 DEF StreamIdsOf
<1>13. InterfaceLevel'
  BY <1>2, <1>5, <1>7, KeepInterfaceLevel DEF Exists
<1>14. StreamLevel(i)'
  <2>1. \A x \in StreamsOf(i) : x # s => stream[x].streamId # was
    BY <1>1, <1>3, <1>10 DEF StreamLevel
  <2>2. \A x, y \in StreamsOf(i)' : stream'[x].streamId = stream'[y].streamId => x = y
    BY <1>3, <1>10, <1>11 DEF StreamLevel
  <2>3. interface'[i].streamIdsList \subseteq StreamIdsOf(i)'
    BY <1>3, <1>5, <1>7, <1>12 DEF StreamLevel, Lists
  <2>4. \A x \in StreamsOf(i)' : stream'[x].streamId \in interface'[i].streamIdsList \/ stream'[x].rejected
    BY <1>3, <1>4, <1>5, <1>7, <1>8, <1>10, <1>11, <2>1 DEF StreamLevel, Lists
  <2> QED BY <1>3, <1>5, <1>7, <1>12, <2>2, <2>3, <2>4 DEF StreamLevel, Lists
<1>15. StreamLevels'
  BY <1>7, <1>9, <1>14, KeepStreamLevel DEF StreamLevels, Exists
<1>16. Announced(i)'
  <2>1. Announced(i)
    BY <1>2 DEF PacketsOK
  <2>2. PICK streams : streams = interfaceStatus[interface[i].set.id].streams
    OBVIOUS
  <2>3. Lists(i, streams) => Lists(i, streams)'
    BY <1>10, <1>11, <1>12 DEF Lists
  <2> QED BY <1>5, <1>6, <1>7, <2>1, <2>2, <2>3 DEF Announced, Lists
<1>17. ASSUME NEW x \in Interface, x # i, Exists(x)' PROVE Announced(x)'
  <2>1. Exists(x) /\ interface'[x] = interface[x] /\ Announced(x)
    BY <1>7, <1>17 DEF Exists, PacketsOK
  <2>2. PICK streams : streams = interfaceStatus[interface[x].set.id].streams
    OBVIOUS
  <2>3. Lists(x, streams) => Lists(x, streams)'
    BY <1>9, <1>17, SameStreamsLists
  <2> QED BY <1>6, <2>1, <2>2, <2>3 DEF Announced, Lists
<1>18. ASSUME NEW n \in InterfaceIds, interfaceStatus'[n] # None
       PROVE  \E x \in Interface : Exists(x)' /\ interface'[x].set.id = n /\ ~interface'[x].dropped
  <2>1. PICK x \in Interface : Exists(x) /\ interface[x].set.id = n /\ ~interface[x].dropped
    BY <1>6, <1>18 DEF PacketsOK
  <2> QED BY <1>5, <1>7, <2>1 DEF Exists
<1>19. PacketsOK'
  BY <1>16, <1>17, <1>18 DEF PacketsOK
<1> QED BY <1>13, <1>15, <1>19

LEMMA SetStreamIdIds ==
  ASSUME BlocksInv, IdsInv, NEW s \in Stream, NEW id \in StreamIds, SetStreamId(s, id)
  PROVE  IdsInv'
<1>1. TypeOK /\ TreeOK /\ stream[s] # None /\ UNCHANGED <<ids, exhausted>>
  BY DEF BlocksInv, SetStreamId
<1>2. RenumberStream(s, id) \/ RejectStreamId(s, id)
  BY DEF SetStreamId
<1> QED BY <1>1, <1>2, RenumberStreamIds, RejectStreamIdIds DEF IdsInv

LEMMA NextIds ==
  ASSUME BlocksInv, IdsInv, [Next]_vars
  PROVE  IdsInv'
<1>1. CASE UNCHANGED <<exhausted, ids, interface, stream, interfaceStatus>>
  BY <1>1, QuietIds DEF BlocksInv, Exists
<1>2. NextCapture => UNCHANGED <<exhausted, ids, interface, stream, interfaceStatus>>
  BY DEF NextCapture, SetDeviceId, SetDeviceInfo, SetCaptureUpdating, BeginUpdateCapture,
         EndUpdateCapture, PropertyChangedCapture, UpdateCaptureData, tree, status
<1>3. (LoopStep \/ StopStatusLoop \/ StopStep \/ UNCHANGED vars) =>
        UNCHANGED <<exhausted, ids, interface, stream, interfaceStatus>>
  BY DEF LoopStep, LoopCheck, LoopWait, LoopSendDevice, LoopSendInterfaces, StopStatusLoop,
         StopStep, Notify, Join, tree, status, vars
<1>4. NextStream => IdsInv'
  BY AddStreamIds, RemoveStreamIds, SetStreamIdIds DEF NextStream
<1> QED BY <1>1, <1>2, <1>3, <1>4, NextInterfaceIds DEF Next

LEMMA InitIds ==
  ASSUME Init
  PROVE  IdsInv
<1> USE DEF Init
<1>1. InterfaceLevel
  BY DEF InterfaceLevel, InterfaceIdsUnique, InterfaceIdsInUse, Exists, EmptyIds
<1>2. StreamLevels /\ PacketsOK
  BY DEF StreamLevels, PacketsOK, Exists
<1> QED BY <1>1, <1>2 DEF IdsInv

\* The identifiers: pools, blocks, lists and packets agree in every step of the two
\* threads, until a block is added when none is left.
THEOREM IdsInvariant == Spec => []IdsInv
<1>1. Init => IdsInv
  BY InitIds
<1>2. BlocksInv /\ IdsInv /\ [Next]_vars => IdsInv'
  BY NextIds
<1> QED BY <1>1, <1>2, BlocksInvariant, PTL DEF Spec

-----------------------------------------------------------------------------
(* The properties.                                                         *)

\* Every variable has its type: the members of CaptureFb, InterfaceFb and StreamFb,
\* their id managers and captureStatus.
THEOREM TypeCorrect == Spec => []TypeOK
<1>1. BlocksInv => TypeOK
  BY DEF BlocksInv
<1> QED BY <1>1, BlocksInvariant, PTL

\* InterfaceIds and StreamIds are unique, and the id managers know which are in use,
\* until addInterfaceInternal or addStreamInternal finds none left.
THEOREM IdsAreUnique == Spec => []UniqueIds
<1>1. BlocksInv /\ IdsInv => UniqueIds
  <2> SUFFICES ASSUME TypeOK, TreeOK, InterfaceLevel, StreamLevels
               PROVE  /\ InterfaceIdsUnique /\ StreamIdsUnique
                      /\ ids.used = InterfaceIdsInUse
                      /\ \A i \in Interface : Exists(i) => interface[i].ids.used = StreamIdsOf(i)
    BY DEF BlocksInv, IdsInv, UniqueIds
  <2>1. ASSUME NEW s \in Stream, NEW t \in Stream, stream[s] # None, stream[t] # None,
               stream[s].parent = stream[t].parent, stream[s].streamId = stream[t].streamId
        PROVE  s = t
    <3>1. PICK i : i = stream[s].parent
      OBVIOUS
    <3>2. i \in Interface /\ StreamLevel(i)
      BY <2>1, <3>1, FieldTypes DEF TreeOK, StreamLevels
    <3>3. s \in StreamsOf(i) /\ t \in StreamsOf(i)
      BY <2>1, <3>1 DEF StreamsOf
    <3> QED BY <2>1, <3>2, <3>3 DEF StreamLevel
  <2>2. StreamIdsUnique
    BY <2>1 DEF StreamIdsUnique
  <2> QED BY <2>2 DEF InterfaceLevel, StreamLevels, StreamLevel
<1> QED BY <1>1, BlocksInvariant, IdsInvariant, PTL

\* The interface packets in captureStatus are those of the Interface blocks, whatever
\* step of the configuration thread statusLoop sends them after.
THEOREM PacketsOfInterfaces == Spec => []InterfacesAnnounced
<1>1. BlocksInv /\ IdsInv => InterfacesAnnounced
  <2> SUFFICES ASSUME TypeOK, InterfaceLevel, PacketsOK, NEW id \in InterfaceIds
               PROVE  LET owners == {i \in Interface : Exists(i) /\ interface[i].set.id = id
                                                       /\ ~interface[i].dropped}
                      IN IF interfaceStatus[id] = None THEN owners = {}
                         ELSE \E i \in owners :
                                interfaceStatus[id].payloadType = interface[i].set.payloadType
    BY DEF BlocksInv, IdsInv, InterfacesAnnounced
  <2>1. CASE interfaceStatus[id] = None
    BY <2>1 DEF PacketsOK, Announced
  <2>2. CASE interfaceStatus[id] # None
    BY <2>2 DEF PacketsOK, Announced
  <2> QED BY <2>1, <2>2
<1> QED BY <1>1, BlocksInvariant, IdsInvariant, PTL

LEMMA SameTypes ==
  ASSUME NEW p, NEW q,
         \A i \in Interface : Exists(i) => p[i].id = q[i].id /\ p[i].payloadType = q[i].payloadType
  PROVE  TypesOf(p) = TypesOf(q)
<1>1. ASSUME NEW id \in InterfaceIds
      PROVE  {p[i].payloadType : i \in {j \in Interface : Exists(j) /\ ~interface[j].dropped /\ p[j].id = id}}
             = {q[i].payloadType : i \in {j \in Interface : Exists(j) /\ ~interface[j].dropped /\ q[j].id = id}}
  OBVIOUS
<1> QED BY <1>1 DEF TypesOf

\* The interface packets in captureStatus are those of the properties before
\* propertyChanged or after it, but for the new InterfaceId with the old PayloadType
\* between its two halves.
THEOREM PacketsAreOldOrNew == Spec => []PacketsOldOrNew
<1>1. BlocksInv /\ IdsInv => PacketsOldOrNew
  <2> SUFFICES ASSUME TypeOK, OperationOK, InterfaceLevel, PacketsOK
               PROVE  OldOrNew \/ (ChangesBoth /\ TypesSent = TypesOf(HalfChanged))
    BY DEF BlocksInv, IdsInv, PacketsOldOrNew
  <2>1. TypesSent = TypesOf(Properties)
    <3>1. ASSUME NEW id \in InterfaceIds
          PROVE  (IF interfaceStatus[id] = None THEN {} ELSE {interfaceStatus[id].payloadType})
                 = {Properties[i].payloadType :
                      i \in {j \in Interface : Exists(j) /\ ~interface[j].dropped /\ Properties[j].id = id}}
      <4> DEFINE owners == {j \in Interface : Exists(j) /\ ~interface[j].dropped /\ interface[j].set.id = id}
      <4>1. owners = {j \in Interface : Exists(j) /\ ~interface[j].dropped /\ Properties[j].id = id}
        BY DEF Properties
      <4>2. \A i \in owners : Properties[i].payloadType = interface[i].set.payloadType
        BY DEF Properties
      <4>3. \A i \in owners : interfaceStatus[id] # None
                              /\ interfaceStatus[id].payloadType = interface[i].set.payloadType
        BY DEF PacketsOK, Announced
      <4>4. interfaceStatus[id] # None => owners # {}
        BY DEF PacketsOK
      <4> HIDE DEF owners
      <4> QED BY <4>1, <4>2, <4>3, <4>4
    <3> QED BY <3>1 DEF TypesSent, TypesOf
  <2>2. CASE ~Applying
    BY <2>1, <2>2 DEF OldOrNew, Before
  <2>3. CASE Applying
    <3>1. /\ fb \in Interface /\ Exists(fb) /\ Properties[fb] = interface[fb].set
          /\ interface[fb].set.payloadType = old.payloadType
          /\ old \in InterfaceProperties /\ new \in InterfaceProperties
          /\ interface[fb].set \in InterfaceProperties
      BY <2>3, FieldTypes DEF Applying, OperationOK, Properties
    <3>2. /\ Before = [Properties EXCEPT ![fb] = old]
          /\ After = [Properties EXCEPT ![fb].payloadType = new.payloadType]
          /\ DOMAIN Properties = Interface
      BY <2>3 DEF Before, After, Properties
    <3>3. CASE interface[fb].set.id = old.id
      <4>1. TypesOf(Before) = TypesOf(Properties)
        BY <3>1, <3>2, <3>3, SameTypes
      <4> QED BY <2>1, <4>1 DEF OldOrNew
    <3>4. CASE new.payloadType = old.payloadType
      <4>1. \A i \in Interface : After[i].id = Properties[i].id
                                 /\ After[i].payloadType = Properties[i].payloadType
        BY <3>1, <3>2, <3>4 DEF InterfaceProperties
      <4>2. TypesOf(After) = TypesOf(Properties)
        BY <4>1, SameTypes
      <4> QED BY <2>1, <4>2 DEF OldOrNew
    <3>5. CASE interface[fb].set.id # old.id /\ new.payloadType # old.payloadType
      <4>1. HalfChanged = [Properties EXCEPT ![fb] = [old EXCEPT !.id = interface[fb].set.id]]
        BY <3>1, <3>2 DEF HalfChanged
      <4>2. \A i \in Interface : HalfChanged[i].id = Properties[i].id
                                 /\ HalfChanged[i].payloadType = Properties[i].payloadType
        BY <3>1, <3>2, <4>1 DEF InterfaceProperties
      <4>3. TypesOf(HalfChanged) = TypesOf(Properties)
        BY <4>2, SameTypes
      <4> QED BY <2>1, <2>3, <3>5, <4>3 DEF ChangesBoth
    <3> QED BY <3>3, <3>4, <3>5
  <2> QED BY <2>2, <2>3
<1> QED BY <1>1, BlocksInvariant, IdsInvariant, PTL

\* A packet names the streams of its interface, all but those whose last write to
\* StreamId StreamFb::updateStreamIdInternal turned down.
THEOREM PacketsOfStreams == Spec => []StreamsAnnounced
<1>1. IdsInv => StreamsAnnounced
  BY DEF IdsInv, PacketsOK, Announced, Lists, StreamsAnnounced
<1> QED BY <1>1, IdsInvariant, PTL

\* InterfaceFb::updatePayloadTypeInternal and addStreamInternal together keep the
\* PayloadType of streams and interface the same.
THEOREM StreamsFollow == Spec => []StreamsFollowPayloadType
<1>1. BlocksInv => StreamsFollowPayloadType
  BY DEF BlocksInv, PayloadTypesOK, StreamsFollowPayloadType
<1> QED BY <1>1, BlocksInvariant, PTL

\* A write of VendorData is announced when propertyChanged returns, unless the
\* PayloadType is Undefined.
THEOREM VendorDataFollows == Spec => []VendorDataAnnounced
<1>1. BlocksInv => VendorDataAnnounced
  BY DEF BlocksInv, VendorDataOK, VendorDataAnnounced, Idle
<1> QED BY <1>1, BlocksInvariant, PTL

\* CaptureFb::propertyChanged leaves the encoders and the device packet with the
\* properties of the block.
THEOREM DeviceFollows == Spec => []DeviceAnnounced
<1>1. BlocksInv => DeviceAnnounced
  BY DEF BlocksInv, OperationOK, DeviceOK, DeviceAnnounced, Idle
<1> QED BY <1>1, BlocksInvariant, PTL
================================================================================
