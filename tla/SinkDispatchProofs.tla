--------------------------- MODULE SinkDispatchProofs ---------------------------
(***************************************************************************)
(* Proofs about SinkDispatch: whatever frames arrive, and however many     *)
(* Capture blocks and devices there are, the list shows the status table,  *)
(* an index means the device that the user saw, and publish calls no block *)
(* that is gone.                                                           *)
(*                                                                         *)
(* The first two are about the table and the list alone, so their          *)
(* invariant needs nothing of the publisher.  The third needs to know      *)
(* where the entry of each block is, in the middle of each operation.      *)
(***************************************************************************)
EXTENDS SinkDispatch, FiniteSetTheorems, TLAPS

Config ==
  {Idle} \cup [op : {"clear"}] \cup [op : {"remove"}, block : Block] \cup
  [op : {"move", "subscribe"}, block : Block, old : DeviceIds, info : Infos \cup {Garbled, None}] \cup
  [op : {"fill"}, block : Block, old : DeviceIds, info : Infos \cup {Garbled}]

\* The block that an operation is about is there.
BlockThere ==
  config.op \in {"move", "subscribe", "fill", "remove"} => block[config.block] # None

\* The types, without the number of interfaces that a line shows.
Types ==
  /\ status \in Seq(DeviceStatus)
  /\ list \in Seq({LineOf(entry) : entry \in DeviceStatus})
  /\ block \in [Block -> BlockRecord \cup {None}]
  /\ publisher \in [Block -> [DeviceIds -> Nat]]
  /\ arrival # None => arrival \in Arrival /\ arrival.at \in DOMAIN arrival.frame.messages
  /\ config \in Config /\ BlockThere
  /\ seen # None => seen \in Seq(DeviceIds)

\* Who is in which critical section.
Sections ==
  /\ InLoop("list") => stMutex = "capture" /\ arrival.frame.messageType = "status"
  /\ config.op = "clear" => stMutex = "config" /\ status = <<>>

OneEntry == \A j, k \in DOMAIN status : status[j].device = status[k].device => j = k

\* The table is ahead of the list by what the message in hand changed.
Behind ==
  InLoop("list") =>
    /\ Len(status) \in {Len(list), Len(list) + 1}
    /\ \A k \in 1..Len(list) : k \in IndexOf(arrival.frame.device) \/ list[k] = LineOf(status[k])
    /\ Len(status) # Len(list) => Len(status) \in IndexOf(arrival.frame.device)

\* The table only grows after the user has read the list, and keeps its order.
SeenStays == seen # None => \A k \in DOMAIN seen : k \in DOMAIN status /\ status[k].device = seen[k]

ListInv == Sections /\ OneEntry /\ ListShowsStatus /\ Behind /\ SeenStays /\ AddedIsTheOneSeen

\* The topic of the only entry that a block may have.
TopicOf(b) == IF config.op = "move" /\ config.block = b THEN config.old ELSE block[b].device

\* A block in the middle of a move or a removal has no entry.
Entered(b) == block[b] # None /\ ~(config.op \in {"subscribe", "remove"} /\ config.block = b)

Entries ==
  \A b \in Block, d \in DeviceIds :
    publisher[b][d] > 0 => publisher[b][d] = 1 /\ Entered(b) /\ d = TopicOf(b)

Called ==
  InLoop("receive") =>
    \A b \in arrival.receivers : block[b] # None /\ ~(config.op = "remove" /\ config.block = b)

EntryInv == Entries /\ Called

\* Each device names finitely many interfaces, so that a line can show their number.
Counted ==
  /\ \A k \in DOMAIN status : IsFiniteSet(status[k].interfaces)
  /\ list \in Seq(Line)

\* A block shows, or is about to show, what was read from another packet.
Unreadable(record) == record.info = Garbled \/ (record.pending # None /\ record.pending.info = Garbled)

\* Only a status frame whose first message is a capture module status is handed
\* to the Capture blocks, and only one that mixes the two, or a copy of no entry,
\* can garble a block.
Garbling ==
  /\ arrival # None /\ MixesStatus(arrival.frame) => misread
  /\ InLoop("list") => arrival.frame.messageType = "status"
  /\ InLoop("publish") \/ InLoop("receive") =>
       arrival.frame.messageType = "status" /\ frontMessage.type = "cmStatMsg"
  /\ config.op \in {"move", "subscribe", "fill"} /\ config.info = Garbled => misread
  /\ \A b \in Block : block[b] # None /\ Unreadable(block[b]) => misread

\* As long as no block was added from the status, each block that is not in the
\* middle of a move or a removal has its entry, ...
Listening ==
  ~fromStatus =>
    /\ config.op # "fill" /\ (config.op \in {"move", "subscribe"} => config.info = None)
    /\ \A b \in Block : Entered(b) => publisher[b][TopicOf(b)] > 0

\* Block b is of the device of the frame in hand, and no operation on it is under way.
Addressed(b) == block[b] # None /\ block[b].device = arrival.frame.device /\ Settled(b)

DescriptionIn(record) == IF record.pending = None THEN record.info ELSE record.pending.info

\* ... so that publish is still to call it or has told it.
Told ==
  InLoop("receive") /\ message.type = "cmStatMsg" /\ ~fromStatus =>
    \A b \in Block : Addressed(b) /\ b \notin arrival.receivers => DescriptionIn(block[b]) = message.info

\* What a write of DeviceId and the calls of an update do to a block: no description
\* is lost, and the entry has to move if the device is another.
Rewrites(b, record) ==
  /\ config = Idle /\ block[b] # None /\ block' = [block EXCEPT ![b] = record]
  /\ \/ config' = Idle /\ record.device = block[b].device /\ record.meant = block[b].meant
     \/ BeginMove(b) /\ record.meant = None
  /\ DescriptionIn(record) = DescriptionIn(block[b])
  /\ Unreadable(record) => Unreadable(block[b])
  /\ UNCHANGED <<status, list, stMutex, publisher, arrival, frames, delivery, seen, misread, fromStatus>>

--------------------------------------------------------------------------------
(* Facts about the operators.                                                *)

LEMMA FrameHasMessages ==
  ASSUME NEW frame \in Frames
  PROVE /\ frame.device \in DeviceIds /\ frame.messages \in Seq(StatusMessage \cup DataMessage)
        /\ 1 \in DOMAIN frame.messages /\ Len(frame.messages) \in Nat
        /\ frame.messageType = "status" => frame.messages \in Seq(StatusMessage)
<1>1. frame \in Frame /\ frame.messages # <<>>
  BY SinkDispatchAssumption
<1>2. CASE frame \in [device : DeviceIds, messageType : {"status"}, messages : Seq(StatusMessage)]
  <2>1. frame.device \in DeviceIds /\ frame.messages \in Seq(StatusMessage)
    BY <1>2
  <2>2. 1 \in DOMAIN frame.messages /\ Len(frame.messages) \in Nat
    BY <1>1, <2>1
  <2>3. frame.messages \in Seq(StatusMessage \cup DataMessage)
    BY <2>1
  <2>. QED
    BY <2>1, <2>2, <2>3
<1>3. CASE frame \in [device : DeviceIds, messageType : {"data"}, messages : Seq(DataMessage)]
  <2>1. frame.device \in DeviceIds /\ frame.messages \in Seq(DataMessage) /\ frame.messageType # "status"
    BY <1>3
  <2>2. 1 \in DOMAIN frame.messages /\ Len(frame.messages) \in Nat
    BY <1>1, <2>1
  <2>3. frame.messages \in Seq(StatusMessage \cup DataMessage)
    BY <2>1
  <2>. QED
    BY <2>1, <2>2, <2>3
<1>. QED
  BY <1>1, <1>2, <1>3 DEF Frame

\* The frame in hand, and the message.
LEMMA InHand ==
  ASSUME Types, arrival # None
  PROVE /\ arrival \in Arrival /\ arrival.frame \in Frames /\ arrival.frame.device \in DeviceIds
        /\ arrival.at \in DOMAIN arrival.frame.messages /\ arrival.at \in Nat
        /\ arrival.frame.messageType = "status" => message \in StatusMessage
<1>1. arrival \in Arrival /\ arrival.at \in DOMAIN arrival.frame.messages
  BY DEF Types
<1>2. arrival.frame \in Frames /\ arrival.at \in Nat
  BY <1>1 DEF Arrival
<1>3. arrival.frame.messageType = "status" => arrival.frame.messages \in Seq(StatusMessage)
  BY <1>2, FrameHasMessages
<1>4. arrival.frame.messageType = "status" => message \in StatusMessage
  BY <1>1, <1>3 DEF message
<1>. QED
  BY <1>1, <1>2, <1>4, FrameHasMessages

LEMMA AfterMessage ==
  ASSUME Types, arrival # None, NextMessage
  PROVE arrival' # None =>
          /\ arrival' \in Arrival /\ arrival'.at \in DOMAIN arrival'.frame.messages
          /\ arrival'.step = "loop"
<1>1. /\ arrival \in Arrival /\ arrival.frame \in Frames /\ arrival.at \in Nat
      /\ arrival.at \in DOMAIN arrival.frame.messages
  BY InHand
<1>2. Len(arrival.frame.messages) \in Nat /\ DOMAIN arrival.frame.messages = 1..Len(arrival.frame.messages)
  BY <1>1, FrameHasMessages
<1>3. CASE arrival.at = Len(arrival.frame.messages)
  BY <1>3 DEF NextMessage
<1>4. CASE arrival.at # Len(arrival.frame.messages)
  <2>1. arrival' = [arrival EXCEPT !.at = arrival.at + 1, !.step = "loop", !.receivers = {}]
    BY <1>4 DEF NextMessage
  <2>2. arrival.at + 1 \in Nat /\ {} \in SUBSET Block
    BY <1>1
  <2>4. arrival' \in Arrival
    BY <1>1, <2>1, <2>2 DEF Arrival
  <2>5. arrival'.at = arrival.at + 1 /\ arrival'.frame = arrival.frame /\ arrival'.step = "loop"
    BY <1>1, <2>1 DEF Arrival
  <2>3. arrival.at + 1 \in DOMAIN arrival.frame.messages
    BY <1>1, <1>2, <1>4
  <2>. QED
    BY <2>3, <2>4, <2>5
<1>. QED
  BY <1>3, <1>4

\* The table keeps its order, and a device that is new comes last.
LEMMA StatusGrows ==
  ASSUME status \in Seq(DeviceStatus), NEW device \in DeviceIds, NEW m \in StatusMessage,
         NEW new, new = UpdatedStatus(device, m)
  PROVE /\ new \in Seq(DeviceStatus) /\ Len(new) \in {Len(status), Len(status) + 1}
        /\ \A k \in 1..Len(status) : /\ new[k].device = status[k].device
                                     /\ status[k].device # device => new[k] = status[k]
        /\ Len(new) # Len(status) => new[Len(new)].device = device /\ IndexOf(device) = {}
<1>1. Len(status) \in Nat /\ DOMAIN status = 1..Len(status)
  OBVIOUS
<1>2. CASE m.type = "cmStatMsg" /\ IndexOf(device) = {}
  <2>. DEFINE entry == [device |-> device, info |-> m.info, interfaces |-> {}]
  <2>1. new = Append(status, entry)
    BY <1>2 DEF UpdatedStatus
  <2>2. entry \in DeviceStatus /\ entry.device = device
    BY <1>2 DEF StatusMessage, DeviceStatus
  <2>. HIDE DEF entry
  <2>3. /\ new \in Seq(DeviceStatus) /\ Len(new) = Len(status) + 1 /\ new[Len(status) + 1] = entry
        /\ \A k \in 1..Len(status) : new[k] = status[k]
    BY <1>1, <2>1, <2>2
  <2>. QED
    BY <1>2, <2>2, <2>3
<1>3. CASE ~(m.type = "cmStatMsg" /\ IndexOf(device) = {})
  <2>. DEFINE entry(k) ==
         IF status[k].device # device THEN status[k]
         ELSE IF m.type = "cmStatMsg" THEN [status[k] EXCEPT !.info = m.info]
         ELSE [status[k] EXCEPT !.interfaces = @ \cup {m.interface}]
  <2>1. new = [k \in DOMAIN status |-> entry(k)]
    BY <1>3 DEF UpdatedStatus
  <2>2. \A k \in 1..Len(status) : entry(k) \in DeviceStatus /\ entry(k).device = status[k].device
    <3>. TAKE k \in 1..Len(status)
    <3>1. status[k] \in DeviceStatus
      BY <1>1
    <3>2. m.type = "cmStatMsg" => m.info \in Infos
      BY DEF StatusMessage
    <3>3. m.type # "cmStatMsg" => m.interface \in Nat
      BY DEF StatusMessage
    <3>. QED
      BY <3>1, <3>2, <3>3 DEF DeviceStatus
  <2>3. \A k \in 1..Len(status) : status[k].device # device => entry(k) = status[k]
    OBVIOUS
  <2>. HIDE DEF entry
  <2>4. new \in Seq(DeviceStatus) /\ Len(new) = Len(status) /\ \A k \in 1..Len(status) : new[k] = entry(k)
    BY <1>1, <2>1, <2>2
  <2>. QED
    BY <2>2, <2>3, <2>4
<1>. QED
  BY <1>2, <1>3

\* A table after subscribe.
LEMMA SubscribeAdds ==
  ASSUME NEW table \in [Block -> [DeviceIds -> Nat]], NEW d \in DeviceIds, NEW b \in Block
  PROVE /\ Subscribe(table, d, b) \in [Block -> [DeviceIds -> Nat]]
        /\ \A x \in Block, t \in DeviceIds :
             Subscribe(table, d, b)[x][t] = IF x = b /\ t = d THEN table[b][d] + 1 ELSE table[x][t]
BY DEF Subscribe

\* A table without one entry.
LEMMA EraseRemoves ==
  ASSUME NEW table \in [Block -> [DeviceIds -> Nat]], NEW d \in DeviceIds, NEW b \in Block, table[b][d] > 0
  PROVE /\ Erase(table, d, b) \in [Block -> [DeviceIds -> Nat]]
        /\ \A x \in Block, t \in DeviceIds :
             Erase(table, d, b)[x][t] = IF x = b /\ t = d THEN table[b][d] - 1 ELSE table[x][t]
<1>1. table[b][d] - 1 \in Nat
  <2>1. table[b][d] \in Nat
    OBVIOUS
  <2>. QED
    BY <2>1
<1>. QED
  BY <1>1 DEF Erase

\* unsubscribe, also one that misses, adds no entry, and leaves none of a block that had
\* one at most.
LEMMA UnsubscribeRemoves ==
  ASSUME NEW table \in [Block -> [DeviceIds -> Nat]], NEW d \in DeviceIds, NEW b \in Block,
         table[b][d] <= 1, NEW new \in Unsubscribe(table, d, b)
  PROVE /\ new \in [Block -> [DeviceIds -> Nat]] /\ new[b][d] = 0
        /\ \A x \in Block, t \in DeviceIds : new[x][t] <= table[x][t]
<1>. DEFINE Fits(other) ==
       /\ other \in [Block -> [DeviceIds -> Nat]] /\ other[b][d] = 0
       /\ \A x \in Block, t \in DeviceIds : other[x][t] <= table[x][t]
<1>0. \A x \in Block, t \in DeviceIds : table[x][t] \in Nat
  OBVIOUS
<1>1. CASE table[b][d] > 0
  <2>1. new = Erase(table, d, b)
    BY <1>1 DEF Unsubscribe
  <2>2. table[b][d] = 1
    BY <1>0, <1>1
  <2>. QED
    BY <1>0, <1>1, <2>1, <2>2, EraseRemoves
<1>2. CASE ~(table[b][d] > 0)
  <2>0. table[b][d] = 0
    BY <1>0, <1>2
  <2>1. Fits(table)
    BY <1>0, <2>0
  <2>2. ASSUME NEW x \in Block, NEW t \in DeviceIds, table[x][t] > 0
        PROVE Fits(Erase(table, t, x))
    <3>1. ~(x = b /\ t = d)
      BY <1>2, <2>2
    <3>2. table[x][t] - 1 <= table[x][t]
      BY <1>0
    <3>. QED
      BY <1>0, <2>0, <2>2, <3>1, <3>2, EraseRemoves
  <2>3. new \in UnsubscribeMiss(table, d)
    BY <1>2 DEF Unsubscribe
  <2>4. new = table \/ \E x \in Block, t \in DeviceIds : table[x][t] > 0 /\ new = Erase(table, t, x)
    BY <2>3 DEF UnsubscribeMiss
  <2>. HIDE DEF Fits
  <2>5. Fits(new)
    BY <2>1, <2>2, <2>4
  <2>. QED
    BY <2>5 DEF Fits
<1>. QED
  BY <1>1, <1>2

\* unsubscribe leaves a table.
LEMMA UnsubscribeKeeps ==
  ASSUME NEW table \in [Block -> [DeviceIds -> Nat]], NEW d \in DeviceIds, NEW b \in Block,
         NEW new \in Unsubscribe(table, d, b)
  PROVE new \in [Block -> [DeviceIds -> Nat]]
<1>1. CASE table[b][d] > 0
  BY <1>1, EraseRemoves DEF Unsubscribe
<1>2. CASE ~(table[b][d] > 0)
  <2>1. new \in UnsubscribeMiss(table, d)
    BY <1>2 DEF Unsubscribe
  <2>2. new = table \/ \E x \in Block, t \in DeviceIds : table[x][t] > 0 /\ new = Erase(table, t, x)
    BY <2>1 DEF UnsubscribeMiss
  <2>. QED
    BY <2>2, EraseRemoves
<1>. QED
  BY <1>1, <1>2

\* The mutex of the list is a name.
LEMMA Names == None # "capture" /\ None # "config"
BY SinkDispatchAssumption

\* The configuration thread leaves the frame alone, and history is not undone.
LEMMA ConfigKeeps ==
  ASSUME ConfigThread
  PROVE /\ arrival' = arrival /\ (fromStatus => fromStatus') /\ (misread => misread')
        /\ stMutex' \in {stMutex, None, "config"}
<1>. USE DEF ConfigThread, ReadList, Clear, ClearList, AddCaptureModuleEmpty, AddCaptureModuleFromStatus,
             SetDeviceId, BeginUpdate, SetDeviceIdUpdating, EndUpdate, MoveUnsubscribe, MoveSubscribe,
             FillFromStatus, RemoveCaptureModule, RemoveItem
<1>1. arrival' = arrival
  OBVIOUS
<1>2. fromStatus => fromStatus'
  OBVIOUS
<1>3. misread => misread'
  OBVIOUS
<1>4. stMutex' \in {stMutex, None, "config"}
  OBVIOUS
<1>. QED
  BY <1>1, <1>2, <1>3, <1>4
--------------------------------------------------------------------------------
(* The types, action by action.                                              *)

LEMMA TypesInit == ASSUME Init PROVE Types
<1>1. status \in Seq(DeviceStatus) /\ list \in Seq({LineOf(entry) : entry \in DeviceStatus})
  BY DEF Init
<1>2. block \in [Block -> BlockRecord \cup {None}]
  BY DEF Init
<1>3. publisher \in [Block -> [DeviceIds -> Nat]]
  BY DEF Init, EmptyTable
<1>. QED
  BY <1>1, <1>2, <1>3 DEF Init, Types, Config, Idle, BlockThere

\* A block that is created or changed is a block.
LEMMA BlockChanges ==
  ASSUME Types, NEW b \in Block, NEW record \in BlockRecord, block' = [block EXCEPT ![b] = record]
  PROVE /\ block' \in [Block -> BlockRecord \cup {None}] /\ block'[b] = record /\ block'[b] # None
        /\ \A x \in Block : block[x] # None => block'[x] # None
        /\ \A x \in Block \ {b} : block'[x] = block[x]
<1>1. record # None
  BY SinkDispatchAssumption
<1>. QED
  BY <1>1 DEF Types

\* What receive reads of a status message, and what it does to a block.
LEMMA ReceivedIsInfo ==
  ASSUME Types, arrival # None
  PROVE ReceivedInfo \in Infos \cup {Garbled}
<1>1. message \in StatusMessage \cup DataMessage
  BY InHand, FrameHasMessages DEF message
<1>. QED
  BY <1>1 DEF StatusMessage, DataMessage, ReceivedInfo

LEMMA ReceiveRewrites ==
  ASSUME Types, NEW b \in Block, Receive(b), block[b] # None
  PROVE \E record \in BlockRecord :
          /\ block' = [block EXCEPT ![b] = record]
          /\ record.device = block[b].device /\ record.meant = block[b].meant
          /\ DescriptionIn(record) = ReceivedInfo
          /\ Unreadable(record) => Unreadable(block[b]) \/ ReceivedInfo = Garbled
<1>. DEFINE info == ReceivedInfo
            old == block[b]
<1>1. info \in Infos \cup {Garbled} /\ old \in BlockRecord /\ block \in [Block -> BlockRecord \cup {None}]
  BY ReceivedIsInfo DEF Receive, InLoop, Types
<1>2. CASE old.pending = None
  <2>. DEFINE record == [old EXCEPT !.info = info]
  <2>1. block' = [block EXCEPT ![b] = record]
    BY <1>1, <1>2 DEF Receive
  <2>. HIDE DEF info, old
  <2>2. record \in BlockRecord /\ record.device = old.device /\ record.meant = old.meant
    BY <1>1 DEF BlockRecord
  <2>3. record.info = info /\ record.pending = None
    BY <1>1, <1>2 DEF BlockRecord
  <2>. HIDE DEF record
  <2>. QED
    BY <2>1, <2>2, <2>3 DEF DescriptionIn, Unreadable, info, old
<1>3. CASE old.pending # None
  <2>. DEFINE pending == [device |-> old.pending.device, info |-> info]
              record == [old EXCEPT !.pending = pending]
  <2>0. old.pending \in Properties
    BY <1>1, <1>3 DEF BlockRecord
  <2>1. [old.pending EXCEPT !.info = info] = pending
    BY <2>0 DEF Properties
  <2>2. block' = [block EXCEPT ![b] = record]
    BY <1>1, <1>3, <2>1 DEF Receive
  <2>. HIDE DEF info, old
  <2>3. pending \in Properties /\ pending.info = info
    BY <1>1, <2>0 DEF Properties
  <2>. HIDE DEF pending
  <2>4. pending # None
    BY <2>3, SinkDispatchAssumption
  <2>5. record \in BlockRecord /\ record.device = old.device /\ record.meant = old.meant
    BY <1>1, <2>3 DEF BlockRecord
  <2>6. record.info = old.info /\ record.pending = pending
    BY <1>1 DEF BlockRecord
  <2>. HIDE DEF record
  <2>. QED
    BY <2>2, <2>3, <2>4, <2>5, <2>6 DEF DescriptionIn, Unreadable, info, old
<1>. QED
  BY <1>2, <1>3

\* A write of DeviceId, in an update or not, and the two ends of an update.
UserWrites(b) ==
  \/ \E device \in DeviceIds : SetDeviceId(b, device) \/ SetDeviceIdUpdating(b, device)
  \/ BeginUpdate(b) \/ EndUpdate(b)

LEMMA UserRewrites ==
  ASSUME Types, NEW b \in Block, UserWrites(b)
  PROVE \E record \in BlockRecord : Rewrites(b, record)
<1>. DEFINE old == block[b]
<1>1. config = Idle /\ old # None /\ old \in BlockRecord /\ block \in [Block -> BlockRecord \cup {None}]
  BY DEF UserWrites, SetDeviceId, SetDeviceIdUpdating, BeginUpdate, EndUpdate, Types
<1>2. UNCHANGED <<status, list, stMutex, publisher, arrival, frames, delivery, seen, misread, fromStatus>>
  BY DEF UserWrites, SetDeviceId, SetDeviceIdUpdating, BeginUpdate, EndUpdate
<1>3. ASSUME NEW device \in DeviceIds, SetDeviceId(b, device) PROVE \E record \in BlockRecord : Rewrites(b, record)
  <2>. DEFINE record == [device |-> device, info |-> old.info, pending |-> None, meant |-> None]
  <2>1. record \in BlockRecord /\ old.pending = None
    BY <1>1, <1>3 DEF BlockRecord, SetDeviceId
  <2>2. block' = [block EXCEPT ![b] = record]
    <3>1. block' = [block EXCEPT ![b] = [block[b] EXCEPT !.device = device, !.meant = None]]
      BY <1>1, <1>3 DEF SetDeviceId
    <3>. HIDE DEF old
    <3>2. old = [device |-> old.device, info |-> old.info, pending |-> None, meant |-> old.meant]
      BY <1>1, <2>1 DEF BlockRecord
    <3>. DEFINE moved == [old EXCEPT !.device = device]
    <3>3. moved = [device |-> device, info |-> old.info, pending |-> None, meant |-> old.meant]
      BY <3>2
    <3>. HIDE DEF moved
    <3>4. [moved EXCEPT !.meant = None] = record
      BY <3>3
    <3>5. [old EXCEPT !.device = device, !.meant = None] = record
      BY <3>4 DEF moved
    <3>. QED
      BY <3>1, <3>5 DEF old
  <2>3. BeginMove(b)
    BY <1>3 DEF SetDeviceId
  <2>4. record.meant = None /\ DescriptionIn(record) = DescriptionIn(old) /\ (Unreadable(record) => Unreadable(old))
    BY <2>1 DEF DescriptionIn, Unreadable
  <2>. HIDE DEF record
  <2>. QED
    BY <1>1, <1>2, <2>1, <2>2, <2>3, <2>4 DEF Rewrites
<1>4. CASE BeginUpdate(b)
  <2>. DEFINE pending == [device |-> old.device, info |-> old.info]
              record == [device |-> old.device, info |-> old.info, pending |-> pending, meant |-> old.meant]
  <2>1. pending \in Properties /\ pending # None /\ old.pending = None
    BY <1>1, <1>4, SinkDispatchAssumption DEF BlockRecord, Properties, BeginUpdate
  <2>2. block' = [block EXCEPT ![b] = record]
    <3>1. block' = [block EXCEPT ![b] = [block[b] EXCEPT !.pending = pending]]
      BY <1>1, <1>4 DEF BeginUpdate
    <3>. HIDE DEF pending
    <3>2. [old EXCEPT !.pending = pending] = record
      BY <1>1 DEF BlockRecord
    <3>. QED
      BY <3>1, <3>2
  <2>3. config' = Idle
    BY <1>1, <1>4 DEF BeginUpdate
  <2>4. pending.info = old.info
    OBVIOUS
  <2>. HIDE DEF pending
  <2>5. record \in BlockRecord
    BY <1>1, <2>1 DEF BlockRecord
  <2>6. DescriptionIn(record) = DescriptionIn(old) /\ (Unreadable(record) => Unreadable(old))
    BY <2>1, <2>4 DEF DescriptionIn, Unreadable
  <2>7. record.device = old.device /\ record.meant = old.meant
    OBVIOUS
  <2>. HIDE DEF record
  <2>. QED
    BY <1>1, <1>2, <2>2, <2>3, <2>5, <2>6, <2>7 DEF Rewrites
<1>5. ASSUME NEW device \in DeviceIds, SetDeviceIdUpdating(b, device)
      PROVE \E record \in BlockRecord : Rewrites(b, record)
  <2>. DEFINE pending == [device |-> device, info |-> old.pending.info]
              record == [device |-> old.device, info |-> old.info, pending |-> pending, meant |-> old.meant]
  <2>0. old.pending # None /\ old.pending \in Properties
    BY <1>1, <1>5 DEF BlockRecord, SetDeviceIdUpdating
  <2>1. pending \in Properties /\ pending # None /\ [old.pending EXCEPT !.device = device] = pending
    BY <2>0, SinkDispatchAssumption DEF Properties
  <2>2. block' = [block EXCEPT ![b] = record]
    <3>1. block' = [block EXCEPT ![b] = [block[b] EXCEPT !.pending = [block[b].pending EXCEPT !.device = device]]]
      BY <1>1, <1>5 DEF SetDeviceIdUpdating
    <3>2. block' = [block EXCEPT ![b] = [old EXCEPT !.pending = pending]]
      BY <2>1, <3>1
    <3>. HIDE DEF pending
    <3>3. [old EXCEPT !.pending = pending] = record
      BY <1>1 DEF BlockRecord
    <3>. QED
      BY <3>2, <3>3
  <2>3. config' = Idle
    BY <1>1, <1>5 DEF SetDeviceIdUpdating
  <2>4. pending.info = old.pending.info
    OBVIOUS
  <2>. HIDE DEF pending
  <2>5. record \in BlockRecord
    BY <1>1, <2>1 DEF BlockRecord
  <2>6. DescriptionIn(record) = DescriptionIn(old) /\ (Unreadable(record) => Unreadable(old))
    BY <2>0, <2>1, <2>4 DEF DescriptionIn, Unreadable
  <2>7. record.device = old.device /\ record.meant = old.meant
    OBVIOUS
  <2>. HIDE DEF record
  <2>. QED
    BY <1>1, <1>2, <2>2, <2>3, <2>5, <2>6, <2>7 DEF Rewrites
<1>6. CASE EndUpdate(b)
  <2>. DEFINE moves == old.pending.device # old.device
              record == [device |-> old.pending.device, info |-> old.pending.info, pending |-> None,
                         meant |-> IF moves THEN None ELSE old.meant]
  <2>0. old.pending # None /\ old.pending \in Properties
    BY <1>1, <1>6 DEF BlockRecord, EndUpdate
  <2>1. record \in BlockRecord
    BY <1>1, <2>0 DEF BlockRecord, Properties
  <2>2. block' = [block EXCEPT ![b] = record]
    BY <1>1, <1>6 DEF BlockRecord, EndUpdate
  <2>3. \/ config' = Idle /\ record.device = old.device /\ record.meant = old.meant
        \/ BeginMove(b) /\ record.meant = None
    BY <1>1, <1>6 DEF EndUpdate
  <2>4. DescriptionIn(record) = DescriptionIn(old) /\ (Unreadable(record) => Unreadable(old))
    BY <2>0 DEF DescriptionIn, Unreadable
  <2>. HIDE DEF record
  <2>. QED
    BY <1>1, <1>2, <2>1, <2>2, <2>3, <2>4 DEF Rewrites
<1>. QED
  BY <1>3, <1>4, <1>5, <1>6 DEF UserWrites

LEMMA TypesOfCapture ==
  ASSUME Types, CaptureThread
  PROVE Types'
<1>1. ASSUME NEW frame \in Frames, PacketArrives(frame) PROVE Types'
  <2>1. arrival' # None => arrival' = [frame |-> frame, at |-> 1, step |-> "loop", receivers |-> {}]
    BY <1>1 DEF PacketArrives
  <2>2. arrival' # None => arrival' \in Arrival /\ arrival'.at \in DOMAIN arrival'.frame.messages
    BY <2>1, FrameHasMessages DEF Arrival
  <2>. QED
    BY <1>1, <2>2 DEF PacketArrives, Types, BlockThere
<1>2. CASE PublishData
  <2>1. arrival' # None => arrival' \in Arrival /\ arrival'.at \in DOMAIN arrival'.frame.messages
    BY <1>2, AfterMessage DEF PublishData, InLoop
  <2>. QED
    BY <1>2, <2>1 DEF PublishData, Types, BlockThere
<1>3. CASE UpdateStatus
  <2>1. arrival # None /\ arrival.frame.messageType = "status"
    BY <1>3 DEF UpdateStatus, InLoop
  <2>2. status' \in Seq(DeviceStatus)
    BY <1>3, <2>1, InHand, StatusGrows DEF UpdateStatus, Types
  <2>3. arrival' \in Arrival /\ arrival'.at \in DOMAIN arrival'.frame.messages
    BY <1>3, <2>1, InHand DEF UpdateStatus, Arrival
  <2>. QED
    BY <1>3, <2>2, <2>3 DEF UpdateStatus, Types, BlockThere
<1>4. CASE UpdateList
  <2>0. arrival # None
    BY <1>4 DEF UpdateList, InLoop
  <2>1. list' \in Seq({LineOf(entry) : entry \in DeviceStatus})
    <3>1. ASSUME NEW k \in IndexOf(arrival.frame.device), PutLine(k)
          PROVE list' \in Seq({LineOf(entry) : entry \in DeviceStatus})
      <4>1. k \in Nat \ {0} /\ status[k] \in DeviceStatus
        BY DEF IndexOf, Types
      <4>. DEFINE L == {LineOf(entry) : entry \in DeviceStatus}
                  line == LineOf(status[k])
      <4>2. line \in L /\ list \in Seq(L)
        BY <4>1 DEF Types
      <4>3. list' = IF k <= Len(list) THEN [list EXCEPT ![k] = line] ELSE Append(list, line)
        BY <3>1 DEF PutLine
      <4>. HIDE DEF L, line
      <4>4. list' \in Seq(L)
        BY <4>1, <4>2, <4>3
      <4>. QED
        BY <4>4 DEF L
    <3>. QED
      BY <1>4, <3>1 DEF UpdateList, Types
  <2>2. arrival' # None => arrival' \in Arrival /\ arrival'.at \in DOMAIN arrival'.frame.messages
    <3>1. CASE NextMessage
      BY <2>0, <3>1, AfterMessage
    <3>2. CASE arrival' = [arrival EXCEPT !.step = "publish"]
      BY <2>0, <3>2, InHand DEF Arrival
    <3>. QED
      BY <1>4, <3>1, <3>2 DEF UpdateList
  <2>. QED
    BY <1>4, <2>1, <2>2 DEF UpdateList, Types, BlockThere
<1>5. CASE PublishStatus
  <2>1. arrival # None /\ Subscribers(publisher, arrival.frame.device) \in SUBSET Block
    BY <1>5 DEF PublishStatus, InLoop, Subscribers, Types
  <2>2. arrival' \in Arrival /\ arrival'.at \in DOMAIN arrival'.frame.messages
    BY <1>5, <2>1, InHand DEF PublishStatus, Arrival
  <2>. QED
    BY <1>5, <2>2 DEF PublishStatus, Types, BlockThere
<1>6. ASSUME NEW b \in Block, Receive(b) PROVE Types'
  <2>1. arrival # None
    BY <1>6 DEF Receive, InLoop
  <2>2. arrival' \in Arrival /\ arrival'.at \in DOMAIN arrival'.frame.messages
    BY <1>6, <2>1, InHand DEF Receive, Arrival
  <2>3. block' \in [Block -> BlockRecord \cup {None}] /\ \A x \in Block : block[x] # None => block'[x] # None
    <3>1. CASE block[b] = None
      BY <1>6, <3>1 DEF Receive, Types
    <3>2. CASE block[b] # None
      BY <1>6, <3>2, ReceiveRewrites, BlockChanges
    <3>. QED
      BY <3>1, <3>2
  <2>4. UNCHANGED <<status, list, publisher, config, seen>>
    BY <1>6 DEF Receive
  <2>. QED
    BY <2>2, <2>3, <2>4 DEF Types, BlockThere, Config, Idle
<1>7. CASE PublishReturns
  <2>1. arrival' # None => arrival' \in Arrival /\ arrival'.at \in DOMAIN arrival'.frame.messages
    BY <1>7, AfterMessage DEF PublishReturns, InLoop
  <2>. QED
    BY <1>7, <2>1 DEF PublishReturns, Types, BlockThere
<1>. QED
  BY <1>1, <1>2, <1>3, <1>4, <1>5, <1>6, <1>7 DEF CaptureThread

LEMMA CopyIsEntry ==
  ASSUME Types, NEW k
  PROVE CopyOf(k).device \in DeviceIds /\ CopyOf(k).info \in Infos \cup {Garbled}
<1>1. CASE k \in DOMAIN status
  <2>1. status[k] \in DeviceStatus
    BY <1>1 DEF Types
  <2>. QED
    BY <1>1, <2>1 DEF CopyOf, DeviceStatus
<1>2. CASE k \notin DOMAIN status
  BY <1>2, SinkDispatchAssumption DEF CopyOf, NoDeviceStatus
<1>. QED
  BY <1>1, <1>2

LEMMA TypesOfConfig ==
  ASSUME Types, ConfigThread
  PROVE Types'
<1>1. CASE ReadList
  <2>1. \A line \in {LineOf(entry) : entry \in DeviceStatus} : line.device \in DeviceIds
    BY DEF LineOf, DeviceStatus
  <2>2. Len(list) \in Nat /\ DOMAIN list = 1..Len(list) /\ \A k \in 1..Len(list) : list[k].device \in DeviceIds
    BY <2>1 DEF Types
  <2>3. seen' \in Seq(DeviceIds)
    BY <1>1, <2>2 DEF ReadList
  <2>. QED
    BY <1>1, <2>3 DEF ReadList, Types, BlockThere
<1>2. CASE Clear
  <2>1. status' \in Seq(DeviceStatus) /\ config' \in Config
    BY <1>2 DEF Clear, Config
  <2>. QED
    BY <1>2, <2>1 DEF Clear, Types, BlockThere
<1>3. CASE ClearList
  <2>1. list' \in Seq({LineOf(entry) : entry \in DeviceStatus}) /\ config' \in Config
    BY <1>3 DEF ClearList, Config
  <2>. QED
    BY <1>3, <2>1 DEF ClearList, Types, BlockThere, Idle
<1>4. ASSUME NEW b \in Block, AddCaptureModuleEmpty(b) PROVE Types'
  <2>1. NewBlock(0, None) \in BlockRecord
    BY SinkDispatchAssumption DEF NewBlock, BlockRecord
  <2>2. block' = [block EXCEPT ![b] = NewBlock(0, None)]
    BY <1>4 DEF AddCaptureModuleEmpty
  <2>3. /\ block' \in [Block -> BlockRecord \cup {None}]
        /\ \A x \in Block : block[x] # None => block'[x] # None
    BY <2>1, <2>2, BlockChanges
  <2>4. publisher' \in [Block -> [DeviceIds -> Nat]]
    BY <1>4, SubscribeAdds, SinkDispatchAssumption DEF AddCaptureModuleEmpty, Types
  <2>. QED
    BY <1>4, <2>3, <2>4 DEF AddCaptureModuleEmpty, Types, BlockThere, Idle
<1>5. ASSUME NEW b \in Block, NEW k \in 1..Cardinality(DeviceIds), AddCaptureModuleFromStatus(b, k)
      PROVE Types'
  <2>. DEFINE meant == IF seen # None /\ k \in DOMAIN seen THEN seen[k] ELSE None
  <2>1. meant \in DeviceIds \cup {None}
    BY DEF Types
  <2>2. CopyOf(k).device \in DeviceIds /\ CopyOf(k).info \in Infos \cup {Garbled}
    BY CopyIsEntry
  <2>3. block' = [block EXCEPT ![b] = NewBlock(CopyOf(k).device, meant)]
    BY <1>5 DEF AddCaptureModuleFromStatus
  <2>. HIDE DEF meant
  <2>4. NewBlock(CopyOf(k).device, meant) \in BlockRecord
    BY <2>1, <2>2 DEF NewBlock, BlockRecord
  <2>5. /\ block' \in [Block -> BlockRecord \cup {None}] /\ block'[b] # None
        /\ \A x \in Block : block[x] # None => block'[x] # None
    BY <2>3, <2>4, BlockChanges
  <2>6. config' = [op |-> IF CopyOf(k).device = 0 THEN "fill" ELSE "move",
                   block |-> b, old |-> 0, info |-> CopyOf(k).info]
    BY <1>5 DEF AddCaptureModuleFromStatus
  <2>7. config' \in Config /\ config'.block = b
    BY <2>2, <2>6, SinkDispatchAssumption DEF Config
  <2>. QED
    BY <1>5, <2>5, <2>7 DEF AddCaptureModuleFromStatus, Types, BlockThere
<1>6. ASSUME NEW b \in Block, UserWrites(b) PROVE Types'
  <2>1. PICK record \in BlockRecord : Rewrites(b, record)
    BY <1>6, UserRewrites
  <2>2. /\ block' \in [Block -> BlockRecord \cup {None}] /\ block'[b] # None
        /\ \A x \in Block : block[x] # None => block'[x] # None
    BY <2>1, BlockChanges DEF Rewrites
  <2>3. block[b].device \in DeviceIds
    BY <2>1 DEF Rewrites, Types, BlockRecord
  <2>4. CASE config' = Idle
    BY <2>1, <2>2, <2>4 DEF Rewrites, Types, BlockThere, Config, Idle
  <2>5. CASE BeginMove(b)
    <3>1. config' \in Config /\ config'.block = b
      BY <2>3, <2>5 DEF Config, BeginMove
    <3>. QED
      BY <2>1, <2>2, <3>1 DEF Rewrites, Types, BlockThere
  <2>. QED
    BY <2>1, <2>4, <2>5 DEF Rewrites
<1>7. ASSUME NEW b \in Block, RemoveCaptureModule(b) PROVE Types'
  <2>1. block[b].device \in DeviceIds
    BY <1>7 DEF RemoveCaptureModule, Types, BlockRecord
  <2>2. publisher' \in [Block -> [DeviceIds -> Nat]]
    BY <1>7, <2>1, UnsubscribeKeeps DEF RemoveCaptureModule, Types
  <2>3. config' \in Config /\ config'.block = b
    BY <1>7 DEF RemoveCaptureModule, Config
  <2>. QED
    BY <1>7, <2>2, <2>3 DEF RemoveCaptureModule, Types, BlockThere
<1>8. CASE MoveUnsubscribe
  <2>1. /\ config \in [op : {"move"}, block : Block, old : DeviceIds, info : Infos \cup {Garbled, None}]
        /\ config' = [config EXCEPT !.op = "subscribe"]
    BY <1>8 DEF MoveUnsubscribe, Types, Config, Idle
  <2>2. config' \in Config /\ config'.block = config.block
    BY <2>1 DEF Config
  <2>3. publisher' \in [Block -> [DeviceIds -> Nat]]
    BY <1>8, <2>1, UnsubscribeKeeps DEF MoveUnsubscribe, Types
  <2>. QED
    BY <1>8, <2>2, <2>3 DEF MoveUnsubscribe, Types, BlockThere
<1>9. CASE MoveSubscribe
  <2>1. config \in [op : {"subscribe"}, block : Block, old : DeviceIds, info : Infos \cup {Garbled, None}]
    BY <1>9 DEF MoveSubscribe, Types, Config, Idle
  <2>2. block[config.block] \in BlockRecord
    BY <2>1 DEF Types, BlockThere
  <2>3. publisher' \in [Block -> [DeviceIds -> Nat]]
    BY <1>9, <2>1, <2>2, SubscribeAdds DEF MoveSubscribe, Types, BlockRecord
  <2>4. config' = Idle \/ (config' \in Config /\ config'.block = config.block)
    <3>1. CASE config.info = None
      BY <1>9, <3>1 DEF MoveSubscribe
    <3>2. CASE config.info # None
      <4>1. config' = [config EXCEPT !.op = "fill"] /\ config.info \in Infos \cup {Garbled}
        BY <1>9, <2>1, <3>2 DEF MoveSubscribe
      <4>2. /\ config' \in [op : {"fill"}, block : Block, old : DeviceIds, info : Infos \cup {Garbled}]
            /\ config'.block = config.block
        BY <2>1, <4>1
      <4>. QED
        BY <4>2 DEF Config
    <3>. QED
      BY <3>1, <3>2
  <2>5. config' \in Config /\ (config' = Idle \/ config'.block = config.block)
    BY <2>4 DEF Config
  <2>. QED
    BY <1>9, <2>1, <2>3, <2>5 DEF MoveSubscribe, Types, BlockThere, Idle
<1>10. CASE FillFromStatus
  <2>1. config \in [op : {"fill"}, block : Block, old : DeviceIds, info : Infos \cup {Garbled}]
    BY <1>10 DEF FillFromStatus, Types, Config, Idle
  <2>2. block[config.block] \in BlockRecord
    BY <2>1 DEF Types, BlockThere
  <2>. DEFINE record == [block[config.block] EXCEPT !.info = config.info]
  <2>3. record \in BlockRecord
    BY <2>1, <2>2 DEF BlockRecord
  <2>4. block' = [block EXCEPT ![config.block] = record]
    BY <1>10 DEF FillFromStatus
  <2>. HIDE DEF record
  <2>5. block' \in [Block -> BlockRecord \cup {None}]
    BY <2>1, <2>3, <2>4, BlockChanges
  <2>. QED
    BY <1>10, <2>5 DEF FillFromStatus, Types, BlockThere, Config, Idle
<1>11. CASE RemoveItem
  <2>1. block' \in [Block -> BlockRecord \cup {None}]
    BY <1>11 DEF RemoveItem, Types
  <2>. QED
    BY <1>11, <2>1 DEF RemoveItem, Types, BlockThere, Config, Idle
<1>. QED
  BY <1>1, <1>2, <1>3, <1>4, <1>5, <1>6, <1>7, <1>8, <1>9, <1>10, <1>11 DEF ConfigThread, UserWrites

LEMMA TypesStay == ASSUME Types, [Next]_vars PROVE Types'
<1>1. CASE UNCHANGED vars
  BY <1>1 DEF vars, Types, BlockThere
<1>. QED
  BY <1>1, TypesOfCapture, TypesOfConfig DEF Next

--------------------------------------------------------------------------------
(* The list, action by action.                                               *)

\* What the list has to do with is left alone.
LEMMA ListIdle ==
  ASSUME ListInv, UNCHANGED <<status, list, stMutex, seen>>,
         InLoop("list")' => arrival' = arrival, config'.op = "clear" => config' = config,
         AddedIsTheOneSeen'
  PROVE ListInv'
BY DEF ListInv, Sections, OneEntry, ListShowsStatus, Behind, SeenStays, InLoop, IndexOf

\* The blocks mean what they meant.
LEMMA MeantStays ==
  ASSUME AddedIsTheOneSeen,
         \A b \in Block : block'[b] # None => /\ block[b] # None
                                              /\ block'[b].meant = block[b].meant
                                              /\ block'[b].device = block[b].device
  PROVE AddedIsTheOneSeen'
BY DEF AddedIsTheOneSeen

LEMMA ListInit == ASSUME Init PROVE ListInv
BY DEF Init, ListInv, Sections, OneEntry, ListShowsStatus, Behind, SeenStays, AddedIsTheOneSeen, InLoop, Idle

LEMMA ListOfCapture ==
  ASSUME Types, ListInv, CaptureThread
  PROVE ListInv'
<1>0. AddedIsTheOneSeen
  BY DEF ListInv
<1>a. ASSUME UNCHANGED block PROVE AddedIsTheOneSeen'
  BY <1>0, <1>a DEF AddedIsTheOneSeen
<1>1. ASSUME NEW frame \in Frames, PacketArrives(frame) PROVE ListInv'
  <2>1. InLoop("list")' => arrival' = arrival
    BY <1>1 DEF PacketArrives, InLoop
  <2>. QED
    BY <1>1, <1>a, <2>1, ListIdle DEF PacketArrives
<1>2. CASE PublishData
  <2>1. InLoop("list")' => arrival' = arrival
    BY <1>2, AfterMessage DEF PublishData, InLoop
  <2>. QED
    BY <1>2, <1>a, <2>1, ListIdle DEF PublishData
<1>3. CASE UpdateStatus
  <2>. DEFINE device == arrival.frame.device
  <2>1. /\ arrival # None /\ arrival.frame.messageType = "status" /\ stMutex = None
        /\ status' = UpdatedStatus(device, message)
        /\ arrival' = [arrival EXCEPT !.step = "list"] /\ stMutex' = "capture"
        /\ list' = list /\ seen' = seen /\ config' = config /\ block' = block
    BY <1>3 DEF UpdateStatus, InLoop
  <2>2. device \in DeviceIds /\ message \in StatusMessage /\ arrival \in Arrival
    BY <2>1, InHand
  <2>3. /\ status \in Seq(DeviceStatus) /\ status' \in Seq(DeviceStatus)
        /\ Len(status) \in Nat /\ Len(status') \in {Len(status), Len(status) + 1}
        /\ \A k \in 1..Len(status) : /\ status'[k].device = status[k].device
                                     /\ status[k].device # device => status'[k] = status[k]
        /\ Len(status') # Len(status) => status'[Len(status')].device = device /\ IndexOf(device) = {}
    BY <2>1, <2>2, StatusGrows DEF Types
  <2>4. DOMAIN status = 1..Len(status) /\ DOMAIN status' = 1..Len(status') /\ DOMAIN list = 1..Len(list)
    BY <2>1, <2>3 DEF Types
  <2>5. /\ Len(list) = Len(status) /\ \A k \in 1..Len(list) : list[k] = LineOf(status[k])
    BY <2>1, <2>4 DEF ListInv, ListShowsStatus
  <2>6. arrival'.frame = arrival.frame /\ arrival'.step = "list"
    BY <2>1, <2>2 DEF Arrival
  <2>7. IndexOf(device)' = {k \in 1..Len(status') : status'[k].device = device}
    BY <2>4, <2>6 DEF IndexOf
  <2>. HIDE DEF device
  <2>8. Sections'
    BY <2>1, <2>6, Names DEF ListInv, Sections, InLoop
  <2>9. OneEntry'
    <3>1. \A k \in 1..Len(status) : status[k].device = device => k \in IndexOf(device)
      BY <2>4 DEF IndexOf
    <3>2. \A j, k \in 1..Len(status) : status[j].device = status[k].device => j = k
      BY <2>4 DEF ListInv, OneEntry
    <3>3. \A k \in 1..Len(status') : k \in 1..Len(status) \/ (k = Len(status') /\ Len(status') # Len(status))
      BY <2>3
    <3>4. \A j, k \in 1..Len(status') : status'[j].device = status'[k].device => j = k
      BY <2>3, <3>1, <3>2, <3>3
    <3>. QED
      BY <2>4, <3>4 DEF OneEntry
  <2>10. ListShowsStatus'
    BY <2>1, Names DEF ListShowsStatus
  <2>11. Behind'
    <3>1. \A k \in 1..Len(list) : k \in IndexOf(device)' \/ list[k] = LineOf(status'[k])
      BY <2>3, <2>5, <2>7
    <3>2. Len(status') # Len(list) => Len(status') \in IndexOf(device)'
      BY <2>3, <2>5, <2>7
    <3>3. Len(status') \in {Len(list), Len(list) + 1}
      BY <2>3, <2>5
    <3>. QED
      BY <2>1, <2>6, <3>1, <3>2, <3>3 DEF Behind, device, LineOf
  <2>12. SeenStays'
    <3>1. \A k \in 1..Len(status) : k \in 1..Len(status')
      BY <2>3
    <3>2. seen # None => \A k \in DOMAIN seen : k \in 1..Len(status) /\ status[k].device = seen[k]
      BY <2>4 DEF ListInv, SeenStays
    <3>3. seen # None => \A k \in DOMAIN seen : k \in 1..Len(status') /\ status'[k].device = seen[k]
      BY <2>3, <3>1, <3>2
    <3>. QED
      BY <2>1, <2>4, <3>3 DEF SeenStays
  <2>. QED
    BY <1>a, <2>1, <2>8, <2>9, <2>10, <2>11, <2>12 DEF ListInv
<1>4. CASE UpdateList
  <2>. DEFINE device == arrival.frame.device
  <2>1. /\ arrival # None /\ InLoop("list") /\ stMutex' = None
        /\ status' = status /\ seen' = seen /\ config' = config /\ block' = block
    BY <1>4 DEF UpdateList, InLoop
  <2>2. /\ status \in Seq(DeviceStatus) /\ DOMAIN status = 1..Len(status) /\ Len(status) \in Nat
        /\ DOMAIN list = 1..Len(list) /\ Len(list) \in Nat
    BY DEF Types
  <2>3. stMutex = "capture" /\ config.op # "clear"
    BY <2>1 DEF ListInv, Sections
  <2>4. /\ Len(status) \in {Len(list), Len(list) + 1}
        /\ \A k \in 1..Len(list) : k \in IndexOf(device) \/ list[k] = LineOf(status[k])
        /\ Len(status) # Len(list) => Len(status) \in IndexOf(device)
    BY <2>1 DEF ListInv, Behind
  <2>5. ~InLoop("list")'
    <3>1. CASE NextMessage
      BY <2>1, <3>1, AfterMessage DEF InLoop
    <3>2. CASE arrival' = [arrival EXCEPT !.step = "publish"]
      BY <2>1, <3>2, InHand DEF Arrival, InLoop
    <3>. QED
      BY <1>4, <3>1, <3>2 DEF UpdateList
  <2>6. Len(list') = Len(status) /\ \A k \in 1..Len(status) : list'[k] = LineOf(status[k])
    <3>1. CASE IndexOf(device) = {}
      BY <1>4, <2>2, <2>4, <3>1 DEF UpdateList
    <3>2. ASSUME NEW k \in IndexOf(device), PutLine(k)
          PROVE Len(list') = Len(status) /\ \A j \in 1..Len(status) : list'[j] = LineOf(status[j])
      <4>1. k \in 1..Len(status)
        BY <2>2 DEF IndexOf
      <4>2. \A j \in IndexOf(device) : j = k
        BY DEF IndexOf, ListInv, OneEntry
      <4>. DEFINE line == LineOf(status[k])
      <4>3. list' = IF k <= Len(list) THEN [list EXCEPT ![k] = line] ELSE Append(list, line)
        BY <3>2 DEF PutLine
      <4>. HIDE DEF line
      <4>4. \A j \in 1..Len(list) : j # k => list[j] = LineOf(status[j])
        BY <2>4, <4>2
      <4>5. list \in Seq({LineOf(entry) : entry \in DeviceStatus})
        BY DEF Types
      <4>55. Len(status) # Len(list) => k = Len(status) /\ Len(status) = Len(list) + 1
        BY <2>4, <4>2
      <4>56. /\ k \in Nat /\ Len(list) \in Nat /\ Len(status) \in Nat /\ k <= Len(status)
             /\ k <= Len(list) => Len(status) = Len(list)
             /\ k > Len(list) => k = Len(list) + 1 /\ Len(status) = Len(list) + 1
        <5>. DEFINE new == Len(status)
                    old == Len(list)
        <5>1. new \in Nat /\ old \in Nat /\ k \in 1..new /\ (new # old => k = new /\ new = old + 1)
          BY <2>2, <4>1, <4>55
        <5>. HIDE DEF new, old
        <5>2. /\ k \in Nat /\ k <= new
              /\ k <= old => new = old
              /\ k > old => k = old + 1 /\ new = old + 1
          BY <5>1
        <5>. QED
          BY <5>1, <5>2 DEF new, old
      <4>6. CASE k <= Len(list)
        <5>1. Len(status) = Len(list)
          BY <4>1, <4>6, <4>56
        <5>2. /\ list' = [list EXCEPT ![k] = line] /\ Len(list') = Len(list)
              /\ \A j \in 1..Len(list) : list'[j] = IF j = k THEN line ELSE list[j]
          BY <2>2, <4>1, <4>3, <4>5, <4>6
        <5>. QED
          BY <4>4, <5>1, <5>2 DEF line
      <4>7. CASE k > Len(list)
        <5>1. k = Len(list) + 1 /\ Len(status) = Len(list) + 1
          BY <4>1, <4>7, <4>56
        <5>2. /\ Len(list') = Len(list) + 1 /\ list'[k] = line
              /\ \A j \in 1..Len(list) : list'[j] = list[j]
          BY <2>2, <4>3, <4>5, <4>7, <5>1
        <5>3. \A j \in 1..Len(status) : j = k \/ (j \in 1..Len(list) /\ j # k)
          BY <2>2, <5>1
        <5>. QED
          BY <4>4, <5>1, <5>2, <5>3 DEF line
      <4>. QED
        BY <2>2, <4>1, <4>6, <4>7
    <3>. QED
      BY <1>4, <3>1, <3>2 DEF UpdateList
  <2>7. DOMAIN list' = 1..Len(status)
    <3>1. list' \in Seq({LineOf(entry) : entry \in DeviceStatus})'
      BY <1>4, TypesOfCapture DEF CaptureThread, Types
    <3>. QED
      BY <2>6, <3>1
  <2>8. ListShowsStatus'
    BY <2>1, <2>6, <2>7 DEF ListShowsStatus, LineOf
  <2>. QED
    BY <1>a, <2>1, <2>3, <2>5, <2>8 DEF ListInv, Sections, OneEntry, Behind, SeenStays
<1>5. CASE PublishStatus
  <2>1. ~InLoop("list")'
    BY <1>5, InHand DEF PublishStatus, InLoop, Arrival
  <2>. QED
    BY <1>5, <1>a, <2>1, ListIdle DEF PublishStatus
<1>6. ASSUME NEW b \in Block, Receive(b) PROVE ListInv'
  <2>1. ~InLoop("list")'
    BY <1>6, InHand DEF Receive, InLoop, Arrival
  <2>2. AddedIsTheOneSeen'
    <3>1. \A x \in Block : block'[x] # None => /\ block[x] # None
                                              /\ block'[x].meant = block[x].meant
                                              /\ block'[x].device = block[x].device
      <4>1. CASE block[b] = None
        BY <1>6, <4>1 DEF Receive
      <4>2. CASE block[b] # None
        BY <1>6, <4>2, ReceiveRewrites, BlockChanges
      <4>. QED
        BY <4>1, <4>2
    <3>. QED
      BY <1>0, <3>1, MeantStays
  <2>. QED
    BY <1>6, <2>1, <2>2, ListIdle DEF Receive
<1>7. CASE PublishReturns
  <2>1. InLoop("list")' => arrival' = arrival
    BY <1>7, AfterMessage DEF PublishReturns, InLoop
  <2>. QED
    BY <1>7, <1>a, <2>1, ListIdle DEF PublishReturns
<1>. QED
  BY <1>1, <1>2, <1>3, <1>4, <1>5, <1>6, <1>7 DEF CaptureThread

LEMMA ListOfConfig ==
  ASSUME Types, ListInv, ConfigThread
  PROVE ListInv'
<1>0. AddedIsTheOneSeen
  BY DEF ListInv
<1>a. ASSUME UNCHANGED block PROVE AddedIsTheOneSeen'
  BY <1>0, <1>a DEF AddedIsTheOneSeen
<1>1. CASE ReadList
  <2>1. DOMAIN list = 1..Len(list) /\ DOMAIN status = 1..Len(status)
    BY DEF Types
  <2>2. Len(list) = Len(status) /\ \A k \in DOMAIN list : list[k].device = status[k].device
    BY <1>1 DEF ReadList, ListInv, ListShowsStatus, LineOf
  <2>3. SeenStays'
    BY <1>1, <2>1, <2>2 DEF ReadList, SeenStays
  <2>. QED
    BY <1>1, <1>a, <2>3 DEF ReadList, ListInv, Sections, OneEntry, ListShowsStatus, Behind, InLoop, IndexOf
<1>2. CASE Clear
  <2>1. /\ status' = <<>> /\ stMutex' = "config" /\ seen' = None /\ config'.op = "clear"
        /\ arrival' = arrival /\ block' = block /\ stMutex = None
    BY <1>2 DEF Clear
  <2>2. ~InLoop("list")'
    BY <2>1, Names DEF ListInv, Sections, InLoop
  <2>3. OneEntry'
    BY <2>1 DEF OneEntry
  <2>. QED
    BY <1>a, <2>1, <2>2, <2>3, Names DEF ListInv, Sections, ListShowsStatus, Behind, SeenStays
<1>3. CASE ClearList
  <2>1. status = <<>> /\ status' = <<>> /\ list' = <<>> /\ ~InLoop("list") /\ seen' = seen
        /\ arrival' = arrival /\ block' = block /\ config' = Idle
    BY <1>3, Names DEF ClearList, ListInv, Sections
  <2>2. ~InLoop("list")' /\ config'.op # "clear"
    BY <2>1 DEF InLoop, Idle
  <2>3. ListShowsStatus' /\ OneEntry'
    BY <2>1 DEF ListShowsStatus, OneEntry
  <2>. QED
    BY <1>a, <2>1, <2>2, <2>3 DEF ListInv, Sections, Behind, SeenStays
<1>4. ASSUME NEW b \in Block, AddCaptureModuleEmpty(b) PROVE ListInv'
  <2>1. NewBlock(0, None) \in BlockRecord /\ NewBlock(0, None).meant = None
    BY SinkDispatchAssumption DEF NewBlock, BlockRecord
  <2>2. block' = [block EXCEPT ![b] = NewBlock(0, None)]
    BY <1>4 DEF AddCaptureModuleEmpty
  <2>3. AddedIsTheOneSeen'
    BY <1>0, <2>1, <2>2, BlockChanges DEF AddedIsTheOneSeen
  <2>. QED
    BY <1>4, <2>3, ListIdle DEF AddCaptureModuleEmpty
<1>5. ASSUME NEW b \in Block, NEW k \in 1..Cardinality(DeviceIds), AddCaptureModuleFromStatus(b, k)
      PROVE ListInv'
  <2>. DEFINE meant == IF seen # None /\ k \in DOMAIN seen THEN seen[k] ELSE None
  <2>1. meant # None => CopyOf(k).device = meant
    BY DEF ListInv, SeenStays, CopyOf
  <2>2. CopyOf(k).device \in DeviceIds /\ meant \in DeviceIds \cup {None}
    BY CopyIsEntry DEF Types
  <2>3. block' = [block EXCEPT ![b] = NewBlock(CopyOf(k).device, meant)]
    BY <1>5 DEF AddCaptureModuleFromStatus
  <2>. HIDE DEF meant
  <2>4. NewBlock(CopyOf(k).device, meant) \in BlockRecord
    BY <2>2 DEF NewBlock, BlockRecord
  <2>5. AddedIsTheOneSeen'
    <3>1. /\ block'[b].meant = meant /\ block'[b].device = CopyOf(k).device
          /\ \A x \in Block \ {b} : block'[x] = block[x]
      BY <2>3, <2>4, BlockChanges DEF NewBlock
    <3>. QED
      BY <1>0, <2>1, <3>1 DEF AddedIsTheOneSeen
  <2>6. config'.op # "clear"
    BY <1>5 DEF AddCaptureModuleFromStatus
  <2>. QED
    BY <1>5, <2>5, <2>6, ListIdle DEF AddCaptureModuleFromStatus
<1>6. ASSUME NEW b \in Block, UserWrites(b) PROVE ListInv'
  <2>1. PICK record \in BlockRecord : Rewrites(b, record)
    BY <1>6, UserRewrites
  <2>2. block'[b] = record /\ \A x \in Block \ {b} : block'[x] = block[x]
    BY <2>1, BlockChanges DEF Rewrites
  <2>3. AddedIsTheOneSeen'
    BY <1>0, <2>1, <2>2 DEF Rewrites, AddedIsTheOneSeen
  <2>4. config'.op # "clear"
    BY <2>1 DEF Rewrites, BeginMove, Idle
  <2>5. UNCHANGED <<status, list, stMutex, seen, arrival>>
    BY <2>1 DEF Rewrites
  <2>. QED
    BY <2>3, <2>4, <2>5, ListIdle
<1>7. ASSUME NEW b \in Block, RemoveCaptureModule(b) PROVE ListInv'
  <2>1. config'.op # "clear"
    BY <1>7 DEF RemoveCaptureModule
  <2>. QED
    BY <1>7, <1>a, <2>1, ListIdle DEF RemoveCaptureModule
<1>8. CASE MoveUnsubscribe
  <2>1. config'.op # "clear"
    BY <1>8 DEF MoveUnsubscribe, Types, Config, Idle
  <2>. QED
    BY <1>8, <1>a, <2>1, ListIdle DEF MoveUnsubscribe
<1>9. CASE MoveSubscribe
  <2>1. config'.op # "clear"
    BY <1>9 DEF MoveSubscribe, Types, Config, Idle
  <2>. QED
    BY <1>9, <1>a, <2>1, ListIdle DEF MoveSubscribe
<1>10. CASE FillFromStatus
  <2>1. config.block \in Block /\ block[config.block] \in BlockRecord
    BY <1>10 DEF FillFromStatus, Types, BlockThere, Config, Idle
  <2>2. block' = [block EXCEPT ![config.block].info = config.info] /\ config' = Idle
    BY <1>10 DEF FillFromStatus
  <2>3. AddedIsTheOneSeen'
    <3>1. \A x \in Block : block'[x] # None => /\ block[x] # None
                                              /\ block'[x].meant = block[x].meant
                                              /\ block'[x].device = block[x].device
      <4>1. block[config.block] # None
        BY <1>10 DEF FillFromStatus, Types, BlockThere
      <4>. QED
        BY <2>1, <2>2, <4>1 DEF Types, BlockRecord
    <3>. QED
      BY <1>0, <3>1, MeantStays
  <2>4. config'.op # "clear"
    BY <2>2 DEF Idle
  <2>. QED
    BY <1>10, <2>3, <2>4, ListIdle DEF FillFromStatus
<1>11. CASE RemoveItem
  <2>1. AddedIsTheOneSeen'
    BY <1>0, <1>11 DEF RemoveItem, AddedIsTheOneSeen, Types
  <2>2. config'.op # "clear"
    BY <1>11 DEF RemoveItem, Idle
  <2>. QED
    BY <1>11, <2>1, <2>2, ListIdle DEF RemoveItem
<1>. QED
  BY <1>1, <1>2, <1>3, <1>4, <1>5, <1>6, <1>7, <1>8, <1>9, <1>10, <1>11 DEF ConfigThread, UserWrites

LEMMA ListStays == ASSUME Types, ListInv, [Next]_vars PROVE ListInv'
<1>1. CASE UNCHANGED vars
  BY <1>1 DEF vars, ListInv, Sections, OneEntry, ListShowsStatus, Behind, SeenStays, AddedIsTheOneSeen,
              InLoop, IndexOf
<1>. QED
  BY <1>1, ListOfCapture, ListOfConfig DEF Next

--------------------------------------------------------------------------------
(* The entries of the publisher, action by action.                           *)

LEMMA EntryInit == ASSUME Init PROVE EntryInv
<1>1. \A b \in Block, d \in DeviceIds : ~(publisher[b][d] > 0)
  BY DEF Init, EmptyTable
<1>. QED
  BY <1>1 DEF Init, EntryInv, Entries, Called, InLoop

\* The blocks that exist stay what they are to the publisher.
LEMMA BlocksStay ==
  ASSUME EntryInv, publisher' = publisher, config' = config,
         \A b \in Block : /\ block'[b] = None <=> block[b] = None
                          /\ block[b] # None => block'[b].device = block[b].device
  PROVE Entries'
<1>. SUFFICES ASSUME NEW b \in Block, NEW d \in DeviceIds, publisher[b][d] > 0
     PROVE publisher[b][d] = 1 /\ Entered(b)' /\ d = TopicOf(b)'
  BY DEF Entries, Entered, TopicOf
<1>1. publisher[b][d] = 1 /\ Entered(b) /\ d = TopicOf(b)
  BY DEF EntryInv, Entries
<1>2. Entered(b)' /\ TopicOf(b)' = TopicOf(b)
  BY <1>1 DEF Entered, TopicOf
<1>. QED
  BY <1>1, <1>2

\* A block without an entry.
LEMMA NoEntry ==
  ASSUME Types, EntryInv, NEW b \in Block, ~Entered(b), NEW d \in DeviceIds
  PROVE publisher[b][d] = 0
<1>1. publisher[b][d] \in Nat
  BY DEF Types
<1>2. ~(publisher[b][d] > 0)
  BY DEF EntryInv, Entries
<1>. QED
  BY <1>1, <1>2

\* The only entry of a block goes.
LEMMA EntryGoes ==
  ASSUME Types, EntryInv, NEW b \in Block, NEW topic \in DeviceIds, topic = TopicOf(b),
         publisher' \in Unsubscribe(publisher, topic, b)
  PROVE /\ \A d \in DeviceIds : publisher'[b][d] = 0
        /\ \A x \in Block, d \in DeviceIds : publisher'[x][d] \in Nat /\ publisher'[x][d] <= publisher[x][d]
<1>1. publisher \in [Block -> [DeviceIds -> Nat]]
  BY DEF Types
<1>2. publisher[b][topic] <= 1
  <2>1. publisher[b][topic] \in Nat /\ (publisher[b][topic] > 0 => publisher[b][topic] = 1)
    BY <1>1 DEF EntryInv, Entries
  <2>. QED
    BY <2>1
<1>3. /\ publisher' \in [Block -> [DeviceIds -> Nat]] /\ publisher'[b][topic] = 0
      /\ \A x \in Block, d \in DeviceIds : publisher'[x][d] <= publisher[x][d]
  BY <1>1, <1>2, UnsubscribeRemoves
<1>4. ASSUME NEW d \in DeviceIds, d # topic PROVE publisher'[b][d] = 0
  <2>1. publisher[b][d] \in Nat /\ ~(publisher[b][d] > 0)
    BY <1>1, <1>4 DEF EntryInv, Entries
  <2>2. publisher'[b][d] \in Nat /\ publisher'[b][d] <= publisher[b][d]
    BY <1>3
  <2>. QED
    BY <2>1, <2>2
<1>. QED
  BY <1>3, <1>4

LEMMA EntryOfCapture ==
  ASSUME Types, EntryInv, CaptureThread
  PROVE EntryInv'
<1>a. ASSUME publisher' = publisher, config' = config, block' = block PROVE Entries'
  BY <1>a DEF EntryInv, Entries, Entered, TopicOf
<1>b. ASSUME arrival # None, NextMessage PROVE Called'
  BY <1>b, AfterMessage DEF Called, InLoop
<1>1. ASSUME NEW frame \in Frames, PacketArrives(frame) PROVE EntryInv'
  <2>1. Called'
    BY <1>1 DEF PacketArrives, Called, InLoop
  <2>. QED
    BY <1>1, <1>a, <2>1 DEF PacketArrives, EntryInv
<1>2. CASE PublishData
  BY <1>2, <1>a, <1>b DEF PublishData, EntryInv, InLoop
<1>3. CASE UpdateStatus
  <2>1. arrival'.step = "list"
    BY <1>3, InHand DEF UpdateStatus, InLoop, Arrival
  <2>. QED
    BY <1>3, <1>a, <2>1 DEF UpdateStatus, EntryInv, Called, InLoop
<1>4. CASE UpdateList
  <2>1. CASE NextMessage
    BY <1>4, <1>a, <1>b, <2>1 DEF UpdateList, EntryInv, InLoop
  <2>2. CASE arrival' = [arrival EXCEPT !.step = "publish"]
    <3>1. arrival'.step = "publish"
      BY <1>4, <2>2, InHand DEF UpdateList, InLoop, Arrival
    <3>. QED
      BY <1>4, <1>a, <3>1 DEF UpdateList, EntryInv, Called, InLoop
  <2>. QED
    BY <1>4, <2>1, <2>2 DEF UpdateList
<1>5. CASE PublishStatus
  <2>1. arrival # None /\ arrival.frame.device \in DeviceIds /\ arrival \in Arrival
    BY <1>5, InHand DEF PublishStatus, InLoop
  <2>2. arrival'.receivers = {b \in Block : publisher[b][arrival.frame.device] > 0}
    BY <1>5, <2>1 DEF PublishStatus, Subscribers, Arrival, Types
  <2>3. \A b \in arrival'.receivers : Entered(b)
    BY <2>1, <2>2 DEF EntryInv, Entries
  <2>4. Called'
    BY <1>5, <2>3 DEF PublishStatus, Called, Entered
  <2>. QED
    BY <1>5, <1>a, <2>4 DEF PublishStatus, EntryInv
<1>6. ASSUME NEW b \in Block, Receive(b) PROVE EntryInv'
  <2>1. /\ publisher' = publisher /\ config' = config /\ b \in arrival.receivers /\ InLoop("receive")
        /\ arrival' = [arrival EXCEPT !.receivers = @ \ {b}]
    BY <1>6 DEF Receive
  <2>2. arrival \in Arrival /\ arrival'.receivers \subseteq arrival.receivers /\ arrival.receivers \subseteq Block
    BY <2>1, InHand DEF InLoop, Arrival
  <2>3. block[b] # None
    BY <2>1 DEF EntryInv, Called
  <2>4. PICK record \in BlockRecord : block' = [block EXCEPT ![b] = record] /\ record.device = block[b].device
    BY <1>6, <2>3, ReceiveRewrites
  <2>6. block'[b] = record /\ block'[b] # None /\ \A x \in Block \ {b} : block'[x] = block[x]
    BY <2>4, BlockChanges
  <2>7. Entries'
    BY <2>1, <2>3, <2>4, <2>6, BlocksStay
  <2>8. Called'
    BY <2>1, <2>2, <2>3, <2>6 DEF EntryInv, Called
  <2>. QED
    BY <2>7, <2>8 DEF EntryInv
<1>7. CASE PublishReturns
  BY <1>7, <1>a, <1>b DEF PublishReturns, EntryInv, InLoop
<1>. QED
  BY <1>1, <1>2, <1>3, <1>4, <1>5, <1>6, <1>7 DEF CaptureThread

LEMMA EntryOfConfig ==
  ASSUME Types, EntryInv, ConfigThread
  PROVE EntryInv'
<1>0. Idle.op = "idle"
  BY DEF Idle
<1>a. ASSUME UNCHANGED <<publisher, block, arrival>>,
             config.op \in {"idle", "clear"}, config'.op \in {"idle", "clear"}
      PROVE EntryInv'
  BY <1>a DEF EntryInv, Entries, Entered, TopicOf, Called, InLoop
<1>1. CASE ReadList
  BY <1>0, <1>1, <1>a DEF ReadList
<1>2. CASE Clear
  BY <1>0, <1>2, <1>a DEF Clear
<1>3. CASE ClearList
  BY <1>0, <1>3, <1>a DEF ClearList
<1>4. ASSUME NEW b \in Block, AddCaptureModuleEmpty(b) PROVE EntryInv'
  <2>1. /\ block[b] = None /\ config = Idle /\ config' = Idle /\ arrival' = arrival /\ PublisherFree
        /\ block' = [block EXCEPT ![b] = NewBlock(0, None)]
        /\ publisher' = Subscribe(publisher, 0, b)
    BY <1>4 DEF AddCaptureModuleEmpty
  <2>2. NewBlock(0, None) \in BlockRecord /\ NewBlock(0, None).device = 0
    BY SinkDispatchAssumption DEF NewBlock, BlockRecord
  <2>3. block'[b] # None /\ block'[b].device = 0 /\ \A x \in Block \ {b} : block'[x] = block[x]
    BY <2>1, <2>2, BlockChanges
  <2>4. \A d \in DeviceIds : publisher[b][d] = 0
    BY <2>1, NoEntry DEF Entered
  <2>5. \A x \in Block, d \in DeviceIds :
          publisher'[x][d] = IF x = b /\ d = 0 THEN 1 ELSE publisher[x][d]
    <3>1. publisher \in [Block -> [DeviceIds -> Nat]] /\ 0 \in DeviceIds /\ publisher[b][0] + 1 = 1
      BY <2>4, SinkDispatchAssumption DEF Types
    <3>2. \A x \in Block, d \in DeviceIds :
            publisher'[x][d] = IF x = b /\ d = 0 THEN publisher[b][0] + 1 ELSE publisher[x][d]
      BY <2>1, <3>1, SubscribeAdds
    <3>. QED
      BY <3>1, <3>2
  <2>6. Entries'
    BY <1>0, <2>1, <2>3, <2>4, <2>5 DEF EntryInv, Entries, Entered, TopicOf
  <2>. QED
    BY <2>1, <2>6 DEF EntryInv, Called, PublisherFree, InLoop
<1>5. ASSUME NEW b \in Block, NEW k \in 1..Cardinality(DeviceIds), AddCaptureModuleFromStatus(b, k)
      PROVE EntryInv'
  <2>. DEFINE meant == IF seen # None /\ k \in DOMAIN seen THEN seen[k] ELSE None
  <2>1. /\ block[b] = None /\ config = Idle /\ arrival' = arrival /\ publisher' = publisher
        /\ block' = [block EXCEPT ![b] = NewBlock(CopyOf(k).device, meant)]
        /\ config'.op \in {"fill", "move"} /\ config'.block = b
    BY <1>5 DEF AddCaptureModuleFromStatus
  <2>2. CopyOf(k).device \in DeviceIds /\ meant \in DeviceIds \cup {None}
    BY CopyIsEntry DEF Types
  <2>. HIDE DEF meant
  <2>3. NewBlock(CopyOf(k).device, meant) \in BlockRecord
    BY <2>2 DEF NewBlock, BlockRecord
  <2>4. block'[b] # None /\ \A x \in Block \ {b} : block'[x] = block[x]
    BY <2>1, <2>3, BlockChanges
  <2>5. \A d \in DeviceIds : publisher[b][d] = 0
    BY <2>1, NoEntry DEF Entered
  <2>6. Entries'
    BY <1>0, <2>1, <2>4, <2>5 DEF EntryInv, Entries, Entered, TopicOf
  <2>7. Called'
    <3>1. InLoop("receive")' = InLoop("receive")
      BY <2>1 DEF InLoop
    <3>2. arrival # None => arrival.receivers \subseteq Block
      BY InHand DEF Arrival
    <3>. QED
      BY <2>1, <2>4, <3>1, <3>2 DEF EntryInv, Called, InLoop
  <2>. QED
    BY <2>6, <2>7 DEF EntryInv
<1>6. ASSUME NEW b \in Block, UserWrites(b) PROVE EntryInv'
  <2>1. PICK record \in BlockRecord : Rewrites(b, record)
    BY <1>6, UserRewrites
  <2>2. block[b] # None /\ config = Idle /\ arrival' = arrival /\ publisher' = publisher
    BY <2>1 DEF Rewrites
  <2>3. block'[b] = record /\ block'[b] # None /\ \A x \in Block \ {b} : block'[x] = block[x]
    BY <2>1, BlockChanges DEF Rewrites
  <2>4. \/ config'.op = "idle" /\ record.device = block[b].device
        \/ config'.op = "move" /\ config'.block = b /\ config'.old = block[b].device
    BY <1>0, <2>1 DEF Rewrites, BeginMove
  <2>5. Entries'
    <3>1. \A x \in Block : Entered(x) => Entered(x)'
      BY <2>3, <2>4 DEF Entered
    <3>2. \A x \in Block : TopicOf(x)' = TopicOf(x)
      BY <1>0, <2>2, <2>3, <2>4 DEF TopicOf
    <3>. QED
      BY <2>2, <3>1, <3>2 DEF EntryInv, Entries
  <2>6. Called'
    <3>1. arrival # None => arrival.receivers \subseteq Block
      BY InHand DEF Arrival
    <3>. QED
      BY <2>2, <2>3, <2>4, <3>1 DEF EntryInv, Called, InLoop
  <2>. QED
    BY <2>5, <2>6 DEF EntryInv
<1>7. ASSUME NEW b \in Block, RemoveCaptureModule(b) PROVE EntryInv'
  <2>1. /\ block[b] # None /\ config = Idle /\ arrival' = arrival /\ block' = block /\ PublisherFree
        /\ publisher' \in Unsubscribe(publisher, block[b].device, b)
        /\ config'.op = "remove" /\ config'.block = b
    BY <1>7 DEF RemoveCaptureModule
  <2>2. block[b].device \in DeviceIds /\ block[b].device = TopicOf(b)
    BY <1>0, <2>1 DEF Types, BlockRecord, TopicOf
  <2>3. /\ \A d \in DeviceIds : publisher'[b][d] = 0
        /\ \A x \in Block, d \in DeviceIds : publisher'[x][d] \in Nat /\ publisher'[x][d] <= publisher[x][d]
    BY <2>1, <2>2, EntryGoes
  <2>4. Entries'
    <3>. SUFFICES ASSUME NEW x \in Block, NEW d \in DeviceIds, publisher'[x][d] > 0
         PROVE publisher'[x][d] = 1 /\ Entered(x)' /\ d = TopicOf(x)'
      BY DEF Entries
    <3>1. x # b
      BY <2>3
    <3>2. publisher[x][d] \in Nat
      BY DEF Types
    <3>3. publisher[x][d] > 0
      BY <2>3, <3>2
    <3>4. publisher[x][d] = 1 /\ Entered(x) /\ d = TopicOf(x)
      BY <3>3 DEF EntryInv, Entries
    <3>5. publisher'[x][d] = 1
      BY <2>3, <3>4
    <3>. QED
      BY <1>0, <2>1, <3>1, <3>4, <3>5 DEF Entered, TopicOf
  <2>. QED
    BY <2>1, <2>4 DEF EntryInv, Called, PublisherFree, InLoop
<1>8. CASE MoveUnsubscribe
  <2>1. /\ config.op = "move" /\ arrival' = arrival /\ block' = block /\ PublisherFree
        /\ publisher' \in Unsubscribe(publisher, config.old, config.block)
        /\ config \in [op : {"move"}, block : Block, old : DeviceIds, info : Infos \cup {Garbled, None}]
    BY <1>8 DEF MoveUnsubscribe, Types, Config, Idle
  <2>2. /\ config'.op = "subscribe" /\ config'.block = config.block
        /\ config.block \in Block /\ config.old \in DeviceIds
    BY <1>8, <2>1 DEF MoveUnsubscribe
  <2>3. config.old = TopicOf(config.block)
    BY <2>1 DEF TopicOf
  <2>4. /\ \A d \in DeviceIds : publisher'[config.block][d] = 0
        /\ \A x \in Block, d \in DeviceIds : publisher'[x][d] \in Nat /\ publisher'[x][d] <= publisher[x][d]
    BY <2>1, <2>2, <2>3, EntryGoes
  <2>5. Entries'
    <3>. SUFFICES ASSUME NEW x \in Block, NEW d \in DeviceIds, publisher'[x][d] > 0
         PROVE publisher'[x][d] = 1 /\ Entered(x)' /\ d = TopicOf(x)'
      BY DEF Entries
    <3>1. x # config.block
      BY <2>4
    <3>2. publisher[x][d] \in Nat
      BY DEF Types
    <3>3. publisher[x][d] > 0
      BY <2>4, <3>2
    <3>4. publisher[x][d] = 1 /\ Entered(x) /\ d = TopicOf(x)
      BY <3>3 DEF EntryInv, Entries
    <3>5. publisher'[x][d] = 1
      BY <2>4, <3>4
    <3>. QED
      BY <2>1, <2>2, <3>1, <3>4, <3>5 DEF Entered, TopicOf
  <2>. QED
    BY <2>1, <2>5 DEF EntryInv, Called, PublisherFree, InLoop
<1>9. CASE MoveSubscribe
  <2>1. /\ config.op = "subscribe" /\ arrival' = arrival /\ block' = block /\ PublisherFree
        /\ publisher' = Subscribe(publisher, block[config.block].device, config.block)
        /\ config \in [op : {"subscribe"}, block : Block, old : DeviceIds, info : Infos \cup {Garbled, None}]
    BY <1>9 DEF MoveSubscribe, Types, Config, Idle
  <2>2. config'.op \in {"idle", "fill"} /\ config.block \in Block
    BY <1>0, <1>9, <2>1 DEF MoveSubscribe
  <2>3. block[config.block] # None /\ block[config.block].device \in DeviceIds
    BY <2>1 DEF Types, BlockThere, BlockRecord
  <2>4. \A d \in DeviceIds : publisher[config.block][d] = 0
    BY <2>1, <2>2, NoEntry DEF Entered
  <2>5. \A x \in Block, d \in DeviceIds :
          publisher'[x][d] = IF x = config.block /\ d = block[config.block].device THEN 1 ELSE publisher[x][d]
    <3>. DEFINE b == config.block
                topic == block[config.block].device
    <3>1. publisher \in [Block -> [DeviceIds -> Nat]] /\ b \in Block /\ topic \in DeviceIds
      BY <2>2, <2>3 DEF Types
    <3>2. publisher' = Subscribe(publisher, topic, b) /\ publisher[b][topic] + 1 = 1
      BY <2>1, <2>3, <2>4
    <3>. HIDE DEF b, topic
    <3>3. \A x \in Block, d \in DeviceIds :
            publisher'[x][d] = IF x = b /\ d = topic THEN publisher[b][topic] + 1 ELSE publisher[x][d]
      BY <3>1, <3>2, SubscribeAdds
    <3>. QED
      BY <3>2, <3>3 DEF b, topic
  <2>6. Entries'
    BY <2>1, <2>2, <2>3, <2>4, <2>5 DEF EntryInv, Entries, Entered, TopicOf
  <2>. QED
    BY <2>1, <2>6 DEF EntryInv, Called, PublisherFree, InLoop
<1>10. CASE FillFromStatus
  <2>1. /\ config.op = "fill" /\ config' = Idle /\ arrival' = arrival /\ publisher' = publisher
        /\ config \in [op : {"fill"}, block : Block, old : DeviceIds, info : Infos \cup {Garbled}]
        /\ block' = [block EXCEPT ![config.block].info = config.info]
    BY <1>10 DEF FillFromStatus, Types, Config, Idle
  <2>2. block[config.block] \in BlockRecord /\ block \in [Block -> BlockRecord \cup {None}]
    BY <2>1 DEF Types, BlockThere
  <2>. DEFINE record == [block[config.block] EXCEPT !.info = config.info]
  <2>3. record \in BlockRecord /\ record.device = block[config.block].device
    BY <2>1, <2>2 DEF BlockRecord
  <2>4. block' = [block EXCEPT ![config.block] = record]
    BY <2>1, <2>2
  <2>. HIDE DEF record
  <2>5. /\ block'[config.block] = record /\ block'[config.block] # None
        /\ \A x \in Block \ {config.block} : block'[x] = block[x]
    BY <2>1, <2>3, <2>4, BlockChanges
  <2>6. Entries'
    <3>1. \A x \in Block : Entered(x) => Entered(x)'
      BY <1>0, <2>1, <2>5 DEF Entered
    <3>2. \A x \in Block : TopicOf(x)' = TopicOf(x)
      BY <1>0, <2>1, <2>3, <2>5 DEF TopicOf
    <3>. QED
      BY <2>1, <3>1, <3>2 DEF EntryInv, Entries
  <2>7. Called'
    <3>1. arrival # None => arrival.receivers \subseteq Block
      BY InHand DEF Arrival
    <3>. QED
      BY <1>0, <2>1, <2>5, <3>1 DEF EntryInv, Called, InLoop
  <2>. QED
    BY <2>6, <2>7 DEF EntryInv
<1>11. CASE RemoveItem
  <2>1. /\ config.op = "remove" /\ config' = Idle /\ arrival' = arrival /\ publisher' = publisher
        /\ config.block \in Block /\ block' = [block EXCEPT ![config.block] = None]
    BY <1>11 DEF RemoveItem, Types, Config, Idle
  <2>2. block'[config.block] = None /\ \A x \in Block \ {config.block} : block'[x] = block[x]
    BY <2>1 DEF Types
  <2>3. \A d \in DeviceIds : publisher[config.block][d] = 0
    BY <2>1, NoEntry DEF Entered
  <2>4. Entries'
    BY <1>0, <2>1, <2>2, <2>3 DEF EntryInv, Entries, Entered, TopicOf
  <2>5. Called'
    <3>1. arrival # None => arrival.receivers \subseteq Block
      BY InHand DEF Arrival
    <3>. QED
      BY <1>0, <2>1, <2>2, <3>1 DEF EntryInv, Called, InLoop
  <2>. QED
    BY <2>4, <2>5 DEF EntryInv
<1>. QED
  BY <1>1, <1>2, <1>3, <1>4, <1>5, <1>6, <1>7, <1>8, <1>9, <1>10, <1>11 DEF ConfigThread, UserWrites

LEMMA EntryStays == ASSUME Types, EntryInv, [Next]_vars PROVE EntryInv'
<1>1. CASE UNCHANGED vars
  BY <1>1 DEF vars, EntryInv, Entries, Entered, TopicOf, Called, InLoop
<1>. QED
  BY <1>1, EntryOfCapture, EntryOfConfig DEF Next

--------------------------------------------------------------------------------
(* How many interfaces a line shows.                                         *)

LEMMA LineCounts ==
  ASSUME NEW entry \in DeviceStatus, IsFiniteSet(entry.interfaces)
  PROVE LineOf(entry) \in Line
<1>1. Cardinality(entry.interfaces) \in Nat
  BY FS_CardinalityType
<1>. QED
  BY <1>1 DEF LineOf, Line, DeviceStatus

LEMMA CountedStays == ASSUME Types, Counted, [Next]_vars PROVE Counted'
<1>1. CASE UpdateStatus
  <2>. DEFINE device == arrival.frame.device
  <2>1. /\ status' = UpdatedStatus(device, message) /\ list' = list /\ status \in Seq(DeviceStatus)
        /\ message \in StatusMessage
    BY <1>1, InHand DEF UpdateStatus, InLoop, Types
  <2>2. CASE message.type = "cmStatMsg" /\ IndexOf(device) = {}
    <3>. DEFINE entry == [device |-> device, info |-> message.info, interfaces |-> {}]
    <3>1. status' = Append(status, entry) /\ IsFiniteSet(entry.interfaces)
      BY <2>1, <2>2, FS_EmptySet DEF UpdatedStatus
    <3>. HIDE DEF entry
    <3>2. \A k \in DOMAIN status' : (k \in DOMAIN status /\ status'[k] = status[k]) \/ status'[k] = entry
      BY <2>1, <3>1
    <3>. QED
      BY <2>1, <3>1, <3>2 DEF Counted
  <2>3. CASE ~(message.type = "cmStatMsg" /\ IndexOf(device) = {})
    <3>. DEFINE entry(k) ==
           IF status[k].device # device THEN status[k]
           ELSE IF message.type = "cmStatMsg" THEN [status[k] EXCEPT !.info = message.info]
           ELSE [status[k] EXCEPT !.interfaces = @ \cup {message.interface}]
    <3>1. status' = [k \in DOMAIN status |-> entry(k)]
      BY <2>1, <2>3 DEF UpdatedStatus
    <3>2. ASSUME NEW k \in DOMAIN status PROVE IsFiniteSet(entry(k).interfaces)
      <4>1. IsFiniteSet(status[k].interfaces) /\ IsFiniteSet(status[k].interfaces \cup {message.interface})
        BY FS_AddElement DEF Counted
      <4>2. status[k] \in DeviceStatus
        BY <2>1
      <4>. QED
        BY <4>1, <4>2 DEF DeviceStatus
    <3>. HIDE DEF entry
    <3>. QED
      BY <2>1, <3>1, <3>2 DEF Counted
  <2>. QED
    BY <2>2, <2>3
<1>2. CASE UpdateList
  <2>1. ASSUME NEW k \in IndexOf(arrival.frame.device), PutLine(k) PROVE list' \in Seq(Line)
    <3>1. k \in Nat \ {0} /\ status[k] \in DeviceStatus /\ IsFiniteSet(status[k].interfaces)
      BY DEF IndexOf, Types, Counted
    <3>. DEFINE line == LineOf(status[k])
    <3>2. line \in Line /\ list \in Seq(Line)
      BY <3>1, LineCounts DEF Counted
    <3>3. list' = IF k <= Len(list) THEN [list EXCEPT ![k] = line] ELSE Append(list, line)
      BY <2>1 DEF PutLine
    <3>. HIDE DEF line
    <3>. QED
      BY <3>1, <3>2, <3>3
  <2>2. status' = status
    BY <1>2 DEF UpdateList
  <2>. QED
    BY <1>2, <2>1, <2>2 DEF UpdateList, Counted
<1>3. CASE Clear \/ ClearList
  <2>1. /\ status' = <<>> \/ status' = status
        /\ list' = <<>> \/ list' = list
    BY <1>3 DEF Clear, ClearList
  <2>2. \A k \in DOMAIN status' : IsFiniteSet(status'[k].interfaces)
    <3>1. CASE status' = status
      BY <3>1 DEF Counted
    <3>2. CASE status' = <<>>
      <4>1. DOMAIN status' = {}
        BY <3>2
      <4>. QED
        BY <4>1
    <3>. QED
      BY <2>1, <3>1, <3>2
  <2>3. list' \in Seq(Line)
    <3>1. list \in Seq(Line) /\ <<>> \in Seq(Line)
      BY DEF Counted
    <3>. QED
      BY <2>1, <3>1
  <2>. QED
    BY <2>2, <2>3 DEF Counted
<1>4. ASSUME status' = status, list' = list PROVE Counted'
  BY <1>4 DEF Counted
<1>5. CASE CaptureThread
  BY <1>1, <1>2, <1>4, <1>5 DEF CaptureThread, PacketArrives, PublishData, PublishStatus, Receive, PublishReturns
<1>6. CASE ConfigThread
  BY <1>3, <1>4, <1>6 DEF ConfigThread, ReadList, AddCaptureModuleEmpty, AddCaptureModuleFromStatus, SetDeviceId,
                          BeginUpdate, SetDeviceIdUpdating, EndUpdate, MoveUnsubscribe, MoveSubscribe,
                          FillFromStatus, RemoveCaptureModule, RemoveItem
<1>. QED
  BY <1>4, <1>5, <1>6 DEF Next, vars

--------------------------------------------------------------------------------
(* What garbles a block.                                                     *)

LEMMA GarblingOfCapture == ASSUME Types, Garbling, CaptureThread PROVE Garbling'
<1>a. ASSUME arrival # None, NextMessage, UNCHANGED <<misread, block, config>> PROVE Garbling'
  <2>1. arrival' # None => arrival'.step = "loop"
    BY <1>a, AfterMessage
  <2>2. arrival' # None => arrival'.frame = arrival.frame
    BY <1>a, InHand DEF NextMessage, Arrival
  <2>. QED
    BY <1>a, <2>1, <2>2 DEF Garbling, InLoop, MixesStatus
<1>1. ASSUME NEW frame \in Frames, PacketArrives(frame) PROVE Garbling'
  <2>1. /\ arrival' = None \/ arrival' = [frame |-> frame, at |-> 1, step |-> "loop", receivers |-> {}]
        /\ misread' = (misread \/ MixesStatus(frame)) /\ block' = block /\ config' = config
    BY <1>1 DEF PacketArrives
  <2>2. CASE arrival' = None
    BY <2>1, <2>2 DEF Garbling, InLoop
  <2>3. CASE arrival' = [frame |-> frame, at |-> 1, step |-> "loop", receivers |-> {}]
    <3>1. arrival'.frame = frame /\ arrival'.step = "loop"
      BY <2>3
    <3>2. MixesStatus(frame) => misread'
      BY <2>1
    <3>. QED
      BY <2>1, <3>1, <3>2 DEF Garbling, InLoop, MixesStatus
  <2>. QED
    BY <2>1, <2>2, <2>3
<1>2. CASE PublishData
  BY <1>2, <1>a DEF PublishData, InLoop
<1>3. CASE UpdateStatus
  <2>1. arrival'.step = "list" /\ arrival'.frame = arrival.frame /\ arrival # None
    BY <1>3, InHand DEF UpdateStatus, InLoop, Arrival
  <2>2. arrival.frame.messageType = "status" /\ misread' = misread /\ block' = block /\ config' = config
    BY <1>3 DEF UpdateStatus
  <2>. QED
    BY <2>1, <2>2 DEF Garbling, InLoop, MixesStatus
<1>4. CASE UpdateList
  <2>1. CASE NextMessage
    BY <1>4, <1>a, <2>1 DEF UpdateList, InLoop
  <2>2. CASE AfterStatusPublishes /\ arrival' = [arrival EXCEPT !.step = "publish"]
    <3>1. arrival'.step = "publish" /\ arrival'.frame = arrival.frame /\ arrival # None
      BY <1>4, <2>2, InHand DEF UpdateList, InLoop, Arrival
    <3>2. /\ arrival.frame.messageType = "status" /\ frontMessage.type = "cmStatMsg"
          /\ misread' = misread /\ block' = block /\ config' = config
      BY <1>4, <2>2 DEF UpdateList, AfterStatusPublishes, Garbling
    <3>3. frontMessage'.type = "cmStatMsg"
      BY <3>1, <3>2 DEF frontMessage
    <3>. QED
      BY <3>1, <3>2, <3>3 DEF Garbling, InLoop, MixesStatus
  <2>. QED
    BY <1>4, <2>1, <2>2 DEF UpdateList
<1>5. CASE PublishStatus
  <2>1. arrival'.step = "receive" /\ arrival'.frame = arrival.frame /\ arrival # None
    BY <1>5, InHand DEF PublishStatus, InLoop, Arrival
  <2>2. /\ arrival.frame.messageType = "status" /\ frontMessage.type = "cmStatMsg"
        /\ UNCHANGED <<misread, block, config>>
    BY <1>5 DEF PublishStatus, Garbling
  <2>3. frontMessage'.type = "cmStatMsg"
    BY <2>1, <2>2 DEF frontMessage
  <2>. QED
    BY <2>1, <2>2, <2>3 DEF Garbling, InLoop, MixesStatus
<1>6. ASSUME NEW b \in Block, Receive(b) PROVE Garbling'
  <2>1. arrival'.step = "receive" /\ arrival'.frame = arrival.frame /\ arrival # None
    BY <1>6, InHand DEF Receive, InLoop, Arrival
  <2>2. /\ arrival.frame.messageType = "status" /\ frontMessage.type = "cmStatMsg"
        /\ misread' = misread /\ config' = config
    BY <1>6 DEF Receive, Garbling
  <2>3. frontMessage'.type = "cmStatMsg"
    BY <2>1, <2>2 DEF frontMessage
  <2>4. ReceivedInfo = Garbled => misread
    <3>1. message \in StatusMessage /\ arrival.at \in DOMAIN arrival.frame.messages
      BY <2>1, <2>2, InHand
    <3>2. message.type = "cmStatMsg" => ReceivedInfo # Garbled
      BY <3>1, SinkDispatchAssumption DEF StatusMessage, ReceivedInfo
    <3>3. message.type = "cmStatMsg" \/ message.type = "ifStatMsg"
      BY <3>1 DEF StatusMessage
    <3>4. message.type = "ifStatMsg" => MixesStatus(arrival.frame)
      BY <2>2, <3>1 DEF MixesStatus, frontMessage, message
    <3>. QED
      BY <2>1, <3>2, <3>3, <3>4 DEF Garbling
  <2>5. ASSUME NEW x \in Block, block'[x] # None, Unreadable(block'[x]) PROVE misread
    <3>1. CASE block'[x] = block[x]
      BY <2>5, <3>1 DEF Garbling
    <3>2. CASE block'[x] # block[x]
      <4>1. block[b] # None
        BY <1>6, <3>2 DEF Receive
      <4>2. PICK record \in BlockRecord : /\ block' = [block EXCEPT ![b] = record]
                                          /\ Unreadable(record) => Unreadable(block[b]) \/ ReceivedInfo = Garbled
        BY <1>6, <4>1, ReceiveRewrites
      <4>3. x = b /\ block'[b] = record
        BY <3>2, <4>2, BlockChanges
      <4>. QED
        BY <2>4, <2>5, <4>1, <4>2, <4>3 DEF Garbling
    <3>. QED
      BY <3>1, <3>2
  <2>6. (\A x \in Block : block[x] # None /\ Unreadable(block[x]) => misread)'
    BY <2>2, <2>5
  <2>. QED
    BY <2>1, <2>2, <2>3, <2>6 DEF Garbling, InLoop, MixesStatus
<1>7. CASE PublishReturns
  BY <1>7, <1>a DEF PublishReturns, InLoop
<1>. QED
  BY <1>1, <1>2, <1>3, <1>4, <1>5, <1>6, <1>7 DEF CaptureThread

LEMMA GarblingOfConfig == ASSUME Types, Garbling, ConfigThread PROVE Garbling'
<1>0. arrival' = arrival /\ (misread => misread') /\ Idle.op = "idle"
  BY ConfigKeeps DEF Idle
<1>. DEFINE Copied == config.op \in {"move", "subscribe", "fill"} /\ config.info = Garbled => misread
            Shown(b) == block[b] # None /\ Unreadable(block[b]) => misread
<1>1. Copied /\ \A b \in Block : Shown(b)
  BY DEF Garbling
<1>2. (Copied /\ \A b \in Block : Shown(b))' => Garbling'
  BY <1>0 DEF Garbling, InLoop, MixesStatus, frontMessage
<1>3. \A x \in Block : block'[x] = block[x] => Shown(x)'
  BY <1>0, <1>1
<1>4. config' = config \/ config'.op \notin {"move", "subscribe", "fill"} => Copied'
  BY <1>0, <1>1
<1>. HIDE DEF Copied, Shown
<1>5. \A device, meant : ~Unreadable(NewBlock(device, meant))
  BY SinkDispatchAssumption DEF NewBlock, Unreadable
<1>6. CASE ReadList \/ Clear \/ ClearList \/ \E b \in Block : RemoveCaptureModule(b)
  <2>1. block' = block /\ (config' = config \/ config'.op \notin {"move", "subscribe", "fill"})
    BY <1>0, <1>6 DEF ReadList, Clear, ClearList, RemoveCaptureModule
  <2>. QED
    BY <1>2, <1>3, <1>4, <2>1
<1>7. ASSUME NEW b \in Block, AddCaptureModuleEmpty(b) PROVE Garbling'
  <2>1. NewBlock(0, None) \in BlockRecord /\ 0 \in DeviceIds
    BY SinkDispatchAssumption DEF NewBlock, BlockRecord
  <2>2. block'[b] = NewBlock(0, None) /\ \A x \in Block \ {b} : block'[x] = block[x]
    BY <1>7, <2>1, BlockChanges DEF AddCaptureModuleEmpty
  <2>3. Shown(b)'
    BY <1>5, <2>1, <2>2 DEF Shown
  <2>. QED
    BY <1>2, <1>3, <1>4, <1>7, <2>2, <2>3 DEF AddCaptureModuleEmpty
<1>8. ASSUME NEW b \in Block, NEW k \in 1..Cardinality(DeviceIds), AddCaptureModuleFromStatus(b, k) PROVE Garbling'
  <2>. DEFINE meant == IF seen # None /\ k \in DOMAIN seen THEN seen[k] ELSE None
  <2>1. CopyOf(k).device \in DeviceIds /\ meant \in DeviceIds \cup {None}
    BY CopyIsEntry DEF Types
  <2>2. block' = [block EXCEPT ![b] = NewBlock(CopyOf(k).device, meant)]
    BY <1>8 DEF AddCaptureModuleFromStatus
  <2>. HIDE DEF meant
  <2>3. NewBlock(CopyOf(k).device, meant) \in BlockRecord
    BY <2>1 DEF NewBlock, BlockRecord
  <2>4. block'[b] = NewBlock(CopyOf(k).device, meant) /\ \A x \in Block \ {b} : block'[x] = block[x]
    BY <2>2, <2>3, BlockChanges
  <2>5. Shown(b)'
    BY <1>5, <2>1, <2>4 DEF Shown
  <2>6. CopyOf(k).info = Garbled => k \notin DOMAIN status
    <3>1. k \in DOMAIN status => status[k] \in DeviceStatus
      BY DEF Types
    <3>. QED
      BY <3>1, SinkDispatchAssumption DEF CopyOf, DeviceStatus
  <2>7. Copied'
    BY <1>8, <2>6 DEF Copied, AddCaptureModuleFromStatus
  <2>. QED
    BY <1>2, <1>3, <2>4, <2>5, <2>7
<1>9. ASSUME NEW b \in Block, UserWrites(b) PROVE Garbling'
  <2>1. PICK record \in BlockRecord : Rewrites(b, record)
    BY <1>9, UserRewrites
  <2>2. block'[b] = record /\ \A x \in Block \ {b} : block'[x] = block[x]
    BY <2>1, BlockChanges DEF Rewrites
  <2>3. Shown(b)'
    BY <1>0, <1>1, <2>1, <2>2 DEF Shown, Rewrites
  <2>4. Copied'
    BY <1>0, <1>4, <2>1, SinkDispatchAssumption DEF Copied, Rewrites, BeginMove
  <2>. QED
    BY <1>2, <1>3, <2>2, <2>3, <2>4
<1>10. CASE MoveUnsubscribe \/ MoveSubscribe
  <2>1. block' = block
    BY <1>10 DEF MoveUnsubscribe, MoveSubscribe
  <2>2. /\ config \in [op : {"move", "subscribe"}, block : Block, old : DeviceIds, info : Infos \cup {Garbled, None}]
        /\ config' = Idle \/ config' = [config EXCEPT !.op = "subscribe"] \/ config' = [config EXCEPT !.op = "fill"]
    BY <1>10 DEF MoveUnsubscribe, MoveSubscribe, Types, Config, Idle
  <2>3. config'.op = "idle" \/ config'.info = config.info
    BY <1>0, <2>2
  <2>4. config.op \in {"move", "subscribe", "fill"}
    BY <2>2
  <2>5. Copied'
    BY <1>0, <1>1, <1>4, <2>3, <2>4 DEF Copied
  <2>. QED
    BY <1>2, <1>3, <2>1, <2>5
<1>11. CASE FillFromStatus
  <2>1. config \in [op : {"fill"}, block : Block, old : DeviceIds, info : Infos \cup {Garbled}]
    BY <1>11 DEF FillFromStatus, Types, Config, Idle
  <2>2. block[config.block] # None /\ block[config.block] \in BlockRecord
    BY <2>1 DEF Types, BlockThere
  <2>. DEFINE record == [block[config.block] EXCEPT !.info = config.info]
  <2>3. record \in BlockRecord /\ record.info = config.info /\ record.pending = block[config.block].pending
    BY <2>1, <2>2 DEF BlockRecord
  <2>4. block' = [block EXCEPT ![config.block] = record]
    BY <1>11 DEF FillFromStatus
  <2>. HIDE DEF record
  <2>5. block'[config.block] = record /\ \A x \in Block \ {config.block} : block'[x] = block[x]
    BY <2>1, <2>3, <2>4, BlockChanges
  <2>6. Unreadable(record) => misread
    BY <1>1, <2>1, <2>2, <2>3 DEF Copied, Shown, Unreadable
  <2>7. \A x \in Block : Shown(x)'
    BY <1>0, <1>3, <2>5, <2>6 DEF Shown
  <2>. QED
    BY <1>0, <1>2, <1>4, <1>11, <2>7 DEF FillFromStatus
<1>12. CASE RemoveItem
  <2>1. \A x \in Block : block'[x] = block[x] \/ block'[x] = None
    BY <1>12 DEF RemoveItem, Types
  <2>2. \A x \in Block : Shown(x)'
    BY <1>3, <2>1 DEF Shown
  <2>. QED
    BY <1>0, <1>2, <1>4, <1>12, <2>2 DEF RemoveItem
<1>. QED
  BY <1>6, <1>7, <1>8, <1>9, <1>10, <1>11, <1>12 DEF ConfigThread, UserWrites

LEMMA GarblingStays == ASSUME Types, Garbling, [Next]_vars PROVE Garbling'
<1>1. CASE UNCHANGED vars
  BY <1>1 DEF vars, Garbling, InLoop, MixesStatus, frontMessage
<1>. QED
  BY <1>1, GarblingOfCapture, GarblingOfConfig DEF Next

--------------------------------------------------------------------------------
(* Who hears of a status.                                                    *)

\* An entry that is there is the one that goes.
LEMMA UnsubscribeFinds ==
  ASSUME NEW table \in [Block -> [DeviceIds -> Nat]], NEW d \in DeviceIds, NEW b \in Block, table[b][d] > 0,
         NEW new \in Unsubscribe(table, d, b)
  PROVE \A x \in Block \ {b}, t \in DeviceIds : new[x][t] = table[x][t]
<1>1. new = Erase(table, d, b)
  BY DEF Unsubscribe
<1>. QED
  BY <1>1, EraseRemoves

\* What a step does to the entries when the blocks stay as they are but for b.
LEMMA ListeningOthers ==
  ASSUME Listening, ~fromStatus, ~fromStatus', NEW b \in Block, Entered(b)' => publisher'[b][TopicOf(b)'] > 0,
         \A x \in Block \ {b} : /\ block'[x] = block[x]
                                /\ \A d \in DeviceIds : publisher'[x][d] = publisher[x][d],
         \A x \in Block : block[x] # None => block[x] \in BlockRecord,
         config.op \in {"idle", "clear"} \/ config.block = b,
         config'.op \in {"idle", "clear"} \/ config'.block = b,
         config'.op # "fill" /\ (config'.op \in {"move", "subscribe"} => config'.info = None)
  PROVE Listening'
<1>. SUFFICES ASSUME NEW x \in Block, Entered(x)' PROVE publisher'[x][TopicOf(x)'] > 0
  <2>1. (\A x \in Block : Entered(x)' => publisher'[x][TopicOf(x)'] > 0) => Listening'
    BY DEF Listening
  <2>. QED
    BY <2>1
<1>1. CASE x = b
  BY <1>1
<1>2. CASE x # b
  <2>1. Entered(x) /\ TopicOf(x)' = block[x].device /\ TopicOf(x) = block[x].device
    BY <1>2 DEF Entered, TopicOf
  <2>2. block[x].device \in DeviceIds
    BY <2>1 DEF Entered, BlockRecord
  <2>3. publisher[x][block[x].device] > 0
    BY <2>1 DEF Listening
  <2>. QED
    BY <1>2, <2>1, <2>2, <2>3
<1>. QED
  BY <1>1, <1>2

LEMMA ListeningOfCapture == ASSUME Types, Listening, CaptureThread PROVE Listening'
<1>1. publisher' = publisher /\ config' = config /\ fromStatus' = fromStatus
  BY DEF CaptureThread, PacketArrives, PublishData, UpdateStatus, UpdateList, PublishStatus, Receive, PublishReturns
<1>2. \A b \in Block : /\ block'[b] # None => block[b] # None
                       /\ block'[b] # None => block'[b].device = block[b].device
  <2>1. ASSUME NEW b \in Block, Receive(b) PROVE <1>2
    <3>1. CASE block[b] = None
      BY <2>1, <3>1 DEF Receive
    <3>2. CASE block[b] # None
      BY <2>1, <3>2, ReceiveRewrites, BlockChanges
    <3>. QED
      BY <3>1, <3>2
  <2>2. CASE block' = block
    BY <2>2
  <2>. QED
    BY <2>1, <2>2
       DEF CaptureThread, PacketArrives, PublishData, UpdateStatus, UpdateList, PublishStatus, PublishReturns
<1>3. \A b \in Block : Entered(b)' => Entered(b) /\ TopicOf(b)' = TopicOf(b)
  BY <1>1, <1>2 DEF Entered, TopicOf
<1>. QED
  BY <1>1, <1>3 DEF Listening

LEMMA ListeningOfConfig == ASSUME Types, EntryInv, Listening, ConfigThread PROVE Listening'
<1>0. Idle.op = "idle" /\ \A x \in Block : block[x] # None => block[x] \in BlockRecord
  BY DEF Idle, Types
<1>a. ASSUME UNCHANGED <<publisher, block, fromStatus>>,
             config.op \in {"idle", "clear"}, config'.op \in {"idle", "clear"}
      PROVE Listening'
  BY <1>a DEF Listening, Entered, TopicOf
<1>b. ASSUME fromStatus' PROVE Listening'
  BY <1>b DEF Listening
<1>1. CASE ReadList
  BY <1>0, <1>1, <1>a DEF ReadList
<1>2. CASE Clear
  BY <1>0, <1>2, <1>a DEF Clear
<1>3. CASE ClearList
  BY <1>0, <1>3, <1>a DEF ClearList
<1>4. ASSUME NEW b \in Block, AddCaptureModuleEmpty(b), ~fromStatus PROVE Listening'
  <2>1. /\ block[b] = None /\ config = Idle /\ config' = Idle /\ fromStatus' = fromStatus
        /\ block' = [block EXCEPT ![b] = NewBlock(0, None)]
        /\ publisher' = Subscribe(publisher, 0, b)
    BY <1>4 DEF AddCaptureModuleEmpty
  <2>2. NewBlock(0, None) \in BlockRecord /\ NewBlock(0, None).device = 0
    BY SinkDispatchAssumption DEF NewBlock, BlockRecord
  <2>3. block'[b].device = 0 /\ \A x \in Block \ {b} : block'[x] = block[x]
    BY <2>1, <2>2, BlockChanges
  <2>4. publisher \in [Block -> [DeviceIds -> Nat]] /\ 0 \in DeviceIds
    BY SinkDispatchAssumption DEF Types
  <2>5. publisher[b][0] + 1 > 0
    BY <2>4
  <2>6. publisher'[b][0] > 0 /\ \A x \in Block \ {b}, d \in DeviceIds : publisher'[x][d] = publisher[x][d]
    BY <2>1, <2>4, <2>5, SubscribeAdds
  <2>7. TopicOf(b)' = 0
    BY <1>0, <2>1, <2>3 DEF TopicOf
  <2>8. publisher'[b][TopicOf(b)'] > 0
    BY <2>6, <2>7
  <2>. QED
    BY <1>0, <1>4, <2>1, <2>3, <2>6, <2>8, ListeningOthers
<1>5. ASSUME NEW b \in Block, NEW k \in 1..Cardinality(DeviceIds), AddCaptureModuleFromStatus(b, k) PROVE Listening'
  BY <1>5, <1>b DEF AddCaptureModuleFromStatus
<1>6. ASSUME NEW b \in Block, UserWrites(b), ~fromStatus PROVE Listening'
  <2>0. PICK record \in BlockRecord : Rewrites(b, record)
    BY <1>6, UserRewrites
  <2>1. /\ block[b] # None /\ config = Idle /\ publisher' = publisher /\ fromStatus' = fromStatus
        /\ \/ config'.op = "idle" /\ record.device = block[b].device
           \/ config'.op = "move" /\ config'.block = b /\ config'.old = block[b].device /\ config'.info = None
    BY <1>0, <2>0 DEF Rewrites, BeginMove
  <2>2. block'[b] = record /\ \A x \in Block \ {b} : block'[x] = block[x]
    BY <2>0, BlockChanges DEF Rewrites
  <2>4. publisher[b][block[b].device] > 0
    BY <1>0, <1>6, <2>1 DEF Listening, Entered, TopicOf
  <2>5. TopicOf(b)' = block[b].device
    BY <2>1, <2>2 DEF TopicOf
  <2>6. publisher'[b][TopicOf(b)'] > 0
    BY <2>1, <2>4, <2>5
  <2>7. \A x \in Block \ {b} : \A d \in DeviceIds : publisher'[x][d] = publisher[x][d]
    BY <2>1
  <2>. QED
    BY <1>0, <1>6, <2>1, <2>2, <2>6, <2>7, ListeningOthers
<1>7. ASSUME NEW b \in Block, RemoveCaptureModule(b), ~fromStatus PROVE Listening'
  <2>1. /\ block[b] # None /\ config = Idle /\ block' = block /\ fromStatus' = fromStatus
        /\ publisher' \in Unsubscribe(publisher, block[b].device, b)
        /\ config'.op = "remove" /\ config'.block = b
    BY <1>7 DEF RemoveCaptureModule
  <2>2. block[b].device \in DeviceIds /\ publisher \in [Block -> [DeviceIds -> Nat]]
    BY <2>1 DEF Types, BlockRecord
  <2>3. publisher[b][block[b].device] > 0
    BY <1>0, <1>7, <2>1 DEF Listening, Entered, TopicOf
  <2>4. \A x \in Block \ {b}, d \in DeviceIds : publisher'[x][d] = publisher[x][d]
    BY <2>1, <2>2, <2>3, UnsubscribeFinds
  <2>5. ~Entered(b)'
    BY <2>1 DEF Entered
  <2>. QED
    BY <1>0, <1>7, <2>1, <2>4, <2>5, ListeningOthers
<1>8. ASSUME MoveUnsubscribe, ~fromStatus PROVE Listening'
  <2>. PICK b, old : b = config.block /\ old = config.old
    OBVIOUS
  <2>1. /\ config.op = "move" /\ block' = block /\ fromStatus' = fromStatus
        /\ publisher' \in Unsubscribe(publisher, old, b)
        /\ config \in [op : {"move"}, block : Block, old : DeviceIds, info : Infos \cup {Garbled, None}]
    BY <1>8 DEF MoveUnsubscribe, Types, Config, Idle
  <2>2. /\ config'.op = "subscribe" /\ config'.block = b /\ config'.info = config.info
        /\ b \in Block /\ old \in DeviceIds
    BY <1>8, <2>1 DEF MoveUnsubscribe
  <2>3. config.info = None
    BY <1>8, <2>1 DEF Listening
  <2>4. publisher[b][old] > 0
    <3>1. Entered(b) /\ TopicOf(b) = old
      BY <2>1, <2>2 DEF Types, BlockThere, Entered, TopicOf
    <3>. QED
      BY <1>8, <2>2, <3>1 DEF Listening
  <2>5. \A x \in Block \ {b}, d \in DeviceIds : publisher'[x][d] = publisher[x][d]
    <3>1. publisher \in [Block -> [DeviceIds -> Nat]]
      BY DEF Types
    <3>. QED
      BY <2>1, <2>2, <2>4, <3>1, UnsubscribeFinds
  <2>6. ~Entered(b)'
    BY <2>2 DEF Entered
  <2>. QED
    BY <1>0, <1>8, <2>1, <2>2, <2>3, <2>5, <2>6, ListeningOthers
<1>9. ASSUME MoveSubscribe, ~fromStatus PROVE Listening'
  <2>. PICK b, device : b = config.block /\ device = block[b].device
    OBVIOUS
  <2>1. /\ config.op = "subscribe" /\ block' = block /\ fromStatus' = fromStatus
        /\ publisher' = Subscribe(publisher, device, b)
        /\ config.block \in Block
    BY <1>9 DEF MoveSubscribe, Types, Config, Idle
  <2>2. config' = Idle
    BY <1>9, <2>1 DEF MoveSubscribe, Listening
  <2>3. device \in DeviceIds /\ publisher \in [Block -> [DeviceIds -> Nat]]
    BY <2>1 DEF Types, BlockThere, BlockRecord
  <2>4. TopicOf(b)' = device
    BY <1>0, <2>1, <2>2 DEF TopicOf
  <2>5. publisher[b][device] + 1 > 0
    BY <2>1, <2>3
  <2>6. publisher'[b][device] > 0 /\ \A x \in Block \ {b}, d \in DeviceIds : publisher'[x][d] = publisher[x][d]
    BY <2>1, <2>3, <2>5, SubscribeAdds
  <2>7. publisher'[b][TopicOf(b)'] > 0
    BY <2>4, <2>6
  <2>8. config'.op = "idle"
    BY <1>0, <2>2
  <2>9. config.block = b /\ b \in Block
    BY <2>1
  <2>. QED
    BY <1>0, <1>9, <2>1, <2>6, <2>7, <2>8, <2>9, ListeningOthers
<1>10. ASSUME FillFromStatus PROVE Listening'
  BY <1>10, <1>b DEF FillFromStatus, Listening
<1>11. ASSUME RemoveItem, ~fromStatus PROVE Listening'
  <2>. PICK b : b = config.block
    OBVIOUS
  <2>1. /\ config.op = "remove" /\ config' = Idle /\ publisher' = publisher /\ fromStatus' = fromStatus
        /\ b \in Block /\ block' = [block EXCEPT ![b] = None]
    BY <1>11 DEF RemoveItem, Types, Config, Idle
  <2>2. block'[b] = None /\ \A x \in Block \ {b} : block'[x] = block[x]
    BY <2>1 DEF Types
  <2>3. ~Entered(b)'
    BY <2>2 DEF Entered
  <2>4. config.block = b /\ config'.op = "idle"
    BY <1>0, <2>1
  <2>5. \A x \in Block \ {b} : \A d \in DeviceIds : publisher'[x][d] = publisher[x][d]
    BY <2>1
  <2>. QED
    BY <1>0, <1>11, <2>1, <2>2, <2>3, <2>4, <2>5, ListeningOthers
<1>12. CASE fromStatus
  <2>1. fromStatus'
    BY <1>12, ConfigKeeps
  <2>. QED
    BY <1>b, <2>1
<1>. QED
  BY <1>1, <1>2, <1>3, <1>4, <1>5, <1>6, <1>7, <1>8, <1>9, <1>10, <1>11, <1>12 DEF ConfigThread, UserWrites

LEMMA ListeningStays == ASSUME Types, EntryInv, Listening, [Next]_vars PROVE Listening'
<1>1. CASE UNCHANGED vars
  BY <1>1 DEF vars, Listening, Entered, TopicOf
<1>. QED
  BY <1>1, ListeningOfCapture, ListeningOfConfig DEF Next

\* While publish is at work no block comes to be addressed: a new one and one that
\* has moved are entered under its mutex.
LEMMA ToldOfConfig == ASSUME Types, Listening, Told, ConfigThread PROVE Told'
<1>. SUFFICES ASSUME InLoop("receive"), message.type = "cmStatMsg", ~fromStatus, ~fromStatus',
                     NEW b \in Block, Addressed(b)', b \notin arrival.receivers
     PROVE DescriptionIn(block'[b]) = message.info
  <2>1. arrival' = arrival /\ (fromStatus => fromStatus')
    BY ConfigKeeps
  <2>2. message' = message /\ (InLoop("receive")' => InLoop("receive"))
    BY <2>1 DEF InLoop, message
  <2>. QED
    BY <2>1, <2>2 DEF Told
<1>0. Idle.op = "idle" /\ arrival' = arrival /\ ~PublisherFree
  BY ConfigKeeps DEF Idle, PublisherFree
<1>1. ASSUME Addressed(b), block'[b] = block[b] PROVE DescriptionIn(block'[b]) = message.info
  BY <1>1 DEF Told
<1>2. CASE ReadList \/ Clear \/ ClearList
  <2>1. /\ block' = block /\ config.op \in {"idle", "clear"}
    BY <1>0, <1>2 DEF ReadList, Clear, ClearList
  <2>2. Addressed(b)
    BY <1>0, <2>1 DEF Addressed, Settled
  <2>. QED
    BY <1>1, <2>1, <2>2
<1>3. ASSUME NEW x \in Block, UserWrites(x) PROVE DescriptionIn(block'[b]) = message.info
  <2>1. PICK record \in BlockRecord : Rewrites(x, record)
    BY <1>3, UserRewrites
  <2>2. block'[x] = record /\ \A y \in Block \ {x} : block'[y] = block[y]
    BY <2>1, BlockChanges DEF Rewrites
  <2>3. config = Idle /\ block[x] # None
    BY <2>1 DEF Rewrites
  <2>4. CASE b # x
    <3>1. Addressed(b)
      BY <1>0, <2>2, <2>3, <2>4 DEF Addressed, Settled
    <3>. QED
      BY <1>1, <2>2, <2>4, <3>1
  <2>5. CASE b = x
    <3>1. ~BeginMove(x)
      BY <2>5 DEF BeginMove, Addressed, Settled
    <3>2. record.device = block[b].device /\ DescriptionIn(record) = DescriptionIn(block[b])
      BY <2>1, <2>5, <3>1 DEF Rewrites
    <3>3. Addressed(b)
      BY <1>0, <2>2, <2>3, <2>5, <3>2 DEF Addressed, Settled
    <3>. QED
      BY <2>2, <2>5, <3>2, <3>3 DEF Told
  <2>. QED
    BY <2>4, <2>5
<1>4. CASE RemoveItem
  <2>1. config.op = "remove" /\ config.block \in Block /\ block' = [block EXCEPT ![config.block] = None]
    BY <1>4 DEF RemoveItem, Types, Config, Idle
  <2>2. b # config.block
    BY <2>1 DEF Addressed, Settled, Types
  <2>3. block'[b] = block[b]
    BY <2>1, <2>2 DEF Types
  <2>4. Addressed(b)
    BY <1>0, <2>2, <2>3 DEF Addressed, Settled
  <2>. QED
    BY <1>1, <2>3, <2>4
<1>5. ~FillFromStatus
  <2>1. config.op # "fill"
    BY DEF Listening
  <2>. QED
    BY <2>1 DEF FillFromStatus
<1>6. ASSUME NEW x \in Block, NEW k \in 1..Cardinality(DeviceIds) PROVE ~AddCaptureModuleFromStatus(x, k)
  BY DEF AddCaptureModuleFromStatus
<1>. QED
  BY <1>0, <1>2, <1>3, <1>4, <1>5, <1>6
     DEF ConfigThread, UserWrites, AddCaptureModuleEmpty, MoveUnsubscribe, MoveSubscribe, RemoveCaptureModule

LEMMA ToldOfCapture == ASSUME Types, Listening, Told, CaptureThread PROVE Told'
<1>0. fromStatus' = fromStatus /\ config' = config
  BY DEF CaptureThread, PacketArrives, PublishData, UpdateStatus, UpdateList, PublishStatus, Receive, PublishReturns
<1>a. ASSUME ~InLoop("receive")' PROVE Told'
  BY <1>a DEF Told
<1>b. ASSUME arrival # None, NextMessage PROVE Told'
  BY <1>a, <1>b, AfterMessage DEF InLoop
<1>1. ASSUME NEW frame \in Frames, PacketArrives(frame) PROVE Told'
  BY <1>1, <1>a DEF PacketArrives, InLoop
<1>2. CASE PublishData \/ PublishReturns
  BY <1>2, <1>b DEF PublishData, PublishReturns, InLoop
<1>3. CASE UpdateStatus
  <2>1. arrival'.step = "list"
    BY <1>3, InHand DEF UpdateStatus, InLoop, Arrival
  <2>. QED
    BY <1>a, <2>1 DEF InLoop
<1>4. CASE UpdateList
  <2>1. CASE NextMessage
    BY <1>4, <1>b, <2>1 DEF UpdateList, InLoop
  <2>2. CASE arrival' = [arrival EXCEPT !.step = "publish"]
    <3>1. arrival'.step = "publish"
      BY <1>4, <2>2, InHand DEF UpdateList, InLoop, Arrival
    <3>. QED
      BY <1>a, <3>1 DEF InLoop
  <2>. QED
    BY <1>4, <2>1, <2>2 DEF UpdateList
<1>5. CASE PublishStatus
  <2>1. /\ arrival # None /\ arrival \in Arrival /\ arrival.frame.device \in DeviceIds /\ block' = block
        /\ arrival' = [arrival EXCEPT !.step = "receive",
                                      !.receivers = Subscribers(publisher, arrival.frame.device)]
    BY <1>5, InHand DEF PublishStatus, InLoop
  <2>2. /\ arrival'.receivers = {b \in Block : publisher[b][arrival.frame.device] > 0}
        /\ arrival'.frame = arrival.frame
    BY <2>1 DEF Subscribers, Arrival, Types
  <2>3. ASSUME ~fromStatus, NEW b \in Block, Addressed(b)' PROVE b \in arrival'.receivers
    <3>1. /\ block[b] # None /\ block[b].device = arrival.frame.device
          /\ config.op \in {"move", "subscribe", "remove"} => config.block # b
      BY <1>0, <2>1, <2>2, <2>3 DEF Addressed, Settled
    <3>2. Entered(b) /\ TopicOf(b) = arrival.frame.device
      BY <3>1 DEF Entered, TopicOf
    <3>. QED
      BY <2>2, <2>3, <3>2 DEF Listening
  <2>. QED
    BY <1>0, <2>3 DEF Told
<1>6. ASSUME NEW b \in Block, Receive(b) PROVE Told'
  <2>1. /\ arrival # None /\ arrival \in Arrival /\ InLoop("receive")
        /\ arrival' = [arrival EXCEPT !.receivers = @ \ {b}]
    BY <1>6, InHand DEF Receive, InLoop
  <2>2. /\ arrival'.receivers = arrival.receivers \ {b} /\ arrival'.frame = arrival.frame
        /\ arrival'.at = arrival.at
    BY <2>1 DEF Arrival
  <2>3. message' = message
    BY <2>2 DEF message
  <2>. SUFFICES ASSUME message.type = "cmStatMsg", ~fromStatus,
                       NEW x \in Block, Addressed(x)', x \notin arrival'.receivers
       PROVE DescriptionIn(block'[x]) = message.info
    BY <1>0, <2>3 DEF Told
  <2>4. CASE block'[x] = block[x] /\ x # b
    <3>1. Addressed(x) /\ x \notin arrival.receivers
      BY <1>0, <2>2, <2>4 DEF Addressed, Settled
    <3>. QED
      BY <2>1, <2>4, <3>1 DEF Told
  <2>5. CASE block[b] = None
    <3>1. block' = block
      BY <1>6, <2>5 DEF Receive
    <3>2. x # b
      BY <2>5, <3>1 DEF Addressed
    <3>. QED
      BY <2>4, <3>1, <3>2
  <2>6. CASE block[b] # None
    <3>1. PICK record \in BlockRecord : /\ block' = [block EXCEPT ![b] = record]
                                        /\ DescriptionIn(record) = ReceivedInfo
      BY <1>6, <2>6, ReceiveRewrites
    <3>2. block'[b] = record /\ \A y \in Block \ {b} : block'[y] = block[y]
      BY <3>1, BlockChanges
    <3>. QED
      BY <2>4, <3>1, <3>2 DEF ReceivedInfo
  <2>. QED
    BY <2>5, <2>6
<1>. QED
  BY <1>1, <1>2, <1>3, <1>4, <1>5, <1>6 DEF CaptureThread

LEMMA ToldStays == ASSUME Types, Listening, Told, [Next]_vars PROVE Told'
<1>1. CASE UNCHANGED vars
  BY <1>1 DEF vars, Told, InLoop, Addressed, Settled, message
<1>. QED
  BY <1>1, ToldOfCapture, ToldOfConfig DEF Next

--------------------------------------------------------------------------------
(* The theorems.                                                             *)

\* All of the invariant holds, whatever arrives and whatever the user does
\* (data_sink_module_fb.cpp:93).
THEOREM Invariant == Spec => [](Types /\ ListInv /\ EntryInv)
<1>1. Init => Types /\ ListInv /\ EntryInv
  BY TypesInit, ListInit, EntryInit
<1>2. (Types /\ ListInv /\ EntryInv) /\ [Next]_vars => (Types /\ ListInv /\ EntryInv)'
  BY TypesStay, ListStays, EntryStays
<1>. QED
  BY <1>1, <1>2, PTL DEF Spec

\* The list has the lines of the status table whenever stMutex is free
\* (status_fb_impl.cpp:44).
THEOREM ListIsTable == Spec => []ListShowsStatus
<1>1. ListInv => ListShowsStatus
  BY DEF ListInv
<1>. QED
  BY <1>1, Invariant, PTL

\* A block added from the status is of the device that the user saw
\* (data_sink_fb.cpp:35).
THEOREM AddsWhatWasSeen == Spec => []AddedIsTheOneSeen
<1>1. ListInv => AddedIsTheOneSeen
  BY DEF ListInv
<1>. QED
  BY <1>1, Invariant, PTL

\* publish calls no block that has been removed (data_sink_fb.cpp:61).
THEOREM CalledBlocksExist == Spec => []ReceiversExist
<1>1. EntryInv => ReceiversExist
  BY DEF EntryInv, Called, ReceiversExist
<1>. QED
  BY <1>1, Invariant, PTL

LEMMA CountedAlways == Spec => []Counted
<1>1. Init => Counted
  BY DEF Init, Counted
<1>. QED
  BY <1>1, CountedStays, Invariant, PTL DEF Spec

\* Every variable has its type; a line shows a number (status_fb_impl.h:42).
THEOREM TypeCorrect == Spec => []TypeOK
<1>1. ASSUME Types, Counted, stMutex \in {None, "capture", "config"} PROVE TypeOK
  <2>1. /\ \A k \in DOMAIN status : status[k] \in DeviceStatus
        /\ \A k \in DOMAIN list : list[k] \in Line
    BY <1>1 DEF Types, Counted
  <2>2. arrival # None => arrival \in Arrival /\ arrival.at \in DOMAIN arrival.frame.messages
    BY <1>1 DEF Types
  <2>3. config.op \in {"idle", "clear", "move", "subscribe", "fill", "remove"}
    BY <1>1 DEF Types, Config, Idle
  <2>4. /\ block \in [Block -> BlockRecord \cup {None}]
        /\ publisher \in [Block -> [DeviceIds -> Nat]]
    BY <1>1 DEF Types
  <2>. QED
    BY <1>1, <2>1, <2>2, <2>3, <2>4 DEF TypeOK
<1>2. Init => stMutex \in {None, "capture", "config"}
  BY DEF Init
<1>3. ASSUME stMutex \in {None, "capture", "config"}, [Next]_vars PROVE (stMutex \in {None, "capture", "config"})'
  <2>1. CASE CaptureThread
    BY <1>3, <2>1 DEF CaptureThread, PacketArrives, PublishData, UpdateStatus, UpdateList, PublishStatus, Receive,
                PublishReturns
  <2>2. CASE ConfigThread
    BY <1>3, <2>2, ConfigKeeps
  <2>. QED
    BY <1>3, <2>1, <2>2 DEF Next, vars
<1>4. Spec => [](stMutex \in {None, "capture", "config"})
  BY <1>2, <1>3, PTL DEF Spec
<1>. QED
  BY <1>1, <1>4, CountedAlways, Invariant, PTL

\* A block is garbled by nothing but an interface status that followed a capture
\* module status in its frame (data_sink_module_fb.cpp:132) or an index past the end
\* of the table (status_handler.h:46).
THEOREM GarbledByOthers == Spec => []GarbledByMisread
<1>1. Init => Garbling
  BY DEF Init, Garbling, InLoop, Idle
<1>2. Spec => []Garbling
  BY <1>1, GarblingStays, Invariant, PTL DEF Spec
<1>3. Garbling => GarbledByMisread
  BY DEF Garbling, GarbledByMisread, Unreadable
<1>. QED
  BY <1>2, <1>3, PTL

\* A status that has been published is shown by each block of the device that is
\* not in the middle of a move or a removal (publisher.h:57).
THEOREM StatusReaches == Spec => StatusReachesBlocks
<1>1. Init => Listening /\ Told
  BY DEF Init, Listening, Told, InLoop, Entered, Idle
<1>2. Spec => [](Types /\ Listening /\ Told)
  <2>1. Types /\ EntryInv /\ Listening /\ Told /\ [Next]_vars => (Listening /\ Told)'
    BY ListeningStays, ToldStays
  <2>. QED
    BY <1>1, <2>1, Invariant, PTL DEF Spec
<1>3. ASSUME Types, Told, [Next]_vars, MessageDone, FrontIsCaptureStatus, message.type = "cmStatMsg", ~fromStatus,
             NEW b \in Block, block[b] # None, block[b].device = arrival.frame.device, Settled(b)
      PROVE Described(b) = message.info
  <2>1. InLoop("receive") /\ arrival.receivers = {}
    <3>1. arrival \in Arrival /\ arrival # None
      BY <1>3, InHand DEF MessageDone
    <3>2. ~ConfigThread /\ vars' # vars
      BY <1>3, <3>1, ConfigKeeps DEF MessageDone, vars
    <3>3. ASSUME arrival' \in Arrival, arrival'.at = arrival.at PROVE FALSE
      BY <1>3, <3>3, SinkDispatchAssumption DEF MessageDone
    <3>4. ASSUME NEW step \in {"list", "publish"}, arrival' = [arrival EXCEPT !.step = step] PROVE FALSE
      BY <3>1, <3>3, <3>4 DEF Arrival
    <3>5. ~UpdateStatus /\ ~UpdateList /\ ~PublishData
      BY <1>3, <3>4 DEF UpdateStatus, UpdateList, PublishData, AfterStatusPublishes, FrontIsCaptureStatus
    <3>6. ~PublishStatus
      <4>1. Subscribers(publisher, arrival.frame.device) \in SUBSET Block
        BY <1>3 DEF Subscribers, Types
      <4>. QED
        BY <3>1, <3>3, <4>1 DEF PublishStatus, Arrival
    <3>7. ASSUME NEW x \in Block PROVE ~Receive(x)
      BY <3>1, <3>3 DEF Receive, Arrival
    <3>8. PublishReturns
      BY <1>3, <3>1, <3>2, <3>5, <3>6, <3>7 DEF Next, CaptureThread, PacketArrives
    <3>. QED
      BY <3>8 DEF PublishReturns
  <2>. QED
    BY <1>3, <2>1 DEF Told, Addressed, DescriptionIn, Described
<1>4. Types /\ Told /\ [Next]_vars =>
        [MessageDone /\ FrontIsCaptureStatus /\ message.type = "cmStatMsg" /\ ~fromStatus =>
           \A b \in Block :
             block[b] # None /\ block[b].device = arrival.frame.device /\ Settled(b)
               => Described(b) = message.info]_vars
  BY <1>3
<1>. QED
  BY <1>2, <1>4, PTL DEF Spec, StatusReachesBlocks
================================================================================
