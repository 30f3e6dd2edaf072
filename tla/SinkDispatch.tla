------------------------------ MODULE SinkDispatch ------------------------------
(***************************************************************************)
(* What the data sink does with a frame that arrives, while the user reads *)
(* the list of devices, clears it, and adds, renumbers and removes Capture *)
(* blocks, with or without beginUpdate / endUpdate.                        *)
(*                                                                         *)
(* Two threads run.  The capture thread of PcapPlusPlus calls              *)
(* onPacketArrives, which hands data messages to the Stream blocks through *)
(* one publisher, keeps the status table and its list, and hands capture   *)
(* module status messages to the Capture blocks through the other one.  It *)
(* holds the publisher's mutex until each of them has received.  The       *)
(* configuration thread changes the blocks and their entries, and copies   *)
(* devices out of the status table.                                        *)
(***************************************************************************)
EXTENDS Publisher, Sequences, FiniteSets

CONSTANTS
  Block,       \* identities of CaptureFb objects
  None,        \* no block, no frame, no holder of a lock, nothing seen
  DeviceIds,   \* values of DeviceId
  Infos,       \* descriptions that capture modules give of themselves
  NoInfo,      \* the description of a new block
  Garbled,     \* what the payload of another packet gives, read as a capture module status
  Frames,      \* the frames that may arrive
  MaxFrames,   \* bound: frames that arrive
  Updated      \* bound: the blocks the user calls beginUpdate on

\* The messages of a frame.  One CMP header gives all of them a device and a
\* message type; the header of a data message names an interface and a type.
StatusMessage == [type : {"cmStatMsg"}, info : Infos] \cup [type : {"ifStatMsg"}, interface : Nat]
DataMessage == [type : {"can", "analog"}, interface : Nat]
Frame ==
  [device : DeviceIds, messageType : {"status"}, messages : Seq(StatusMessage)] \cup
  [device : DeviceIds, messageType : {"data"}, messages : Seq(DataMessage)]

DeviceStatus == [device : DeviceIds, info : Infos, interfaces : SUBSET Nat]
Line == [device : DeviceIds, info : Infos, interfaces : Nat]

\* The properties of a block that a frame or the user may write.
Properties == [device : DeviceIds, info : Infos \cup {NoInfo, Garbled}]

\* pending is what endUpdate will apply; meant is history: the device that the
\* user saw under the index asked for.
BlockRecord ==
  [device : DeviceIds, info : Infos \cup {NoInfo, Garbled},
   pending : Properties \cup {None}, meant : DeviceIds \cup {None}]

\* A frame in onPacketArrives: the message in hand, what is done with it next, and
\* whom the publisher is still to call.
Arrival ==
  [frame : Frames, at : Nat, step : {"loop", "list", "publish", "receive"}, receivers : SUBSET Block]

ASSUME SinkDispatchAssumption ==
  /\ DeviceIds \subseteq Nat /\ 0 \in DeviceIds
  /\ Frames \subseteq Frame /\ \A frame \in Frames : frame.messages # <<>>
  /\ MaxFrames \in Nat /\ Updated \subseteq Block
  /\ NoInfo \notin Infos /\ Garbled \notin Infos \cup {NoInfo}
  /\ None \notin Block \cup Infos \cup {NoInfo, Garbled} /\ None \notin {"capture", "config"}
  /\ None \notin DeviceIds \cup Frame \cup Properties \cup BlockRecord \cup Arrival

VARIABLES
  status,     \* the DeviceStatus objects, in the order of their first message
  list,       \* CaptureModuleList
  stMutex,    \* who holds stMutex, and with it the lock of StatusFb
  block,      \* the CaptureFb objects that exist
  publisher,  \* capturePacketsPublisher
  arrival,    \* the frame in onPacketArrives and how far it has come
  frames,     \* frames so far
  delivery,   \* what dataPacketsPublisher was last given, and for which interface
  config,     \* the operation the configuration thread is in
  seen,       \* history: the devices of the list when the user read it
  misread,    \* history: a block was given a packet to read that is no capture module status
  fromStatus  \* history: AddCaptureModuleFromStatus was called

vars == <<status, list, stMutex, block, publisher, arrival, frames, delivery, config, seen, misread, fromStatus>>

NewBlock(device, meant) == [device |-> device, info |-> NoInfo, pending |-> None, meant |-> meant]

Idle == [op |-> "idle"]

Init ==
  /\ status = <<>> /\ list = <<>> /\ stMutex = None
  /\ block = [b \in Block |-> None]
  /\ publisher = EmptyTable(Block, DeviceIds)
  /\ arrival = None /\ frames = 0 /\ delivery = None
  /\ config = Idle /\ seen = None /\ misread = FALSE /\ fromStatus = FALSE

--------------------------------------------------------------------------------
(* The capture thread.                                                       *)

frontMessage == Head(arrival.frame.messages)
message == arrival.frame.messages[arrival.at]

\* samePayloadType of onPacketArrives: types and identifiers are those of the first.
SamePayloadType(frame) == \A k \in DOMAIN frame.messages : frame.messages[k] = Head(frame.messages)

\* A capture module status comes first and an interface status later.
MixesStatus(frame) ==
  /\ Head(frame.messages).type = "cmStatMsg"
  /\ \E k \in DOMAIN frame.messages : frame.messages[k].type = "ifStatMsg"

\* decode, and onPacketArrives up to its branch.
PacketArrives(frame) ==
  /\ arrival = None /\ frames < MaxFrames
  /\ frames' = frames + 1
  /\ IF frame.messageType = "data" /\ SamePayloadType(frame)
     THEN arrival' = None /\ delivery' = [interface |-> Head(frame.messages).interface, messages |-> frame.messages]
     ELSE arrival' = [frame |-> frame, at |-> 1, step |-> "loop", receivers |-> {}] /\ delivery' = None
  /\ misread' = (misread \/ MixesStatus(frame))
  /\ UNCHANGED <<status, list, stMutex, block, publisher, config, seen, fromStatus>>

\* The loop goes on with the message after this one, or is done.
NextMessage ==
  arrival' = IF arrival.at = Len(arrival.frame.messages) THEN None
             ELSE [arrival EXCEPT !.at = @ + 1, !.step = "loop", !.receivers = {}]

InLoop(step) == arrival # None /\ arrival.step = step

\* The case of a data message, under the identifiers of the first one.
PublishData ==
  /\ InLoop("loop") /\ arrival.frame.messageType = "data"
  /\ delivery' = [interface |-> frontMessage.interface, messages |-> <<message>>]
  /\ NextMessage
  /\ UNCHANGED <<status, list, stMutex, block, publisher, frames, config, seen, misread, fromStatus>>

IndexOf(device) == {k \in DOMAIN status : status[k].device = device}

\* Status::update: a device is entered by its first capture module status.
UpdatedStatus(device, m) ==
  IF m.type = "cmStatMsg" /\ IndexOf(device) = {}
  THEN Append(status, [device |-> device, info |-> m.info, interfaces |-> {}])
  ELSE [k \in DOMAIN status |->
         IF status[k].device # device THEN status[k]
         ELSE IF m.type = "cmStatMsg" THEN [status[k] EXCEPT !.info = m.info]
         ELSE [status[k] EXCEPT !.interfaces = @ \cup {m.interface}]]

\* processStatusPacket takes both locks and updates the table.
UpdateStatus ==
  /\ InLoop("loop") /\ arrival.frame.messageType = "status"
  /\ stMutex = None
  /\ stMutex' = "capture"
  /\ status' = UpdatedStatus(arrival.frame.device, message)
  /\ arrival' = [arrival EXCEPT !.step = "list"]
  /\ UNCHANGED <<list, block, publisher, frames, delivery, config, seen, misread, fromStatus>>

LineOf(entry) ==
  [device |-> entry.device, info |-> entry.info, interfaces |-> Cardinality(entry.interfaces)]

\* Fault: a device that is known gets another line.
PutLineAppends(k) == list' = Append(list, LineOf(status[k]))

\* setItemAt or pushBack
PutLine(k) ==
  list' = IF k <= Len(list) THEN [list EXCEPT ![k] = LineOf(status[k])]
          ELSE Append(list, LineOf(status[k]))

\* Fault: each status message goes to the Capture blocks.
AfterStatusPublishesAll == TRUE

\* The message goes to the Capture blocks as well.
AfterStatusPublishes == frontMessage.type = "cmStatMsg"

\* The rest of processStatusPacket: an interface status of a device that is not
\* in the table changes nothing.
UpdateList ==
  /\ InLoop("list")
  /\ stMutex' = None
  /\ IF IndexOf(arrival.frame.device) = {} THEN list' = list
     ELSE \E k \in IndexOf(arrival.frame.device) : PutLine(k)
  /\ IF AfterStatusPublishes THEN arrival' = [arrival EXCEPT !.step = "publish"] ELSE NextMessage
  /\ UNCHANGED <<status, block, publisher, frames, delivery, config, seen, misread, fromStatus>>

\* Fault: find in the place of equal_range.
PublishStatusToOne ==
  /\ InLoop("publish")
  /\ \E receivers \in SUBSET Subscribers(publisher, arrival.frame.device) :
       /\ Cardinality(receivers) = 1 \/ Subscribers(publisher, arrival.frame.device) = {}
       /\ arrival' = [arrival EXCEPT !.step = "receive", !.receivers = receivers]
  /\ UNCHANGED <<status, list, stMutex, block, publisher, frames, delivery, config, seen, misread, fromStatus>>

\* publish locks the publisher's mutex and finds the entries of the device.
PublishStatus ==
  /\ InLoop("publish")
  /\ arrival' = [arrival EXCEPT !.step = "receive",
                                !.receivers = Subscribers(publisher, arrival.frame.device)]
  /\ UNCHANGED <<status, list, stMutex, block, publisher, frames, delivery, config, seen, misread, fromStatus>>

\* CaptureFb::receive casts the payload without looking at its type, and the
\* properties it writes wait for endUpdate when the block is being updated.
ReceivedInfo == IF message.type = "cmStatMsg" THEN message.info ELSE Garbled

Receive(b) ==
  /\ InLoop("receive") /\ b \in arrival.receivers
  /\ block' = IF block[b] = None THEN block
              ELSE IF block[b].pending = None THEN [block EXCEPT ![b].info = ReceivedInfo]
              ELSE [block EXCEPT ![b].pending.info = ReceivedInfo]
  /\ arrival' = [arrival EXCEPT !.receivers = @ \ {b}]
  /\ UNCHANGED <<status, list, stMutex, publisher, frames, delivery, config, seen, misread, fromStatus>>

PublishReturns ==
  /\ InLoop("receive") /\ arrival.receivers = {}
  /\ NextMessage
  /\ UNCHANGED <<status, list, stMutex, block, publisher, frames, delivery, config, seen, misread, fromStatus>>

--------------------------------------------------------------------------------
(* The configuration thread.                                                 *)

\* Fault: publish copies the entries and lets the mutex go before it calls.
PublisherFreeAlways == TRUE

\* subscribersMt of capturePacketsPublisher is free.
PublisherFree == ~InLoop("receive")

\* The user reads CaptureModuleList.
ReadList ==
  /\ config = Idle /\ stMutex = None
  /\ seen' = [k \in DOMAIN list |-> list[k].device]
  /\ UNCHANGED <<status, list, stMutex, block, publisher, arrival, frames, delivery, config, misread, fromStatus>>

\* Fault: only the list is cleared.
ClearKeepsStatus ==
  /\ config = Idle /\ stMutex = None
  /\ stMutex' = "config" /\ config' = [op |-> "clear"]
  /\ seen' = None
  /\ UNCHANGED <<status, list, block, publisher, arrival, frames, delivery, misread, fromStatus>>

\* clear: the table, and then the list.
Clear ==
  /\ config = Idle /\ stMutex = None
  /\ stMutex' = "config" /\ config' = [op |-> "clear"]
  /\ status' = <<>>
  /\ seen' = None
  /\ UNCHANGED <<list, block, publisher, arrival, frames, delivery, misread, fromStatus>>

ClearList ==
  /\ config.op = "clear"
  /\ list' = <<>> /\ stMutex' = None /\ config' = Idle
  /\ UNCHANGED <<status, block, publisher, arrival, frames, delivery, seen, misread, fromStatus>>

\* addCaptureModuleEmpty
AddCaptureModuleEmpty(b) ==
  /\ config = Idle /\ block[b] = None /\ PublisherFree
  /\ block' = [block EXCEPT ![b] = NewBlock(0, None)]
  /\ publisher' = Subscribe(publisher, 0, b)
  /\ UNCHANGED <<status, list, stMutex, arrival, frames, delivery, config, seen, misread, fromStatus>>

\* getDeviceStatus: the entry at an index, or past the end a default DeviceStatus,
\* whose packet has no payload that could be read as a capture module status.
NoDeviceStatus == [device |-> 0, info |-> Garbled, interfaces |-> {}]

CopyOf(k) == IF k \in DOMAIN status THEN status[k] ELSE NoDeviceStatus

\* addCaptureModuleFromStatus up to the first publisher call of the constructor.
AddCaptureModuleFromStatus(b, k) ==
  /\ config = Idle /\ block[b] = None /\ stMutex = None
  /\ fromStatus' = TRUE /\ misread' = (misread \/ k \notin DOMAIN status)
  /\ block' = [block EXCEPT ![b] =
       NewBlock(CopyOf(k).device, IF seen # None /\ k \in DOMAIN seen THEN seen[k] ELSE None)]
  /\ config' = [op |-> IF CopyOf(k).device = 0 THEN "fill" ELSE "move",
                 block |-> b, old |-> 0, info |-> CopyOf(k).info]
  /\ UNCHANGED <<status, list, stMutex, publisher, arrival, frames, delivery, seen>>

\* The entry of a block whose member deviceId has changed has still to move.
BeginMove(b) == config' = [op |-> "move", block |-> b, old |-> block[b].device, info |-> None]

\* A write of DeviceId outside an update.
SetDeviceId(b, device) ==
  /\ config = Idle /\ block[b] # None /\ block[b].pending = None /\ block[b].device # device
  /\ block' = [block EXCEPT ![b].device = device, ![b].meant = None]
  /\ BeginMove(b)
  /\ UNCHANGED <<status, list, stMutex, publisher, arrival, frames, delivery, seen, misread, fromStatus>>

BeginUpdate(b) ==
  /\ config = Idle /\ b \in Updated /\ block[b] # None /\ block[b].pending = None
  /\ block' = [block EXCEPT ![b].pending = [device |-> block[b].device, info |-> block[b].info]]
  /\ UNCHANGED <<status, list, stMutex, publisher, arrival, frames, delivery, config, seen, misread, fromStatus>>

\* A write of DeviceId during an update.
SetDeviceIdUpdating(b, device) ==
  /\ config = Idle /\ block[b] # None /\ block[b].pending # None
  /\ block' = [block EXCEPT ![b].pending.device = device]
  /\ UNCHANGED <<status, list, stMutex, publisher, arrival, frames, delivery, config, seen, misread, fromStatus>>

\* CaptureCommonFbImpl::endUpdate: the properties take their values, and then
\* propertyChanged moves the entry if DeviceId is another.
EndUpdate(b) ==
  /\ config = Idle /\ block[b] # None /\ block[b].pending # None
  /\ LET moves == block[b].pending.device # block[b].device
     IN /\ block' = [block EXCEPT ![b].device = block[b].pending.device, ![b].info = block[b].pending.info,
                                  ![b].pending = None, ![b].meant = IF moves THEN None ELSE @]
        /\ IF moves THEN BeginMove(b) ELSE config' = config
  /\ UNCHANGED <<status, list, stMutex, publisher, arrival, frames, delivery, seen, misread, fromStatus>>

MoveUnsubscribe ==
  /\ config.op = "move" /\ PublisherFree
  /\ publisher' \in Unsubscribe(publisher, config.old, config.block)
  /\ config' = [config EXCEPT !.op = "subscribe"]
  /\ UNCHANGED <<status, list, stMutex, block, arrival, frames, delivery, seen, misread, fromStatus>>

MoveSubscribe ==
  /\ config.op = "subscribe" /\ PublisherFree
  /\ publisher' = Subscribe(publisher, block[config.block].device, config.block)
  /\ config' = IF config.info = None THEN Idle ELSE [config EXCEPT !.op = "fill"]
  /\ UNCHANGED <<status, list, stMutex, block, arrival, frames, delivery, seen, misread, fromStatus>>

\* The constructor writes the description that was copied from the table.
FillFromStatus ==
  /\ config.op = "fill"
  /\ block' = [block EXCEPT ![config.block].info = config.info]
  /\ config' = Idle
  /\ UNCHANGED <<status, list, stMutex, publisher, arrival, frames, delivery, seen, misread, fromStatus>>

\* removeCaptureModule: unsubscribe, and then removeItem.
RemoveCaptureModule(b) ==
  /\ config = Idle /\ block[b] # None /\ PublisherFree
  /\ publisher' \in Unsubscribe(publisher, block[b].device, b)
  /\ config' = [op |-> "remove", block |-> b]
  /\ UNCHANGED <<status, list, stMutex, block, arrival, frames, delivery, seen, misread, fromStatus>>

RemoveItem ==
  /\ config.op = "remove"
  /\ block' = [block EXCEPT ![config.block] = None]
  /\ config' = Idle
  /\ UNCHANGED <<status, list, stMutex, publisher, arrival, frames, delivery, seen, misread, fromStatus>>

--------------------------------------------------------------------------------
CaptureThread ==
  \/ \E frame \in Frames : PacketArrives(frame)
  \/ PublishData \/ UpdateStatus \/ UpdateList \/ PublishStatus
  \/ \E b \in Block : Receive(b)
  \/ PublishReturns

ConfigThread ==
  \/ ReadList \/ Clear \/ ClearList
  \/ \E b \in Block :
       \/ AddCaptureModuleEmpty(b)
       \/ \E k \in 1..Cardinality(DeviceIds) : AddCaptureModuleFromStatus(b, k)
       \/ \E device \in DeviceIds : SetDeviceId(b, device) \/ SetDeviceIdUpdating(b, device)
       \/ BeginUpdate(b) \/ EndUpdate(b)
       \/ RemoveCaptureModule(b)
  \/ MoveUnsubscribe \/ MoveSubscribe \/ FillFromStatus \/ RemoveItem

Next == CaptureThread \/ ConfigThread

Spec == Init /\ [][Next]_vars

--------------------------------------------------------------------------------
(* Properties.                                                               *)

\* Every variable has its type (status_fb_impl.h:42).
TypeOK ==
  /\ \A k \in DOMAIN status : status[k] \in DeviceStatus
  /\ \A k \in DOMAIN list : list[k] \in Line
  /\ stMutex \in {None, "capture", "config"}
  /\ block \in [Block -> BlockRecord \cup {None}]
  /\ publisher \in [Block -> [DeviceIds -> Nat]]
  /\ arrival # None => arrival \in Arrival /\ arrival.at \in DOMAIN arrival.frame.messages
  /\ config.op \in {"idle", "clear", "move", "subscribe", "fill", "remove"}

\* While nobody is in a critical section of the status block the list has one
\* line for each device of the table, in the order of the table, with the
\* description and the number of interfaces it has there: the index that the user
\* sees is the index that AddCaptureModuleFromStatus uses (status_fb_impl.cpp:44).
ListShowsStatus ==
  stMutex = None =>
    /\ Len(list) = Len(status)
    /\ \A k \in DOMAIN list : list[k] = LineOf(status[k])

\* A block added from the status is of the device that the user saw under the
\* index, whatever arrived between the two calls, if the list was not cleared
\* since (data_sink_fb.cpp:35).
AddedIsTheOneSeen ==
  \A b \in Block : block[b] # None /\ block[b].meant # None => block[b].device = block[b].meant

\* publish does not call a block that is gone: removeCaptureModule waits for
\* subscribersMt before the block leaves the tree (data_sink_fb.cpp:61).
ReceiversExist ==
  InLoop("receive") => \A b \in arrival.receivers : block[b] # None

\* A Capture block takes its description from capture module statuses, unless an
\* interface status followed one in the same frame (data_sink_module_fb.cpp:132) or
\* it was added under an index that the table did not have (status_handler.h:46).
GarbledByMisread == \A b \in Block : block[b] # None /\ block[b].info = Garbled => misread

\* The capture thread is done with the message in hand.
MessageDone == arrival # None /\ (arrival' = None \/ arrival'.at # arrival.at)

\* The frame in hand is one whose capture module statuses go to the Capture blocks:
\* it begins with one.
FrontIsCaptureStatus == arrival.frame.messageType = "status" /\ frontMessage.type = "cmStatMsg"

\* No operation that moves or removes the entry of block b is under way.
Settled(b) == config.op \in {"move", "subscribe", "remove"} => config.block # b

\* The description that a block shows, or will show when its update ends.
Described(b) == IF block[b].pending = None THEN block[b].info ELSE block[b].pending.info

\* When the capture thread is done with a capture module status, in a frame that
\* begins with one, all Capture blocks of the device that are not being moved or
\* removed show its description, or will as soon as their update ends; as long as
\* all blocks were added by AddCaptureModuleEmpty (data_sink_module_fb.cpp:133).
StatusReachesBlocks ==
  [][MessageDone /\ FrontIsCaptureStatus /\ message.type = "cmStatMsg" /\ ~fromStatus =>
       \A b \in Block :
         block[b] # None /\ block[b].device = arrival.frame.device /\ Settled(b)
           => Described(b) = message.info]_vars

\* A data message reaches the endpoint that it names: onPacketArrives says that
\* it processes several packets together only if their IDs are the same.
OwnEndpoint ==
  delivery # None =>
    \A k \in DOMAIN delivery.messages : delivery.messages[k].interface = delivery.interface
================================================================================
