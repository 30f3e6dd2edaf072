-------------------------------- MODULE LockOrder --------------------------------
(***************************************************************************)
(* The order in which the threads of both modules take locks.              *)
(*                                                                         *)
(* Every function block has a recursive lock, which openDAQ takes for the  *)
(* whole of a property write, its handlers included, and for each property *)
(* read, and which the code takes with getRecursiveConfigLock.  On top of  *)
(* it the code has mutexes: statusSync and the mutexes of the encoders in  *)
(* the capture module, stMutex and one subscribersMt per publisher in the  *)
(* data sink.                                                              *)
(*                                                                         *)
(* An operation is the sequence of locks it takes and releases: which      *)
(* block or mutex, in the order of the code, one choice per path that      *)
(* takes different locks.  What it does under them is in other modules.    *)
(* cv.wait_for releases statusSync, so the status thread begins anew after *)
(* each wait.  Locks of blocks that no other thread can reach yet (in      *)
(* constructors) are left out; that a refused InterfaceId locks statusSync *)
(* twice in one thread is in CaptureStatus.                                *)
(***************************************************************************)
EXTENDS Naturals, Sequences, FiniteSets

CONSTANTS
  Configurator,  \* threads that change blocks of either module
  StatusThread,  \* runs statusLoop (at most one)
  Worker,        \* scheduler threads that run onPacketReceived of Stream blocks
  CaptureThread, \* PcapPlusPlus threads that run onPacketArrives (at most one)
  Stream         \* Stream blocks of the one Interface of the capture module

ASSUME LockOrderAssumption ==
  /\ Cardinality(StatusThread) <= 1 /\ Cardinality(CaptureThread) <= 1
  /\ \A S, T \in {Configurator, StatusThread, Worker, CaptureThread} : S = T \/ S \cap T = {}

Thread == Configurator \cup StatusThread \cup Worker \cup CaptureThread

\* One Capture and one Interface block in the capture module; one chain of
\* blocks, the StatusFb and the DataSinkFb in the data sink.
OtherBlockLock == {"Capture", "Interface", "SinkCapture", "SinkInterface", "SinkStream", "StatusFb", "DataSinkFb"}
BlockLock == Stream \cup OtherBlockLock
Mutex == {"statusSync", "encoderSync", "stMutex", "captureSubscribersMt", "dataSubscribersMt"}

ASSUME StreamAssumption == IsFiniteSet(Stream) /\ Stream \cap (OtherBlockLock \cup Mutex) = {}

VARIABLES
  module, \* which of the two modules runs: they share no lock
  todo,  \* what a thread still has to do in its operation
  held   \* the locks a thread holds, the last one taken first

vars == <<module, todo, held>>

--------------------------------------------------------------------------------
(* Operations as sequences of steps.                                         *)

Take(lock) == [do |-> "take", lock |-> lock]
Drop(lock) == [do |-> "drop", lock |-> lock]

\* A scoped lock around a body.
With(lock, body) == <<Take(lock)>> \o body \o <<Drop(lock)>>
Use(lock) == With(lock, <<>>)
ReadProperty(block) == Use(block)

\* parentInterfaceUpdater, and updateInterfaceData in the Interface block: it
\* reads VendorData of the Interface.
UpdateInterfaceData == ReadProperty("Interface")

\* The Streams that the Interface has, in the order in which they were added.
Order == UNION {{order \in [1..n -> Stream] : \A i, j \in 1..n : order[i] = order[j] => i = j} :
                  n \in 0..Cardinality(Stream)}

\* setPayloadType of each of them: its lock is taken and released.
SetPayloadTypes(order) ==
  [k \in 1 .. 2 * Len(order) |-> LET s == order[(k + 1) \div 2] IN IF k % 2 = 1 THEN Take(s) ELSE Drop(s)]

UpdateCaptureData == Use("statusSync")
AddInterface == With("Capture", Use("statusSync"))
RemoveInterface == With("Capture", With("statusSync", ReadProperty("Interface")))
WriteDeviceProperties == With("Capture", UpdateCaptureData)

AddStream == With("Interface", With("statusSync", UpdateInterfaceData))
RemoveStream(s) == With("Interface", With("statusSync", ReadProperty(s) \o UpdateInterfaceData))
UpdateInterfaceId == With("Interface", With("statusSync", UpdateInterfaceData))
UpdatePayloadType(order) ==
  With("Interface", With("statusSync", SetPayloadTypes(order) \o UpdateInterfaceData))

UpdateStreamId(s) == With(s, With("statusSync", UpdateInterfaceData))
RefuseStreamId(s) == With(s, With("statusSync", ReadProperty(s)))

\* The operations of a configuration thread on the capture module.
CaptureModuleOperations ==
  {AddInterface, RemoveInterface, WriteDeviceProperties, AddStream, UpdateInterfaceId} \cup
  {UpdatePayloadType(order) : order \in Order} \cup
  UNION {{RemoveStream(s), UpdateStreamId(s), RefuseStreamId(s)} : s \in Stream}

\* Fault: the encoder is locked before the block is.
OnPacketReceivedEncoderFirst(s) == With("encoderSync", Use(s))

\* The lock of the encoder is held while it encodes and released before the
\* frame is sent.
OnPacketReceived(s) == With(s, Use("encoderSync"))

\* One round of the loop, between two waits.
StatusLoop == With("statusSync", Use("encoderSync"))

UpdateDeviceId ==
  With("SinkCapture",
       Use("captureSubscribersMt") \o ReadProperty("SinkInterface") \o ReadProperty("SinkStream")
         \o Use("dataSubscribersMt"))
RemoveSinkInterface ==
  With("SinkCapture", ReadProperty("SinkInterface") \o ReadProperty("SinkStream") \o Use("dataSubscribersMt"))
UpdateSinkInterfaceId == With("SinkInterface", ReadProperty("SinkStream") \o Use("dataSubscribersMt"))
AddSinkStream == With("SinkInterface", Use("dataSubscribersMt"))
RemoveSinkStream == With("SinkInterface", ReadProperty("SinkStream") \o Use("dataSubscribersMt"))
UpdateSinkStreamId == With("SinkStream", Use("dataSubscribersMt"))

AddCaptureModuleFromStatus ==
  With("DataSinkFb", Use("stMutex") \o Use("captureSubscribersMt") \o Use("dataSubscribersMt"))
AddCaptureModuleEmpty == With("DataSinkFb", ReadProperty("SinkCapture") \o Use("captureSubscribersMt"))
RemoveCaptureModule ==
  With("DataSinkFb",
       ReadProperty("SinkCapture") \o Use("captureSubscribersMt") \o ReadProperty("SinkInterface")
         \o ReadProperty("SinkStream") \o Use("dataSubscribersMt"))

\* Fault: stMutex is taken before the lock of the block.
ClearMutexFirst == With("stMutex", Use("StatusFb"))
Clear == With("StatusFb", Use("stMutex"))

\* The operations of a configuration thread on the data sink.
DataSinkOperations ==
  {UpdateDeviceId, RemoveSinkInterface, UpdateSinkInterfaceId, AddSinkStream, RemoveSinkStream,
   UpdateSinkStreamId, AddCaptureModuleFromStatus, AddCaptureModuleEmpty, RemoveCaptureModule, Clear}

\* A status frame goes to StatusFb and then to the Capture blocks, whose
\* receive writes properties; receive of a Stream block takes no such lock.
ProcessStatusPacket == With("StatusFb", Use("stMutex"))
PublishStatus == With("captureSubscribersMt", Use("SinkCapture"))
PublishData == Use("dataSubscribersMt")

CaptureModule == "capture module"
DataSink == "data sink"

Operations(t) ==
  IF module = CaptureModule
  THEN CASE t \in Configurator -> CaptureModuleOperations
         [] t \in StatusThread -> {StatusLoop}
         [] t \in Worker -> {OnPacketReceived(s) : s \in Stream}
         [] OTHER -> {}
  ELSE CASE t \in Configurator -> DataSinkOperations
         [] t \in CaptureThread -> {ProcessStatusPacket \o PublishStatus, PublishData}
         [] OTHER -> {}

--------------------------------------------------------------------------------
Init ==
  /\ module \in {CaptureModule, DataSink}
  /\ todo = [t \in Thread |-> <<>>]
  /\ held = [t \in Thread |-> <<>>]

Begin(t) ==
  /\ todo[t] = <<>>
  /\ \E steps \in Operations(t) : todo' = [todo EXCEPT ![t] = steps]
  /\ UNCHANGED <<module, held>>

NextStep(t) == Head(todo[t])
Holds(t, lock) == \E k \in DOMAIN held[t] : held[t][k] = lock
Wants(t, lock) == todo[t] # <<>> /\ NextStep(t) = Take(lock)

\* A block's lock is recursive, a mutex is not.
Free(t, lock) == \A u \in Thread : Holds(u, lock) => u = t /\ lock \notin Mutex

Acquire(t) ==
  /\ todo[t] # <<>> /\ NextStep(t).do = "take"
  /\ Free(t, NextStep(t).lock)
  /\ held' = [held EXCEPT ![t] = <<NextStep(t).lock>> \o @]
  /\ todo' = [todo EXCEPT ![t] = Tail(@)]
  /\ UNCHANGED module

Release(t) ==
  /\ todo[t] # <<>> /\ NextStep(t).do = "drop"
  /\ held' = [held EXCEPT ![t] = Tail(@)]
  /\ todo' = [todo EXCEPT ![t] = Tail(@)]
  /\ UNCHANGED module

Step(t) == Begin(t) \/ Acquire(t) \/ Release(t)

Next == \E t \in Thread : Step(t)

Spec == Init /\ [][Next]_vars

--------------------------------------------------------------------------------
(* Properties.                                                               *)

\* t cannot go on before u releases a lock.
WaitsFor(t, u) ==
  /\ todo[t] # <<>> /\ NextStep(t).do = "take"
  /\ ~Free(t, NextStep(t).lock) /\ Holds(u, NextStep(t).lock)
Waiting == {t \in Thread : \E u \in Thread : WaitsFor(t, u)}

\* Threads none of which can go on before another one of them does.
Stuck(T) == T # {} /\ \A t \in T : \E u \in T : WaitsFor(t, u)

\* Takes the lock of an Interface or a Stream block under statusSync.
WantsBlockUnderStatusSync(t) ==
  Holds(t, "statusSync") /\ \E block \in Stream \cup {"Interface"} : Wants(t, block)

\* A Capture block receives a status under subscribersMt.
WantsCaptureUnderPublish(t) == Holds(t, "captureSubscribersMt") /\ Wants(t, "SinkCapture")

\* Threads get stuck on each other in two ways only: one of them holds
\* statusSync and takes the lock of an Interface or a Stream (interface_fb.cpp:50,
\* :98, stream_fb.cpp:90), or one publishes to a Capture block (publisher.h:60).
\* No other operation can be part of a deadlock unless one of these two is: to
\* take those locks in the other order is enough to have none.
StuckInKnownWays ==
  \A T \in SUBSET Waiting :
    Stuck(T) => \E t \in T : WantsBlockUnderStatusSync(t) \/ WantsCaptureUnderPublish(t)

\* Whenever threads are stuck, two of them are stuck on each other alone.  The
\* lock of a Stream that its worker holds while it waits for an encoder
\* (stream_fb.cpp:233, encoder_bank.cpp:15), and the locks from a Capture down to
\* its Streams, never close a longer circle: to look at pairs of operations is
\* enough to find every deadlock.
StuckInPairs ==
  \A T \in SUBSET Waiting : Stuck(T) => \E t, u \in T : t # u /\ Stuck({t, u})

================================================================================
