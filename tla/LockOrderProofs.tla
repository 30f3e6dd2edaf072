------------------------------ MODULE LockOrderProofs ------------------------------
(***************************************************************************)
(* Proofs about LockOrder: for any threads and Streams, the two places in  *)
(* which a lock is taken against the order are in every deadlock, and every*)
(* deadlock has two threads that wait for each other alone.                *)
(*                                                                         *)
(* The argument is about sequences of steps: MayTake says which lock is    *)
(* taken under which, Leads that a sequence of steps keeps to that and ends*)
(* with the locks it should.  Leads is shown for the pieces the operations *)
(* are put together from, then for the operations; that what a thread has  *)
(* still to do leads from the locks it holds to none is the invariant.     *)
(***************************************************************************)
EXTENDS LockOrder, FiniteSetTheorems, TLAPS

Lock == BlockLock \cup Mutex
LockStep == [do : {"take", "drop"}, lock : Lock]
Stack == Seq(Lock)

\* The locks that are taken while lock is the only one held.
After(lock) ==
  CASE lock = "Capture" -> {"statusSync"}
    [] lock = "Interface" -> {"statusSync"}
    [] lock = "statusSync" -> {"encoderSync"}
    [] lock = "DataSinkFb" ->
         {"stMutex", "SinkCapture", "SinkInterface", "SinkStream", "captureSubscribersMt", "dataSubscribersMt"}
    [] lock = "SinkCapture" -> {"SinkInterface", "SinkStream", "captureSubscribersMt", "dataSubscribersMt"}
    [] lock = "SinkInterface" -> {"SinkStream", "dataSubscribersMt"}
    [] lock = "SinkStream" -> {"dataSubscribersMt"}
    [] lock = "StatusFb" -> {"stMutex"}
    [] lock = "captureSubscribersMt" -> {"SinkCapture"}
    [] lock \in Stream -> {"statusSync", "encoderSync"}
    [] OTHER -> {}

\* The blocks whose operations lock statusSync.
Outer == Stream \cup {"Capture", "Interface"}

\* A thread that holds the locks stack, the last one taken first, may take lock.
MayTake(stack, lock) ==
  \/ stack = <<>>
  \/ Len(stack) = 1 /\ lock \in After(stack[1])
  \/ /\ Len(stack) = 2 /\ stack[1] = "statusSync" /\ stack[2] \in Outer
     /\ lock \in Stream \cup {"Interface"}

Push(lock, stack) == <<lock>> \o stack

\* H[k] are the locks held after k of the steps.
Course(H, steps) ==
  /\ H \in [0..Len(steps) -> Stack]
  /\ \A k \in 1..Len(steps) :
       \E lock \in Lock :
         \/ steps[k] = Take(lock) /\ MayTake(H[k - 1], lock) /\ H[k] = Push(lock, H[k - 1])
         \/ steps[k] = Drop(lock) /\ H[k - 1] = Push(lock, H[k])

\* The steps keep to MayTake and lead from the locks before to the locks after.
Leads(before, steps, after) ==
  /\ steps \in Seq(LockStep)
  /\ \E H : Course(H, steps) /\ H[0] = before /\ H[Len(steps)] = after

--------------------------------------------------------------------------------
(* The pieces of operations.                                                 *)

LEMMA PushFacts ==
  ASSUME NEW lock \in Lock, NEW stack \in Stack
  PROVE  /\ Push(lock, stack) \in Stack /\ Push(lock, stack) # <<>>
         /\ Len(Push(lock, stack)) = Len(stack) + 1
         /\ Push(lock, stack)[1] = lock
         /\ \A k \in 1..Len(stack) : Push(lock, stack)[k + 1] = stack[k]
         /\ Tail(Push(lock, stack)) = stack
BY DEF Push, Stack

LEMMA StepFacts ==
  ASSUME NEW lock \in Lock
  PROVE  /\ Take(lock) \in LockStep /\ Take(lock).do = "take" /\ Take(lock).lock = lock
         /\ Drop(lock) \in LockStep /\ Drop(lock).do = "drop" /\ Drop(lock).lock = lock
BY DEF Take, Drop, LockStep

LEMMA NothingLeads ==
  ASSUME NEW stack \in Stack
  PROVE  Leads(stack, <<>>, stack)
<1> DEFINE H == [k \in 0..0 |-> stack]
<1>1. Course(H, <<>>)
  BY DEF Course
<1>2. H[0] = stack
  OBVIOUS
<1>. QED  BY <1>1, <1>2 DEF Leads

LEMMA TakeLeads ==
  ASSUME NEW stack \in Stack, NEW lock \in Lock, MayTake(stack, lock)
  PROVE  Leads(stack, <<Take(lock)>>, Push(lock, stack))
<1> DEFINE H == [k \in 0..1 |-> IF k = 0 THEN stack ELSE Push(lock, stack)]
<1>1. Course(H, <<Take(lock)>>)
  BY PushFacts DEF Course
<1>2. H[0] = stack /\ H[Len(<<Take(lock)>>)] = Push(lock, stack)
  OBVIOUS
<1>3. <<Take(lock)>> \in Seq(LockStep)
  BY StepFacts
<1>. HIDE DEF H
<1>. QED  BY <1>1, <1>2, <1>3 DEF Leads

LEMMA DropLeads ==
  ASSUME NEW stack \in Stack, NEW lock \in Lock
  PROVE  Leads(Push(lock, stack), <<Drop(lock)>>, stack)
<1> DEFINE H == [k \in 0..1 |-> IF k = 0 THEN Push(lock, stack) ELSE stack]
<1>1. Course(H, <<Drop(lock)>>)
  BY PushFacts DEF Course
<1>2. H[0] = Push(lock, stack) /\ H[Len(<<Drop(lock)>>)] = stack
  OBVIOUS
<1>3. <<Drop(lock)>> \in Seq(LockStep)
  BY StepFacts
<1>. HIDE DEF H
<1>. QED  BY <1>1, <1>2, <1>3 DEF Leads

LEMMA ThenLeads ==
  ASSUME NEW first, NEW second, NEW before, NEW between, NEW after,
         Leads(before, first, between), Leads(between, second, after)
  PROVE  Leads(before, first \o second, after)
<1>1. first \in Seq(LockStep) /\ second \in Seq(LockStep)
  BY DEF Leads
<1>2. PICK F : Course(F, first) /\ F[0] = before /\ F[Len(first)] = between
  BY DEF Leads
<1>3. PICK G : Course(G, second) /\ G[0] = between /\ G[Len(second)] = after
  BY DEF Leads
<1> DEFINE m == Len(first)
           n == Len(second)
           steps == first \o second
           H == [k \in 0..m + n |-> IF k <= m THEN F[k] ELSE G[k - m]]
<1>4. m \in Nat /\ n \in Nat /\ Len(steps) = m + n /\ steps \in Seq(LockStep)
  BY <1>1
<1>5. /\ \A k \in 1..m : steps[k] = first[k]
      /\ \A k \in m + 1 .. m + n : steps[k] = second[k - m]
  BY <1>1
<1>6. /\ \A k \in 0..m : F[k] \in Stack
      /\ \A k \in 0..n : G[k] \in Stack
  BY <1>2, <1>3 DEF Course
<1>7. H \in [0..m + n -> Stack]
  BY <1>4, <1>6
<1>8. ASSUME NEW k \in 1..m + n
      PROVE  \E lock \in Lock :
               \/ steps[k] = Take(lock) /\ MayTake(H[k - 1], lock) /\ H[k] = Push(lock, H[k - 1])
               \/ steps[k] = Drop(lock) /\ H[k - 1] = Push(lock, H[k])
  <2>1. CASE k <= m
    <3>1. k \in 1..m /\ H[k] = F[k] /\ H[k - 1] = F[k - 1] /\ steps[k] = first[k]
      BY <1>4, <1>5, <2>1
    <3>. QED  BY <1>2, <3>1 DEF Course
  <2>2. CASE k > m
    <3>1. k - m \in 1..n /\ H[k] = G[k - m] /\ steps[k] = second[k - m]
      BY <1>4, <1>5, <2>2
    <3>2. H[k - 1] = G[(k - m) - 1]
      <4>1. CASE k = m + 1
        <5>1. H[k - 1] = F[m] /\ (k - m) - 1 = 0
          BY <1>4, <4>1
        <5>. QED  BY <1>2, <1>3, <5>1
      <4>2. CASE k # m + 1
        <5>1. k - 1 \in 0..m + n /\ ~(k - 1 <= m) /\ (k - 1) - m = (k - m) - 1
          BY <1>4, <2>2, <4>2
        <5>. QED  BY <5>1
      <4>. QED  BY <4>1, <4>2
    <3>. DEFINE j == k - m
    <3>3. PICK lock \in Lock :
            \/ second[j] = Take(lock) /\ MayTake(G[j - 1], lock) /\ G[j] = Push(lock, G[j - 1])
            \/ second[j] = Drop(lock) /\ G[j - 1] = Push(lock, G[j])
      BY <1>3, <3>1 DEF Course
    <3>4. steps[k] = second[j] /\ H[k] = G[j] /\ H[k - 1] = G[j - 1]
      BY <3>1, <3>2
    <3>. HIDE DEF H, steps, j
    <3>. QED  BY <3>3, <3>4
  <2>3. k <= m \/ k > m
    BY <1>4
  <2>. HIDE DEF H, steps
  <2>. QED  BY <2>1, <2>2, <2>3
<1>9. H[0] = before /\ H[Len(steps)] = after
  <2>1. H[0] = F[0]
    BY <1>4
  <2>2. CASE n = 0
    BY <1>2, <1>3, <1>4, <2>1, <2>2
  <2>3. CASE n # 0
    BY <1>2, <1>3, <1>4, <2>1, <2>3
  <2>. QED  BY <2>2, <2>3
<1>10. Course(H, steps)
  <2>. HIDE DEF H
  <2>. QED  BY <1>4, <1>7, <1>8 DEF Course
<1>. HIDE DEF H, steps
<1>11. Leads(before, steps, after)
  BY <1>4, <1>9, <1>10 DEF Leads
<1>. QED  BY <1>11 DEF steps

LEMMA WithLeads ==
  ASSUME NEW stack \in Stack, NEW lock \in Lock, NEW body, MayTake(stack, lock),
         Leads(Push(lock, stack), body, Push(lock, stack))
  PROVE  Leads(stack, With(lock, body), stack)
<1>1. Leads(stack, <<Take(lock)>> \o body, Push(lock, stack))
  BY TakeLeads, ThenLeads
<1>2. Leads(stack, (<<Take(lock)>> \o body) \o <<Drop(lock)>>, stack)
  BY <1>1, DropLeads, ThenLeads
<1>. QED  BY <1>2 DEF With

LEMMA UseLeads ==
  ASSUME NEW stack \in Stack, NEW lock \in Lock, MayTake(stack, lock)
  PROVE  Leads(stack, Use(lock), stack)
BY PushFacts, NothingLeads, WithLeads DEF Use

LEMMA SetPayloadTypesLeads ==
  ASSUME NEW order \in Order, NEW stack \in Stack,
         Len(stack) = 2, stack[1] = "statusSync", stack[2] \in Outer
  PROVE  Leads(stack, SetPayloadTypes(order), stack)
<1>1. PICK n \in Nat : order \in [1..n -> Stream]
  BY FS_CardinalityType, StreamAssumption DEF Order
<1>2. Len(order) = n
  BY <1>1
<1> DEFINE s(k) == order[(k + 1) \div 2]
           steps == [k \in 1 .. 2 * n |-> IF k % 2 = 1 THEN Take(s(k)) ELSE Drop(s(k))]
           H == [k \in 0 .. 2 * n |-> IF k % 2 = 1 THEN Push(s(k), stack) ELSE stack]
<1>3. SetPayloadTypes(order) = steps
  BY <1>2 DEF SetPayloadTypes
<1>4. ASSUME NEW k \in 1 .. 2 * n
      PROVE  s(k) \in Stream
  <2>1. (k + 1) \div 2 \in 1..n
    BY <1>1
  <2>. QED  BY <1>1, <2>1
<1>5. \A k \in 1 .. 2 * n : s(k) \in Lock /\ Push(s(k), stack) \in Stack
  BY <1>4, PushFacts DEF Lock, BlockLock
<1>6. steps \in Seq(LockStep) /\ Len(steps) = 2 * n
  <2>1. steps \in [1 .. 2 * n -> LockStep]
    BY <1>5, StepFacts
  <2>. QED  BY <1>1, <2>1
<1>7. H \in [0 .. 2 * n -> Stack]
  BY <1>1, <1>5
<1>8. ASSUME NEW k \in 1 .. 2 * n
      PROVE  \E lock \in Lock :
               \/ steps[k] = Take(lock) /\ MayTake(H[k - 1], lock) /\ H[k] = Push(lock, H[k - 1])
               \/ steps[k] = Drop(lock) /\ H[k - 1] = Push(lock, H[k])
  <2>1. CASE k % 2 = 1
    <3>1. (k - 1) % 2 # 1 /\ k - 1 \in 0 .. 2 * n
      BY <1>1, <2>1
    <3>2. steps[k] = Take(s(k)) /\ H[k - 1] = stack /\ H[k] = Push(s(k), stack)
      BY <1>1, <2>1, <3>1
    <3>3. MayTake(stack, s(k))
      BY <1>4 DEF MayTake
    <3>. HIDE DEF H, steps, s
    <3>. QED  BY <1>5, <3>2, <3>3
  <2>2. CASE k % 2 # 1
    <3>1. (k - 1) % 2 = 1 /\ k - 1 \in 0 .. 2 * n /\ ((k - 1) + 1) \div 2 = (k + 1) \div 2
      BY <1>1, <2>2
    <3>2. steps[k] = Drop(s(k)) /\ H[k - 1] = Push(s(k), stack) /\ H[k] = stack
      BY <1>1, <2>2, <3>1
    <3>. HIDE DEF H, steps, s
    <3>. QED  BY <1>5, <3>2
  <2>. HIDE DEF H, steps, s
  <2>. QED  BY <2>1, <2>2
<1>9. H[0] = stack /\ H[Len(steps)] = stack
  BY <1>1, <1>6
<1>10. Course(H, steps)
  <2>. HIDE DEF H, steps, s
  <2>. QED  BY <1>6, <1>7, <1>8 DEF Course
<1>. HIDE DEF H, steps, s
<1>. QED  BY <1>3, <1>6, <1>9, <1>10 DEF Leads

LEMMA Locks ==
  /\ BlockLock \subseteq Lock /\ Mutex \subseteq Lock /\ Stream \subseteq Lock
  /\ \A name \in OtherBlockLock \cup Mutex : name \in Lock /\ name \notin Stream
  /\ \A s \in Stream : s \in Lock /\ s \notin OtherBlockLock /\ s \notin Mutex
BY StreamAssumption DEF Lock, BlockLock

LEMMA AfterName ==
  /\ After("Capture") = {"statusSync"} /\ After("Interface") = {"statusSync"}
  /\ After("statusSync") = {"encoderSync"} /\ After("encoderSync") = {}
  /\ After("DataSinkFb") =
       {"stMutex", "SinkCapture", "SinkInterface", "SinkStream", "captureSubscribersMt", "dataSubscribersMt"}
  /\ After("SinkCapture") = {"SinkInterface", "SinkStream", "captureSubscribersMt", "dataSubscribersMt"}
  /\ After("SinkInterface") = {"SinkStream", "dataSubscribersMt"}
  /\ After("SinkStream") = {"dataSubscribersMt"} /\ After("dataSubscribersMt") = {}
  /\ After("StatusFb") = {"stMutex"} /\ After("stMutex") = {}
  /\ After("captureSubscribersMt") = {"SinkCapture"}
BY Locks DEF After, OtherBlockLock, Mutex

LEMMA AfterStream ==
  ASSUME NEW s \in Stream
  PROVE  After(s) = {"statusSync", "encoderSync"}
BY Locks DEF After, OtherBlockLock, Mutex

LEMMA OneHeld ==
  ASSUME NEW lock \in Lock
  PROVE  /\ Push(lock, <<>>) \in Stack
         /\ Len(Push(lock, <<>>)) = 1 /\ Push(lock, <<>>)[1] = lock
         /\ \A next \in After(lock) : MayTake(Push(lock, <<>>), next)
<1> DEFINE none == <<>>
<1>1. none \in Stack /\ Len(none) = 0
  BY DEF Stack
<1>. HIDE DEF none
<1>2. Push(lock, none) \in Stack /\ Len(Push(lock, none)) = 1 /\ Push(lock, none)[1] = lock
  <2>1. Push(lock, none) \in Stack /\ Len(Push(lock, none)) = Len(none) + 1
    BY <1>1, PushFacts
  <2>2. Push(lock, none)[1] = lock
    BY <1>1, PushFacts
  <2>. QED  BY <1>1, <2>1, <2>2
<1>3. \A next \in After(lock) : MayTake(Push(lock, none), next)
  BY <1>2 DEF MayTake
<1>. QED  BY <1>2, <1>3 DEF none

\* An operation that takes lock first of all.
LEMMA FirstLeads ==
  ASSUME NEW lock \in Lock, NEW body, Leads(Push(lock, <<>>), body, Push(lock, <<>>))
  PROVE  Leads(<<>>, With(lock, body), <<>>)
<1> DEFINE none == <<>>
<1>1. none \in Stack /\ MayTake(none, lock)
  BY DEF MayTake, Stack
<1>2. Leads(Push(lock, none), body, Push(lock, none))
  OBVIOUS
<1>. HIDE DEF none
<1>3. Leads(none, With(lock, body), none)
  BY <1>1, <1>2, WithLeads
<1>. QED  BY <1>3 DEF none

LEMMA UnderLeads ==
  ASSUME NEW lock \in Lock, NEW next \in After(lock), next \in Lock
  PROVE  Leads(Push(lock, <<>>), Use(next), Push(lock, <<>>))
BY OneHeld, UseLeads

\* A block is locked under statusSync.
Under(lock) == Push("statusSync", Push(lock, <<>>))

LEMMA UnderFacts ==
  ASSUME NEW lock \in Outer
  PROVE  /\ Under(lock) \in Stack /\ Len(Under(lock)) = 2
         /\ Under(lock)[1] = "statusSync" /\ Under(lock)[2] = lock
         /\ \A block \in Stream \cup {"Interface"} : Leads(Under(lock), Use(block), Under(lock))
<1>1. "statusSync" \in Lock /\ lock \in Lock
  BY Locks DEF Mutex, OtherBlockLock, Outer
<1> DEFINE one == Push(lock, <<>>)
<1>2. one \in Stack /\ Len(one) = 1 /\ one[1] = lock /\ Under(lock) = Push("statusSync", one)
  BY <1>1, OneHeld DEF Under
<1>. HIDE DEF one
<1>3. /\ Under(lock) \in Stack /\ Len(Under(lock)) = 2
      /\ Under(lock)[1] = "statusSync" /\ Under(lock)[2] = lock
  <2>1. Push("statusSync", one) \in Stack /\ Len(Push("statusSync", one)) = Len(one) + 1
    BY <1>1, <1>2, PushFacts
  <2>2. Push("statusSync", one)[1] = "statusSync"
    BY <1>1, <1>2, PushFacts
  <2>3. Push("statusSync", one)[2] = lock
    <3>1. 1 \in 1..Len(one) /\ 1 + 1 = 2
      BY <1>2
    <3>2. Push("statusSync", one)[1 + 1] = one[1]
      BY <1>1, <1>2, <3>1, PushFacts
    <3>. QED  BY <1>2, <3>1, <3>2
  <2>. QED  BY <1>2, <2>1, <2>2, <2>3
<1>4. ASSUME NEW block \in Stream \cup {"Interface"}
      PROVE  Leads(Under(lock), Use(block), Under(lock))
  <2>1. block \in Lock
    BY Locks DEF OtherBlockLock
  <2>2. MayTake(Under(lock), block)
    BY <1>3 DEF MayTake
  <2>. QED  BY <1>3, <2>1, <2>2, UseLeads
<1>. QED  BY <1>3, <1>4

LEMMA StatusSyncLeads ==
  ASSUME NEW lock \in Outer, "statusSync" \in After(lock), NEW body, Leads(Under(lock), body, Under(lock))
  PROVE  Leads(<<>>, With(lock, With("statusSync", body)), <<>>)
<1>1. "statusSync" \in Lock /\ lock \in Lock
  BY Locks DEF Mutex, OtherBlockLock, Outer
<1>2. Leads(Push(lock, <<>>), With("statusSync", body), Push(lock, <<>>))
  BY <1>1, OneHeld, WithLeads DEF Under
<1>. QED  BY <1>1, <1>2, FirstLeads

--------------------------------------------------------------------------------
(* The operations.                                                           *)

LEMMA CaptureModuleLeads ==
  \A steps \in CaptureModuleOperations : Leads(<<>>, steps, <<>>)
<1>1. "Capture" \in Lock /\ "Capture" \in Outer /\ "statusSync" \in After("Capture")
  BY Locks, AfterName DEF OtherBlockLock, Outer
<1>2. "Interface" \in Outer /\ "statusSync" \in After("Interface")
  BY AfterName DEF Outer
<1>3. \A s \in Stream : s \in Outer /\ "statusSync" \in After(s)
  BY AfterStream DEF Outer
<1>4. /\ \A lock \in Outer : Leads(Under(lock), UpdateInterfaceData, Under(lock))
      /\ \A lock \in Outer : \A s \in Stream : Leads(Under(lock), ReadProperty(s), Under(lock))
  BY UnderFacts DEF UpdateInterfaceData, ReadProperty
<1>5. Leads(<<>>, AddInterface, <<>>) /\ Leads(<<>>, WriteDeviceProperties, <<>>)
  <2>1. "statusSync" \in Lock
    BY Locks DEF Mutex
  <2>2. Leads(Push("Capture", <<>>), Use("statusSync"), Push("Capture", <<>>))
    BY <1>1, <2>1, UnderLeads
  <2>3. Leads(<<>>, With("Capture", Use("statusSync")), <<>>)
    BY <1>1, <2>2, FirstLeads
  <2>. QED  BY <2>3 DEF AddInterface, WriteDeviceProperties, UpdateCaptureData
<1>6. Leads(<<>>, RemoveInterface, <<>>)
  <2>1. Leads(Under("Capture"), ReadProperty("Interface"), Under("Capture"))
    BY <1>1, <1>4 DEF UpdateInterfaceData
  <2>. QED  BY <1>1, <2>1, StatusSyncLeads DEF RemoveInterface
<1>7. Leads(<<>>, AddStream, <<>>) /\ Leads(<<>>, UpdateInterfaceId, <<>>)
  BY <1>2, <1>4, StatusSyncLeads DEF AddStream, UpdateInterfaceId
<1>8. ASSUME NEW order \in Order
      PROVE  Leads(<<>>, UpdatePayloadType(order), <<>>)
  <2>1. Leads(Under("Interface"), SetPayloadTypes(order), Under("Interface"))
    BY <1>2, UnderFacts, SetPayloadTypesLeads
  <2>2. Leads(Under("Interface"), SetPayloadTypes(order) \o UpdateInterfaceData, Under("Interface"))
    BY <1>2, <1>4, <2>1, ThenLeads
  <2>. QED  BY <1>2, <2>2, StatusSyncLeads DEF UpdatePayloadType
<1>9. ASSUME NEW s \in Stream
      PROVE  /\ Leads(<<>>, RemoveStream(s), <<>>)
             /\ Leads(<<>>, UpdateStreamId(s), <<>>)
             /\ Leads(<<>>, RefuseStreamId(s), <<>>)
  <2>1. Leads(Under("Interface"), ReadProperty(s) \o UpdateInterfaceData, Under("Interface"))
    BY <1>2, <1>4, ThenLeads
  <2>2. Leads(<<>>, RemoveStream(s), <<>>)
    BY <1>2, <2>1, StatusSyncLeads DEF RemoveStream
  <2>3. Leads(<<>>, UpdateStreamId(s), <<>>)
    BY <1>3, <1>4, StatusSyncLeads DEF UpdateStreamId
  <2>4. Leads(<<>>, RefuseStreamId(s), <<>>)
    BY <1>3, <1>4, StatusSyncLeads DEF RefuseStreamId
  <2>. QED  BY <2>2, <2>3, <2>4
<1>. QED  BY <1>5, <1>6, <1>7, <1>8, <1>9 DEF CaptureModuleOperations

LEMMA OnPacketReceivedLeads ==
  ASSUME NEW s \in Stream
  PROVE  Leads(<<>>, OnPacketReceived(s), <<>>)
<1>1. s \in Lock /\ "encoderSync" \in Lock /\ "encoderSync" \in After(s)
  BY Locks, AfterStream DEF Mutex
<1>2. Leads(Push(s, <<>>), Use("encoderSync"), Push(s, <<>>))
  BY <1>1, UnderLeads
<1>. QED  BY <1>1, <1>2, FirstLeads DEF OnPacketReceived

LEMMA StatusLoopLeads == Leads(<<>>, StatusLoop, <<>>)
<1>1. "statusSync" \in Lock /\ "encoderSync" \in Lock /\ "encoderSync" \in After("statusSync")
  BY Locks, AfterName DEF Mutex
<1>2. Leads(Push("statusSync", <<>>), Use("encoderSync"), Push("statusSync", <<>>))
  BY <1>1, UnderLeads
<1>. QED  BY <1>1, <1>2, FirstLeads DEF StatusLoop

LEMMA DataSinkLeads ==
  \A steps \in DataSinkOperations : Leads(<<>>, steps, <<>>)
<1>1. ASSUME NEW lock \in OtherBlockLock \cup Mutex,
             NEW next \in OtherBlockLock \cup Mutex, next \in After(lock)
      PROVE  Leads(Push(lock, <<>>), Use(next), Push(lock, <<>>))
  BY <1>1, Locks, UnderLeads
<1> DEFINE Fits(lock, steps) == Leads(Push(lock, <<>>), steps, Push(lock, <<>>))
<1>2. ASSUME NEW lock, NEW first, NEW second, Fits(lock, first), Fits(lock, second)
      PROVE  Fits(lock, first \o second)
  BY <1>2, ThenLeads
<1>3. ASSUME NEW lock \in OtherBlockLock \cup Mutex, NEW body, Fits(lock, body)
      PROVE  Leads(<<>>, With(lock, body), <<>>)
  BY <1>3, Locks, FirstLeads
<1>4. /\ Fits("SinkCapture", Use("captureSubscribersMt"))
      /\ Fits("SinkCapture", ReadProperty("SinkInterface"))
      /\ Fits("SinkCapture", ReadProperty("SinkStream"))
      /\ Fits("SinkCapture", Use("dataSubscribersMt"))
  BY <1>1, AfterName DEF OtherBlockLock, Mutex, ReadProperty
<1>5. /\ Fits("SinkInterface", ReadProperty("SinkStream"))
      /\ Fits("SinkInterface", Use("dataSubscribersMt"))
  BY <1>1, AfterName DEF OtherBlockLock, Mutex, ReadProperty
<1>6. /\ Fits("SinkStream", Use("dataSubscribersMt"))
      /\ Fits("StatusFb", Use("stMutex"))
  BY <1>1, AfterName DEF OtherBlockLock, Mutex
<1>7. /\ Fits("DataSinkFb", Use("stMutex"))
      /\ Fits("DataSinkFb", Use("captureSubscribersMt"))
      /\ Fits("DataSinkFb", Use("dataSubscribersMt"))
      /\ Fits("DataSinkFb", ReadProperty("SinkCapture"))
      /\ Fits("DataSinkFb", ReadProperty("SinkInterface"))
      /\ Fits("DataSinkFb", ReadProperty("SinkStream"))
  BY <1>1, AfterName DEF OtherBlockLock, Mutex, ReadProperty
<1>8. /\ "SinkCapture" \in OtherBlockLock \cup Mutex
      /\ "SinkInterface" \in OtherBlockLock \cup Mutex
      /\ "SinkStream" \in OtherBlockLock \cup Mutex
      /\ "DataSinkFb" \in OtherBlockLock \cup Mutex
      /\ "StatusFb" \in OtherBlockLock \cup Mutex
  BY DEF OtherBlockLock
<1>. HIDE DEF Fits
<1>9. Leads(<<>>, UpdateDeviceId, <<>>)
  BY <1>2, <1>3, <1>4, <1>8 DEF UpdateDeviceId
<1>10. Leads(<<>>, RemoveSinkInterface, <<>>)
  BY <1>2, <1>3, <1>4, <1>8 DEF RemoveSinkInterface
<1>11. /\ Leads(<<>>, UpdateSinkInterfaceId, <<>>) /\ Leads(<<>>, RemoveSinkStream, <<>>)
       /\ Leads(<<>>, AddSinkStream, <<>>)
  BY <1>2, <1>3, <1>5, <1>8 DEF UpdateSinkInterfaceId, RemoveSinkStream, AddSinkStream
<1>12. Leads(<<>>, UpdateSinkStreamId, <<>>) /\ Leads(<<>>, Clear, <<>>)
  BY <1>3, <1>6, <1>8 DEF UpdateSinkStreamId, Clear
<1>13. Leads(<<>>, AddCaptureModuleFromStatus, <<>>) /\ Leads(<<>>, AddCaptureModuleEmpty, <<>>)
  BY <1>2, <1>3, <1>7, <1>8 DEF AddCaptureModuleFromStatus, AddCaptureModuleEmpty
<1>14. Leads(<<>>, RemoveCaptureModule, <<>>)
  BY <1>2, <1>3, <1>7, <1>8 DEF RemoveCaptureModule
<1>. QED  BY <1>9, <1>10, <1>11, <1>12, <1>13, <1>14 DEF DataSinkOperations

LEMMA CaptureThreadLeads ==
  Leads(<<>>, ProcessStatusPacket \o PublishStatus, <<>>) /\ Leads(<<>>, PublishData, <<>>)
<1>1. /\ "StatusFb" \in Lock /\ "stMutex" \in Lock /\ "captureSubscribersMt" \in Lock
      /\ "SinkCapture" \in Lock /\ "dataSubscribersMt" \in Lock
  BY Locks DEF OtherBlockLock, Mutex
<1>2. Leads(<<>>, ProcessStatusPacket, <<>>)
  <2>1. Leads(Push("StatusFb", <<>>), Use("stMutex"), Push("StatusFb", <<>>))
    BY <1>1, AfterName, UnderLeads
  <2>. QED  BY <1>1, <2>1, FirstLeads DEF ProcessStatusPacket
<1>3. Leads(<<>>, PublishStatus, <<>>)
  <2>1. Leads(Push("captureSubscribersMt", <<>>), Use("SinkCapture"), Push("captureSubscribersMt", <<>>))
    BY <1>1, AfterName, UnderLeads
  <2>. QED  BY <1>1, <2>1, FirstLeads DEF PublishStatus
<1>4. Leads(<<>>, PublishData, <<>>)
  <2>1. MayTake(<<>>, "dataSubscribersMt") /\ <<>> \in Stack
    BY DEF MayTake, Stack
  <2>. QED  BY <1>1, <2>1, UseLeads DEF PublishData
<1>. QED  BY <1>2, <1>3, <1>4, ThenLeads

LEMMA OperationsLead ==
  ASSUME NEW t \in Thread
  PROVE  \A steps \in Operations(t) : Leads(<<>>, steps, <<>>)
BY CaptureModuleLeads, DataSinkLeads, OnPacketReceivedLeads, StatusLoopLeads, CaptureThreadLeads DEF Operations

\* What is left after one step leads on from the locks held then.
LEMMA RestLeads ==
  ASSUME NEW stack \in Stack, NEW steps, NEW after, Leads(stack, steps, after), steps # <<>>
  PROVE  \E lock \in Lock, next \in Stack :
           /\ \/ Head(steps) = Take(lock) /\ MayTake(stack, lock) /\ next = Push(lock, stack)
              \/ Head(steps) = Drop(lock) /\ stack = Push(lock, next)
           /\ Leads(next, Tail(steps), after)
<1>1. steps \in Seq(LockStep)
  BY DEF Leads
<1>2. PICK H : Course(H, steps) /\ H[0] = stack /\ H[Len(steps)] = after
  BY DEF Leads
<1> DEFINE n == Len(steps)
           rest == Tail(steps)
           G == [k \in 0 .. n - 1 |-> H[k + 1]]
<1>3. /\ n \in Nat \ {0} /\ rest \in Seq(LockStep) /\ Len(rest) = n - 1 /\ Head(steps) = steps[1]
      /\ \A k \in 1 .. n - 1 : rest[k] = steps[k + 1]
  BY <1>1
<1>4. PICK lock \in Lock :
        \/ Head(steps) = Take(lock) /\ MayTake(stack, lock) /\ H[1] = Push(lock, stack)
        \/ Head(steps) = Drop(lock) /\ stack = Push(lock, H[1])
  <2>1. 1 \in 1..n /\ 1 - 1 = 0
    BY <1>3
  <2>. QED  BY <1>2, <1>3, <2>1 DEF Course
<1>5. G \in [0 .. n - 1 -> Stack] /\ H[1] \in Stack
  BY <1>2, <1>3 DEF Course
<1>6. ASSUME NEW k \in 1 .. n - 1
      PROVE  \E l \in Lock :
               \/ rest[k] = Take(l) /\ MayTake(G[k - 1], l) /\ G[k] = Push(l, G[k - 1])
               \/ rest[k] = Drop(l) /\ G[k - 1] = Push(l, G[k])
  <2>1. k + 1 \in 1..n /\ (k + 1) - 1 = (k - 1) + 1 /\ k - 1 \in 0 .. n - 1 /\ k \in 0 .. n - 1
    BY <1>3
  <2>2. rest[k] = steps[k + 1] /\ G[k] = H[k + 1] /\ G[k - 1] = H[(k + 1) - 1]
    BY <1>3, <2>1
  <2> DEFINE j == k + 1
  <2>3. PICK l \in Lock :
          \/ steps[j] = Take(l) /\ MayTake(H[j - 1], l) /\ H[j] = Push(l, H[j - 1])
          \/ steps[j] = Drop(l) /\ H[j - 1] = Push(l, H[j])
    BY <1>2, <2>1 DEF Course
  <2>. HIDE DEF G, rest
  <2>. QED  BY <2>2, <2>3
<1>7. G[0] = H[1] /\ G[Len(rest)] = after
  BY <1>2, <1>3
<1>8. Leads(H[1], rest, after)
  <2>. HIDE DEF G, rest
  <2>. QED  BY <1>3, <1>5, <1>6, <1>7 DEF Leads, Course
<1>. HIDE DEF rest
<1>9. Leads(H[1], Tail(steps), after)
  BY <1>8 DEF rest
<1>. QED  BY <1>4, <1>5, <1>9

--------------------------------------------------------------------------------
(* The invariant.                                                            *)

TodoLeads ==
  /\ held \in [Thread -> Stack]
  /\ todo \in [Thread -> Seq(LockStep)]
  /\ \A t \in Thread : Leads(held[t], todo[t], <<>>)

\* No two threads hold one lock.
HeldByOne ==
  \A lock \in Lock : \A t, u \in Thread : Holds(t, lock) /\ Holds(u, lock) => t = u

Inv == TodoLeads /\ HeldByOne

LEMMA PushHolds ==
  ASSUME NEW stack \in Stack, NEW lock \in Lock, NEW k \in DOMAIN Push(lock, stack)
  PROVE  Push(lock, stack)[k] = lock \/ \E j \in DOMAIN stack : Push(lock, stack)[k] = stack[j]
<1>1. Len(stack) \in Nat /\ DOMAIN stack = 1..Len(stack)
  BY DEF Stack
<1>2. k \in 1 .. Len(stack) + 1
  <2>1. Push(lock, stack) \in Stack /\ Len(Push(lock, stack)) = Len(stack) + 1
    BY PushFacts
  <2>2. DOMAIN Push(lock, stack) = 1..Len(Push(lock, stack))
    BY <2>1 DEF Stack
  <2>. QED  BY <2>1, <2>2
<1>3. CASE k = 1
  BY <1>3, PushFacts
<1>4. CASE k # 1
  <2>1. k - 1 \in 1..Len(stack) /\ (k - 1) + 1 = k
    BY <1>1, <1>2, <1>4
  <2>2. Push(lock, stack)[(k - 1) + 1] = stack[k - 1]
    BY <2>1, PushFacts
  <2>. QED  BY <1>1, <2>1, <2>2
<1>. QED  BY <1>3, <1>4

\* A thread that drops a lock holds nothing more than before.
LEMMA BelowHolds ==
  ASSUME NEW stack \in Stack, NEW lock \in Lock, NEW j \in DOMAIN stack
  PROVE  \E k \in DOMAIN Push(lock, stack) : Push(lock, stack)[k] = stack[j]
<1>1. Len(stack) \in Nat /\ DOMAIN stack = 1..Len(stack)
  BY DEF Stack
<1>2. Len(Push(lock, stack)) = Len(stack) + 1 /\ DOMAIN Push(lock, stack) = 1..Len(Push(lock, stack))
  <2>1. Push(lock, stack) \in Stack /\ Len(Push(lock, stack)) = Len(stack) + 1
    BY PushFacts
  <2>2. DOMAIN Push(lock, stack) = 1..Len(Push(lock, stack))
    BY <2>1 DEF Stack
  <2>. QED  BY <2>1, <2>2
<1>3. j + 1 \in DOMAIN Push(lock, stack) /\ Push(lock, stack)[j + 1] = stack[j]
  <2>1. j \in 1..Len(stack) /\ j + 1 \in 1 .. Len(stack) + 1
    BY <1>1
  <2>2. Push(lock, stack)[j + 1] = stack[j]
    BY <2>1, PushFacts
  <2>. QED  BY <1>2, <2>1, <2>2
<1>. QED  BY <1>3

LEMMA InitInv == Init => Inv
<1>1. SUFFICES ASSUME Init
               PROVE  Inv
  OBVIOUS
<1> DEFINE none == <<>>
<1>2. none \in Stack /\ none \in Seq(LockStep) /\ DOMAIN none = {} /\ Leads(none, none, none)
  <2>1. <<>> \in Stack
    BY DEF Stack
  <2>. QED  BY <2>1, NothingLeads
<1>3. held = [t \in Thread |-> none] /\ todo = [t \in Thread |-> none]
  BY <1>1 DEF Init
<1>. HIDE DEF none
<1>4. \A t \in Thread : Leads(held[t], todo[t], none)
  BY <1>2, <1>3
<1>5. TodoLeads
  BY <1>2, <1>3, <1>4 DEF TodoLeads, none
<1>6. HeldByOne
  BY <1>2, <1>3 DEF HeldByOne, Holds
<1>. QED  BY <1>5, <1>6 DEF Inv

LEMMA BeginInv ==
  ASSUME Inv, NEW t \in Thread, Begin(t)
  PROVE  Inv'
<1>1. PICK steps \in Operations(t) : todo' = [todo EXCEPT ![t] = steps]
  BY DEF Begin
<1>2. Leads(<<>>, steps, <<>>) /\ steps \in Seq(LockStep)
  BY OperationsLead DEF Leads
<1>3. held' = held /\ todo[t] = <<>>
  BY DEF Begin
<1>4. held[t] = <<>>
  <2>1. Leads(held[t], <<>>, <<>>)
    BY <1>3 DEF Inv, TodoLeads
  <2> DEFINE none == <<>>
  <2>2. Len(none) = 0
    OBVIOUS
  <2>. HIDE DEF none
  <2>3. Leads(held[t], none, none)
    BY <2>1 DEF none
  <2>4. held[t] = none
    BY <2>2, <2>3 DEF Leads
  <2>. QED  BY <2>4 DEF none
<1>5. \A u \in Thread : Leads(held'[u], todo'[u], <<>>)
  BY <1>1, <1>2, <1>3, <1>4 DEF Inv, TodoLeads
<1>6. TodoLeads'
  BY <1>1, <1>2, <1>3, <1>5 DEF Inv, TodoLeads
<1>7. HeldByOne'
  BY <1>3 DEF Inv, HeldByOne, Holds
<1>. QED  BY <1>6, <1>7 DEF Inv

LEMMA AcquireInv ==
  ASSUME Inv, NEW t \in Thread, Acquire(t)
  PROVE  Inv'
<1>1. held[t] \in Stack /\ Leads(held[t], todo[t], <<>>) /\ todo[t] # <<>> /\ todo[t] \in Seq(LockStep)
  BY DEF Inv, TodoLeads, Acquire
<1>2. PICK lock \in Lock, next \in Stack :
        /\ \/ Head(todo[t]) = Take(lock) /\ MayTake(held[t], lock) /\ next = Push(lock, held[t])
           \/ Head(todo[t]) = Drop(lock) /\ held[t] = Push(lock, next)
        /\ Leads(next, Tail(todo[t]), <<>>)
  BY <1>1, RestLeads
<1>3. Head(todo[t]) = Take(lock) /\ next = Push(lock, held[t]) /\ NextStep(t).lock = lock
  BY <1>2, StepFacts DEF Acquire, NextStep
<1>4. /\ held' = [held EXCEPT ![t] = next] /\ todo' = [todo EXCEPT ![t] = Tail(todo[t])]
      /\ Free(t, lock)
  BY <1>3 DEF Acquire, Push
<1>5. TodoLeads'
  <2>1. Tail(todo[t]) \in Seq(LockStep)
    BY <1>1
  <2>2. held' \in [Thread -> Stack] /\ todo' \in [Thread -> Seq(LockStep)]
    BY <1>4, <2>1 DEF Inv, TodoLeads
  <2>3. \A u \in Thread : Leads(held'[u], todo'[u], <<>>)
    BY <1>2, <1>4 DEF Inv, TodoLeads
  <2>. QED  BY <2>2, <2>3 DEF TodoLeads
<1>6. ASSUME NEW l \in Lock, NEW u \in Thread, NEW k \in DOMAIN held'[u], held'[u][k] = l
      PROVE  Holds(u, l) \/ (u = t /\ l = lock)
  <2>1. CASE u = t
    <3>1. held'[u] = Push(lock, held[t])
      BY <1>3, <1>4, <2>1 DEF Inv, TodoLeads
    <3>2. l = lock \/ \E j \in DOMAIN held[t] : l = held[t][j]
      BY <1>1, <1>6, <3>1, PushHolds
    <3>. QED  BY <2>1, <3>2 DEF Holds
  <2>2. CASE u # t
    BY <1>4, <1>6, <2>2 DEF Holds, Inv, TodoLeads
  <2>. QED  BY <2>1, <2>2
<1>7. HeldByOne'
  <2>1. SUFFICES ASSUME NEW l \in Lock, NEW u \in Thread, NEW v \in Thread, Holds(u, l)', Holds(v, l)'
                 PROVE  u = v
    BY DEF HeldByOne
  <2>2. Holds(u, l) \/ (u = t /\ l = lock)
    BY <1>6, <2>1 DEF Holds
  <2>3. Holds(v, l) \/ (v = t /\ l = lock)
    BY <1>6, <2>1 DEF Holds
  <2>4. \A w \in Thread : Holds(w, lock) => w = t
    BY <1>4 DEF Free
  <2>. QED  BY <2>2, <2>3, <2>4 DEF Inv, HeldByOne
<1>. QED  BY <1>5, <1>7 DEF Inv

LEMMA ReleaseInv ==
  ASSUME Inv, NEW t \in Thread, Release(t)
  PROVE  Inv'
<1>1. held[t] \in Stack /\ Leads(held[t], todo[t], <<>>) /\ todo[t] # <<>> /\ todo[t] \in Seq(LockStep)
  BY DEF Inv, TodoLeads, Release
<1>2. PICK lock \in Lock, next \in Stack :
        /\ \/ Head(todo[t]) = Take(lock) /\ MayTake(held[t], lock) /\ next = Push(lock, held[t])
           \/ Head(todo[t]) = Drop(lock) /\ held[t] = Push(lock, next)
        /\ Leads(next, Tail(todo[t]), <<>>)
  BY <1>1, RestLeads
<1>3. held[t] = Push(lock, next)
  BY <1>2, StepFacts DEF Release, NextStep
<1>4. Tail(held[t]) = next
  BY <1>3, PushFacts
<1>5. held' = [held EXCEPT ![t] = next] /\ todo' = [todo EXCEPT ![t] = Tail(todo[t])]
  BY <1>4 DEF Release
<1>6. TodoLeads'
  <2>1. Tail(todo[t]) \in Seq(LockStep)
    BY <1>1
  <2>2. held' \in [Thread -> Stack] /\ todo' \in [Thread -> Seq(LockStep)]
    BY <1>5, <2>1 DEF Inv, TodoLeads
  <2>3. \A u \in Thread : Leads(held'[u], todo'[u], <<>>)
    BY <1>2, <1>5 DEF Inv, TodoLeads
  <2>. QED  BY <2>2, <2>3 DEF TodoLeads
<1>7. ASSUME NEW l \in Lock, NEW u \in Thread, NEW k \in DOMAIN held'[u], held'[u][k] = l
      PROVE  Holds(u, l)
  <2>1. CASE u = t
    <3>1. held'[u] = next
      BY <1>5, <2>1 DEF Inv, TodoLeads
    <3>2. \E j \in DOMAIN held[t] : held[t][j] = l
      BY <1>3, <1>7, <3>1, BelowHolds
    <3>. QED  BY <2>1, <3>2 DEF Holds
  <2>2. CASE u # t
    BY <1>5, <1>7, <2>2 DEF Holds, Inv, TodoLeads
  <2>. QED  BY <2>1, <2>2
<1>8. HeldByOne'
  <2>1. SUFFICES ASSUME NEW l \in Lock, NEW u \in Thread, NEW v \in Thread, Holds(u, l)', Holds(v, l)'
                 PROVE  u = v
    BY DEF HeldByOne
  <2>2. Holds(u, l) /\ Holds(v, l)
    BY <1>7, <2>1 DEF Holds
  <2>. QED  BY <2>2 DEF Inv, HeldByOne
<1>. QED  BY <1>6, <1>8 DEF Inv

\* Whatever a thread has still to do keeps to the order of the locks, and no lock
\* has two owners.
THEOREM Disciplined == Spec => []Inv
<1>1. Inv /\ [Next]_vars => Inv'
  <2>1. SUFFICES ASSUME Inv, [Next]_vars
                 PROVE  Inv'
    OBVIOUS
  <2>2. CASE Next
    BY <2>1, <2>2, BeginInv, AcquireInv, ReleaseInv DEF Next, Step
  <2>3. CASE UNCHANGED vars
    BY <2>1, <2>3 DEF vars, Inv, TodoLeads, HeldByOne, Holds
  <2>. QED  BY <2>1, <2>2, <2>3
<1>. QED  BY InitInv, <1>1, PTL DEF Spec

--------------------------------------------------------------------------------
(* Threads that are stuck.                                                   *)

LEMMA WantsOne ==
  ASSUME NEW t, NEW a, NEW b, Wants(t, a), Wants(t, b)
  PROVE  a = b
BY DEF Wants, Take

LEMMA WaitFacts ==
  ASSUME Inv, NEW t \in Thread, NEW u \in Thread, WaitsFor(t, u)
  PROVE  \E lock \in Lock :
           /\ Wants(t, lock) /\ MayTake(held[t], lock) /\ Holds(u, lock)
           /\ ~Free(t, lock)
<1>1. held[t] \in Stack /\ Leads(held[t], todo[t], <<>>) /\ todo[t] # <<>>
  BY DEF Inv, TodoLeads, WaitsFor
<1>2. PICK lock \in Lock, next \in Stack :
        \/ Head(todo[t]) = Take(lock) /\ MayTake(held[t], lock) /\ next = Push(lock, held[t])
        \/ Head(todo[t]) = Drop(lock) /\ held[t] = Push(lock, next)
  BY <1>1, RestLeads
<1>3. Head(todo[t]) = Take(lock) /\ MayTake(held[t], lock) /\ NextStep(t).lock = lock
  BY <1>2, StepFacts DEF WaitsFor, NextStep
<1>. QED  BY <1>1, <1>3 DEF WaitsFor, Wants, NextStep

\* What a thread wants, seen from a lock that it holds.
LEMMA WantedUnder ==
  ASSUME Inv, NEW t \in Thread, NEW next, NEW lock,
         Wants(t, next), MayTake(held[t], next), Holds(t, lock)
  PROVE  \/ next \in After(lock)
         \/ WantsBlockUnderStatusSync(t) /\ lock \in Outer \cup {"statusSync"}
<1>1. held[t] \in Stack /\ DOMAIN held[t] = 1..Len(held[t]) /\ Len(held[t]) \in Nat
  BY DEF Inv, TodoLeads, Stack
<1>2. PICK k \in 1..Len(held[t]) : held[t][k] = lock
  BY <1>1 DEF Holds
<1>3. CASE Len(held[t]) = 1 /\ next \in After(held[t][1])
  BY <1>2, <1>3
<1>4. CASE /\ Len(held[t]) = 2 /\ held[t][1] = "statusSync" /\ held[t][2] \in Outer
           /\ next \in Stream \cup {"Interface"}
  <2>1. k = 1 \/ k = 2
    BY <1>2, <1>4
  <2>2. lock \in Outer \cup {"statusSync"}
    BY <1>2, <1>4, <2>1
  <2>3. 1 \in DOMAIN held[t]
    BY <1>1, <1>4
  <2>. QED  BY <1>4, <2>2, <2>3 DEF WantsBlockUnderStatusSync, Holds
<1>5. held[t] # <<>>
  BY <1>1, <1>2
<1>. QED  BY <1>3, <1>4, <1>5 DEF MayTake

\* If one of the threads that are stuck waits for lock, another one holds lock and
\* waits for the next one.
LEMMA StuckChain ==
  ASSUME Inv, NEW T \in SUBSET Thread, Stuck(T), NEW t \in T, NEW lock, Wants(t, lock)
  PROVE  \E u \in T, next \in Lock :
           /\ WaitsFor(t, u) /\ Holds(u, lock) /\ Wants(u, next)
           /\ \/ next \in After(lock)
              \/ WantsBlockUnderStatusSync(u) /\ lock \in Outer \cup {"statusSync"}
<1>1. PICK u \in T : WaitsFor(t, u)
  BY DEF Stuck
<1>2. Holds(u, lock)
  BY <1>1, WaitFacts, WantsOne
<1>3. PICK v \in T : WaitsFor(u, v)
  BY DEF Stuck
<1>4. PICK next \in Lock : Wants(u, next) /\ MayTake(held[u], next)
  BY <1>3, WaitFacts
<1>. QED  BY <1>1, <1>2, <1>4, WantedUnder

\* The locks that are not followed by others keep nobody waiting for ever.
LEMMA NeverStuckOn ==
  ASSUME Inv, NEW T \in SUBSET Thread, Stuck(T), NEW t \in T
  PROVE  /\ ~Wants(t, "encoderSync") /\ ~Wants(t, "dataSubscribersMt") /\ ~Wants(t, "stMutex")
         /\ ~Wants(t, "SinkStream") /\ ~Wants(t, "SinkInterface") /\ ~Wants(t, "StatusFb")
<1>1. \A name \in {"encoderSync", "dataSubscribersMt", "stMutex", "SinkStream", "SinkInterface", "StatusFb"} :
        name \notin Outer \cup {"statusSync"}
  BY Locks DEF Outer, OtherBlockLock, Mutex
<1>2. \A u \in T : \A name \in {"encoderSync", "dataSubscribersMt", "stMutex", "SinkStream", "SinkInterface",
                               "StatusFb"} :
        Wants(u, name) => \E v \in T : \E next \in After(name) : Wants(v, next)
  BY <1>1, StuckChain
<1>3. \A u \in T : ~Wants(u, "encoderSync") /\ ~Wants(u, "dataSubscribersMt") /\ ~Wants(u, "stMutex")
  BY <1>2, AfterName
<1>4. \A u \in T : ~Wants(u, "SinkStream") /\ ~Wants(u, "StatusFb")
  BY <1>2, <1>3, AfterName
<1>5. \A u \in T : ~Wants(u, "SinkInterface")
  BY <1>2, <1>3, <1>4, AfterName
<1>. QED  BY <1>3, <1>4, <1>5

\* The known ways are in every circle, because all other locks are taken in the
\* order of After.
LEMMA InvStuckInKnownWays == Inv => StuckInKnownWays
<1>1. SUFFICES ASSUME Inv, NEW T \in SUBSET Thread, Stuck(T),
                      \A t \in T : ~WantsBlockUnderStatusSync(t) /\ ~WantsCaptureUnderPublish(t)
               PROVE  FALSE
  BY DEF StuckInKnownWays, Waiting
<1>2. ASSUME NEW t \in T, NEW lock, Wants(t, lock)
      PROVE  \E u \in T : \E next \in After(lock) : Holds(u, lock) /\ Wants(u, next)
  BY <1>1, <1>2, StuckChain
<1>3. \A t \in T : /\ ~Wants(t, "encoderSync") /\ ~Wants(t, "dataSubscribersMt") /\ ~Wants(t, "stMutex")
                  /\ ~Wants(t, "SinkStream") /\ ~Wants(t, "SinkInterface") /\ ~Wants(t, "StatusFb")
  BY <1>1, NeverStuckOn
<1>4. \A t \in T : ~Wants(t, "captureSubscribersMt")
  BY <1>1, <1>2, AfterName DEF WantsCaptureUnderPublish
<1>5. \A t \in T : ~Wants(t, "SinkCapture") /\ ~Wants(t, "statusSync")
  BY <1>2, <1>3, <1>4, AfterName
<1>6. \A t \in T : ~Wants(t, "DataSinkFb") /\ ~Wants(t, "Capture") /\ ~Wants(t, "Interface")
  BY <1>2, <1>3, <1>4, <1>5, AfterName
<1>7. \A t \in T : \A s \in Stream : ~Wants(t, s)
  BY <1>2, <1>3, <1>5, AfterStream
<1>8. \A t \in T : \E lock \in Lock : Wants(t, lock)
  BY <1>1, WaitFacts DEF Stuck
<1>9. \A t \in T : FALSE
  BY <1>3, <1>4, <1>5, <1>6, <1>7, <1>8 DEF Lock, BlockLock, OtherBlockLock, Mutex
<1>. QED  BY <1>1, <1>9 DEF Stuck

\* A recursive lock does not keep its owner waiting.
LEMMA WaitsForOther ==
  ASSUME Inv, NEW t \in Thread, NEW u \in Thread, WaitsFor(t, u),
         NEW lock \in Lock \ Mutex, Wants(t, lock)
  PROVE  t # u
<1>1. Holds(u, lock) /\ ~Free(t, lock)
  BY WaitFacts, WantsOne
<1>2. PICK v \in Thread : Holds(v, lock) /\ v # t
  BY <1>1 DEF Free
<1>. QED  BY <1>1, <1>2 DEF Inv, HeldByOne

LEMMA InvStuckInPairs == Inv => StuckInPairs
<1>1. SUFFICES ASSUME Inv, NEW T \in SUBSET Thread, Stuck(T)
               PROVE  \E t, u \in T : t # u /\ Stuck({t, u})
  BY DEF StuckInPairs, Waiting
<1>2. ASSUME NEW t \in T, NEW u \in T, WaitsFor(t, u), WaitsFor(u, t)
      PROVE  Stuck({t, u})
  BY <1>2 DEF Stuck
<1>3. ASSUME NEW t \in T, NEW u \in T, NEW lock \in Lock, Wants(t, lock), Holds(u, lock)
      PROVE  WaitsFor(t, u)
  <2>1. PICK v \in T : WaitsFor(t, v)
    BY <1>1 DEF Stuck
  <2>2. Holds(v, lock)
    BY <1>1, <1>3, <2>1, WaitFacts, WantsOne
  <2>. QED  BY <1>1, <1>3, <2>1, <2>2 DEF Inv, HeldByOne
<1>4. PICK t \in T : WantsBlockUnderStatusSync(t) \/ WantsCaptureUnderPublish(t)
  <2>1. T \in SUBSET Waiting
    BY <1>1 DEF Stuck, Waiting
  <2>. QED  BY <1>1, <2>1, InvStuckInKnownWays DEF StuckInKnownWays
<1>5. CASE WantsBlockUnderStatusSync(t)
  <2>1. PICK block \in Stream \cup {"Interface"} : Wants(t, block)
    BY <1>5 DEF WantsBlockUnderStatusSync
  <2>2. PICK u \in T, next \in Lock :
          /\ WaitsFor(t, u) /\ Holds(u, block) /\ Wants(u, next)
          /\ next \in After(block) \/ WantsBlockUnderStatusSync(u)
    BY <1>1, <2>1, StuckChain
  <2>3. block \in Lock \ Mutex /\ "statusSync" \in Lock
    BY Locks DEF OtherBlockLock, Mutex
  <2>4. t # u
    BY <1>1, <2>1, <2>2, <2>3, WaitsForOther
  <2>5. ~WantsBlockUnderStatusSync(u)
    BY <1>1, <1>5, <2>3, <2>4 DEF WantsBlockUnderStatusSync, Inv, HeldByOne
  <2>6. next = "statusSync"
    <3>1. next \in {"statusSync", "encoderSync"}
      BY <2>2, <2>5, AfterName, AfterStream
    <3>. QED  BY <1>1, <2>2, <3>1, NeverStuckOn
  <2>7. WaitsFor(u, t)
    BY <1>3, <1>5, <2>2, <2>3, <2>6 DEF WantsBlockUnderStatusSync
  <2>. QED  BY <1>2, <2>2, <2>4, <2>7
<1>6. CASE WantsCaptureUnderPublish(t)
  <2>1. Wants(t, "SinkCapture") /\ Holds(t, "captureSubscribersMt")
    BY <1>6 DEF WantsCaptureUnderPublish
  <2>2. "SinkCapture" \in Lock \ Mutex /\ "captureSubscribersMt" \in Lock
        /\ "SinkCapture" \notin Outer \cup {"statusSync"}
    BY Locks DEF OtherBlockLock, Mutex, Outer
  <2>3. PICK u \in T, next \in Lock :
          WaitsFor(t, u) /\ Wants(u, next) /\ next \in After("SinkCapture")
    BY <1>1, <2>1, <2>2, StuckChain
  <2>4. t # u
    BY <1>1, <2>1, <2>2, <2>3, WaitsForOther
  <2>5. next = "captureSubscribersMt"
    BY <1>1, <2>3, AfterName, NeverStuckOn
  <2>6. WaitsFor(u, t)
    BY <1>3, <2>1, <2>2, <2>3, <2>5
  <2>. QED  BY <1>2, <2>3, <2>4, <2>6
<1>. QED  BY <1>4, <1>5, <1>6

\* For any threads and any Streams, threads get stuck on each other only when one
\* of them takes the lock of an Interface or a Stream under statusSync
\* (interface_fb.cpp:50, :98, stream_fb.cpp:90) or publishes to a Capture block
\* (publisher.h:60).
THEOREM KnownWays == Spec => []StuckInKnownWays
BY Disciplined, InvStuckInKnownWays, PTL

\* For any threads and any Streams, threads that are stuck have two among them
\* that are stuck on each other alone (stream_fb.cpp:233, encoder_bank.cpp:15).
THEOREM Pairs == Spec => []StuckInPairs
BY Disciplined, InvStuckInPairs, PTL

================================================================================
