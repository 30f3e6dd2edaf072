----------------------------- MODULE AdaptersProofs -----------------------------
(***************************************************************************)
(* Proofs about Adapters: however many modules share however many devices, *)
(* no device calls a module that is gone, and a sink captures on its       *)
(* device unless another module got in the way.                            *)
(*                                                                         *)
(* Neither follows from its own truth one step earlier: that a selection   *)
(* leaves no capture behind depends on the stop before it, which may have  *)
(* been put in the middle of an operation by a selection that failed.  So  *)
(* the invariant orders what is left of each operation.                    *)
(***************************************************************************)
EXTENDS Adapters, SequenceTheorems, TLAPS

\* What is left of an operation on a sink (or not), which captures (or does not):
\* it selects or leaves only at once, when it does not capture, or right after it
\* stops; it leaves last; and a sink ends by starting or leaving.
Ordered(steps, sink, captures) ==
  /\ steps \in Seq(Step)
  /\ \A k \in 1..Len(steps) :
       /\ sink /\ steps[k].step \in {"select", "remove"} =>
            \/ k = 1 /\ ~captures
            \/ k = 2 /\ steps[1].step = "stop"
       /\ steps[k].step = "remove" => k = Len(steps)
       /\ steps[k].step \in {"clear", "start"} => sink
  /\ sink /\ steps # <<>> => steps[Len(steps)].step \in {"start", "remove"}

OrderedInv ==
  \A m \in Module :
    /\ Ordered(todo[m], m \in Sink, started[m])
    /\ todo[m] # <<>> => m \in exists

\* A module that captures knows it.
CapturesStarted == \A d \in Device : capture[d] # None => started[capture[d]]

AdaptersInv ==
  TypeOK /\ OrderedInv /\ CapturesStarted /\ CallbacksHaveModules /\ ShownIsActive /\ SinksCapture

--------------------------------------------------------------------------------
(* What is left of an operation, one step later.                             *)

LEMMA FirstStep ==
  ASSUME NEW steps, NEW sink \in BOOLEAN, NEW captures \in BOOLEAN,
         Ordered(steps, sink, captures), steps # <<>>
  PROVE /\ Head(steps) \in Step
        /\ sink /\ Head(steps).step \in {"select", "remove"} => ~captures
        /\ Head(steps).step = "remove" => Tail(steps) = <<>>
        /\ sink /\ Head(steps).step \notin {"start", "remove"} => Tail(steps) # <<>>
        /\ Head(steps).step \in {"clear", "start"} => sink
<1>1. steps \in Seq(Step) /\ Len(steps) \in Nat /\ Len(steps) > 0 /\ Head(steps) = steps[1]
  BY DEF Ordered
<1>2. Tail(steps) \in Seq(Step) /\ Len(Tail(steps)) = Len(steps) - 1
  BY <1>1
<1>3. steps[1] \in Step /\ 1 \in 1..Len(steps)
  BY <1>1
<1>4. Head(steps).step = "remove" => Len(steps) = 1
  BY <1>1, <1>3 DEF Ordered
<1>5. Len(steps) = 1 => Tail(steps) = <<>>
  <2>1. Len(steps) = 1 => Len(Tail(steps)) = 0
    BY <1>2
  <2>. QED
    BY <1>2, <2>1, EmptySeq
<1>6. sink /\ Len(steps) = 1 => steps[1].step \in {"start", "remove"}
  BY DEF Ordered
<1>7. Tail(steps) = <<>> => Len(steps) = 1
  <2>1. Tail(steps) = <<>> => Len(Tail(steps)) = 0
    BY EmptySeq
  <2>. QED
    BY <1>1, <1>2, <2>1
<1>8. /\ sink /\ Head(steps).step \in {"select", "remove"} => ~captures
      /\ Head(steps).step \in {"clear", "start"} => sink
  BY <1>1, <1>3 DEF Ordered
<1>. QED
  BY <1>1, <1>3, <1>4, <1>5, <1>6, <1>7, <1>8

\* After a step the rest is in order, if a stop is followed by no capture.
LEMMA RestOrdered ==
  ASSUME NEW steps, NEW sink \in BOOLEAN, NEW captures \in BOOLEAN, NEW later \in BOOLEAN,
         Ordered(steps, sink, captures), steps # <<>>, sink /\ Head(steps).step = "stop" => ~later
  PROVE Ordered(Tail(steps), sink, later)
<1>. DEFINE rest == Tail(steps)
<1>1. steps \in Seq(Step) /\ Len(steps) \in Nat /\ Len(steps) > 0 /\ Head(steps) = steps[1]
  BY DEF Ordered
<1>2. /\ rest \in Seq(Step) /\ Len(rest) = Len(steps) - 1
      /\ \A k \in 1..Len(rest) : rest[k] = steps[k + 1] /\ k + 1 \in 1..Len(steps)
  BY <1>1
<1>. HIDE DEF rest
<1>3. ASSUME NEW k \in 1..Len(rest)
      PROVE /\ sink /\ rest[k].step \in {"select", "remove"} => k = 1 /\ ~later
            /\ rest[k].step = "remove" => k = Len(rest)
            /\ rest[k].step \in {"clear", "start"} => sink
  <2>1. rest[k] = steps[k + 1] /\ k + 1 \in 1..Len(steps) /\ k \in Nat /\ k # 0 /\ k + 1 # 1
    BY <1>1, <1>2
  <2>2. sink /\ rest[k].step \in {"select", "remove"} => k + 1 = 2 /\ steps[1].step = "stop"
    BY <2>1 DEF Ordered
  <2>3. /\ rest[k].step = "remove" => k + 1 = Len(steps)
        /\ rest[k].step \in {"clear", "start"} => sink
    BY <2>1 DEF Ordered
  <2>. QED
    BY <1>1, <1>2, <2>1, <2>2, <2>3
<1>4. sink /\ rest # <<>> => rest[Len(rest)].step \in {"start", "remove"}
  <2>. SUFFICES ASSUME sink, rest # <<>> PROVE rest[Len(rest)].step \in {"start", "remove"}
    OBVIOUS
  <2>1. Len(rest) \in 1..Len(rest) /\ Len(rest) + 1 = Len(steps)
    BY <1>1, <1>2
  <2>2. rest[Len(rest)] = steps[Len(steps)]
    BY <1>2, <2>1
  <2>. QED
    BY <2>2 DEF Ordered
<1>5. Ordered(rest, sink, later)
  BY <1>2, <1>3, <1>4 DEF Ordered
<1>. QED
  BY <1>5 DEF rest

NoneSelects(steps) == \A k \in 1..Len(steps) : steps[k].step \notin {"select", "remove"}

\* What follows a selection on a sink neither selects nor leaves.
LEMMA NoneSelectsAfter ==
  ASSUME NEW steps, NEW captures \in BOOLEAN,
         Ordered(steps, TRUE, captures), steps # <<>>, Head(steps).step # "stop"
  PROVE NoneSelects(Tail(steps))
<1>1. steps \in Seq(Step) /\ Len(steps) \in Nat /\ Len(steps) > 0 /\ Head(steps) = steps[1]
  BY DEF Ordered
<1>2. /\ Len(Tail(steps)) = Len(steps) - 1
      /\ \A k \in 1..Len(Tail(steps)) : Tail(steps)[k] = steps[k + 1] /\ k + 1 \in 1..Len(steps) /\ k + 1 # 1
  BY <1>1
<1>3. \A k \in 1..Len(steps) : k # 1 => steps[k].step \notin {"select", "remove"}
  BY <1>1 DEF Ordered
<1>. QED
  BY <1>2, <1>3 DEF NoneSelects

\* The operations are in order when they begin.
LEMMA NothingOrdered ==
  ASSUME NEW sink \in BOOLEAN, NEW captures \in BOOLEAN
  PROVE Ordered(<<>>, sink, captures)
BY DEF Ordered

LEMMA StartOrdered ==
  ASSUME NEW captures \in BOOLEAN
  PROVE Ordered(Start, TRUE, captures)
<1>1. Start \in Seq(Step) /\ Len(Start) = 2 /\ Start[1].step = "clear" /\ Start[2].step = "start"
  BY DEF Start, Step
<1>2. \A k \in 1..Len(Start) : k = 1 \/ k = 2
  BY <1>1
<1>. QED
  BY <1>1, <1>2 DEF Ordered

LEMMA RemoveOrdered ==
  ASSUME NEW captures \in BOOLEAN
  PROVE Ordered(<<Stop, Remove>>, TRUE, captures) /\ Ordered(<<Remove>>, FALSE, captures)
<1>1. Stop \in Step /\ Remove \in Step /\ Stop.step = "stop" /\ Remove.step = "remove"
  BY DEF Stop, Remove, Step
<1>2. Ordered(<<Stop, Remove>>, TRUE, captures)
  <2>1. <<Stop, Remove>> \in Seq(Step) /\ Len(<<Stop, Remove>>) = 2
    BY <1>1
  <2>2. \A k \in 1..2 : k = 1 \/ k = 2
    OBVIOUS
  <2>. QED
    BY <1>1, <2>1, <2>2 DEF Ordered
<1>3. Ordered(<<Remove>>, FALSE, captures)
  <2>1. <<Remove>> \in Seq(Step) /\ Len(<<Remove>>) = 1
    BY <1>1
  <2>2. \A k \in 1..1 : k = 1
    OBVIOUS
  <2>. QED
    BY <1>1, <2>1, <2>2 DEF Ordered
<1>. QED
  BY <1>2, <1>3

\* A selection, also one that is put before the rest of an operation.
LEMMA ChangedOrdered ==
  ASSUME NEW m \in Module, NEW d \in Device, NEW captures \in BOOLEAN, NEW rest,
         Ordered(rest, m \in Sink, TRUE), m \in Sink => NoneSelects(rest)
  PROVE Ordered(Changed(m, d) \o rest, m \in Sink, captures) /\ Changed(m, d) \o rest # <<>>
<1>0. /\ Stop \in Step /\ Select(d) \in Step /\ [step |-> "clear"] \in Step /\ [step |-> "start"] \in Step
      /\ Stop.step = "stop" /\ Select(d).step = "select"
  BY DEF Stop, Select, Step
<1>1. rest \in Seq(Step) /\ Len(rest) \in Nat
  BY DEF Ordered
<1>2. CASE m \in Sink
  <2>. DEFINE first == <<Stop, Select(d)>> \o Start
              all == first \o rest
  <2>1. Changed(m, d) = first
    BY <1>2 DEF Changed
  <2>2. first \in Seq(Step) /\ Len(first) = 4
    BY <1>0 DEF Start
  <2>3. first[1].step = "stop" /\ first[2].step = "select" /\ first[3].step = "clear" /\ first[4].step = "start"
    BY <1>0 DEF Start
  <2>. HIDE DEF first
  <2>4. /\ all \in Seq(Step) /\ Len(all) = 4 + Len(rest)
        /\ \A k \in 1..4 : all[k] = first[k]
        /\ \A k \in 1..Len(all) : k > 4 => k - 4 \in 1..Len(rest) /\ all[k] = rest[k - 4]
    <3>1. /\ all \in Seq(Step) /\ Len(all) = Len(first) + Len(rest)
          /\ \A k \in 1..Len(first) + Len(rest) : all[k] = IF k <= Len(first) THEN first[k] ELSE rest[k - Len(first)]
      BY <1>1, <2>2, ConcatProperties
    <3>. HIDE DEF all
    <3>. QED
      BY <1>1, <2>2, <3>1
  <2>. HIDE DEF all
  <2>5. all[1].step = "stop" /\ all[2].step = "select" /\ all[3].step = "clear" /\ all[4].step = "start"
    BY <2>3, <2>4
  <2>6. ASSUME NEW k \in 1..Len(all)
        PROVE /\ all[k].step \in {"select", "remove"} => k = 2
              /\ all[k].step # "remove"
    <3>1. CASE k > 4
      <4>1. k - 4 \in 1..Len(rest) /\ all[k] = rest[k - 4]
        BY <2>4, <3>1
      <4>. QED
        BY <1>2, <4>1 DEF NoneSelects
    <3>2. CASE ~(k > 4)
      <4>1. k = 1 \/ k = 2 \/ k = 3 \/ k = 4
        BY <3>2
      <4>. QED
        BY <2>5, <4>1
    <3>. QED
      BY <3>1, <3>2
  <2>7. all[Len(all)].step \in {"start", "remove"}
    <3>1. CASE rest = <<>>
      BY <2>4, <2>5, <3>1
    <3>2. CASE rest # <<>>
      <4>1. Len(rest) > 0
        BY <1>1, <3>2
      <4>2. all[Len(all)] = rest[Len(rest)]
        BY <1>1, <2>4, <4>1
      <4>. QED
        BY <1>2, <3>2, <4>2 DEF Ordered
    <3>. QED
      BY <3>1, <3>2
  <2>8. Ordered(all, TRUE, captures) /\ all # <<>>
    <3>1. Len(all) # 0
      BY <1>1, <2>4
    <3>2. all # <<>>
      BY <3>1, EmptySeq
    <3>. QED
      BY <2>4, <2>5, <2>6, <2>7, <3>2 DEF Ordered
  <2>. QED
    BY <1>2, <2>1, <2>8 DEF all
<1>3. CASE m \notin Sink
  <2>. DEFINE all == <<Select(d)>> \o rest
  <2>1. /\ all \in Seq(Step) /\ Len(all) = 1 + Len(rest) /\ all[1] = Select(d)
        /\ \A k \in 1..Len(all) : k # 1 => k - 1 \in 1..Len(rest) /\ all[k] = rest[k - 1]
    BY <1>0, <1>1
  <2>. HIDE DEF all
  <2>2. ASSUME NEW k \in 1..Len(all)
        PROVE /\ all[k].step = "remove" => k = Len(all)
              /\ all[k].step \notin {"clear", "start"}
    <3>1. CASE k = 1
      BY <1>0, <2>1, <3>1
    <3>2. CASE k # 1
      <4>1. k - 1 \in 1..Len(rest) /\ all[k] = rest[k - 1]
        BY <2>1, <3>2
      <4>2. all[k].step = "remove" => k - 1 = Len(rest)
        BY <4>1 DEF Ordered
      <4>3. all[k].step \notin {"clear", "start"}
        BY <1>3, <4>1 DEF Ordered
      <4>. QED
        BY <1>1, <2>1, <4>2, <4>3
    <3>. QED
      BY <3>1, <3>2
  <2>3. Ordered(all, FALSE, captures) /\ all # <<>>
    <3>1. Len(all) # 0
      BY <1>1, <2>1
    <3>2. all # <<>>
      BY <3>1, EmptySeq
    <3>. QED
      BY <2>1, <2>2, <3>2 DEF Ordered
  <2>. QED
    <3>1. Changed(m, d) \o rest = all /\ (m \in Sink) = FALSE
      BY <1>3 DEF all, Changed
    <3>. QED
      BY <2>3, <3>1
<1>. QED
  BY <1>2, <1>3
--------------------------------------------------------------------------------
(* The actions.                                                              *)

\* A step of one module changes what is left of its own operation.
LEMMA OrderedAfter ==
  ASSUME TypeOK, OrderedInv, NEW m \in Module, NEW steps,
         todo' = [todo EXCEPT ![m] = steps], Ordered(steps, m \in Sink, started'[m]),
         \A n \in Module \ {m} : started'[n] = started[n] /\ (n \in exists => n \in exists'),
         steps # <<>> => m \in exists'
  PROVE OrderedInv' /\ todo' \in [Module -> Seq(Step)]
<1>1. steps \in Seq(Step)
  BY DEF Ordered
<1>2. \A n \in Module : todo'[n] = IF n = m THEN steps ELSE todo[n]
  BY DEF TypeOK
<1>. QED
  BY <1>1, <1>2 DEF TypeOK, OrderedInv

\* Where the module stands that takes a step of its operation.
LEMMA InOperation ==
  ASSUME TypeOK, OrderedInv, NEW m \in Module, todo[m] # <<>>
  PROVE /\ m \in exists /\ started[m] \in BOOLEAN /\ active[m] \in Device /\ active[m] \in open
        /\ Ordered(todo[m], m \in Sink, started[m])
        /\ Head(todo[m]) \in Step
        /\ m \in Sink /\ Head(todo[m]).step \in {"select", "remove"} => ~started[m]
        /\ Head(todo[m]).step = "remove" => Tail(todo[m]) = <<>>
        /\ m \in Sink /\ Head(todo[m]).step \notin {"start", "remove"} => Tail(todo[m]) # <<>>
        /\ Head(todo[m]).step \in {"clear", "start"} => m \in Sink
<1>1. m \in exists /\ Ordered(todo[m], m \in Sink, started[m]) /\ (m \in Sink) \in BOOLEAN
  BY DEF OrderedInv
<1>2. started[m] \in BOOLEAN /\ active[m] \in Device /\ active[m] \in open
  BY <1>1 DEF TypeOK
<1>. QED
  BY <1>1, <1>2, FirstStep

\* After a step of the module the rest of its operation is in order.
LEMMA StepOrdered ==
  ASSUME NEW m \in Module, NEW captures \in BOOLEAN, NEW later \in BOOLEAN,
         Ordered(todo[m], m \in Sink, captures), todo[m] # <<>>, Head(todo[m]).step = "stop" => ~later
  PROVE Ordered(Tail(todo[m]), m \in Sink, later)
<1>. DEFINE sink == m \in Sink
<1>1. sink \in BOOLEAN /\ Ordered(todo[m], sink, captures) /\ (sink /\ Head(todo[m]).step = "stop" => ~later)
  OBVIOUS
<1>. HIDE DEF sink
<1>2. Ordered(Tail(todo[m]), sink, later)
  BY <1>1, RestOrdered
<1>. QED
  BY <1>2 DEF sink

LEMMA ConstructKeeps ==
  ASSUME AdaptersInv, NEW m \in Module, NEW d \in Device, Construct(m, d)
  PROVE AdaptersInv'
<1>1. OrderedInv' /\ todo' \in [Module -> Seq(Step)]
  <2>. DEFINE steps == IF m \in Sink THEN Start ELSE <<>>
  <2>1. started[m] \in BOOLEAN /\ started' = started
    BY DEF AdaptersInv, TypeOK, Construct
  <2>2. Ordered(steps, m \in Sink, started'[m])
    <3>1. CASE m \in Sink
      <4>1. steps = Start /\ (m \in Sink) = TRUE
        BY <3>1
      <4>. QED
        BY <2>1, <4>1, StartOrdered
    <3>2. CASE m \notin Sink
      <4>1. steps = <<>> /\ (m \in Sink) = FALSE
        BY <3>2
      <4>. QED
        BY <2>1, <4>1, NothingOrdered
    <3>. QED
      BY <3>1, <3>2
  <2>3. todo' = [todo EXCEPT ![m] = steps] /\ exists' = exists \cup {m}
    BY DEF Construct
  <2>. HIDE DEF steps
  <2>. QED
    BY <2>1, <2>2, <2>3, OrderedAfter DEF AdaptersInv
<1>2. m \in Sink => todo'[m] # <<>>
  <2>1. m \in Sink => todo'[m] = Start
    BY DEF Construct, AdaptersInv, TypeOK
  <2>2. Start # <<>>
    BY DEF Start
  <2>. QED
    BY <2>1, <2>2
<1>3. /\ exists' = exists \cup {m} /\ open' = open \cup {d}
      /\ active' = [active EXCEPT ![m] = d] /\ adapter' = [adapter EXCEPT ![m] = 1]
      /\ todo' = [todo EXCEPT ![m] = IF m \in Sink THEN Start ELSE <<>>]
      /\ selected' = selected \ {m} /\ disturbed' = disturbed \ {m}
      /\ UNCHANGED <<started, capture, busy>> /\ m \notin exists
  BY DEF Construct
<1>4. TypeOK'
  BY <1>1, <1>3, AdaptersAssumption DEF AdaptersInv, TypeOK, Device
<1>5. CapturesStarted' /\ CallbacksHaveModules'
  BY <1>3, AdaptersAssumption DEF AdaptersInv, TypeOK, CapturesStarted, CallbacksHaveModules, Module
<1>6. ShownIsActive' /\ SinksCapture'
  BY <1>2, <1>3 DEF AdaptersInv, TypeOK, ShownIsActive, SinksCapture, Idle, Module
<1>. QED
  BY <1>1, <1>4, <1>5, <1>6 DEF AdaptersInv

\* An operation begins: nothing but what is left of it changes.
LEMMA BeginKeeps ==
  ASSUME AdaptersInv, NEW m \in Module, NEW steps, m \in exists, steps # <<>>,
         todo' = [todo EXCEPT ![m] = steps], Ordered(steps, m \in Sink, started[m]),
         UNCHANGED <<exists, open, active, adapter, started, capture, busy, selected, disturbed>>
  PROVE AdaptersInv'
<1>1. OrderedInv' /\ todo' \in [Module -> Seq(Step)]
  BY OrderedAfter DEF AdaptersInv
<1>2. TypeOK' /\ CapturesStarted' /\ CallbacksHaveModules' /\ ShownIsActive'
  BY <1>1 DEF AdaptersInv, TypeOK, CapturesStarted, CallbacksHaveModules, ShownIsActive
<1>3. SinksCapture'
  <2>1. \A n \in Module : todo'[n] = IF n = m THEN steps ELSE todo[n]
    BY DEF AdaptersInv, TypeOK
  <2>. QED
    BY <2>1 DEF AdaptersInv, TypeOK, SinksCapture, Idle, Module
<1>. QED
  BY <1>1, <1>2, <1>3 DEF AdaptersInv

LEMMA WriteAdapterKeeps ==
  ASSUME AdaptersInv, NEW m \in Module, NEW d \in Device, WriteAdapter(m, d)
  PROVE AdaptersInv'
<1>1. started[m] \in BOOLEAN
  BY DEF AdaptersInv, TypeOK
<1>2. Ordered(<<>>, m \in Sink, TRUE) /\ NoneSelects(<<>>)
  <2>1. (m \in Sink) \in BOOLEAN /\ 1..Len(<<>>) = {}
    OBVIOUS
  <2>. QED
    BY <2>1, NothingOrdered DEF NoneSelects
<1>3. Ordered(Changed(m, d) \o <<>>, m \in Sink, started[m]) /\ Changed(m, d) \o <<>> # <<>>
  BY <1>1, <1>2, ChangedOrdered
<1>4. Changed(m, d) \o <<>> = Changed(m, d)
  <2>1. Changed(m, d) \in Seq(Step)
    <3>1. /\ <<Stop, Select(d)>> \in Seq(Step) /\ Start \in Seq(Step) /\ <<Select(d)>> \in Seq(Step)
      BY DEF Start, Stop, Select, Step
    <3>. QED
      BY <3>1, ConcatProperties DEF Changed
  <2>. QED
    BY <2>1, ConcatEmptySeq
<1>. QED
  BY <1>3, <1>4, BeginKeeps DEF WriteAdapter

LEMMA RemoveModuleKeeps ==
  ASSUME AdaptersInv, NEW m \in Module, RemoveModule(m)
  PROVE AdaptersInv'
<1>. DEFINE steps == IF m \in Sink THEN <<Stop, Remove>> ELSE <<Remove>>
<1>1. started[m] \in BOOLEAN
  BY DEF AdaptersInv, TypeOK
<1>2. Ordered(steps, m \in Sink, started[m])
  <2>1. CASE m \in Sink
    <3>1. steps = <<Stop, Remove>> /\ (m \in Sink) = TRUE
      BY <2>1
    <3>. QED
      BY <1>1, <3>1, RemoveOrdered
  <2>2. CASE m \notin Sink
    <3>1. steps = <<Remove>> /\ (m \in Sink) = FALSE
      BY <2>2
    <3>. QED
      BY <1>1, <3>1, RemoveOrdered
  <2>. QED
    BY <2>1, <2>2
<1>3. steps # <<>>
  OBVIOUS
<1>. HIDE DEF steps
<1>4. /\ m \in exists /\ todo' = [todo EXCEPT ![m] = steps]
      /\ UNCHANGED <<exists, open, active, adapter, started, capture, busy, selected, disturbed>>
  BY DEF RemoveModule, steps
<1>. QED
  BY <1>2, <1>3, <1>4, BeginKeeps

\* The callback of a device begins or returns.
LEMMA CallbackKeeps ==
  ASSUME AdaptersInv, NEW d \in Device, CallbackBegins(d) \/ CallbackReturns(d)
  PROVE AdaptersInv'
<1>1. /\ busy' \in [Device -> BOOLEAN]
      /\ \A e \in Device : busy'[e] => busy[e] \/ capture[e] # None
      /\ UNCHANGED <<exists, open, active, adapter, started, todo, capture, selected, disturbed>>
  BY DEF CallbackBegins, CallbackReturns, AdaptersInv, TypeOK
<1>. QED
  BY <1>1 DEF AdaptersInv, TypeOK, OrderedInv, CapturesStarted, CallbacksHaveModules, ShownIsActive, SinksCapture, Idle

\* A step of an operation, in which the module m may be stopped and whoever else
\* captures on its device.
LEMMA StopKeeps ==
  ASSUME AdaptersInv, NEW m \in Module, StopCapture(m)
  PROVE AdaptersInv'
<1>1. Goes(m, "stop") /\ todo[m] # <<>> /\ Head(todo[m]).step = "stop" /\ TypeOK /\ OrderedInv
  BY DEF StopCapture, Goes, AdaptersInv
<1>2. /\ Ordered(todo[m], m \in Sink, started[m]) /\ m \in exists /\ active[m] \in Device
      /\ started[m] \in BOOLEAN /\ (m \in Sink => Tail(todo[m]) # <<>>)
  BY <1>1, InOperation
<1>3. /\ todo' = [todo EXCEPT ![m] = Tail(todo[m])] /\ started' = [started EXCEPT ![m] = FALSE]
      /\ UNCHANGED <<exists, open, active, adapter, busy, selected>>
  BY <1>1 DEF StopCapture, Done, TypeOK
<1>4. started' \in [Module -> BOOLEAN] /\ \A n \in Module : started'[n] = IF n = m THEN FALSE ELSE started[n]
  BY <1>1, <1>3 DEF TypeOK
<1>5. OrderedInv' /\ todo' \in [Module -> Seq(Step)]
  <2>1. started'[m] \in BOOLEAN /\ ~started'[m]
    BY <1>4
  <2>2. Ordered(Tail(todo[m]), m \in Sink, started'[m])
    BY <1>1, <1>2, <2>1, StepOrdered
  <2>. QED
    BY <1>1, <1>2, <1>3, <1>4, <2>2, OrderedAfter
<1>6. \/ ~started[m] /\ capture' = capture /\ disturbed' = disturbed
      \/ /\ ~busy[active[m]] /\ capture' = [capture EXCEPT ![active[m]] = None]
         /\ disturbed' = disturbed \cup ({capture[active[m]]} \ {None, m})
  BY DEF StopCapture, StopDevice
<1>7. /\ capture' \in [Device -> Sink \cup {None}] /\ disturbed' \subseteq Module
      /\ \A d \in Device : capture'[d] = capture[d] \/ (capture'[d] = None /\ ~busy[d])
      /\ \A d \in Device : capture'[d] # capture[d] => capture[d] \in disturbed' \cup {None, m}
      /\ disturbed \subseteq disturbed'
  <2>1. CASE ~started[m] /\ capture' = capture /\ disturbed' = disturbed
    BY <1>1, <2>1 DEF TypeOK
  <2>2. CASE /\ ~busy[active[m]] /\ capture' = [capture EXCEPT ![active[m]] = None]
             /\ disturbed' = disturbed \cup ({capture[active[m]]} \ {None, m})
    BY <1>1, <1>2, <2>2 DEF TypeOK, Module
  <2>. QED
    BY <1>6, <2>1, <2>2
<1>8. \A d \in Device : capture'[d] # m
  <2>1. \A d \in Device : capture[d] = m => started[m] /\ active[m] = d
    BY AdaptersAssumption DEF AdaptersInv, CapturesStarted, CallbacksHaveModules
  <2>. QED
    BY <1>1, <1>2, <1>6, <2>1, AdaptersAssumption DEF TypeOK
<1>9. TypeOK' /\ CapturesStarted' /\ CallbacksHaveModules' /\ ShownIsActive'
  BY <1>3, <1>4, <1>5, <1>7, <1>8 DEF AdaptersInv, TypeOK, CapturesStarted, CallbacksHaveModules, ShownIsActive, Module
<1>10. SinksCapture'
  BY <1>1, <1>2, <1>3, <1>4, <1>7 DEF AdaptersInv, TypeOK, SinksCapture, Idle, Module
<1>. QED
  BY <1>5, <1>9, <1>10 DEF AdaptersInv

LEMMA ClearKeeps ==
  ASSUME AdaptersInv, NEW m \in Module, ClearDevice(m)
  PROVE AdaptersInv'
<1>1. Goes(m, "clear") /\ todo[m] # <<>> /\ Head(todo[m]).step = "clear" /\ TypeOK /\ OrderedInv
  BY DEF ClearDevice, Goes, AdaptersInv
<1>2. /\ Ordered(todo[m], m \in Sink, started[m]) /\ m \in exists /\ active[m] \in Device
      /\ started[m] \in BOOLEAN /\ m \in Sink /\ Tail(todo[m]) # <<>>
  BY <1>1, InOperation
<1>3. /\ todo' = [todo EXCEPT ![m] = Tail(todo[m])]
      /\ UNCHANGED <<exists, open, active, adapter, started, busy, selected>>
      /\ ~busy[active[m]] /\ capture' = [capture EXCEPT ![active[m]] = None]
      /\ disturbed' = disturbed \cup ({capture[active[m]]} \ {None, m})
  BY <1>1 DEF ClearDevice, StopDevice, Done, TypeOK
<1>4. OrderedInv' /\ todo' \in [Module -> Seq(Step)]
  <2>1. Ordered(Tail(todo[m]), m \in Sink, started[m])
    BY <1>1, <1>2, StepOrdered
  <2>. QED
    BY <1>1, <1>2, <1>3, <2>1, OrderedAfter
<1>5. /\ capture' \in [Device -> Sink \cup {None}] /\ disturbed' \subseteq Module
      /\ \A d \in Device : capture'[d] = capture[d] \/ (capture'[d] = None /\ ~busy[d])
      /\ \A d \in Device : capture'[d] # capture[d] => capture[d] \in disturbed' \cup {None, m}
      /\ disturbed \subseteq disturbed'
  BY <1>1, <1>2, <1>3 DEF TypeOK, Module
<1>6. TypeOK' /\ CapturesStarted' /\ CallbacksHaveModules' /\ ShownIsActive'
  BY <1>3, <1>4, <1>5 DEF AdaptersInv, TypeOK, CapturesStarted, CallbacksHaveModules, ShownIsActive, Module
<1>7. SinksCapture'
  BY <1>1, <1>2, <1>3, <1>5 DEF AdaptersInv, TypeOK, SinksCapture, Idle, Module
<1>. QED
  BY <1>4, <1>6, <1>7 DEF AdaptersInv

LEMMA SelectKeeps ==
  ASSUME AdaptersInv, NEW m \in Module, SelectDevice(m)
  PROVE AdaptersInv'
<1>1. todo[m] # <<>> /\ Head(todo[m]).step = "select" /\ TypeOK /\ OrderedInv
  BY DEF SelectDevice, Goes, AdaptersInv
<1>2. /\ Ordered(todo[m], m \in Sink, started[m]) /\ m \in exists /\ started[m] \in BOOLEAN
      /\ (m \in Sink => ~started[m] /\ Tail(todo[m]) # <<>>)
      /\ Head(todo[m]).new \in Device
  <2>1. Head(todo[m]) \in Step => Head(todo[m]).new \in Device
    BY <1>1 DEF Step
  <2>. QED
    BY <1>1, <2>1, InOperation
<1>. DEFINE new == Head(todo[m]).new
<1>3. /\ todo' = [todo EXCEPT ![m] = Tail(todo[m])]
      /\ active' = [active EXCEPT ![m] = new] /\ adapter' = [adapter EXCEPT ![m] = new]
      /\ open' = open \cup {new} /\ selected' = selected \cup {m}
      /\ UNCHANGED <<exists, started, capture, busy, disturbed>>
  BY <1>1 DEF SelectDevice, Done, TypeOK
<1>. HIDE DEF new
<1>4. OrderedInv' /\ todo' \in [Module -> Seq(Step)]
  <2>1. Ordered(Tail(todo[m]), m \in Sink, started[m])
    BY <1>1, <1>2, StepOrdered
  <2>. QED
    BY <1>1, <1>2, <1>3, <2>1, OrderedAfter
<1>5. \A d \in Device : capture[d] # m
  BY <1>1, <1>2, AdaptersAssumption DEF AdaptersInv, TypeOK, CapturesStarted
<1>6. TypeOK'
  <2>1. new \in Device
    BY <1>2 DEF new
  <2>. QED
    BY <1>1, <1>3, <1>4, <2>1 DEF TypeOK
<1>7. CapturesStarted' /\ CallbacksHaveModules'
  BY <1>3, <1>5, AdaptersAssumption DEF AdaptersInv, TypeOK, CapturesStarted, CallbacksHaveModules, Module
<1>8. ShownIsActive' /\ SinksCapture'
  BY <1>1, <1>2, <1>3 DEF AdaptersInv, TypeOK, ShownIsActive, SinksCapture, Idle, Module
<1>. QED
  BY <1>4, <1>6, <1>7, <1>8 DEF AdaptersInv

LEMMA SelectFailsKeeps ==
  ASSUME AdaptersInv, NEW m \in Module, SelectFails(m)
  PROVE AdaptersInv'
<1>1. todo[m] # <<>> /\ Head(todo[m]).step = "select" /\ TypeOK /\ OrderedInv
  BY DEF SelectFails, Goes, AdaptersInv
<1>2. /\ Ordered(todo[m], m \in Sink, started[m]) /\ m \in exists /\ started[m] \in BOOLEAN
      /\ (m \in Sink => Tail(todo[m]) # <<>>) /\ adapter[m] \in Device
  BY <1>1, InOperation DEF TypeOK
<1>. DEFINE again == Head(todo[m]).new = adapter[m]
            steps == (IF again THEN <<>> ELSE Changed(m, adapter[m])) \o Tail(todo[m])
<1>3. /\ todo' = [todo EXCEPT ![m] = steps]
      /\ UNCHANGED <<exists, open, active, adapter, started, capture, busy, selected, disturbed>>
  BY <1>1 DEF SelectFails, TypeOK
<1>4. Tail(todo[m]) \in Seq(Step) /\ Ordered(Tail(todo[m]), m \in Sink, started[m])
  <2>1. Ordered(Tail(todo[m]), m \in Sink, started[m])
    BY <1>1, <1>2, StepOrdered
  <2>. QED
    BY <2>1 DEF Ordered
<1>5. Ordered(steps, m \in Sink, started[m]) /\ (m \in Sink => steps # <<>>)
  <2>1. CASE again
    <3>1. steps = Tail(todo[m])
      BY <1>4, <2>1, ConcatEmptySeq
    <3>. HIDE DEF steps
    <3>. QED
      BY <1>2, <1>4, <3>1
  <2>2. CASE ~again
    <3>1. steps = Changed(m, adapter[m]) \o Tail(todo[m])
      BY <2>2
    <3>2. m \in Sink => NoneSelects(Tail(todo[m]))
      <4>. SUFFICES ASSUME m \in Sink PROVE NoneSelects(Tail(todo[m]))
        OBVIOUS
      <4>1. (m \in Sink) = TRUE
        OBVIOUS
      <4>. QED
        BY <1>1, <1>2, <4>1, NoneSelectsAfter
    <3>3. Ordered(Tail(todo[m]), m \in Sink, TRUE)
      <4>1. TRUE \in BOOLEAN /\ (m \in Sink) \in BOOLEAN /\ Head(todo[m]).step # "stop"
        BY <1>1
      <4>. QED
        BY <1>1, <1>2, <4>1, StepOrdered
    <3>4. Ordered(steps, m \in Sink, started[m]) /\ steps # <<>>
      BY <1>2, <3>1, <3>2, <3>3, ChangedOrdered
    <3>. QED
      BY <3>4
  <2>. QED
    BY <2>1, <2>2
<1>. HIDE DEF steps
<1>6. OrderedInv' /\ todo' \in [Module -> Seq(Step)]
  BY <1>1, <1>2, <1>3, <1>5, OrderedAfter
<1>7. TypeOK' /\ CapturesStarted' /\ CallbacksHaveModules' /\ ShownIsActive'
  BY <1>3, <1>6 DEF AdaptersInv, TypeOK, CapturesStarted, CallbacksHaveModules, ShownIsActive
<1>8. SinksCapture'
  BY <1>1, <1>3, <1>5 DEF AdaptersInv, TypeOK, SinksCapture, Idle, Module
<1>. QED
  BY <1>6, <1>7, <1>8 DEF AdaptersInv

LEMMA StartKeeps ==
  ASSUME AdaptersInv, NEW m \in Module, StartDevice(m)
  PROVE AdaptersInv'
<1>1. todo[m] # <<>> /\ Head(todo[m]).step = "start" /\ TypeOK /\ OrderedInv
  BY DEF StartDevice, Goes, AdaptersInv
<1>2. /\ Ordered(todo[m], m \in Sink, started[m]) /\ m \in exists /\ active[m] \in Device
      /\ started[m] \in BOOLEAN /\ m \in Sink
  BY <1>1, InOperation
<1>3. /\ todo' = [todo EXCEPT ![m] = Tail(todo[m])] /\ started' = [started EXCEPT ![m] = TRUE]
      /\ capture' = [capture EXCEPT ![active[m]] = IF capture[active[m]] = None THEN m ELSE capture[active[m]]]
      /\ disturbed' = IF capture[active[m]] \in {None, m} THEN disturbed \ {m} ELSE disturbed \cup {m}
      /\ UNCHANGED <<exists, open, active, adapter, busy, selected>>
  BY <1>1 DEF StartDevice, Done, TypeOK
<1>4. started' \in [Module -> BOOLEAN] /\ \A n \in Module : started'[n] = IF n = m THEN TRUE ELSE started[n]
  BY <1>1, <1>3 DEF TypeOK
<1>5. OrderedInv' /\ todo' \in [Module -> Seq(Step)]
  <2>1. started'[m] \in BOOLEAN /\ Head(todo[m]).step # "stop"
    BY <1>1, <1>4
  <2>2. Ordered(Tail(todo[m]), m \in Sink, started'[m])
    BY <1>1, <1>2, <2>1, StepOrdered
  <2>. QED
    BY <1>1, <1>2, <1>3, <1>4, <2>2, OrderedAfter
<1>6. /\ capture' \in [Device -> Sink \cup {None}] /\ disturbed' \subseteq Module
      /\ \A d \in Device : capture'[d] = IF d = active[m] /\ capture[d] = None THEN m ELSE capture[d]
      /\ disturbed \ {m} \subseteq disturbed'
      /\ m \notin disturbed' => capture'[active[m]] = m
  BY <1>1, <1>2, <1>3 DEF TypeOK, Module
<1>7. TypeOK' /\ CapturesStarted' /\ CallbacksHaveModules' /\ ShownIsActive'
  BY <1>1, <1>2, <1>3, <1>4, <1>5, <1>6, AdaptersAssumption
     DEF AdaptersInv, TypeOK, CapturesStarted, CallbacksHaveModules, ShownIsActive, Module
<1>8. SinksCapture'
  <2>. SUFFICES ASSUME NEW n \in (Sink \cap exists') \ disturbed', Idle(n)'
                PROVE started'[n] /\ capture'[active'[n]] = n
    BY DEF SinksCapture
  <2>1. CASE n = m
    BY <1>2, <1>3, <1>4, <1>6, <2>1
  <2>2. CASE n # m
    <3>1. n \in (Sink \cap exists) \ disturbed /\ Idle(n) /\ n \in Module
      BY <1>1, <1>3, <1>6, <2>2 DEF Idle, TypeOK, Module
    <3>2. started[n] /\ capture[active[n]] = n /\ active[n] \in Device
      BY <3>1 DEF AdaptersInv, SinksCapture, TypeOK
    <3>. QED
      BY <1>3, <1>4, <1>6, <2>2, <3>1, <3>2, AdaptersAssumption DEF Module
  <2>. QED
    BY <2>1, <2>2
<1>. QED
  BY <1>5, <1>7, <1>8 DEF AdaptersInv

LEMMA GoneKeeps ==
  ASSUME AdaptersInv, NEW m \in Module, ModuleGone(m)
  PROVE AdaptersInv'
<1>1. todo[m] # <<>> /\ Head(todo[m]).step = "remove" /\ TypeOK /\ OrderedInv
  BY DEF ModuleGone, Goes, AdaptersInv
<1>2. /\ Ordered(todo[m], m \in Sink, started[m]) /\ started[m] \in BOOLEAN
      /\ (m \in Sink => ~started[m]) /\ Tail(todo[m]) = <<>>
  BY <1>1, InOperation
<1>3. /\ todo' = [todo EXCEPT ![m] = Tail(todo[m])] /\ exists' = exists \ {m}
      /\ UNCHANGED <<open, active, adapter, started, capture, busy, selected, disturbed>>
  BY <1>1 DEF ModuleGone, Done, TypeOK
<1>4. OrderedInv' /\ todo' \in [Module -> Seq(Step)]
  <2>1. Ordered(Tail(todo[m]), m \in Sink, started[m])
    BY <1>1, <1>2, StepOrdered
  <2>. QED
    BY <1>1, <1>2, <1>3, <2>1, OrderedAfter
<1>5. \A d \in Device : capture[d] # m
  BY <1>1, <1>2, AdaptersAssumption DEF AdaptersInv, TypeOK, CapturesStarted
<1>6. TypeOK' /\ CapturesStarted' /\ CallbacksHaveModules' /\ ShownIsActive'
  BY <1>3, <1>4, <1>5 DEF AdaptersInv, TypeOK, CapturesStarted, CallbacksHaveModules, ShownIsActive
<1>7. SinksCapture'
  BY <1>1, <1>3 DEF AdaptersInv, TypeOK, SinksCapture, Idle, Module
<1>. QED
  BY <1>4, <1>6, <1>7 DEF AdaptersInv

--------------------------------------------------------------------------------
(* The theorems.                                                             *)

LEMMA InitHolds == Init => AdaptersInv
<1>. SUFFICES ASSUME Init PROVE AdaptersInv
  OBVIOUS
<1>1. TypeOK
  BY AdaptersAssumption, EmptySeq DEF Init, TypeOK, Device
<1>2. OrderedInv
  <2>. SUFFICES ASSUME NEW m \in Module PROVE Ordered(todo[m], m \in Sink, started[m])
    BY DEF Init, OrderedInv
  <2>1. todo[m] = <<>> /\ started[m] \in BOOLEAN /\ (m \in Sink) \in BOOLEAN
    BY DEF Init
  <2>. QED
    BY <2>1, NothingOrdered
<1>3. CapturesStarted /\ CallbacksHaveModules /\ ShownIsActive /\ SinksCapture
  BY DEF Init, CapturesStarted, CallbacksHaveModules, ShownIsActive, SinksCapture
<1>. QED
  BY <1>1, <1>2, <1>3 DEF AdaptersInv

LEMMA NextKeeps == AdaptersInv /\ [Next]_vars => AdaptersInv'
<1>. SUFFICES ASSUME AdaptersInv, [Next]_vars PROVE AdaptersInv'
  OBVIOUS
<1>1. ASSUME NEW m \in Module, ModuleStep(m) PROVE AdaptersInv'
  BY <1>1, ConstructKeeps, WriteAdapterKeeps, RemoveModuleKeeps, StopKeeps, SelectKeeps, SelectFailsKeeps,
     ClearKeeps, StartKeeps, GoneKeeps DEF ModuleStep
<1>2. ASSUME NEW d \in Device, CallbackBegins(d) \/ CallbackReturns(d) PROVE AdaptersInv'
  BY <1>2, CallbackKeeps
<1>3. CASE UNCHANGED vars
  BY <1>3 DEF vars, AdaptersInv, TypeOK, OrderedInv, CapturesStarted, CallbacksHaveModules, ShownIsActive,
     SinksCapture, Idle
<1>. QED
  BY <1>1, <1>2, <1>3 DEF Next

\* What is left of the operations is in order, and the properties below hold with it
\* (network_manager_fb.cpp:66, data_sink_module_fb.cpp:46).
THEOREM Invariant == Spec => []AdaptersInv
BY InitHolds, NextKeeps, PTL DEF Spec

\* Every variable keeps its type (ethernet_pcpp_impl.h:43).
THEOREM TypeCorrect == Spec => []TypeOK
<1>1. AdaptersInv => TypeOK
  BY DEF AdaptersInv
<1>. QED
  BY <1>1, Invariant, PTL

\* No device calls a module that is gone or uses another device
\* (data_sink_module_fb.cpp:46).
THEOREM NoCallbackLeft == Spec => []CallbacksHaveModules
<1>1. AdaptersInv => CallbacksHaveModules
  BY DEF AdaptersInv
<1>. QED
  BY <1>1, Invariant, PTL

\* NetworkAdapters shows the device that is used (network_manager_fb.cpp:66).
THEOREM AdapterShown == Spec => []ShownIsActive
<1>1. AdaptersInv => ShownIsActive
  BY DEF AdaptersInv
<1>. QED
  BY <1>1, Invariant, PTL

\* A sink captures, unless another module got in the way (ethernet_pcpp_impl.cpp:130).
THEOREM SinksDoCapture == Spec => []SinksCapture
<1>1. AdaptersInv => SinksCapture
  BY DEF AdaptersInv
<1>. QED
  BY <1>1, Invariant, PTL
================================================================================
