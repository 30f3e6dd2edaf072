-------------------------------- MODULE Adapters --------------------------------
(***************************************************************************)
(* The network adapters that the modules of a process select, and the      *)
(* capture that a data sink keeps running on the one it has.               *)
(*                                                                         *)
(* Every module has an Ethernet wrapper of its own, but the devices behind *)
(* them are the ones of the singleton PcapLiveDeviceList: a device is      *)
(* opened, captures and is stopped for all modules at once, and it has one *)
(* callback.  Modules are configured by threads of their own; a thread of  *)
(* each capturing device calls the callback.                               *)
(***************************************************************************)
EXTENDS Naturals, Sequences

CONSTANTS
  Sink,         \* data sink modules, which capture
  Sender,       \* capture modules, which only send
  None,         \* no module, no operation
  DeviceCount   \* the devices are 1..DeviceCount, in the order of the list

Module == Sink \cup Sender
Device == 1..DeviceCount

ASSUME AdaptersAssumption ==
  /\ DeviceCount \in Nat \ {0}
  /\ Sink \cap Sender = {}
  /\ None \notin Module

VARIABLES
  exists,     \* the modules there are
  open,       \* the devices that are open; nobody closes one
  active,     \* activeDevice of each wrapper
  adapter,    \* NetworkAdapters and NetworkAdaptersNames of each module
  started,    \* captureStartedOnThisFb
  todo,       \* what is left of the operation a module's thread is in
  capture,    \* whose callback a device calls
  busy,       \* the device's thread is in the callback
  selected,   \* history: a write to NetworkAdapters of the module has succeeded
  disturbed   \* history: another module stopped or kept the capture of this one

vars == <<exists, open, active, adapter, started, todo, capture, busy, selected, disturbed>>

\* The steps of an operation: DataSinkModuleFb::stopCapture, the test and the
\* call in the wrapper's startCapture, and the selection of a device.
Stop == [step |-> "stop"]
Select(new) == [step |-> "select", new |-> new]
Start == <<[step |-> "clear"], [step |-> "start"]>>
Remove == [step |-> "remove"]
Step == [step : {"stop", "clear", "start", "remove"}] \cup [step : {"select"}, new : Device]

\* networkAdapterChangedInternal of the two kinds of modules.
Changed(m, new) == IF m \in Sink THEN <<Stop, Select(new)>> \o Start ELSE <<Select(new)>>

Init ==
  /\ exists = {}
  /\ open = {}
  /\ active = [m \in Module |-> 1]
  /\ adapter = [m \in Module |-> 1]
  /\ started = [m \in Module |-> FALSE]
  /\ todo = [m \in Module |-> <<>>]
  /\ capture = [d \in Device |-> None]
  /\ busy = [d \in Device |-> FALSE]
  /\ selected = {} /\ disturbed = {}

Idle(m) == todo[m] = <<>>
Goes(m, step) == todo[m] # <<>> /\ Head(todo[m]).step = step
Done(m) == todo' = [todo EXCEPT ![m] = Tail(@)]

--------------------------------------------------------------------------------
\* The constructors: the wrapper and addNetworkAdaptersProperty take the first
\* device that opens, the properties show the first of the list, and a sink
\* starts to capture.
Construct(m, d) ==
  /\ m \notin exists /\ Idle(m)
  /\ \A before \in 1..d - 1 : before \notin open
  /\ exists' = exists \cup {m}
  /\ open' = open \cup {d}
  /\ active' = [active EXCEPT ![m] = d]
  /\ adapter' = [adapter EXCEPT ![m] = 1]
  /\ todo' = [todo EXCEPT ![m] = IF m \in Sink THEN Start ELSE <<>>]
  /\ selected' = selected \ {m} /\ disturbed' = disturbed \ {m}
  /\ UNCHANGED <<started, capture, busy>>

\* Fault: the device is selected before the capture is stopped.
WriteAdapterSelectsFirst(m, new) ==
  /\ m \in exists /\ Idle(m) /\ adapter[m] # new
  /\ todo' = [todo EXCEPT ![m] = IF m \in Sink THEN <<Select(new), Stop>> \o Start ELSE <<Select(new)>>]
  /\ UNCHANGED <<exists, open, active, adapter, started, capture, busy, selected, disturbed>>

\* A write of NetworkAdapters.
WriteAdapter(m, new) ==
  /\ m \in exists /\ Idle(m) /\ adapter[m] # new
  /\ todo' = [todo EXCEPT ![m] = Changed(m, new)]
  /\ UNCHANGED <<exists, open, active, adapter, started, capture, busy, selected, disturbed>>

\* The wrapper stops the device that is active, whoever captures on it, and
\* waits for the callback.
StopDevice(m) ==
  LET d == active[m] IN
  /\ ~busy[d]
  /\ capture' = [capture EXCEPT ![d] = None]
  /\ disturbed' = disturbed \cup ({capture[d]} \ {None, m})

\* DataSinkModuleFb::stopCapture
StopCapture(m) ==
  /\ Goes(m, "stop")
  /\ IF started[m] THEN StopDevice(m) ELSE UNCHANGED <<capture, disturbed>>
  /\ started' = [started EXCEPT ![m] = FALSE]
  /\ Done(m)
  /\ UNCHANGED <<exists, open, active, adapter, busy, selected>>

\* setDevice succeeds: a device that is open opens again.
SelectDevice(m) ==
  /\ Goes(m, "select")
  /\ active' = [active EXCEPT ![m] = Head(todo[m]).new]
  /\ adapter' = [adapter EXCEPT ![m] = Head(todo[m]).new]
  /\ open' = open \cup {Head(todo[m]).new}
  /\ selected' = selected \cup {m}
  /\ Done(m)
  /\ UNCHANGED <<exists, started, capture, busy, disturbed>>

\* Fault: the failed selection stays in the property.
SelectFailsShown(m) ==
  /\ Goes(m, "select") /\ Head(todo[m]).new \notin open
  /\ adapter' = [adapter EXCEPT ![m] = Head(todo[m]).new]
  /\ Done(m)
  /\ UNCHANGED <<exists, open, active, started, capture, busy, selected, disturbed>>

\* Fault: the wrapper keeps a device that did not open.
SelectFailsKept(m) ==
  /\ Goes(m, "select") /\ Head(todo[m]).new \notin open
  /\ active' = [active EXCEPT ![m] = Head(todo[m]).new]
  /\ Done(m)
  /\ UNCHANGED <<exists, open, adapter, started, capture, busy, selected, disturbed>>

\* setDevice fails: the old index goes back into NetworkAdapters, which runs the
\* handler again in the middle of this one, unless it fails for the old index.
SelectFails(m) ==
  /\ Goes(m, "select") /\ Head(todo[m]).new \notin open
  /\ todo' = [todo EXCEPT ![m] =
       (IF Head(@).new = adapter[m] THEN <<>> ELSE Changed(m, adapter[m])) \o Tail(@)]
  /\ UNCHANGED <<exists, open, active, adapter, started, capture, busy, selected, disturbed>>

\* EthernetPcppImpl::startCapture stops what captures on the device ...
ClearDevice(m) ==
  /\ Goes(m, "clear")
  /\ StopDevice(m)
  /\ Done(m)
  /\ UNCHANGED <<exists, open, active, adapter, started, busy, selected>>

\* Fault: a module that has started a capture does not start another one.
StartDeviceOnce(m) ==
  /\ Goes(m, "start")
  /\ capture' = [capture EXCEPT ![active[m]] = IF @ = None /\ ~started[m] THEN m ELSE @]
  /\ started' = [started EXCEPT ![m] = TRUE]
  /\ disturbed' = disturbed
  /\ Done(m)
  /\ UNCHANGED <<exists, open, active, adapter, busy, selected>>

\* ... and starts its own capture, which fails if there is one again.
StartDevice(m) ==
  LET d == active[m] IN
  /\ Goes(m, "start")
  /\ capture' = [capture EXCEPT ![d] = IF @ = None THEN m ELSE @]
  /\ disturbed' = IF capture[d] \in {None, m} THEN disturbed \ {m} ELSE disturbed \cup {m}
  /\ started' = [started EXCEPT ![m] = TRUE]
  /\ Done(m)
  /\ UNCHANGED <<exists, open, active, adapter, busy, selected>>

\* remove: a sink stops its capture and then leaves.
RemoveModule(m) ==
  /\ m \in exists /\ Idle(m)
  /\ todo' = [todo EXCEPT ![m] = IF m \in Sink THEN <<Stop, Remove>> ELSE <<Remove>>]
  /\ UNCHANGED <<exists, open, active, adapter, started, capture, busy, selected, disturbed>>

ModuleGone(m) ==
  /\ Goes(m, "remove")
  /\ exists' = exists \ {m}
  /\ Done(m)
  /\ UNCHANGED <<open, active, adapter, started, capture, busy, selected, disturbed>>

\* The thread of a device calls onPacketArrives of the module that captures.
CallbackBegins(d) ==
  /\ capture[d] # None /\ ~busy[d]
  /\ busy' = [busy EXCEPT ![d] = TRUE]
  /\ UNCHANGED <<exists, open, active, adapter, started, todo, capture, selected, disturbed>>

CallbackReturns(d) ==
  /\ busy[d]
  /\ busy' = [busy EXCEPT ![d] = FALSE]
  /\ UNCHANGED <<exists, open, active, adapter, started, todo, capture, selected, disturbed>>

ModuleStep(m) ==
  \/ \E d \in Device : Construct(m, d) \/ WriteAdapter(m, d)
  \/ RemoveModule(m)
  \/ StopCapture(m) \/ SelectDevice(m) \/ SelectFails(m) \/ ClearDevice(m) \/ StartDevice(m)
  \/ ModuleGone(m)

Next ==
  \/ \E m \in Module : ModuleStep(m)
  \/ \E d \in Device : CallbackBegins(d) \/ CallbackReturns(d)

Spec == Init /\ [][Next]_vars

--------------------------------------------------------------------------------
(* Properties.                                                               *)

\* Every variable has its type (ethernet_pcpp_impl.h:43).
TypeOK ==
  /\ exists \subseteq Module
  /\ open \subseteq Device
  /\ active \in [Module -> Device] /\ adapter \in [Module -> Device]
  /\ started \in [Module -> BOOLEAN]
  /\ todo \in [Module -> Seq(Step)]
  /\ capture \in [Device -> Sink \cup {None}]
  /\ busy \in [Device -> BOOLEAN]
  /\ selected \subseteq Module /\ disturbed \subseteq Module
  /\ \A m \in exists : active[m] \in open

\* No device calls a module that is gone, nor will: a module that leaves, or
\* selects another device, has no capture left behind, even if modules share the
\* device and stop each other's captures (data_sink_module_fb.cpp:46).
CallbacksHaveModules ==
  \A d \in Device :
    /\ capture[d] # None => capture[d] \in exists /\ active[capture[d]] = d
    /\ busy[d] => capture[d] # None

\* NetworkAdapters shows the device that the module uses, also after writes that
\* failed and were taken back, once a write has succeeded; before the first one
\* it shows the first of the list (network_manager_fb.cpp:66).
ShownIsActive ==
  \A m \in selected \cap exists : adapter[m] = active[m]

\* A sink captures on its device whenever no operation on it is under way, unless
\* another module on the same device has got in the way (ethernet_pcpp_impl.cpp:130).
SinksCapture ==
  \A m \in (Sink \cap exists) \ disturbed : Idle(m) => started[m] /\ capture[active[m]] = m
================================================================================
