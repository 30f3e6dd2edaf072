---------------------------- MODULE StreamInputMC ----------------------------
(* Signals, bounds and symmetry sets for the model checking of StreamInput.  *)
EXTENDS StreamChannel, TLC

CONSTANTS s1, s2 \* the members of Stream

\* A bound for each of the two streams.
Each(a, b) == [s \in Stream |-> IF s = s1 THEN a ELSE b]
Types == Each({"can", "analog"}, {"analog"})
PartsOf == Each({1}, {2})
LengthsOf == Each({8}, {8})
Packets == Each(2, 1)
Connections == Each(2, 1)
Events == Each(0, 1)
Writes == Each(1, 0)

Signal(type, canStruct, range, postScaling) ==
  [sampleType |-> type, canStruct |-> canStruct, scalar |-> TRUE, explicitRule |-> TRUE,
   range |-> range, postScaling |-> postScaling]

Can == Signal("Struct", TRUE, FALSE, "none")
Scaled == Signal("Float", FALSE, FALSE, "Int32")
Ranged == Signal("Float", FALSE, TRUE, "none")

Kinds == Each({Can}, {Ranged, Scaled})

\* The smaller instance without symmetry, for the refinement and its liveness.
ChannelTypes == Each({"analog"}, {"analog"})
ChannelKinds == Each({Scaled, Can}, {Ranged})
ChannelParts == Each({2}, {1})
ChannelEvents == Each(0, 0)
ChannelWrites == Each(0, 0)

Symmetry == Permutations(Worker)

\* Bound: a status packet, or a second connection, packet or descriptor.
Bounded ==
  \/ statusLoop = Waits /\ statusWire = <<>>
  \/ connection[s1] <= 1 /\ source[s1].packets <= 1 /\ source[s2].events = 0
==============================================================================
