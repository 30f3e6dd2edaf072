----------------------------- MODULE SinkStreamMC -----------------------------
(* The messages for the model checking of SinkStream.                        *)
EXTENDS SinkStream

Analog(interval, scaling) == [type |-> "analog", interval |-> interval, scaling |-> scaling]
Async(type) == [type |-> type, interval |-> Misread, scaling |-> Misread]

\* One message of each kind, two of a kind, and two analog ones that differ.
AllBatches ==
  {<<Analog(interval, scaling)>> : interval \in Intervals, scaling \in Scalings} \cup
  {<<Async(type)>> : type \in PayloadTypes \ {"analog"}} \cup
  {<<Async("can"), Async("can")>>, <<Async("ethernet"), Async("ethernet")>>} \cup
  {<<Analog(i, s), Analog(j, s)>> : i, j \in Intervals, s \in Scalings}
===============================================================================
