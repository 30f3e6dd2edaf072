---------------------------- MODULE SinkDispatchMC ----------------------------
(* The frames and the symmetry set for the model checking of SinkDispatch.   *)
EXTENDS SinkDispatch, TLC

CONSTANTS infoA, infoB \* the members of Infos

Cm(info) == [type |-> "cmStatMsg", info |-> info]
If(interface) == [type |-> "ifStatMsg", interface |-> interface]
Can(interface) == [type |-> "can", interface |-> interface]
Analog(interface) == [type |-> "analog", interface |-> interface]

StatusFrame(device, messages) == [device |-> device, messageType |-> "status", messages |-> messages]
DataFrame(messages) == [device |-> 1, messageType |-> "data", messages |-> messages]

\* Statuses of two devices, alone and in pairs, and pairs of data messages that
\* agree, or differ in the type or in the interface.
AllFrames ==
  {StatusFrame(0, <<Cm(infoA), If(1)>>)} \cup
  {StatusFrame(1, messages) :
     messages \in {<<Cm(infoA)>>, <<Cm(infoB)>>, <<If(1)>>, <<If(2), Cm(infoA)>>}} \cup
  {DataFrame(messages) :
     messages \in {<<Can(1), Can(1)>>, <<Can(1), Analog(1)>>, <<Can(1), Can(2)>>}}

\* No two blocks are updated at once, and none once a block came from the status:
\* those are left out of StatusReachesBlocks.
Bounded ==
  Cardinality({b \in Block : block[b] # None /\ block[b].pending # None}) <= IF fromStatus THEN 0 ELSE 1

Symmetry == Permutations(Block)
===============================================================================
