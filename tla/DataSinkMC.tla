------------------------------ MODULE DataSinkMC ------------------------------
(* Symmetry and bounds for the model checking of DataSink, and the check of  *)
(* the operator MinUnusedIds against the loop it stands for.                 *)
EXTENDS DataSink, FiniteSets, TLC

\* The function blocks of one kind are interchangeable: their identities are
\* compared and never ordered.
Symmetry == Permutations(Capture) \cup Permutations(Interface) \cup Permutations(Stream)

Existing(blocks) == {b \in DOMAIN blocks : blocks[b] # NoFb}

\* The blocks that are being updated.
Updating ==
  {c \in Existing(capture) : capture[c].updating} \cup {i \in Existing(interface) : interface[i].updating}

\* One Capture block and any tree below it, of which one block is updated at a
\* time.
OneCapture ==
  /\ Cardinality(Existing(capture)) <= 1
  /\ Cardinality(Updating) <= 1

\* Any Capture blocks with one Stream, which has StreamId 1, below one of them.
OneStream ==
  /\ Cardinality(Existing(interface)) <= 1
  /\ Cardinality(Existing(stream)) <= 1
  /\ \A i \in Existing(interface) : interface[i].interfaceId = 1
  /\ \A s \in Existing(stream) : stream[s].streamId = 1
  /\ Updating = {}

\* The states from which the run goes on: the publishers are filled from below by
\* a tree with two of each kind or from above by three Capture blocks.
Bounded == OneCapture \/ OneStream

\* The loop of getMinUnusedId: result, in the arithmetic of T, after the
\* elements of usedIds up to e, which a std::set yields in ascending order.
CountedId(used, max) ==
  LET result[e \in 0..max] ==
        LET before == IF e = 0 THEN 1 ELSE result[e - 1]
        IN  IF e \in used /\ before = e THEN (before + 1) % (max + 1) ELSE before
  IN  result[max]

\* The loop yields what MinUnusedIds says, for every pool over a small T; with
\* all identifiers from 1 on in use that is 0, whether 0 is in use or not.
ASSUME MinUnusedIdsIsTheLoop ==
  \A max \in 1..5 : \A used \in SUBSET (0..max) :
    MinUnusedIds([used |-> used, unused |-> {}], max) = {CountedId(used, max)}
===============================================================================
