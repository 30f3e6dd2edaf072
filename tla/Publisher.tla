------------------------------ MODULE Publisher ------------------------------
(***************************************************************************)
(* Publisher<Topic, Subscriber> of publisher.h, the table through which    *)
(* the capture thread of the data sink finds the function blocks that want *)
(* a packet.  The code keeps an unordered_multimap from topics to          *)
(* pointers; a table here is the function that counts, for each subscriber *)
(* and each topic, the entries the multimap holds.                         *)
(*                                                                         *)
(* subscribe, unsubscribe and publish each run under subscribersMt, so one *)
(* operator is one critical section.                                       *)
(***************************************************************************)
EXTENDS Integers

EmptyTable(Subscriber, Topic) == [sub \in Subscriber |-> [topic \in Topic |-> 0]]

\* The subscribers publish(topic, ...) calls receive on.
Subscribers(table, topic) == {sub \in DOMAIN table : table[sub][topic] > 0}

\* The multimap without one of the entries that map topic to sub.
Erase(table, topic, sub) == [table EXCEPT ![sub][topic] = @ - 1]

\* subscribe: always inserts, even an entry that is there already.
Subscribe(table, topic, sub) == [table EXCEPT ![sub][topic] = @ + 1]

\* What find_if and erase leave when sub has no entry under topic: find_if
\* returns range.second, and the guard compares that with end().  With no
\* entry under the topic both are end().  Otherwise range.second is the entry
\* that follows the range in the container: nothing is erased if the range is
\* the last, else an entry of another topic is, and which one is up to the
\* hash table.
UnsubscribeMiss(table, topic) ==
  IF Subscribers(table, topic) = {}
  THEN {table}
  ELSE {table} \cup
       UNION {{Erase(table, other, sub) : other \in {t \in DOMAIN table[sub] :
                  t # topic /\ table[sub][t] > 0}} : sub \in DOMAIN table}

\* Faults of unsubscribe: it erases without having found, or erases by the key,
\* as unordered_multimap::erase(key) does.
UnsubscribeUnguarded(table, topic, sub) == {Erase(table, topic, sub)}

UnsubscribeTopic(table, topic, sub) ==
  {[x \in DOMAIN table |-> [table[x] EXCEPT ![topic] = 0]]}

\* unsubscribe: the tables it may leave.
Unsubscribe(table, topic, sub) ==
  IF table[sub][topic] > 0
  THEN {Erase(table, topic, sub)}
  ELSE UnsubscribeMiss(table, topic)
==============================================================================
