------------------------------ MODULE IdManager ------------------------------
(***************************************************************************)
(* The identifier pool of ASAM CMP function blocks, IdManager<T> of        *)
(* id_manager.h.  A pool is a value [used, unused]: `used' is usedIds, the *)
(* identifiers handed out, `unused' is unusedIds, those that were given    *)
(* back.  The width of T is the parameter max, numeric_limits<T>::max():   *)
(* 255 for StreamIdManager and 2^32 - 1 for InterfaceIdManager.            *)
(*                                                                         *)
(* Every operator takes a pool and returns a pool (or the identifiers that *)
(* the code may return), so that the modules that own a pool keep it as a  *)
(* part of their state.                                                    *)
(***************************************************************************)
EXTENDS Integers

\* The pool of a new function block.
EmptyIds == [used |-> {}, unused |-> {}]

\* All pools over the identifiers 0..max.
IdPools(max) == [used : SUBSET (0..max), unused : SUBSET (0..max)]

\* isValidId: the argument fits in T and is not in use.
IsValidId(ids, id, max) == id \in 0..max /\ id \notin ids.used

\* Fault: the identifier is handed out and stays among those given back.
AddIdKeepsUnused(ids, id, max) ==
  IF IsValidId(ids, id, max) THEN [ids EXCEPT !.used = @ \cup {id}] ELSE ids

\* addId: an identifier that is in use already is ignored.
AddId(ids, id, max) ==
  IF IsValidId(ids, id, max)
  THEN [used |-> ids.used \cup {id}, unused |-> ids.unused \ {id}]
  ELSE ids

\* Fault: the identifier is given back and stays in use.
RemoveIdKeepsUsed(ids, id) ==
  IF id \in ids.used THEN [ids EXCEPT !.unused = @ \cup {id}] ELSE ids

\* removeId: an identifier that is not in use is ignored.
RemoveId(ids, id) ==
  IF id \in ids.used
  THEN [used |-> ids.used \ {id}, unused |-> ids.unused \cup {id}]
  ELSE ids

\* Fault: the count does not wrap.
MinUnusedIdsUnwrapped(ids, max) ==
  LET free == (1..max + 1) \ ids.used
  IN  {id \in free : \A other \in free : id <= other}

\* getMinUnusedId: the least identifier from 1 on that is not in use, as a set
\* of one.  The code finds it by counting up in T, which wraps to 0 when 1..max
\* are all used.
MinUnusedIds(ids, max) ==
  LET free == (1..max) \ ids.used
  IN  IF free = {} THEN {0} ELSE {id \in free : \A other \in free : id <= other}

\* getFirstUnusedId: an identifier that was given back if there is one.  The
\* order of an unordered_set is not specified, so its first may be any of them.
FirstUnusedIds(ids, max) ==
  IF ids.unused = {} THEN MinUnusedIds(ids, max) ELSE ids.unused
==============================================================================
