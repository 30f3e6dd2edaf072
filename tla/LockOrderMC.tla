------------------------------ MODULE LockOrderMC ------------------------------
(* Instance of LockOrder for TLC.                                            *)
EXTENDS LockOrder, TLC

\* Configuration threads are interchangeable, and so are Streams.
Symmetry == Permutations(Configurator) \cup Permutations(Stream)

================================================================================
