--------------------------- MODULE CaptureStatusMC ---------------------------
(* Symmetry sets for the model checking of CaptureStatus; the runs of a      *)
(* temporal property use none.                                               *)
EXTENDS CaptureStatus, TLC

\* Function blocks of one kind are compared and never ordered.
Symmetry == Permutations(Interface) \cup Permutations(Stream)
==============================================================================
