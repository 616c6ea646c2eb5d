--------------------------- MODULE MCCommandQueue ---------------------------
(***************************************************************************)
(* Small instances of CommandQueue for TLC.                                *)
(***************************************************************************)
EXTENDS CommandQueue, TLC

TwoPriorities == {1, -1}

\* Calls that may be made in any order are interchangeable.
EntrySymmetry == Permutations(Entries)
=============================================================================
