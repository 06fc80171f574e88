----------------------------- MODULE MCAtomicFile -----------------------------
(***************************************************************************)
(* Instances of AtomicFile for TLC.  The bounds are the calls made (each   *)
(* constant set of calls is made once), the names mkostemp may draw and the*)
(* directories the parent path may name.                                   *)
(***************************************************************************)
EXTENDS AtomicFileInvariant, TLC

\* The names mkostemp draws are interchangeable.
NameSymmetry == Permutations(TempNames)

AllFaults == Steps
==============================================================================
