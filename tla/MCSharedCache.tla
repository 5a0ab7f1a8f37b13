---------------------------- MODULE MCSharedCache ----------------------------
(***************************************************************************)
(* Small instances of SharedCache for TLC.                                 *)
(***************************************************************************)
EXTENDS SharedCache, TLC

CONSTANTS c1, c2, m1, m2, k1, k2

\* The names are interchangeable.
AnyName == Permutations(Keys)
==============================================================================
