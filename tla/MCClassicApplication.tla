------------------------- MODULE MCClassicApplication -------------------------
(***************************************************************************)
(* Small instances of ClassicApplication for TLC.                          *)
(***************************************************************************)
EXTENDS ClassicApplication, TLC

CONSTANTS p1, p2, p3, k1, k2

\* The pages are interchangeable, and so are the names.
AnyPageAnyName == Permutations(Pages) \cup Permutations(Keys)
=============================================================================
