--------------------------- MODULE MCClassicSession ---------------------------
(***************************************************************************)
(* Small instances of ClassicSession for TLC.                              *)
(***************************************************************************)
EXTENDS ClassicSession, TLC

CONSTANTS r1, r2, r3, b1, b2

\* One browser that sends every request.
OneBrowser == [r \in Requests |-> b1]

\* A browser that sends a request, and one that sends the others.
TwoBrowsers == [r \in Requests |-> IF r = r1 THEN b1 ELSE b2]

\* The requests of a single browser are interchangeable.
AnyOrder == Permutations(Requests)
=============================================================================
