----------------------------- MODULE MCSessionFarm -----------------------------
(***************************************************************************)
(* Small instances of SessionFarm for TLC.                                 *)
(***************************************************************************)
EXTENDS SessionFarm, TLC

CONSTANTS r1, r2, r3, r4, b1

\* A browser that sends every request.
OneBrowser == [r \in Requests |-> b1]

\* The requests of one browser are interchangeable.
AnyOrder == Permutations(Requests)

Both == {"managed", "core"}

\* Sites on which the contract is kept: both programs with a lasting id and
\* every fault but unread time-outs; both, with ids that may be taken up again,
\* which makes time-outs harmless; the managed module with a rotating id.
KeepingSites ==
    { [servers |-> Both, liquid |-> FALSE, reentrance |-> FALSE,
       ops |-> AllOps, faults |-> {"crash", "expiry"}],
      [servers |-> Both, liquid |-> FALSE, reentrance |-> TRUE,
       ops |-> AllOps, faults |-> {"timeout", "expiry"}],
      [servers |-> {"managed"}, liquid |-> TRUE, reentrance |-> FALSE,
       ops |-> AllOps \ {"abandon"}, faults |-> {"expiry"}],
      [servers |-> {"managed"}, liquid |-> TRUE, reentrance |-> TRUE,
       ops |-> AllOps \ {"abandon"}, faults |-> {"timeout"}] }

\* The ASP.NET Core session with a rotating id.
RotatingCore ==
    { [servers |-> {"core"}, liquid |-> TRUE, reentrance |-> FALSE,
       ops |-> {"put"}, faults |-> {}] }
================================================================================
