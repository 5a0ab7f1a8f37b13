----------------------------- MODULE MCRedLock -----------------------------
(***************************************************************************)
(* A small instance of RedLock for TLC.                                    *)
(***************************************************************************)
EXTENDS RedLock

CONSTANTS cont, net  \* a client of CRedLock that extends its lock, a managed one

\* Two calls are enough to extend a lock or to lock again.
CallsPerClient == [c \in Clients |-> IF c = cont THEN 2 ELSE 1]

============================================================================
