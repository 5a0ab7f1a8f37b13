----------------------------- MODULE SharedCache -----------------------------
(***************************************************************************)
(* One application cache used by classic ASP pages (ClassicApplication)    *)
(* and by ASP.NET and ASP.NET Core pages (ManagedCache): both keep the     *)
(* same set and the same strings in one Redis database.                    *)
(***************************************************************************)
EXTENDS ClassicApplication

CONSTANTS
    ManagedPages,  \* the pages of ASP.NET and ASP.NET Core; the others are classic
    CorePages      \* those of ASP.NET Core

VARIABLES
    mphase,    \* phase of the managed pages
    mapp,      \* their ApplicationCache objects
    halfway    \* names a save or their time to live left without a string

fvars == <<names, strings, expiring, phase, app, mphase, mapp, halfway>>

ASSUME SharedCacheAssumption ==
    /\ ManagedPages \subseteq Pages
    /\ CorePages \subseteq ManagedPages

Managed == INSTANCE ManagedCache WITH phase <- mphase, app <- mapp

FarmInit ==
    /\ Init
    /\ mphase = [p \in Pages |-> "idle"]
    /\ mapp = [p \in Pages |-> Managed!NewCache]
    /\ halfway = {}

ClassicPages == Pages \ ManagedPages

\* halfway is a record of what happened; no code reads it.
StillHalfway(more) ==
    halfway' = {k \in halfway \cup more : strings'[k] = None}

ClassicStep(p) ==
    /\ OnStartPage(p) \/ Script(p) \/ OnEndPage(p)
    /\ StillHalfway({})
    /\ UNCHANGED <<mphase, mapp>>

ManagedStep(p) ==
    /\ Managed!Step(p)
    /\ StillHalfway({})
    /\ UNCHANGED <<phase, app>>

ManagedFault(p) ==
    /\ Managed!Fault(p)
    /\ StillHalfway(Managed!OnTheirWay(p))
    /\ UNCHANGED <<phase, app>>

TimeToLive ==
    /\ Expire
    /\ StillHalfway(expiring)
    /\ UNCHANGED <<mphase, mapp>>

ClassicCrash ==
    /\ Crash
    /\ UNCHANGED <<mphase, mapp, halfway>>

FarmDone ==
    /\ \A p \in ClassicPages : phase[p] = "done"
    /\ \A p \in ManagedPages : mphase[p] = "done"
    /\ UNCHANGED fvars

FarmNext ==
    \/ \E p \in ClassicPages : ClassicStep(p)
    \/ \E p \in ManagedPages : ManagedStep(p) \/ ManagedFault(p)
    \/ TimeToLive \/ ClassicCrash \/ FarmDone

FarmSpec == FarmInit /\ [][FarmNext]_fvars

-----------------------------------------------------------------------------
FarmTypeOK ==
    /\ TypeOK
    /\ Managed!TypeOK
    /\ halfway \subseteq {k \in Keys : strings[k] = None}

\* A name without a string is one whose time to live ended, one that a page is
\* adding at this moment, or one that a save left behind that was cut short.
\* Otherwise every server of the farm, whatever the others do in between, gives
\* each name it adds its string.
GhostsExplained ==
    \A k \in names :
        strings[k] = None =>
            k \in halfway \/ \E p \in ManagedPages : k \in Managed!OnTheirWay(p)
=============================================================================
