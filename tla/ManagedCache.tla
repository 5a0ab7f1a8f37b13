---------------------------- MODULE ManagedCache ----------------------------
(***************************************************************************)
(* The application cache of the managed module for ASP.NET and of the      *)
(* middleware for ASP.NET Core: ApplicationCache.cs, and ApplicationGet    *)
(* and ApplicationSave of CSessionDL.cs.                                   *)
(*                                                                         *)
(* They keep the names and strings of module ClassicApplication, under the *)
(* same keys.  The code creates a transaction, but sends the commands of a *)
(* save past it, one by one and without waiting for an answer:             *)
(*                                                                         *)
(*   idle -SMEMBERS-> mget -MGET-> open -> sadd -> srem -> mset -> done    *)
(*                                                                         *)
(* The core cache loads when a page first uses it; a page that never does  *)
(* stays idle.  ExpireKeyAt is left out: KeyExpire is sent for the bare    *)
(* name, which is the key of no string of the cache.                       *)
(***************************************************************************)
EXTENDS Naturals

CONSTANTS
    Keys,      \* the names the pages use
    Pages,     \* the pages, each with its own ApplicationCache
    CorePages, \* those of ASP.NET Core
    None,      \* Redis has no such string
    Empty,     \* a value that only classic pages store
    Absent,    \* the dictionary has no such name
    Ops,       \* the methods the pages use
    MaxOps,    \* how many of them one page calls
    Faults     \* may commands be lost and worker processes die?

VARIABLES
    names,     \* the members of the set APPKEY
    strings,   \* strings[k]: the string under APPKEY:K, or None
    expiring,  \* the strings that have a time to live
    phase,     \* phase[p]: how far the page is
    app        \* app[p]: its ApplicationCache

redis == <<names, strings, expiring>>
vars == <<names, strings, expiring, phase, app>>

\* ElementModel; a value is the page that assigned it.
Element == [val : Pages \cup {Empty}, IsNew : BOOLEAN, IsDirty : BOOLEAN]

ApplicationCache ==
    [members : SUBSET Keys,
     dictionary : [Keys -> Element \cup {Absent}],
     removed : SUBSET Keys,
     calls : 0..MaxOps]

NewCache == [members |-> {}, dictionary |-> [k \in Keys |-> Absent],
             removed |-> {}, calls |-> 0]

Init ==
    /\ phase = [p \in Pages |-> "idle"]
    /\ app = [p \in Pages |-> NewCache]

Here(a) == {k \in Keys : a.dictionary[k] # Absent}

----------------------------------------------------------------------------
(* ApplicationGet *)

GetMembers(p) ==
    /\ phase[p] = "idle"
    /\ app' = [app EXCEPT ![p].members = names]
    /\ phase' = [phase EXCEPT ![p] = IF names = {} THEN "open" ELSE "mget"]
    /\ UNCHANGED redis

\* Mutated form of Loaded: a name without a string is entered as an element.
LoadedGhost(v) == [val |-> v, IsNew |-> FALSE, IsDirty |-> FALSE]

\* DeserializeKey
Loaded(v) == IF v = None THEN Absent ELSE [val |-> v, IsNew |-> FALSE, IsDirty |-> FALSE]

\* MGET: members without a string are passed over, and stay in the set.
GetStrings(p) ==
    /\ phase[p] = "mget"
    /\ app' = [app EXCEPT
                 ![p].dictionary = [k \in Keys |-> IF k \in app[p].members
                                                   THEN Loaded(strings[k]) ELSE Absent],
                 ![p].members = {}]
    /\ phase' = [phase EXCEPT ![p] = "open"]
    /\ UNCHANGED redis

\* The load throws.  That is the end of a page of the managed module.  A core
\* page that catches it goes on with an empty cache: LoadAsync has set
\* _wasLoaded before it loaded anything.
LoadFails(p) ==
    /\ Faults
    /\ phase[p] \in {"idle", "mget"}
    /\ app' = [app EXCEPT ![p] = NewCache]
    /\ phase' = [phase EXCEPT ![p] = IF p \in CorePages THEN "open" ELSE "done"]
    /\ UNCHANGED redis

----------------------------------------------------------------------------
(* The methods a page calls *)

Method(p, op, a) ==
    /\ phase[p] = "open"
    /\ op \in Ops
    /\ app[p].calls < MaxOps
    /\ app' = [app EXCEPT ![p] = [a EXCEPT !.calls = @ + 1]]
    /\ UNCHANGED <<names, strings, expiring, phase>>

\* The setter of the indexer: a new element replaces the old one, with its
\* marks.  A name that is assigned twice is no longer new, but dirty.
Assign(p) ==
    \E k \in Keys :
       Method(p, "put", [app[p] EXCEPT !.dictionary[k] =
                           [val |-> p, IsNew |-> k \notin Here(app[p]),
                                       IsDirty |-> k \in Here(app[p])]])

Without(a, keys) ==
    [a EXCEPT !.dictionary = [k \in Keys |-> IF k \in keys THEN Absent ELSE @[k]],
              !.removed = @ \cup keys]

RemoveKey(p) == \E k \in Here(app[p]) : Method(p, "remove", Without(app[p], {k}))

RemoveAll(p) == Method(p, "removeAll", Without(app[p], Here(app[p])))

----------------------------------------------------------------------------
(* ApplicationSave, command by command *)

NewKeys(a) == {k \in Here(a) : a.dictionary[k].IsNew}
ChangedKeys(a) == {k \in Here(a) : a.dictionary[k].IsDirty} \ NewKeys(a)

Edited(a) == NewKeys(a) \cup ChangedKeys(a) \cup a.removed

\* The object ends with its page.
Send(p, now, next) ==
    /\ phase[p] = now
    /\ phase' = [phase EXCEPT ![p] = next]
    /\ app' = IF next = "done" THEN [app EXCEPT ![p] = NewCache] ELSE app

\* KeyStates: nothing is sent for a page that edited nothing.
ApplicationSave(p) ==
    /\ Send(p, "open", IF Edited(app[p]) = {} THEN "done" ELSE "sadd")
    /\ UNCHANGED redis

SetAdd(p) ==
    /\ Send(p, "sadd", "srem")
    /\ names' = names \cup NewKeys(app[p])
    /\ UNCHANGED <<strings, expiring>>

\* SREM: the strings of the removed names stay.
SetRemove(p) ==
    /\ Send(p, "srem", "mset")
    /\ names' = names \ app[p].removed
    /\ UNCHANGED <<strings, expiring>>

\* Mutated form of Written: the strings of the new names are not sent.
WrittenChanged(a) == ChangedKeys(a)

\* The names whose strings MSET writes.
Written(a) == NewKeys(a) \cup ChangedKeys(a)

\* MSET ends the time to live of what it writes.  The empty transaction follows.
StringSet(p) ==
    LET written == Written(app[p])
    IN /\ Send(p, "mset", "done")
       /\ strings' = [k \in Keys |-> IF k \in written THEN app[p].dictionary[k].val
                                     ELSE strings[k]]
       /\ expiring' = expiring \ written
       /\ UNCHANGED names

\* A command that was sent without waiting for its answer is lost; the next
\* one may not be.
CommandLost(p) ==
    /\ Faults
    /\ \/ Send(p, "sadd", "srem")
       \/ Send(p, "srem", "mset")
       \/ Send(p, "mset", "done")
    /\ UNCHANGED redis

\* The worker process dies, or an exception ends the page before it saves.
Crash(p) ==
    /\ Faults
    /\ phase[p] \notin {"idle", "done"}
    /\ Send(p, phase[p], "done")
    /\ UNCHANGED redis

Step(p) ==
    \/ GetMembers(p) \/ GetStrings(p)
    \/ Assign(p) \/ RemoveKey(p) \/ RemoveAll(p)
    \/ ApplicationSave(p) \/ SetAdd(p) \/ SetRemove(p) \/ StringSet(p)

Fault(p) == LoadFails(p) \/ CommandLost(p) \/ Crash(p)

----------------------------------------------------------------------------
TypeOK ==
    /\ phase \in [Pages -> {"idle", "mget", "open", "sadd", "srem", "mset", "done"}]
    /\ app \in [Pages -> ApplicationCache]

\* Names that p has added to the set and for which it will send the string.
OnTheirWay(p) == IF phase[p] \in {"srem", "mset"} THEN NewKeys(app[p]) ELSE {}
============================================================================
