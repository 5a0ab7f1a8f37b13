-------------------------- MODULE ClassicApplication --------------------------
(***************************************************************************)
(* The application cache of the COM server for classic ASP                 *)
(* (src/COM/Application.cpp, class CApplicationDL of src/COM/CSessionDL.h). *)
(*                                                                         *)
(* Redis keeps the set of the names in use (under the key appkey) and one  *)
(* string per name (under appkey:NAME). A page loads them all in two or    *)
(* three commands and saves what it edited in one transaction:             *)
(*                                                                         *)
(*   idle -SMEMBERS-> mget -MGET-> [srem -SREM->] open -EXEC-> saved -> done *)
(*                                                                         *)
(* A value is the page that wrote it, or Empty (VT_EMPTY).                 *)
(***************************************************************************)
EXTENDS Naturals, FiniteSets

CONSTANTS
    Keys,      \* the names the scripts use
    Pages,     \* the pages, each with its own CApplication
    None,      \* Redis has no such string
    Empty,     \* the value of a name whose Set failed
    Absent,    \* the dictionary has no such name
    Ops,       \* the methods the scripts use
    MaxOps,    \* how many of them one script calls
    Overlap,   \* how many pages may be in flight
    Readd,     \* do scripts put names they have removed?
    QuietLoads, \* does no page save while another one loads?
    Faults     \* may worker processes die?

AllOps == {"put", "putref", "remove", "removeAll", "expire"}

Value == Pages \cup {Empty}

\* ElementModel; ExpireAt counts as a flag: 0 ms and more than 0 ms.
Element == [val : Value, IsNew : BOOLEAN, IsDirty : BOOLEAN, ExpireAt : {0, 1}]

ASSUME ApplicationAssumption ==
    /\ MaxOps \in Nat
    /\ Ops \subseteq AllOps
    /\ {Readd, QuietLoads, Faults} \subseteq BOOLEAN
    /\ None \notin Value /\ Empty \notin Pages
    /\ Absent \notin Element

VARIABLES
    names,      \* the members of the set appkey
    strings,    \* strings[k]: the string under appkey:K, or None
    expiring,   \* the strings that have a time to live
    phase,      \* phase[p]: how far the page is
    app         \* app[p]: its CApplication object

vars == <<names, strings, expiring, phase, app>>

Phase == {"idle", "mget", "srem", "open", "saved", "done"}

CApplication ==
    [members : SUBSET Keys,    \* the reply to SMEMBERS
     ghosts : SUBSET Keys,     \* its members without a string
     dictionary : [Keys -> Element \cup {Absent}],
     removed : SUBSET Keys,
     calls : 0 .. MaxOps]

NewApplication ==
    [members |-> {}, ghosts |-> {}, dictionary |-> [k \in Keys |-> Absent],
     removed |-> {}, calls |-> 0]

Init ==
    /\ names = {}
    /\ strings = [k \in Keys |-> None]
    /\ expiring = {}
    /\ phase = [p \in Pages |-> "idle"]
    /\ app = [p \in Pages |-> NewApplication]

InFlight(p) == phase[p] \notin {"idle", "done"}

-----------------------------------------------------------------------------
(* OnStartPage: InitializeDataSource and ApplicationGet *)

\* SMEMBERS; an empty set is an empty cache.
GetMembers(p) ==
    /\ phase[p] = "idle"
    /\ Cardinality({q \in Pages : InFlight(q)}) < Overlap
    /\ app' = [app EXCEPT ![p].members = names]
    /\ phase' = [phase EXCEPT ![p] = IF names = {} THEN "open" ELSE "mget"]
    /\ UNCHANGED <<names, strings, expiring>>

\* Mutated form of Loaded: a name without a string is entered as an element.
LoadedGhost(v) == [val |-> v, IsNew |-> FALSE, IsDirty |-> FALSE, ExpireAt |-> 0]

\* DeserializeKey
Loaded(v) == IF v = None THEN Absent
             ELSE [val |-> v, IsNew |-> FALSE, IsDirty |-> FALSE, ExpireAt |-> 0]

\* MGET: members without a string are ghosts.
GetStrings(p) ==
    LET members == app[p].members
        ghosts == {k \in members : strings[k] = None}
    IN /\ phase[p] = "mget"
       /\ app' = [app EXCEPT ![p].dictionary =
                                [k \in Keys |-> IF k \in members THEN Loaded(strings[k])
                                                ELSE Absent],
                             ![p].members = {},
                             ![p].ghosts = ghosts]
       /\ phase' = [phase EXCEPT ![p] = IF ghosts = {} THEN "open" ELSE "srem"]
       /\ UNCHANGED <<names, strings, expiring>>

\* SREM of the ghosts
RemoveGhosts(p) ==
    /\ phase[p] = "srem"
    /\ names' = names \ app[p].ghosts
    /\ app' = [app EXCEPT ![p].ghosts = {}]
    /\ phase' = [phase EXCEPT ![p] = "open"]
    /\ UNCHANGED <<strings, expiring>>

\* No connection: OnStartPage fails, and every method with it. PersistApplication
\* then reads a flag that was never set; it saves an empty dictionary or, without
\* a pool, takes the worker process with it (Crash).
ConnectionFails(p) ==
    /\ Faults
    /\ phase[p] = "idle"
    /\ phase' = [phase EXCEPT ![p] = "done"]
    /\ UNCHANGED <<names, strings, expiring, app>>

-----------------------------------------------------------------------------
(* The methods a script calls *)

Method(p, op, a) ==
    /\ phase[p] = "open"
    /\ op \in Ops
    /\ app[p].calls < MaxOps
    /\ app' = [app EXCEPT ![p] = [a EXCEPT !.calls = @ + 1]]
    /\ UNCHANGED <<names, strings, expiring, phase>>

Here(a) == {k \in Keys : a.dictionary[k] # Absent}

NewElement == [val |-> Empty, IsNew |-> TRUE, IsDirty |-> FALSE, ExpireAt |-> 0]

\* put_Value: a name is added or going to change before the value is looked
\* at; a value that cannot be resolved leaves the name as it is by then.
PutValue(p) ==
    LET a == app[p]
    IN \E k \in Keys, v \in {p, Empty} :
          LET e == IF k \notin Here(a) THEN NewElement
                   ELSE IF a.dictionary[k].IsNew THEN a.dictionary[k]
                   ELSE [a.dictionary[k] EXCEPT !.IsDirty = TRUE]
          IN /\ Readd \/ k \notin a.removed
             /\ Method(p, "put", [a EXCEPT !.dictionary[k] =
                                     IF v = Empty THEN e ELSE [e EXCEPT !.val = v]])

\* putref_Value: the same for objects, when they are persistable.
PutRefValue(p) ==
    LET a == app[p]
    IN \E k \in Keys, v \in {p, Empty} :
          LET e == IF k \notin Here(a) THEN NewElement
                   ELSE [a.dictionary[k] EXCEPT !.IsDirty = TRUE]
          IN /\ Readd \/ k \notin a.removed
             /\ Method(p, "putref", [a EXCEPT !.dictionary[k] =
                                        IF v = Empty THEN e ELSE [e EXCEPT !.val = v]])

Without(a, keys) ==
    [a EXCEPT !.dictionary = [k \in Keys |-> IF k \in keys THEN Absent ELSE @[k]],
              !.removed = @ \cup keys]

Remove(p) == \E k \in Here(app[p]) : Method(p, "remove", Without(app[p], {k}))

RemoveAll(p) == Method(p, "removeAll", Without(app[p], Here(app[p])))

ExpireKeyAt(p) ==
    \E k \in Here(app[p]), ms \in {0, 1} :
       Method(p, "expire", [app[p] EXCEPT !.dictionary[k].ExpireAt = ms])

-----------------------------------------------------------------------------
(* OnEndPage: PersistApplication and ApplicationSave *)

NewKeys(a) == {k \in Here(a) : a.dictionary[k].IsNew}
ChangedKeys(a) == {k \in Here(a) : a.dictionary[k].IsDirty} \ NewKeys(a)
ExpireKeys(a) == {k \in Here(a) : a.dictionary[k].ExpireAt > 0}

\* The names that SADD adds to the set.
SAdd(a) == NewKeys(a)

\* Mutated form of MSet: the names that were only read are written too.
MSetAll(a) == Here(a)

\* The names whose strings MSET writes.
MSet(a) == NewKeys(a) \cup ChangedKeys(a)

\* The names whose strings DEL deletes.
Del(a) == a.removed

\* MULTI, SADD new names, DEL and SREM removed names, MSET new and changed
\* names (which ends their time to live), PEXPIRE, EXEC. A page that edited
\* nothing sends nothing, which is the same.
ApplicationSave(p) ==
    LET a == app[p]
        written == [k \in Keys |-> IF k \in MSet(a) THEN a.dictionary[k].val
                                   ELSE IF k \in Del(a) THEN None ELSE strings[k]]
    IN /\ phase[p] = "open"
       /\ QuietLoads => \A q \in Pages : phase[q] \notin {"mget", "srem"}
       /\ names' = (names \cup SAdd(a)) \ a.removed
       /\ strings' = written
       /\ expiring' = {k \in (expiring \ (Del(a) \cup MSet(a))) \cup ExpireKeys(a) :
                          written[k] # None}
       /\ phase' = [phase EXCEPT ![p] = "saved"]
       /\ UNCHANGED app

\* The object is destroyed with its page.
EndOfPage(p) ==
    /\ phase[p] = "saved"
    /\ phase' = [phase EXCEPT ![p] = "done"]
    /\ app' = [app EXCEPT ![p] = NewApplication]
    /\ UNCHANGED <<names, strings, expiring>>

-----------------------------------------------------------------------------
(* The environment *)

Expire ==
    \E k \in expiring :
       /\ strings' = [strings EXCEPT ![k] = None]
       /\ expiring' = expiring \ {k}
       /\ UNCHANGED <<names, phase, app>>

\* The worker process dies, for one because ApplicationSave gets no connection
\* (it does not look) or loses it; a transaction without EXEC has no effect.
Crash ==
    /\ Faults
    /\ \E p \in Pages : InFlight(p)
    /\ phase' = [p \in Pages |-> IF InFlight(p) THEN "done" ELSE phase[p]]
    /\ app' = [p \in Pages |-> IF InFlight(p) THEN NewApplication ELSE app[p]]
    /\ UNCHANGED <<names, strings, expiring>>

AllDone ==
    /\ \A p \in Pages : phase[p] = "done"
    /\ UNCHANGED vars

OnStartPage(p) ==
    GetMembers(p) \/ GetStrings(p) \/ RemoveGhosts(p) \/ ConnectionFails(p)

Script(p) ==
    PutValue(p) \/ PutRefValue(p) \/ Remove(p) \/ RemoveAll(p) \/ ExpireKeyAt(p)

OnEndPage(p) == ApplicationSave(p) \/ EndOfPage(p)

Next ==
    \/ \E p \in Pages : OnStartPage(p) \/ Script(p) \/ OnEndPage(p)
    \/ Expire \/ Crash \/ AllDone

Spec == Init /\ [][Next]_vars

-----------------------------------------------------------------------------
(* Properties *)

TypeOK ==
    /\ names \subseteq Keys
    /\ strings \in [Keys -> Value \cup {None}]
    /\ expiring \subseteq {k \in Keys : strings[k] # None}
    /\ phase \in [Pages -> Phase]
    /\ app \in [Pages -> CApplication]

\* What the next page will find.
Stored == [k \in Keys |-> IF k \in names THEN strings[k] ELSE None]

\* What SREM takes away is a ghost: a name without a string.
GhostsAreDead ==
    \A p \in Pages : phase[p] = "srem" => \A k \in app[p].ghosts : strings[k] = None

-----------------------------------------------------------------------------
(* The contract *)

EditOf(a, k) ==
    CASE k \in NewKeys(a) -> "add"
      [] k \in ChangedKeys(a) -> "change"
      [] k \in a.removed \ Here(a) -> "remove"
      [] OTHER -> "keep"

PageOf(p) ==
    LET open == phase[p] \in {"srem", "open"}
        a == IF open THEN app[p] ELSE NewApplication
    IN [stage |-> CASE open -> "open" [] phase[p] = "mget" -> "begun" [] OTHER -> "unopened",
        listed |-> app[p].members,
        view |-> [k \in Keys |-> IF k \in Here(a) THEN a.dictionary[k].val ELSE None],
        edits |-> [k \in Keys |-> EditOf(a, k)],
        ask |-> ExpireKeys(a)]

Contract == INSTANCE CacheContract
    WITH Values <- Value,
         content <- Stored,
         lapsing <- expiring \cap names,
         lapsed <- {k \in names : strings[k] = None},
         page <- [p \in Pages |-> PageOf(p)]

\* Seen through the set of names and the strings, the pages edit one cache.
ImplementsContract == Contract!Spec
=============================================================================
