----------------------------- MODULE SessionSite -----------------------------
(***************************************************************************)
(* What the managed session module (ManagedSession, .NET Framework) and    *)
(* the ASP.NET Core session (CoreSession) have in common: Redis, the       *)
(* cookies of the browsers, a session object per request, and the settings *)
(* of the web site that both read from their configuration.                *)
(*                                                                         *)
(* A value is the request that put it.  An id is the request that drew it  *)
(* and the number of the draw: 16 random bytes never come twice.           *)
(***************************************************************************)
EXTENDS Naturals, FiniteSets

CONSTANTS
    Requests,    \* the requests that arrive
    Browsers,    \* the users of the site
    BrowserOf,   \* who sends a request
    Sites,       \* the configurations considered, one of which is in force
    NoId,        \* no session cookie
    Absent,      \* no record under a key
    MaxOps       \* how many session methods one page calls

AllOps == {"put", "remove", "clear", "abandon", "flush"}
AllFaults == {"crash", "timeout", "expiry"}

Site == [servers    : SUBSET {"managed", "core"},   \* which programs serve the site
         liquid     : BOOLEAN,                      \* does the id change with each page?
         reentrance : BOOLEAN,                      \* may an unknown id be taken up again?
         ops        : SUBSET AllOps,                \* the session methods its pages call
         faults     : SUBSET AllFaults]

Guid == Requests \X (1 .. 2)
Id == Guid \cup {NoId}

\* A record is the meta data and the items; a bare one has the meta data only.
Record == [items : SUBSET Requests, bare : BOOLEAN]
Bare == [items |-> {}, bare |-> TRUE]
Full(items) == [items |-> items, bare |-> FALSE]

ASSUME SiteAssumption ==
    /\ Sites \subseteq Site
    /\ BrowserOf \in [Requests -> Browsers]
    /\ MaxOps \in Nat
    /\ NoId \notin Guid /\ Absent \notin Record

VARIABLES
    site,     \* the configuration in force
    store,    \* store[g]: the record Redis keeps under the key of g, or Absent
    cookie,   \* cookie[b]: the session cookie the browser holds
    req       \* req[r]: the request and its session object

vars == <<site, store, cookie, req>>

Phases == {"new", "exists", "get", "insert", "script", "remove", "rename", "save",
           "respond", "done"}

Request ==
    [phase   : Phases,                  \* the next Redis command
     server  : {"managed", "core"},
     ro      : BOOLEAN,                 \* EnableSessionState="ReadOnly" (managed only)
     id      : Id,                      \* SessionID
     old     : Id,                      \* OldSessionID
     items   : SUBSET Requests,
     loaded  : BOOLEAN,                 \* _wasLoaded
     dirty   : BOOLEAN,                 \* Dirty; the managed module never looks at it
     gone    : BOOLEAN,                 \* has the page called Abandon?
     started : BOOLEAN,                 \* Response.HasStarted
     ops     : 0 .. MaxOps]

NewRequest == [phase |-> "new", server |-> "managed", ro |-> FALSE, id |-> NoId,
               old |-> NoId, items |-> {}, loaded |-> FALSE, dirty |-> FALSE,
               gone |-> FALSE, started |-> FALSE, ops |-> 0]

Finished == [NewRequest EXCEPT !.phase = "done"]

SiteTypeOK ==
    /\ site \in Sites
    /\ store \in [Guid -> Record \cup {Absent}]
    /\ cookie \in [Browsers -> Id]
    /\ req \in [Requests -> Request]

InFlight(r) == req[r].phase \notin {"new", "done"}

Init ==
    /\ site \in Sites
    /\ store = [g \in Guid |-> Absent]
    /\ cookie = [b \in Browsers |-> NoId]
    /\ req = [r \in Requests |-> NewRequest]

\* The browser has read its last page and sends the next request; the page
\* behind it has a directive of its own.
Arrive(r) ==
    /\ req[r].phase = "new"
    /\ \A q \in Requests : BrowserOf[q] = BrowserOf[r] => ~InFlight(q)
    /\ \E server \in site.servers, ro \in BOOLEAN :
          /\ ro => server = "managed"
          /\ req' = [req EXCEPT ![r].phase = "exists", ![r].server = server, ![r].ro = ro,
                                ![r].id = cookie[BrowserOf[r]]]
    /\ UNCHANGED <<site, store, cookie>>

\* GetSessionID: an id with a record is used, another one only if the settings
\* allow it. RedundantExists takes three time-outs for a key that is absent.
KnownIds(r) ==
    LET id == req[r].id
        answers == {id # NoId /\ store[id] # Absent}
                      \cup (IF "timeout" \in site.faults THEN {FALSE} ELSE {})
    IN  {IF id # NoId /\ (found \/ site.reentrance) THEN id ELSE NoId : found \in answers}

\* A method of the session that changes its items, in memory. Abandon of the
\* ASP.NET Core session clears them: its flag is down again when it returns.
Edit(r) ==
    LET o == req[r]
        result(op) == [put     |-> o.items \cup {r},
                       clear   |-> {},
                       abandon |-> IF o.server = "core" THEN {} ELSE o.items][op]
        change(op, items) ==
            req' = [req EXCEPT ![r].items = items, ![r].ops = @ + 1,
                               ![r].gone = (op = "abandon"),
                               ![r].dirty = @ \/ items # o.items \/ op = "put"]
    IN  /\ o.phase = "script" /\ o.loaded /\ ~o.gone /\ o.ops < MaxOps
        /\ \/ \E op \in site.ops \cap {"put", "clear", "abandon"} : change(op, result(op))
           \/ "remove" \in site.ops /\ \E v \in o.items : change("remove", o.items \ {v})
        /\ UNCHANGED <<site, store, cookie>>

\* The first bytes of the response, with the headers, go out before the page ends.
Flush(r) ==
    /\ req[r].phase = "script" /\ ~req[r].started /\ "flush" \in site.ops
    /\ req' = [req EXCEPT ![r].started = TRUE]
    /\ cookie' = IF req[r].loaded
                 THEN [cookie EXCEPT ![BrowserOf[r]] = req[r].id] ELSE cookie
    /\ UNCHANGED <<site, store>>

\* Mutated form of Rename: the record is copied.
RenameCopies(r) ==
    LET o == req[r] IN
    /\ o.phase = "rename"
    /\ store' = IF store[o.old] = Absent THEN store
                ELSE [store EXCEPT ![o.id] = store[o.old]]
    /\ req' = [req EXCEPT ![r].phase = "save"]
    /\ UNCHANGED <<site, cookie>>

\* RENAME: an error reply when there is nothing to rename, which nobody reads.
Rename(r) ==
    LET o == req[r] IN
    /\ o.phase = "rename"
    /\ store' = IF store[o.old] = Absent THEN store
                ELSE [store EXCEPT ![o.id] = store[o.old], ![o.old] = Absent]
    /\ req' = [req EXCEPT ![r].phase = "save"]
    /\ UNCHANGED <<site, cookie>>

\* The commands are sent with FireAndForget: one that is lost is not noticed.
Lost(r) ==
    /\ "crash" \in site.faults
    /\ req[r].phase \in {"remove", "save"}
    /\ req' = [req EXCEPT ![r].phase = "respond"]
    /\ UNCHANGED <<site, store, cookie>>

SiteNext(r) == Arrive(r) \/ Edit(r) \/ Flush(r) \/ Rename(r) \/ Lost(r)
==============================================================================
