---------------------------- MODULE ManagedSession ----------------------------
(***************************************************************************)
(* The session state module of CSessionManaged (ISPSessionModule.cs,       *)
(* ISPSessionIDManager.cs, CSessionDL.cs): the whole session is read when  *)
(* the request acquires its state, the cookie is written before the page   *)
(* runs, and the session is saved when the request releases its state.     *)
(***************************************************************************)
EXTENDS SessionSite

Managed(r, phase) == req[r].server = "managed" /\ req[r].phase = phase

ManagedExists(r) ==
    /\ Managed(r, "exists")
    /\ \E id \in KnownIds(r) :
          req' = [req EXCEPT ![r].phase = "get", ![r].id = id]
    /\ UNCHANGED <<site, store, cookie>>

\* SessionGet: a record with nothing but meta data counts as none.
HasItems(id) == id # NoId /\ store[id] # Absent /\ ~store[id].bare

\* Mutated form of ManagedGet: a session without an id gets none.
ManagedGetNoId(r) ==
    LET id == req[r].id
        insert == ~HasItems(id) /\ ~req[r].ro
    IN  /\ Managed(r, "get")
        /\ req' = [req EXCEPT
              ![r].phase = IF insert THEN "insert" ELSE "script",
              ![r].items = IF HasItems(id) THEN store[id].items ELSE {},
              ![r].id = IF site.liquid THEN <<r, 1>> ELSE id,
              ![r].old = IF site.liquid THEN id ELSE NoId,
              ![r].loaded = TRUE]
        /\ UNCHANGED <<site, store, cookie>>

\* OnAcquireRequestState after GetSessionID: read, rotate, write the cookie
\* into the response.
ManagedGet(r) ==
    LET id == req[r].id
        rotate == site.liquid \/ id = NoId
        insert == ~HasItems(id) /\ ~req[r].ro
    IN  /\ Managed(r, "get")
        /\ req' = [req EXCEPT
              ![r].phase = IF insert THEN "insert" ELSE "script",
              ![r].items = IF HasItems(id) THEN store[id].items ELSE {},
              ![r].id = IF rotate THEN <<r, 1>> ELSE id,
              ![r].old = IF rotate THEN id ELSE NoId,
              ![r].loaded = TRUE]
        /\ UNCHANGED <<site, store, cookie>>

\* SessionInsert keeps a place for a new session.
ManagedInsert(r) ==
    /\ Managed(r, "insert")
    /\ store' = [store EXCEPT ![req[r].id] = Bare]
    /\ req' = [req EXCEPT ![r].phase = "script"]
    /\ UNCHANGED <<site, cookie>>

\* OnReleaseRequestState chooses between SessionRemove and SessionSave.
ManagedRelease(r) ==
    /\ Managed(r, "script")
    /\ req' = [req EXCEPT ![r].phase = IF req[r].gone THEN "remove"
                                       ELSE IF req[r].old # NoId THEN "rename" ELSE "save"]
    /\ UNCHANGED <<site, store, cookie>>

\* The id that is removed is the one of this response.
ManagedRemove(r) ==
    /\ Managed(r, "remove")
    /\ store' = [store EXCEPT ![req[r].id] = Absent]
    /\ req' = [req EXCEPT ![r].phase = "respond"]
    /\ UNCHANGED <<site, cookie>>

\* SessionSave: EXPIRE for a read-only page, SET for any other, edited or not.
ManagedSave(r) ==
    /\ Managed(r, "save")
    /\ store' = IF req[r].ro THEN store
                ELSE [store EXCEPT ![req[r].id] = Full(req[r].items)]
    /\ req' = [req EXCEPT ![r].phase = "respond"]
    /\ UNCHANGED <<site, cookie>>

\* The response: Abandon has taken the cookie out of it (RemoveSessionID).
ManagedRespond(r) ==
    /\ Managed(r, "respond")
    /\ cookie' = IF req[r].gone THEN cookie
                 ELSE [cookie EXCEPT ![BrowserOf[r]] = req[r].id]
    /\ req' = [req EXCEPT ![r] = Finished]
    /\ UNCHANGED <<site, store>>

ManagedNext(r) ==
    \/ ManagedExists(r)
    \/ ManagedGet(r)
    \/ ManagedInsert(r)
    \/ ManagedRelease(r)
    \/ ManagedRemove(r)
    \/ ManagedSave(r)
    \/ ManagedRespond(r)
===============================================================================
