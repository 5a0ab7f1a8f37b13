------------------------------ MODULE CoreSession ------------------------------
(***************************************************************************)
(* The ASP.NET Core session (ispsession.io.core: ISPSessionMiddleWare.cs,  *)
(* ISPSessionIDManager.cs, ISPSession.cs, CSessionDL.cs): the id is chosen *)
(* before the page runs, the session is read when the page first uses it,  *)
(* the cookie is written when the response starts, and CommitAsync saves   *)
(* what has changed after the page has ended.                              *)
(***************************************************************************)
EXTENDS SessionSite

Core(r, phase) == req[r].server = "core" /\ req[r].phase = phase

\* Invoke: an unknown browser gets an id, but isNewSessionKey is always false.
CoreExists(r) ==
    /\ Core(r, "exists")
    /\ \E id \in KnownIds(r) :
          req' = [req EXCEPT ![r].phase = "script",
                             ![r].id = IF id = NoId THEN <<r, 1>> ELSE id]
    /\ UNCHANGED <<site, store, cookie>>

\* CheckLoad, the first time that the page uses its session. Once the response
\* has started, OnStarting throws, and so does the page.
CoreUse(r) ==
    /\ Core(r, "script") /\ ~req[r].loaded
    /\ req' = [req EXCEPT ![r] = IF @.started THEN Finished
                                 ELSE [@ EXCEPT !.phase = "get"]]
    /\ UNCHANGED <<site, store, cookie>>

\* LoadAsync and TryEstablishSession. A bare record is "Corrupt Session State".
\* A session that is there rotates its id twice: LoadAsync calls
\* TryEstablishSession again.
CoreGet(r) ==
    LET id == req[r].id
        o == IF store[id] = Absent
             THEN [req[r] EXCEPT !.old = IF site.liquid THEN id ELSE NoId]
             ELSE [req[r] EXCEPT !.items = store[id].items,
                                 !.old = IF site.liquid THEN <<r, 1>> ELSE NoId]
    IN  /\ Core(r, "get")
        /\ req' = [req EXCEPT ![r] =
              IF store[id] # Absent /\ store[id].bare
              THEN Finished
              ELSE [o EXCEPT !.phase = "script", !.loaded = TRUE,
                             !.id = IF site.liquid THEN <<r, 2>> ELSE id]]
        /\ UNCHANGED <<site, store, cookie>>

\* The page throws: Invoke does not come to CommitAsync. The cookie may be in
\* the response that an error handler makes.
CoreThrows(r) ==
    /\ Core(r, "script") /\ "crash" \in site.faults
    /\ req' = [req EXCEPT ![r] = Finished]
    /\ \/ UNCHANGED cookie
       \/ req[r].loaded /\ cookie' = [cookie EXCEPT ![BrowserOf[r]] = req[r].id]
    /\ UNCHANGED <<site, store>>

CoreCommit(r) ==
    /\ Core(r, "script")
    /\ req' = [req EXCEPT ![r].phase = IF req[r].old # NoId THEN "rename" ELSE "save"]
    /\ UNCHANGED <<site, store, cookie>>

\* Mutated form of CoreSave: an empty session is not worth a write.
CoreSaveNonEmpty(r) ==
    /\ Core(r, "save")
    /\ store' = IF req[r].dirty /\ req[r].items # {}
                THEN [store EXCEPT ![req[r].id] = Full(req[r].items)] ELSE store
    /\ req' = [req EXCEPT ![r].phase = "respond"]
    /\ UNCHANGED <<site, cookie>>

\* SessionSave: EXPIRE unless something has changed. The collection is never
\* read-only and never new.
CoreSave(r) ==
    /\ Core(r, "save")
    /\ store' = IF req[r].dirty
                THEN [store EXCEPT ![req[r].id] = Full(req[r].items)] ELSE store
    /\ req' = [req EXCEPT ![r].phase = "respond"]
    /\ UNCHANGED <<site, cookie>>

\* The response ends. A page that did not use its session sends no cookie.
CoreRespond(r) ==
    /\ Core(r, "respond")
    /\ cookie' = IF req[r].loaded
                 THEN [cookie EXCEPT ![BrowserOf[r]] = req[r].id] ELSE cookie
    /\ req' = [req EXCEPT ![r] = Finished]
    /\ UNCHANGED <<site, store>>

CoreNext(r) ==
    \/ CoreExists(r)
    \/ CoreUse(r)
    \/ CoreGet(r)
    \/ CoreThrows(r)
    \/ CoreCommit(r)
    \/ CoreSave(r)
    \/ CoreRespond(r)
================================================================================
