------------------------------ MODULE SessionFarm ------------------------------
(***************************************************************************)
(* A web site whose requests are served by the managed session module and  *)
(* by the ASP.NET Core session, from the same Redis database: a browser    *)
(* goes from one to the other, keys expire, processes die.  Together they  *)
(* implement SessionContract, as the COM server does on its own.           *)
(***************************************************************************)
EXTENDS ManagedSession, CoreSession

\* A worker process dies with all its requests.
Crash(server) ==
    /\ "crash" \in site.faults
    /\ \E r \in Requests : InFlight(r) /\ req[r].server = server
    /\ req' = [r \in Requests |->
                 IF InFlight(r) /\ req[r].server = server
                 THEN Finished ELSE req[r]]
    /\ UNCHANGED <<site, store, cookie>>

\* The record is in the hands of a page that runs.
Held(g) == \E r \in Requests : InFlight(r) /\ req[r].loaded /\ g \in {req[r].id, req[r].old}

\* The time-out of a record, also between EXISTS and GET of one request. It is
\* counted in minutes from the last page on: a page that runs is not overtaken.
Expire(g) ==
    /\ "expiry" \in site.faults
    /\ store[g] # Absent /\ ~Held(g)
    /\ store' = [store EXCEPT ![g] = Absent]
    /\ UNCHANGED <<site, cookie, req>>

Done == (\A r \in Requests : req[r].phase = "done") /\ UNCHANGED vars

Next ==
    \/ \E r \in Requests : SiteNext(r) \/ ManagedNext(r) \/ CoreNext(r)
    \/ \E server \in site.servers : Crash(server)
    \/ \E g \in Guid : Expire(g)
    \/ Done

Spec == Init /\ [][Next]_vars

------------------------------------------------------------------------------
\* State and requests have the values the code can give them; a session that
\* is loaded has an id, and never the one that it gives up.
TypeOK ==
    /\ SiteTypeOK
    /\ \A r \in Requests : req[r].loaded => req[r].id \notin {NoId, req[r].old}

\* The request of b that is being served, if any.
Serving(b) == {r \in Requests : BrowserOf[r] = b /\ InFlight(r)}

\* The key under which the session of b is found: its cookie names it, except
\* while a request that rotates the id has its session in hand.
Place(b) ==
    IF \E r \in Serving(b) : req[r].old # NoId
    THEN LET o == req[CHOOSE r \in Serving(b) : TRUE]
         IN  IF o.phase \in {"save", "respond"} THEN o.id ELSE o.old
    ELSE cookie[b]

Stored(g) == IF g = NoId \/ store[g] = Absent THEN {} ELSE store[g].items
Contents(b) == Stored(Place(b))

\* A page runs from the load of its session to its save, or to the response if
\* only that tells the browser where the session is.
Running(r) ==
    /\ req[r].loaded
    /\ \/ req[r].phase \in {"insert", "script", "remove", "rename", "save"}
       \/ req[r].phase = "respond" /\ req[r].id # Place(BrowserOf[r])

NoPage == [running |-> FALSE, view |-> {}, ro |-> FALSE, gone |-> FALSE]

PageOf(b) ==
    IF \E r \in Serving(b) : Running(r)
    THEN LET o == req[CHOOSE r \in Serving(b) : TRUE]
         IN  [running |-> TRUE, view |-> o.items,
              ro |-> o.ro /\ o.phase \notin {"insert", "script"}, gone |-> o.gone]
    ELSE NoPage

Contract(mayAbort) == INSTANCE SessionContract WITH
    Values <- Requests, MayLapse <- TRUE, MayAbort <- mayAbort,
    content <- [b \in Browsers |-> Contents(b)],
    page <- [b \in Browsers |-> PageOf(b)]

\* Whichever program serves a request, a page finds what the page before it
\* left, and leaves all its edits or none; an abandoned session is empty.
\* A page stops half-way only where processes die.
ImplementsContract ==
    /\ Contract(TRUE)!Init
    /\ [][\/ Contract(FALSE)!Next
          \/ "crash" \in site.faults /\ Contract(TRUE)!Abort]_(Contract(TRUE)!cvars)

\* No record is left behind that no browser and no request can name: the
\* rotation moves it, Abandon removes it, and a place that SessionInsert keeps
\* is taken. Only a process that dies may leave one.
NoOrphans ==
    "crash" \in site.faults \/
    \A g \in Guid : store[g] # Absent =>
       \/ \E b \in Browsers : cookie[b] = g
       \/ \E r \in Requests : InFlight(r) /\ g \in {req[r].id, req[r].old}

\* A page that changes nothing leaves the session to the next one: when it has
\* answered, the cookie names a record with the items that the page found.
\* SessionSave "will only set expiration" for such a page.
ReadingKeeps ==
    [][\A r \in Requests :
          /\ req[r].phase = "respond" /\ req'[r].phase = "done"
          /\ req[r].loaded /\ ~req[r].dirty /\ ~req[r].gone
          => Stored(cookie[BrowserOf[r]])' = req[r].items]_vars
================================================================================
