---------------------------- MODULE ClassicSession ----------------------------
(***************************************************************************)
(* The session of the COM server for classic ASP (src/COM/Session.cpp,     *)
(* CSessionDL.h): one NWCSession object per request, one Redis key per     *)
(* session, and the cookie by which a browser names its key.               *)
(*                                                                         *)
(* A request is a sequence of Redis commands, each one atomic, with the    *)
(* commands of the other requests (same browser or not, same process or    *)
(* not) and the expiry of keys in between:                                 *)
(*                                                                         *)
(*   idle -> get -+-> run -> [rename] -> write/delete -> saved -> done     *)
(*                +-> insert -> reget -^                                   *)
(*                                                                         *)
(* Session.Execute takes a request from run through write back to get.     *)
(*                                                                         *)
(* The contents of a session are a set of values; request r writes the     *)
(* value r, so that it is always known who wrote what.                     *)
(***************************************************************************)
EXTENDS Naturals, FiniteSets

CONSTANTS
    Requests,    \* the requests that will be sent, each with its own object
    Browsers,    \* the browsers that send them
    BrowserOf,   \* which browser sends a request
    NoId,        \* an empty cookie / GUID_NULL
    Kill,        \* a Set-Cookie with Max-Age=0, as Abandon writes it
    Absent,      \* Redis has no such key
    Ops,         \* the session methods the scripts use
    MaxOps,      \* how many of them one script calls
    Overlap,     \* how many requests of one browser may be in flight
    UrlIds,      \* may a request bring its session id in the query string?
    Expiry,      \* which keys may time out: "never", "idle" ones or "any"
    Faults       \* may connections fail and worker processes die?

AllOps == {"put", "putref", "remove", "removeAll", "abandon", "liquidOn", "liquidOff",
           "readonlyOn", "readonlyOff", "reentrance", "execute", "flush"}

\* A request draws at most two GUIDs when it reads the record and two per
\* method it calls; a GUID is the request that drew it and the number of the
\* draw, because rand_s (NewGuid) gives a fresh one every time.
Draws == 0 .. 2 * MaxOps + 1
Guid == Requests \X Draws
Id == Guid \cup {NoId}

ASSUME SessionAssumption ==
    /\ MaxOps \in Nat
    /\ BrowserOf \in [Requests -> Browsers]
    /\ Ops \subseteq AllOps
    /\ UrlIds \in BOOLEAN /\ Faults \in BOOLEAN
    /\ Expiry \in {"never", "idle", "any"}
    /\ NoId \notin Guid /\ Kill \notin Id
    /\ Absent \notin [data : SUBSET Requests, liquid : BOOLEAN, reent : BOOLEAN]

VARIABLES
    store,   \* store[g]: the record Redis keeps under the key of g, or Absent
    cookie,  \* cookie[b]: the session cookie the browser holds
    phase,   \* phase[r]: the next Redis command of the request
    obj      \* obj[r]: its NWCSession object

vars == <<store, cookie, phase, obj>>

Record == [data : SUBSET Requests, liquid : BOOLEAN, reent : BOOLEAN]

Phase == {"idle", "get", "insert", "reget", "run", "rename", "write", "delete",
          "saved", "done"}

NWCSession ==
    [guid : Id, oldGuid : Id, strGUID : Id, m_OldSessionId : Id,
     blnNew : BOOLEAN, blnExpired : BOOLEAN, blnCancel : BOOLEAN,
     blnLiquid : BOOLEAN, saveliquid : BOOLEAN, blnReEntrance : BOOLEAN,
     blnFoundURLGuid : BOOLEAN, bReadonly : BOOLEAN, bErrState : BOOLEAN,
     blnPersistDone : BOOLEAN, executing : BOOLEAN,
     dict : SUBSET Requests, blnDirty : BOOLEAN,
     setCookie : Id \cup {Kill}, headersSent : BOOLEAN,
     draws : Nat, calls : 0 .. MaxOps]

\* FinalConstruct: every flag FALSE, every GUID zero.
NewObject ==
    [guid |-> NoId, oldGuid |-> NoId, strGUID |-> NoId, m_OldSessionId |-> NoId,
     blnNew |-> FALSE, blnExpired |-> FALSE, blnCancel |-> FALSE,
     blnLiquid |-> FALSE, saveliquid |-> FALSE, blnReEntrance |-> FALSE,
     blnFoundURLGuid |-> FALSE, bReadonly |-> FALSE, bErrState |-> FALSE,
     blnPersistDone |-> FALSE, executing |-> FALSE,
     dict |-> {}, blnDirty |-> FALSE,
     setCookie |-> NoId, headersSent |-> FALSE,
     draws |-> 0, calls |-> 0]

Init ==
    /\ store = [g \in Guid |-> Absent]
    /\ cookie = [b \in Browsers |-> NoId]
    /\ phase = [r \in Requests |-> "idle"]
    /\ obj = [r \in Requests |-> NewObject]

-----------------------------------------------------------------------------
(* Helpers *)

Drawn(g) == g[2] < obj[g[1]].draws

InFlight(r) == phase[r] \notin {"idle", "done"}

\* What a GET returns: the zero GUID is no key.
Lookup(i) == IF i = NoId THEN Absent ELSE store[i]

\* Mutated form of NewID: a presented id is kept (session adoption).
NewIDAdopts(r, o) ==
    LET g == IF o.blnLiquid \/ o.guid = NoId THEN <<r, o.draws>> ELSE o.guid
    IN [o EXCEPT !.m_OldSessionId = IF o.blnLiquid /\ ~o.blnNew THEN o.strGUID ELSE @,
                 !.guid = g, !.strGUID = g, !.draws = @ + 1]

\* Mutated form of NewID: the generator gives two requests the same first id.
NewIDRepeats(r, o) ==
    LET g == <<CHOOSE q \in Requests : TRUE, 0>>
    IN [o EXCEPT !.guid = g, !.strGUID = g, !.draws = @ + 1]

\* NewID: a fresh GUID when the session is liquid or new. A liquid session
\* that is not new remembers the id it came with.
NewID(r, o) ==
    LET draw == o.blnLiquid \/ o.blnNew
        g == IF draw THEN <<r, o.draws>> ELSE o.guid
    IN [o EXCEPT !.m_OldSessionId = IF o.blnLiquid /\ ~o.blnNew THEN o.strGUID ELSE @,
                 !.guid = g,
                 !.strGUID = g,
                 !.draws = IF draw THEN @ + 1 ELSE @]

\* WriteCookie: another Set-Cookie header, which wins over the earlier ones;
\* after Abandon every one of them expires the cookie, and after the headers
\* are sent none has an effect.
WriteCookie(o) ==
    [o EXCEPT !.setCookie = IF o.headersSent THEN @
                            ELSE IF o.blnCancel THEN Kill ELSE o.strGUID]

\* Mutated form of Delivered: the browser keeps a cookie that was expired.
DeliveredKill(o, old) ==
    IF o.headersSent \/ o.setCookie = NoId THEN old ELSE o.setCookie

\* The cookie the browser holds once it has the headers of o.
Delivered(o, old) ==
    IF o.headersSent \/ o.setCookie = NoId THEN old
    ELSE IF o.setCookie = Kill THEN NoId ELSE o.setCookie

\* Mutated form of PersistPhase: SessionSave gets no new GUID, no key is renamed.
PersistPhaseNoRename(o) ==
    IF o.blnPersistDone \/ o.bErrState THEN "saved"
    ELSE IF o.blnCancel THEN "delete"
    ELSE IF o.bReadonly THEN "saved" ELSE "write"

\* Where a PersistSession that still has to be done starts.
PersistPhase(o) ==
    IF o.blnPersistDone \/ o.bErrState THEN "saved"
    ELSE IF o.blnCancel THEN "delete"
    ELSE IF o.bReadonly THEN "saved"
    ELSE IF o.blnLiquid THEN "rename" ELSE "write"

\* dbInit returns to Session.Execute, which puts the liquid flag back.
Returned(o) ==
    [o EXCEPT !.blnLiquid = IF o.executing THEN o.saveliquid ELSE @, !.executing = FALSE]

\* The request after its PersistSession: Session.Execute runs the other page
\* and reads the session again, the end of the page answers the browser.
Continue(r, o) ==
    IF o.executing
    THEN LET again == [o EXCEPT !.dict = {}, !.blnNew = FALSE, !.blnExpired = FALSE]
         IN IF o.bErrState
            THEN /\ obj' = [obj EXCEPT ![r] = Returned(again)]
                 /\ phase' = [phase EXCEPT ![r] = "run"]
            ELSE /\ obj' = [obj EXCEPT ![r] = again]
                 /\ phase' = [phase EXCEPT ![r] = "get"]
    ELSE /\ obj' = [obj EXCEPT ![r] = o]
         /\ phase' = [phase EXCEPT ![r] = "saved"]

-----------------------------------------------------------------------------
(* OnStartPage: Initialize and dbInit *)

\* Initialize: the id comes from the cookie, or from the query string.
Start(r) ==
    /\ phase[r] = "idle"
    /\ Cardinality({q \in Requests : BrowserOf[q] = BrowserOf[r] /\ InFlight(q)}) < Overlap
    /\ \E i \in Id, url \in BOOLEAN :
          /\ IF url
             THEN UrlIds /\ i # NoId /\ Drawn(i)
             ELSE i = cookie[BrowserOf[r]]
          /\ obj' = [obj EXCEPT ![r] = [NewObject EXCEPT !.guid = i, !.oldGuid = i,
                                           !.strGUID = i, !.blnNew = (i = NoId),
                                           !.blnFoundURLGuid = url]]
    /\ phase' = [phase EXCEPT ![r] = "get"]
    /\ UNCHANGED <<store, cookie>>

\* dbInit, the record exists: an id from a query string is refused unless the
\* record allows it, then flags and contents are read from the record.
GetFound(r) ==
    LET o == obj[r]
        rec == Lookup(o.guid)
        refused == ~o.blnNew /\ ~o.blnExpired /\ o.blnFoundURLGuid /\ ~rec.reent
        o1 == IF refused
              THEN NewID(r, [o EXCEPT !.blnExpired = TRUE, !.blnNew = TRUE, !.dict = {}])
              ELSE o
        o2 == [o1 EXCEPT !.blnReEntrance = rec.reent, !.blnLiquid = rec.liquid,
                         !.dict = rec.data]
        o3 == IF o2.blnLiquid THEN NewID(r, o2) ELSE o2
        o4 == IF o3.blnLiquid \/ o3.blnNew \/ o3.blnExpired THEN WriteCookie(o3) ELSE o3
    IN /\ phase[r] = "get"
       /\ rec # Absent
       /\ obj' = [obj EXCEPT ![r] = Returned(o4)]
       /\ phase' = [phase EXCEPT ![r] = "run"]
       /\ UNCHANGED <<store, cookie>>

\* dbInit, there is no record: the session becomes a new one.
GetMissing(r) ==
    LET o == obj[r]
        o1 == NewID(r, [o EXCEPT !.blnExpired = @ \/ ~o.blnNew, !.blnNew = TRUE])
    IN /\ phase[r] = "get"
       /\ Lookup(o.guid) = Absent
       /\ obj' = [obj EXCEPT ![r] = [o1 EXCEPT !.oldGuid = o1.guid]]
       /\ phase' = [phase EXCEPT ![r] = "insert"]
       /\ UNCHANGED <<store, cookie>>

\* SessionInsert: a record without contents.
SessionInsert(r) ==
    LET o == obj[r]
    IN /\ phase[r] = "insert"
       /\ store' = [store EXCEPT ![o.guid] = [data |-> {}, liquid |-> o.blnLiquid,
                                              reent |-> o.blnReEntrance]]
       /\ phase' = [phase EXCEPT ![r] = "reget"]
       /\ UNCHANGED <<cookie, obj>>

\* dbInit reads the record it has inserted, only to see that it is there.
GetInserted(r) ==
    LET o == obj[r]
        lost == Lookup(o.guid) = Absent
        failed == lost /\ ~o.executing
    IN /\ phase[r] = "reget"
       /\ obj' = [obj EXCEPT ![r] = Returned([WriteCookie(o) EXCEPT !.bErrState = failed])]
       /\ phase' = [phase EXCEPT ![r] = IF failed THEN "saved" ELSE "run"]
       /\ UNCHANGED <<store, cookie>>

-----------------------------------------------------------------------------
(* The methods a script calls *)

\* Put one method call on the object's account; o is the object after it.
Called(r, op, o) ==
    /\ phase[r] = "run"
    /\ op \in Ops
    /\ obj[r].calls < MaxOps
    /\ obj' = [obj EXCEPT ![r] = [o EXCEPT !.calls = @ + 1]]

Method(r, op, o) ==
    /\ Called(r, op, o)
    /\ UNCHANGED <<store, cookie, phase>>

\* put_Value, CVariantDictionary::put_Item
PutValue(r) ==
    /\ ~obj[r].bReadonly
    /\ Method(r, "put", [obj[r] EXCEPT !.dict = @ \cup {r}, !.blnDirty = TRUE])

\* putref_Value, CVariantDictionary::putref_Item
PutRefValue(r) ==
    /\ ~obj[r].bReadonly
    /\ Method(r, "putref", [obj[r] EXCEPT !.dict = @ \cup {r}])

\* Contents.Remove, which does not look at the read-only flag
Remove(r) ==
    \E v \in Requests :
       Method(r, "remove", [obj[r] EXCEPT !.dict = @ \ {v}, !.blnDirty = TRUE])

\* Contents.RemoveAll
RemoveAll(r) == Method(r, "removeAll", [obj[r] EXCEPT !.dict = {}])

Abandon(r) ==
    Method(r, "abandon", WriteCookie([obj[r] EXCEPT !.blnCancel = TRUE, !.dict = {}]))

\* put_LiquidCookie(True)
LiquidOn(r) ==
    LET o == obj[r]
    IN /\ ~o.bReadonly /\ ~o.blnLiquid
       /\ Method(r, "liquidOn",
                 WriteCookie(NewID(r, [o EXCEPT !.blnLiquid = TRUE, !.oldGuid = o.guid])))

\* put_LiquidCookie(False)
LiquidOff(r) ==
    LET o == obj[r]
        off == [o EXCEPT !.blnLiquid = FALSE, !.guid = o.oldGuid]
    IN /\ ~o.bReadonly /\ o.blnLiquid
       /\ Method(r, "liquidOff",
                 IF o.m_OldSessionId = NoId THEN off
                 ELSE WriteCookie([off EXCEPT !.strGUID = o.m_OldSessionId,
                                              !.m_OldSessionId = NoId]))

\* put_Readonly(True) is refused when the session was modified.
ReadonlyOn(r) ==
    /\ ~obj[r].blnDirty
    /\ Method(r, "readonlyOn", [obj[r] EXCEPT !.bReadonly = TRUE])

ReadonlyOff(r) == Method(r, "readonlyOff", [obj[r] EXCEPT !.bReadonly = FALSE])

PutReEntrance(r) ==
    \E b \in BOOLEAN : Method(r, "reentrance", [obj[r] EXCEPT !.blnReEntrance = b])

\* Execute and Transfer: persist without rotating the id, run the other page
\* (its own session object is one of the other requests), read again.
Execute(r) ==
    LET o == [obj[r] EXCEPT !.saveliquid = obj[r].blnLiquid, !.blnLiquid = FALSE,
                            !.executing = TRUE]
        next == PersistPhase(o)
        skip == next = "saved"
        o1 == [o EXCEPT !.calls = @ + 1,
                        !.blnPersistDone = @ \/ (skip /\ ~o.bErrState)]
    IN /\ phase[r] = "run"
       /\ "execute" \in Ops
       /\ obj[r].calls < MaxOps
       /\ IF skip THEN Continue(r, o1)
          ELSE /\ obj' = [obj EXCEPT ![r] = o1]
               /\ phase' = [phase EXCEPT ![r] = next]
       /\ UNCHANGED <<store, cookie>>

\* Response.Flush: the headers go to the browser while the page runs.
Flush(r) ==
    LET o == obj[r]
    IN /\ ~o.headersSent
       /\ Called(r, "flush", [o EXCEPT !.headersSent = TRUE])
       /\ cookie' = [cookie EXCEPT ![BrowserOf[r]] = Delivered(o, @)]
       /\ UNCHANGED <<store, phase>>

-----------------------------------------------------------------------------
(* OnEndPage (or FinalRelease): PersistSession *)

EndPage(r) ==
    LET o == obj[r]
        next == PersistPhase(o)
    IN /\ phase[r] = "run"
       /\ phase' = [phase EXCEPT ![r] = next]
       /\ obj' = [obj EXCEPT ![r].blnPersistDone = @ \/ (next = "saved" /\ ~o.bErrState)]
       /\ UNCHANGED <<store, cookie>>

\* Mutated form of SaveRename: the record is copied to its new key.
SaveRenameCopies(r) ==
    LET o == obj[r]
    IN /\ phase[r] = "rename"
       /\ store' = [store EXCEPT ![o.guid] = Lookup(o.oldGuid)]
       /\ phase' = [phase EXCEPT ![r] = "write"]
       /\ UNCHANGED <<cookie, obj>>

\* SessionSave of a liquid session: RENAME, whose error reply is not looked at.
SaveRename(r) ==
    LET o == obj[r]
    IN /\ phase[r] = "rename"
       /\ store' = IF Lookup(o.oldGuid) = Absent THEN store
                   ELSE [store EXCEPT ![o.oldGuid] = Absent, ![o.guid] = store[o.oldGuid]]
       /\ phase' = [phase EXCEPT ![r] = "write"]
       /\ UNCHANGED <<cookie, obj>>

\* Mutated form of MustWrite: what was removed or changed later is not written.
MustWriteOnce(o) == o.blnNew \/ o.blnExpired

\* PersistSession serialises the dictionary only then.
MustWrite(o) == o.blnDirty \/ o.blnNew \/ o.blnExpired

\* SessionSave: SET when there is something to write, EXPIRE otherwise. An
\* EXPIRE changes no record, and does nothing for a key that is gone.
SaveWrite(r) ==
    LET o == obj[r]
        key == IF o.blnLiquid THEN o.guid ELSE o.oldGuid
    IN /\ phase[r] = "write"
       /\ store' = IF MustWrite(o)
                   THEN [store EXCEPT ![key] = [data |-> o.dict, liquid |-> o.blnLiquid,
                                                reent |-> o.blnReEntrance]]
                   ELSE store
       /\ Continue(r, [o EXCEPT !.blnPersistDone = TRUE])
       /\ UNCHANGED cookie

\* SessionDelete: EXPIRE 0; a key that is gone already is reported as an error.
SessionDelete(r) ==
    LET o == obj[r]
    IN /\ phase[r] = "delete"
       /\ store' = [store EXCEPT ![o.oldGuid] = Absent]
       /\ Continue(r, [o EXCEPT !.blnPersistDone = TRUE,
                                !.bErrState = @ \/ Lookup(o.oldGuid) = Absent])
       /\ UNCHANGED cookie

\* The response reaches the browser and the object is destroyed.
Respond(r) ==
    LET o == obj[r]
    IN /\ phase[r] = "saved"
       /\ cookie' = [cookie EXCEPT ![BrowserOf[r]] = Delivered(o, @)]
       /\ phase' = [phase EXCEPT ![r] = "done"]
       /\ obj' = [obj EXCEPT ![r] = [NewObject EXCEPT !.draws = o.draws, !.calls = o.calls]]
       /\ UNCHANGED store

-----------------------------------------------------------------------------
(* The environment *)

\* Redis drops a key whose time to live has passed.
Expire(g) ==
    /\ store[g] # Absent
    /\ \/ Expiry = "any"
       \/ /\ Expiry = "idle"
          /\ \A r \in Requests : InFlight(r) => g \notin {obj[r].guid, obj[r].oldGuid}
    /\ store' = [store EXCEPT ![g] = Absent]
    /\ UNCHANGED <<cookie, phase, obj>>

\* Mutated form of ConnectionFails: OnStartPage does not look at dbInit's error,
\* and the page runs on a dictionary that was never read.
ConnectionFailsUnseen(r) ==
    /\ Faults
    /\ phase[r] = "get"
    /\ obj' = [obj EXCEPT ![r] = Returned(@)]
    /\ phase' = [phase EXCEPT ![r] = "run"]
    /\ UNCHANGED <<store, cookie>>

\* simple_pool::get returns no connection, or Redis replies with an error:
\* OnStartPage fails when it happens in dbInit, the save is given up when it
\* happens later. (Where the null connection is used unseen, it is a Crash.)
ConnectionFails(r) ==
    LET o == [obj[r] EXCEPT !.bErrState = TRUE]
    IN /\ Faults
       /\ \/ /\ phase[r] \in {"get", "insert", "reget"}
             /\ obj' = [obj EXCEPT ![r] = Returned(o)]
             /\ phase' = [phase EXCEPT ![r] = IF o.executing THEN "run" ELSE "saved"]
          \/ /\ phase[r] \in {"rename", "write", "delete"}
             /\ Continue(r, [o EXCEPT !.blnPersistDone = TRUE])
       /\ UNCHANGED <<store, cookie>>

\* The worker process dies, for one because a connection breaks inside
\* PersistSession, which is noexcept: all its requests end unanswered.
Crash ==
    /\ Faults
    /\ \E r \in Requests : InFlight(r)
    /\ phase' = [r \in Requests |-> IF InFlight(r) THEN "done" ELSE phase[r]]
    /\ obj' = [r \in Requests |->
                  IF InFlight(r)
                  THEN [NewObject EXCEPT !.draws = obj[r].draws, !.calls = obj[r].calls]
                  ELSE obj[r]]
    /\ UNCHANGED <<store, cookie>>

AllDone ==
    /\ \A r \in Requests : phase[r] = "done"
    /\ UNCHANGED vars

Initialize(r) ==
    \/ Start(r) \/ GetFound(r) \/ GetMissing(r) \/ SessionInsert(r) \/ GetInserted(r)

Script(r) ==
    \/ PutValue(r) \/ PutRefValue(r) \/ Remove(r) \/ RemoveAll(r) \/ Abandon(r)
    \/ LiquidOn(r) \/ LiquidOff(r) \/ ReadonlyOn(r) \/ ReadonlyOff(r)
    \/ PutReEntrance(r) \/ Execute(r) \/ Flush(r)

PersistSession(r) ==
    \/ EndPage(r) \/ SaveRename(r) \/ SaveWrite(r) \/ SessionDelete(r) \/ Respond(r)

Next ==
    \/ \E r \in Requests : Initialize(r) \/ Script(r) \/ PersistSession(r) \/ ConnectionFails(r)
    \/ \E g \in Guid : Expire(g)
    \/ Crash
    \/ AllDone

Spec == Init /\ [][Next]_vars

-----------------------------------------------------------------------------
(* Properties *)

TypeOK ==
    /\ store \in [Guid -> Record \cup {Absent}]
    /\ cookie \in [Browsers -> Id]
    /\ phase \in [Requests -> Phase]
    /\ obj \in [Requests -> NWCSession]

\* Request r may still write under the key of g: it has read the record of g,
\* or drawn g, and its PersistSession is not behind it.
Holds(r, g) ==
    /\ \/ phase[r] \in {"insert", "reget", "run", "rename", "write", "delete"}
       \/ phase[r] = "get" /\ obj[r].executing
    /\ g \in {obj[r].guid, obj[r].oldGuid}

\* An id that was given out, has no record and is in nobody's hands.
Dead(g) == Drawn(g) /\ store[g] = Absent /\ \A r \in Requests : ~Holds(r, g)

\* A session that has ended (abandoned, timed out or renamed) and that no
\* running request holds never comes back, even when browsers go on
\* presenting its id: dbInit answers an unknown id with a new one.
DeadStaysDead == [][\A g \in Guid : Dead(g) => Dead(g)']_vars

\* As long as ids travel in cookies only, a browser holds ids that were drawn
\* for it, and a record holds what requests of one browser wrote.
SessionIsolation ==
    UrlIds \/
    (/\ \A b \in Browsers : cookie[b] # NoId => BrowserOf[cookie[b][1]] = b
     /\ \A g \in Guid : store[g] # Absent =>
           \A v \in store[g].data : BrowserOf[v] = BrowserOf[g[1]])

\* Between two requests the cookie of a browser names a record: the id written
\* by dbInit, Execute, put_LiquidCookie is the one PersistSession saves under.
CookieNamesRecord ==
    \A b \in Browsers :
       (cookie[b] # NoId /\ \A r \in Requests : BrowserOf[r] = b => ~InFlight(r))
          => store[cookie[b]] # Absent

\* The rotation of a liquid id moves the contents, it never leaves a copy
\* behind under an id that was given up.
NoSecondCopy ==
    \A g, h \in Guid :
       (store[g] # Absent /\ store[h] # Absent /\ store[g].data \cap store[h].data # {})
          => g = h

-----------------------------------------------------------------------------
(* The contract: one request of a browser at a time (Overlap = 1) *)

RequestOf(b) == {r \in Requests : BrowserOf[r] = b /\ InFlight(r)}

\* The answer decides: it has to tell the browser the id of a new session, or
\* to take away the id of an abandoned session that could not be deleted.
Undecided(r) ==
    /\ phase[r] = "saved"
    /\ Delivered(obj[r], cookie[BrowserOf[r]]) # cookie[BrowserOf[r]]
    /\ obj[r].blnNew \/ (obj[r].blnCancel /\ Lookup(obj[r].oldGuid) # Absent)

\* The key that holds the contents while r is in flight.
KeyHeld(r) ==
    CASE phase[r] = "saved" /\ ~Undecided(r) -> Delivered(obj[r], cookie[BrowserOf[r]])
      [] phase[r] = "write" /\ obj[r].blnLiquid -> obj[r].guid
      [] OTHER -> obj[r].oldGuid

DataOf(i) == IF Lookup(i) = Absent THEN {} ELSE Lookup(i).data

Content(b) ==
    IF RequestOf(b) = {} THEN DataOf(cookie[b])
    ELSE LET r == CHOOSE q \in RequestOf(b) : TRUE
         IN IF Undecided(r) /\ obj[r].blnNew THEN {} ELSE DataOf(KeyHeld(r))

Running(r) ==
    \/ phase[r] \in {"run", "rename", "write", "delete"} /\ ~obj[r].bErrState
    \/ Undecided(r) /\ (obj[r].blnCancel \/ ~obj[r].bErrState)

PageOf(b) ==
    LET running == {r \in RequestOf(b) : Running(r)}
        o == obj[CHOOSE r \in running : TRUE]
    IN IF running = {} THEN [running |-> FALSE, view |-> {}, ro |-> FALSE, gone |-> FALSE]
       ELSE [running |-> TRUE, view |-> o.dict, ro |-> o.bReadonly, gone |-> o.blnCancel]

Contract == INSTANCE SessionContract
    WITH Values <- Requests, MayLapse <- (Expiry # "never"), MayAbort <- Faults,
         content <- [b \in Browsers |-> Content(b)],
         page <- [b \in Browsers |-> PageOf(b)]

\* Seen through cookies and records, the requests of a browser are the pages
\* of its session: what OnEndPage saves is what the next OnStartPage loads.
ImplementsContract == Contract!Spec

=============================================================================
