------------------------ MODULE ClassicSession_proofs ------------------------
(***************************************************************************)
(* Proofs about ClassicSession, for every set of requests and browsers.    *)
(***************************************************************************)
EXTENDS ClassicSession, TLAPS

-----------------------------------------------------------------------------
(* Type correctness *)

\* How many GUIDs an object may have drawn: two for every method it was
\* called, and two once OnStartPage (or the dbInit of Execute) has drawn.
Bound(o, p) ==
    /\ o.draws <= 2 * o.calls +
          (IF \/ p \in {"idle", "get"}
              \/ o.executing /\ p \in {"rename", "write", "delete"}
           THEN 0 ELSE 2)
    /\ p = "run" => ~o.executing

DrawsBounded == \A r \in Requests : Bound(obj[r], phase[r])

TypeInv == TypeOK /\ DrawsBounded

SameCounts(n, o) ==
    n.draws = o.draws /\ n.calls = o.calls /\ n.executing = o.executing

LEMMA WriteCookieType ==
    ASSUME NEW o \in NWCSession
    PROVE  /\ WriteCookie(o) \in NWCSession
           /\ WriteCookie(o).draws = o.draws
           /\ WriteCookie(o).calls = o.calls
           /\ WriteCookie(o).executing = o.executing
  BY DEF WriteCookie, NWCSession

LEMMA NewIDType ==
    ASSUME NEW r \in Requests, NEW o \in NWCSession, o.draws \in Draws
    PROVE  /\ NewID(r, o) \in NWCSession
           /\ NewID(r, o).draws \in {o.draws, o.draws + 1}
           /\ NewID(r, o).calls = o.calls
           /\ NewID(r, o).executing = o.executing
  <1> DEFINE draw == o.blnLiquid \/ o.blnNew
             g == IF draw THEN <<r, o.draws>> ELSE o.guid
  <1>1. g \in Id
    BY DEF NWCSession, Id, Guid
  <1>2. o.draws + 1 \in Nat
    BY DEF NWCSession
  <1>. QED BY <1>1, <1>2 DEF NewID, NWCSession

LEMMA ReturnedType ==
    ASSUME NEW o \in NWCSession
    PROVE  /\ Returned(o) \in NWCSession
           /\ Returned(o).draws = o.draws
           /\ Returned(o).calls = o.calls
           /\ Returned(o).executing = FALSE
  BY DEF Returned, NWCSession

LEMMA NewObjectType ==
    NewObject \in NWCSession /\ NewObject.draws = 0 /\ NewObject.calls = 0
  BY SessionAssumption DEF NewObject, NWCSession, Id

LEMMA LookupType ==
    ASSUME TypeOK, NEW i \in Id
    PROVE  Lookup(i) \in Record \cup {Absent}
  BY DEF Lookup, TypeOK, Id

LEMMA DeliveredType ==
    ASSUME NEW o \in NWCSession, NEW old \in Id
    PROVE  Delivered(o, old) \in Id
  BY DEF Delivered, NWCSession, Id

LEMMA PersistPhaseType ==
    ASSUME NEW o
    PROVE  PersistPhase(o) \in {"saved", "delete", "rename", "write"}
  BY DEF PersistPhase

\* An action that replaces the object and the phase of one request.
LEMMA FrameType ==
    ASSUME TypeInv, NEW r \in Requests, NEW o \in NWCSession, NEW p \in Phase,
           obj' = [obj EXCEPT ![r] = o], phase' = [phase EXCEPT ![r] = p],
           Bound(o, p),
           store' \in [Guid -> Record \cup {Absent}], cookie' \in [Browsers -> Id]
    PROVE  TypeInv'
  <1>1. TypeOK'
    BY DEF TypeInv, TypeOK
  <1>2. ASSUME NEW q \in Requests PROVE Bound(obj'[q], phase'[q])
    BY DEF TypeInv, TypeOK, DrawsBounded
  <1>. QED BY <1>1, <1>2 DEF TypeInv, DrawsBounded

\* PersistSession done inside Session.Execute leads to the second dbInit.
LEMMA ContinueType ==
    ASSUME TypeInv, NEW r \in Requests, NEW o \in NWCSession, Continue(r, o),
           phase[r] \in {"run", "rename", "write", "delete"},
           o.draws <= 2 * o.calls + (IF o.executing THEN 0 ELSE 2),
           store' \in [Guid -> Record \cup {Absent}], cookie' \in [Browsers -> Id]
    PROVE  TypeInv'
  <1> DEFINE again == [o EXCEPT !.dict = {}, !.blnNew = FALSE, !.blnExpired = FALSE]
             back == Returned(again)
  <1>1. CASE ~o.executing
    <2>1. obj' = [obj EXCEPT ![r] = o] /\ phase' = [phase EXCEPT ![r] = "saved"]
      BY <1>1 DEF Continue
    <2>2. Bound(o, "saved")
      BY <1>1 DEF Bound
    <2>. QED BY <2>1, <2>2, FrameType DEF Phase
  <1>2. CASE o.executing /\ o.bErrState
    <2>1. obj' = [obj EXCEPT ![r] = back] /\ phase' = [phase EXCEPT ![r] = "run"]
      BY <1>2 DEF Continue
    <2>2. /\ back \in NWCSession /\ back.executing = FALSE
          /\ back.draws = o.draws /\ back.calls = o.calls
      <3>1. again \in NWCSession /\ again.draws = o.draws /\ again.calls = o.calls
        BY DEF NWCSession
      <3>. HIDE DEF again
      <3>. QED BY <3>1, ReturnedType
    <2>3. Bound(back, "run")
      BY <1>2, <2>2 DEF Bound, NWCSession
    <2>. QED BY <2>1, <2>2, <2>3, FrameType DEF Phase
  <1>3. CASE o.executing /\ ~o.bErrState
    <2>1. obj' = [obj EXCEPT ![r] = again] /\ phase' = [phase EXCEPT ![r] = "get"]
      BY <1>3 DEF Continue
    <2>2. again \in NWCSession /\ again.draws = o.draws /\ again.calls = o.calls
      BY DEF NWCSession
    <2>3. Bound(again, "get")
      BY <1>3, <2>2 DEF Bound, NWCSession
    <2>. QED BY <2>1, <2>2, <2>3, FrameType DEF Phase
  <1>. QED BY <1>1, <1>2, <1>3

\* A method of the session object draws at most one GUID.
LEMMA MethodType ==
    ASSUME TypeInv, NEW r \in Requests, NEW op, NEW o \in NWCSession, Called(r, op, o),
           o.draws <= obj[r].draws + 1, o.calls = obj[r].calls,
           o.executing = obj[r].executing,
           UNCHANGED <<store, phase>>, cookie' \in [Browsers -> Id]
    PROVE  TypeInv'
  <1> DEFINE n == [o EXCEPT !.calls = @ + 1]
  <1>1. obj[r] \in NWCSession /\ obj[r].draws \in Nat /\ obj[r].calls \in Nat
    BY DEF TypeInv, TypeOK, NWCSession
  <1>2. obj' = [obj EXCEPT ![r] = n] /\ phase' = [phase EXCEPT ![r] = "run"]
    BY DEF Called, TypeInv, TypeOK
  <1>3. /\ n \in NWCSession /\ n.executing = obj[r].executing
        /\ n.draws = o.draws /\ n.calls = obj[r].calls + 1
    <2>1. o.calls + 1 \in 0 .. MaxOps
      BY <1>1, SessionAssumption DEF Called
    <2>. QED BY <2>1 DEF NWCSession
  <1>4. obj[r].draws <= 2 * obj[r].calls + 2 /\ ~obj[r].executing
    BY <1>1 DEF TypeInv, DrawsBounded, Bound, Called
  <1>5. Bound(n, "run")
    BY <1>1, <1>3, <1>4 DEF Bound, NWCSession
  <1>6. store' \in [Guid -> Record \cup {Absent}]
    BY DEF TypeInv, TypeOK
  <1>. QED BY <1>2, <1>3, <1>5, <1>6, FrameType DEF Phase

LEMMA DrawAllowed ==
    ASSUME TypeInv, NEW r \in Requests
    PROVE  /\ obj[r] \in NWCSession
           /\ obj[r].draws \in Nat /\ obj[r].calls \in Nat
           /\ phase[r] = "get" => obj[r].draws \in Draws /\ obj[r].draws + 1 \in Draws
           /\ phase[r] = "run" /\ obj[r].calls < MaxOps => obj[r].draws \in Draws
  <1>1. obj[r] \in NWCSession /\ obj[r].draws \in Nat /\ obj[r].calls \in 0 .. MaxOps
    BY DEF TypeInv, TypeOK, NWCSession
  <1>2. obj[r].draws <= 2 * obj[r].calls + 2
    BY <1>1 DEF TypeInv, DrawsBounded, Bound
  <1>3. phase[r] = "get" => obj[r].draws <= 2 * obj[r].calls
    BY <1>1 DEF TypeInv, DrawsBounded, Bound
  <1>. DEFINE d == obj[r].draws
              c == obj[r].calls
  <1>4. d \in Nat /\ c \in Nat /\ c <= MaxOps /\ MaxOps \in Nat /\ d <= 2 * c + 2
        /\ (phase[r] = "get" => d <= 2 * c)
    BY <1>1, <1>2, <1>3, SessionAssumption
  <1>. HIDE DEF d, c
  <1>5. phase[r] = "get" => d \in Draws /\ d + 1 \in Draws
    BY <1>4 DEF Draws
  <1>6. c < MaxOps => d \in Draws
    BY <1>4 DEF Draws
  <1>. QED BY <1>1, <1>5, <1>6 DEF d, c

LEMMA StartType ==
    ASSUME TypeInv, NEW r \in Requests, Start(r)
    PROVE  TypeInv'
  <1>1. PICK i \in Id, url \in BOOLEAN :
           obj' = [obj EXCEPT ![r] = [NewObject EXCEPT !.guid = i, !.oldGuid = i,
                                         !.strGUID = i, !.blnNew = (i = NoId),
                                         !.blnFoundURLGuid = url]]
    BY DEF Start
  <1> DEFINE o == [NewObject EXCEPT !.guid = i, !.oldGuid = i, !.strGUID = i,
                                    !.blnNew = (i = NoId), !.blnFoundURLGuid = url]
  <1>2. o \in NWCSession /\ o.draws = 0 /\ o.calls = 0
    <2>1. NewObject \in NWCSession /\ NewObject.draws = 0 /\ NewObject.calls = 0
      BY NewObjectType
    <2>2. i \in Id /\ url \in BOOLEAN /\ (i = NoId) \in BOOLEAN
      OBVIOUS
    <2>3. o.draws = NewObject.draws /\ o.calls = NewObject.calls
      BY ONLY <2>1 DEF NWCSession
    <2>4. o \in NWCSession
      <3>1. ASSUME NEW n \in NWCSession
            PROVE  [n EXCEPT !.guid = i, !.oldGuid = i, !.strGUID = i] \in NWCSession
        BY ONLY <2>2, <3>1 DEF NWCSession
      <3>2. ASSUME NEW n \in NWCSession, NEW new \in BOOLEAN
            PROVE  [n EXCEPT !.blnNew = new, !.blnFoundURLGuid = url] \in NWCSession
        BY ONLY <2>2, <3>2 DEF NWCSession
      <3>3. o = [[NewObject EXCEPT !.guid = i, !.oldGuid = i, !.strGUID = i]
                    EXCEPT !.blnNew = (i = NoId), !.blnFoundURLGuid = url]
        OBVIOUS
      <3>. QED BY ONLY <2>1, <2>2, <3>1, <3>2, <3>3
    <2>. QED BY <2>1, <2>3, <2>4
  <1>. Bound(o, "get")
    BY <1>2 DEF Bound
  <1>3. phase' = [phase EXCEPT ![r] = "get"] /\ UNCHANGED <<store, cookie>>
    BY DEF Start
  <1>. QED BY <1>1, <1>2, <1>3, FrameType DEF Phase, TypeInv, TypeOK

LEMMA GetFoundType ==
    ASSUME TypeInv, NEW r \in Requests, GetFound(r)
    PROVE  TypeInv'
  <1> DEFINE o == obj[r]
             rec == Lookup(o.guid)
             refused == ~o.blnNew /\ ~o.blnExpired /\ o.blnFoundURLGuid /\ ~rec.reent
             a == [o EXCEPT !.blnExpired = TRUE, !.blnNew = TRUE, !.dict = {}]
             o1 == IF refused THEN NewID(r, a) ELSE o
             o2 == [o1 EXCEPT !.blnReEntrance = rec.reent, !.blnLiquid = rec.liquid,
                              !.dict = rec.data]
             o3 == IF o2.blnLiquid THEN NewID(r, o2) ELSE o2
             o4 == IF o3.blnLiquid \/ o3.blnNew \/ o3.blnExpired
                   THEN WriteCookie(o3) ELSE o3
             o5 == Returned(o4)
  <1>1. /\ o \in NWCSession /\ o.draws \in Draws /\ o.draws + 1 \in Draws
        /\ o.draws \in Nat /\ o.calls \in Nat /\ phase[r] = "get"
    BY DrawAllowed DEF GetFound
  <1>2. rec \in Record
    <2>1. o.guid \in Id
      BY <1>1 DEF NWCSession
    <2>. QED BY <2>1, LookupType DEF GetFound, TypeInv
  <1>3. o1 \in NWCSession /\ o1.draws \in {o.draws, o.draws + 1} /\ o1.calls = o.calls
    <2>1. a \in NWCSession /\ a.draws = o.draws /\ a.calls = o.calls
      BY <1>1 DEF NWCSession
    <2>. HIDE DEF a, o
    <2>2. NewID(r, a) \in NWCSession /\ NewID(r, a).draws \in {o.draws, o.draws + 1}
             /\ NewID(r, a).calls = o.calls
      BY <1>1, <2>1, NewIDType
    <2>. QED BY <1>1, <2>2
  <1>4. o2 \in NWCSession /\ o2.draws = o1.draws /\ o2.calls = o.calls
    BY <1>2, <1>3 DEF NWCSession, Record
  <1>5. /\ o3 \in NWCSession /\ o3.calls = o.calls
        /\ o3.draws \in {o.draws, o.draws + 1, o.draws + 2}
    <2>1. o2.draws \in Draws
      BY <1>1, <1>3, <1>4
    <2>. HIDE DEF o2
    <2>2. NewID(r, o2) \in NWCSession /\ NewID(r, o2).draws \in {o2.draws, o2.draws + 1}
             /\ NewID(r, o2).calls = o2.calls
      BY <1>4, <2>1, NewIDType
    <2>. QED BY <1>1, <1>3, <1>4, <2>2
  <1>6. o4 \in NWCSession /\ o4.draws = o3.draws /\ o4.calls = o.calls
    <2>. HIDE DEF o3
    <2>. QED BY <1>5, WriteCookieType
  <1>7. /\ o5 \in NWCSession /\ o5.executing = FALSE
        /\ o5.draws = o4.draws /\ o5.calls = o.calls
    <2>. HIDE DEF o4
    <2>. QED BY <1>6, ReturnedType
  <1>8. Bound(o5, "run")
    <2>1. o.draws <= 2 * o.calls
      BY <1>1 DEF TypeInv, DrawsBounded, Bound
    <2>. HIDE DEF o3, o4, o5
    <2>2. o5.draws <= 2 * o.calls + 2
      BY <1>1, <1>5, <1>6, <1>7, <2>1
    <2>. QED BY <1>7, <2>2 DEF Bound
  <1>9. /\ obj' = [obj EXCEPT ![r] = o5] /\ phase' = [phase EXCEPT ![r] = "run"]
        /\ UNCHANGED <<store, cookie>>
    BY DEF GetFound
  <1>. HIDE DEF o5
  <1>. QED BY <1>7, <1>8, <1>9, FrameType DEF Phase, TypeInv, TypeOK

LEMMA GetMissingType ==
    ASSUME TypeInv, NEW r \in Requests, GetMissing(r)
    PROVE  TypeInv'
  <1> DEFINE o == obj[r]
             a == [o EXCEPT !.blnExpired = @ \/ ~o.blnNew, !.blnNew = TRUE]
             o1 == NewID(r, a)
             o2 == [o1 EXCEPT !.oldGuid = o1.guid]
  <1>1. /\ o \in NWCSession /\ o.draws \in Draws /\ o.draws \in Nat /\ o.calls \in Nat
        /\ phase[r] = "get"
    BY DrawAllowed DEF GetMissing
  <1>2. a \in NWCSession /\ a.draws = o.draws /\ a.calls = o.calls
    BY <1>1 DEF NWCSession
  <1>3. o1 \in NWCSession /\ o1.draws \in {o.draws, o.draws + 1} /\ o1.calls = o.calls
    BY <1>1, <1>2, NewIDType
  <1>4. o2 \in NWCSession /\ o2.draws = o1.draws /\ o2.calls = o.calls
    BY <1>3 DEF NWCSession
  <1>5. Bound(o2, "insert")
    <2>1. o.draws <= 2 * o.calls
      BY <1>1 DEF TypeInv, DrawsBounded, Bound
    <2>. QED BY <1>1, <1>3, <1>4, <2>1 DEF Bound
  <1>6. /\ obj' = [obj EXCEPT ![r] = o2] /\ phase' = [phase EXCEPT ![r] = "insert"]
        /\ UNCHANGED <<store, cookie>>
    BY DEF GetMissing
  <1>. HIDE DEF o2
  <1>. QED BY <1>4, <1>5, <1>6, FrameType DEF Phase, TypeInv, TypeOK

LEMMA SessionInsertType ==
    ASSUME TypeInv, NEW r \in Requests, SessionInsert(r)
    PROVE  TypeInv'
  <1>1. /\ obj[r] \in NWCSession
        /\ obj[r].blnLiquid \in BOOLEAN /\ obj[r].blnReEntrance \in BOOLEAN
    BY DrawAllowed DEF NWCSession
  <1>2. store' \in [Guid -> Record \cup {Absent}]
    BY <1>1 DEF SessionInsert, TypeInv, TypeOK, Record
  <1>3. obj' = [obj EXCEPT ![r] = obj[r]] /\ phase' = [phase EXCEPT ![r] = "reget"]
        /\ UNCHANGED cookie
    BY DEF SessionInsert, TypeInv, TypeOK
  <1>4. Bound(obj[r], "reget")
    <2>1. Bound(obj[r], "insert")
      BY DEF SessionInsert, TypeInv, DrawsBounded
    <2>. QED BY <2>1 DEF Bound
  <1>. QED BY <1>1, <1>2, <1>3, <1>4, FrameType DEF Phase, TypeInv, TypeOK

LEMMA GetInsertedType ==
    ASSUME TypeInv, NEW r \in Requests, GetInserted(r)
    PROVE  TypeInv'
  <1> DEFINE o == obj[r]
             lost == Lookup(o.guid) = Absent
             failed == lost /\ ~o.executing
             a == [WriteCookie(o) EXCEPT !.bErrState = failed]
             n == Returned(a)
             p == IF failed THEN "saved" ELSE "run"
  <1>1. o \in NWCSession /\ o.draws \in Nat /\ o.calls \in Nat /\ phase[r] = "reget"
    BY DrawAllowed DEF GetInserted
  <1>2. a \in NWCSession /\ a.draws = o.draws /\ a.calls = o.calls
    <2>1. /\ WriteCookie(o) \in NWCSession /\ WriteCookie(o).draws = o.draws
          /\ WriteCookie(o).calls = o.calls
      BY <1>1, WriteCookieType
    <2>. QED BY <2>1 DEF NWCSession
  <1>. HIDE DEF a
  <1>3. /\ n \in NWCSession /\ n.executing = FALSE
        /\ n.draws = o.draws /\ n.calls = o.calls
    BY <1>2, ReturnedType
  <1>4. Bound(n, p)
    <2>1. Bound(o, "reget")
      BY <1>1 DEF TypeInv, DrawsBounded
    <2>. QED BY <1>1, <1>3, <2>1 DEF Bound
  <1>5. obj' = [obj EXCEPT ![r] = n] /\ phase' = [phase EXCEPT ![r] = p]
        /\ UNCHANGED <<store, cookie>>
    BY DEF GetInserted, a
  <1>. HIDE DEF n
  <1>. QED BY <1>3, <1>4, <1>5, FrameType DEF Phase, TypeInv, TypeOK

LEMMA SameMethodType ==
    ASSUME TypeInv, NEW r \in Requests, NEW op, NEW o \in NWCSession, Method(r, op, o),
           o.draws <= obj[r].draws + 1, o.calls = obj[r].calls,
           o.executing = obj[r].executing
    PROVE  TypeInv'
  BY MethodType DEF Method, TypeInv, TypeOK

LEMMA ScriptType ==
    ASSUME TypeInv, NEW r \in Requests,
           \/ PutValue(r) \/ PutRefValue(r) \/ Remove(r) \/ RemoveAll(r) \/ Abandon(r)
           \/ ReadonlyOn(r) \/ ReadonlyOff(r) \/ PutReEntrance(r) \/ Flush(r)
    PROVE  TypeInv'
  <1> DEFINE o == obj[r]
  <1>0. o \in NWCSession /\ o.draws \in Nat /\ o.calls \in Nat /\ o.draws <= o.draws + 1
    BY DrawAllowed
  <1>1. CASE PutValue(r)
    <2> DEFINE n == [o EXCEPT !.dict = @ \cup {r}, !.blnDirty = TRUE]
    <2>1. n \in NWCSession /\ SameCounts(n, o)
      BY <1>0 DEF NWCSession, SameCounts
    <2>2. Method(r, "put", n)
      BY <1>1 DEF PutValue
    <2>. QED BY <1>0, <2>1, <2>2, SameMethodType DEF SameCounts
  <1>2. CASE PutRefValue(r)
    <2> DEFINE n == [o EXCEPT !.dict = @ \cup {r}]
    <2>1. n \in NWCSession /\ SameCounts(n, o)
      BY <1>0 DEF NWCSession, SameCounts
    <2>2. Method(r, "putref", n)
      BY <1>2 DEF PutRefValue
    <2>. QED BY <1>0, <2>1, <2>2, SameMethodType DEF SameCounts
  <1>3. CASE Remove(r)
    <2>1. PICK v \in Requests :
             Method(r, "remove", [o EXCEPT !.dict = @ \ {v}, !.blnDirty = TRUE])
      BY <1>3 DEF Remove
    <2> DEFINE n == [o EXCEPT !.dict = @ \ {v}, !.blnDirty = TRUE]
    <2>2. n \in NWCSession /\ SameCounts(n, o)
      BY <1>0 DEF NWCSession, SameCounts
    <2>. QED BY <1>0, <2>1, <2>2, SameMethodType DEF SameCounts
  <1>4. CASE RemoveAll(r)
    <2> DEFINE n == [o EXCEPT !.dict = {}]
    <2>1. n \in NWCSession /\ SameCounts(n, o)
      BY <1>0 DEF NWCSession, SameCounts
    <2>2. Method(r, "removeAll", n)
      BY <1>4 DEF RemoveAll
    <2>. QED BY <1>0, <2>1, <2>2, SameMethodType DEF SameCounts
  <1>5. CASE Abandon(r)
    <2> DEFINE a == [o EXCEPT !.blnCancel = TRUE, !.dict = {}]
    <2>1. a \in NWCSession /\ SameCounts(a, o)
      BY <1>0 DEF NWCSession, SameCounts
    <2>2. Method(r, "abandon", WriteCookie(a))
      BY <1>5 DEF Abandon
    <2>. HIDE DEF a
    <2>. QED BY <1>0, <2>1, <2>2, WriteCookieType, SameMethodType DEF SameCounts
  <1>6. CASE ReadonlyOn(r)
    <2> DEFINE n == [o EXCEPT !.bReadonly = TRUE]
    <2>1. n \in NWCSession /\ SameCounts(n, o)
      BY <1>0 DEF NWCSession, SameCounts
    <2>2. Method(r, "readonlyOn", n)
      BY <1>6 DEF ReadonlyOn
    <2>. QED BY <1>0, <2>1, <2>2, SameMethodType DEF SameCounts
  <1>7. CASE ReadonlyOff(r)
    <2> DEFINE n == [o EXCEPT !.bReadonly = FALSE]
    <2>1. n \in NWCSession /\ SameCounts(n, o)
      BY <1>0 DEF NWCSession, SameCounts
    <2>2. Method(r, "readonlyOff", n)
      BY <1>7 DEF ReadonlyOff
    <2>. QED BY <1>0, <2>1, <2>2, SameMethodType DEF SameCounts
  <1>8. CASE PutReEntrance(r)
    <2>1. PICK b \in BOOLEAN : Method(r, "reentrance", [o EXCEPT !.blnReEntrance = b])
      BY <1>8 DEF PutReEntrance
    <2> DEFINE n == [o EXCEPT !.blnReEntrance = b]
    <2>2. n \in NWCSession /\ SameCounts(n, o)
      BY <1>0 DEF NWCSession, SameCounts
    <2>. QED BY <1>0, <2>1, <2>2, SameMethodType DEF SameCounts
  <1>9. CASE Flush(r)
    <2> DEFINE n == [o EXCEPT !.headersSent = TRUE]
    <2>1. n \in NWCSession /\ SameCounts(n, o)
      BY <1>0 DEF NWCSession, SameCounts
    <2>2. Called(r, "flush", n) /\ UNCHANGED <<store, phase>>
      BY <1>9 DEF Flush
    <2>3. cookie' \in [Browsers -> Id]
      <3>1. BrowserOf[r] \in Browsers
        BY SessionAssumption
      <3>. QED BY <1>0, <1>9, <3>1, DeliveredType DEF Flush, TypeInv, TypeOK
    <2>. QED BY <1>0, <2>1, <2>2, <2>3, MethodType DEF SameCounts
  <1>. QED BY <1>1, <1>2, <1>3, <1>4, <1>5, <1>6, <1>7, <1>8, <1>9

LEMMA LiquidType ==
    ASSUME TypeInv, NEW r \in Requests, LiquidOn(r) \/ LiquidOff(r)
    PROVE  TypeInv'
  <1> DEFINE o == obj[r]
  <1>0. o \in NWCSession /\ o.draws \in Nat /\ o.calls \in Nat /\ o.draws <= o.draws + 1
    BY DrawAllowed
  <1>1. CASE LiquidOn(r)
    <2> DEFINE a == [o EXCEPT !.blnLiquid = TRUE, !.oldGuid = o.guid]
    <2>1. o.draws \in Draws
      BY <1>1, DrawAllowed DEF LiquidOn, Method, Called
    <2>2. a \in NWCSession /\ SameCounts(a, o)
      BY <1>0 DEF NWCSession, SameCounts
    <2>3. Method(r, "liquidOn", WriteCookie(NewID(r, a)))
      BY <1>1 DEF LiquidOn
    <2>. HIDE DEF a
    <2>4. NewID(r, a) \in NWCSession /\ NewID(r, a).draws \in {o.draws, o.draws + 1}
             /\ NewID(r, a).calls = o.calls /\ NewID(r, a).executing = o.executing
      BY <2>1, <2>2, NewIDType DEF SameCounts
    <2>5. WriteCookie(NewID(r, a)) \in NWCSession
             /\ WriteCookie(NewID(r, a)).draws = NewID(r, a).draws
             /\ WriteCookie(NewID(r, a)).calls = o.calls
             /\ WriteCookie(NewID(r, a)).executing = o.executing
      BY <2>4, WriteCookieType
    <2>. QED BY <1>0, <2>3, <2>4, <2>5, SameMethodType DEF SameCounts
  <1>2. CASE LiquidOff(r)
    <2> DEFINE off == [o EXCEPT !.blnLiquid = FALSE, !.guid = o.oldGuid]
               back == [off EXCEPT !.strGUID = o.m_OldSessionId, !.m_OldSessionId = NoId]
               n == IF o.m_OldSessionId = NoId THEN off ELSE WriteCookie(back)
    <2>1. off \in NWCSession /\ SameCounts(off, o)
      BY <1>0 DEF NWCSession, SameCounts
    <2>2. back \in NWCSession /\ SameCounts(back, o)
      BY <1>0 DEF NWCSession, SameCounts, Id
    <2>3. Method(r, "liquidOff", n)
      BY <1>2 DEF LiquidOff
    <2>. HIDE DEF off, back
    <2>4. n \in NWCSession /\ SameCounts(n, o)
      BY <2>1, <2>2, WriteCookieType DEF SameCounts
    <2>. QED BY <1>0, <2>3, <2>4, SameMethodType DEF SameCounts
  <1>. QED BY <1>1, <1>2

LEMMA ExecuteType ==
    ASSUME TypeInv, NEW r \in Requests, Execute(r)
    PROVE  TypeInv'
  <1> DEFINE o == [obj[r] EXCEPT !.saveliquid = obj[r].blnLiquid, !.blnLiquid = FALSE,
                                 !.executing = TRUE]
             next == PersistPhase(o)
             skip == next = "saved"
             o1 == [o EXCEPT !.calls = @ + 1,
                             !.blnPersistDone = @ \/ (skip /\ ~o.bErrState)]
  <1>1. /\ obj[r] \in NWCSession /\ obj[r].draws \in Nat /\ obj[r].calls \in Nat
        /\ phase[r] = "run" /\ obj[r].calls < MaxOps
        /\ UNCHANGED <<store, cookie>>
    BY DrawAllowed DEF Execute
  <1>2. /\ o \in NWCSession /\ o.executing = TRUE
        /\ o.draws = obj[r].draws /\ o.calls = obj[r].calls
    BY <1>1 DEF NWCSession
  <1>3. IF skip THEN Continue(r, o1)
        ELSE /\ obj' = [obj EXCEPT ![r] = o1]
             /\ phase' = [phase EXCEPT ![r] = next]
    BY DEF Execute
  <1>4. /\ o1 \in NWCSession /\ o1.executing = TRUE
        /\ o1.draws = o.draws /\ o1.calls = o.calls + 1
    <2>1. o.calls + 1 \in 0 .. MaxOps
      BY <1>1, <1>2, SessionAssumption
    <2>2. (o.blnPersistDone \/ (skip /\ ~o.bErrState)) \in BOOLEAN
      OBVIOUS
    <2>. HIDE DEF skip, o
    <2>. QED BY <1>2, <2>1, <2>2 DEF NWCSession
  <1>5. o1.draws <= 2 * o1.calls
    <2>1. obj[r].draws <= 2 * obj[r].calls + 2
      BY <1>1 DEF TypeInv, DrawsBounded, Bound
    <2>. QED BY <1>1, <1>2, <1>4, <2>1
  <1>6. next \in {"saved", "delete", "rename", "write"}
    BY PersistPhaseType
  <1>7. /\ store' \in [Guid -> Record \cup {Absent}] /\ cookie' \in [Browsers -> Id]
    BY <1>1 DEF TypeInv, TypeOK
  <1>. HIDE DEF o1, next
  <1>8. CASE skip
    BY <1>1, <1>3, <1>4, <1>5, <1>7, <1>8, ContinueType
  <1>9. CASE ~skip
    <2>1. Bound(o1, next)
      BY <1>1, <1>2, <1>4, <1>5, <1>6, <1>9 DEF Bound
    <2>. QED BY <1>3, <1>4, <1>6, <1>7, <1>9, <2>1, FrameType DEF Phase
  <1>. QED BY <1>8, <1>9

LEMMA PersistType ==
    ASSUME TypeInv, NEW r \in Requests, PersistSession(r)
    PROVE  TypeInv'
  <1> DEFINE o == obj[r]
  <1>0. o \in NWCSession /\ o.draws \in Nat /\ o.calls \in Nat /\ Bound(o, phase[r])
    BY DrawAllowed DEF TypeInv, DrawsBounded
  <1>. store \in [Guid -> Record \cup {Absent}] /\ cookie \in [Browsers -> Id]
    BY DEF TypeInv, TypeOK
  <1>1. CASE EndPage(r)
    <2> DEFINE next == PersistPhase(o)
               n == [o EXCEPT !.blnPersistDone = @ \/ (next = "saved" /\ ~o.bErrState)]
    <2>1. next \in {"saved", "delete", "rename", "write"}
      BY PersistPhaseType
    <2>2. /\ obj' = [obj EXCEPT ![r] = n] /\ phase' = [phase EXCEPT ![r] = next]
          /\ UNCHANGED <<store, cookie>> /\ phase[r] = "run"
      BY <1>1 DEF EndPage, TypeInv, TypeOK
    <2>3. /\ n \in NWCSession /\ n.executing = o.executing
          /\ n.draws = o.draws /\ n.calls = o.calls
      <3>1. (o.blnPersistDone \/ (next = "saved" /\ ~o.bErrState)) \in BOOLEAN
        OBVIOUS
      <3>. HIDE DEF next
      <3>. QED BY <1>0, <3>1 DEF NWCSession
    <2>. HIDE DEF next, n
    <2>4. Bound(n, next)
      BY <1>0, <2>1, <2>2, <2>3 DEF Bound
    <2>. QED BY <2>1, <2>2, <2>3, <2>4, FrameType DEF Phase
  <1>2. CASE SaveRename(r)
    <2>1. store' \in [Guid -> Record \cup {Absent}]
      <3>1. o.oldGuid \in Guid \cup {NoId}
        BY <1>0 DEF NWCSession, Id
      <3>2. CASE Lookup(o.oldGuid) = Absent
        BY <1>2, <3>2 DEF SaveRename
      <3>3. CASE Lookup(o.oldGuid) # Absent
        <4>1. o.oldGuid \in Guid
          BY <3>1, <3>3 DEF Lookup
        <4>. QED BY <1>2, <3>3, <4>1 DEF SaveRename
      <3>. QED BY <3>2, <3>3
    <2>2. /\ obj' = [obj EXCEPT ![r] = o] /\ phase' = [phase EXCEPT ![r] = "write"]
          /\ UNCHANGED cookie /\ phase[r] = "rename"
      BY <1>2 DEF SaveRename, TypeInv, TypeOK
    <2>3. Bound(o, "write")
      BY <1>0, <2>2 DEF Bound
    <2>. QED BY <1>0, <2>1, <2>2, <2>3, FrameType DEF Phase
  <1>3. CASE SaveWrite(r)
    <2> DEFINE n == [o EXCEPT !.blnPersistDone = TRUE]
    <2>1. store' \in [Guid -> Record \cup {Absent}]
      BY <1>0, <1>3 DEF SaveWrite, NWCSession, Record
    <2>2. /\ n \in NWCSession /\ n.executing = o.executing
          /\ n.draws = o.draws /\ n.calls = o.calls
      BY <1>0 DEF NWCSession
    <2>3. Continue(r, n) /\ phase[r] = "write" /\ UNCHANGED cookie
      BY <1>3 DEF SaveWrite
    <2>. HIDE DEF n
    <2>4. n.draws <= 2 * n.calls + (IF n.executing THEN 0 ELSE 2)
      BY <1>0, <2>2, <2>3 DEF Bound
    <2>. QED BY <2>1, <2>2, <2>3, <2>4, ContinueType
  <1>4. CASE SessionDelete(r)
    <2> DEFINE n == [o EXCEPT !.blnPersistDone = TRUE,
                              !.bErrState = @ \/ Lookup(o.oldGuid) = Absent]
    <2>1. store' \in [Guid -> Record \cup {Absent}]
      BY <1>0, <1>4 DEF SessionDelete
    <2>2. /\ n \in NWCSession /\ n.executing = o.executing
          /\ n.draws = o.draws /\ n.calls = o.calls
      <3>1. (o.bErrState \/ Lookup(o.oldGuid) = Absent) \in BOOLEAN
        OBVIOUS
      <3>. QED BY <1>0, <3>1 DEF NWCSession
    <2>3. Continue(r, n) /\ phase[r] = "delete" /\ UNCHANGED cookie
      BY <1>4 DEF SessionDelete
    <2>. HIDE DEF n
    <2>4. n.draws <= 2 * n.calls + (IF n.executing THEN 0 ELSE 2)
      BY <1>0, <2>2, <2>3 DEF Bound
    <2>. QED BY <2>1, <2>2, <2>3, <2>4, ContinueType
  <1>5. CASE Respond(r)
    <2> DEFINE n == [NewObject EXCEPT !.draws = o.draws, !.calls = o.calls]
    <2>1. /\ n \in NWCSession /\ n.executing = NewObject.executing
          /\ n.draws = o.draws /\ n.calls = o.calls
      BY <1>0, NewObjectType DEF NWCSession
    <2>2. /\ obj' = [obj EXCEPT ![r] = n] /\ phase' = [phase EXCEPT ![r] = "done"]
          /\ UNCHANGED store /\ phase[r] = "saved"
      BY <1>5 DEF Respond
    <2>3. cookie' \in [Browsers -> Id]
      <3>1. BrowserOf[r] \in Browsers
        BY SessionAssumption
      <3>. QED BY <1>0, <1>5, <3>1, DeliveredType DEF Respond
    <2>4. Bound(n, "done")
      BY <1>0, <2>1, <2>2 DEF Bound
    <2>. HIDE DEF n
    <2>. QED BY <2>1, <2>2, <2>3, <2>4, FrameType DEF Phase
  <1>. QED BY <1>1, <1>2, <1>3, <1>4, <1>5 DEF PersistSession

LEMMA ConnectionFailsType ==
    ASSUME TypeInv, NEW r \in Requests, ConnectionFails(r)
    PROVE  TypeInv'
  <1> DEFINE o == [obj[r] EXCEPT !.bErrState = TRUE]
             n == [o EXCEPT !.blnPersistDone = TRUE]
             p == IF o.executing THEN "run" ELSE "saved"
  <1>1. /\ obj[r] \in NWCSession /\ obj[r].draws \in Nat /\ obj[r].calls \in Nat
        /\ Bound(obj[r], phase[r])
    BY DrawAllowed DEF TypeInv, DrawsBounded
  <1>2. o \in NWCSession /\ SameCounts(o, obj[r])
    BY <1>1 DEF NWCSession, SameCounts
  <1>3. store' \in [Guid -> Record \cup {Absent}] /\ cookie' \in [Browsers -> Id]
    BY DEF ConnectionFails, TypeInv, TypeOK
  <1>4. CASE /\ phase[r] \in {"get", "insert", "reget"}
             /\ obj' = [obj EXCEPT ![r] = Returned(o)]
             /\ phase' = [phase EXCEPT ![r] = p]
    <2>. HIDE DEF o
    <2>1. /\ Returned(o) \in NWCSession /\ Returned(o).executing = FALSE
          /\ Returned(o).draws = obj[r].draws /\ Returned(o).calls = obj[r].calls
      BY <1>2, ReturnedType DEF SameCounts
    <2>2. obj[r].draws <= 2 * obj[r].calls + 2
      BY <1>1 DEF Bound
    <2>3. Bound(Returned(o), p)
      BY <1>1, <2>1, <2>2 DEF Bound
    <2>. QED BY <1>3, <1>4, <2>1, <2>3, FrameType DEF Phase
  <1>5. CASE phase[r] \in {"rename", "write", "delete"} /\ Continue(r, n)
    <2>1. n \in NWCSession /\ SameCounts(n, obj[r])
      BY <1>1 DEF NWCSession, SameCounts
    <2>. HIDE DEF n
    <2>2. n.draws <= 2 * n.calls + (IF n.executing THEN 0 ELSE 2)
      BY <1>1, <1>5, <2>1 DEF Bound, SameCounts
    <2>. QED BY <1>3, <1>5, <2>1, <2>2, ContinueType
  <1>. QED BY <1>4, <1>5 DEF ConnectionFails

LEMMA CrashType ==
    ASSUME TypeInv, Crash
    PROVE  TypeInv'
  <1> DEFINE n(r) == [NewObject EXCEPT !.draws = obj[r].draws, !.calls = obj[r].calls]
  <1>1. ASSUME NEW r \in Requests
        PROVE  n(r) \in NWCSession /\ Bound(n(r), "done")
    <2>1. obj[r] \in NWCSession /\ obj[r].draws \in Nat /\ obj[r].calls \in Nat
      BY DrawAllowed
    <2>2. obj[r].draws <= 2 * obj[r].calls + 2
      BY <2>1 DEF TypeInv, DrawsBounded, Bound
    <2>3. n(r) \in NWCSession /\ n(r).draws = obj[r].draws /\ n(r).calls = obj[r].calls
      BY <2>1, NewObjectType DEF NWCSession
    <2>. HIDE DEF n
    <2>. QED BY <2>2, <2>3 DEF Bound
  <1>2. /\ obj' = [r \in Requests |-> IF InFlight(r) THEN n(r) ELSE obj[r]]
        /\ phase' = [r \in Requests |-> IF InFlight(r) THEN "done" ELSE phase[r]]
        /\ UNCHANGED <<store, cookie>>
    BY DEF Crash
  <1>. HIDE DEF n
  <1>3. TypeOK'
    BY <1>1, <1>2 DEF TypeInv, TypeOK, Phase
  <1>4. DrawsBounded'
    BY <1>1, <1>2 DEF TypeInv, DrawsBounded
  <1>. QED BY <1>3, <1>4 DEF TypeInv

LEMMA InitType == Init => TypeInv
  <1>1. Init => TypeOK
    BY NewObjectType, SessionAssumption DEF Init, TypeOK, Phase, Id
  <1>2. NewObject.executing = FALSE
    BY DEF NewObject
  <1>3. Init => DrawsBounded
    BY <1>2, NewObjectType DEF Init, DrawsBounded, Bound
  <1>. QED BY <1>1, <1>3 DEF TypeInv

LEMMA NextType == TypeInv /\ [Next]_vars => TypeInv'
  <1>. SUFFICES ASSUME TypeInv, [Next]_vars PROVE TypeInv'
    OBVIOUS
  <1>1. ASSUME NEW r \in Requests, Initialize(r) PROVE TypeInv'
    BY <1>1, StartType, GetFoundType, GetMissingType, SessionInsertType, GetInsertedType
       DEF Initialize
  <1>2. ASSUME NEW r \in Requests, Script(r) PROVE TypeInv'
    BY <1>2, ScriptType, LiquidType, ExecuteType DEF Script
  <1>3. ASSUME NEW r \in Requests, PersistSession(r) PROVE TypeInv'
    BY <1>3, PersistType
  <1>4. ASSUME NEW r \in Requests, ConnectionFails(r) PROVE TypeInv'
    BY <1>4, ConnectionFailsType
  <1>5. ASSUME NEW g \in Guid, Expire(g) PROVE TypeInv'
    BY <1>5 DEF Expire, TypeInv, TypeOK, DrawsBounded
  <1>6. ASSUME Crash PROVE TypeInv'
    BY <1>6, CrashType
  <1>7. ASSUME UNCHANGED vars PROVE TypeInv'
    BY <1>7 DEF vars, TypeInv, TypeOK, DrawsBounded
  <1>. QED BY <1>1, <1>2, <1>3, <1>4, <1>5, <1>6, <1>7 DEF Next, AllDone

\* Every variable keeps its type; in particular a request never runs out of
\* GUIDs, and no expired cookie (Kill) is ever held by a browser: what
\* WriteCookie, NewID and dbInit put into the object is an id.
THEOREM TypeCorrect == Spec => []TypeOK
  <1>1. TypeInv => TypeOK
    BY DEF TypeInv
  <1>. QED BY <1>1, InitType, NextType, PTL DEF Spec

-----------------------------------------------------------------------------
(* Session isolation *)

\* An id that was drawn for the browser of request r.
Mine(r, i) == i \in Guid => BrowserOf[i[1]] = BrowserOf[r]

\* All a session object holds belongs to the browser of its request.
Owned(r, o) ==
    /\ Mine(r, o.guid) /\ Mine(r, o.oldGuid) /\ Mine(r, o.strGUID)
    /\ Mine(r, o.m_OldSessionId) /\ Mine(r, o.setCookie)
    /\ \A v \in o.dict : BrowserOf[v] = BrowserOf[r]

CookiesOwned == \A b \in Browsers : cookie[b] # NoId => BrowserOf[cookie[b][1]] = b

RecordsOwned ==
    \A g \in Guid : store[g] # Absent =>
       \A v \in store[g].data : BrowserOf[v] = BrowserOf[g[1]]

ObjectsOwned == \A r \in Requests : Owned(r, obj[r])

\* SessionIsolation is inductive only together with what the objects hold:
\* a cookie or a record gets its contents from one of them.
IsolationInv == UrlIds \/ (CookiesOwned /\ RecordsOwned /\ ObjectsOwned)

LEMMA WriteCookieOwned ==
    ASSUME NEW r \in Requests, NEW o \in NWCSession, Owned(r, o)
    PROVE  Owned(r, WriteCookie(o))
  <1>1. Mine(r, Kill)
    BY SessionAssumption DEF Mine, Id
  <1>. HIDE DEF Mine
  <1>. QED BY <1>1 DEF WriteCookie, Owned, NWCSession

LEMMA NewIDOwned ==
    ASSUME NEW r \in Requests, NEW o \in NWCSession, Owned(r, o)
    PROVE  Owned(r, NewID(r, o))
  <1>1. Mine(r, <<r, o.draws>>)
    BY DEF Mine
  <1> DEFINE g == IF o.blnLiquid \/ o.blnNew THEN <<r, o.draws>> ELSE o.guid
             i == IF o.blnLiquid /\ ~o.blnNew THEN o.strGUID ELSE o.m_OldSessionId
  <1>2. Mine(r, g) /\ Mine(r, i)
    BY <1>1 DEF Owned
  <1>3. /\ NewID(r, o).guid = g /\ NewID(r, o).strGUID = g
        /\ NewID(r, o).m_OldSessionId = i /\ NewID(r, o).oldGuid = o.oldGuid
        /\ NewID(r, o).setCookie = o.setCookie /\ NewID(r, o).dict = o.dict
    BY DEF NewID, NWCSession
  <1>. QED BY <1>2, <1>3 DEF Owned

LEMMA ReturnedOwned ==
    ASSUME NEW r \in Requests, NEW o \in NWCSession, Owned(r, o)
    PROVE  Owned(r, Returned(o))
  BY DEF Returned, Owned, NWCSession

LEMMA NewObjectOwned ==
    ASSUME NEW r \in Requests
    PROVE  Owned(r, NewObject)
  BY SessionAssumption DEF NewObject, Owned, Mine

\* A record that is read with an id of the browser holds its values only.
LEMMA LookupOwned ==
    ASSUME TypeOK, RecordsOwned, NEW r \in Requests, NEW i \in Id, Mine(r, i),
           Lookup(i) # Absent
    PROVE  \A v \in Lookup(i).data : BrowserOf[v] = BrowserOf[r]
  <1>1. i \in Guid /\ Lookup(i) = store[i]
    BY DEF Lookup, Id
  <1>. QED BY <1>1 DEF RecordsOwned, Mine

LEMMA DeliveredOwned ==
    ASSUME TypeOK, NEW r \in Requests, NEW o \in NWCSession, Owned(r, o), CookiesOwned,
           cookie' = [cookie EXCEPT ![BrowserOf[r]] = Delivered(o, @)]
    PROVE  CookiesOwned'
  <1>1. BrowserOf[r] \in Browsers
    BY SessionAssumption
  <1>2. ASSUME NEW b \in Browsers, cookie'[b] # NoId
        PROVE  BrowserOf[cookie'[b][1]] = b
    <2>1. CASE b # BrowserOf[r] \/ o.headersSent \/ o.setCookie = NoId
      <3>1. cookie'[b] = cookie[b]
        BY <1>1, <2>1 DEF Delivered, TypeOK
      <3>. QED BY <1>2, <3>1 DEF CookiesOwned
    <2>2. CASE b = BrowserOf[r] /\ ~o.headersSent /\ o.setCookie # NoId
      <3>1. cookie'[b] = IF o.setCookie = Kill THEN NoId ELSE o.setCookie
        BY <1>1, <2>2 DEF Delivered, TypeOK
      <3>2. o.setCookie \in Guid \cup {NoId, Kill}
        BY DEF NWCSession, Id
      <3>. QED BY <1>2, <2>2, <3>1, <3>2 DEF Owned, Mine
    <2>. QED BY <2>1, <2>2
  <1>. QED BY <1>2 DEF CookiesOwned

\* An action that replaces the object of one request.
LEMMA FrameOwned ==
    ASSUME TypeOK, ObjectsOwned, NEW r \in Requests, NEW o, Owned(r, o),
           obj' = [obj EXCEPT ![r] = o]
    PROVE  ObjectsOwned'
  <1>1. ASSUME NEW q \in Requests PROVE Owned(q, obj'[q])
    BY DEF ObjectsOwned, TypeOK
  <1>. QED BY <1>1 DEF ObjectsOwned

LEMMA ContinueOwned ==
    ASSUME TypeOK, ObjectsOwned, NEW r \in Requests, NEW o \in NWCSession, Owned(r, o),
           Continue(r, o)
    PROVE  ObjectsOwned'
  <1> DEFINE again == [o EXCEPT !.dict = {}, !.blnNew = FALSE, !.blnExpired = FALSE]
  <1>1. again \in NWCSession /\ Owned(r, again)
    BY DEF NWCSession, Owned
  <1>2. \/ obj' = [obj EXCEPT ![r] = o]
        \/ obj' = [obj EXCEPT ![r] = again]
        \/ obj' = [obj EXCEPT ![r] = Returned(again)]
    BY DEF Continue
  <1>. HIDE DEF again
  <1>. QED BY <1>1, <1>2, ReturnedOwned, FrameOwned

LEMMA InitializeOwned ==
    ASSUME TypeInv, ~UrlIds, CookiesOwned, RecordsOwned, ObjectsOwned,
           NEW r \in Requests, Initialize(r)
    PROVE  CookiesOwned' /\ RecordsOwned' /\ ObjectsOwned'
  <1> DEFINE o == obj[r]
             rec == Lookup(o.guid)
  <1>0. o \in NWCSession /\ Owned(r, o) /\ o.guid \in Id /\ Mine(r, o.guid) /\ TypeOK
    BY DrawAllowed DEF ObjectsOwned, Owned, NWCSession, TypeInv
  <1>1. CASE Start(r)
    <2>1. PICK i \in Id, url \in BOOLEAN :
             /\ IF url THEN UrlIds /\ i # NoId /\ Drawn(i) ELSE i = cookie[BrowserOf[r]]
             /\ obj' = [obj EXCEPT ![r] = [NewObject EXCEPT !.guid = i, !.oldGuid = i,
                                             !.strGUID = i, !.blnNew = (i = NoId),
                                             !.blnFoundURLGuid = url]]
      BY <1>1 DEF Start
    <2> DEFINE n == [NewObject EXCEPT !.guid = i, !.oldGuid = i, !.strGUID = i,
                                      !.blnNew = (i = NoId), !.blnFoundURLGuid = url]
    <2>2. Mine(r, i)
      BY <2>1, SessionAssumption DEF CookiesOwned, Mine
    <2>3. Owned(r, n)
      <3>1. /\ n.guid = i /\ n.oldGuid = i /\ n.strGUID = i
            /\ n.m_OldSessionId = NewObject.m_OldSessionId
            /\ n.setCookie = NewObject.setCookie /\ n.dict = NewObject.dict
        BY NewObjectType DEF NWCSession
      <3>. QED BY <2>2, <3>1, NewObjectOwned DEF Owned
    <2>. QED BY <1>0, <1>1, <2>1, <2>3, FrameOwned DEF Start, CookiesOwned, RecordsOwned
  <1>2. CASE GetFound(r)
    <2> DEFINE refused == ~o.blnNew /\ ~o.blnExpired /\ o.blnFoundURLGuid /\ ~rec.reent
               a == [o EXCEPT !.blnExpired = TRUE, !.blnNew = TRUE, !.dict = {}]
               o1 == IF refused THEN NewID(r, a) ELSE o
               o2 == [o1 EXCEPT !.blnReEntrance = rec.reent, !.blnLiquid = rec.liquid,
                                !.dict = rec.data]
               o3 == IF o2.blnLiquid THEN NewID(r, o2) ELSE o2
               o4 == IF o3.blnLiquid \/ o3.blnNew \/ o3.blnExpired
                     THEN WriteCookie(o3) ELSE o3
    <2>1. o.draws \in Draws /\ o.draws + 1 \in Draws
      BY <1>2, DrawAllowed DEF GetFound
    <2>2. rec \in Record /\ \A v \in rec.data : BrowserOf[v] = BrowserOf[r]
      BY <1>0, <1>2, LookupType, LookupOwned DEF GetFound
    <2>3. /\ o1 \in NWCSession /\ Owned(r, o1)
          /\ o1.draws \in {o.draws, o.draws + 1}
      <3>1. a \in NWCSession /\ Owned(r, a) /\ a.draws = o.draws
        BY <1>0 DEF NWCSession, Owned
      <3>. HIDE DEF a
      <3>2. NewID(r, a) \in NWCSession /\ NewID(r, a).draws \in {o.draws, o.draws + 1}
        BY <2>1, <3>1, NewIDType
      <3>. QED BY <1>0, <3>1, <3>2, NewIDOwned
    <2>4. o2 \in NWCSession /\ Owned(r, o2) /\ o2.draws = o1.draws
      <3>. HIDE DEF o1
      <3>. QED BY <2>2, <2>3 DEF NWCSession, Record, Owned
    <2>5. o3 \in NWCSession /\ Owned(r, o3)
      <3>. HIDE DEF o1, o2
      <3>1. o2.draws \in Draws
        BY <2>1, <2>3, <2>4
      <3>. QED BY <2>4, <3>1, NewIDType, NewIDOwned
    <2>6. o4 \in NWCSession /\ Owned(r, o4)
      <3>. HIDE DEF o3
      <3>. QED BY <2>5, WriteCookieType, WriteCookieOwned
    <2>7. obj' = [obj EXCEPT ![r] = Returned(o4)] /\ UNCHANGED <<store, cookie>>
      BY <1>2 DEF GetFound
    <2>. HIDE DEF o4
    <2>. QED BY <1>0, <2>6, <2>7, ReturnedOwned, FrameOwned DEF CookiesOwned, RecordsOwned
  <1>3. CASE GetMissing(r)
    <2> DEFINE a == [o EXCEPT !.blnExpired = @ \/ ~o.blnNew, !.blnNew = TRUE]
               n == NewID(r, a)
    <2>1. a \in NWCSession /\ Owned(r, a) /\ a.draws = o.draws
      BY <1>0 DEF NWCSession, Owned
    <2>2. o.draws \in Draws
      BY <1>3, DrawAllowed DEF GetMissing
    <2>3. n \in NWCSession /\ Owned(r, n)
      <3>. HIDE DEF a
      <3>. QED BY <2>1, <2>2, NewIDType, NewIDOwned
    <2>4. obj' = [obj EXCEPT ![r] = [n EXCEPT !.oldGuid = n.guid]]
          /\ UNCHANGED <<store, cookie>>
      BY <1>3 DEF GetMissing
    <2>. HIDE DEF n
    <2>5. Owned(r, [n EXCEPT !.oldGuid = n.guid])
      BY <2>3 DEF NWCSession, Owned
    <2>. QED BY <1>0, <2>4, <2>5, FrameOwned DEF CookiesOwned, RecordsOwned
  <1>4. CASE SessionInsert(r)
    <2>1. store' = [store EXCEPT ![o.guid] = [data |-> {}, liquid |-> o.blnLiquid,
                                              reent |-> o.blnReEntrance]]
          /\ UNCHANGED <<cookie, obj>>
      BY <1>4 DEF SessionInsert
    <2>2. RecordsOwned'
      BY <1>0, <2>1 DEF RecordsOwned, TypeOK
    <2>. QED BY <2>1, <2>2 DEF CookiesOwned, ObjectsOwned
  <1>5. CASE GetInserted(r)
    <2> DEFINE lost == Lookup(o.guid) = Absent
               failed == lost /\ ~o.executing
               w == WriteCookie(o)
               n == [w EXCEPT !.bErrState = failed]
    <2>1. w \in NWCSession /\ Owned(r, w)
      BY <1>0, WriteCookieType, WriteCookieOwned
    <2>2. n \in NWCSession /\ Owned(r, n)
      <3>. HIDE DEF w, lost
      <3>. QED BY <2>1 DEF NWCSession, Owned
    <2>3. obj' = [obj EXCEPT ![r] = Returned(n)] /\ UNCHANGED <<store, cookie>>
      BY <1>5 DEF GetInserted
    <2>. HIDE DEF n
    <2>. QED BY <1>0, <2>2, <2>3, ReturnedOwned, FrameOwned DEF CookiesOwned, RecordsOwned
  <1>. QED BY <1>1, <1>2, <1>3, <1>4, <1>5 DEF Initialize

LEMMA CalledOwned ==
    ASSUME TypeInv, ObjectsOwned, NEW r \in Requests, NEW op, NEW o \in NWCSession,
           Owned(r, o), Called(r, op, o)
    PROVE  ObjectsOwned'
  <1>1. Owned(r, [o EXCEPT !.calls = @ + 1])
    BY DEF NWCSession, Owned
  <1>. QED BY <1>1, FrameOwned DEF Called, TypeInv

LEMMA ScriptOwned ==
    ASSUME TypeInv, ~UrlIds, CookiesOwned, RecordsOwned, ObjectsOwned,
           NEW r \in Requests, Script(r)
    PROVE  CookiesOwned' /\ RecordsOwned' /\ ObjectsOwned'
  <1> DEFINE o == obj[r]
  <1>0. o \in NWCSession /\ Owned(r, o) /\ TypeOK
    BY DrawAllowed DEF ObjectsOwned, TypeInv
  <1>1. ASSUME NEW op, NEW n \in NWCSession, Owned(r, n), Method(r, op, n)
        PROVE  CookiesOwned' /\ RecordsOwned' /\ ObjectsOwned'
    BY <1>1, CalledOwned DEF Method, CookiesOwned, RecordsOwned
  <1>2. CASE PutValue(r)
    <2> DEFINE n == [o EXCEPT !.dict = @ \cup {r}, !.blnDirty = TRUE]
    <2>1. n \in NWCSession /\ Owned(r, n)
      BY <1>0 DEF NWCSession, Owned
    <2>. QED BY <1>1, <1>2, <2>1 DEF PutValue
  <1>3. CASE PutRefValue(r)
    <2> DEFINE n == [o EXCEPT !.dict = @ \cup {r}]
    <2>1. n \in NWCSession /\ Owned(r, n)
      BY <1>0 DEF NWCSession, Owned
    <2>. QED BY <1>1, <1>3, <2>1 DEF PutRefValue
  <1>4. CASE Remove(r)
    <2>1. PICK v \in Requests :
             Method(r, "remove", [o EXCEPT !.dict = @ \ {v}, !.blnDirty = TRUE])
      BY <1>4 DEF Remove
    <2> DEFINE n == [o EXCEPT !.dict = @ \ {v}, !.blnDirty = TRUE]
    <2>2. n \in NWCSession /\ Owned(r, n)
      BY <1>0 DEF NWCSession, Owned
    <2>. QED BY <1>1, <2>1, <2>2
  <1>5. CASE RemoveAll(r)
    <2> DEFINE n == [o EXCEPT !.dict = {}]
    <2>1. n \in NWCSession /\ Owned(r, n)
      BY <1>0 DEF NWCSession, Owned
    <2>. QED BY <1>1, <1>5, <2>1 DEF RemoveAll
  <1>6. CASE Abandon(r)
    <2> DEFINE a == [o EXCEPT !.blnCancel = TRUE, !.dict = {}]
    <2>1. a \in NWCSession /\ Owned(r, a)
      BY <1>0 DEF NWCSession, Owned
    <2>2. Method(r, "abandon", WriteCookie(a))
      BY <1>6 DEF Abandon
    <2>. HIDE DEF a
    <2>. QED BY <1>1, <2>1, <2>2, WriteCookieType, WriteCookieOwned
  <1>7. CASE LiquidOn(r)
    <2> DEFINE a == [o EXCEPT !.blnLiquid = TRUE, !.oldGuid = o.guid]
    <2>1. a \in NWCSession /\ Owned(r, a) /\ a.draws = o.draws
      BY <1>0 DEF NWCSession, Owned
    <2>2. Method(r, "liquidOn", WriteCookie(NewID(r, a))) /\ o.draws \in Draws
      BY <1>7, DrawAllowed DEF LiquidOn, Method, Called
    <2>. HIDE DEF a
    <2>3. NewID(r, a) \in NWCSession /\ Owned(r, NewID(r, a))
      BY <2>1, <2>2, NewIDType, NewIDOwned
    <2>. QED BY <1>1, <2>2, <2>3, WriteCookieType, WriteCookieOwned
  <1>8. CASE LiquidOff(r)
    <2> DEFINE off == [o EXCEPT !.blnLiquid = FALSE, !.guid = o.oldGuid]
               back == [off EXCEPT !.strGUID = o.m_OldSessionId, !.m_OldSessionId = NoId]
               n == IF o.m_OldSessionId = NoId THEN off ELSE WriteCookie(back)
    <2>1. off \in NWCSession /\ Owned(r, off)
      BY <1>0 DEF NWCSession, Owned
    <2>2. back \in NWCSession /\ Owned(r, back)
      <3>1. Mine(r, NoId)
        BY SessionAssumption DEF Mine
      <3>. HIDE DEF Mine
      <3>. QED BY <1>0, <3>1 DEF NWCSession, Owned, Id
    <2>3. Method(r, "liquidOff", n)
      BY <1>8 DEF LiquidOff
    <2>. HIDE DEF off, back
    <2>4. n \in NWCSession /\ Owned(r, n)
      BY <2>1, <2>2, WriteCookieType, WriteCookieOwned
    <2>. QED BY <1>1, <2>3, <2>4
  <1>9. CASE ReadonlyOn(r) \/ ReadonlyOff(r)
    <2>1. PICK b \in BOOLEAN : \E op : Method(r, op, [o EXCEPT !.bReadonly = b])
      BY <1>9 DEF ReadonlyOn, ReadonlyOff
    <2> DEFINE n == [o EXCEPT !.bReadonly = b]
    <2>2. n \in NWCSession /\ Owned(r, n)
      BY <1>0 DEF NWCSession, Owned
    <2>. QED BY <1>1, <2>1, <2>2
  <1>10. CASE PutReEntrance(r)
    <2>1. PICK b \in BOOLEAN : Method(r, "reentrance", [o EXCEPT !.blnReEntrance = b])
      BY <1>10 DEF PutReEntrance
    <2> DEFINE n == [o EXCEPT !.blnReEntrance = b]
    <2>2. n \in NWCSession /\ Owned(r, n)
      BY <1>0 DEF NWCSession, Owned
    <2>. QED BY <1>1, <2>1, <2>2
  <1>11. CASE Execute(r)
    <2> DEFINE a == [o EXCEPT !.saveliquid = o.blnLiquid, !.blnLiquid = FALSE,
                              !.executing = TRUE]
               skip == PersistPhase(a) = "saved"
               n == [a EXCEPT !.calls = @ + 1,
                              !.blnPersistDone = @ \/ (skip /\ ~a.bErrState)]
    <2>1. a \in NWCSession /\ Owned(r, a)
      BY <1>0 DEF NWCSession, Owned
    <2>2. n \in NWCSession /\ Owned(r, n)
      <3>1. (a.blnPersistDone \/ (skip /\ ~a.bErrState)) \in BOOLEAN
        OBVIOUS
      <3>2. a.calls + 1 \in 0 .. MaxOps
        BY <1>0, <1>11, SessionAssumption DEF Execute, NWCSession
      <3>. HIDE DEF skip, a
      <3>. QED BY <2>1, <3>1, <3>2 DEF NWCSession, Owned
    <2>3. /\ Continue(r, n) \/ obj' = [obj EXCEPT ![r] = n]
          /\ UNCHANGED <<store, cookie>>
      BY <1>11 DEF Execute
    <2>. HIDE DEF n
    <2>. QED BY <1>0, <2>2, <2>3, ContinueOwned, FrameOwned DEF CookiesOwned, RecordsOwned
  <1>12. CASE Flush(r)
    <2> DEFINE n == [o EXCEPT !.headersSent = TRUE]
    <2>1. n \in NWCSession /\ Owned(r, n)
      BY <1>0 DEF NWCSession, Owned
    <2>2. /\ Called(r, "flush", n) /\ UNCHANGED store
          /\ cookie' = [cookie EXCEPT ![BrowserOf[r]] = Delivered(o, @)]
      BY <1>12 DEF Flush
    <2>. HIDE DEF n
    <2>. QED BY <1>0, <2>1, <2>2, CalledOwned, DeliveredOwned DEF RecordsOwned
  <1>. QED BY <1>2, <1>3, <1>4, <1>5, <1>6, <1>7, <1>8, <1>9, <1>10, <1>11, <1>12 DEF Script

LEMMA PersistOwned ==
    ASSUME TypeInv, ~UrlIds, CookiesOwned, RecordsOwned, ObjectsOwned,
           NEW r \in Requests, PersistSession(r)
    PROVE  CookiesOwned' /\ RecordsOwned' /\ ObjectsOwned'
  <1> DEFINE o == obj[r]
  <1>0. /\ o \in NWCSession /\ Owned(r, o) /\ TypeOK
        /\ o.guid \in Id /\ o.oldGuid \in Id /\ Mine(r, o.guid) /\ Mine(r, o.oldGuid)
    BY DrawAllowed DEF ObjectsOwned, TypeInv, NWCSession, Owned
  <1>1. CASE EndPage(r)
    <2> DEFINE done == o.blnPersistDone \/ (PersistPhase(o) = "saved" /\ ~o.bErrState)
               n == [o EXCEPT !.blnPersistDone = done]
    <2>1. Owned(r, n)
      <3>. HIDE DEF done
      <3>. QED BY <1>0 DEF NWCSession, Owned
    <2>2. obj' = [obj EXCEPT ![r] = n] /\ UNCHANGED <<store, cookie>>
      BY <1>0, <1>1 DEF EndPage, TypeOK
    <2>. HIDE DEF n
    <2>. QED BY <1>0, <2>1, <2>2, FrameOwned DEF CookiesOwned, RecordsOwned
  <1>2. CASE SaveRename(r)
    <2>1. UNCHANGED <<cookie, obj>>
      BY <1>2 DEF SaveRename
    <2>2. CASE Lookup(o.oldGuid) = Absent
      BY <1>2, <2>1, <2>2 DEF SaveRename, CookiesOwned, RecordsOwned, ObjectsOwned
    <2>3. CASE Lookup(o.oldGuid) # Absent
      <3>1. /\ o.oldGuid \in Guid
            /\ store' = [store EXCEPT ![o.oldGuid] = Absent, ![o.guid] = store[o.oldGuid]]
        BY <1>0, <1>2, <2>3 DEF SaveRename, Lookup, Id
      <3>2. \A v \in store[o.oldGuid].data : BrowserOf[v] = BrowserOf[r]
        BY <1>0, <2>3, <3>1, LookupOwned DEF Lookup
      <3>3. ASSUME NEW g \in Guid, store'[g] # Absent, NEW v \in store'[g].data
            PROVE  BrowserOf[v] = BrowserOf[g[1]]
        <4>1. CASE g = o.guid
          BY <1>0, <3>1, <3>2, <3>3, <4>1 DEF TypeOK, Mine
        <4>2. CASE g # o.guid
          BY <1>0, <3>1, <3>3, <4>2 DEF TypeOK, RecordsOwned
        <4>. QED BY <4>1, <4>2
      <3>. QED BY <2>1, <3>3 DEF CookiesOwned, RecordsOwned, ObjectsOwned
    <2>. QED BY <2>2, <2>3
  <1>3. CASE SaveWrite(r)
    <2> DEFINE n == [o EXCEPT !.blnPersistDone = TRUE]
               key == IF o.blnLiquid THEN o.guid ELSE o.oldGuid
    <2>1. n \in NWCSession /\ Owned(r, n) /\ Mine(r, key)
      BY <1>0 DEF NWCSession, Owned
    <2>2. /\ Continue(r, n) /\ UNCHANGED cookie
          /\ \/ store' = store
             \/ store' = [store EXCEPT ![key] = [data |-> o.dict, liquid |-> o.blnLiquid,
                                                 reent |-> o.blnReEntrance]]
      BY <1>3 DEF SaveWrite
    <2>3. RecordsOwned'
      <3>. HIDE DEF key
      <3>1. CASE store' = store
        BY <3>1 DEF RecordsOwned
      <3>2. CASE store' = [store EXCEPT ![key] = [data |-> o.dict, liquid |-> o.blnLiquid,
                                                  reent |-> o.blnReEntrance]]
        <4>1. ASSUME NEW g \in Guid, store'[g] # Absent, NEW v \in store'[g].data
              PROVE  BrowserOf[v] = BrowserOf[g[1]]
          <5>1. CASE g = key
            BY <1>0, <2>1, <3>2, <4>1, <5>1 DEF TypeOK, Mine, Owned
          <5>2. CASE g # key
            BY <1>0, <3>2, <4>1, <5>2 DEF TypeOK, RecordsOwned
          <5>. QED BY <5>1, <5>2
        <4>. QED BY <4>1 DEF RecordsOwned
      <3>. QED BY <2>2, <3>1, <3>2
    <2>. HIDE DEF n
    <2>. QED BY <1>0, <2>1, <2>2, <2>3, ContinueOwned DEF CookiesOwned
  <1>4. CASE SessionDelete(r)
    <2> DEFINE bad == o.bErrState \/ Lookup(o.oldGuid) = Absent
               n == [o EXCEPT !.blnPersistDone = TRUE, !.bErrState = bad]
    <2>1. n \in NWCSession /\ Owned(r, n)
      <3>1. bad \in BOOLEAN
        OBVIOUS
      <3>. HIDE DEF bad
      <3>. QED BY <1>0, <3>1 DEF NWCSession, Owned
    <2>2. /\ Continue(r, n) /\ UNCHANGED cookie
          /\ store' = [store EXCEPT ![o.oldGuid] = Absent]
      BY <1>4 DEF SessionDelete
    <2>3. RecordsOwned'
      BY <1>0, <2>2 DEF RecordsOwned, TypeOK
    <2>. HIDE DEF n
    <2>. QED BY <1>0, <2>1, <2>2, <2>3, ContinueOwned DEF CookiesOwned
  <1>5. CASE Respond(r)
    <2> DEFINE n == [NewObject EXCEPT !.draws = o.draws, !.calls = o.calls]
    <2>1. Owned(r, n)
      BY <1>0, NewObjectOwned, NewObjectType DEF NWCSession, Owned
    <2>2. /\ obj' = [obj EXCEPT ![r] = n] /\ UNCHANGED store
          /\ cookie' = [cookie EXCEPT ![BrowserOf[r]] = Delivered(o, @)]
      BY <1>5 DEF Respond
    <2>. HIDE DEF n
    <2>. QED BY <1>0, <2>1, <2>2, FrameOwned, DeliveredOwned DEF RecordsOwned
  <1>. QED BY <1>1, <1>2, <1>3, <1>4, <1>5 DEF PersistSession

LEMMA FaultsOwned ==
    ASSUME TypeInv, ~UrlIds, CookiesOwned, RecordsOwned, ObjectsOwned,
           \/ \E r \in Requests : ConnectionFails(r)
           \/ \E g \in Guid : Expire(g)
           \/ Crash
    PROVE  CookiesOwned' /\ RecordsOwned' /\ ObjectsOwned'
  <1>0. ASSUME NEW r \in Requests
        PROVE  obj[r] \in NWCSession /\ Owned(r, obj[r])
    BY DrawAllowed DEF ObjectsOwned
  <1>1. ASSUME NEW r \in Requests, ConnectionFails(r)
        PROVE  CookiesOwned' /\ RecordsOwned' /\ ObjectsOwned'
    <2> DEFINE o == [obj[r] EXCEPT !.bErrState = TRUE]
               n == [o EXCEPT !.blnPersistDone = TRUE]
    <2>0. obj[r] \in NWCSession /\ Owned(r, obj[r])
      BY <1>0
    <2>1. o \in NWCSession /\ Owned(r, o)
      BY <2>0 DEF NWCSession, Owned
    <2>2. n \in NWCSession /\ Owned(r, n)
      <3>. HIDE DEF o
      <3>. QED BY <2>1 DEF NWCSession, Owned
    <2>3. obj' = [obj EXCEPT ![r] = Returned(o)] \/ Continue(r, n)
      BY <1>1 DEF ConnectionFails
    <2>. HIDE DEF o, n
    <2>4. ObjectsOwned'
      BY <2>1, <2>2, <2>3, ReturnedOwned, FrameOwned, ContinueOwned DEF TypeInv
    <2>. QED BY <1>1, <2>4 DEF ConnectionFails, CookiesOwned, RecordsOwned
  <1>2. ASSUME NEW g \in Guid, Expire(g)
        PROVE  CookiesOwned' /\ RecordsOwned' /\ ObjectsOwned'
    <2>1. RecordsOwned'
      BY <1>2 DEF Expire, RecordsOwned, TypeInv, TypeOK
    <2>. QED BY <1>2, <2>1 DEF Expire, CookiesOwned, ObjectsOwned
  <1>3. CASE Crash
    <2> DEFINE n(r) == [NewObject EXCEPT !.draws = obj[r].draws, !.calls = obj[r].calls]
    <2>1. ASSUME NEW r \in Requests PROVE Owned(r, n(r))
      <3> DEFINE m == n(r)
      <3>1. /\ m.guid = NewObject.guid /\ m.oldGuid = NewObject.oldGuid
            /\ m.strGUID = NewObject.strGUID /\ m.setCookie = NewObject.setCookie
            /\ m.m_OldSessionId = NewObject.m_OldSessionId /\ m.dict = NewObject.dict
        BY NewObjectType DEF NWCSession
      <3>. HIDE DEF n
      <3>. QED BY <1>0, <3>1, NewObjectOwned DEF Owned
    <2>2. /\ obj' = [r \in Requests |-> IF InFlight(r) THEN n(r) ELSE obj[r]]
          /\ UNCHANGED <<store, cookie>>
      BY <1>3 DEF Crash
    <2>. HIDE DEF n
    <2>. QED BY <1>0, <2>1, <2>2 DEF CookiesOwned, RecordsOwned, ObjectsOwned
  <1>. QED BY <1>1, <1>2, <1>3

LEMMA NextOwned == TypeInv /\ IsolationInv /\ [Next]_vars => IsolationInv'
  <1>. SUFFICES ASSUME TypeInv, ~UrlIds, CookiesOwned, RecordsOwned, ObjectsOwned, [Next]_vars
                PROVE  CookiesOwned' /\ RecordsOwned' /\ ObjectsOwned'
    BY DEF IsolationInv
  <1>1. ASSUME NEW r \in Requests, Initialize(r) \/ Script(r) \/ PersistSession(r)
        PROVE  CookiesOwned' /\ RecordsOwned' /\ ObjectsOwned'
    BY <1>1, InitializeOwned, ScriptOwned, PersistOwned
  <1>2. ASSUME UNCHANGED vars
        PROVE  CookiesOwned' /\ RecordsOwned' /\ ObjectsOwned'
    BY <1>2 DEF vars, CookiesOwned, RecordsOwned, ObjectsOwned
  <1>. QED BY <1>1, <1>2, FaultsOwned DEF Next, AllDone

\* Under any interleaving of any number of requests, with keys that expire at
\* any moment, failing connections and dying processes, no browser is handed
\* an id, and no record a value, of another browser. It rests on NewID drawing
\* fresh GUIDs and on every write going to an id that dbInit checked or drew.
THEOREM Isolation == Spec => []SessionIsolation
  <1>1. Init => IsolationInv
    BY NewObjectOwned DEF Init, IsolationInv, CookiesOwned, RecordsOwned, ObjectsOwned
  <1>2. IsolationInv => SessionIsolation
    BY DEF IsolationInv, SessionIsolation, CookiesOwned, RecordsOwned
  <1>. QED BY <1>1, <1>2, InitType, NextType, NextOwned, PTL DEF Spec

-----------------------------------------------------------------------------
(* A dead session stays dead.  An action changes the object of one request *)
(* and at most one record or two.  Whatever ids the request has in its     *)
(* hands afterwards, it had before, or drew just now, or found a record    *)
(* under; so a dead id is not among them, and records are written under    *)
(* ids in hand only.                                                       *)

\* The ids under which a request with this object and phase may write.
Keys(o, p) ==
    IF \/ p \in {"insert", "reget", "run", "rename", "write", "delete"}
       \/ p = "get" /\ o.executing
    THEN {o.guid, o.oldGuid} ELSE {}

\* A request that has not read the record of its id knows that id only.
FreshAs(o, p) ==
    /\ p = "idle" => o.draws = 0
    /\ p = "get" /\ ~o.executing => o.oldGuid = o.guid

Fresh == \A r \in Requests : FreshAs(obj[r], phase[r])

\* What one step has to preserve.
DeadKept == \A g \in Guid : Dead(g) => Dead(g)'

\* Object n and phase p give request r no id that is dead.
Quiet(r, n, p) ==
    /\ n.draws \in Nat /\ n.draws >= obj[r].draws
    /\ FreshAs(n, p)
    /\ \A g \in Guid : Dead(g) => g \notin Keys(n, p)

\* No dead id gets a record.
StoreQuiet == \A g \in Guid : Dead(g) => store'[g] = Absent

LEMMA HoldsKeys ==
    ASSUME NEW r, NEW g
    PROVE  Holds(r, g) <=> g \in Keys(obj[r], phase[r])
  BY DEF Holds, Keys

LEMMA DeadFacts ==
    ASSUME NEW g \in Guid, Dead(g)
    PROVE  /\ store[g] = Absent
           /\ \A r \in Requests : g \notin Keys(obj[r], phase[r])
           /\ g[2] < obj[g[1]].draws
  BY HoldsKeys DEF Dead, Drawn

\* An id that is drawn now is not dead.
LEMMA NewDraw ==
    ASSUME TypeInv, NEW g \in Guid, Dead(g), NEW r \in Requests,
           NEW d \in Nat, d >= obj[r].draws
    PROVE  g # <<r, d>>
  <1>1. obj[r].draws \in Nat
    BY DEF TypeInv, TypeOK, NWCSession
  <1>2. SUFFICES ASSUME g = <<r, d>> PROVE FALSE
    OBVIOUS
  <1>3. d < obj[r].draws
    BY <1>2, DeadFacts
  <1>. QED BY <1>1, <1>3

\* An action that replaces the object and the phase of one request.
LEMMA FrameDead ==
    ASSUME TypeInv, Fresh, NEW r \in Requests, NEW n, NEW p,
           obj' = [obj EXCEPT ![r] = n], phase' = [phase EXCEPT ![r] = p],
           Quiet(r, n, p), StoreQuiet
    PROVE  Fresh' /\ DeadKept
  <1>1. /\ \A q \in Requests : obj'[q] = IF q = r THEN n ELSE obj[q]
        /\ \A q \in Requests : phase'[q] = IF q = r THEN p ELSE phase[q]
    BY DEF TypeInv, TypeOK
  <1>2. Fresh'
    BY <1>1 DEF Fresh, Quiet
  <1>3. ASSUME NEW g \in Guid, Dead(g) PROVE Dead(g)'
    <2>1. Drawn(g)'
      <3>1. g[1] \in Requests /\ g[2] \in Nat
        BY SessionAssumption DEF Guid, Draws
      <3>2. obj[g[1]].draws \in Nat
        BY <3>1 DEF TypeInv, TypeOK, NWCSession
      <3>3. g[2] < obj[g[1]].draws
        BY <1>3, DeadFacts
      <3>4. CASE g[1] = r
        <4>1. obj'[g[1]] = n
          BY <1>1, <3>4
        <4>. QED BY <3>1, <3>2, <3>3, <3>4, <4>1 DEF Drawn, Quiet
      <3>5. CASE g[1] # r
        <4>1. obj'[g[1]] = obj[g[1]]
          BY <1>1, <3>1, <3>5
        <4>. QED BY <3>3, <4>1 DEF Drawn
      <3>. QED BY <3>4, <3>5
    <2>2. store'[g] = Absent
      BY <1>3 DEF StoreQuiet
    <2>3. ASSUME NEW q \in Requests PROVE ~Holds(q, g)'
      <3>1. CASE q = r
        <4>1. g \notin Keys(n, p)
          BY <1>3 DEF Quiet
        <4>2. obj'[q] = n /\ phase'[q] = p
          BY <1>1, <3>1
        <4>. QED BY <4>1, <4>2 DEF Holds, Keys
      <3>2. CASE q # r
        <4>1. obj'[q] = obj[q] /\ phase'[q] = phase[q]
          BY <1>1, <3>2
        <4>2. ~Holds(q, g)
          BY <1>3 DEF Dead
        <4>. QED BY <4>1, <4>2 DEF Holds
      <3>. QED BY <3>1, <3>2
    <2>. QED BY <2>1, <2>2, <2>3 DEF Dead
  <1>. QED BY <1>2, <1>3 DEF DeadKept

\* An object with the same ids or newly drawn ones, of a request that may
\* write already.
LEMMA QuietKept ==
    ASSUME TypeInv, NEW r \in Requests, NEW n, NEW p,
           Keys(obj[r], phase[r]) = {obj[r].guid, obj[r].oldGuid},
           n.draws \in Nat, n.draws >= obj[r].draws, FreshAs(n, p),
           \A i \in {n.guid, n.oldGuid} :
              \/ i \in {obj[r].guid, obj[r].oldGuid}
              \/ \E d \in Nat : d >= obj[r].draws /\ i = <<r, d>>
    PROVE  Quiet(r, n, p)
  <1>1. ASSUME NEW g \in Guid, Dead(g) PROVE g \notin Keys(n, p)
    <2>1. g \notin {obj[r].guid, obj[r].oldGuid}
      BY <1>1, DeadFacts
    <2>2. \A d \in Nat : d >= obj[r].draws => g # <<r, d>>
      BY <1>1, NewDraw
    <2>3. g \notin {n.guid, n.oldGuid}
      BY <2>1, <2>2
    <2>. QED BY <2>3 DEF Keys
  <1>. QED BY <1>1 DEF Quiet

LEMMA StoreSame ==
    ASSUME UNCHANGED store
    PROVE  StoreQuiet
  BY DeadFacts DEF StoreQuiet

-----------------------------------------------------------------------------
(* The ids that the helpers give an object *)

SameIds(n, o) ==
    n.guid = o.guid /\ n.oldGuid = o.oldGuid /\ n.draws = o.draws /\ n.executing = o.executing

LEMMA WriteCookieIds ==
    ASSUME NEW o \in NWCSession
    PROVE  SameIds(WriteCookie(o), o)
  BY DEF WriteCookie, NWCSession, SameIds

LEMMA ReturnedIds ==
    ASSUME NEW o \in NWCSession
    PROVE  /\ Returned(o).guid = o.guid /\ Returned(o).oldGuid = o.oldGuid
           /\ Returned(o).draws = o.draws
  BY DEF Returned, NWCSession

LEMMA NewIDIds ==
    ASSUME NEW r \in Requests, NEW o \in NWCSession
    PROVE  /\ NewID(r, o).guid \in {o.guid, <<r, o.draws>>}
           /\ o.blnNew => NewID(r, o).guid = <<r, o.draws>>
           /\ NewID(r, o).oldGuid = o.oldGuid
  BY DEF NewID, NWCSession

\* A step of a request whose object keeps its ids, in a phase where it may
\* write, to another such phase or past them.
LEMMA SameDead ==
    ASSUME TypeInv, Fresh, NEW r \in Requests, NEW n \in NWCSession, NEW p \in Phase,
           phase[r] \in {"insert", "reget", "run", "rename", "write", "delete"},
           n.guid = obj[r].guid, n.oldGuid = obj[r].oldGuid, n.draws = obj[r].draws,
           FreshAs(n, p),
           obj' = [obj EXCEPT ![r] = n], phase' = [phase EXCEPT ![r] = p],
           StoreQuiet
    PROVE  Fresh' /\ DeadKept
  <1>1. obj[r].draws \in Nat
    BY DEF TypeInv, TypeOK, NWCSession
  <1>2. Keys(obj[r], phase[r]) = {obj[r].guid, obj[r].oldGuid}
    BY DEF Keys
  <1>3. n.draws \in Nat /\ n.draws >= obj[r].draws
    BY <1>1
  <1>4. Quiet(r, n, p)
    BY <1>2, <1>3, QuietKept
  <1>. QED BY <1>4, FrameDead

\* PersistSession done, with the object it leaves.
LEMMA ContinueDead ==
    ASSUME TypeInv, Fresh, NEW r \in Requests, NEW n \in NWCSession, Continue(r, n),
           phase[r] \in {"run", "rename", "write", "delete"},
           n.guid = obj[r].guid, n.oldGuid = obj[r].oldGuid, n.draws = obj[r].draws,
           StoreQuiet
    PROVE  Fresh' /\ DeadKept
  <1> DEFINE again == [n EXCEPT !.dict = {}, !.blnNew = FALSE, !.blnExpired = FALSE]
  <1>0. /\ again \in NWCSession /\ SameIds(again, n)
    BY DEF NWCSession, SameIds
  <1>1. CASE ~n.executing
    <2>1. obj' = [obj EXCEPT ![r] = n] /\ phase' = [phase EXCEPT ![r] = "saved"]
      BY <1>1 DEF Continue
    <2>2. FreshAs(n, "saved") /\ "saved" \in Phase
      BY DEF FreshAs, Phase
    <2>. QED BY <2>1, <2>2, SameDead
  <1>2. CASE n.executing /\ n.bErrState
    <2>1. obj' = [obj EXCEPT ![r] = Returned(again)] /\ phase' = [phase EXCEPT ![r] = "run"]
      BY <1>2 DEF Continue
    <2>. HIDE DEF again
    <2>2. /\ Returned(again).guid = n.guid /\ Returned(again).oldGuid = n.oldGuid
          /\ Returned(again).draws = n.draws
      BY <1>0, ReturnedIds DEF SameIds
    <2>3. FreshAs(Returned(again), "run") /\ "run" \in Phase
      BY DEF FreshAs, Phase
    <2>4. Returned(again) \in NWCSession
      BY <1>0, ReturnedType
    <2>. QED BY <2>1, <2>2, <2>3, <2>4, SameDead
  <1>3. CASE n.executing /\ ~n.bErrState
    <2>1. obj' = [obj EXCEPT ![r] = again] /\ phase' = [phase EXCEPT ![r] = "get"]
      BY <1>3 DEF Continue
    <2>. HIDE DEF again
    <2>2. FreshAs(again, "get") /\ "get" \in Phase
      BY <1>0, <1>3 DEF SameIds, FreshAs, Phase
    <2>3. again.guid = n.guid /\ again.oldGuid = n.oldGuid /\ again.draws = n.draws
      BY <1>0 DEF SameIds
    <2>. QED BY <1>0, <2>1, <2>2, <2>3, SameDead
  <1>. QED BY <1>1, <1>2, <1>3

-----------------------------------------------------------------------------
(* OnStartPage *)

LEMMA StartDead ==
    ASSUME TypeInv, Fresh, NEW r \in Requests, Start(r)
    PROVE  Fresh' /\ DeadKept
  <1>1. PICK i \in Id, url \in BOOLEAN :
           obj' = [obj EXCEPT ![r] = [NewObject EXCEPT !.guid = i, !.oldGuid = i,
                                         !.strGUID = i, !.blnNew = (i = NoId),
                                         !.blnFoundURLGuid = url]]
    BY DEF Start
  <1> DEFINE n == [NewObject EXCEPT !.guid = i, !.oldGuid = i, !.strGUID = i,
                                    !.blnNew = (i = NoId), !.blnFoundURLGuid = url]
  <1>2. n.draws = 0 /\ n.guid = i /\ n.oldGuid = i /\ n.executing = FALSE
    BY DEF NewObject
  <1>3. phase[r] = "idle" /\ phase' = [phase EXCEPT ![r] = "get"] /\ UNCHANGED store
    BY DEF Start
  <1>4. obj[r].draws = 0
    BY <1>3 DEF Fresh, FreshAs
  <1>. HIDE DEF n
  <1>5. FreshAs(n, "get") /\ Keys(n, "get") = {}
    BY <1>2 DEF FreshAs, Keys
  <1>6. Quiet(r, n, "get")
    BY <1>2, <1>4, <1>5 DEF Quiet
  <1>7. obj' = [obj EXCEPT ![r] = n]
    BY <1>1 DEF n
  <1>. QED BY <1>3, <1>6, <1>7, StoreSame, FrameDead

LEMMA SessionInsertDead ==
    ASSUME TypeInv, Fresh, NEW r \in Requests, SessionInsert(r)
    PROVE  Fresh' /\ DeadKept
  <1>1. phase[r] = "insert"
    BY DEF SessionInsert
  <1>2. StoreQuiet
    <2>1. ASSUME NEW g \in Guid, Dead(g) PROVE store'[g] = Absent
      <3>1. g # obj[r].guid /\ store[g] = Absent
        BY <1>1, <2>1, DeadFacts DEF Keys
      <3>. QED BY <3>1 DEF SessionInsert, TypeInv, TypeOK
    <2>. QED BY <2>1 DEF StoreQuiet
  <1>3. obj' = [obj EXCEPT ![r] = obj[r]] /\ phase' = [phase EXCEPT ![r] = "reget"]
    BY DEF SessionInsert, TypeInv, TypeOK
  <1>4. FreshAs(obj[r], "reget") /\ "reget" \in Phase /\ obj[r] \in NWCSession
    BY DrawAllowed DEF FreshAs, Phase
  <1>. QED BY <1>1, <1>2, <1>3, <1>4, SameDead

LEMMA GetInsertedDead ==
    ASSUME TypeInv, Fresh, NEW r \in Requests, GetInserted(r)
    PROVE  Fresh' /\ DeadKept
  <1> DEFINE o == obj[r]
             lost == Lookup(o.guid) = Absent
             failed == lost /\ ~o.executing
             a == [WriteCookie(o) EXCEPT !.bErrState = failed]
             n == Returned(a)
             p == IF failed THEN "saved" ELSE "run"
  <1>1. o \in NWCSession /\ phase[r] = "reget"
    BY DrawAllowed DEF GetInserted
  <1>2. a \in NWCSession /\ SameIds(a, o)
    <2>1. WriteCookie(o) \in NWCSession /\ SameIds(WriteCookie(o), o)
      BY <1>1, WriteCookieType, WriteCookieIds
    <2>. QED BY <2>1 DEF NWCSession, SameIds
  <1>5. obj' = [obj EXCEPT ![r] = n] /\ phase' = [phase EXCEPT ![r] = p]
        /\ UNCHANGED <<store, cookie>>
    BY DEF GetInserted
  <1>. HIDE DEF a
  <1>3. n.guid = o.guid /\ n.oldGuid = o.oldGuid /\ n.draws = o.draws
    BY <1>2, ReturnedIds DEF SameIds
  <1>. HIDE DEF n
  <1>4. FreshAs(n, p) /\ p \in Phase
    BY DEF FreshAs, Phase
  <1>8. n \in NWCSession
    BY <1>2, ReturnedType DEF n
  <1>6. StoreQuiet
    BY <1>5, StoreSame
  <1>. HIDE DEF p, o
  <1>7. phase[r] = "reget" /\ n.guid = obj[r].guid /\ n.oldGuid = obj[r].oldGuid
        /\ n.draws = obj[r].draws
    BY <1>1, <1>3 DEF o
  <1>. QED BY <1>4, <1>5, <1>6, <1>7, <1>8, SameDead

LEMMA GetMissingDead ==
    ASSUME TypeInv, Fresh, NEW r \in Requests, GetMissing(r)
    PROVE  Fresh' /\ DeadKept
  <1> DEFINE o == obj[r]
             a == [o EXCEPT !.blnExpired = @ \/ ~o.blnNew, !.blnNew = TRUE]
             o1 == NewID(r, a)
             n == [o1 EXCEPT !.oldGuid = o1.guid]
  <1>1. o \in NWCSession /\ o.draws \in Draws /\ o.draws \in Nat /\ phase[r] = "get"
    BY DrawAllowed DEF GetMissing
  <1>2. a \in NWCSession /\ a.blnNew /\ a.draws = o.draws
    BY <1>1 DEF NWCSession
  <1>6. obj' = [obj EXCEPT ![r] = n] /\ phase' = [phase EXCEPT ![r] = "insert"]
        /\ UNCHANGED store
    BY DEF GetMissing
  <1>. HIDE DEF a
  <1>3. o1 \in NWCSession /\ o1.draws \in {o.draws, o.draws + 1} /\ o1.guid = <<r, o.draws>>
    BY <1>1, <1>2, NewIDType, NewIDIds
  <1>. HIDE DEF o1
  <1>4. n.guid = <<r, o.draws>> /\ n.oldGuid = <<r, o.draws>> /\ n.draws = o1.draws
    BY <1>3 DEF NWCSession
  <1>. HIDE DEF n
  <1>5. n.draws \in Nat /\ n.draws >= obj[r].draws
    BY <1>1, <1>3, <1>4
  <1>7. ASSUME NEW g \in Guid, Dead(g) PROVE g \notin Keys(n, "insert")
    <2>1. g # <<r, o.draws>>
      BY <1>1, <1>7, NewDraw
    <2>. QED BY <1>4, <2>1 DEF Keys
  <1>8. Quiet(r, n, "insert")
    BY <1>5, <1>7 DEF Quiet, FreshAs
  <1>. QED BY <1>6, <1>8, StoreSame, FrameDead

LEMMA GetFoundDead ==
    ASSUME TypeInv, Fresh, NEW r \in Requests, GetFound(r)
    PROVE  Fresh' /\ DeadKept
  <1> DEFINE o == obj[r]
             rec == Lookup(o.guid)
             refused == ~o.blnNew /\ ~o.blnExpired /\ o.blnFoundURLGuid /\ ~rec.reent
             a == [o EXCEPT !.blnExpired = TRUE, !.blnNew = TRUE, !.dict = {}]
             o1 == IF refused THEN NewID(r, a) ELSE o
             o2 == [o1 EXCEPT !.blnReEntrance = rec.reent, !.blnLiquid = rec.liquid,
                              !.dict = rec.data]
             o3 == IF o2.blnLiquid THEN NewID(r, o2) ELSE o2
             o4 == IF o3.blnLiquid \/ o3.blnNew \/ o3.blnExpired
                   THEN WriteCookie(o3) ELSE o3
             n == Returned(o4)
             New(i) == i \in {o.guid, <<r, o.draws>>, <<r, o.draws + 1>>}
  <1>1. /\ o \in NWCSession /\ o.draws \in Draws /\ o.draws + 1 \in Draws
        /\ o.draws \in Nat /\ phase[r] = "get"
    BY DrawAllowed DEF GetFound
  <1>2. rec \in Record
    <2>1. o.guid \in Id
      BY <1>1 DEF NWCSession
    <2>. QED BY <2>1, LookupType DEF GetFound, TypeInv
  <1>9. /\ obj' = [obj EXCEPT ![r] = n] /\ phase' = [phase EXCEPT ![r] = "run"]
        /\ UNCHANGED store
    BY DEF GetFound
  <1>3. /\ o1 \in NWCSession /\ o1.oldGuid = o.oldGuid
        /\ \/ o1.draws = o.draws /\ o1.guid \in {o.guid, <<r, o.draws>>}
           \/ o1.draws = o.draws + 1 /\ o1.guid \in {o.guid, <<r, o.draws>>}
    <2>1. /\ a \in NWCSession /\ a.draws = o.draws /\ a.guid = o.guid
          /\ a.oldGuid = o.oldGuid
      BY <1>1 DEF NWCSession
    <2>. HIDE DEF a, o
    <2>2. /\ NewID(r, a) \in NWCSession /\ NewID(r, a).draws \in {o.draws, o.draws + 1}
          /\ NewID(r, a).guid \in {o.guid, <<r, o.draws>>}
          /\ NewID(r, a).oldGuid = o.oldGuid
      BY <1>1, <2>1, NewIDType, NewIDIds
    <2>. QED BY <1>1, <2>2
  <1>. HIDE DEF o1
  <1>4. /\ o2 \in NWCSession /\ o2.draws = o1.draws /\ o2.guid = o1.guid
        /\ o2.oldGuid = o1.oldGuid
    BY <1>2, <1>3 DEF NWCSession, Record
  <1>. HIDE DEF o2
  <1>5. /\ o3 \in NWCSession /\ New(o3.guid) /\ o3.oldGuid = o.oldGuid
        /\ o3.draws \in {o.draws, o.draws + 1, o.draws + 2}
    <2>1. o2.draws \in {o.draws, o.draws + 1} /\ o2.guid \in {o.guid, <<r, o.draws>>}
      BY <1>3, <1>4
    <2>2. o2.draws \in Draws
      BY <1>1, <2>1
    <2>3. /\ NewID(r, o2) \in NWCSession
          /\ NewID(r, o2).draws \in {o2.draws, o2.draws + 1}
          /\ NewID(r, o2).guid \in {o2.guid, <<r, o2.draws>>}
          /\ NewID(r, o2).oldGuid = o2.oldGuid
      BY <1>4, <2>2, NewIDType, NewIDIds
    <2>4. New(o2.guid) /\ New(NewID(r, o2).guid)
      BY <2>1, <2>3
    <2>5. NewID(r, o2).draws \in {o.draws, o.draws + 1, o.draws + 2}
      BY <1>1, <2>1, <2>3
    <2>. QED BY <1>3, <1>4, <2>1, <2>3, <2>4, <2>5
  <1>. HIDE DEF o3
  <1>6. /\ o4 \in NWCSession /\ o4.draws = o3.draws /\ o4.guid = o3.guid
        /\ o4.oldGuid = o3.oldGuid
    BY <1>5, WriteCookieType, WriteCookieIds DEF SameIds
  <1>. HIDE DEF o4
  <1>7. n.draws = o4.draws /\ n.guid = o4.guid /\ n.oldGuid = o4.oldGuid
    BY <1>6, ReturnedIds
  <1>. HIDE DEF n
  <1>8. n.draws \in Nat /\ n.draws >= obj[r].draws
    BY <1>1, <1>5, <1>6, <1>7
  <1>10. ASSUME NEW g \in Guid, Dead(g) PROVE g \notin Keys(n, "run")
    <2>1. g # <<r, o.draws>> /\ g # <<r, o.draws + 1>>
      <3>1. o.draws + 1 \in Nat /\ o.draws + 1 >= o.draws /\ o.draws >= o.draws
        BY <1>1
      <3>. QED BY <1>1, <1>10, <3>1, NewDraw
    <2>2. g # o.guid
      <3>1. Lookup(o.guid) # Absent
        BY DEF GetFound
      <3>. QED BY <1>10, <3>1, DeadFacts DEF Lookup
    <2>3. g # o.oldGuid
      <3>1. CASE o.executing
        <4>1. Keys(o, phase[r]) = {o.guid, o.oldGuid}
          BY <1>1, <3>1 DEF Keys
        <4>. QED BY <1>10, <4>1, DeadFacts
      <3>2. CASE ~o.executing
        <4>1. o.oldGuid = o.guid
          BY <1>1, <3>2 DEF Fresh, FreshAs
        <4>. QED BY <2>2, <4>1
      <3>. QED BY <3>1, <3>2
    <2>4. g \notin {n.guid, n.oldGuid}
      BY <1>5, <1>6, <1>7, <2>1, <2>2, <2>3
    <2>. QED BY <2>4 DEF Keys
  <1>11. Quiet(r, n, "run")
    BY <1>8, <1>10 DEF Quiet, FreshAs
  <1>. QED BY <1>9, <1>11, StoreSame, FrameDead

-----------------------------------------------------------------------------
(* The methods a script calls *)

LEMMA MethodDead ==
    ASSUME TypeInv, Fresh, NEW r \in Requests, NEW op, NEW o \in NWCSession,
           Called(r, op, o), UNCHANGED <<store, phase>>,
           o.draws \in {obj[r].draws, obj[r].draws + 1},
           o.guid \in {obj[r].guid, obj[r].oldGuid, <<r, obj[r].draws>>},
           o.oldGuid \in {obj[r].guid, obj[r].oldGuid}
    PROVE  Fresh' /\ DeadKept
  <1> DEFINE n == [o EXCEPT !.calls = @ + 1]
  <1>1. obj[r].draws \in Nat /\ phase[r] = "run"
    BY DrawAllowed DEF Called
  <1>2. obj' = [obj EXCEPT ![r] = n] /\ phase' = [phase EXCEPT ![r] = "run"]
    BY DEF Called, TypeInv, TypeOK
  <1>3. n.guid = o.guid /\ n.oldGuid = o.oldGuid /\ n.draws = o.draws
    BY DEF NWCSession
  <1>. HIDE DEF n
  <1>4. n.draws \in Nat /\ n.draws >= obj[r].draws
    BY <1>1, <1>3
  <1>5. Keys(obj[r], phase[r]) = {obj[r].guid, obj[r].oldGuid}
    BY <1>1 DEF Keys
  <1>6. \A i \in {n.guid, n.oldGuid} :
           \/ i \in {obj[r].guid, obj[r].oldGuid}
           \/ \E d \in Nat : d >= obj[r].draws /\ i = <<r, d>>
    BY <1>1, <1>3
  <1>7. FreshAs(n, "run")
    BY DEF FreshAs
  <1>8. Quiet(r, n, "run")
    BY <1>4, <1>5, <1>6, <1>7, QuietKept
  <1>. QED BY <1>2, <1>8, StoreSame, FrameDead

LEMMA SameMethodDead ==
    ASSUME TypeInv, Fresh, NEW r \in Requests, NEW op, NEW o \in NWCSession,
           Called(r, op, o), UNCHANGED <<store, phase>>, SameIds(o, obj[r])
    PROVE  Fresh' /\ DeadKept
  <1>1. /\ o.draws \in {obj[r].draws, obj[r].draws + 1}
        /\ o.guid \in {obj[r].guid, obj[r].oldGuid, <<r, obj[r].draws>>}
        /\ o.oldGuid \in {obj[r].guid, obj[r].oldGuid}
    BY DEF SameIds
  <1>. QED BY <1>1, MethodDead

LEMMA ScriptDead ==
    ASSUME TypeInv, Fresh, NEW r \in Requests,
           \/ PutValue(r) \/ PutRefValue(r) \/ Remove(r) \/ RemoveAll(r) \/ Abandon(r)
           \/ ReadonlyOn(r) \/ ReadonlyOff(r) \/ PutReEntrance(r) \/ Flush(r)
    PROVE  Fresh' /\ DeadKept
  <1> DEFINE o == obj[r]
  <1>0. o \in NWCSession
    BY DrawAllowed
  <1>1. CASE PutValue(r)
    <2> DEFINE n == [o EXCEPT !.dict = @ \cup {r}, !.blnDirty = TRUE]
    <2>1. n \in NWCSession /\ SameIds(n, o)
      BY <1>0 DEF NWCSession, SameIds
    <2>2. Method(r, "put", n)
      BY <1>1 DEF PutValue
    <2>. QED BY <2>1, <2>2, SameMethodDead DEF Method
  <1>2. CASE PutRefValue(r)
    <2> DEFINE n == [o EXCEPT !.dict = @ \cup {r}]
    <2>1. n \in NWCSession /\ SameIds(n, o)
      BY <1>0 DEF NWCSession, SameIds
    <2>2. Method(r, "putref", n)
      BY <1>2 DEF PutRefValue
    <2>. QED BY <2>1, <2>2, SameMethodDead DEF Method
  <1>3. CASE Remove(r)
    <2>1. PICK v \in Requests : Method(r, "remove", [o EXCEPT !.dict = @ \ {v}, !.blnDirty = TRUE])
      BY <1>3 DEF Remove
    <2> DEFINE n == [o EXCEPT !.dict = @ \ {v}, !.blnDirty = TRUE]
    <2>2. n \in NWCSession /\ SameIds(n, o)
      BY <1>0 DEF NWCSession, SameIds
    <2>. QED BY <2>1, <2>2, SameMethodDead DEF Method
  <1>4. CASE RemoveAll(r)
    <2> DEFINE n == [o EXCEPT !.dict = {}]
    <2>1. n \in NWCSession /\ SameIds(n, o)
      BY <1>0 DEF NWCSession, SameIds
    <2>2. Method(r, "removeAll", n)
      BY <1>4 DEF RemoveAll
    <2>. QED BY <2>1, <2>2, SameMethodDead DEF Method
  <1>5. CASE ReadonlyOn(r)
    <2> DEFINE n == [o EXCEPT !.bReadonly = TRUE]
    <2>1. n \in NWCSession /\ SameIds(n, o)
      BY <1>0 DEF NWCSession, SameIds
    <2>2. Method(r, "readonlyOn", n)
      BY <1>5 DEF ReadonlyOn
    <2>. QED BY <2>1, <2>2, SameMethodDead DEF Method
  <1>6. CASE ReadonlyOff(r)
    <2> DEFINE n == [o EXCEPT !.bReadonly = FALSE]
    <2>1. n \in NWCSession /\ SameIds(n, o)
      BY <1>0 DEF NWCSession, SameIds
    <2>2. Method(r, "readonlyOff", n)
      BY <1>6 DEF ReadonlyOff
    <2>. QED BY <2>1, <2>2, SameMethodDead DEF Method
  <1>7. CASE PutReEntrance(r)
    <2>1. PICK b \in BOOLEAN : Method(r, "reentrance", [o EXCEPT !.blnReEntrance = b])
      BY <1>7 DEF PutReEntrance
    <2> DEFINE n == [o EXCEPT !.blnReEntrance = b]
    <2>2. n \in NWCSession /\ SameIds(n, o)
      BY <1>0 DEF NWCSession, SameIds
    <2>. QED BY <2>1, <2>2, SameMethodDead DEF Method
  <1>8. CASE Abandon(r)
    <2> DEFINE a == [o EXCEPT !.blnCancel = TRUE, !.dict = {}]
    <2>1. a \in NWCSession /\ SameIds(a, o)
      BY <1>0 DEF NWCSession, SameIds
    <2>2. Method(r, "abandon", WriteCookie(a))
      BY <1>8 DEF Abandon
    <2>. HIDE DEF a
    <2>3. WriteCookie(a) \in NWCSession /\ SameIds(WriteCookie(a), o)
      BY <2>1, WriteCookieType, WriteCookieIds DEF SameIds
    <2>. QED BY <2>2, <2>3, SameMethodDead DEF Method
  <1>9. CASE Flush(r)
    <2> DEFINE n == [o EXCEPT !.headersSent = TRUE]
    <2>1. n \in NWCSession /\ SameIds(n, o)
      BY <1>0 DEF NWCSession, SameIds
    <2>2. Called(r, "flush", n) /\ UNCHANGED <<store, phase>>
      BY <1>9 DEF Flush
    <2>. QED BY <2>1, <2>2, SameMethodDead
  <1>. QED BY <1>1, <1>2, <1>3, <1>4, <1>5, <1>6, <1>7, <1>8, <1>9

LEMMA LiquidDead ==
    ASSUME TypeInv, Fresh, NEW r \in Requests, LiquidOn(r) \/ LiquidOff(r)
    PROVE  Fresh' /\ DeadKept
  <1> DEFINE o == obj[r]
  <1>0. o \in NWCSession /\ o.draws \in Nat
    BY DrawAllowed
  <1>1. CASE LiquidOn(r)
    <2> DEFINE a == [o EXCEPT !.blnLiquid = TRUE, !.oldGuid = o.guid]
               n == WriteCookie(NewID(r, a))
    <2>1. o.draws \in Draws
      BY <1>1, DrawAllowed DEF LiquidOn, Method, Called
    <2>2. /\ a \in NWCSession /\ a.guid = o.guid /\ a.oldGuid = o.guid
          /\ a.draws = o.draws
      BY <1>0 DEF NWCSession
    <2>3. Method(r, "liquidOn", n)
      BY <1>1 DEF LiquidOn
    <2>. HIDE DEF a
    <2>4. /\ NewID(r, a) \in NWCSession /\ NewID(r, a).draws \in {o.draws, o.draws + 1}
          /\ NewID(r, a).guid \in {o.guid, <<r, o.draws>>}
          /\ NewID(r, a).oldGuid = o.guid
      BY <2>1, <2>2, NewIDType, NewIDIds
    <2>5. n \in NWCSession /\ SameIds(n, NewID(r, a))
      BY <2>4, WriteCookieType, WriteCookieIds
    <2>. HIDE DEF n
    <2>6. /\ n.draws \in {obj[r].draws, obj[r].draws + 1}
          /\ n.guid \in {obj[r].guid, obj[r].oldGuid, <<r, obj[r].draws>>}
          /\ n.oldGuid \in {obj[r].guid, obj[r].oldGuid}
      BY <2>4, <2>5 DEF SameIds
    <2>. QED BY <2>3, <2>5, <2>6, MethodDead DEF Method
  <1>2. CASE LiquidOff(r)
    <2> DEFINE off == [o EXCEPT !.blnLiquid = FALSE, !.guid = o.oldGuid]
               back == [off EXCEPT !.strGUID = o.m_OldSessionId, !.m_OldSessionId = NoId]
               n == IF o.m_OldSessionId = NoId THEN off ELSE WriteCookie(back)
               Old(x) == x.guid = o.oldGuid /\ x.oldGuid = o.oldGuid /\ x.draws = o.draws
    <2>1. off \in NWCSession /\ Old(off)
      BY <1>0 DEF NWCSession
    <2>2. back \in NWCSession /\ Old(back)
      BY <1>0 DEF NWCSession, Id
    <2>3. Method(r, "liquidOff", n)
      BY <1>2 DEF LiquidOff
    <2>. HIDE DEF off, back
    <2>4. WriteCookie(back) \in NWCSession /\ Old(WriteCookie(back))
      BY <2>2, WriteCookieType, WriteCookieIds DEF SameIds
    <2>5. n \in NWCSession /\ Old(n)
      BY <2>1, <2>4
    <2>. HIDE DEF n
    <2>6. /\ n.draws \in {obj[r].draws, obj[r].draws + 1}
          /\ n.guid \in {obj[r].guid, obj[r].oldGuid, <<r, obj[r].draws>>}
          /\ n.oldGuid \in {obj[r].guid, obj[r].oldGuid}
      BY <2>5
    <2>. QED BY <2>3, <2>5, <2>6, MethodDead DEF Method
  <1>. QED BY <1>1, <1>2

LEMMA ExecuteDead ==
    ASSUME TypeInv, Fresh, NEW r \in Requests, Execute(r)
    PROVE  Fresh' /\ DeadKept
  <1> DEFINE o == [obj[r] EXCEPT !.saveliquid = obj[r].blnLiquid, !.blnLiquid = FALSE,
                                 !.executing = TRUE]
             next == PersistPhase(o)
             skip == next = "saved"
             n == [o EXCEPT !.calls = @ + 1,
                            !.blnPersistDone = @ \/ (skip /\ ~o.bErrState)]
  <1>1. /\ obj[r] \in NWCSession /\ obj[r].calls \in Nat
        /\ phase[r] = "run" /\ obj[r].calls < MaxOps /\ UNCHANGED store
    BY DrawAllowed DEF Execute
  <1>2. /\ o \in NWCSession /\ o.guid = obj[r].guid /\ o.oldGuid = obj[r].oldGuid
        /\ o.draws = obj[r].draws /\ o.calls = obj[r].calls
    BY <1>1 DEF NWCSession
  <1>3. IF skip THEN Continue(r, n)
        ELSE /\ obj' = [obj EXCEPT ![r] = n]
             /\ phase' = [phase EXCEPT ![r] = next]
    BY DEF Execute
  <1>4. /\ n \in NWCSession /\ n.guid = o.guid /\ n.oldGuid = o.oldGuid
        /\ n.draws = o.draws
    <2>1. o.calls + 1 \in 0 .. MaxOps
      BY <1>1, <1>2, SessionAssumption
    <2>2. (o.blnPersistDone \/ (skip /\ ~o.bErrState)) \in BOOLEAN
      OBVIOUS
    <2>. HIDE DEF skip, o
    <2>. QED BY <1>2, <2>1, <2>2 DEF NWCSession
  <1>5. next \in Phase /\ FreshAs(n, next)
    <2>1. next \in {"saved", "delete", "rename", "write"}
      BY PersistPhaseType
    <2>. QED BY <2>1 DEF FreshAs, Phase
  <1>6. StoreQuiet
    BY <1>1, StoreSame
  <1>. HIDE DEF n, next
  <1>7. n.guid = obj[r].guid /\ n.oldGuid = obj[r].oldGuid /\ n.draws = obj[r].draws
    BY <1>2, <1>4
  <1>. HIDE DEF o
  <1>8. CASE skip
    <2>1. Continue(r, n)
      BY <1>3, <1>8
    <2>. QED BY <1>1, <1>4, <1>6, <1>7, <2>1, ContinueDead
  <1>9. CASE ~skip
    <2>1. obj' = [obj EXCEPT ![r] = n] /\ phase' = [phase EXCEPT ![r] = next]
      BY <1>3, <1>9
    <2>. QED BY <1>1, <1>4, <1>5, <1>6, <1>7, <2>1, SameDead
  <1>. QED BY <1>8, <1>9

-----------------------------------------------------------------------------
(* PersistSession: what is written is written under an id in hand *)

LEMMA PersistDead ==
    ASSUME TypeInv, Fresh, NEW r \in Requests, PersistSession(r)
    PROVE  Fresh' /\ DeadKept
  <1> DEFINE o == obj[r]
  <1>0. o \in NWCSession /\ o.draws \in Nat
    BY DrawAllowed
  <1>1. CASE EndPage(r)
    <2> DEFINE next == PersistPhase(o)
               n == [o EXCEPT !.blnPersistDone = @ \/ (next = "saved" /\ ~o.bErrState)]
    <2>1. next \in {"saved", "delete", "rename", "write"}
      BY PersistPhaseType
    <2>2. /\ obj' = [obj EXCEPT ![r] = n] /\ phase' = [phase EXCEPT ![r] = next]
          /\ UNCHANGED store /\ phase[r] = "run"
      BY <1>1 DEF EndPage, TypeInv, TypeOK
    <2>3. /\ n \in NWCSession /\ n.guid = o.guid /\ n.oldGuid = o.oldGuid
          /\ n.draws = o.draws
      <3>1. (o.blnPersistDone \/ (next = "saved" /\ ~o.bErrState)) \in BOOLEAN
        OBVIOUS
      <3>. HIDE DEF next
      <3>. QED BY <1>0, <3>1 DEF NWCSession
    <2>. HIDE DEF next, n
    <2>4. next \in Phase /\ FreshAs(n, next)
      BY <2>1 DEF FreshAs, Phase
    <2>. QED BY <2>2, <2>3, <2>4, StoreSame, SameDead
  <1>2. CASE SaveRename(r)
    <2>1. phase[r] = "rename"
      BY <1>2 DEF SaveRename
    <2>2. StoreQuiet
      <3>1. ASSUME NEW g \in Guid, Dead(g) PROVE store'[g] = Absent
        <4>1. g # o.guid /\ g # o.oldGuid /\ store[g] = Absent
          BY <2>1, <3>1, DeadFacts DEF Keys
        <4>. QED BY <1>2, <4>1 DEF SaveRename, TypeInv, TypeOK
      <3>. QED BY <3>1 DEF StoreQuiet
    <2>3. obj' = [obj EXCEPT ![r] = o] /\ phase' = [phase EXCEPT ![r] = "write"]
      BY <1>2 DEF SaveRename, TypeInv, TypeOK
    <2>4. FreshAs(o, "write") /\ "write" \in Phase
      BY DEF FreshAs, Phase
    <2>. QED BY <1>0, <2>1, <2>2, <2>3, <2>4, SameDead
  <1>3. CASE SaveWrite(r)
    <2> DEFINE n == [o EXCEPT !.blnPersistDone = TRUE]
    <2>1. /\ n \in NWCSession /\ n.guid = o.guid /\ n.oldGuid = o.oldGuid
          /\ n.draws = o.draws
      BY <1>0 DEF NWCSession
    <2>2. Continue(r, n) /\ phase[r] = "write"
      BY <1>3 DEF SaveWrite
    <2>3. StoreQuiet
      <3>1. ASSUME NEW g \in Guid, Dead(g) PROVE store'[g] = Absent
        <4>1. g # o.guid /\ g # o.oldGuid /\ store[g] = Absent
          BY <2>2, <3>1, DeadFacts DEF Keys
        <4>. QED BY <1>3, <4>1 DEF SaveWrite, TypeInv, TypeOK
      <3>. QED BY <3>1 DEF StoreQuiet
    <2>. HIDE DEF n
    <2>. QED BY <2>1, <2>2, <2>3, ContinueDead
  <1>4. CASE SessionDelete(r)
    <2> DEFINE n == [o EXCEPT !.blnPersistDone = TRUE,
                              !.bErrState = @ \/ Lookup(o.oldGuid) = Absent]
    <2>1. /\ n \in NWCSession /\ n.guid = o.guid /\ n.oldGuid = o.oldGuid
          /\ n.draws = o.draws
      <3>1. (o.bErrState \/ Lookup(o.oldGuid) = Absent) \in BOOLEAN
        OBVIOUS
      <3>. QED BY <1>0, <3>1 DEF NWCSession
    <2>2. Continue(r, n) /\ phase[r] = "delete"
      BY <1>4 DEF SessionDelete
    <2>3. StoreQuiet
      <3>1. ASSUME NEW g \in Guid, Dead(g) PROVE store'[g] = Absent
        <4>1. store[g] = Absent
          BY <3>1, DeadFacts
        <4>. QED BY <1>4, <4>1 DEF SessionDelete, TypeInv, TypeOK
      <3>. QED BY <3>1 DEF StoreQuiet
    <2>. HIDE DEF n
    <2>. QED BY <2>1, <2>2, <2>3, ContinueDead
  <1>5. CASE Respond(r)
    <2> DEFINE n == [NewObject EXCEPT !.draws = o.draws, !.calls = o.calls]
    <2>1. n.draws = o.draws
      BY DEF NewObject
    <2>2. /\ obj' = [obj EXCEPT ![r] = n] /\ phase' = [phase EXCEPT ![r] = "done"]
          /\ UNCHANGED store
      BY <1>5 DEF Respond
    <2>. HIDE DEF n
    <2>3. n.draws \in Nat /\ n.draws >= obj[r].draws
      BY <1>0, <2>1
    <2>4. Quiet(r, n, "done")
      BY <2>3 DEF Quiet, FreshAs, Keys
    <2>. QED BY <2>2, <2>4, StoreSame, FrameDead
  <1>. QED BY <1>1, <1>2, <1>3, <1>4, <1>5 DEF PersistSession

-----------------------------------------------------------------------------
(* The environment *)

LEMMA ConnectionFailsDead ==
    ASSUME TypeInv, Fresh, NEW r \in Requests, ConnectionFails(r)
    PROVE  Fresh' /\ DeadKept
  <1> DEFINE o == [obj[r] EXCEPT !.bErrState = TRUE]
             n == [o EXCEPT !.blnPersistDone = TRUE]
             p == IF o.executing THEN "run" ELSE "saved"
  <1>1. obj[r] \in NWCSession /\ obj[r].draws \in Nat
    BY DrawAllowed
  <1>2. o \in NWCSession /\ SameIds(o, obj[r])
    BY <1>1 DEF NWCSession, SameIds
  <1>3. StoreQuiet
    BY StoreSame DEF ConnectionFails
  <1>4. CASE /\ phase[r] \in {"get", "insert", "reget"}
             /\ obj' = [obj EXCEPT ![r] = Returned(o)]
             /\ phase' = [phase EXCEPT ![r] = p]
    <2> DEFINE m == Returned(o)
    <2>1. p \in Phase /\ FreshAs(m, p)
      BY DEF FreshAs, Phase
    <2>. HIDE DEF o
    <2>2. /\ m \in NWCSession /\ m.guid = obj[r].guid /\ m.oldGuid = obj[r].oldGuid
          /\ m.draws = obj[r].draws
      BY <1>2, ReturnedType, ReturnedIds DEF SameIds
    <2>3. m.draws \in Nat /\ m.draws >= obj[r].draws
      BY <1>1, <2>2
    <2>4. CASE phase[r] = "get" /\ ~obj[r].executing
      <3>1. p = "saved"
        BY <1>2, <2>4 DEF SameIds
      <3>2. Keys(m, p) = {}
        BY <3>1 DEF Keys
      <3>. HIDE DEF m, p
      <3>3. Quiet(r, m, p)
        BY <2>1, <2>3, <3>2 DEF Quiet
      <3>. QED BY <1>3, <1>4, <3>3, FrameDead DEF m
    <2>5. CASE ~(phase[r] = "get" /\ ~obj[r].executing)
      <3>1. Keys(obj[r], phase[r]) = {obj[r].guid, obj[r].oldGuid}
        BY <1>4, <2>5 DEF Keys
      <3>2. \A i \in {m.guid, m.oldGuid} : i \in {obj[r].guid, obj[r].oldGuid}
        BY <2>2
      <3>. HIDE DEF m, p
      <3>3. Quiet(r, m, p)
        BY <2>1, <2>3, <3>1, <3>2, QuietKept
      <3>. QED BY <1>3, <1>4, <3>3, FrameDead DEF m
    <2>. QED BY <2>4, <2>5
  <1>5. CASE phase[r] \in {"rename", "write", "delete"} /\ Continue(r, n)
    <2>1. /\ n \in NWCSession /\ n.guid = obj[r].guid /\ n.oldGuid = obj[r].oldGuid
          /\ n.draws = obj[r].draws
      BY <1>1 DEF NWCSession
    <2>. HIDE DEF n
    <2>. QED BY <1>3, <1>5, <2>1, ContinueDead
  <1>. QED BY <1>4, <1>5 DEF ConnectionFails

LEMMA CrashDead ==
    ASSUME TypeInv, Fresh, Crash
    PROVE  Fresh' /\ DeadKept
  <1> DEFINE n(r) == [NewObject EXCEPT !.draws = obj[r].draws, !.calls = obj[r].calls]
  <1>1. /\ obj' = [r \in Requests |-> IF InFlight(r) THEN n(r) ELSE obj[r]]
        /\ phase' = [r \in Requests |-> IF InFlight(r) THEN "done" ELSE phase[r]]
        /\ UNCHANGED store
    BY DEF Crash
  <1>2. \A r \in Requests : n(r).draws = obj[r].draws
    BY DEF NewObject
  <1>. HIDE DEF n
  <1>3. ASSUME NEW r \in Requests
        PROVE  /\ obj'[r].draws = obj[r].draws
               /\ phase'[r] = "done" \/ (obj'[r] = obj[r] /\ phase'[r] = phase[r])
    BY <1>1, <1>2
  <1>4. Fresh'
    BY <1>3 DEF Fresh, FreshAs
  <1>5. ASSUME NEW g \in Guid, Dead(g) PROVE Dead(g)'
    <2>1. g[1] \in Requests
      BY DEF Guid
    <2>2. Drawn(g)' /\ store'[g] = Absent
      BY <1>1, <1>3, <1>5, <2>1 DEF Dead, Drawn
    <2>3. ASSUME NEW q \in Requests PROVE ~Holds(q, g)'
      <3>1. ~Holds(q, g)
        BY <1>5 DEF Dead
      <3>. QED BY <1>3, <3>1 DEF Holds
    <2>. QED BY <2>2, <2>3 DEF Dead
  <1>. QED BY <1>4, <1>5 DEF DeadKept

LEMMA ExpireDead ==
    ASSUME TypeInv, Fresh, NEW g \in Guid, Expire(g)
    PROVE  Fresh' /\ DeadKept
  <1>1. UNCHANGED <<phase, obj>> /\ store' = [store EXCEPT ![g] = Absent]
    BY DEF Expire
  <1>2. Fresh'
    BY <1>1 DEF Fresh
  <1>3. ASSUME NEW h \in Guid, Dead(h) PROVE Dead(h)'
    BY <1>1, <1>3 DEF Dead, Drawn, Holds, TypeInv, TypeOK
  <1>. QED BY <1>2, <1>3 DEF DeadKept

-----------------------------------------------------------------------------

LEMMA InitFresh == Init => Fresh
  <1>1. NewObject.draws = 0
    BY DEF NewObject
  <1>. QED BY <1>1 DEF Init, Fresh, FreshAs

LEMMA NextDead == TypeInv /\ Fresh /\ [Next]_vars => Fresh' /\ DeadKept
  <1>. SUFFICES ASSUME TypeInv, Fresh, [Next]_vars PROVE Fresh' /\ DeadKept
    OBVIOUS
  <1>1. ASSUME NEW r \in Requests, Initialize(r) PROVE Fresh' /\ DeadKept
    BY <1>1, StartDead, GetFoundDead, GetMissingDead, SessionInsertDead, GetInsertedDead
       DEF Initialize
  <1>2. ASSUME NEW r \in Requests, Script(r) PROVE Fresh' /\ DeadKept
    BY <1>2, ScriptDead, LiquidDead, ExecuteDead DEF Script
  <1>3. ASSUME NEW r \in Requests, PersistSession(r) PROVE Fresh' /\ DeadKept
    BY <1>3, PersistDead
  <1>4. ASSUME NEW r \in Requests, ConnectionFails(r) PROVE Fresh' /\ DeadKept
    BY <1>4, ConnectionFailsDead
  <1>5. ASSUME NEW g \in Guid, Expire(g) PROVE Fresh' /\ DeadKept
    BY <1>5, ExpireDead
  <1>6. ASSUME Crash PROVE Fresh' /\ DeadKept
    BY <1>6, CrashDead
  <1>7. ASSUME UNCHANGED vars PROVE Fresh' /\ DeadKept
    BY <1>7 DEF vars, Fresh, DeadKept, Dead, Drawn, Holds
  <1>. QED BY <1>1, <1>2, <1>3, <1>4, <1>5, <1>6, <1>7 DEF Next, AllDone

\* A session that has ended and that no running request holds never comes
\* back: whatever dbInit is asked for, and however the commands of the
\* requests interleave with crashes, broken connections and expiry, an id
\* without a record is written again only by a request that has it in hand.
THEOREM DeadForEver == Spec => DeadStaysDead
  <1>1. TypeInv /\ Fresh /\ [Next]_vars => [\A g \in Guid : Dead(g) => Dead(g)']_vars
    BY NextDead DEF DeadKept
  <1>. QED BY <1>1, InitType, NextType, InitFresh, NextDead, PTL DEF Spec, DeadStaysDead
=============================================================================
