-------------------------- MODULE SessionFarm_proofs --------------------------
(***************************************************************************)
(* Proofs about SessionFarm, for every set of requests, browsers and sites.*)
(***************************************************************************)
EXTENDS SessionFarm, TLAPS

-----------------------------------------------------------------------------
(* What each step changes *)

\* A step of request r: the site, the other requests and the cookies of the
\* other browsers stay.
Alters(r) ==
    /\ site' = site /\ SiteTypeOK'
    /\ \A q \in Requests : q # r => req'[q] = req[q]
    /\ \A b \in Browsers : b # BrowserOf[r] => cookie'[b] = cookie[b]

\* The session object stays as it was.
Same(n, o) ==
    /\ n.server = o.server /\ n.ro = o.ro /\ n.id = o.id /\ n.old = o.old
    /\ n.items = o.items /\ n.loaded = o.loaded /\ n.dirty = o.dirty
    /\ n.gone = o.gone

LEMMA Types ==
    ASSUME SiteTypeOK, NEW r \in Requests
    PROVE  /\ req[r] \in Request /\ cookie[BrowserOf[r]] \in Id
           /\ BrowserOf[r] \in Browsers /\ site \in Site
           /\ <<r, 1>> \in Guid /\ <<r, 2>> \in Guid
           /\ Bare \in Record /\ Bare.bare /\ Bare.items = {}
           /\ Absent \notin Record /\ NoId \notin Guid
  BY SiteAssumption DEF SiteTypeOK, Guid, Bare, Record

LEMMA FinishedType ==
    /\ Finished \in Request /\ Finished.phase = "done" /\ ~Finished.loaded
    /\ Finished.id = NoId /\ Finished.old = NoId /\ Finished.items = {}
    /\ ~Finished.dirty /\ ~Finished.gone
  <1>1. NewRequest \in Request /\ ~NewRequest.loaded /\ ~NewRequest.dirty /\ ~NewRequest.gone
        /\ NewRequest.id = NoId /\ NewRequest.old = NoId /\ NewRequest.items = {}
    BY SiteAssumption DEF NewRequest, Request, Phases, Id
  <1>. QED BY <1>1 DEF Finished, Request, Phases

LEMMA Alter ==
    ASSUME SiteTypeOK, NEW r \in Requests, NEW n \in Request, site' = site,
           req' = [req EXCEPT ![r] = n],
           store' \in [Guid -> Record \cup {Absent}],
           \/ cookie' = cookie
           \/ \E i \in Id : cookie' = [cookie EXCEPT ![BrowserOf[r]] = i]
    PROVE  Alters(r) /\ req'[r] = n
  BY Types DEF SiteTypeOK, Alters

LEMMA ArriveDoes ==
    ASSUME SiteTypeOK, NEW r \in Requests, Arrive(r)
    PROVE  LET o == req[r]  n == req'[r]
           IN  /\ Alters(r) /\ UNCHANGED <<store, cookie>>
               /\ o.phase = "new" /\ n.phase = "exists" /\ n.id = cookie[BrowserOf[r]]
               /\ n.server \in site.servers /\ (n.ro => n.server = "managed")
               /\ n.old = o.old /\ n.items = o.items /\ n.loaded = o.loaded
               /\ n.dirty = o.dirty /\ n.gone = o.gone
               /\ \A q \in Requests : BrowserOf[q] = BrowserOf[r] => ~InFlight(q)
  <1>1. PICK server \in site.servers, ro \in BOOLEAN :
           /\ ro => server = "managed"
           /\ req' = [req EXCEPT ![r].phase = "exists", ![r].server = server, ![r].ro = ro,
                                 ![r].id = cookie[BrowserOf[r]]]
    BY DEF Arrive
  <1> DEFINE n == [req[r] EXCEPT !.phase = "exists", !.server = server, !.ro = ro,
                                 !.id = cookie[BrowserOf[r]]]
  <1>2. server \in {"managed", "core"}
    BY Types DEF Site
  <1>3. /\ n \in Request /\ n.phase = "exists" /\ n.id = cookie[BrowserOf[r]]
        /\ n.server = server /\ n.ro = ro
        /\ n.old = req[r].old /\ n.items = req[r].items /\ n.loaded = req[r].loaded
        /\ n.dirty = req[r].dirty /\ n.gone = req[r].gone
    BY <1>2, Types DEF Request, Phases
  <1>4. req' = [req EXCEPT ![r] = n]
    BY <1>1
  <1>. HIDE DEF n
  <1>5. Alters(r) /\ req'[r] = n
    BY <1>3, <1>4, Alter DEF Arrive, SiteTypeOK
  <1>. QED BY <1>1, <1>3, <1>5 DEF Arrive

\* Both servers choose an id, before they look for the session.
LEMMA ExistsDoes ==
    ASSUME SiteTypeOK, NEW r \in Requests, ManagedExists(r) \/ CoreExists(r)
    PROVE  LET o == req[r]  n == req'[r]
           IN  /\ Alters(r) /\ UNCHANGED <<store, cookie>>
               /\ o.phase = "exists"
               /\ n.server = o.server /\ n.ro = o.ro
               /\ n.old = o.old /\ n.items = o.items /\ n.loaded = o.loaded
               /\ n.dirty = o.dirty /\ n.gone = o.gone
               /\ \E id \in KnownIds(r) :
                     \/ o.server = "managed" /\ n.phase = "get" /\ n.id = id
                     \/ /\ o.server = "core" /\ n.phase = "script"
                        /\ n.id = IF id = NoId THEN <<r, 1>> ELSE id
  <1>1. KnownIds(r) \subseteq Id /\ NoId \in Id /\ <<r, 1>> \in Id
    BY Types DEF KnownIds, Request, Id
  <1>2. PICK id \in KnownIds(r), p \in {"get", "script"}, i \in Id :
           /\ req' = [req EXCEPT ![r].phase = p, ![r].id = i]
           /\ \/ req[r].server = "managed" /\ p = "get" /\ i = id
              \/ /\ req[r].server = "core" /\ p = "script"
                 /\ i = IF id = NoId THEN <<r, 1>> ELSE id
           /\ req[r].phase = "exists" /\ UNCHANGED <<site, store, cookie>>
    BY <1>1 DEF ManagedExists, CoreExists, Managed, Core
  <1> DEFINE n == [req[r] EXCEPT !.phase = p, !.id = i]
  <1>3. /\ n \in Request /\ n.phase = p /\ n.id = i
        /\ n.server = req[r].server /\ n.ro = req[r].ro
        /\ n.old = req[r].old /\ n.items = req[r].items /\ n.loaded = req[r].loaded
        /\ n.dirty = req[r].dirty /\ n.gone = req[r].gone
    BY Types DEF Request, Phases
  <1>4. req' = [req EXCEPT ![r] = n]
    BY <1>2
  <1>. HIDE DEF n
  <1>5. Alters(r) /\ req'[r] = n
    BY <1>2, <1>3, <1>4, Alter DEF SiteTypeOK
  <1>. QED BY <1>2, <1>3, <1>5

\* The steps that only go on to the next phase.
LEMMA PhaseDoes ==
    ASSUME SiteTypeOK, NEW r \in Requests, NEW p \in Phases,
           req' = [req EXCEPT ![r].phase = p], site' = site, cookie' = cookie,
           store' \in [Guid -> Record \cup {Absent}]
    PROVE  Alters(r) /\ req'[r].phase = p /\ Same(req'[r], req[r])
  <1> DEFINE n == [req[r] EXCEPT !.phase = p]
  <1>1. n \in Request /\ n.phase = p /\ Same(n, req[r])
    BY Types DEF Request, Same
  <1>2. req' = [req EXCEPT ![r] = n]
    OBVIOUS
  <1>. HIDE DEF n
  <1>. QED BY <1>1, <1>2, Alter

\* The steps that end a request.
LEMMA FinishDoes ==
    ASSUME SiteTypeOK, NEW r \in Requests,
           req' = [req EXCEPT ![r] = Finished], UNCHANGED <<site, store>>,
           \/ cookie' = cookie
           \/ \E i \in Id : cookie' = [cookie EXCEPT ![BrowserOf[r]] = i]
    PROVE  Alters(r) /\ req'[r] = Finished
  BY FinishedType, Alter DEF SiteTypeOK

LEMMA EditDoes ==
    ASSUME SiteTypeOK, NEW r \in Requests, Edit(r)
    PROVE  LET o == req[r]  n == req'[r]
           IN  /\ Alters(r) /\ UNCHANGED <<store, cookie>>
               /\ o.phase = "script" /\ o.loaded /\ ~o.gone
               /\ n.phase = "script" /\ n.loaded
               /\ n.server = o.server /\ n.ro = o.ro /\ n.id = o.id /\ n.old = o.old
               /\ n.gone => "abandon" \in site.ops /\ (o.server = "core" => n.items = {})
               /\ ~n.dirty => ~o.dirty /\ n.items = o.items
  <1> DEFINE o == req[r]
  <1>1. PICK op \in site.ops, items \in SUBSET Requests :
           /\ req' = [req EXCEPT ![r].items = items, ![r].ops = @ + 1,
                                 ![r].gone = (op = "abandon"),
                                 ![r].dirty = @ \/ items # o.items \/ op = "put"]
           /\ op = "abandon" /\ o.server = "core" => items = {}
    <2>1. CASE \E op \in site.ops \cap {"put", "clear", "abandon"} :
                  req' = [req EXCEPT
                     ![r].items = [put     |-> o.items \cup {r},
                                   clear   |-> {},
                                   abandon |-> IF o.server = "core" THEN {} ELSE o.items][op],
                     ![r].ops = @ + 1, ![r].gone = (op = "abandon"),
                     ![r].dirty =
                        @ \/ [put     |-> o.items \cup {r},
                              clear   |-> {},
                              abandon |-> IF o.server = "core" THEN {} ELSE o.items][op] # o.items
                          \/ op = "put"]
      <3>1. PICK op \in site.ops \cap {"put", "clear", "abandon"} :
                  req' = [req EXCEPT
                     ![r].items = [put     |-> o.items \cup {r},
                                   clear   |-> {},
                                   abandon |-> IF o.server = "core" THEN {} ELSE o.items][op],
                     ![r].ops = @ + 1, ![r].gone = (op = "abandon"),
                     ![r].dirty =
                        @ \/ [put     |-> o.items \cup {r},
                              clear   |-> {},
                              abandon |-> IF o.server = "core" THEN {} ELSE o.items][op] # o.items
                          \/ op = "put"]
        BY <2>1
      <3> DEFINE items == [put     |-> o.items \cup {r},
                           clear   |-> {},
                           abandon |-> IF o.server = "core" THEN {} ELSE o.items][op]
      <3>2. o.items \subseteq Requests
        BY Types DEF Request
      <3>3. items \in SUBSET Requests /\ (op = "abandon" /\ o.server = "core" => items = {})
        BY <3>2
      <3>4. req' = [req EXCEPT ![r].items = items, ![r].ops = @ + 1,
                               ![r].gone = (op = "abandon"),
                               ![r].dirty = @ \/ items # o.items \/ op = "put"]
        BY <3>1
      <3>. HIDE DEF items, o
      <3>. QED BY <3>3, <3>4
    <2>2. CASE /\ "remove" \in site.ops
               /\ \E v \in o.items :
                  req' = [req EXCEPT ![r].items = o.items \ {v}, ![r].ops = @ + 1,
                                     ![r].gone = ("remove" = "abandon"),
                                     ![r].dirty = @ \/ o.items \ {v} # o.items
                                                    \/ "remove" = "put"]
      <3>1. PICK v \in o.items :
                  req' = [req EXCEPT ![r].items = o.items \ {v}, ![r].ops = @ + 1,
                                     ![r].gone = ("remove" = "abandon"),
                                     ![r].dirty = @ \/ o.items \ {v} # o.items
                                                    \/ "remove" = "put"]
        BY <2>2
      <3> DEFINE items == o.items \ {v}
                 op == "remove"
      <3>2. items \in SUBSET Requests /\ op # "abandon"
        BY Types DEF Request
      <3>3. req' = [req EXCEPT ![r].items = items, ![r].ops = @ + 1,
                               ![r].gone = (op = "abandon"),
                               ![r].dirty = @ \/ items # o.items \/ op = "put"]
        BY <3>1
      <3>4. op \in site.ops
        BY <2>2
      <3>. HIDE DEF items, o, op
      <3>. QED BY <3>2, <3>3, <3>4
    <2>. QED BY <2>1, <2>2 DEF Edit
  <1> DEFINE n == [o EXCEPT !.items = items, !.ops = @ + 1, !.gone = (op = "abandon"),
                            !.dirty = @ \/ items # o.items \/ op = "put"]
  <1>2. o.phase = "script" /\ o.loaded /\ ~o.gone /\ o.ops < MaxOps
    BY DEF Edit
  <1>3. req' = [req EXCEPT ![r] = n]
    BY <1>1
  <1>4. /\ n \in Request /\ n.phase = "script" /\ n.loaded /\ n.items = items
        /\ n.server = o.server /\ n.ro = o.ro /\ n.id = o.id /\ n.old = o.old
        /\ n.gone = (op = "abandon")
        /\ n.dirty = (o.dirty \/ items # o.items \/ op = "put")
    <2>1. o \in Request
      BY Types
    <2>. HIDE DEF o
    <2>2. o.ops + 1 \in 0 .. MaxOps
      BY <1>2, <2>1, SiteAssumption DEF Request
    <2>. QED BY <1>2, <2>1, <2>2 DEF Request
  <1>. HIDE DEF n
  <1>5. Alters(r) /\ req'[r] = n
    BY <1>3, <1>4, Alter DEF Edit, SiteTypeOK
  <1>. QED BY <1>1, <1>2, <1>4, <1>5 DEF Edit

LEMMA FlushDoes ==
    ASSUME SiteTypeOK, NEW r \in Requests, Flush(r)
    PROVE  LET o == req[r]
           IN  /\ Alters(r) /\ store' = store
               /\ o.phase = "script" /\ req'[r].phase = "script" /\ Same(req'[r], o)
               /\ cookie' = IF o.loaded THEN [cookie EXCEPT ![BrowserOf[r]] = o.id] ELSE cookie
  <1> DEFINE n == [req[r] EXCEPT !.started = TRUE]
  <1>1. n \in Request /\ Same(n, req[r]) /\ n.phase = req[r].phase /\ req[r].id \in Id
    BY Types DEF Request, Same
  <1>2. req' = [req EXCEPT ![r] = n]
    BY DEF Flush
  <1>. HIDE DEF n
  <1>3. Alters(r) /\ req'[r] = n
    BY <1>1, <1>2, Alter DEF Flush, SiteTypeOK
  <1>. QED BY <1>1, <1>3 DEF Flush

LEMMA ManagedGetDoes ==
    ASSUME SiteTypeOK, NEW r \in Requests, ManagedGet(r)
    PROVE  LET o == req[r]  n == req'[r]
               rotate == site.liquid \/ o.id = NoId
           IN  /\ Alters(r) /\ UNCHANGED <<store, cookie>>
               /\ o.server = "managed" /\ o.phase = "get" /\ n.server = "managed"
               /\ n.phase = IF ~HasItems(o.id) /\ ~o.ro THEN "insert" ELSE "script"
               /\ n.items = IF HasItems(o.id) THEN store[o.id].items ELSE {}
               /\ n.id = IF rotate THEN <<r, 1>> ELSE o.id
               /\ n.old = IF rotate THEN o.id ELSE NoId
               /\ n.loaded /\ n.ro = o.ro /\ n.dirty = o.dirty /\ n.gone = o.gone
  <1> DEFINE o == req[r]
             rotate == site.liquid \/ o.id = NoId
             p == IF ~HasItems(o.id) /\ ~o.ro THEN "insert" ELSE "script"
             items == IF HasItems(o.id) THEN store[o.id].items ELSE {}
             i == IF rotate THEN <<r, 1>> ELSE o.id
             j == IF rotate THEN o.id ELSE NoId
             n == [o EXCEPT !.phase = p, !.items = items, !.id = i, !.old = j, !.loaded = TRUE]
  <1>1. req' = [req EXCEPT ![r] = n]
    BY DEF ManagedGet
  <1>2. o \in Request /\ p \in Phases /\ i \in Id /\ j \in Id
    BY Types DEF Request, Phases, Id
  <1>3. items \in SUBSET Requests
    BY <1>2 DEF HasItems, SiteTypeOK, Record, Request, Id
  <1>. HIDE DEF o, items, i, j, p
  <1>4. /\ n \in Request /\ n.phase = p /\ n.items = items /\ n.id = i /\ n.old = j
        /\ n.loaded /\ n.server = o.server /\ n.ro = o.ro /\ n.dirty = o.dirty
        /\ n.gone = o.gone
    BY <1>2, <1>3 DEF Request
  <1>. HIDE DEF n
  <1>5. Alters(r) /\ req'[r] = n
    BY <1>1, <1>4, Alter DEF ManagedGet, SiteTypeOK
  <1>. QED BY <1>4, <1>5 DEF ManagedGet, Managed, o, items, i, j, p

\* The ASP.NET Core session reads when the page first uses it; a bare record
\* is an exception, with which the request ends.
LEMMA CoreGetDoes ==
    ASSUME SiteTypeOK, NEW r \in Requests, CoreGet(r), req[r].id # NoId
    PROVE  LET o == req[r]  n == req'[r]
               found == store[o.id] # Absent
           IN  /\ Alters(r) /\ UNCHANGED <<store, cookie>>
               /\ o.server = "core" /\ o.phase = "get" /\ o.id \in Guid
               /\ \/ found /\ store[o.id].bare /\ n = Finished
                  \/ /\ ~(found /\ store[o.id].bare)
                     /\ n.server = "core" /\ n.phase = "script" /\ n.loaded
                     /\ n.ro = o.ro /\ n.dirty = o.dirty /\ n.gone = o.gone
                     /\ n.items = IF found THEN store[o.id].items ELSE o.items
                     /\ n.id = IF site.liquid THEN <<r, 2>> ELSE o.id
                     /\ n.old = IF ~site.liquid THEN NoId
                                ELSE IF found THEN <<r, 1>> ELSE o.id
  <1> DEFINE o == req[r]
             found == store[o.id] # Absent
             items == IF found THEN store[o.id].items ELSE o.items
             i == IF site.liquid THEN <<r, 2>> ELSE o.id
             j == IF ~site.liquid THEN NoId ELSE IF found THEN <<r, 1>> ELSE o.id
             n == [o EXCEPT !.items = items, !.old = j, !.phase = "script", !.loaded = TRUE,
                            !.id = i]
  <1>1. /\ o.server = "core" /\ o.phase = "get" /\ UNCHANGED <<site, store, cookie>>
    BY DEF CoreGet, Core
  <1>2. o \in Request /\ o.id \in Guid /\ i \in Id /\ j \in Id
    BY Types DEF Request, Id
  <1>3. items \in SUBSET Requests
    BY <1>2 DEF SiteTypeOK, Record, Request
  <1>4. CASE found /\ store[o.id].bare
    <2>1. req' = [req EXCEPT ![r] = Finished]
      BY <1>4 DEF CoreGet
    <2>. QED BY <1>1, <1>2, <1>4, <2>1, FinishDoes
  <1>5. CASE ~(found /\ store[o.id].bare)
    <2>1. req' = [req EXCEPT ![r] = n]
      <3>1. CASE found
        <4>1. n = [[o EXCEPT !.items = items, !.old = j] EXCEPT
                      !.phase = "script", !.loaded = TRUE, !.id = i]
          BY <1>2, <1>3 DEF Request
        <4>. QED BY <1>5, <3>1, <4>1 DEF CoreGet
      <3>2. CASE ~found
        <4>1. n = [[o EXCEPT !.old = j] EXCEPT !.phase = "script", !.loaded = TRUE, !.id = i]
          BY <1>2, <3>2 DEF Request
        <4>. QED BY <1>5, <3>2, <4>1 DEF CoreGet
      <3>. QED BY <3>1, <3>2
    <2>. HIDE DEF o, items, i, j, found
    <2>2. /\ n \in Request /\ n.phase = "script" /\ n.items = items /\ n.id = i /\ n.old = j
          /\ n.loaded /\ n.server = o.server /\ n.ro = o.ro /\ n.dirty = o.dirty
          /\ n.gone = o.gone
      BY <1>2, <1>3 DEF Request, Phases
    <2>. HIDE DEF n
    <2>3. Alters(r) /\ req'[r] = n
      BY <1>1, <2>1, <2>2, Alter DEF SiteTypeOK
    <2>. QED BY <1>1, <1>2, <1>5, <2>2, <2>3 DEF o, items, i, j, found
  <1>. QED BY <1>4, <1>5

-----------------------------------------------------------------------------
(* Type correctness: where ids come from *)

\* Ids that r has drawn may be in the hands of its browser.
Heard(r) == req[r].loaded \/ req[r].phase = "done"

\* The id comes from an earlier request of the same browser, or is none.
From(r, i) == i = NoId \/ (i[1] # r /\ BrowserOf[i[1]] = BrowserOf[r] /\ Heard(i[1]))

\* The ids of request r with the fields of o.
Own(r, o) ==
    /\ o.phase \in {"new", "exists", "get"} => ~o.loaded
    /\ o.server = "managed" /\ ~o.loaded => o.phase \in {"new", "exists", "get", "done"}
    /\ o.server = "core" /\ o.phase \notin {"new", "exists", "done"} => o.id # NoId
    /\ o.phase = "rename" => o.old # NoId
    /\ o.phase = "done" => o = Finished
    /\ o.loaded =>
          /\ o.id \notin {NoId, o.old}
          /\ o.id \in {<<r, 1>>, <<r, 2>>} \/ From(r, o.id)
          /\ o.old \in {<<r, 1>>, <<r, 2>>} \/ From(r, o.old)
    /\ ~o.loaded =>
          /\ o.old = NoId
          /\ \/ From(r, o.id)
             \/ o.id = <<r, 1>> /\ o.server = "core" /\ o.phase \notin {"new", "exists"}

CookiesKnown ==
    \A b \in Browsers : cookie[b] # NoId =>
       BrowserOf[cookie[b][1]] = b /\ Heard(cookie[b][1])

TypeInv == SiteTypeOK /\ CookiesKnown /\ \A r \in Requests : Own(r, req[r])

LEMMA NotDrawn ==
    ASSUME NEW r \in Requests, NEW i, From(r, i)
    PROVE  i # <<r, 1>> /\ i # <<r, 2>>
  <1>1. NoId # <<r, 1>> /\ NoId # <<r, 2>>
    BY SiteAssumption DEF Guid
  <1>2. <<r, 1>>[1] = r /\ <<r, 2>>[1] = r
    OBVIOUS
  <1>3. CASE i = <<r, 1>>
    BY <1>1, <1>2, <1>3 DEF From
  <1>4. CASE i = <<r, 2>>
    BY <1>1, <1>2, <1>4 DEF From
  <1>. QED BY <1>3, <1>4

LEMMA InitType == Init => TypeInv
  <1>. SUFFICES ASSUME Init PROVE TypeInv
    OBVIOUS
  <1>1. NewRequest \in Request /\ NewRequest.phase = "new" /\ NewRequest.server = "managed"
        /\ ~NewRequest.loaded /\ NewRequest.id = NoId /\ NewRequest.old = NoId
    BY SiteAssumption DEF NewRequest, Request, Phases, Id
  <1>2. SiteTypeOK
    BY <1>1 DEF Init, SiteTypeOK, Id
  <1>. QED BY <1>1, <1>2 DEF Init, TypeInv, CookiesKnown, Own, From

\* A request that has been heard of is heard of for ever, and so is what it rests on.
LEMMA OwnStep ==
    ASSUME TypeInv, NEW r \in Requests, Alters(r), Heard(r) => Heard(r)',
           Own(r, req'[r]),
           \/ cookie'[BrowserOf[r]] = cookie[BrowserOf[r]]
           \/ cookie'[BrowserOf[r]] = req[r].id /\ Heard(r)'
    PROVE  TypeInv'
  <1>1. \A q \in Requests : Heard(q) => Heard(q)'
    BY DEF Alters, Heard
  <1>2. \A q \in Requests, i \in Id : From(q, i) => From(q, i)'
    <2>. SUFFICES ASSUME NEW q \in Requests, NEW i \in Guid, From(q, i)
                  PROVE  From(q, i)'
      BY DEF From, Id
    <2>1. i[1] \in Requests /\ i # NoId
      BY SiteAssumption DEF Guid
    <2>. QED BY <1>1, <2>1 DEF From
  <1>3. \A q \in Requests : req'[q].id \in Id /\ req'[q].old \in Id
    BY DEF Alters, SiteTypeOK, Request
  <1>4. ASSUME NEW q \in Requests  PROVE Own(q, req[q])'
    <2>1. Own(q, req'[q])
      <3>1. CASE q = r
        BY <3>1
      <3>2. CASE q # r
        <4>1. req'[q] = req[q] /\ Own(q, req[q])
          BY <3>2 DEF Alters, TypeInv
        <4>. QED BY <4>1
      <3>. QED BY <3>1, <3>2
    <2>. QED BY <1>2, <1>3, <2>1 DEF Own
  <1>5. CookiesKnown'
    <2>. SUFFICES ASSUME NEW b \in Browsers, cookie'[b] # NoId
                  PROVE  (BrowserOf[cookie[b][1]] = b /\ Heard(cookie[b][1]))'
      BY DEF CookiesKnown
    <2>1. CASE cookie'[b] = cookie[b]
      <3>1. cookie[b] \in Guid /\ cookie[b][1] \in Requests
        BY <2>1 DEF TypeInv, SiteTypeOK, Id, Guid
      <3>2. BrowserOf[cookie[b][1]] = b /\ Heard(cookie[b][1])
        BY <2>1, <3>1 DEF TypeInv, CookiesKnown
      <3>. QED BY <1>1, <2>1, <3>1, <3>2 DEF Heard
    <2>2. CASE cookie'[b] # cookie[b]
      <3>1. b = BrowserOf[r] /\ cookie'[b] = req[r].id /\ Heard(r)' /\ req[r].id \in Guid
        BY <2>2 DEF Alters, TypeInv, SiteTypeOK, Request, Id
      <3>2. /\ Own(r, req[r])
            /\ req[r].id \in {<<r, 1>>, <<r, 2>>} \/ From(r, req[r].id)
        BY DEF TypeInv, Own
      <3>3. req[r].id[1] \in Requests /\ req[r].id # NoId
        BY <3>1, SiteAssumption DEF Guid
      <3>. QED BY <1>1, <3>1, <3>2, <3>3 DEF From, Heard
    <2>. QED BY <2>1, <2>2
  <1>. QED BY <1>4, <1>5 DEF TypeInv, Alters

\* What is known of the request that takes a step.
LEMMA Fields ==
    ASSUME TypeInv, NEW r \in Requests
    PROVE  LET o == req[r]
           IN  /\ SiteTypeOK /\ o \in Request /\ Own(r, o)
               /\ o.id \in Id /\ o.old \in Id /\ o.items \subseteq Requests
               /\ o.phase \in Phases /\ o.server \in {"managed", "core"}
               /\ o.loaded => o.id \in Guid
               /\ o.server = "managed" /\ o.phase \notin {"new", "exists", "get", "done"}
                     => o.loaded
               /\ o.server = "core" /\ o.phase \notin {"new", "exists", "done"} => o.id \in Guid
               /\ o.phase = "rename" => o.old \in Guid /\ o.loaded /\ o.id # o.old
  <1> DEFINE o == req[r]
  <1>1. /\ SiteTypeOK /\ o \in Request /\ o.id \in Id /\ o.old \in Id
        /\ o.items \subseteq Requests /\ Own(r, o)
        /\ o.phase \in Phases /\ o.server \in {"managed", "core"}
    BY DEF TypeInv, SiteTypeOK, Request
  <1>2. o.phase = "rename" => o.loaded
    BY <1>1 DEF Own
  <1>. QED BY <1>1, <1>2 DEF Own, Id

LEMMA Records ==
    ASSUME NEW st \in [Guid -> Record \cup {Absent}], NEW g \in Guid
    PROVE  /\ [st EXCEPT ![g] = Absent] \in [Guid -> Record \cup {Absent}]
           /\ [st EXCEPT ![g] = Bare] \in [Guid -> Record \cup {Absent}]
           /\ \A items \in SUBSET Requests :
                 [st EXCEPT ![g] = Full(items)] \in [Guid -> Record \cup {Absent}]
           /\ \A h \in Guid :
                 [st EXCEPT ![g] = st[h], ![h] = Absent] \in [Guid -> Record \cup {Absent}]
  <1>1. Bare \in Record /\ \A items \in SUBSET Requests : Full(items) \in Record
    BY DEF Bare, Full, Record
  <1>. QED BY <1>1

\* The request goes on to phase p with its session as it was.
Goes(r, p) ==
    Alters(r) /\ cookie' = cookie /\ req'[r].phase = p /\ Same(req'[r], req[r])

LEMMA GoesOn ==
    ASSUME TypeInv, NEW r \in Requests,
           NEW p \in {"get", "script", "remove", "rename", "save", "respond"},
           req' = [req EXCEPT ![r].phase = p], UNCHANGED <<site, cookie>>,
           store' \in [Guid -> Record \cup {Absent}]
    PROVE  Goes(r, p)
  <1>1. p \in Phases /\ SiteTypeOK
    BY DEF Phases, TypeInv
  <1>. QED BY <1>1, PhaseDoes DEF Goes

LEMMA ManagedInsertDoes ==
    ASSUME TypeInv, NEW r \in Requests, ManagedInsert(r)
    PROVE  LET o == req[r]
           IN  /\ Goes(r, "script") /\ o.server = "managed" /\ o.phase = "insert"
               /\ o.loaded /\ o.id \in Guid
               /\ store' = [store EXCEPT ![o.id] = Bare]
  <1>1. /\ req[r].server = "managed" /\ req[r].phase = "insert"
        /\ req[r].loaded /\ req[r].id \in Guid
    BY Fields DEF ManagedInsert, Managed
  <1>2. store' \in [Guid -> Record \cup {Absent}]
    BY <1>1, Fields, Records DEF ManagedInsert, SiteTypeOK
  <1>. QED BY <1>1, <1>2, GoesOn DEF ManagedInsert

LEMMA ManagedReleaseDoes ==
    ASSUME TypeInv, NEW r \in Requests, ManagedRelease(r)
    PROVE  LET o == req[r]
           IN  /\ Goes(r, IF o.gone THEN "remove" ELSE IF o.old # NoId THEN "rename" ELSE "save")
               /\ o.server = "managed" /\ o.phase = "script" /\ o.loaded /\ store' = store
  <1>1. req[r].server = "managed" /\ req[r].phase = "script" /\ req[r].loaded
    BY Fields DEF ManagedRelease, Managed
  <1>2. store' \in [Guid -> Record \cup {Absent}]
    BY Fields DEF ManagedRelease, SiteTypeOK
  <1>. QED BY <1>1, <1>2, GoesOn DEF ManagedRelease

LEMMA ManagedRemoveDoes ==
    ASSUME TypeInv, NEW r \in Requests, ManagedRemove(r)
    PROVE  LET o == req[r]
           IN  /\ Goes(r, "respond") /\ o.server = "managed" /\ o.phase = "remove"
               /\ o.loaded /\ o.id \in Guid
               /\ store' = [store EXCEPT ![o.id] = Absent]
  <1>1. /\ req[r].server = "managed" /\ req[r].phase = "remove"
        /\ req[r].loaded /\ req[r].id \in Guid
    BY Fields DEF ManagedRemove, Managed
  <1>2. store' \in [Guid -> Record \cup {Absent}]
    BY <1>1, Fields, Records DEF ManagedRemove, SiteTypeOK
  <1>. QED BY <1>1, <1>2, GoesOn DEF ManagedRemove

LEMMA ManagedSaveDoes ==
    ASSUME TypeInv, NEW r \in Requests, ManagedSave(r)
    PROVE  LET o == req[r]
           IN  /\ Goes(r, "respond") /\ o.server = "managed" /\ o.phase = "save"
               /\ o.loaded /\ o.id \in Guid
               /\ store' = IF o.ro THEN store ELSE [store EXCEPT ![o.id] = Full(o.items)]
  <1>1. /\ req[r].server = "managed" /\ req[r].phase = "save"
        /\ req[r].loaded /\ req[r].id \in Guid
    BY Fields DEF ManagedSave, Managed
  <1>2. store' \in [Guid -> Record \cup {Absent}]
    BY <1>1, Fields, Records DEF ManagedSave, SiteTypeOK
  <1>. QED BY <1>1, <1>2, GoesOn DEF ManagedSave

LEMMA CoreCommitDoes ==
    ASSUME TypeInv, NEW r \in Requests, CoreCommit(r)
    PROVE  LET o == req[r]
           IN  /\ Goes(r, IF o.old # NoId THEN "rename" ELSE "save")
               /\ o.server = "core" /\ o.phase = "script" /\ store' = store
  <1>1. store' \in [Guid -> Record \cup {Absent}]
    BY Fields DEF CoreCommit, SiteTypeOK
  <1>. QED BY <1>1, GoesOn DEF CoreCommit, Core

LEMMA CoreSaveDoes ==
    ASSUME TypeInv, NEW r \in Requests, CoreSave(r)
    PROVE  LET o == req[r]
           IN  /\ Goes(r, "respond") /\ o.server = "core" /\ o.phase = "save" /\ o.id \in Guid
               /\ store' = IF o.dirty THEN [store EXCEPT ![o.id] = Full(o.items)] ELSE store
  <1>1. req[r].server = "core" /\ req[r].phase = "save" /\ req[r].id \in Guid
    BY Fields DEF CoreSave, Core
  <1>2. store' \in [Guid -> Record \cup {Absent}]
    BY <1>1, Fields, Records DEF CoreSave, SiteTypeOK
  <1>. QED BY <1>1, <1>2, GoesOn DEF CoreSave

LEMMA RenameDoes ==
    ASSUME TypeInv, NEW r \in Requests, Rename(r)
    PROVE  LET o == req[r]
           IN  /\ Goes(r, "save") /\ o.phase = "rename"
               /\ o.old \in Guid /\ o.id \in Guid /\ o.id # o.old /\ o.loaded
               /\ store' = IF store[o.old] = Absent THEN store
                           ELSE [store EXCEPT ![o.id] = store[o.old], ![o.old] = Absent]
  <1>1. /\ req[r].phase = "rename" /\ req[r].old \in Guid /\ req[r].id \in Guid
        /\ req[r].id # req[r].old /\ req[r].loaded
    BY Fields DEF Rename
  <1>2. store' \in [Guid -> Record \cup {Absent}]
    BY <1>1, Fields, Records DEF Rename, SiteTypeOK
  <1>. QED BY <1>1, <1>2, GoesOn DEF Rename

LEMMA LostDoes ==
    ASSUME TypeInv, NEW r \in Requests, Lost(r)
    PROVE  /\ Goes(r, "respond") /\ "crash" \in site.faults
           /\ req[r].phase \in {"remove", "save"} /\ store' = store
  <1>1. store' \in [Guid -> Record \cup {Absent}]
    BY Fields DEF Lost, SiteTypeOK
  <1>. QED BY <1>1, GoesOn DEF Lost

LEMMA CoreUseDoes ==
    ASSUME TypeInv, NEW r \in Requests, CoreUse(r), ~req[r].started
    PROVE  /\ Goes(r, "get") /\ req[r].server = "core" /\ req[r].phase = "script"
           /\ ~req[r].loaded /\ store' = store
  <1>1. store' \in [Guid -> Record \cup {Absent}]
    BY Fields DEF CoreUse, SiteTypeOK
  <1>2. req' = [req EXCEPT ![r].phase = "get"]
    BY DEF CoreUse
  <1>. QED BY <1>1, <1>2, GoesOn DEF CoreUse, Core

\* The steps with which a request ends: a response, or an exception.
LEMMA FinishSteps ==
    ASSUME TypeInv, NEW r \in Requests,
           \/ ManagedRespond(r) \/ CoreRespond(r) \/ CoreThrows(r)
           \/ CoreUse(r) /\ req[r].started
    PROVE  LET o == req[r]
           IN  /\ Alters(r) /\ store' = store /\ req'[r] = Finished /\ InFlight(r)
               /\ cookie'[BrowserOf[r]] \in {cookie[BrowserOf[r]], o.id}
               /\ cookie'[BrowserOf[r]] # cookie[BrowserOf[r]] => o.loaded
               /\ ManagedRespond(r) =>
                     /\ o.server = "managed" /\ o.phase = "respond" /\ o.loaded
                     /\ cookie'[BrowserOf[r]] = IF o.gone THEN cookie[BrowserOf[r]] ELSE o.id
               /\ CoreRespond(r) =>
                     /\ o.server = "core" /\ o.phase = "respond"
                     /\ cookie'[BrowserOf[r]] = IF o.loaded THEN o.id ELSE cookie[BrowserOf[r]]
               /\ CoreThrows(r) =>
                     "crash" \in site.faults /\ o.server = "core" /\ o.phase = "script"
               /\ CoreUse(r) =>
                     /\ o.server = "core" /\ o.phase = "script" /\ ~o.loaded
                     /\ cookie' = cookie
  <1> DEFINE o == req[r]
             b == BrowserOf[r]
  <1>1. o.id \in Id /\ b \in Browsers /\ cookie \in [Browsers -> Id] /\ SiteTypeOK
    BY Fields, Types DEF SiteTypeOK
  <1>2. /\ req' = [req EXCEPT ![r] = Finished] /\ UNCHANGED <<site, store>>
        /\ cookie' = cookie \/ (o.loaded /\ cookie' = [cookie EXCEPT ![b] = o.id])
    <2>1. ManagedRespond(r) => o.loaded
      BY Fields DEF ManagedRespond, Managed
    <2>. QED BY <2>1 DEF ManagedRespond, CoreRespond, CoreThrows, CoreUse
  <1>3. Alters(r) /\ req'[r] = Finished
    BY <1>1, <1>2, FinishDoes
  <1>4. InFlight(r)
    BY DEF ManagedRespond, Managed, CoreRespond, CoreThrows, CoreUse, Core, InFlight
  <1>5. ManagedRespond(r) =>
           /\ o.server = "managed" /\ o.phase = "respond" /\ o.loaded
           /\ cookie'[b] = IF o.gone THEN cookie[b] ELSE o.id
    BY <1>1, Fields DEF ManagedRespond, Managed
  <1>6. CoreRespond(r) =>
           /\ o.server = "core" /\ o.phase = "respond"
           /\ cookie'[b] = IF o.loaded THEN o.id ELSE cookie[b]
    BY <1>1 DEF CoreRespond, Core
  <1>7. CoreThrows(r) => "crash" \in site.faults /\ o.server = "core" /\ o.phase = "script"
    BY DEF CoreThrows, Core
  <1>8. CoreUse(r) => /\ o.server = "core" /\ o.phase = "script" /\ ~o.loaded
                      /\ cookie' = cookie
    BY DEF CoreUse, Core
  <1>. QED BY <1>1, <1>2, <1>3, <1>4, <1>5, <1>6, <1>7, <1>8

LEMMA StepType ==
    ASSUME TypeInv, NEW r \in Requests, SiteNext(r) \/ ManagedNext(r) \/ CoreNext(r)
    PROVE  TypeInv'
  <1> DEFINE o == req[r]
             n == req'[r]
             b == BrowserOf[r]
  <1>1. /\ SiteTypeOK /\ o \in Request /\ Own(r, o) /\ b \in Browsers /\ cookie[b] \in Id
    <2>1. SiteTypeOK
      BY DEF TypeInv
    <2>. QED BY <2>1, Fields, Types
  <1>a. <<r, 1>> # <<r, 2>> /\ NoId # <<r, 1>> /\ NoId # <<r, 2>>
    BY SiteAssumption DEF Guid
  <1>2. ASSUME NEW p \in {"script", "remove", "rename", "save", "respond"}, Goes(r, p),
               o.phase \notin {"new", "exists", "get", "done"}, p = "rename" => o.old # NoId
        PROVE  TypeInv'
    <2>1. Own(r, n)
      BY <1>1, <1>2 DEF Own, Goes, Same
    <2>. QED BY <1>2, <2>1, OwnStep DEF Goes, Same, Heard
  <1>3. CASE Arrive(r)
    <2>1. /\ o.phase = "new" /\ n.phase = "exists" /\ n.id = cookie[b] /\ n.old = o.old
          /\ n.loaded = o.loaded /\ cookie' = cookie /\ Alters(r)
      BY <1>1, <1>3, ArriveDoes
    <2>2. ~Heard(r) /\ ~o.loaded
      BY <1>1, <2>1 DEF Own, Heard
    <2>3. From(r, cookie[b])
      BY <1>1, <2>2 DEF From, TypeInv, CookiesKnown
    <2>4. Own(r, n)
      BY <1>1, <2>1, <2>2, <2>3 DEF Own
    <2>. QED BY <2>1, <2>2, <2>4, OwnStep
  <1>4. CASE ManagedExists(r) \/ CoreExists(r)
    <2>1. /\ Alters(r) /\ cookie' = cookie /\ o.phase = "exists"
          /\ n.server = o.server /\ n.old = o.old /\ n.loaded = o.loaded
          /\ \E id \in KnownIds(r) :
                \/ o.server = "managed" /\ n.phase = "get" /\ n.id = id
                \/ /\ o.server = "core" /\ n.phase = "script"
                   /\ n.id = IF id = NoId THEN <<r, 1>> ELSE id
      BY <1>1, <1>4, ExistsDoes
    <2>2. KnownIds(r) \subseteq {NoId, o.id}
      BY DEF KnownIds
    <2>3. ~o.loaded /\ ~Heard(r) /\ From(r, o.id) /\ From(r, NoId)
      BY <1>1, <2>1 DEF Own, Heard, From
    <2>4. /\ From(r, n.id) \/ (n.id = <<r, 1>> /\ n.server = "core" /\ n.phase = "script")
          /\ n.server = "core" => n.id # NoId
      <3>. HIDE DEF n, o
      <3>. QED BY <1>a, <2>1, <2>2, <2>3
    <2>5. Own(r, n)
      BY <1>1, <2>1, <2>3, <2>4 DEF Own
    <2>. QED BY <2>1, <2>3, <2>5, OwnStep
  <1>5. CASE ManagedGet(r)
    <2>1. /\ Alters(r) /\ cookie' = cookie /\ o.server = "managed" /\ o.phase = "get"
          /\ n.server = "managed" /\ n.phase \in {"insert", "script"} /\ n.loaded
          /\ \/ n.id = <<r, 1>> /\ n.old = o.id
             \/ n.id = o.id /\ o.id # NoId /\ n.old = NoId
      BY <1>1, <1>5, ManagedGetDoes
    <2>2. From(r, o.id) /\ From(r, NoId) /\ o.id # <<r, 1>>
      <3>1. From(r, o.id)
        BY <1>1, <2>1 DEF Own
      <3>. QED BY <3>1, NotDrawn DEF From
    <2>3. /\ n.id \notin {NoId, n.old}
          /\ n.id = <<r, 1>> \/ From(r, n.id)
          /\ From(r, n.old)
      <3>. HIDE DEF n, o
      <3>1. CASE n.id = <<r, 1>> /\ n.old = o.id
        BY <1>a, <2>2, <3>1, Zenon
      <3>2. CASE n.id = o.id /\ o.id # NoId /\ n.old = NoId
        BY <2>2, <3>2, Zenon
      <3>. QED BY <2>1, <3>1, <3>2
    <2>4. Own(r, n)
      BY <2>1, <2>3 DEF Own
    <2>. QED BY <2>1, <2>4, OwnStep DEF Heard
  <1>6. CASE CoreGet(r)
    <2>1. o.id # NoId /\ ~o.loaded
      BY <1>1, <1>6 DEF Own, CoreGet, Core
    <2>2. /\ Alters(r) /\ cookie' = cookie /\ o.server = "core" /\ o.phase = "get"
          /\ \/ n = Finished
             \/ /\ n.server = "core" /\ n.phase = "script" /\ n.loaded
                /\ \/ n.id = <<r, 2>> /\ n.old \in {<<r, 1>>, o.id}
                   \/ n.id = o.id /\ n.old = NoId
      BY <1>1, <1>6, <2>1, CoreGetDoes
    <2>3. /\ From(r, o.id) \/ o.id = <<r, 1>>
          /\ From(r, NoId) /\ o.id # <<r, 2>>
      <3>1. From(r, o.id) \/ o.id = <<r, 1>>
        BY <1>1, <2>1 DEF Own
      <3>2. <<r, 1>> # <<r, 2>>
        OBVIOUS
      <3>. QED BY <3>1, <3>2, NotDrawn DEF From
    <2>4. n # Finished =>
             /\ n.id \notin {NoId, n.old}
             /\ n.id \in {<<r, 1>>, <<r, 2>>} \/ From(r, n.id)
             /\ n.old = <<r, 1>> \/ From(r, n.old)
      <3>. HIDE DEF n, o
      <3>1. CASE n.id = <<r, 2>> /\ n.old = <<r, 1>>
        BY <1>a, <3>1, Zenon
      <3>2. CASE n.id = <<r, 2>> /\ n.old = o.id
        BY <1>a, <2>3, <3>2, Zenon
      <3>3. CASE n.id = o.id /\ n.old = NoId
        BY <2>1, <2>3, <3>3, Zenon
      <3>. QED BY <2>2, <3>1, <3>2, <3>3
    <2>5. n = Finished => Own(r, n)
      BY FinishedType DEF Own, From
    <2>6. n # Finished => Own(r, n)
      BY <2>2, <2>4 DEF Own
    <2>. QED BY <2>2, <2>5, <2>6, OwnStep, FinishedType DEF Heard
  <1>7. CASE Edit(r)
    <2>1. /\ Alters(r) /\ cookie' = cookie /\ o.phase = "script" /\ n.phase = "script"
          /\ o.loaded /\ n.loaded /\ n.server = o.server /\ n.id = o.id /\ n.old = o.old
      BY <1>1, <1>7, EditDoes
    <2>2. Own(r, n)
      BY <1>1, <2>1 DEF Own
    <2>. QED BY <2>1, <2>2, OwnStep DEF Heard
  <1>8. CASE Flush(r)
    <2>1. /\ Alters(r) /\ o.phase = "script" /\ n.phase = "script" /\ Same(n, o)
          /\ cookie' = IF o.loaded THEN [cookie EXCEPT ![b] = o.id] ELSE cookie
      BY <1>1, <1>8, FlushDoes
    <2>2. Own(r, n)
      BY <1>1, <2>1 DEF Own, Same
    <2>3. cookie'[b] = IF o.loaded THEN o.id ELSE cookie[b]
      BY <1>1, <2>1 DEF SiteTypeOK
    <2>. QED BY <2>1, <2>2, <2>3, OwnStep DEF Heard, Same
  <1>9. CASE ManagedInsert(r) \/ ManagedRelease(r) \/ ManagedRemove(r) \/ ManagedSave(r)
    BY <1>2, <1>9, ManagedInsertDoes, ManagedReleaseDoes, ManagedRemoveDoes, ManagedSaveDoes
  <1>10. CASE CoreCommit(r) \/ CoreSave(r) \/ Rename(r) \/ Lost(r)
    BY <1>2, <1>10, CoreCommitDoes, CoreSaveDoes, RenameDoes, LostDoes
  <1>11. CASE CoreUse(r) /\ ~o.started
    <2>1. Goes(r, "get") /\ o.server = "core" /\ o.phase = "script" /\ ~o.loaded
      BY <1>11, CoreUseDoes
    <2>2. Own(r, n)
      BY <1>1, <2>1 DEF Own, Goes, Same
    <2>. QED BY <2>1, <2>2, OwnStep DEF Goes, Same, Heard
  <1>12. CASE \/ ManagedRespond(r) \/ CoreRespond(r) \/ CoreThrows(r)
              \/ CoreUse(r) /\ o.started
    <2>1. /\ Alters(r) /\ n = Finished /\ cookie'[b] \in {cookie[b], o.id}
      BY <1>12, FinishSteps
    <2>2. Own(r, n)
      BY <2>1, FinishedType DEF Own, From
    <2>. QED BY <2>1, <2>2, OwnStep, FinishedType DEF Heard
  <1>. QED
    BY <1>3, <1>4, <1>5, <1>6, <1>7, <1>8, <1>9, <1>10, <1>11, <1>12
    DEF SiteNext, ManagedNext, CoreNext

LEMMA CrashDoes ==
    ASSUME SiteTypeOK, NEW server, Crash(server)
    PROVE  /\ UNCHANGED <<site, store, cookie>> /\ "crash" \in site.faults /\ SiteTypeOK'
           /\ \A r \in Requests :
                 \/ req'[r] = req[r]
                 \/ req'[r] = Finished /\ InFlight(r)
  BY FinishedType DEF Crash, SiteTypeOK

LEMMA CrashType == ASSUME TypeInv, NEW server, Crash(server) PROVE TypeInv'
  <1>1. /\ UNCHANGED <<site, store, cookie>> /\ SiteTypeOK'
        /\ \A r \in Requests : req'[r] = req[r] \/ req'[r] = Finished
    BY CrashDoes DEF TypeInv
  <1>2. \A q \in Requests : Heard(q) => Heard(q)'
    BY <1>1, FinishedType DEF Heard
  <1>3. CookiesKnown'
    <2>. SUFFICES ASSUME NEW b \in Browsers, cookie[b] # NoId
                  PROVE  (BrowserOf[cookie[b][1]] = b /\ Heard(cookie[b][1]))'
      BY <1>1 DEF CookiesKnown
    <2>1. cookie[b][1] \in Requests
      BY DEF TypeInv, SiteTypeOK, Id, Guid
    <2>. QED BY <1>1, <1>2, <2>1 DEF TypeInv, CookiesKnown, Heard
  <1>4. ASSUME NEW q \in Requests  PROVE Own(q, req[q])'
    <2>1. CASE req'[q] = Finished
      BY <2>1, FinishedType DEF Own, From
    <2>2. CASE req'[q] = req[q]
      <3>1. Own(q, req[q]) /\ req[q].id \in Id /\ req[q].old \in Id
        BY Fields
      <3>2. \A i \in Id : From(q, i) => From(q, i)'
        <4>. SUFFICES ASSUME NEW i \in Guid, From(q, i)  PROVE From(q, i)'
          BY DEF From, Id
        <4>1. i[1] \in Requests /\ i # NoId
          BY SiteAssumption DEF Guid
        <4>. QED BY <1>2, <4>1 DEF From
      <3>. QED BY <2>2, <3>1, <3>2 DEF Own
    <2>. QED BY <1>1, <2>1, <2>2
  <1>. QED BY <1>1, <1>3, <1>4 DEF TypeInv

LEMMA NextType == TypeInv /\ [Next]_vars => TypeInv'
  <1>. SUFFICES ASSUME TypeInv, [Next]_vars  PROVE TypeInv'
    OBVIOUS
  <1>1. CASE \E r \in Requests : SiteNext(r) \/ ManagedNext(r) \/ CoreNext(r)
    BY <1>1, StepType
  <1>2. CASE \E server \in site.servers : Crash(server)
    BY <1>2, CrashType
  <1>3. ASSUME UNCHANGED <<req, cookie>>, SiteTypeOK'  PROVE TypeInv'
    <2>1. CookiesKnown'
      BY <1>3 DEF TypeInv, CookiesKnown, Heard
    <2>2. ASSUME NEW r \in Requests  PROVE Own(r, req[r])'
      <3>1. Own(r, req[r])
        BY DEF TypeInv
      <3>. QED BY <1>3, <3>1 DEF Own, From, Heard
    <2>. QED BY <1>3, <2>1, <2>2 DEF TypeInv
  <1>4. CASE \E g \in Guid : Expire(g)
    <2>1. UNCHANGED <<req, cookie>> /\ SiteTypeOK'
      BY <1>4 DEF Expire, TypeInv, SiteTypeOK
    <2>. QED BY <1>3, <2>1
  <1>5. CASE UNCHANGED vars
    <2>1. UNCHANGED <<req, cookie>> /\ SiteTypeOK'
      BY <1>5 DEF vars, TypeInv, SiteTypeOK
    <2>. QED BY <1>3, <2>1
  <1>. QED BY <1>1, <1>2, <1>4, <1>5 DEF Next, Done

LEMMA TypeInvariant == Spec => []TypeInv
  BY InitType, NextType, PTL DEF Spec

\* Requests and their session objects keep their types on every site, whatever
\* fails; a session that OnAcquireRequestState or CheckLoad has loaded has an
\* id, and SessionSave never renames a record to the name that it has.
THEOREM TypeCorrect == Spec => []TypeOK
  <1>1. TypeInv => TypeOK
    BY DEF TypeInv, Own, TypeOK
  <1>. QED BY <1>1, TypeInvariant, PTL

-----------------------------------------------------------------------------
(* The sites that keep the contract, and the invariant that shows it *)

\* Ids rotate in the managed module only, on sites whose pages do not call
\* Abandon and whose processes do not die; a time-out that is not noticed makes
\* no difference, as an id without a record is used all the same.
KeepingSite(s) ==
    /\ s.liquid => /\ s.servers \subseteq {"managed"}
                   /\ "abandon" \notin s.ops /\ "crash" \notin s.faults
    /\ "timeout" \in s.faults => s.reentrance

Keeps == \A s \in Sites : KeepingSite(s)

Crashes(s) == "crash" \in s.faults

\* There is no record under i, and what a record is.
None(st, i) == i = NoId \/ st[i] = Absent
ItemsIn(st, i) == IF None(st, i) THEN {} ELSE st[i].items

\* The browser b has no records but those under the ids of the set.
Only(st, b, ids) ==
    \A g \in Guid : BrowserOf[g[1]] = b /\ st[g] # Absent => g \in ids

\* Place and Running, of a browser with cookie c and a request with the fields of o.
PlaceOf(o, c) ==
    IF o.old = NoId THEN c ELSE IF o.phase \in {"save", "respond"} THEN o.id ELSE o.old

RunningAs(o, c) ==
    /\ o.loaded
    /\ \/ o.phase \in {"insert", "script", "remove", "rename", "save"}
       \/ o.phase = "respond" /\ o.id # PlaceOf(o, c)

\* Before its session is loaded a request has the id of the cookie, or one
\* without a record that stands for it.
FitsUnread(r, o, c, st) ==
    /\ ~o.dirty /\ ~o.gone /\ o.items = {}
    /\ o.phase = "exists" => o.id = c
    /\ \/ o.id = c
       \/ /\ None(st, c)
          /\ IF o.server = "managed" THEN o.id = NoId
             ELSE o.id = <<r, 1>> /\ st[o.id] = Absent

\* From then on the place of the session is the record of the cookie, until
\* the record of the new id is there: that one is empty before the page ends,
\* and what the page has left afterwards.
FitsRead(s, o, c, st) ==
    LET place == PlaceOf(o, c)
    IN  /\ IF o.old = NoId THEN o.id = c \/ None(st, c) ELSE c \in {o.id, o.old}
        /\ o.phase # "respond" /\ o.id # place => ItemsIn(st, o.id) = {}
        /\ o.phase = "insert" => o.items = {} /\ ~o.ro /\ ~o.gone /\ ItemsIn(st, place) = {}
        /\ o.phase = "remove" => o.gone
        /\ o.server = "managed" /\ o.phase = "save" => ~o.gone
        /\ o.server = "core" =>
              /\ o.gone => o.items = {}
              /\ o.phase \in {"script", "save"} /\ ~o.dirty => o.items = ItemsIn(st, place)
        /\ o.phase = "respond" /\ o.id # place =>
              \/ o.server = "managed" /\ o.gone
              \/ ItemsIn(st, o.id) = IF o.gone \/ o.ro THEN {} ELSE o.items
              \/ Crashes(s) /\ ItemsIn(st, o.id) = {}
        /\ o.phase \in {"save", "respond"} => None(st, o.old)
        /\ o.server = "managed" /\ o.gone /\ o.phase = "respond" => Crashes(s) \/ None(st, o.id)

Fits(s, r, o, c, st) ==
    /\ o.server = "core" => ~o.ro /\ ~s.liquid /\ o.phase \notin {"insert", "remove"}
    /\ ~s.liquid => o.old = NoId
    /\ o.gone => ~s.liquid
    /\ IF o.loaded THEN FitsRead(s, o, c, st) ELSE FitsUnread(r, o, c, st)
    /\ Crashes(s) \/ Only(st, BrowserOf[r], {c, o.id, o.old})

Alone ==
    \A q, r \in Requests : InFlight(q) /\ InFlight(r) /\ BrowserOf[q] = BrowserOf[r] => q = r

Between ==
    \A b \in Browsers : Serving(b) = {} => Crashes(site) \/ Only(store, b, {cookie[b]})

During ==
    \A r \in Requests : InFlight(r) => Fits(site, r, req[r], cookie[BrowserOf[r]], store)

\* Records are under ids that were sent out, and a bare one is empty.
RecordsKnown ==
    \A g \in Guid : store[g] # Absent =>
       Heard(g[1]) /\ (store[g].bare => store[g].items = {})

\* A request that waits has an empty session object.
Waiting ==
    \A r \in Requests : req[r].phase = "new" =>
       ~req[r].dirty /\ ~req[r].gone /\ req[r].items = {}

Inv == TypeInv /\ Alone /\ Between /\ During /\ RecordsKnown /\ Waiting

-----------------------------------------------------------------------------
(* The contract, browser by browser *)

ContentAs(o, c, st) == ItemsIn(st, PlaceOf(o, c))

PageAs(o, c) ==
    IF RunningAs(o, c)
    THEN [running |-> TRUE, view |-> o.items,
          ro |-> o.ro /\ o.phase \notin {"insert", "script"}, gone |-> o.gone]
    ELSE NoPage

Cookie(r) == cookie[BrowserOf[r]]

\* The browser has no request in flight, except possibly r.
OnlyRequest(r) == Serving(BrowserOf[r]) \subseteq {r}

SeenAs ==
    \A r \in Requests : OnlyRequest(r) =>
       /\ Contents(BrowserOf[r]) = ContentAs(req[r], Cookie(r), store)
       /\ PageOf(BrowserOf[r]) = PageAs(req[r], Cookie(r))

LEMMA Seen == TypeInv => SeenAs
  <1>. SUFFICES ASSUME TypeInv, NEW r \in Requests, OnlyRequest(r)
                PROVE  /\ Contents(BrowserOf[r]) = ContentAs(req[r], Cookie(r), store)
                       /\ PageOf(BrowserOf[r]) = PageAs(req[r], Cookie(r))
    BY DEF SeenAs
  <1> DEFINE b == BrowserOf[r]
             o == req[r]
  <1>1. \A i : Stored(i) = ItemsIn(store, i)
    BY DEF Stored, ItemsIn, None
  <1>2. CASE ~InFlight(r)
    <2>1. Serving(b) = {}
      BY <1>2 DEF OnlyRequest, Serving
    <2>2. ~o.loaded /\ o.old = NoId
      BY <1>2, Fields, FinishedType DEF InFlight, Own
    <2>3. Place(b) = Cookie(r) /\ PageOf(b) = NoPage
      BY <2>1 DEF Place, PageOf, Cookie
    <2>. QED BY <1>1, <2>2, <2>3 DEF Contents, ContentAs, PlaceOf, PageAs, RunningAs
  <1>3. CASE InFlight(r)
    <2>1. Serving(b) = {r} /\ (CHOOSE q \in {r} : TRUE) = r
      BY <1>3 DEF OnlyRequest, Serving
    <2>2. Place(b) = PlaceOf(o, Cookie(r))
      BY <2>1 DEF Place, PlaceOf, Cookie
    <2>3. Running(r) <=> RunningAs(o, Cookie(r))
      BY <2>2 DEF Running, RunningAs
    <2>4. (\E q \in Serving(b) : Running(q)) <=> Running(r)
      BY <2>1
    <2>5. PageOf(b) = PageAs(o, Cookie(r))
      BY <2>1, <2>3, <2>4 DEF PageOf, PageAs
    <2>. QED BY <1>1, <2>2, <2>5 DEF Contents, ContentAs
  <1>. QED BY <1>2, <1>3

\* The same after a step.
LEMMA SeenNext == TypeInv' => SeenAs'
  BY Seen, PTL

\* How the contents and the page of one browser may change, by the contract.
Turn(content, page, content2, page2) ==
    \/ content2 = content /\ page2 = page
    \/ /\ page = NoPage /\ content2 = content
       /\ page2 = [running |-> TRUE, view |-> content, ro |-> FALSE, gone |-> FALSE]
    \/ /\ page.running /\ content2 = content
       /\ \E view \in SUBSET Requests, ro \in BOOLEAN, gone \in BOOLEAN :
             /\ page.gone => gone
             /\ page2 = [running |-> TRUE, view |-> view, ro |-> ro, gone |-> gone]
    \/ /\ page.running /\ page2 = NoPage
       /\ content2 = IF page.gone THEN {} ELSE IF page.ro THEN content ELSE page.view

\* What a request has to be for its browser, in flight or not.
Sound(s, r, o, c, st) ==
    IF o.phase \in {"new", "done"} THEN Crashes(s) \/ Only(st, BrowserOf[r], {c})
    ELSE Fits(s, r, o, c, st)

\* What is written is under an id that was sent to this browser.
Writes(r) ==
    \A g \in Guid : store'[g] # store[g] =>
       /\ BrowserOf[g[1]] = BrowserOf[r]
       /\ store'[g] # Absent => /\ Heard(g[1])'
                                /\ store'[g].bare => store'[g].items = {}

\* A step of r, the only request of its browser, which keeps the invariant and
\* is a turn of the contract or stops the page.
Step(r) ==
    /\ OnlyRequest(r) /\ Alters(r) /\ Writes(r)
    /\ req'[r].phase # "new" /\ (Heard(r) => Heard(r)')
    /\ Sound(site, r, req'[r], cookie'[BrowserOf[r]], store')
    /\ LET content == ContentAs(req[r], Cookie(r), store)
           page == PageAs(req[r], Cookie(r))
           content2 == ContentAs(req'[r], cookie'[BrowserOf[r]], store')
           page2 == PageAs(req'[r], cookie'[BrowserOf[r]])
       IN  \/ Turn(content, page, content2, page2)
           \/ Crashes(site) /\ content2 = content /\ page2 = NoPage

\* The ids that a browser and its requests know are its own.
LEMMA IdsOwned ==
    ASSUME TypeInv, NEW q \in Requests, NEW i \in {Cookie(q), req[q].id, req[q].old}, i # NoId
    PROVE  i \in Guid /\ i[1] \in Requests /\ BrowserOf[i[1]] = BrowserOf[q]
  <1>1. i \in Guid /\ i[1] \in Requests /\ SiteTypeOK
    <2>1. SiteTypeOK
      BY DEF TypeInv
    <2>2. Cookie(q) \in Id /\ req[q].id \in Id /\ req[q].old \in Id
      BY <2>1, Fields, Types DEF Cookie
    <2>3. i \in Guid
      BY <2>2 DEF Id
    <2>. QED BY <2>1, <2>3 DEF Guid
  <1>2. i \in {<<q, 1>>, <<q, 2>>} \/ BrowserOf[i[1]] = BrowserOf[q]
    <2>1. CASE i = Cookie(q)
      BY <2>1, <1>1, Types DEF TypeInv, CookiesKnown, Cookie
    <2>2. CASE i = req[q].id
      BY <2>2, Fields DEF Own, From
    <2>3. CASE i = req[q].old
      BY <2>3, Fields DEF Own, From
    <2>. QED BY <2>1, <2>2, <2>3
  <1>3. <<q, 1>>[1] = q /\ <<q, 2>>[1] = q
    OBVIOUS
  <1>. QED BY <1>1, <1>2, <1>3

\* The soundness of a request depends on the records of its browser only.
LEMMA SoundSame ==
    ASSUME NEW s, NEW q \in Requests, NEW o, NEW c, NEW st, NEW st2,
           \A i \in {c, o.id, o.old} : i # NoId => i \in Guid /\ BrowserOf[i[1]] = BrowserOf[q],
           \A g \in Guid : BrowserOf[g[1]] = BrowserOf[q] => st2[g] = st[g],
           Sound(s, q, o, c, st), o.phase \in {"new", "done"} => o.old = NoId
    PROVE  Sound(s, q, o, c, st2) /\ ContentAs(o, c, st2) = ContentAs(o, c, st)
  <1>1. \A i \in {c, o.id, o.old} :
           (None(st2, i) <=> None(st, i)) /\ ItemsIn(st2, i) = ItemsIn(st, i)
    BY DEF None, ItemsIn
  <1>2. PlaceOf(o, c) \in {c, o.id, o.old}
    BY DEF PlaceOf
  <1>3. \A ids : Only(st, BrowserOf[q], ids) => Only(st2, BrowserOf[q], ids)
    BY DEF Only
  <1>4. ItemsIn(st2, PlaceOf(o, c)) = ItemsIn(st, PlaceOf(o, c))
    BY <1>1, <1>2
  <1>5. FitsRead(s, o, c, st) => FitsRead(s, o, c, st2)
    BY <1>1, <1>4 DEF FitsRead
  <1>6. FitsUnread(q, o, c, st) => FitsUnread(q, o, c, st2)
    <2>1. <<q, 1>> # NoId
      BY SiteAssumption DEF Guid
    <2>. QED BY <1>1, <2>1 DEF FitsUnread
  <1>. QED BY <1>3, <1>4, <1>5, <1>6 DEF Sound, Fits, ContentAs

\* What another browser has, and where, does not change.
LEMMA OthersSame ==
    ASSUME Inv, NEW r \in Requests, Alters(r), Writes(r),
           NEW q \in Requests, BrowserOf[q] # BrowserOf[r]
    PROVE  /\ req'[q] = req[q] /\ Cookie(q)' = Cookie(q)
           /\ ContentAs(req[q], Cookie(q), store') = ContentAs(req[q], Cookie(q), store)
           /\ Sound(site, q, req[q], Cookie(q), store)
                 => Sound(site, q, req[q], Cookie(q), store')
  <1>1. req'[q] = req[q] /\ Cookie(q)' = Cookie(q)
    BY Types DEF Alters, Cookie, Inv, TypeInv
  <1>2. \A g \in Guid : BrowserOf[g[1]] = BrowserOf[q] => store'[g] = store[g]
    BY DEF Writes
  <1>3. \A i \in {Cookie(q), req[q].id, req[q].old} :
           i # NoId => i \in Guid /\ BrowserOf[i[1]] = BrowserOf[q]
    BY IdsOwned DEF Inv
  <1>4. req[q].phase \in {"new", "done"} => req[q].old = NoId
    BY Fields, FinishedType DEF Own, Inv
  <1>5. ItemsIn(store', PlaceOf(req[q], Cookie(q))) = ItemsIn(store, PlaceOf(req[q], Cookie(q)))
    <2>1. PlaceOf(req[q], Cookie(q)) \in {Cookie(q), req[q].id, req[q].old}
      BY DEF PlaceOf
    <2>. QED BY <1>2, <1>3, <2>1 DEF ItemsIn, None
  <1>. QED BY <1>1, <1>2, <1>3, <1>4, <1>5, SoundSame DEF ContentAs

LEMMA StepInv ==
    ASSUME Inv, TypeInv', NEW r \in Requests, Step(r)
    PROVE  Inv'
  <1>1. /\ \A q \in Requests : q # r => req'[q] = req[q]
        /\ \A q \in Requests : q # r => (InFlight(q)' <=> InFlight(q))
        /\ site' = site
        /\ \A b \in Browsers : b # BrowserOf[r] => cookie'[b] = cookie[b]
        /\ BrowserOf \in [Requests -> Browsers]
    BY SiteAssumption DEF Step, Alters, InFlight
  <1>2. ASSUME NEW q \in Requests, BrowserOf[q] = BrowserOf[r], q # r
        PROVE  ~InFlight(q)'
    BY <1>1, <1>2 DEF Step, OnlyRequest, Serving
  <1>3. Alone'
    BY <1>1, <1>2 DEF Alone, Inv
  <1>4. During'
    <2>. SUFFICES ASSUME NEW q \in Requests, InFlight(q)'
                  PROVE  Fits(site', q, req'[q], cookie'[BrowserOf[q]], store')
      BY DEF During
    <2>1. CASE q = r
      BY <1>1, <2>1 DEF Step, Sound, InFlight
    <2>2. CASE q # r
      <3>1. BrowserOf[q] # BrowserOf[r] /\ InFlight(q) /\ InFlight(q)'
        BY <1>1, <1>2, <2>2
      <3>2. Sound(site, q, req[q], Cookie(q), store)
        BY <3>1 DEF Inv, During, Sound, InFlight, Cookie
      <3>3. Sound(site, q, req[q], Cookie(q), store') /\ req'[q] = req[q] /\ Cookie(q)' = Cookie(q)
        BY <3>1, <3>2, OthersSame DEF Step
      <3>. QED BY <1>1, <3>1, <3>3 DEF Sound, InFlight, Cookie
    <2>. QED BY <2>1, <2>2
  <1>5. Between'
    <2>. SUFFICES ASSUME NEW b \in Browsers, Serving(b)' = {}
                  PROVE  Crashes(site') \/ Only(store', b, {cookie'[b]})
      BY DEF Between
    <2>1. CASE b = BrowserOf[r]
      <3>1. ~InFlight(r)'
        BY <2>1 DEF Serving
      <3>. QED BY <1>1, <2>1, <3>1 DEF Step, Sound, InFlight
    <2>2. CASE b # BrowserOf[r]
      <3>1. Serving(b) = {} /\ cookie'[b] = cookie[b]
        BY <1>1, <2>2 DEF Serving
      <3>2. Crashes(site) \/ Only(store, b, {cookie[b]})
        BY <3>1 DEF Inv, Between
      <3>. QED BY <1>1, <2>2, <3>1, <3>2 DEF Step, Writes, Only
    <2>. QED BY <2>1, <2>2
  <1>6. RecordsKnown'
    <2>. SUFFICES ASSUME NEW g \in Guid, store'[g] # Absent
                  PROVE  Heard(g[1])' /\ (store'[g].bare => store'[g].items = {})
      BY DEF RecordsKnown
    <2>1. CASE store'[g] = store[g]
      <3>1. Heard(g[1]) /\ (store[g].bare => store[g].items = {})
        BY <2>1 DEF Inv, RecordsKnown
      <3>2. Heard(r) => Heard(r)'
        BY DEF Step
      <3>3. g[1] \in Requests
        BY DEF Guid
      <3>. QED BY <1>1, <2>1, <3>1, <3>2, <3>3 DEF Heard
    <2>2. CASE store'[g] # store[g]
      BY <2>2 DEF Step, Writes
    <2>. QED BY <2>1, <2>2
  <1>7. Waiting'
    BY <1>1 DEF Waiting, Inv, Step
  <1>. QED BY <1>3, <1>4, <1>5, <1>6, <1>7 DEF Inv

LEMMA PageEqual ==
    ASSUME NEW a \in Contract(TRUE)!Page, NEW b \in Contract(TRUE)!Page,
           a.running = b.running, a.view = b.view, a.ro = b.ro, a.gone = b.gone
    PROVE  a = b
  BY DEF Contract!Page

\* The page that a browser without one begins.
LEMMA Begun ==
    ASSUME NEW x \in SUBSET Requests
    PROVE  [NoPage EXCEPT !.running = TRUE, !.view = x]
              = [running |-> TRUE, view |-> x, ro |-> FALSE, gone |-> FALSE]
  <1> DEFINE a == [NoPage EXCEPT !.running = TRUE, !.view = x]
             b == [running |-> TRUE, view |-> x, ro |-> FALSE, gone |-> FALSE]
  <1>1. /\ NoPage \in Contract(TRUE)!Page /\ NoPage.running = FALSE /\ NoPage.view = {}
        /\ NoPage.ro = FALSE /\ NoPage.gone = FALSE
    BY DEF NoPage, Contract!Page
  <1>2. /\ a \in Contract(TRUE)!Page /\ a.running = TRUE /\ a.view = x
        /\ a.ro = FALSE /\ a.gone = FALSE
    BY <1>1 DEF Contract!Page
  <1>3. /\ b \in Contract(TRUE)!Page /\ b.running = TRUE /\ b.view = x
        /\ b.ro = FALSE /\ b.gone = FALSE
    BY DEF Contract!Page
  <1>. HIDE DEF a, b
  <1>4. a = b
    BY <1>2, <1>3, PageEqual
  <1>. QED BY <1>4 DEF a, b

\* The step of ImplementsContract.
Implements ==
    [\/ Contract(FALSE)!Next
     \/ "crash" \in site.faults /\ Contract(TRUE)!Abort]_(Contract(TRUE)!cvars)

\* Pages that end without a trace, when processes die.
LEMMA StopContract ==
    ASSUME Crashes(site),
           \A x \in Browsers : /\ Contents(x)' = Contents(x)
                               /\ PageOf(x)' \in {PageOf(x), NoPage}
    PROVE  Implements
  <1> DEFINE content == [x \in Browsers |-> Contents(x)]
             page == [x \in Browsers |-> PageOf(x)]
             stopped == {x \in Browsers : PageOf(x)' # PageOf(x)}
  <1>1. content' = content
    OBVIOUS
  <1>2. page' = [x \in Browsers |-> IF x \in stopped THEN NoPage ELSE page[x]]
    OBVIOUS
  <1>3. stopped \in SUBSET Browsers /\ Contract(TRUE)!Idle = NoPage
    BY DEF Contract!Idle, NoPage
  <1>4. Contract(TRUE)!Abort <=>
          /\ TRUE
          /\ \E s \in SUBSET Browsers :
             \E ended \in SUBSET {x \in s : page[x].gone} :
                /\ page' = [x \in Browsers |-> IF x \in s THEN Contract(TRUE)!Idle ELSE page[x]]
                /\ content' = [x \in Browsers |-> IF x \in ended THEN {} ELSE content[x]]
    BY DEF Contract!Abort
  <1>5. content = [x \in Browsers |-> IF x \in {} THEN {} ELSE content[x]]
    OBVIOUS
  <1>. HIDE DEF content, page, stopped
  <1>6. {} \in SUBSET {x \in stopped : page[x].gone}
    OBVIOUS
  <1>7. Contract(TRUE)!Abort
    BY <1>1, <1>2, <1>3, <1>4, <1>5, <1>6
  <1>. QED BY <1>7 DEF Implements, Crashes

\* The contents of one browser time out while it has no page.
LEMMA LapseContract ==
    ASSUME NEW b \in Browsers,
           \A x \in Browsers : /\ PageOf(x)' = PageOf(x)
                               /\ x # b => Contents(x)' = Contents(x),
           Contents(b)' = {}, PageOf(b) = NoPage
    PROVE  Implements
  <1> DEFINE content == [x \in Browsers |-> Contents(x)]
             page == [x \in Browsers |-> PageOf(x)]
  <1>1. page' = page /\ content' = [content EXCEPT ![b] = {}] /\ ~page[b].running
    <2>1. page' = page
      OBVIOUS
    <2>2. content' = [content EXCEPT ![b] = {}]
      OBVIOUS
    <2>3. page[b] = NoPage /\ ~NoPage.running
      BY DEF NoPage
    <2>. HIDE DEF page
    <2>. QED BY <2>1, <2>2, <2>3
  <1>2. Contract(FALSE)!Lapse(b) <=>
          /\ TRUE
          /\ ~page[b].running
          /\ content' = [content EXCEPT ![b] = {}]
          /\ page' = page
    BY DEF Contract!Lapse
  <1>. HIDE DEF content, page
  <1>3. Contract(FALSE)!Lapse(b)
    BY <1>1, <1>2
  <1>4. Contract(FALSE)!Next
    BY <1>3 DEF Contract!Next
  <1>. QED BY <1>4 DEF Implements

LEMMA StepContract ==
    ASSUME Inv, Inv', NEW r \in Requests, Step(r)
    PROVE  Implements
  <1> DEFINE b == BrowserOf[r]
             content == [x \in Browsers |-> Contents(x)]
             page == [x \in Browsers |-> PageOf(x)]
             content2 == ContentAs(req'[r], cookie'[b], store')
             page2 == PageAs(req'[r], cookie'[b])
  <1>1. /\ \A q \in Requests : q # r => req'[q] = req[q] /\ (InFlight(q)' <=> InFlight(q))
        /\ \A x \in Browsers : x # b => cookie'[x] = cookie[x]
        /\ BrowserOf \in [Requests -> Browsers] /\ b \in Browsers
    BY SiteAssumption DEF Step, Alters, InFlight
  <1>2. OnlyRequest(r)'
    BY <1>1 DEF Step, OnlyRequest, Serving
  <1>3. content[b] = ContentAs(req[r], Cookie(r), store) /\ page[b] = PageAs(req[r], Cookie(r))
    BY <1>1, Seen DEF SeenAs, Inv, Step
  <1>4. Contents(b)' = content2 /\ PageOf(b)' = page2
    BY <1>2, SeenNext DEF SeenAs, Inv, Cookie
  <1>5. ASSUME NEW x \in Browsers, x # b
        PROVE  Contents(x)' = Contents(x) /\ PageOf(x)' = PageOf(x)
    <2>1. Serving(x)' = Serving(x)
      BY <1>1, <1>5 DEF Serving
    <2>2. CASE Serving(x) = {}
      <3>1. /\ Contents(x) = ItemsIn(store, cookie[x]) /\ PageOf(x) = NoPage
            /\ Contents(x)' = ItemsIn(store', cookie'[x]) /\ PageOf(x)' = NoPage
        BY <2>1, <2>2 DEF Contents, Stored, ItemsIn, None, Place, PageOf
      <3>2. cookie'[x] = cookie[x] /\ cookie[x] \in Id
        BY <1>1, <1>5 DEF Inv, TypeInv, SiteTypeOK
      <3>3. cookie[x] \in Guid => store'[cookie[x]] = store[cookie[x]]
        BY <1>5, SiteAssumption DEF Inv, TypeInv, CookiesKnown, Step, Writes
      <3>. QED BY <3>1, <3>2, <3>3 DEF ItemsIn, None, Id
    <2>3. ASSUME NEW q \in Serving(x)
          PROVE  Contents(x)' = Contents(x) /\ PageOf(x)' = PageOf(x)
      <3>1. q \in Requests /\ BrowserOf[q] = x /\ OnlyRequest(q) /\ OnlyRequest(q)'
        BY <2>1 DEF Serving, OnlyRequest, Inv, Alone
      <3>2. /\ Contents(x) = ContentAs(req[q], Cookie(q), store)
            /\ PageOf(x) = PageAs(req[q], Cookie(q))
            /\ Contents(x)' = ContentAs(req'[q], Cookie(q)', store')
            /\ PageOf(x)' = PageAs(req'[q], Cookie(q)')
        BY <3>1, Seen, SeenNext DEF SeenAs, Inv
      <3>. QED BY <1>5, <3>1, <3>2, OthersSame DEF Step
    <2>. QED BY <2>2, <2>3
  <1>6. /\ content' = [content EXCEPT ![b] = content2]
        /\ page' = [page EXCEPT ![b] = page2]
    BY <1>1, <1>4, <1>5
  <1>7. \/ Turn(content[b], page[b], content2, page2)
        \/ Crashes(site) /\ content2 = content[b] /\ page2 = NoPage
    BY <1>3 DEF Step
  <1>8. CASE Crashes(site) /\ content2 = content[b] /\ page2 = NoPage
    <2>1. \A x \in Browsers : Contents(x)' = Contents(x) /\ PageOf(x)' \in {PageOf(x), NoPage}
      BY <1>1, <1>4, <1>5, <1>8
    <2>. QED BY <1>8, <2>1, StopContract
  <1>9. Contract(FALSE)!Begin(b) <=>
           /\ ~page[b].running
           /\ page' = [page EXCEPT ![b] = [Contract(FALSE)!Idle EXCEPT
                          !.running = TRUE, !.view = content[b]]]
           /\ UNCHANGED content
    BY DEF Contract!Begin
  <1>10. Contract(FALSE)!Edit(b) <=>
            /\ page[b].running
            /\ \E view \in SUBSET Requests, ro \in BOOLEAN, gone \in BOOLEAN :
                  /\ page[b].gone => gone
                  /\ page' = [page EXCEPT ![b] = [running |-> TRUE, view |-> view,
                                                  ro |-> ro, gone |-> gone]]
            /\ UNCHANGED content
    BY DEF Contract!Edit
  <1>11. Contract(FALSE)!End(b) <=>
            /\ page[b].running
            /\ content' = [content EXCEPT ![b] = IF page[b].gone THEN {}
                                                 ELSE IF page[b].ro THEN content[b]
                                                 ELSE page[b].view]
            /\ page' = [page EXCEPT ![b] = Contract(FALSE)!Idle]
    BY DEF Contract!End, Contract!Outcome
  <1>12. UNCHANGED <<content, page>> => Implements
    BY DEF Contract!cvars, Implements
  <1>13. Contract(FALSE)!Begin(b) \/ Contract(FALSE)!Edit(b) \/ Contract(FALSE)!End(b)
            => Implements
    BY <1>1 DEF Contract!Next, Implements
  <1>14. /\ Contract(FALSE)!Idle = NoPage /\ ~NoPage.running
         /\ content = [x \in Browsers |-> content[x]] /\ page = [x \in Browsers |-> page[x]]
    BY DEF Contract!Idle, NoPage
  <1>15. content[b] \in SUBSET Requests
    <2>1. PlaceOf(req[r], Cookie(r)) \in {Cookie(r), req[r].id, req[r].old}
      BY DEF PlaceOf
    <2>2. PlaceOf(req[r], Cookie(r)) # NoId => PlaceOf(req[r], Cookie(r)) \in Guid
      BY <2>1, IdsOwned DEF Inv
    <2>. QED BY <1>3, <2>2 DEF ContentAs, ItemsIn, None, Inv, TypeInv, SiteTypeOK, Record
  <1>. HIDE DEF content, page, content2, page2
  <1>16. CASE content2 = content[b] /\ page2 = page[b]
    BY <1>1, <1>6, <1>12, <1>14, <1>16
  <1>17. CASE /\ page[b] = NoPage /\ content2 = content[b]
              /\ page2 = [running |-> TRUE, view |-> content[b], ro |-> FALSE, gone |-> FALSE]
    <2>1. [Contract(FALSE)!Idle EXCEPT !.running = TRUE, !.view = content[b]] = page2
      BY <1>14, <1>15, <1>17, Begun
    <2>2. ~page[b].running /\ UNCHANGED content
      BY <1>1, <1>6, <1>14, <1>17
    <2>. QED BY <1>6, <1>9, <1>13, <2>1, <2>2
  <1>18. CASE /\ page[b].running /\ content2 = content[b]
              /\ \E view \in SUBSET Requests, ro \in BOOLEAN, gone \in BOOLEAN :
                    /\ page[b].gone => gone
                    /\ page2 = [running |-> TRUE, view |-> view, ro |-> ro, gone |-> gone]
    <2>1. UNCHANGED content
      BY <1>1, <1>6, <1>14, <1>18
    <2>. QED BY <1>6, <1>10, <1>13, <1>18, <2>1
  <1>19. CASE /\ page[b].running /\ page2 = NoPage
              /\ content2 = IF page[b].gone THEN {}
                            ELSE IF page[b].ro THEN content[b] ELSE page[b].view
    BY <1>6, <1>11, <1>13, <1>14, <1>19
  <1>. QED BY <1>7, <1>8, <1>16, <1>17, <1>18, <1>19 DEF Turn

-----------------------------------------------------------------------------
(* From the arrival of a request to its session *)

LEMMA Facts ==
    ASSUME Keeps, Inv, NEW r \in Requests
    PROVE  LET o == req[r]
           IN  /\ TypeInv /\ SiteTypeOK /\ KeepingSite(site)
               /\ o \in Request /\ Own(r, o) /\ o.id \in Id /\ o.old \in Id
               /\ Cookie(r) \in Id /\ BrowserOf[r] \in Browsers
               /\ store \in [Guid -> Record \cup {Absent}]
               /\ cookie \in [Browsers -> Id] /\ cookie[BrowserOf[r]] = Cookie(r)
               /\ NoId \notin Guid /\ <<r, 1>> \in Guid
               /\ ~Heard(r) => store[<<r, 1>>] = Absent
               /\ InFlight(r) => OnlyRequest(r) /\ Fits(site, r, o, Cookie(r), store)
  <1>1. /\ TypeInv /\ SiteTypeOK /\ KeepingSite(site)
        /\ store \in [Guid -> Record \cup {Absent}] /\ cookie \in [Browsers -> Id]
        /\ cookie[BrowserOf[r]] = Cookie(r)
    BY DEF Inv, TypeInv, SiteTypeOK, Keeps, Cookie
  <1>2. /\ req[r] \in Request /\ Own(r, req[r]) /\ req[r].id \in Id /\ req[r].old \in Id
        /\ Cookie(r) \in Id /\ BrowserOf[r] \in Browsers /\ NoId \notin Guid /\ <<r, 1>> \in Guid
    BY <1>1, Fields, Types
  <1>3. ~Heard(r) => store[<<r, 1>>] = Absent
    <2>1. <<r, 1>>[1] = r
      OBVIOUS
    <2>. QED BY <1>2, <2>1 DEF Inv, RecordsKnown
  <1>4. InFlight(r) => OnlyRequest(r) /\ Fits(site, r, req[r], Cookie(r), store)
    BY DEF Inv, Alone, During, OnlyRequest, Serving, Cookie
  <1>. QED BY <1>1, <1>2, <1>3, <1>4

LEMMA ArriveStep ==
    ASSUME Keeps, Inv, NEW r \in Requests, Arrive(r)
    PROVE  Step(r)
  <1> DEFINE o == req[r]
             n == req'[r]
             c == Cookie(r)
  <1>1. /\ Alters(r) /\ UNCHANGED <<store, cookie>>
        /\ o.phase = "new" /\ n.phase = "exists" /\ n.id = c
        /\ n.server \in site.servers /\ (n.ro => n.server = "managed")
        /\ n.old = o.old /\ n.items = o.items /\ n.loaded = o.loaded
        /\ n.dirty = o.dirty /\ n.gone = o.gone
        /\ \A q \in Requests : BrowserOf[q] = BrowserOf[r] => ~InFlight(q)
    BY Facts, ArriveDoes DEF Cookie
  <1>2. o.old = NoId /\ ~o.loaded /\ ~o.dirty /\ ~o.gone /\ o.items = {}
    BY <1>1, Facts DEF Own, Inv, Waiting
  <1>3. Serving(BrowserOf[r]) = {}
    BY <1>1 DEF Serving
  <1>4. Crashes(site) \/ Only(store, BrowserOf[r], {c})
    BY <1>3, Facts DEF Inv, Between
  <1>5. n.server = "core" => ~n.ro /\ ~site.liquid
    BY <1>1, Facts DEF KeepingSite
  <1>. HIDE DEF o, n, c
  <1>6. Fits(site, r, n, c, store)
    BY <1>1, <1>2, <1>4, <1>5 DEF Fits, FitsUnread, Only
  <1>7. ContentAs(n, c, store) = ContentAs(o, c, store) /\ PageAs(n, c) = PageAs(o, c)
    BY <1>1, <1>2 DEF ContentAs, PlaceOf, PageAs, RunningAs
  <1>8. Turn(ContentAs(o, c, store), PageAs(o, c), ContentAs(n, c, store), PageAs(n, c))
    BY <1>7 DEF Turn
  <1>. QED BY <1>1, <1>2, <1>3, <1>6, <1>8, Facts
       DEF Step, OnlyRequest, Writes, Sound, Heard, o, n, c

LEMMA ExistsStep ==
    ASSUME Keeps, Inv, NEW r \in Requests, ManagedExists(r) \/ CoreExists(r)
    PROVE  Step(r)
  <1> DEFINE o == req[r]
             n == req'[r]
             c == Cookie(r)
  <1>1. PICK id \in KnownIds(r) :
           /\ Alters(r) /\ UNCHANGED <<store, cookie>>
           /\ o.phase = "exists"
           /\ n.server = o.server /\ n.ro = o.ro
           /\ n.old = o.old /\ n.items = o.items /\ n.loaded = o.loaded
           /\ n.dirty = o.dirty /\ n.gone = o.gone
           /\ \/ o.server = "managed" /\ n.phase = "get" /\ n.id = id
              \/ /\ o.server = "core" /\ n.phase = "script"
                 /\ n.id = IF id = NoId THEN <<r, 1>> ELSE id
    BY Facts, ExistsDoes
  <1>2. /\ OnlyRequest(r) /\ Fits(site, r, o, c, store) /\ ~o.loaded /\ ~Heard(r)
        /\ o.old = NoId
    BY <1>1, Facts DEF InFlight, Own, Heard
  <1>3. o.id = c /\ ~o.dirty /\ ~o.gone /\ o.items = {}
    BY <1>1, <1>2 DEF Fits, FitsUnread
  <1>4. id = c \/ (id = NoId /\ None(store, c))
    BY <1>3, Facts DEF KnownIds, KeepingSite, None
  <1>5. store[<<r, 1>>] = Absent /\ <<r, 1>> # NoId
    BY <1>2, Facts
  <1>. HIDE DEF o, n, c
  <1>6. FitsUnread(r, n, c, store)
    <2>1. c = NoId => None(store, c)
      BY DEF None
    <2>. QED BY <1>1, <1>3, <1>4, <1>5, <2>1 DEF FitsUnread
  <1>7. Fits(site, r, n, c, store)
    BY <1>1, <1>2, <1>3, <1>6 DEF Fits, Only
  <1>8. ContentAs(n, c, store) = ContentAs(o, c, store) /\ PageAs(n, c) = PageAs(o, c)
    BY <1>1, <1>2 DEF ContentAs, PlaceOf, PageAs, RunningAs
  <1>9. Turn(ContentAs(o, c, store), PageAs(o, c), ContentAs(n, c, store), PageAs(n, c))
    BY <1>8 DEF Turn
  <1>. QED BY <1>1, <1>2, <1>7, <1>9, Facts DEF Step, Writes, Sound, Heard, o, n, c

\* A page of the managed module begins when its session is read.
LEMMA ManagedGetStep ==
    ASSUME Keeps, Inv, NEW r \in Requests, ManagedGet(r)
    PROVE  Step(r)
  <1> DEFINE o == req[r]
             n == req'[r]
             c == Cookie(r)
             rotate == site.liquid \/ o.id = NoId
  <1>1. /\ Alters(r) /\ UNCHANGED <<store, cookie>>
        /\ o.server = "managed" /\ o.phase = "get" /\ n.server = "managed"
        /\ n.phase = IF ~HasItems(o.id) /\ ~o.ro THEN "insert" ELSE "script"
        /\ n.items = IF HasItems(o.id) THEN store[o.id].items ELSE {}
        /\ n.id = IF rotate THEN <<r, 1>> ELSE o.id
        /\ n.old = IF rotate THEN o.id ELSE NoId
        /\ n.loaded /\ n.ro = o.ro /\ n.dirty = o.dirty /\ n.gone = o.gone
    BY Facts, ManagedGetDoes
  <1>2. /\ OnlyRequest(r) /\ Fits(site, r, o, c, store) /\ ~o.loaded /\ ~Heard(r)
        /\ o.old = NoId
    BY <1>1, Facts DEF InFlight, Own, Heard
  <1>3. /\ ~o.dirty /\ ~o.gone /\ o.items = {}
        /\ o.id = c \/ (None(store, c) /\ o.id = NoId)
    BY <1>1, <1>2 DEF Fits, FitsUnread
  <1>4. /\ c = NoId \/ c \in Guid
        /\ \A g \in Guid : store[g] # Absent /\ store[g].bare => store[g].items = {}
        /\ store[<<r, 1>>] = Absent
    BY <1>2, Facts DEF Id, Inv, RecordsKnown
  <1>5. /\ n.items = ItemsIn(store, c)
        /\ n.phase \in {"insert", "script"}
        /\ n.phase = "insert" => n.items = {} /\ ~n.ro
    <2>1. CASE HasItems(o.id)
      <3>1. o.id # NoId /\ store[o.id] # Absent
        BY <2>1 DEF HasItems
      <3>2. o.id = c
        BY <1>3, <3>1
      <3>. QED BY <1>1, <2>1, <3>1, <3>2 DEF ItemsIn, None
    <2>2. CASE ~HasItems(o.id)
      <3>1. None(store, c) \/ ItemsIn(store, c) = {}
        BY <1>3, <1>4, <2>2 DEF HasItems, ItemsIn, None
      <3>2. ItemsIn(store, c) = {}
        BY <3>1 DEF ItemsIn
      <3>. QED BY <1>1, <2>2, <3>2
    <2>. QED BY <2>1, <2>2
  <1>6. /\ n.old \in {NoId, c} /\ (~site.liquid => n.old = NoId)
        /\ n.id = c \/ None(store, n.id)
        /\ n.old = NoId => n.id = c \/ None(store, c)
    BY <1>1, <1>3, <1>4 DEF None
  <1>. HIDE DEF o, n, c, rotate
  <1>7. PlaceOf(n, c) = c /\ PlaceOf(o, c) = c
    BY <1>2, <1>5, <1>6 DEF PlaceOf
  <1>8. FitsRead(site, n, c, store)
    BY <1>1, <1>3, <1>5, <1>6, <1>7 DEF FitsRead, ItemsIn
  <1>9. Fits(site, r, n, c, store)
    <2>1. Crashes(site) \/ Only(store, BrowserOf[r], {c, n.id, n.old})
      BY <1>2, <1>3, Facts DEF Fits, Only
    <2>. QED BY <1>1, <1>3, <1>6, <1>8, <2>1 DEF Fits
  <1>10. Turn(ContentAs(o, c, store), PageAs(o, c), ContentAs(n, c, store), PageAs(n, c))
    <2>1. ContentAs(n, c, store) = ContentAs(o, c, store) /\ PageAs(o, c) = NoPage
      BY <1>2, <1>7 DEF ContentAs, PageAs, RunningAs
    <2>2. PageAs(n, c) = [running |-> TRUE, view |-> n.items, ro |-> FALSE, gone |-> FALSE]
      <3>1. n.gone = FALSE
        BY <1>1, <1>3, Facts DEF Request, o
      <3>. QED BY <1>1, <1>5, <3>1 DEF PageAs, RunningAs
    <2>. QED BY <1>5, <1>7, <2>1, <2>2 DEF Turn, ContentAs
  <1>. QED BY <1>1, <1>2, <1>5, <1>9, <1>10, Facts DEF Step, Writes, Sound, Heard, o, n, c

\* A request that has not read its session has no record of its own.
LEMMA UnreadOnly ==
    ASSUME NEW s, NEW r \in Requests, NEW o, NEW c, NEW st, Fits(s, r, o, c, st),
           ~o.loaded, o.old = NoId
    PROVE  Crashes(s) \/ Only(st, BrowserOf[r], {c})
  <1>1. FitsUnread(r, o, c, st) /\ (Crashes(s) \/ Only(st, BrowserOf[r], {c, o.id, NoId}))
    BY DEF Fits
  <1>2. o.id = c \/ o.id = NoId \/ st[o.id] = Absent
    BY <1>1 DEF FitsUnread
  <1>. QED BY <1>1, <1>2, SiteAssumption DEF Only

\* A page of the ASP.NET Core session begins when it first uses its session.
LEMMA CoreGetStep ==
    ASSUME Keeps, Inv, NEW r \in Requests, CoreGet(r)
    PROVE  Step(r)
  <1> DEFINE o == req[r]
             n == req'[r]
             c == Cookie(r)
             found == store[o.id] # Absent
  <1>1. /\ OnlyRequest(r) /\ Fits(site, r, o, c, store) /\ ~o.loaded /\ ~Heard(r)
        /\ o.old = NoId /\ o.id # NoId /\ ~site.liquid /\ ~o.ro
    <2>1. o.phase = "get" /\ o.server = "core"
      BY DEF CoreGet, Core
    <2>. QED BY <2>1, Facts DEF InFlight, Own, Heard, Fits
  <1>2. /\ Alters(r) /\ UNCHANGED <<store, cookie>>
        /\ o.server = "core" /\ o.phase = "get" /\ o.id \in Guid
        /\ \/ found /\ store[o.id].bare /\ n = Finished
           \/ /\ n.server = "core" /\ n.phase = "script" /\ n.loaded
              /\ n.ro = o.ro /\ n.dirty = o.dirty /\ n.gone = o.gone
              /\ n.items = IF found THEN store[o.id].items ELSE o.items
              /\ n.id = o.id /\ n.old = NoId
    BY <1>1, Facts, CoreGetDoes
  <1>3. /\ ~o.dirty /\ ~o.gone /\ o.items = {}
        /\ o.id = c \/ (None(store, c) /\ store[o.id] = Absent)
    BY <1>1, <1>2 DEF Fits, FitsUnread
  <1>. HIDE DEF o, n, c
  <1>4. PlaceOf(o, c) = c /\ PageAs(o, c) = NoPage
    BY <1>1 DEF PlaceOf, PageAs, RunningAs
  <1>5. CASE n = Finished
    <2>1. PlaceOf(n, c) = c /\ PageAs(n, c) = NoPage
      BY <1>5, FinishedType DEF PlaceOf, PageAs, RunningAs
    <2>2. Sound(site, r, n, c, store)
      BY <1>1, <1>5, UnreadOnly, FinishedType DEF Sound
    <2>. QED BY <1>1, <1>2, <1>4, <1>5, <2>1, <2>2, Facts, FinishedType
         DEF Step, Writes, Heard, Turn, ContentAs, o, n, c
  <1>6. CASE n # Finished
    <2>1. /\ n.server = "core" /\ n.phase = "script" /\ n.loaded
          /\ n.ro = o.ro /\ n.dirty = o.dirty /\ n.gone = o.gone
          /\ n.items = IF found THEN store[o.id].items ELSE o.items
          /\ n.id = o.id /\ n.old = NoId
      BY <1>2, <1>6
    <2>2. n.items = ItemsIn(store, c) /\ PlaceOf(n, c) = c
      BY <1>1, <1>3, <2>1 DEF ItemsIn, None, PlaceOf
    <2>3. n.id = c \/ (None(store, c) /\ ItemsIn(store, n.id) = {})
      BY <1>3, <2>1 DEF ItemsIn, None
    <2>4. None(store, NoId)
      BY DEF None
    <2>5. FitsRead(site, n, c, store)
      BY <1>3, <2>1, <2>2, <2>3, <2>4 DEF FitsRead
    <2>6. Fits(site, r, n, c, store)
      BY <1>1, <1>3, <2>1, <2>5 DEF Fits
    <2>7. PageAs(n, c) = [running |-> TRUE, view |-> n.items, ro |-> FALSE, gone |-> FALSE]
      <3>1. n.gone = FALSE
        BY <1>3, <2>1, Facts DEF Request, o
      <3>. QED BY <2>1, <3>1 DEF PageAs, RunningAs
    <2>8. Turn(ContentAs(o, c, store), PageAs(o, c), ContentAs(n, c, store), PageAs(n, c))
      BY <1>4, <2>2, <2>7 DEF Turn, ContentAs
    <2>. QED BY <1>1, <1>2, <2>1, <2>6, <2>8, Facts DEF Step, Writes, Sound, Heard, o, n, c
  <1>. QED BY <1>5, <1>6

LEMMA CoreUseStep ==
    ASSUME Keeps, Inv, NEW r \in Requests, CoreUse(r)
    PROVE  Step(r)
  <1> DEFINE o == req[r]
             n == req'[r]
             c == Cookie(r)
  <1>1. /\ OnlyRequest(r) /\ Fits(site, r, o, c, store) /\ ~o.loaded /\ ~Heard(r)
        /\ o.old = NoId
    <2>1. o.phase = "script" /\ o.server = "core" /\ ~o.loaded
      BY DEF CoreUse, Core
    <2>. QED BY <2>1, Facts DEF InFlight, Own, Heard
  <1>2. PlaceOf(o, c) = c /\ PageAs(o, c) = NoPage
    BY <1>1 DEF PlaceOf, PageAs, RunningAs
  <1>3. CASE o.started
    <2>1. Alters(r) /\ store' = store /\ n = Finished /\ cookie' = cookie
      BY <1>3, Facts, FinishSteps
    <2>2. PlaceOf(n, c) = c /\ PageAs(n, c) = NoPage
      BY <2>1, FinishedType DEF PlaceOf, PageAs, RunningAs
    <2>3. Sound(site, r, n, c, store)
      BY <1>1, <2>1, UnreadOnly, FinishedType DEF Sound
    <2>. HIDE DEF o, n, c
    <2>. QED BY <1>1, <1>2, <2>1, <2>2, <2>3, Facts, FinishedType
         DEF Step, Writes, Heard, Turn, ContentAs, o, n, c
  <1>4. CASE ~o.started
    <2>1. /\ Alters(r) /\ store' = store /\ cookie' = cookie
          /\ n.phase = "get" /\ Same(n, o) /\ o.phase = "script"
      BY <1>4, Facts, CoreUseDoes DEF Goes
    <2>. HIDE DEF o, n, c
    <2>2. PlaceOf(n, c) = c /\ PageAs(n, c) = NoPage
      BY <1>1, <2>1 DEF PlaceOf, PageAs, RunningAs, Same
    <2>3. Fits(site, r, n, c, store)
      BY <1>1, <2>1 DEF Fits, FitsUnread, Same
    <2>. QED BY <1>1, <1>2, <2>1, <2>2, <2>3, Facts
         DEF Step, Writes, Sound, Heard, Turn, ContentAs, o, n, c
  <1>. QED BY <1>3, <1>4

-----------------------------------------------------------------------------
(* The page *)

\* Where the contents are that a page has read.
LEMMA ReadFacts ==
    ASSUME Keeps, Inv, NEW r \in Requests, InFlight(r), req[r].loaded
    PROVE  LET o == req[r]
               c == Cookie(r)
           IN  /\ OnlyRequest(r) /\ Fits(site, r, o, c, store) /\ FitsRead(site, o, c, store)
               /\ o.id \in Guid /\ o.id # NoId /\ o.id # o.old
               /\ o.server = "core" => o.old = NoId
               /\ o.gone => o.old = NoId
               /\ Crashes(site) => o.old = NoId
               /\ o.phase \in {"insert", "script", "remove", "rename", "save", "respond"}
               /\ None(store, NoId) /\ ItemsIn(store, NoId) = {}
               /\ \A i : None(store, i) => ItemsIn(store, i) = {}
  <1>1. /\ OnlyRequest(r) /\ Fits(site, r, req[r], Cookie(r), store)
        /\ FitsRead(site, req[r], Cookie(r), store) /\ KeepingSite(site)
    BY Facts DEF Fits
  <1>2. req[r].id \in Guid /\ req[r].id # NoId /\ req[r].id # req[r].old
    BY Facts DEF Own, Id
  <1>3. req[r].phase \in {"insert", "script", "remove", "rename", "save", "respond"}
    BY Facts DEF InFlight, Own, Request, Phases
  <1>4. \A i : None(store, i) => ItemsIn(store, i) = {}
    BY DEF ItemsIn
  <1>. QED BY <1>1, <1>2, <1>3, <1>4 DEF Fits, KeepingSite, Crashes, None

LEMMA EditStep ==
    ASSUME Keeps, Inv, NEW r \in Requests, Edit(r)
    PROVE  Step(r)
  <1> DEFINE o == req[r]
             n == req'[r]
             c == Cookie(r)
  <1>1. /\ Alters(r) /\ UNCHANGED <<store, cookie>>
        /\ o.phase = "script" /\ o.loaded /\ ~o.gone /\ n.phase = "script" /\ n.loaded
        /\ n.server = o.server /\ n.ro = o.ro /\ n.id = o.id /\ n.old = o.old
        /\ n.gone => "abandon" \in site.ops /\ (o.server = "core" => n.items = {})
        /\ ~n.dirty => ~o.dirty /\ n.items = o.items
    BY Facts, EditDoes
  <1>2. /\ OnlyRequest(r) /\ Fits(site, r, o, c, store) /\ FitsRead(site, o, c, store)
        /\ KeepingSite(site)
    BY <1>1, Facts, ReadFacts DEF InFlight
  <1>3. n.items \in SUBSET Requests /\ n.gone \in BOOLEAN
    BY <1>1 DEF Alters, SiteTypeOK, Request
  <1>. HIDE DEF o, n, c
  <1>4. PlaceOf(n, c) = PlaceOf(o, c)
    BY <1>1 DEF PlaceOf
  <1>5. FitsRead(site, n, c, store)
    BY <1>1, <1>2, <1>4 DEF FitsRead
  <1>6. Fits(site, r, n, c, store)
    BY <1>1, <1>2, <1>5 DEF Fits, KeepingSite
  <1>7. Turn(ContentAs(o, c, store), PageAs(o, c), ContentAs(n, c, store), PageAs(n, c))
    <2>1. PageAs(n, c) = [running |-> TRUE, view |-> n.items, ro |-> FALSE, gone |-> n.gone]
      BY <1>1 DEF PageAs, RunningAs
    <2>2. PageAs(o, c).running /\ ~PageAs(o, c).gone
      BY <1>1 DEF PageAs, RunningAs
    <2>3. ContentAs(n, c, store) = ContentAs(o, c, store)
      BY <1>4 DEF ContentAs
    <2>. QED BY <1>3, <2>1, <2>2, <2>3 DEF Turn
  <1>. QED BY <1>1, <1>2, <1>6, <1>7, Facts DEF Step, Writes, Sound, Heard, o, n, c

LEMMA FlushStep ==
    ASSUME Keeps, Inv, NEW r \in Requests, Flush(r)
    PROVE  Step(r)
  <1> DEFINE o == req[r]
             n == req'[r]
             c == Cookie(r)
             c2 == IF o.loaded THEN o.id ELSE c
  <1>1. /\ Alters(r) /\ store' = store
        /\ o.phase = "script" /\ n.phase = "script" /\ Same(n, o)
        /\ cookie' = IF o.loaded THEN [cookie EXCEPT ![BrowserOf[r]] = o.id] ELSE cookie
    BY Facts, FlushDoes
  <1>2. cookie'[BrowserOf[r]] = c2
    BY <1>1, Facts
  <1>3. OnlyRequest(r) /\ Fits(site, r, o, c, store)
    BY <1>1, Facts DEF InFlight
  <1>4. CASE ~o.loaded
    <2>. HIDE DEF o, n, c
    <2>1. Fits(site, r, n, c, store)
      BY <1>1, <1>3, <1>4 DEF Fits, FitsUnread, Same
    <2>2. ContentAs(n, c, store) = ContentAs(o, c, store) /\ PageAs(n, c) = PageAs(o, c)
      BY <1>1, <1>4 DEF ContentAs, PlaceOf, PageAs, RunningAs, Same
    <2>. QED BY <1>1, <1>2, <1>3, <1>4, <2>1, <2>2, Facts
         DEF Step, Writes, Sound, Heard, Turn, Same, o, n, c
  <1>5. CASE o.loaded
    <2>1. /\ FitsRead(site, o, c, store) /\ ItemsIn(store, NoId) = {}
          /\ \A i : None(store, i) => ItemsIn(store, i) = {}
          /\ o.id # o.old /\ o.id # NoId
      BY <1>1, <1>5, ReadFacts DEF InFlight
    <2>2. c2 = o.id
      BY <1>5
    <2>. HIDE DEF o, n, c, c2
    <2>3. IF o.old = NoId THEN o.id = c \/ None(store, c) ELSE c \in {o.id, o.old}
      BY <2>1 DEF FitsRead
    <2>4. ItemsIn(store, PlaceOf(n, c2)) = ItemsIn(store, PlaceOf(o, c))
      <3>1. CASE o.old = NoId
        <4>1. PlaceOf(n, c2) = o.id /\ PlaceOf(o, c) = c
          BY <1>1, <2>2, <3>1 DEF PlaceOf, Same
        <4>2. o.id # c => ItemsIn(store, o.id) = {} /\ ItemsIn(store, c) = {}
          BY <1>1, <2>1, <2>3, <3>1, <4>1 DEF FitsRead
        <4>. QED BY <4>1, <4>2
      <3>2. CASE o.old # NoId
        BY <1>1, <3>2 DEF PlaceOf, Same
      <3>. QED BY <3>1, <3>2
    <2>5. FitsRead(site, n, c2, store)
      <3>1. n.id # PlaceOf(n, c2) => n.old # NoId /\ PlaceOf(n, c2) = PlaceOf(o, c)
        BY <1>1, <2>2 DEF PlaceOf, Same
      <3>. QED BY <1>1, <2>1, <2>2, <2>4, <3>1 DEF FitsRead, Same
    <2>6. Crashes(site) \/ Only(store, BrowserOf[r], {c2, n.id, n.old})
      <3>1. c \in {o.id, o.old} \/ None(store, c)
        BY <2>3
      <3>. QED BY <1>1, <1>3, <2>2, <3>1, Facts DEF Fits, Only, None, Same
    <2>7. Fits(site, r, n, c2, store)
      BY <1>1, <1>3, <1>5, <2>5, <2>6 DEF Fits, Same
    <2>8. ContentAs(n, c2, store) = ContentAs(o, c, store) /\ PageAs(n, c2) = PageAs(o, c)
      BY <1>1, <1>5, <2>4 DEF ContentAs, PageAs, RunningAs, Same
    <2>. QED BY <1>1, <1>2, <1>3, <1>5, <2>7, <2>8, Facts
         DEF Step, Writes, Sound, Heard, Turn, Same, o, n, c
  <1>. QED BY <1>4, <1>5

\* A request that has its session writes under its own ids.
LEMMA OwnWrites ==
    ASSUME Inv, NEW r \in Requests, Alters(r), req[r].loaded, Heard(r)',
           \A g \in Guid : store'[g] # store[g] =>
              /\ g \in {req[r].id, req[r].old}
              /\ store'[g] # Absent /\ store'[g].bare => store'[g].items = {}
    PROVE  Writes(r)
  <1>1. TypeInv /\ NoId \notin Guid
    BY SiteAssumption DEF Inv
  <1>2. ASSUME NEW g \in {req[r].id, req[r].old}, g \in Guid
        PROVE  BrowserOf[g[1]] = BrowserOf[r] /\ Heard(g[1])'
    <2>1. BrowserOf[g[1]] = BrowserOf[r] /\ g[1] \in Requests
      BY <1>1, <1>2, IdsOwned
    <2>2. g \in {<<r, 1>>, <<r, 2>>} \/ Heard(g[1])
      BY <1>1, <1>2, Fields DEF Own, From
    <2>3. g[1] = r \/ Heard(g[1])
      BY <2>2
    <2>. QED BY <2>1, <2>3 DEF Alters, Heard
  <1>. QED BY <1>2 DEF Writes

LEMMA ManagedInsertStep ==
    ASSUME Keeps, Inv, NEW r \in Requests, ManagedInsert(r)
    PROVE  Step(r)
  <1> DEFINE o == req[r]
             n == req'[r]
             c == Cookie(r)
             key == o.id
  <1>1. /\ Alters(r) /\ cookie' = cookie /\ n.phase = "script" /\ Same(n, o)
        /\ o.server = "managed" /\ o.phase = "insert" /\ o.loaded /\ key \in Guid
        /\ store' = [store EXCEPT ![key] = Bare]
    BY Facts, ManagedInsertDoes DEF Goes
  <1>2. /\ OnlyRequest(r) /\ Fits(site, r, o, c, store) /\ FitsRead(site, o, c, store)
        /\ key # o.old /\ key # NoId
    BY <1>1, ReadFacts DEF InFlight
  <1>. HIDE DEF o, n, c, key
  <1>3. /\ store'[key] = Bare /\ Bare # Absent /\ Bare.items = {}
        /\ \A g \in Guid : g # key => store'[g] = store[g]
    BY <1>1, Facts, Types
  <1>4. \A i : i = NoId \/ i \in Guid =>
           /\ i # key => (None(store', i) <=> None(store, i)) /\ ItemsIn(store', i) = ItemsIn(store, i)
           /\ i = key => ItemsIn(store', i) = {}
    BY <1>3 DEF None, ItemsIn
  <1>5. /\ o.id = key /\ n.id = key /\ n.old = o.old
        /\ c = NoId \/ c \in Guid
        /\ o.old = NoId \/ o.old \in Guid
    BY <1>1, Facts DEF Same, Id, key, o, c
  <1>6. /\ PlaceOf(n, c) = PlaceOf(o, c)
        /\ PlaceOf(o, c) = NoId \/ PlaceOf(o, c) \in Guid
    BY <1>1, <1>5 DEF PlaceOf, Same
  <1>7. ItemsIn(store, PlaceOf(o, c)) = {} /\ ItemsIn(store', PlaceOf(o, c)) = {} /\ ~o.gone
    BY <1>1, <1>2, <1>4, <1>6 DEF FitsRead
  <1>8. FitsRead(site, n, c, store')
    <2>1. n.phase = "script" /\ n.server = "managed"
      BY <1>1 DEF Same
    <2>2. IF n.old = NoId THEN n.id = c \/ None(store', c) ELSE c \in {n.id, n.old}
      BY <1>2, <1>4, <1>5 DEF FitsRead
    <2>3. ItemsIn(store', n.id) = {}
      BY <1>1, <1>4, <1>5
    <2>. QED BY <2>1, <2>2, <2>3 DEF FitsRead
  <1>9. Crashes(site) \/ Only(store', BrowserOf[r], {c, n.id, n.old})
    BY <1>2, <1>3, <1>5 DEF Fits, Only
  <1>10. Fits(site, r, n, c, store')
    BY <1>1, <1>2, <1>8, <1>9 DEF Fits, Same
  <1>11. Turn(ContentAs(o, c, store), PageAs(o, c), ContentAs(n, c, store'), PageAs(n, c))
    <2>1. PageAs(n, c) = PageAs(o, c)
      BY <1>1 DEF PageAs, RunningAs, Same
    <2>. QED BY <1>6, <1>7, <2>1 DEF Turn, ContentAs
  <1>12. Writes(r)
    <2>1. Heard(r)'
      BY <1>1 DEF Heard, Same, n, o
    <2>. QED BY <1>1, <1>3, <2>1, OwnWrites DEF o, key
  <1>. QED BY <1>1, <1>2, <1>10, <1>11, <1>12, Facts DEF Step, Sound, Heard, Same, o, n, c

LEMMA ManagedReleaseStep ==
    ASSUME Keeps, Inv, NEW r \in Requests, ManagedRelease(r)
    PROVE  Step(r)
  <1> DEFINE o == req[r]
             n == req'[r]
             c == Cookie(r)
  <1>1. /\ Alters(r) /\ cookie' = cookie /\ store' = store /\ Same(n, o)
        /\ n.phase = IF o.gone THEN "remove" ELSE IF o.old # NoId THEN "rename" ELSE "save"
        /\ o.server = "managed" /\ o.phase = "script" /\ o.loaded
    BY Facts, ManagedReleaseDoes DEF Goes
  <1>2. /\ OnlyRequest(r) /\ Fits(site, r, o, c, store) /\ FitsRead(site, o, c, store)
        /\ o.gone => o.old = NoId
        /\ None(store, NoId)
    BY <1>1, ReadFacts DEF InFlight
  <1>3. o.items \in SUBSET Requests /\ o.ro \in BOOLEAN /\ o.gone \in BOOLEAN
    BY Facts DEF Request
  <1>. HIDE DEF o, n, c
  <1>4. PlaceOf(n, c) = PlaceOf(o, c)
    BY <1>1 DEF PlaceOf, Same
  <1>5. FitsRead(site, n, c, store)
    BY <1>1, <1>2, <1>4 DEF FitsRead, Same
  <1>6. Fits(site, r, n, c, store)
    BY <1>1, <1>2, <1>5 DEF Fits, Same
  <1>7. Turn(ContentAs(o, c, store), PageAs(o, c), ContentAs(n, c, store), PageAs(n, c))
    <2>1. PageAs(n, c) = [running |-> TRUE, view |-> o.items, ro |-> o.ro, gone |-> o.gone]
      <3>1. RunningAs(n, c) /\ n.phase \notin {"insert", "script"}
        BY <1>1 DEF RunningAs, Same
      <3>2. (n.ro /\ n.phase \notin {"insert", "script"}) = o.ro
        BY <1>1, <1>3, <3>1 DEF Same
      <3>. QED BY <1>1, <3>1, <3>2 DEF PageAs, Same
    <2>2. PageAs(o, c).running /\ PageAs(o, c).gone = o.gone
      BY <1>1 DEF PageAs, RunningAs
    <2>. QED BY <1>3, <1>4, <2>1, <2>2 DEF Turn, ContentAs
  <1>. QED BY <1>1, <1>2, <1>6, <1>7, Facts DEF Step, Writes, Sound, Heard, Same, o, n, c

LEMMA CoreCommitStep ==
    ASSUME Keeps, Inv, NEW r \in Requests, CoreCommit(r)
    PROVE  Step(r)
  <1> DEFINE o == req[r]
             n == req'[r]
             c == Cookie(r)
  <1>1. /\ Alters(r) /\ cookie' = cookie /\ store' = store /\ Same(n, o)
        /\ n.phase = IF o.old # NoId THEN "rename" ELSE "save"
        /\ o.server = "core" /\ o.phase = "script"
    BY Facts, CoreCommitDoes DEF Goes
  <1>2. OnlyRequest(r) /\ Fits(site, r, o, c, store)
    BY <1>1, Facts DEF InFlight
  <1>. HIDE DEF o, n, c
  <1>3. o.old = NoId /\ n.phase = "save" /\ ~o.ro /\ None(store, NoId)
    BY <1>1, <1>2 DEF Fits, None
  <1>4. PlaceOf(n, c) = c /\ PlaceOf(o, c) = c
    BY <1>1, <1>3 DEF PlaceOf, Same
  <1>5. FitsRead(site, o, c, store) => FitsRead(site, n, c, store)
    BY <1>1, <1>3, <1>4 DEF FitsRead, Same
  <1>6. FitsUnread(r, o, c, store) => FitsUnread(r, n, c, store)
    BY <1>1, <1>3 DEF FitsUnread, Same
  <1>7. Fits(site, r, n, c, store)
    BY <1>1, <1>2, <1>3, <1>5, <1>6 DEF Fits, Same
  <1>8. ContentAs(n, c, store) = ContentAs(o, c, store) /\ PageAs(n, c) = PageAs(o, c)
    BY <1>1, <1>3, <1>4 DEF ContentAs, PageAs, RunningAs, Same
  <1>. QED BY <1>1, <1>2, <1>3, <1>7, <1>8, Facts
       DEF Step, Writes, Sound, Heard, Turn, Same, o, n, c

-----------------------------------------------------------------------------
(* The end of the page *)

\* What a write under one key leaves alone.
LEMMA OtherKeys ==
    ASSUME NEW st, NEW st2, NEW key,
           \A g \in Guid : g # key => st2[g] = st[g],
           NEW i, i = NoId \/ i \in Guid, i # key
    PROVE  (None(st2, i) <=> None(st, i)) /\ ItemsIn(st2, i) = ItemsIn(st, i)
  BY DEF None, ItemsIn

LEMMA ManagedRemoveStep ==
    ASSUME Keeps, Inv, NEW r \in Requests, ManagedRemove(r)
    PROVE  Step(r)
  <1> DEFINE o == req[r]
             n == req'[r]
             c == Cookie(r)
             key == o.id
  <1>1. /\ Alters(r) /\ cookie' = cookie /\ n.phase = "respond" /\ Same(n, o)
        /\ o.server = "managed" /\ o.phase = "remove" /\ o.loaded /\ key \in Guid
        /\ store' = [store EXCEPT ![key] = Absent]
    BY Facts, ManagedRemoveDoes DEF Goes
  <1>2. /\ OnlyRequest(r) /\ Fits(site, r, o, c, store) /\ FitsRead(site, o, c, store)
        /\ key # NoId /\ (o.gone => o.old = NoId)
    BY <1>1, ReadFacts DEF InFlight
  <1>. HIDE DEF o, n, c, key
  <1>3. /\ store'[key] = Absent
        /\ \A g \in Guid : g # key => store'[g] = store[g]
    BY <1>1, Facts
  <1>4. /\ o.id = key /\ n.id = key /\ n.old = NoId /\ o.old = NoId /\ o.gone /\ n.gone
        /\ c = NoId \/ c \in Guid
    BY <1>1, <1>2, Facts DEF FitsRead, Same, Id, key, o, c
  <1>5. /\ None(store', key) /\ ItemsIn(store', key) = {}
        /\ None(store', NoId)
        /\ c # key => (None(store', c) <=> None(store, c)) /\ ItemsIn(store', c) = ItemsIn(store, c)
    BY <1>3, <1>4, OtherKeys DEF None, ItemsIn
  <1>6. PlaceOf(n, c) = c /\ PlaceOf(o, c) = c
    BY <1>4 DEF PlaceOf
  <1>7. FitsRead(site, n, c, store')
    <2>1. n.phase = "respond" /\ n.server = "managed"
      BY <1>1 DEF Same
    <2>2. n.id = c \/ None(store', c)
      BY <1>2, <1>4, <1>5 DEF FitsRead
    <2>. QED BY <1>4, <1>5, <2>1, <2>2 DEF FitsRead
  <1>8. Crashes(site) \/ Only(store', BrowserOf[r], {c, n.id, n.old})
    BY <1>2, <1>3, <1>4 DEF Fits, Only
  <1>9. Fits(site, r, n, c, store')
    BY <1>1, <1>2, <1>7, <1>8 DEF Fits, Same
  <1>10. Turn(ContentAs(o, c, store), PageAs(o, c), ContentAs(n, c, store'), PageAs(n, c))
    <2>1. CASE c = key
      <3>1. PageAs(n, c) = NoPage
        BY <1>1, <1>4, <1>6, <2>1 DEF PageAs, RunningAs
      <3>2. PageAs(o, c).running /\ PageAs(o, c).gone
        BY <1>1, <1>4 DEF PageAs, RunningAs
      <3>. QED BY <1>5, <1>6, <2>1, <3>1, <3>2 DEF Turn, ContentAs
    <2>2. CASE c # key
      <3>1. PageAs(n, c) = PageAs(o, c)
        BY <1>1, <1>4, <1>6, <2>2 DEF PageAs, RunningAs, Same
      <3>. QED BY <1>5, <1>6, <2>2, <3>1 DEF Turn, ContentAs
    <2>. QED BY <2>1, <2>2
  <1>11. Writes(r)
    <2>1. Heard(r)'
      BY <1>1 DEF Heard, Same, n, o
    <2>. QED BY <1>1, <1>3, <2>1, OwnWrites DEF o, key
  <1>. QED BY <1>1, <1>2, <1>9, <1>10, <1>11, Facts DEF Step, Sound, Heard, Same, o, n, c

\* RENAME takes the record along.
LEMMA RenameStep ==
    ASSUME Keeps, Inv, NEW r \in Requests, Rename(r)
    PROVE  Step(r)
  <1> DEFINE o == req[r]
             n == req'[r]
             c == Cookie(r)
             key == o.id
             old == o.old
  <1>1. /\ Alters(r) /\ cookie' = cookie /\ n.phase = "save" /\ Same(n, o)
        /\ o.phase = "rename" /\ o.loaded /\ key \in Guid /\ old \in Guid /\ key # old
        /\ store' = IF store[old] = Absent THEN store
                    ELSE [store EXCEPT ![key] = store[old], ![old] = Absent]
    BY Facts, RenameDoes DEF Goes
  <1>2. /\ OnlyRequest(r) /\ Fits(site, r, o, c, store) /\ FitsRead(site, o, c, store)
        /\ key # NoId /\ old # NoId /\ ~o.gone /\ o.server # "core"
    BY <1>1, Facts, ReadFacts DEF InFlight
  <1>3. store[old] # Absent => (store[old].bare => store[old].items = {})
    BY <1>1 DEF Inv, RecordsKnown
  <1>. HIDE DEF o, n, c, key, old
  <1>4. /\ store'[old] = Absent
        /\ store'[key] = IF store[old] = Absent THEN store[key] ELSE store[old]
        /\ \A g \in Guid : g \notin {key, old} => store'[g] = store[g]
    BY <1>1, Facts
  <1>5. n.id = key /\ o.id = key /\ n.old = old /\ o.old = old /\ ~n.gone
    BY <1>1, <1>2 DEF Same, key, old
  <1>6. PlaceOf(n, c) = key /\ PlaceOf(o, c) = old
    BY <1>1, <1>2, <1>5 DEF PlaceOf
  <1>7. ItemsIn(store', key) = ItemsIn(store, old)
    <2>1. ItemsIn(store, key) = {}
      BY <1>1, <1>2, <1>5, <1>6 DEF FitsRead
    <2>. QED BY <1>1, <1>2, <1>4, <2>1 DEF ItemsIn, None
  <1>8. FitsRead(site, n, c, store')
    <2>1. n.phase = "save" /\ n.server # "core"
      BY <1>1, <1>2 DEF Same
    <2>2. IF n.old = NoId THEN n.id = c \/ None(store', c) ELSE c \in {n.id, n.old}
      BY <1>2, <1>5 DEF FitsRead
    <2>3. None(store', n.old)
      BY <1>4, <1>5 DEF None
    <2>. QED BY <1>5, <1>6, <2>1, <2>2, <2>3 DEF FitsRead
  <1>9. Crashes(site) \/ Only(store', BrowserOf[r], {c, n.id, n.old})
    BY <1>2, <1>4, <1>5 DEF Fits, Only
  <1>10. Fits(site, r, n, c, store')
    BY <1>1, <1>2, <1>8, <1>9 DEF Fits, Same
  <1>11. Turn(ContentAs(o, c, store), PageAs(o, c), ContentAs(n, c, store'), PageAs(n, c))
    <2>1. PageAs(n, c) = PageAs(o, c)
      BY <1>1 DEF PageAs, RunningAs, Same
    <2>. QED BY <1>6, <1>7, <2>1 DEF Turn, ContentAs
  <1>12. Writes(r)
    <2>1. Heard(r)'
      BY <1>1 DEF Heard, Same, n, o
    <2>. QED BY <1>1, <1>3, <1>4, <2>1, OwnWrites DEF o, key, old
  <1>. QED BY <1>1, <1>2, <1>10, <1>11, <1>12, Facts DEF Step, Sound, Heard, Same, o, n, c

\* SET, or EXPIRE for a page that was read-only.
LEMMA ManagedSaveStep ==
    ASSUME Keeps, Inv, NEW r \in Requests, ManagedSave(r)
    PROVE  Step(r)
  <1> DEFINE o == req[r]
             n == req'[r]
             c == Cookie(r)
             key == o.id
             place == PlaceOf(o, c)
  <1>1. /\ Alters(r) /\ cookie' = cookie /\ n.phase = "respond" /\ Same(n, o)
        /\ o.server = "managed" /\ o.phase = "save" /\ o.loaded /\ key \in Guid
        /\ store' = IF o.ro THEN store ELSE [store EXCEPT ![key] = Full(o.items)]
    BY Facts, ManagedSaveDoes DEF Goes
  <1>2. /\ OnlyRequest(r) /\ Fits(site, r, o, c, store) /\ FitsRead(site, o, c, store)
        /\ key # NoId /\ key # o.old
    BY <1>1, ReadFacts DEF InFlight
  <1>3. o.ro \in BOOLEAN /\ o.items \in SUBSET Requests
    BY Facts DEF Request
  <1>. HIDE DEF o, n, c, key
  <1>4. /\ store'[key] = IF o.ro THEN store[key] ELSE Full(o.items)
        /\ \A g \in Guid : g # key => store'[g] = store[g]
    BY <1>1, Facts
  <1>5. Full(o.items).items = o.items /\ ~Full(o.items).bare /\ Full(o.items) # Absent
    <2>1. Full(o.items) \in Record
      BY <1>3 DEF Full, Record
    <2>. QED BY <2>1, SiteAssumption DEF Full
  <1>6. /\ o.id = key /\ n.id = key /\ n.old = o.old /\ ~o.gone /\ ~n.gone
        /\ n.items = o.items /\ n.ro = o.ro /\ n.server = "managed"
        /\ c = NoId \/ c \in Guid
        /\ o.old = NoId \/ o.old \in Guid
    BY <1>1, <1>2, Facts DEF FitsRead, Same, Id, key, o, c
  <1>7. ItemsIn(store', key) = IF o.ro THEN ItemsIn(store, key) ELSE o.items
    BY <1>2, <1>4, <1>5 DEF ItemsIn, None
  <1>8. \A i \in {c, o.old} : i # key =>
           (None(store', i) <=> None(store, i)) /\ ItemsIn(store', i) = ItemsIn(store, i)
    <2>1. \A i \in {c, o.old} : i = NoId \/ i \in Guid
      BY <1>6
    <2>. QED BY <1>4, <2>1 DEF None, ItemsIn
  <1>9. /\ PlaceOf(n, c) = place
        /\ place = IF o.old = NoId THEN c ELSE key
    BY <1>1, <1>6 DEF PlaceOf
  <1>. HIDE DEF place
  <1>10. key # place => ItemsIn(store, key) = {}
    BY <1>1, <1>2, <1>6 DEF FitsRead, place
  <1>11. FitsRead(site, n, c, store')
    <2>1. IF n.old = NoId THEN n.id = c \/ None(store', c) ELSE c \in {n.id, n.old}
      BY <1>2, <1>6, <1>8 DEF FitsRead
    <2>2. None(store', n.old)
      BY <1>1, <1>2, <1>6, <1>8 DEF FitsRead
    <2>3. n.id # PlaceOf(n, c) =>
             ItemsIn(store', n.id) = IF n.gone \/ n.ro THEN {} ELSE n.items
      BY <1>6, <1>7, <1>9, <1>10
    <2>. QED BY <1>1, <1>6, <2>1, <2>2, <2>3 DEF FitsRead
  <1>12. Crashes(site) \/ Only(store', BrowserOf[r], {c, n.id, n.old})
    BY <1>2, <1>4, <1>6 DEF Fits, Only
  <1>13. Fits(site, r, n, c, store')
    BY <1>1, <1>2, <1>11, <1>12 DEF Fits, Same
  <1>14. Turn(ContentAs(o, c, store), PageAs(o, c), ContentAs(n, c, store'), PageAs(n, c))
    <2>1. CASE place = key
      <3>1. PageAs(n, c) = NoPage
        BY <1>1, <1>6, <1>9, <2>1 DEF PageAs, RunningAs
      <3>2. /\ PageAs(o, c).running /\ PageAs(o, c).gone = o.gone
            /\ PageAs(o, c).ro <=> o.ro
            /\ PageAs(o, c).view = o.items
        BY <1>1 DEF PageAs, RunningAs
      <3>. QED BY <1>6, <1>7, <1>9, <2>1, <3>1, <3>2 DEF Turn, ContentAs, place
    <2>2. CASE place # key
      <3>1. PageAs(n, c) = PageAs(o, c)
        BY <1>1, <1>6, <1>9, <2>2 DEF PageAs, RunningAs, Same
      <3>. QED BY <1>8, <1>9, <2>2, <3>1 DEF Turn, ContentAs, place
    <2>. QED BY <2>1, <2>2
  <1>15. Writes(r)
    <2>1. Heard(r)'
      BY <1>1 DEF Heard, Same, n, o
    <2>. QED BY <1>1, <1>4, <1>5, <2>1, OwnWrites DEF o, key
  <1>. QED BY <1>1, <1>2, <1>13, <1>14, <1>15, Facts DEF Step, Sound, Heard, Same, o, n, c

LEMMA CoreSaveStep ==
    ASSUME Keeps, Inv, NEW r \in Requests, CoreSave(r)
    PROVE  Step(r)
  <1> DEFINE o == req[r]
             n == req'[r]
             c == Cookie(r)
             key == o.id
  <1>1. /\ Alters(r) /\ cookie' = cookie /\ n.phase = "respond" /\ Same(n, o)
        /\ o.server = "core" /\ o.phase = "save" /\ key \in Guid
        /\ store' = IF o.dirty THEN [store EXCEPT ![key] = Full(o.items)] ELSE store
    BY Facts, CoreSaveDoes DEF Goes
  <1>2. OnlyRequest(r) /\ Fits(site, r, o, c, store)
    BY <1>1, Facts DEF InFlight
  <1>3. /\ o.items \in SUBSET Requests /\ NoId \notin Guid
        /\ c = NoId \/ c \in Guid
    BY Facts DEF Request, Id
  <1>. HIDE DEF o, n, c, key
  <1>4. /\ o.id = key /\ n.id = key /\ n.old = NoId /\ o.old = NoId /\ n.gone = o.gone
        /\ ~n.ro /\ ~o.ro /\ n.items = o.items /\ n.server = "core" /\ n.loaded = o.loaded
    BY <1>1, <1>2 DEF Fits, Same, key
  <1>5. PlaceOf(n, c) = c /\ PlaceOf(o, c) = c
    BY <1>4 DEF PlaceOf
  <1>6. CASE ~o.loaded
    <2>1. store' = store
      BY <1>1, <1>2, <1>6 DEF Fits, FitsUnread
    <2>2. Fits(site, r, n, c, store)
      BY <1>1, <1>2, <1>4, <1>6 DEF Fits, FitsUnread, Same
    <2>3. PageAs(n, c) = PageAs(o, c)
      BY <1>4, <1>6 DEF PageAs, RunningAs
    <2>. QED BY <1>1, <1>2, <1>5, <1>6, <2>1, <2>2, <2>3, Facts
         DEF Step, Writes, Sound, Heard, Turn, ContentAs, Same, o, n, c
  <1>7. CASE o.loaded
    <2>1. FitsRead(site, o, c, store)
      BY <1>2, <1>7 DEF Fits
    <2>2. /\ store'[key] = IF o.dirty THEN Full(o.items) ELSE store[key]
          /\ \A g \in Guid : g # key => store'[g] = store[g]
      BY <1>1, Facts
    <2>3. Full(o.items).items = o.items /\ ~Full(o.items).bare /\ Full(o.items) # Absent
      <3>1. Full(o.items) \in Record
        BY <1>3 DEF Full, Record
      <3>. QED BY <3>1, SiteAssumption DEF Full
    <2>4. /\ c # key => None(store, c) /\ ItemsIn(store, key) = {} /\ ItemsIn(store, c) = {}
          /\ ~o.dirty => o.items = ItemsIn(store, c)
          /\ o.gone => o.items = {}
      BY <1>1, <1>4, <1>5, <2>1 DEF FitsRead, ItemsIn
    <2>5. ItemsIn(store', key) = o.items
      <3>1. CASE o.dirty
        BY <1>1, <1>3, <2>2, <2>3, <3>1 DEF ItemsIn, None
      <3>2. CASE ~o.dirty
        <4>1. ItemsIn(store', key) = ItemsIn(store, key)
          BY <2>2, <3>2 DEF ItemsIn, None
        <4>. QED BY <2>4, <3>2, <4>1
      <3>. QED BY <3>1, <3>2
    <2>6. c # key => (None(store', c) <=> None(store, c)) /\ ItemsIn(store', c) = ItemsIn(store, c)
      BY <1>3, <2>2 DEF None, ItemsIn
    <2>7. FitsRead(site, n, c, store')
      <3>1. None(store', NoId)
        BY DEF None
      <3>. QED BY <1>1, <1>4, <1>5, <2>4, <2>5, <2>6, <3>1 DEF FitsRead
    <2>8. Crashes(site) \/ Only(store', BrowserOf[r], {c, n.id, n.old})
      BY <1>2, <1>4, <2>2 DEF Fits, Only
    <2>9. Fits(site, r, n, c, store')
      BY <1>1, <1>2, <1>4, <1>7, <2>7, <2>8 DEF Fits
    <2>10. Turn(ContentAs(o, c, store), PageAs(o, c), ContentAs(n, c, store'), PageAs(n, c))
      <3>1. CASE c = key
        <4>1. PageAs(n, c) = NoPage
          BY <1>1, <1>4, <1>5, <3>1 DEF PageAs, RunningAs
        <4>2. /\ PageAs(o, c).running /\ ~PageAs(o, c).ro
              /\ PageAs(o, c).gone = o.gone /\ PageAs(o, c).view = o.items
          BY <1>1, <1>4, <1>7 DEF PageAs, RunningAs
        <4>. QED BY <1>5, <2>4, <2>5, <3>1, <4>1, <4>2 DEF Turn, ContentAs
      <3>2. CASE c # key
        <4>1. PageAs(n, c) = PageAs(o, c)
          <5>1. (n.ro /\ n.phase \notin {"insert", "script"})
                   = (o.ro /\ o.phase \notin {"insert", "script"})
            BY <1>4
          <5>2. RunningAs(n, c) /\ RunningAs(o, c)
            BY <1>1, <1>4, <1>5, <1>7, <3>2 DEF RunningAs
          <5>. QED BY <1>4, <5>1, <5>2 DEF PageAs
        <4>. QED BY <1>5, <2>6, <3>2, <4>1 DEF Turn, ContentAs
      <3>. QED BY <3>1, <3>2
    <2>11. Writes(r)
      <3>1. Heard(r)'
        BY <1>4, <1>7 DEF Heard, n
      <3>. QED BY <1>1, <1>7, <2>2, <2>3, <3>1, OwnWrites DEF o, key
    <2>. QED BY <1>1, <1>2, <1>4, <1>7, <2>9, <2>10, <2>11, Facts
         DEF Step, Sound, Heard, o, n, c
  <1>. QED BY <1>6, <1>7

\* A command that is lost stops the page, or leaves it to the answer.
LEMMA LostStep ==
    ASSUME Keeps, Inv, NEW r \in Requests, Lost(r)
    PROVE  Step(r)
  <1> DEFINE o == req[r]
             n == req'[r]
             c == Cookie(r)
  <1>1. /\ Alters(r) /\ cookie' = cookie /\ n.phase = "respond" /\ Same(n, o)
        /\ Crashes(site) /\ o.phase \in {"remove", "save"} /\ store' = store
    BY Facts, LostDoes DEF Goes, Crashes
  <1>2. OnlyRequest(r) /\ Fits(site, r, o, c, store) /\ ~site.liquid
    BY <1>1, Facts DEF InFlight, KeepingSite, Crashes
  <1>. HIDE DEF o, n, c
  <1>3. o.old = NoId /\ n.old = NoId /\ n.id = o.id
    BY <1>1, <1>2 DEF Fits, Same
  <1>4. PlaceOf(n, c) = c /\ PlaceOf(o, c) = c
    BY <1>3 DEF PlaceOf
  <1>5. ContentAs(n, c, store) = ContentAs(o, c, store)
    BY <1>4 DEF ContentAs
  <1>6. FitsUnread(r, o, c, store) => FitsUnread(r, n, c, store)
    BY <1>1 DEF FitsUnread, Same
  <1>7. FitsRead(site, o, c, store) => FitsRead(site, n, c, store)
    <2>1. None(store, NoId)
      BY DEF None
    <2>. QED BY <1>1, <1>3, <1>4, <2>1 DEF FitsRead, Same
  <1>8. Fits(site, r, n, c, store)
    BY <1>1, <1>2, <1>6, <1>7 DEF Fits, Same
  <1>9. PageAs(n, c) = PageAs(o, c) \/ PageAs(n, c) = NoPage
    BY <1>1 DEF PageAs, RunningAs, Same
  <1>. QED BY <1>1, <1>2, <1>5, <1>8, <1>9, Facts
       DEF Step, Writes, Sound, Heard, Turn, Same, o, n, c

\* The answer of a page that has read its session: the browser learns the id.
LEMMA RespondStep ==
    ASSUME Keeps, Inv, NEW r \in Requests, ManagedRespond(r) \/ CoreRespond(r),
           req[r].loaded
    PROVE  Step(r)
  <1> DEFINE o == req[r]
             n == req'[r]
             c == Cookie(r)
             c2 == cookie'[BrowserOf[r]]
  <1>1. /\ Alters(r) /\ store' = store /\ n = Finished /\ o.phase = "respond" /\ o.loaded
        /\ InFlight(r)
        /\ \/ o.server = "managed" /\ c2 = IF o.gone THEN c ELSE o.id
           \/ o.server = "core" /\ c2 = o.id
    BY Facts, FinishSteps
  <1>2. /\ OnlyRequest(r) /\ Fits(site, r, o, c, store) /\ FitsRead(site, o, c, store)
        /\ o.id # NoId /\ o.id # o.old /\ (o.gone => o.old = NoId)
        /\ \A i : None(store, i) => ItemsIn(store, i) = {}
    BY <1>1, ReadFacts
  <1>. HIDE DEF o, n, c, c2
  <1>3. /\ None(store, o.old)
        /\ IF o.old = NoId THEN o.id = c \/ None(store, c) ELSE c \in {o.id, o.old}
        /\ o.server = "managed" /\ o.gone => Crashes(site) \/ None(store, o.id)
    BY <1>1, <1>2 DEF FitsRead
  <1>4. Crashes(site) \/ Only(store, BrowserOf[r], {c2})
    <2>1. Crashes(site) \/ Only(store, BrowserOf[r], {c, o.id, o.old})
      BY <1>2 DEF Fits
    <2>2. CASE c2 = o.id
      <3>1. c = o.id \/ None(store, c)
        BY <1>3
      <3>. QED BY <1>3, <2>1, <2>2, <3>1, SiteAssumption DEF Only, None
    <2>3. CASE c2 = c /\ o.server = "managed" /\ o.gone
      BY <1>3, <2>1, <2>3, SiteAssumption DEF Only, None
    <2>. QED BY <1>1, <2>2, <2>3
  <1>5. Sound(site, r, n, c2, store)
    BY <1>1, <1>4, FinishedType DEF Sound
  <1>6. ContentAs(n, c2, store) = ItemsIn(store, c2) /\ PageAs(n, c2) = NoPage
    BY <1>1, FinishedType DEF ContentAs, PlaceOf, PageAs, RunningAs
  <1> DEFINE place == PlaceOf(o, c)
  <1>7. place = IF o.old = NoId THEN c ELSE o.id
    BY <1>1 DEF PlaceOf
  <1>. HIDE DEF place
  <1>8. \/ Turn(ContentAs(o, c, store), PageAs(o, c), ContentAs(n, c2, store), PageAs(n, c2))
        \/ /\ Crashes(site) /\ ContentAs(n, c2, store) = ContentAs(o, c, store)
           /\ PageAs(n, c2) = NoPage
    <2>1. CASE o.id = place
      <3>1. PageAs(o, c) = NoPage
        BY <1>1, <2>1 DEF PageAs, RunningAs, place
      <3>2. c2 = place
        BY <1>1, <1>2, <1>7, <2>1
      <3>. QED BY <1>6, <3>1, <3>2 DEF Turn, ContentAs, place
    <2>2. CASE o.id # place
      <3>1. place = c /\ None(store, c) /\ ItemsIn(store, c) = {}
        BY <1>2, <1>3, <1>7, <2>2
      <3>2. /\ PageAs(o, c).running /\ PageAs(o, c).gone = o.gone
            /\ PageAs(o, c).ro <=> o.ro
            /\ PageAs(o, c).view = o.items
        BY <1>1, <2>2 DEF PageAs, RunningAs, place
      <3>3. ContentAs(o, c, store) = {}
        BY <3>1 DEF ContentAs, place
      <3>4. CASE o.server = "managed" /\ o.gone
        <4>1. c2 = c
          BY <1>1, <3>4
        <4>. QED BY <1>6, <3>1, <3>2, <3>4, <4>1 DEF Turn
      <3>5. CASE ~(o.server = "managed" /\ o.gone)
        <4>1. c2 = o.id
          BY <1>1, <3>5
        <4>2. \/ ItemsIn(store, o.id) = IF o.gone \/ o.ro THEN {} ELSE o.items
              \/ Crashes(site) /\ ItemsIn(store, o.id) = {}
          BY <1>1, <1>2, <2>2, <3>5 DEF FitsRead, place
        <4>. QED BY <1>6, <3>2, <3>3, <4>1, <4>2 DEF Turn
      <3>. QED BY <3>4, <3>5
    <2>. QED BY <2>1, <2>2
  <1>. QED BY <1>1, <1>2, <1>5, <1>8, Facts, FinishedType DEF Step, Writes, Heard, o, n, c, c2

\* A page that did not use its session leaves no trace of it.
LEMMA UnusedStep ==
    ASSUME Keeps, Inv, NEW r \in Requests, CoreRespond(r) \/ CoreThrows(r), ~req[r].loaded
    PROVE  Step(r)
  <1> DEFINE o == req[r]
             n == req'[r]
             c == Cookie(r)
             c2 == cookie'[BrowserOf[r]]
  <1>1. Alters(r) /\ store' = store /\ n = Finished /\ InFlight(r) /\ c2 = c
    BY Facts, FinishSteps
  <1>2. OnlyRequest(r) /\ Fits(site, r, o, c, store) /\ o.old = NoId
    BY <1>1, Facts DEF Own
  <1>3. Sound(site, r, n, c2, store)
    BY <1>1, <1>2, UnreadOnly, FinishedType DEF Sound
  <1>. HIDE DEF n, c2
  <1>4. ContentAs(n, c2, store) = ContentAs(o, c, store) /\ PageAs(n, c2) = PageAs(o, c)
    BY <1>1, <1>2, FinishedType DEF ContentAs, PlaceOf, PageAs, RunningAs
  <1>. QED BY <1>1, <1>2, <1>3, <1>4, Facts, FinishedType DEF Step, Writes, Heard, Turn, n, c2

\* A page that throws: its session is as it was, though the browser may have
\* been told a new id.
LEMMA ThrowsStep ==
    ASSUME Keeps, Inv, NEW r \in Requests, CoreThrows(r), req[r].loaded
    PROVE  Step(r)
  <1> DEFINE o == req[r]
             n == req'[r]
             c == Cookie(r)
             c2 == cookie'[BrowserOf[r]]
  <1>1. /\ Alters(r) /\ store' = store /\ n = Finished /\ InFlight(r) /\ c2 \in {c, o.id}
        /\ Crashes(site) /\ o.server = "core" /\ o.phase = "script"
    BY Facts, FinishSteps DEF Crashes
  <1>2. /\ OnlyRequest(r) /\ FitsRead(site, o, c, store) /\ o.old = NoId
        /\ \A i : None(store, i) => ItemsIn(store, i) = {}
    BY <1>1, ReadFacts
  <1>. HIDE DEF o, n, c, c2
  <1>3. PlaceOf(o, c) = c /\ PlaceOf(n, c2) = c2 /\ PageAs(n, c2) = NoPage
    BY <1>1, <1>2, FinishedType DEF PlaceOf, PageAs, RunningAs
  <1>4. ItemsIn(store, c2) = ItemsIn(store, c)
    <2>1. o.id # c => ItemsIn(store, o.id) = {} /\ ItemsIn(store, c) = {}
      BY <1>1, <1>2, <1>3 DEF FitsRead
    <2>. QED BY <1>1, <2>1
  <1>5. Sound(site, r, n, c2, store)
    BY <1>1, FinishedType DEF Sound
  <1>. QED BY <1>1, <1>2, <1>3, <1>4, <1>5, Facts, FinishedType
       DEF Step, Writes, Heard, ContentAs, o, n, c, c2

-----------------------------------------------------------------------------
(* Every step, and the theorems *)

LEMMA RequestStep ==
    ASSUME Keeps, Inv, NEW r \in Requests, SiteNext(r) \/ ManagedNext(r) \/ CoreNext(r)
    PROVE  Step(r)
  <1>1. CASE SiteNext(r)
    BY <1>1, ArriveStep, EditStep, FlushStep, RenameStep, LostStep DEF SiteNext
  <1>2. CASE ManagedNext(r)
    <2>1. ManagedRespond(r) => req[r].loaded
      BY Facts, FinishSteps
    <2>. QED BY <1>2, <2>1, ExistsStep, ManagedGetStep, ManagedInsertStep, ManagedReleaseStep,
         ManagedRemoveStep, ManagedSaveStep, RespondStep DEF ManagedNext
  <1>3. CASE CoreNext(r)
    BY <1>3, ExistsStep, CoreUseStep, CoreGetStep, ThrowsStep, UnusedStep, CoreCommitStep,
       CoreSaveStep, RespondStep DEF CoreNext
  <1>. QED BY <1>1, <1>2, <1>3

LEMMA InitInv == Init => Inv /\ Contract(TRUE)!Init
  <1>. SUFFICES ASSUME Init PROVE Inv /\ Contract(TRUE)!Init
    OBVIOUS
  <1> DEFINE content == [x \in Browsers |-> Contents(x)]
             page == [x \in Browsers |-> PageOf(x)]
  <1>1. /\ NewRequest.phase = "new" /\ ~NewRequest.dirty /\ ~NewRequest.gone
        /\ NewRequest.items = {}
    BY DEF NewRequest
  <1>2. \A r \in Requests : req[r] = NewRequest /\ ~InFlight(r)
    BY <1>1 DEF Init, InFlight
  <1>3. Inv
    BY <1>1, <1>2, InitType
    DEF Init, Inv, Alone, Between, During, RecordsKnown, Waiting, Only
  <1>4. \A x \in Browsers : Serving(x) = {}
    BY <1>2 DEF Serving
  <1>5. content = [x \in Browsers |-> {}]
    BY <1>4 DEF Contents, Stored, Place, Init
  <1>6. page = [x \in Browsers |-> Contract(TRUE)!Idle]
    BY <1>4 DEF PageOf, NoPage, Contract!Idle
  <1>7. Contract(TRUE)!Init <=>
           /\ content = [x \in Browsers |-> {}]
           /\ page = [x \in Browsers |-> Contract(TRUE)!Idle]
    BY DEF Contract!Init
  <1>. HIDE DEF content, page
  <1>. QED BY <1>3, <1>5, <1>6, <1>7

\* A process that dies takes its pages with it and leaves the records: ids do
\* not rotate on a site where that is considered.
LEMMA CrashStep ==
    ASSUME Keeps, Inv, NEW server, Crash(server)
    PROVE  Inv' /\ Implements
  <1>1. /\ UNCHANGED <<site, store, cookie>> /\ Crashes(site) /\ SiteTypeOK'
        /\ \A r \in Requests : \/ req'[r] = req[r]
                               \/ req'[r] = Finished /\ InFlight(r)
    BY CrashDoes DEF Inv, TypeInv, Crashes
  <1>2. TypeInv'
    BY CrashType DEF Inv
  <1>3. \A r \in Requests : /\ InFlight(r)' => InFlight(r) /\ req'[r] = req[r]
                            /\ Heard(r) => Heard(r)'
    BY <1>1, FinishedType DEF InFlight, Heard
  <1>4. Alone'
    BY <1>3 DEF Inv, Alone
  <1>5. During'
    BY <1>1, <1>3 DEF Inv, During
  <1>6. Between'
    BY <1>1 DEF Between
  <1>7. RecordsKnown'
    <2>. SUFFICES ASSUME NEW g \in Guid, store[g] # Absent
                  PROVE  Heard(g[1])' /\ (store[g].bare => store[g].items = {})
      BY <1>1 DEF RecordsKnown
    <2>1. g[1] \in Requests
      BY DEF Guid
    <2>. QED BY <1>3, <2>1 DEF Inv, RecordsKnown
  <1>8. Waiting'
    BY <1>1, FinishedType DEF Inv, Waiting
  <1>9. ASSUME NEW x \in Browsers
        PROVE  Contents(x)' = Contents(x) /\ PageOf(x)' \in {PageOf(x), NoPage}
    <2>1. CASE Serving(x) = {}
      <3>1. Serving(x)' = {}
        BY <1>3, <2>1 DEF Serving
      <3>. QED BY <1>1, <2>1, <3>1 DEF Contents, Stored, Place, PageOf
    <2>2. ASSUME NEW q \in Serving(x)
          PROVE  Contents(x)' = Contents(x) /\ PageOf(x)' \in {PageOf(x), NoPage}
      <3>1. q \in Requests /\ BrowserOf[q] = x /\ InFlight(q)
        BY DEF Serving
      <3>2. OnlyRequest(q) /\ OnlyRequest(q)'
        BY <1>3, <3>1 DEF Inv, Alone, OnlyRequest, Serving
      <3>3. /\ Contents(x) = ContentAs(req[q], Cookie(q), store)
            /\ PageOf(x) = PageAs(req[q], Cookie(q))
            /\ Contents(x)' = ContentAs(req'[q], Cookie(q), store)
            /\ PageOf(x)' = PageAs(req'[q], Cookie(q))
        BY <1>1, <1>2, <3>1, <3>2, Seen, SeenNext DEF SeenAs, Inv, Cookie
      <3>4. req[q].old = NoId
        BY <1>1, <3>1, Facts DEF KeepingSite, Fits, Crashes
      <3>5. CASE req'[q] = req[q]
        BY <3>3, <3>5
      <3>6. CASE req'[q] = Finished
        BY <3>3, <3>4, <3>6, FinishedType DEF ContentAs, PlaceOf, PageAs, RunningAs
      <3>. QED BY <1>1, <3>1, <3>5, <3>6
    <2>. QED BY <2>1, <2>2
  <1>10. Implements
    BY <1>1, <1>9, StopContract
  <1>. QED BY <1>2, <1>4, <1>5, <1>6, <1>7, <1>8, <1>10 DEF Inv

\* A step that no page and no contents show.
LEMMA StutterContract ==
    ASSUME \A x \in Browsers : Contents(x)' = Contents(x) /\ PageOf(x)' = PageOf(x)
    PROVE  Implements
  <1> DEFINE content == [x \in Browsers |-> Contents(x)]
             page == [x \in Browsers |-> PageOf(x)]
  <1>1. content' = content /\ page' = page
    OBVIOUS
  <1>2. UNCHANGED <<content, page>> => Implements
    BY DEF Contract!cvars, Implements
  <1>. QED BY <1>1, <1>2

\* The record under g is gone, the others are as they were.
Lapsed(st, st2, g) ==
    \A h \in Guid : st2[h] = st[h] \/ (h = g /\ st2[h] = Absent)

\* A record that no page has in hand times out: a request that has not read its
\* session yet is as sound as before, and so is one that has another record.
LEMMA ExpireFits ==
    ASSUME NEW s, NEW r, NEW o, NEW c \in Id, NEW st, NEW st2, NEW g,
           o.id \in Id, o.old \in Id, <<r, 1>> \in Guid, Lapsed(st, st2, g),
           Fits(s, r, o, c, st), o.loaded => g \notin {o.id, o.old}
    PROVE  /\ Fits(s, r, o, c, st2)
           /\ o.loaded => ItemsIn(st2, PlaceOf(o, c)) = ItemsIn(st, PlaceOf(o, c))
  <1>1. \A i \in {c, o.id, o.old} :
           /\ None(st, i) => None(st2, i) /\ ItemsIn(st, i) = {} /\ ItemsIn(st2, i) = {}
           /\ i # g => (None(st2, i) <=> None(st, i)) /\ ItemsIn(st2, i) = ItemsIn(st, i)
    BY DEF None, ItemsIn, Lapsed, Id
  <1>2. \A b, ids : Only(st, b, ids) => Only(st2, b, ids)
    BY DEF Only, Lapsed
  <1>3. FitsUnread(r, o, c, st) => FitsUnread(r, o, c, st2)
    BY <1>1 DEF FitsUnread, Lapsed
  <1>4. ASSUME o.loaded, FitsRead(s, o, c, st)
        PROVE  /\ FitsRead(s, o, c, st2)
               /\ ItemsIn(st2, PlaceOf(o, c)) = ItemsIn(st, PlaceOf(o, c))
    <2>1. /\ (None(st2, o.id) <=> None(st, o.id)) /\ ItemsIn(st2, o.id) = ItemsIn(st, o.id)
          /\ (None(st2, o.old) <=> None(st, o.old)) /\ ItemsIn(st2, o.old) = ItemsIn(st, o.old)
      BY <1>1, <1>4
    <2>2. IF o.old = NoId THEN o.id = c \/ None(st, c) ELSE c \in {o.id, o.old}
      BY <1>4 DEF FitsRead
    <2>3. IF o.old = NoId THEN o.id = c \/ None(st2, c) ELSE c \in {o.id, o.old}
      BY <1>1, <2>2
    <2>4. ItemsIn(st2, PlaceOf(o, c)) = ItemsIn(st, PlaceOf(o, c))
      <3>1. CASE PlaceOf(o, c) \in {o.id, o.old}
        BY <2>1, <3>1
      <3>2. CASE o.old = NoId /\ PlaceOf(o, c) = c
        <4>1. ItemsIn(st2, c) = ItemsIn(st, c)
          BY <1>1, <2>1, <2>2, <3>2
        <4>. QED BY <3>2, <4>1
      <3>. QED BY <3>1, <3>2 DEF PlaceOf
    <2>. QED BY <1>4, <2>1, <2>3, <2>4 DEF FitsRead
  <1>. QED BY <1>2, <1>3, <1>4 DEF Fits

LEMMA ExpireStep ==
    ASSUME Keeps, Inv, NEW g \in Guid, Expire(g)
    PROVE  Inv' /\ Implements
  <1>1. /\ UNCHANGED <<site, cookie, req>> /\ SiteTypeOK /\ TypeInv
        /\ store' = [store EXCEPT ![g] = Absent] /\ store \in [Guid -> Record \cup {Absent}]
        /\ \A r \in Requests : InFlight(r) /\ req[r].loaded => g \notin {req[r].id, req[r].old}
    BY DEF Expire, Held, Inv, TypeInv, SiteTypeOK
  <1>2. TypeInv'
    <2>1. Next
      BY DEF Next
    <2>. QED BY <1>1, <2>1, NextType
  <1>3. /\ \A h \in Guid : store'[h] = store[h] \/ (h = g /\ store'[h] = Absent)
        /\ \A h \in Guid : store'[h] # Absent => store'[h] = store[h]
    BY <1>1
  <1>4. ASSUME NEW r \in Requests, InFlight(r)
        PROVE  /\ Fits(site, r, req[r], Cookie(r), store')
               /\ req[r].loaded => ItemsIn(store', PlaceOf(req[r], Cookie(r)))
                                      = ItemsIn(store, PlaceOf(req[r], Cookie(r)))
    <2> DEFINE o == req[r]
               c == Cookie(r)
    <2>1. /\ Fits(site, r, o, c, store) /\ c \in Id /\ o.id \in Id /\ o.old \in Id
          /\ <<r, 1>> \in Guid
      BY <1>4, Facts
    <2>2. o.loaded => g \notin {o.id, o.old}
      BY <1>1, <1>4
    <2>3. Lapsed(store, store', g)
      BY <1>3 DEF Lapsed
    <2>. HIDE DEF o, c
    <2>4. /\ Fits(site, r, o, c, store')
          /\ o.loaded => ItemsIn(store', PlaceOf(o, c)) = ItemsIn(store, PlaceOf(o, c))
      BY <2>1, <2>2, <2>3, ExpireFits
    <2>. QED BY <2>4 DEF o, c
  <1>5. During'
    BY <1>1, <1>4 DEF During, InFlight, Cookie
  <1>6. Alone' /\ Waiting'
    BY <1>1 DEF Inv, Alone, Waiting, InFlight
  <1>7. Between'
    <2>1. \A b \in Browsers : Serving(b)' = Serving(b)
      BY <1>1 DEF Serving, InFlight
    <2>. QED BY <1>1, <1>3, <2>1 DEF Inv, Between, Only
  <1>8. RecordsKnown'
    BY <1>1, <1>3 DEF Inv, RecordsKnown, Heard
  <1>9. ASSUME NEW x \in Browsers
        PROVE  /\ PageOf(x)' = PageOf(x)
               /\ \/ Contents(x)' = Contents(x)
                  \/ cookie[x] = g /\ Contents(x)' = {} /\ PageOf(x) = NoPage
    <2>1. /\ cookie[x] \in Id /\ NoId \notin Guid
          /\ \/ Stored(cookie[x])' = Stored(cookie[x])
             \/ cookie[x] = g /\ Stored(cookie[x])' = {}
      BY <1>1, <1>3, SiteAssumption DEF Stored, Id, SiteTypeOK
    <2>2. CASE Serving(x) = {}
      <3>1. Serving(x)' = {}
        BY <1>1, <2>2 DEF Serving, InFlight
      <3>. QED BY <1>1, <2>1, <2>2, <3>1 DEF Contents, Stored, Place, PageOf
    <2>3. ASSUME NEW q \in Serving(x)
          PROVE  /\ PageOf(x)' = PageOf(x)
                 /\ \/ Contents(x)' = Contents(x)
                    \/ cookie[x] = g /\ Contents(x)' = {} /\ PageOf(x) = NoPage
      <3>1. q \in Requests /\ BrowserOf[q] = x /\ InFlight(q)
        BY DEF Serving
      <3>2. OnlyRequest(q) /\ OnlyRequest(q)'
        BY <1>1, <3>1 DEF Inv, Alone, OnlyRequest, Serving, InFlight
      <3>3. /\ Contents(x) = ContentAs(req[q], Cookie(q), store)
            /\ PageOf(x) = PageAs(req[q], Cookie(q))
            /\ Contents(x)' = ContentAs(req[q], Cookie(q), store')
            /\ PageOf(x)' = PageAs(req[q], Cookie(q))
        BY <1>1, <1>2, <3>1, <3>2, Seen, SeenNext DEF SeenAs, Inv, Cookie
      <3>4. CASE req[q].loaded
        BY <1>4, <3>1, <3>3, <3>4 DEF ContentAs
      <3>5. CASE ~req[q].loaded
        <4>1. req[q].old = NoId /\ Cookie(q) = cookie[x]
          BY <3>1, <3>5, Facts DEF Own, Cookie
        <4>2. Contents(x) = Stored(cookie[x]) /\ Contents(x)' = Stored(cookie[x])'
          BY <1>1, <3>3, <4>1 DEF ContentAs, PlaceOf, Stored, ItemsIn, None
        <4>3. PageOf(x) = NoPage
          BY <3>3, <3>5 DEF PageAs, RunningAs
        <4>. QED BY <2>1, <3>3, <4>2, <4>3
      <3>. QED BY <3>4, <3>5
    <2>. QED BY <2>2, <2>3
  <1>10. Implements
    <2>1. CASE \A x \in Browsers : Contents(x)' = Contents(x)
      BY <1>9, <2>1, StutterContract
    <2>2. ASSUME NEW b \in Browsers, Contents(b)' # Contents(b)
          PROVE  Implements
      <3>1. cookie[b] = g /\ Contents(b)' = {} /\ PageOf(b) = NoPage
        BY <1>9, <2>2
      <3>2. \A x \in Browsers : cookie[x] = g => x = b
        BY <1>1, <3>1, SiteAssumption DEF TypeInv, CookiesKnown
      <3>. QED BY <1>9, <3>1, <3>2, LapseContract
    <2>. QED BY <2>1, <2>2
  <1>. QED BY <1>2, <1>5, <1>6, <1>7, <1>8, <1>10 DEF Inv

LEMMA NextStep ==
    ASSUME Keeps, Inv, [Next]_vars
    PROVE  Inv' /\ Implements
  <1>1. CASE \E r \in Requests : SiteNext(r) \/ ManagedNext(r) \/ CoreNext(r)
    <2>1. PICK r \in Requests : SiteNext(r) \/ ManagedNext(r) \/ CoreNext(r)
      BY <1>1
    <2>2. Step(r) /\ TypeInv'
      BY <2>1, RequestStep, StepType DEF Inv
    <2>3. Inv'
      BY <2>2, StepInv
    <2>. QED BY <2>2, <2>3, StepContract
  <1>2. CASE \E server \in site.servers : Crash(server)
    BY <1>2, CrashStep
  <1>3. CASE \E g \in Guid : Expire(g)
    BY <1>3, ExpireStep
  <1>4. CASE UNCHANGED vars
    <2>1. TypeInv'
      BY <1>4, NextType DEF Inv
    <2>2. /\ Alone' /\ During' /\ RecordsKnown' /\ Waiting'
          /\ \A b \in Browsers : Serving(b)' = Serving(b)
      BY <1>4 DEF vars, Inv, Alone, During, RecordsKnown, Waiting, Serving, InFlight, Heard
    <2>3. Between'
      BY <1>4, <2>2 DEF vars, Inv, Between
    <2>4. \A x \in Browsers : Contents(x)' = Contents(x) /\ PageOf(x)' = PageOf(x)
      BY <1>4 DEF vars, Contents, Stored, Place, PageOf, Serving, Running, InFlight
    <2>. QED BY <2>1, <2>2, <2>3, <2>4, StutterContract DEF Inv
  <1>. QED BY <1>1, <1>2, <1>3, <1>4 DEF Next, Done

LEMMA Invariant ==
    ASSUME Keeps
    PROVE  Spec => []Inv
  <1>1. Inv /\ [Next]_vars => Inv'
    BY NextStep
  <1>. QED BY <1>1, InitInv, PTL DEF Spec

\* Whichever of the two programs serves a request, a page finds what the page
\* before it left and leaves all its edits or none: acquiring, saving and
\* releasing a session, the time-outs of records and the death of a process
\* implement the contract, on every site whose settings Keeps describes.
THEOREM FarmImplementsContract ==
    ASSUME Keeps
    PROVE  Spec => ImplementsContract
  <1>1. Inv /\ [Next]_vars => Implements
    BY NextStep
  <1>. QED BY <1>1, InitInv, Invariant, PTL DEF Spec, ImplementsContract, Implements

\* No record is left behind under an id that no browser and no request can
\* name: SessionSave renames the record when the id rotates, SessionRemove
\* deletes it, and the place that SessionInsert keeps is the one that is
\* saved. On a site where processes die or commands are lost none is promised.
THEOREM NothingOrphaned ==
    ASSUME Keeps
    PROVE  Spec => []NoOrphans
  <1>1. Inv => NoOrphans
    <2>. SUFFICES ASSUME Inv, ~Crashes(site), NEW g \in Guid, store[g] # Absent
                  PROVE  \/ \E b \in Browsers : cookie[b] = g
                         \/ \E r \in Requests : InFlight(r) /\ g \in {req[r].id, req[r].old}
      BY DEF NoOrphans, Crashes
    <2> DEFINE b == BrowserOf[g[1]]
    <2>1. b \in Browsers
      BY SiteAssumption DEF Guid
    <2>2. CASE Serving(b) = {}
      BY <2>1, <2>2 DEF Inv, Between, Only
    <2>3. ASSUME NEW r \in Serving(b)
          PROVE  \/ cookie[b] = g
                 \/ \E q \in Requests : InFlight(q) /\ g \in {req[q].id, req[q].old}
      <3>1. r \in Requests /\ InFlight(r) /\ BrowserOf[r] = b
        BY DEF Serving
      <3>2. Only(store, BrowserOf[r], {cookie[b], req[r].id, req[r].old})
        BY <3>1 DEF Inv, During, Fits
      <3>. QED BY <3>1, <3>2 DEF Only
    <2>. QED BY <2>1, <2>2, <2>3
  <1>. QED BY <1>1, Invariant, PTL
=============================================================================
