-------------------- MODULE ClassicSessionContract_proofs --------------------
(***************************************************************************)
(* The session object keeps the contract of module SessionContract, for    *)
(* any number of browsers and requests, also when sessions time out and,   *)
(* as long as ids last, when connections and processes fail.               *)
(***************************************************************************)
EXTENDS ClassicSession_proofs, FiniteSetTheorems

\* Every browser sends its requests one after another, and none of what is
\* known to break the contract happens: no key expires in the hands of a
\* request, scripts call no method that changes the contents unmarked or
\* persists in between, and on a site whose ids rotate nothing fails, headers
\* are sent at the end, and sessions are not made read-only.
Orderly ==
    /\ IsFiniteSet(Requests)
    /\ Overlap = 1 /\ ~UrlIds /\ Expiry # "any"
    /\ Ops \subseteq {"put", "remove", "abandon", "liquidOn", "readonlyOn", "readonlyOff",
                      "reentrance", "flush"}
    /\ "liquidOn" \in Ops => ~Faults /\ "readonlyOn" \notin Ops /\ "flush" \notin Ops

\* Moreover nothing at all expires or fails, and no headers are sent early.
Calm == Orderly /\ Expiry = "never" /\ ~Faults /\ "flush" \notin Ops

Cookie(r) == cookie[BrowserOf[r]]

-----------------------------------------------------------------------------
(* The invariant: what a request holds, phase by phase *)

Here(st, i) == i \in Guid /\ st[i] # Absent

DataIn(st, i) == IF Here(st, i) THEN st[i].data ELSE {}

\* The key of the record that belongs to the browser of a request with the
\* object o in phase p, when the browser holds the cookie c.
KeyOf(o, p, c) ==
    CASE p \in {"idle", "get", "done"} -> c
      [] p = "insert" -> NoId
      [] p = "write" /\ o.blnLiquid -> o.guid
      [] p = "saved" -> IF o.blnCancel THEN NoId ELSE o.guid
      [] OTHER -> o.oldGuid

\* The browser b has a record under i, and no other.
Only(st, b, i) == \A g \in Guid : BrowserOf[g[1]] = b => (st[g] # Absent <=> g = i)

\* Nothing was saved, and the answer will tell the browser nothing.
Failed(o, p) == p = "saved" /\ o.bErrState /\ o.setCookie = NoId /\ ~o.headersSent

Flags(o, p) ==
    /\ ~o.executing /\ ~o.blnFoundURLGuid
    /\ o.blnLiquid => "liquidOn" \in Ops
    /\ o.bReadonly => "readonlyOn" \in Ops
    /\ o.headersSent => "flush" \in Ops
    /\ o.bErrState => Faults /\ p = "saved"
    /\ o.blnPersistDone => p = "saved"
    /\ o.blnExpired => o.blnNew /\ p # "get"
    /\ p \in {"get", "insert", "reget"} =>
          /\ ~o.blnCancel /\ ~o.blnLiquid /\ ~o.bReadonly /\ ~o.blnDirty /\ ~o.headersSent
          /\ o.setCookie = NoId /\ o.dict = {}
    /\ p = "rename" => o.blnLiquid /\ ~o.blnCancel
    /\ p = "write" => ~o.bReadonly /\ ~o.blnCancel
    /\ p = "delete" => o.blnCancel

\* Where the ids come from: the browser, or the request has drawn them.
Ids(r, o, p, c) ==
    /\ o.strGUID = o.guid
    /\ ~o.blnLiquid => o.guid = o.oldGuid
    /\ p = "get" => o.guid = c /\ (o.blnNew <=> c = NoId) /\ (c \in Guid => c[1] # r)
    /\ p \in {"insert", "reget"} => o.blnNew
    /\ p # "get" /\ ~Failed(o, p) =>
         /\ o.guid \in Guid /\ o.oldGuid \in Guid
         /\ IF o.headersSent THEN c = o.guid \/ (c = NoId /\ o.blnCancel)
            ELSE IF o.blnNew THEN o.guid[1] = r /\ (c \in Guid => c[1] # r)
            ELSE o.guid = c \/ o.guid[1] = r

\* What the browser knows of them, and what it will be told.
Told(o, p, c) ==
    /\ p # "get" /\ ~o.headersSent /\ ~o.blnNew => c = o.oldGuid
    /\ p \in {"run", "rename", "write", "delete", "saved"} /\ ~Failed(o, p) /\ ~o.headersSent =>
          IF o.blnCancel THEN o.setCookie = Kill
          ELSE o.setCookie = o.guid \/ (o.setCookie = NoId /\ c = o.guid)

\* The record it uses is there; a new session is not one the browser had.
Kept(o, p, c, st) ==
    /\ p = "insert" => ~Here(st, o.oldGuid)
    /\ p \in {"reget", "run", "rename", "write", "delete"} => Here(st, KeyOf(o, p, c))
    /\ p # "get" /\ ~o.headersSent /\ o.blnNew => ~Here(st, c)

\* How the contents of the record (d) and of the object relate: a new record
\* is empty until it is saved; what differs from an old one is marked dirty.
Written(o, p, d) ==
    /\ p \in {"reget", "run", "rename", "write", "delete"} =>
         IF o.blnNew THEN d = {} ELSE o.blnDirty \/ o.blnCancel \/ d = o.dict
    /\ p = "saved" /\ ~Failed(o, p) /\ ~o.blnCancel =>
         IF o.bReadonly \/ o.bErrState THEN o.blnNew => d = {} ELSE d = o.dict

\* Where a request is, with the store st and the cookie c of its browser.
Fits(r, o, p, c, st) ==
    /\ Flags(o, p) /\ Ids(r, o, p, c) /\ Told(o, p, c) /\ Kept(o, p, c, st)
    /\ Written(o, p, DataIn(st, KeyOf(o, p, c)))

Sound(r, o, p, c, st) ==
    /\ Calm => Only(st, BrowserOf[r], KeyOf(o, p, c))
    /\ p \notin {"idle", "done"} => Fits(r, o, p, c, st)

Alone ==
    \A q, r \in Requests : InFlight(q) /\ InFlight(r) /\ BrowserOf[q] = BrowserOf[r] => q = r

Between == Calm => \A b \in Browsers : RequestOf(b) = {} => Only(store, b, cookie[b])

During == \A r \in Requests : InFlight(r) => Sound(r, obj[r], phase[r], Cookie(r), store)

\* Cookies and records come from requests that have drawn an id.
Origins ==
    /\ \A b \in Browsers : cookie[b] \in Guid => phase[cookie[b][1]] # "idle"
    /\ \A g \in Guid : store[g] # Absent => phase[g[1]] \notin {"idle", "get", "insert"}

LiquidRecords == \A g \in Guid : store[g] # Absent => (store[g].liquid => "liquidOn" \in Ops)

OneRecord == Alone /\ Between /\ During /\ Origins /\ LiquidRecords

Inv == TypeInv /\ CookiesOwned /\ RecordsOwned /\ ObjectsOwned /\ OneRecord

-----------------------------------------------------------------------------
(* The contract, browser by browser *)

\* The answer of a request that has saved its session still decides (Undecided).
Open(o, c, st) ==
    Delivered(o, c) # c /\ (o.blnNew \/ (o.blnCancel /\ Here(st, o.oldGuid)))

\* What Content and PageOf are for the browser of such a request.
ContentAs(o, p, c, st) ==
    CASE p \in {"idle", "done"} -> DataIn(st, c)
      [] p = "saved" /\ ~Open(o, c, st) -> DataIn(st, Delivered(o, c))
      [] p = "saved" /\ Open(o, c, st) /\ o.blnNew -> {}
      [] p = "write" /\ o.blnLiquid -> DataIn(st, o.guid)
      [] OTHER -> DataIn(st, o.oldGuid)

NoPage == [running |-> FALSE, view |-> {}, ro |-> FALSE, gone |-> FALSE]

\* The page of a script.
ThePage(o) ==
    [running |-> TRUE, view |-> o.dict, ro |-> o.bReadonly, gone |-> o.blnCancel]

PageAs(o, p, c, st) ==
    IF \/ p \in {"run", "rename", "write", "delete"} /\ ~o.bErrState
       \/ p = "saved" /\ Open(o, c, st) /\ (o.blnCancel \/ ~o.bErrState)
    THEN ThePage(o)
    ELSE NoPage

\* The browser has no request in flight, except possibly r.
OnlyRequest(r) == RequestOf(BrowserOf[r]) \subseteq {r}

SeenAs ==
    \A r \in Requests :
       OnlyRequest(r) =>
          /\ Content(BrowserOf[r]) = ContentAs(obj[r], phase[r], Cookie(r), store)
          /\ PageOf(BrowserOf[r]) = PageAs(obj[r], phase[r], Cookie(r), store)

LEMMA DataOfIn ==
    ASSUME NEW i \in Id
    PROVE  DataOf(i) = DataIn(store, i) /\ (Lookup(i) # Absent <=> Here(store, i))
  BY SessionAssumption DEF DataOf, DataIn, Here, Lookup, Id

LEMMA Seen == TypeOK => SeenAs
  <1> SUFFICES ASSUME TypeOK, NEW r \in Requests, OnlyRequest(r)
               PROVE  /\ Content(BrowserOf[r]) = ContentAs(obj[r], phase[r], Cookie(r), store)
                      /\ PageOf(BrowserOf[r]) = PageAs(obj[r], phase[r], Cookie(r), store)
    BY DEF SeenAs
  <1> DEFINE b == BrowserOf[r]
             o == obj[r]
             c == Cookie(r)
  <1>1. /\ o \in NWCSession /\ phase[r] \in Phase /\ c \in Id
        /\ o.guid \in Id /\ o.oldGuid \in Id
    BY SessionAssumption DEF TypeOK, Cookie, NWCSession
  <1>2. Delivered(o, c) \in Id
    BY <1>1, DeliveredType
  <1>3. CASE ~InFlight(r)
    <2>1. RequestOf(b) = {}
      BY <1>3 DEF OnlyRequest, RequestOf
    <2>2. phase[r] \in {"idle", "done"}
      BY <1>1, <1>3 DEF InFlight
    <2>3. Content(b) = DataOf(c) /\ PageOf(b) = NoPage
      BY <2>1 DEF Content, PageOf, Cookie, NoPage
    <2>. QED BY <1>1, <2>2, <2>3, DataOfIn DEF ContentAs, PageAs
  <1>4. CASE InFlight(r)
    <2>1. RequestOf(b) = {r}
      BY <1>4 DEF OnlyRequest, RequestOf
    <2>2. (CHOOSE q \in {r} : TRUE) = r
      OBVIOUS
    <2>3. Content(b) = IF Undecided(r) /\ o.blnNew THEN {} ELSE DataOf(KeyHeld(r))
      BY <2>1, <2>2 DEF Content
    <2>4. PageOf(b) = IF Running(r) THEN ThePage(o) ELSE NoPage
      <3>1. CASE Running(r)
        <4>1. {q \in RequestOf(b) : Running(q)} = {r}
          BY <2>1, <3>1
        <4>. QED BY <2>2, <3>1, <4>1 DEF PageOf, ThePage
      <3>2. CASE ~Running(r)
        <4>1. {q \in RequestOf(b) : Running(q)} = {}
          BY <2>1, <3>2
        <4>. QED BY <3>2, <4>1 DEF PageOf, NoPage
      <3>. QED BY <3>1, <3>2
    <2>5. Undecided(r) <=> phase[r] = "saved" /\ Open(o, c, store)
      BY <1>1, DataOfIn DEF Undecided, Open, Cookie
    <2>6. PageOf(b) = PageAs(o, phase[r], c, store)
      BY <2>4, <2>5 DEF PageAs, Running
    <2>7. Content(b) = ContentAs(o, phase[r], c, store)
      <3>1. phase[r] \notin {"idle", "done"}
        BY <1>4 DEF InFlight
      <3>2. KeyHeld(r) = CASE phase[r] = "saved" /\ ~Open(o, c, store) -> Delivered(o, c)
                           [] phase[r] = "write" /\ o.blnLiquid -> o.guid
                           [] OTHER -> o.oldGuid
        BY <2>5 DEF KeyHeld, Cookie
      <3>3. KeyHeld(r) \in Id
        BY <1>1, <1>2, <3>2
      <3>4. DataOf(KeyHeld(r)) = DataIn(store, KeyHeld(r))
        BY <3>3, DataOfIn
      <3>. QED BY <2>3, <2>5, <3>1, <3>2, <3>4 DEF ContentAs
    <2>. QED BY <2>6, <2>7
  <1>. QED BY <1>3, <1>4

\* The same after a step.
LEMMA SeenNext == TypeOK' => SeenAs'
  BY Seen, PTL

-----------------------------------------------------------------------------
(* How the contents and the pages may change, by the contract *)

\* What one request may do to the contents and the page of its browser.
Turn(content, page, content2, page2) ==
    \/ content2 = content /\ page2 = page
    \/ /\ page = NoPage /\ content2 = content
       /\ page2 = [running |-> TRUE, view |-> content, ro |-> FALSE, gone |-> FALSE]
    \/ /\ page.running /\ content2 = content
       /\ \E view \in SUBSET Requests, ro \in BOOLEAN, gone \in BOOLEAN :
             /\ page.gone => gone
             /\ page2 = [running |-> TRUE, view |-> view, ro |-> ro, gone |-> gone]
    \/ /\ page.running /\ page2 = NoPage
       /\ content2 = IF page.gone THEN {} ELSE IF page.ro THEN content ELSE page.view
    \/ Faults /\ content2 = content /\ page2 = NoPage

\* What the death of its process may do to them.
Stop(content, page, content2, page2) ==
    \/ content2 = content /\ page2 = page
    \/ page2 = NoPage /\ (content2 = content \/ (content2 = {} /\ page.gone))

LEMMA AbortContract ==
    ASSUME Faults,
           \A x \in Browsers : Stop(Content(x), PageOf(x), Content(x)', PageOf(x)')
    PROVE  Contract!Next
  <1> DEFINE content == [x \in Browsers |-> Content(x)]
             page == [x \in Browsers |-> PageOf(x)]
             stopped == {x \in Browsers : PageOf(x)' # PageOf(x)}
             ended == {x \in Browsers : Content(x)' # Content(x)}
  <1>1. page' = [x \in Browsers |-> IF x \in stopped THEN NoPage ELSE page[x]]
    BY DEF Stop
  <1>2. content' = [x \in Browsers |-> IF x \in ended THEN {} ELSE content[x]]
    BY DEF Stop
  <1>3. Contract!Idle = NoPage
    BY DEF Contract!Idle, NoPage
  <1>4. stopped \in SUBSET Browsers /\ ended \in SUBSET {x \in stopped : page[x].gone}
    <2>1. ~NoPage.gone
      BY DEF NoPage
    <2>. QED BY <2>1 DEF Stop
  <1>5. Contract!Abort <=>
          /\ Faults
          /\ \E s \in SUBSET Browsers :
             \E e \in SUBSET {x \in s : page[x].gone} :
                /\ page' = [x \in Browsers |-> IF x \in s THEN Contract!Idle ELSE page[x]]
                /\ content' = [x \in Browsers |-> IF x \in e THEN {} ELSE content[x]]
    BY DEF Contract!Abort
  <1>. HIDE DEF content, page, stopped, ended
  <1>6. Contract!Abort
    BY <1>1, <1>2, <1>3, <1>4, <1>5
  <1>. QED BY <1>6 DEF Contract!Next

\* The contents of one browser time out while it has no page.
LEMMA LapseContract ==
    ASSUME Expiry # "never", NEW b \in Browsers, PageOf(b) = NoPage, Content(b)' = {},
           \A x \in Browsers : /\ PageOf(x)' = PageOf(x)
                               /\ x # b => Content(x)' = Content(x)
    PROVE  Contract!Next
  <1> DEFINE content == [x \in Browsers |-> Content(x)]
             page == [x \in Browsers |-> PageOf(x)]
  <1>1. page' = page /\ ~page[b].running
    BY DEF NoPage
  <1>2. content' = [content EXCEPT ![b] = {}]
    OBVIOUS
  <1>3. Contract!Lapse(b) <=>
          /\ Expiry # "never"
          /\ ~page[b].running
          /\ content' = [content EXCEPT ![b] = {}]
          /\ page' = page
    BY DEF Contract!Lapse
  <1>. HIDE DEF content, page
  <1>4. Contract!Lapse(b)
    BY <1>1, <1>2, <1>3
  <1>. QED BY <1>4 DEF Contract!Next

LEMMA PageEqual ==
    ASSUME NEW a \in Contract!Page, NEW b \in Contract!Page,
           a.running = b.running, a.view = b.view, a.ro = b.ro, a.gone = b.gone
    PROVE  a = b
  BY DEF Contract!Page

\* The page that a browser without one begins.
LEMMA Begun ==
    ASSUME NEW x \in SUBSET Requests
    PROVE  [NoPage EXCEPT !.running = TRUE, !.view = x]
              = [running |-> TRUE, view |-> x, ro |-> FALSE, gone |-> FALSE]
  <1> DEFINE a == [NoPage EXCEPT !.running = TRUE, !.view = x]
             b == [running |-> TRUE, view |-> x, ro |-> FALSE, gone |-> FALSE]
  <1>1. /\ NoPage \in Contract!Page /\ NoPage.running = FALSE /\ NoPage.view = {}
        /\ NoPage.ro = FALSE /\ NoPage.gone = FALSE
    BY DEF NoPage, Contract!Page
  <1>2. /\ a \in Contract!Page /\ a.running = TRUE /\ a.view = x
        /\ a.ro = FALSE /\ a.gone = FALSE
    BY <1>1 DEF Contract!Page
  <1>3. /\ b \in Contract!Page /\ b.running = TRUE /\ b.view = x
        /\ b.ro = FALSE /\ b.gone = FALSE
    BY DEF Contract!Page
  <1>. HIDE DEF a, b
  <1>4. a = b
    BY <1>2, <1>3, PageEqual
  <1>. QED BY <1>4 DEF a, b

\* Such a step is one of the contract, or changes nothing it can see.
LEMMA TurnContract ==
    ASSUME NEW b \in Browsers, Content(b) \in SUBSET Requests,
           Turn(Content(b), PageOf(b), Content(b)', PageOf(b)'),
           \A x \in Browsers \ {b} : Content(x)' = Content(x) /\ PageOf(x)' = PageOf(x)
    PROVE  [Contract!Next]_(Contract!cvars)
  <1> DEFINE content == [x \in Browsers |-> Content(x)]
             page == [x \in Browsers |-> PageOf(x)]
             content2 == Content(b)'
             page2 == PageOf(b)'
  <1>1. /\ content' = [content EXCEPT ![b] = content2]
        /\ page' = [page EXCEPT ![b] = page2]
    OBVIOUS
  <1>2. Turn(content[b], page[b], content2, page2) /\ content[b] \in SUBSET Requests
    OBVIOUS
  <1>3. content = [x \in Browsers |-> content[x]] /\ page = [x \in Browsers |-> page[x]]
    OBVIOUS
  <1>4. Contract!Begin(b) <=> /\ ~page[b].running
                              /\ page' = [page EXCEPT ![b] = [Contract!Idle EXCEPT
                                             !.running = TRUE, !.view = content[b]]]
                              /\ UNCHANGED content
    BY DEF Contract!Begin
  <1>5. Contract!Edit(b) <=>
            /\ page[b].running
            /\ \E view \in SUBSET Requests, ro \in BOOLEAN, gone \in BOOLEAN :
                  /\ page[b].gone => gone
                  /\ page' = [page EXCEPT ![b] = [running |-> TRUE, view |-> view,
                                                  ro |-> ro, gone |-> gone]]
            /\ UNCHANGED content
    BY DEF Contract!Edit
  <1>6. Contract!End(b) <=>
            /\ page[b].running
            /\ content' = [content EXCEPT ![b] = IF page[b].gone THEN {}
                                                 ELSE IF page[b].ro THEN content[b]
                                                 ELSE page[b].view]
            /\ page' = [page EXCEPT ![b] = Contract!Idle]
    BY DEF Contract!End, Contract!Outcome
  <1>7. UNCHANGED <<content, page>> => UNCHANGED Contract!cvars
    BY DEF Contract!cvars
  <1>8. Contract!Begin(b) \/ Contract!Edit(b) \/ Contract!End(b) => Contract!Next
    BY DEF Contract!Next
  <1>9. Contract!Idle = NoPage /\ ~NoPage.running
    BY DEF Contract!Idle, NoPage
  <1>10. Faults /\ content2 = content[b] /\ page2 = NoPage => Contract!Next
    <2> SUFFICES ASSUME Faults, Content(b)' = Content(b), PageOf(b)' = NoPage
                 PROVE  Contract!Next
      OBVIOUS
    <2>1. \A x \in Browsers : Stop(Content(x), PageOf(x), Content(x)', PageOf(x)')
      BY DEF Stop
    <2>. QED BY <2>1, AbortContract
  <1>. HIDE DEF content, page, content2, page2
  <1>11. CASE content2 = content[b] /\ page2 = page[b]
    BY <1>1, <1>3, <1>7, <1>11
  <1>12. CASE /\ page[b] = NoPage /\ content2 = content[b]
              /\ page2 = [running |-> TRUE, view |-> content[b], ro |-> FALSE, gone |-> FALSE]
    <2>1. [Contract!Idle EXCEPT !.running = TRUE, !.view = content[b]] = page2
      BY <1>2, <1>9, <1>12, Begun
    <2>2. ~page[b].running /\ UNCHANGED content
      BY <1>1, <1>3, <1>9, <1>12
    <2>. QED BY <1>1, <1>4, <1>8, <2>1, <2>2
  <1>13. CASE /\ page[b].running /\ content2 = content[b]
              /\ \E view \in SUBSET Requests, ro \in BOOLEAN, gone \in BOOLEAN :
                    /\ page[b].gone => gone
                    /\ page2 = [running |-> TRUE, view |-> view, ro |-> ro, gone |-> gone]
    <2>1. UNCHANGED content
      BY <1>1, <1>3, <1>13
    <2>. QED BY <1>1, <1>5, <1>8, <1>13, <2>1
  <1>14. CASE /\ page[b].running /\ page2 = NoPage
              /\ content2 = IF page[b].gone THEN {}
                            ELSE IF page[b].ro THEN content[b] ELSE page[b].view
    BY <1>1, <1>6, <1>8, <1>9, <1>14
  <1>15. CASE Faults /\ content2 = content[b] /\ page2 = NoPage
    BY <1>10, <1>15
  <1>. QED BY <1>2, <1>11, <1>12, <1>13, <1>14, <1>15 DEF Turn

-----------------------------------------------------------------------------
(* A step of one request, and what it leaves alone *)

LEMMA Facts ==
    ASSUME Inv, NEW r \in Requests
    PROVE  /\ obj[r] \in NWCSession /\ phase[r] \in Phase /\ Cookie(r) \in Id
           /\ obj[r].guid \in Id /\ obj[r].oldGuid \in Id
           /\ Mine(r, obj[r].guid) /\ Mine(r, obj[r].oldGuid) /\ Mine(r, Cookie(r))
           /\ Mine(r, obj[r].setCookie)
           /\ cookie = [cookie EXCEPT ![BrowserOf[r]] = Cookie(r)]
           /\ store \in [Guid -> Record \cup {Absent}]
           /\ BrowserOf[r] \in Browsers /\ NoId \notin Guid /\ Kill \notin Id
           /\ Absent \notin Record
  BY SessionAssumption
  DEF Inv, TypeInv, TypeOK, NWCSession, Cookie, ObjectsOwned, CookiesOwned, Owned, Record,
      Mine

LEMMA Flying ==
    ASSUME Inv, NEW r \in Requests, InFlight(r)
    PROVE  /\ OnlyRequest(r)
           /\ Calm => Only(store, BrowserOf[r], KeyOf(obj[r], phase[r], Cookie(r)))
           /\ Fits(r, obj[r], phase[r], Cookie(r), store)
  BY DEF Inv, OneRecord, Alone, During, Sound, OnlyRequest, RequestOf, InFlight

\* Two stores that differ in records of other browsers only.
Same(q, st, st2) == \A g \in Guid : BrowserOf[g[1]] = BrowserOf[q] => st2[g] = st[g]

LEMMA SameRecords ==
    ASSUME NEW q \in Requests, NEW o \in NWCSession, NEW p, NEW c \in Id, NEW st, NEW st2,
           Mine(q, o.guid), Mine(q, o.oldGuid), Mine(q, o.setCookie), Mine(q, c),
           Same(q, st, st2)
    PROVE  /\ Sound(q, o, p, c, st) => Sound(q, o, p, c, st2)
           /\ ContentAs(o, p, c, st2) = ContentAs(o, p, c, st)
           /\ PageAs(o, p, c, st2) = PageAs(o, p, c, st)
  <1>1. ASSUME NEW i, Mine(q, i)
        PROVE  (Here(st2, i) <=> Here(st, i)) /\ DataIn(st2, i) = DataIn(st, i)
    BY <1>1 DEF Same, Here, DataIn, Mine
  <1>2. Mine(q, NoId)
    BY SessionAssumption DEF Mine
  <1>3. Mine(q, KeyOf(o, p, c))
    BY <1>2 DEF KeyOf
  <1>4. Mine(q, Delivered(o, c))
    BY <1>2 DEF Delivered
  <1>5. Open(o, c, st2) <=> Open(o, c, st)
    BY <1>1 DEF Open
  <1>6. ContentAs(o, p, c, st2) = ContentAs(o, p, c, st)
    BY <1>1, <1>4, <1>5 DEF ContentAs
  <1>7. PageAs(o, p, c, st2) = PageAs(o, p, c, st)
    BY <1>5 DEF PageAs
  <1>8. Kept(o, p, c, st) => Kept(o, p, c, st2)
    BY <1>1, <1>3 DEF Kept
  <1>9. Fits(q, o, p, c, st) => Fits(q, o, p, c, st2)
    BY <1>1, <1>3, <1>8 DEF Fits
  <1>10. ASSUME NEW i, Only(st, BrowserOf[q], i)  PROVE Only(st2, BrowserOf[q], i)
    BY <1>10 DEF Only, Same
  <1>. QED BY <1>6, <1>7, <1>9, <1>10 DEF Sound

\* Request r goes on to phase p with the object n, its browser to the cookie c.
Step(r, n, p, c) ==
    /\ n \in NWCSession /\ p \in Phase \ {"idle"}
    /\ p \in {"get", "insert"} => phase[r] \in {"idle", "get"}
    /\ obj' = [obj EXCEPT ![r] = n]
    /\ phase' = [phase EXCEPT ![r] = p]
    /\ cookie' = [cookie EXCEPT ![BrowserOf[r]] = c]
    /\ c \in Guid => c = Cookie(r) \/ c[1] = r
    /\ \A g \in Guid : store'[g] # Absent =>
          store[g] # Absent \/ (g[1] = r /\ p \notin {"get", "insert"})
    /\ \A g \in Guid : BrowserOf[g[1]] # BrowserOf[r] => store'[g] = store[g]
    /\ Sound(r, n, p, c, store')
    /\ Turn(ContentAs(obj[r], phase[r], Cookie(r), store),
            PageAs(obj[r], phase[r], Cookie(r), store),
            ContentAs(n, p, c, store'), PageAs(n, p, c, store'))

\* The record of another browser, and where it is, do not change.
LEMMA OthersSound ==
    ASSUME Inv, NEW r \in Requests, NEW n, NEW p, NEW c, Step(r, n, p, c),
           NEW q \in Requests, BrowserOf[q] # BrowserOf[r]
    PROVE  /\ obj'[q] = obj[q] /\ phase'[q] = phase[q] /\ Cookie(q)' = Cookie(q)
           /\ ContentAs(obj[q], phase[q], Cookie(q), store')
                 = ContentAs(obj[q], phase[q], Cookie(q), store)
           /\ PageAs(obj[q], phase[q], Cookie(q), store')
                 = PageAs(obj[q], phase[q], Cookie(q), store)
           /\ Sound(q, obj[q], phase[q], Cookie(q), store)
                 => Sound(q, obj[q], phase[q], Cookie(q), store')
  <1>1. obj'[q] = obj[q] /\ phase'[q] = phase[q] /\ Cookie(q)' = Cookie(q)
    BY SessionAssumption DEF Step, Inv, TypeInv, TypeOK, Cookie
  <1>2. Same(q, store, store')
    BY DEF Step, Same
  <1>. QED BY <1>1, <1>2, SameRecords, Facts

LEMMA StepOrderly ==
    ASSUME Inv, NEW r \in Requests, OnlyRequest(r), NEW n, NEW p, NEW c, Step(r, n, p, c)
    PROVE  Alone' /\ Between' /\ During' /\ Origins'
  <1>1. /\ phase' = [phase EXCEPT ![r] = p] /\ phase \in [Requests -> Phase]
        /\ obj' = [obj EXCEPT ![r] = n] /\ obj \in [Requests -> NWCSession]
        /\ cookie' = [cookie EXCEPT ![BrowserOf[r]] = c] /\ cookie \in [Browsers -> Id]
        /\ BrowserOf \in [Requests -> Browsers]
    BY SessionAssumption DEF Step, Inv, TypeInv, TypeOK
  <1>2. ASSUME NEW q \in Requests, BrowserOf[q] = BrowserOf[r], q # r
        PROVE  ~InFlight(q)'
    BY <1>1, <1>2 DEF OnlyRequest, RequestOf, InFlight
  <1>3. ASSUME NEW q \in Requests, q # r  PROVE InFlight(q)' <=> InFlight(q)
    BY <1>1, <1>3 DEF InFlight
  <1>4. Alone'
    BY <1>2, <1>3 DEF Alone, Inv, OneRecord
  <1>5. During'
    <2> SUFFICES ASSUME NEW q \in Requests, InFlight(q)'
                 PROVE  Sound(q, obj'[q], phase'[q], Cookie(q)', store')
      BY DEF During
    <2>1. CASE q = r
      <3>1. obj'[r] = n /\ phase'[r] = p /\ Cookie(r)' = c
        BY <1>1 DEF Cookie
      <3>. QED BY <2>1, <3>1 DEF Step
    <2>2. CASE q # r
      <3>1. BrowserOf[q] # BrowserOf[r] /\ InFlight(q)
        BY <1>2, <1>3, <2>2
      <3>2. Sound(q, obj[q], phase[q], Cookie(q), store)
        BY <3>1 DEF Inv, OneRecord, During
      <3>. QED BY <3>1, <3>2, OthersSound
    <2>. QED BY <2>1, <2>2
  <1>6. Between'
    <2> SUFFICES ASSUME Calm, NEW b \in Browsers, RequestOf(b)' = {}
                 PROVE  Only(store', b, cookie'[b])
      BY DEF Between, Calm, Orderly
    <2>1. CASE b = BrowserOf[r]
      <3>1. ~InFlight(r)' /\ cookie'[b] = c
        BY <1>1, <2>1 DEF RequestOf
      <3>2. p = "done"
        BY <1>1, <3>1 DEF InFlight, Step
      <3>. QED BY <2>1, <3>1, <3>2 DEF Step, Sound, KeyOf
    <2>2. CASE b # BrowserOf[r]
      <3>1. cookie'[b] = cookie[b]
        BY <1>1, <2>2
      <3>2. RequestOf(b) = {}
        BY <1>3, <2>2 DEF RequestOf
      <3>3. Only(store, b, cookie[b])
        BY <3>2 DEF Inv, OneRecord, Between
      <3>. QED BY <2>2, <3>1, <3>3 DEF Step, Only
    <2>. QED BY <2>1, <2>2
  <1>7. Origins'
    <2>1. ASSUME NEW b \in Browsers, cookie'[b] \in Guid
          PROVE  phase'[cookie'[b][1]] # "idle"
      <3>1. cookie'[b] = cookie[b] \/ cookie'[b][1] = r
        BY <1>1, <2>1 DEF Step, Cookie
      <3>2. cookie'[b][1] \in Requests
        BY <2>1 DEF Guid
      <3>3. \A q \in Requests : phase[q] # "idle" => phase'[q] # "idle"
        BY <1>1 DEF Step
      <3>4. phase'[r] # "idle"
        BY <1>1 DEF Step
      <3>. QED BY <2>1, <3>1, <3>2, <3>3, <3>4 DEF Inv, OneRecord, Origins
    <2>2. ASSUME NEW g \in Guid, store'[g] # Absent
          PROVE  phase'[g[1]] \notin {"idle", "get", "insert"}
      <3>1. g[1] \in Requests
        BY DEF Guid
      <3>2. CASE store[g] # Absent
        <4>1. phase[g[1]] \notin {"idle", "get", "insert"}
          BY <3>2 DEF Inv, OneRecord, Origins
        <4>. QED BY <1>1, <3>1, <4>1 DEF Step
      <3>3. CASE g[1] = r /\ p \notin {"get", "insert"}
        BY <1>1, <3>3 DEF Step
      <3>. QED BY <2>2, <3>2, <3>3 DEF Step
    <2>. QED BY <2>1, <2>2 DEF Origins
  <1>. QED BY <1>4, <1>5, <1>6, <1>7

LEMMA StepContract ==
    ASSUME Inv, TypeOK', NEW r \in Requests, OnlyRequest(r), NEW n, NEW p, NEW c,
           Step(r, n, p, c)
    PROVE  [Contract!Next]_(Contract!cvars)
  <1> DEFINE b == BrowserOf[r]
             content2 == ContentAs(n, p, c, store')
             page2 == PageAs(n, p, c, store')
  <1>1. /\ phase' = [phase EXCEPT ![r] = p] /\ phase \in [Requests -> Phase]
        /\ obj' = [obj EXCEPT ![r] = n] /\ obj \in [Requests -> NWCSession]
        /\ cookie' = [cookie EXCEPT ![b] = c] /\ cookie \in [Browsers -> Id]
        /\ BrowserOf \in [Requests -> Browsers] /\ b \in Browsers /\ TypeOK
    BY SessionAssumption DEF Step, Inv, TypeInv, TypeOK
  <1>2. OnlyRequest(r)'
    BY <1>1 DEF OnlyRequest, RequestOf, InFlight
  <1>3. /\ Content(b) = ContentAs(obj[r], phase[r], Cookie(r), store)
        /\ PageOf(b) = PageAs(obj[r], phase[r], Cookie(r), store)
    BY <1>1, Seen DEF SeenAs
  <1>4. Content(b)' = content2 /\ PageOf(b)' = page2
    <2>1. obj'[r] = n /\ phase'[r] = p /\ Cookie(r)' = c
      BY <1>1 DEF Cookie
    <2>. QED BY <1>2, <2>1, SeenNext DEF SeenAs
  <1>5. ASSUME NEW x \in Browsers, x # b
        PROVE  Content(x)' = Content(x) /\ PageOf(x)' = PageOf(x)
    <2>1. RequestOf(x)' = RequestOf(x)
      BY <1>1, <1>5 DEF RequestOf, InFlight
    <2>2. CASE RequestOf(x) = {}
      <3>1. Content(x) = DataOf(cookie[x]) /\ Content(x)' = DataOf(cookie[x])'
            /\ PageOf(x) = NoPage /\ PageOf(x)' = NoPage
        BY <2>1, <2>2 DEF Content, PageOf, NoPage
      <3>2. cookie'[x] = cookie[x] /\ cookie[x] \in Id
        BY <1>1, <1>5
      <3>3. cookie[x] \in Guid => store'[cookie[x]] = store[cookie[x]]
        BY <1>5, SessionAssumption DEF Inv, CookiesOwned, Step
      <3>. QED BY <3>1, <3>2, <3>3 DEF DataOf, Lookup, Id
    <2>3. ASSUME NEW q \in RequestOf(x)
          PROVE  Content(x)' = Content(x) /\ PageOf(x)' = PageOf(x)
      <3>1. q \in Requests /\ BrowserOf[q] = x /\ OnlyRequest(q) /\ OnlyRequest(q)'
        BY <2>1 DEF RequestOf, OnlyRequest, Inv, OneRecord, Alone
      <3>2. /\ Content(x) = ContentAs(obj[q], phase[q], Cookie(q), store)
            /\ PageOf(x) = PageAs(obj[q], phase[q], Cookie(q), store)
            /\ Content(x)' = ContentAs(obj'[q], phase'[q], Cookie(q)', store')
            /\ PageOf(x)' = PageAs(obj'[q], phase'[q], Cookie(q)', store')
        BY <1>1, <3>1, Seen, SeenNext DEF SeenAs
      <3>. QED BY <1>5, <3>1, <3>2, OthersSound
    <2>. QED BY <2>2, <2>3
  <1>6. Content(b) \in SUBSET Requests
    BY <1>1, <1>3 DEF ContentAs, DataIn, Here, TypeOK, Record
  <1>7. Turn(Content(b), PageOf(b), Content(b)', PageOf(b)')
    BY <1>3, <1>4 DEF Step
  <1>. HIDE DEF b
  <1>. QED BY <1>1, <1>5, <1>6, <1>7, TurnContract

-----------------------------------------------------------------------------
(* OnStartPage *)

\* NewID and WriteCookie leave all this as it was.
Like(n, o) ==
    /\ n \in NWCSession
    /\ n.oldGuid = o.oldGuid /\ n.dict = o.dict
    /\ n.blnLiquid = o.blnLiquid /\ n.blnNew = o.blnNew /\ n.blnExpired = o.blnExpired
    /\ n.headersSent = o.headersSent /\ n.bErrState = o.bErrState
    /\ (n.executing <=> o.executing) /\ n.blnFoundURLGuid = o.blnFoundURLGuid
    /\ n.bReadonly = o.bReadonly /\ n.blnPersistDone = o.blnPersistDone
    /\ n.blnCancel = o.blnCancel /\ n.blnDirty = o.blnDirty

LEMMA NewIDLike ==
    ASSUME NEW r \in Requests, NEW o \in NWCSession, o.draws \in Draws,
           o.blnLiquid \/ o.blnNew
    PROVE  /\ Like(NewID(r, o), o)
           /\ NewID(r, o).guid \in Guid /\ NewID(r, o).guid[1] = r
           /\ NewID(r, o).strGUID = NewID(r, o).guid
           /\ NewID(r, o).setCookie = o.setCookie
  <1>1. <<r, o.draws>> \in Guid
    BY DEF Guid
  <1>2. NewID(r, o) \in NWCSession
    BY NewIDType
  <1>. QED BY <1>1, <1>2 DEF NewID, NWCSession, Like

LEMMA WriteCookieLike ==
    ASSUME NEW o \in NWCSession
    PROVE  /\ Like(WriteCookie(o), o)
           /\ WriteCookie(o).guid = o.guid /\ WriteCookie(o).strGUID = o.strGUID
           /\ WriteCookie(o).setCookie = IF o.headersSent THEN o.setCookie
                                         ELSE IF o.blnCancel THEN Kill ELSE o.strGUID
  <1>1. WriteCookie(o) \in NWCSession
    BY WriteCookieType
  <1>. QED BY <1>1 DEF WriteCookie, NWCSession, Like

LEMMA ReturnedLike ==
    ASSUME NEW o \in NWCSession, ~o.executing
    PROVE  /\ Like(Returned(o), o)
           /\ Returned(o).guid = o.guid /\ Returned(o).strGUID = o.strGUID
           /\ Returned(o).setCookie = o.setCookie
  <1>1. Returned(o) \in NWCSession
    BY ReturnedType
  <1>2. (IF o.executing THEN o.saveliquid ELSE o.blnLiquid) = o.blnLiquid
    OBVIOUS
  <1>3. Returned(o).blnLiquid = o.blnLiquid
    BY <1>2 DEF Returned, NWCSession
  <1>4. ~Returned(o).executing
    BY DEF Returned, NWCSession
  <1>. QED BY <1>1, <1>3, <1>4 DEF Returned, NWCSession, Like

\* An object that dbInit has not given anything yet.
Blank(o) ==
    /\ ~o.blnCancel /\ ~o.blnLiquid /\ ~o.bReadonly /\ ~o.blnDirty /\ ~o.headersSent
    /\ ~o.bErrState /\ ~o.executing /\ ~o.blnFoundURLGuid /\ ~o.blnPersistDone
    /\ o.setCookie = NoId /\ o.dict = {}

LEMMA Unread ==
    ASSUME NEW r, NEW o, NEW p \in {"get", "insert", "reget"}, NEW c, NEW st,
           Fits(r, o, p, c, st)
    PROVE  Blank(o) /\ o.strGUID = o.guid /\ o.guid = o.oldGuid
  BY DEF Fits, Flags, Ids, Blank

\* A request begins when its browser has no other one: one at a time.
LEMMA StartStep ==
    ASSUME Orderly, Inv, NEW r \in Requests, Start(r)
    PROVE  OnlyRequest(r) /\ LiquidRecords' /\ \E n, p, c : Step(r, n, p, c)
  <1> DEFINE b == BrowserOf[r]
             c == Cookie(r)
             n == [NewObject EXCEPT !.guid = c, !.oldGuid = c, !.strGUID = c,
                                    !.blnNew = (c = NoId), !.blnFoundURLGuid = FALSE]
  <1>1. RequestOf(b) = {}
    <2>1. RequestOf(b) = {q \in Requests : BrowserOf[q] = BrowserOf[r] /\ InFlight(q)}
      BY DEF RequestOf
    <2>2. Cardinality(RequestOf(b)) < 1
      BY <2>1 DEF Start, Orderly
    <2>3. IsFiniteSet(RequestOf(b))
      BY <2>1, FS_Subset DEF Orderly
    <2>. QED BY <2>2, <2>3, FS_CardinalityType, FS_EmptySet
  <1>2. /\ obj' = [obj EXCEPT ![r] = n] /\ phase' = [phase EXCEPT ![r] = "get"]
        /\ cookie' = [cookie EXCEPT ![b] = c] /\ store' = store /\ phase[r] = "idle"
    BY Facts DEF Start, Orderly, Cookie
  <1>3. /\ n \in NWCSession /\ n.guid = c /\ n.oldGuid = c /\ n.strGUID = c
        /\ n.blnNew = (c = NoId) /\ ~n.blnExpired /\ Blank(n)
    <2>1. (c = NoId) \in BOOLEAN /\ c \in Id
      BY Facts
    <2>2. /\ ~NewObject.headersSent /\ ~NewObject.bErrState /\ ~NewObject.executing
          /\ ~NewObject.blnExpired /\ ~NewObject.blnLiquid /\ ~NewObject.bReadonly
          /\ ~NewObject.blnPersistDone /\ ~NewObject.blnCancel /\ ~NewObject.blnDirty
          /\ NewObject.setCookie = NoId /\ NewObject.dict = {}
      BY DEF NewObject
    <2>. HIDE DEF c
    <2>. QED BY <2>1, <2>2, NewObjectType DEF NWCSession, Blank
  <1>. HIDE DEF n
  <1>4. c \in Guid => c[1] # r
    BY <1>2, Facts DEF Inv, OneRecord, Origins, Cookie
  <1>5. Sound(r, n, "get", c, store)
    <2>1. Calm => Only(store, b, c)
      BY <1>1, Facts DEF Inv, OneRecord, Between, Cookie
    <2>2. Flags(n, "get")
      BY <1>3 DEF Flags, Blank
    <2>3. Ids(r, n, "get", c)
      BY <1>3, <1>4 DEF Ids, Blank
    <2>4. Told(n, "get", c) /\ Kept(n, "get", c, store)
          /\ Written(n, "get", DataIn(store, KeyOf(n, "get", c)))
      BY DEF Told, Kept, Written
    <2>. QED BY <2>1, <2>2, <2>3, <2>4 DEF Sound, KeyOf, Fits
  <1>6. Turn(ContentAs(obj[r], "idle", c, store), PageAs(obj[r], "idle", c, store),
             ContentAs(n, "get", c, store), PageAs(n, "get", c, store))
    BY <1>3 DEF Turn, ContentAs, PageAs
  <1>7. Step(r, n, "get", c)
    BY <1>2, <1>3, <1>5, <1>6 DEF Step, Phase
  <1>. QED BY <1>1, <1>2, <1>7 DEF OnlyRequest, Inv, OneRecord, LiquidRecords

\* The record is there: the page begins with its contents.
LEMMA GetFoundStep ==
    ASSUME Orderly, Inv, NEW r \in Requests, GetFound(r)
    PROVE  OnlyRequest(r) /\ LiquidRecords' /\ \E n, p, c : Step(r, n, p, c)
  <1> DEFINE b == BrowserOf[r]
             c == Cookie(r)
             o == obj[r]
             rec == Lookup(o.guid)
             o2 == [o EXCEPT !.blnReEntrance = rec.reent, !.blnLiquid = rec.liquid,
                             !.dict = rec.data]
             o3 == IF o2.blnLiquid THEN NewID(r, o2) ELSE o2
             o4 == IF o3.blnLiquid \/ o3.blnNew \/ o3.blnExpired THEN WriteCookie(o3) ELSE o3
             n == Returned(o4)
  <1>1. phase[r] = "get" /\ InFlight(r) /\ rec # Absent /\ UNCHANGED <<store, cookie>>
    BY DEF GetFound, InFlight
  <1>2. /\ OnlyRequest(r) /\ (Calm => Only(store, b, c)) /\ Fits(r, o, "get", c, store)
        /\ o.guid = c /\ o.oldGuid = c /\ o.strGUID = c /\ c \in Guid /\ c[1] # r
        /\ rec = store[c] /\ rec \in Record
        /\ o \in NWCSession /\ ~o.blnNew /\ ~o.blnExpired /\ Blank(o)
    <2>1. /\ OnlyRequest(r) /\ (Calm => Only(store, b, c)) /\ Fits(r, o, "get", c, store)
          /\ o \in NWCSession
      BY <1>1, Flying, Facts DEF KeyOf
    <2>2. Blank(o) /\ o.strGUID = o.guid /\ o.guid = o.oldGuid
      BY <2>1, Unread
    <2>3. o.guid = c /\ (o.blnNew <=> c = NoId) /\ (c \in Guid => c[1] # r)
      BY <2>1 DEF Fits, Ids
    <2>4. c \in Guid /\ rec = store[c]
      BY <1>1, <2>3, Facts DEF Lookup, Id
    <2>5. rec \in Record
      BY <1>1, <2>4, Facts
    <2>6. o.blnExpired => o.blnNew
      BY <2>1 DEF Fits, Flags
    <2>. QED BY <2>1, <2>2, <2>3, <2>4, <2>5, <2>6, Facts
  <1>3. obj' = [obj EXCEPT ![r] = n] /\ phase' = [phase EXCEPT ![r] = "run"]
        /\ cookie' = [cookie EXCEPT ![b] = c]
    <2>1. ~(~o.blnNew /\ ~o.blnExpired /\ o.blnFoundURLGuid /\ ~rec.reent)
      BY <1>2 DEF Blank
    <2>. QED BY <1>1, <2>1, Facts DEF GetFound
  <1>4. /\ o2 \in NWCSession /\ o2.blnLiquid = rec.liquid /\ o2.dict = rec.data
        /\ o2.guid = c /\ o2.oldGuid = c /\ o2.strGUID = c /\ ~o2.blnNew /\ ~o2.blnExpired
        /\ ~o2.headersSent /\ ~o2.bErrState /\ ~o2.executing /\ ~o2.blnFoundURLGuid
        /\ ~o2.bReadonly /\ ~o2.blnPersistDone /\ ~o2.blnCancel
        /\ o2.setCookie = NoId /\ o2.draws = o.draws
    <2>1. /\ rec.reent \in BOOLEAN /\ rec.liquid \in BOOLEAN /\ rec.data \in SUBSET Requests
      BY <1>2 DEF Record
    <2>. HIDE DEF rec, o, c
    <2>. QED BY <1>2, <2>1 DEF NWCSession, Blank
  <1>5. o.draws \in Draws
    BY <1>1, DrawAllowed DEF Inv
  <1>. HIDE DEF o2
  <1>6. /\ o3 \in NWCSession /\ o3.blnLiquid = rec.liquid /\ o3.dict = rec.data
        /\ o3.guid \in Guid /\ o3.strGUID = o3.guid /\ o3.oldGuid = c
        /\ (~rec.liquid => o3.guid = c) /\ (o3.guid = c \/ o3.guid[1] = r)
        /\ ~o3.blnNew /\ ~o3.blnExpired
        /\ ~o3.headersSent /\ ~o3.bErrState /\ ~o3.executing /\ ~o3.blnFoundURLGuid
        /\ ~o3.bReadonly /\ ~o3.blnPersistDone /\ ~o3.blnCancel
        /\ o3.setCookie = NoId
    <2>1. CASE ~o2.blnLiquid
      BY <1>2, <1>4, <2>1
    <2>2. CASE o2.blnLiquid
      <3>1. /\ Like(NewID(r, o2), o2) /\ NewID(r, o2).guid \in Guid
            /\ NewID(r, o2).strGUID = NewID(r, o2).guid /\ NewID(r, o2).guid[1] = r
            /\ NewID(r, o2).setCookie = o2.setCookie
        BY <1>4, <1>5, <2>2, NewIDLike
      <3>2. o3 = NewID(r, o2)
        BY <2>2
      <3>. HIDE DEF rec, o, c, o3
      <3>. QED BY <1>4, <2>2, <3>1, <3>2 DEF Like
    <2>. QED BY <2>1, <2>2
  <1>. HIDE DEF o3
  <1>7. /\ n \in NWCSession /\ n.blnLiquid = rec.liquid /\ n.dict = rec.data
        /\ n.guid \in Guid /\ n.strGUID = n.guid /\ n.oldGuid = c
        /\ (~rec.liquid => n.guid = c) /\ (n.guid = c \/ n.guid[1] = r)
        /\ ~n.blnNew /\ ~n.blnExpired
        /\ ~n.headersSent /\ ~n.bErrState /\ ~n.executing /\ ~n.blnFoundURLGuid
        /\ ~n.bReadonly /\ ~n.blnPersistDone /\ ~n.blnCancel
        /\ n.setCookie = n.guid \/ (n.setCookie = NoId /\ n.guid = c)
    <2>1. CASE o3.blnLiquid
      <3>1. /\ Like(o4, o3) /\ o4.guid = o3.guid /\ o4.strGUID = o3.guid
            /\ o4.setCookie = o3.guid
        BY <1>6, <2>1, WriteCookieLike
      <3>. HIDE DEF rec, o, c, o4
      <3>. QED BY <1>6, <3>1, ReturnedLike DEF Like
    <2>2. CASE ~o3.blnLiquid
      <3>. o4 = o3
        BY <1>6, <2>2
      <3>. HIDE DEF rec, o, c, o4
      <3>. QED BY <1>6, <2>2, ReturnedLike DEF Like
    <2>. QED BY <2>1, <2>2
  <1>. HIDE DEF n
  <1>8. rec.liquid => "liquidOn" \in Ops
    BY <1>1, <1>2 DEF Inv, OneRecord, LiquidRecords
  <1>9. Here(store, c) /\ DataIn(store, c) = rec.data
    BY <1>1, <1>2 DEF DataIn, Here
  <1>10. Sound(r, n, "run", c, store)
    <2>1. KeyOf(n, "run", c) = c
      BY <1>7 DEF KeyOf
    <2>. HIDE DEF rec, o, c
    <2>2. Flags(n, "run")
      BY <1>7, <1>8 DEF Flags
    <2>3. Ids(r, n, "run", c) /\ Told(n, "run", c)
      BY <1>2, <1>7 DEF Ids, Told
    <2>4. Kept(n, "run", c, store)
      BY <1>7, <1>9, <2>1 DEF Kept
    <2>5. Written(n, "run", rec.data)
      BY <1>7 DEF Written
    <2>. QED BY <1>2, <1>9, <2>1, <2>2, <2>3, <2>4, <2>5 DEF Sound, Fits
  <1>11. Turn(ContentAs(o, "get", c, store), PageAs(o, "get", c, store),
              ContentAs(n, "run", c, store), PageAs(n, "run", c, store))
    <2>1. ContentAs(o, "get", c, store) = rec.data /\ PageAs(o, "get", c, store) = NoPage
      BY <1>2, <1>9 DEF ContentAs, PageAs
    <2>2. ContentAs(n, "run", c, store) = rec.data
      BY <1>7, <1>9 DEF ContentAs
    <2>3. PageAs(n, "run", c, store) = [running |-> TRUE, view |-> rec.data, ro |-> FALSE,
                                        gone |-> FALSE]
      BY <1>7 DEF PageAs, ThePage, NWCSession
    <2>. QED BY <2>1, <2>2, <2>3 DEF Turn
  <1>12. Step(r, n, "run", c)
    BY <1>1, <1>3, <1>7, <1>10, <1>11 DEF Step, Phase
  <1>. QED BY <1>1, <1>2, <1>12 DEF Inv, OneRecord, LiquidRecords

\* There is none: the session becomes a new one.
LEMMA GetMissingStep ==
    ASSUME Orderly, Inv, NEW r \in Requests, GetMissing(r)
    PROVE  OnlyRequest(r) /\ LiquidRecords' /\ \E n, p, c : Step(r, n, p, c)
  <1> DEFINE b == BrowserOf[r]
             c == Cookie(r)
             o == obj[r]
             a == [o EXCEPT !.blnExpired = @ \/ ~o.blnNew, !.blnNew = TRUE]
             o1 == NewID(r, a)
             n == [o1 EXCEPT !.oldGuid = o1.guid]
  <1>1. /\ phase[r] = "get" /\ InFlight(r) /\ Lookup(o.guid) = Absent
        /\ obj' = [obj EXCEPT ![r] = n] /\ phase' = [phase EXCEPT ![r] = "insert"]
        /\ cookie' = [cookie EXCEPT ![b] = c] /\ store' = store
    BY Facts DEF GetMissing, InFlight
  <1>2. /\ OnlyRequest(r) /\ (Calm => Only(store, b, c)) /\ Fits(r, o, "get", c, store)
        /\ o \in NWCSession /\ o.guid = c /\ o.oldGuid = c /\ Blank(o)
        /\ (c \in Guid => c[1] # r)
    <2>1. /\ OnlyRequest(r) /\ (Calm => Only(store, b, c)) /\ Fits(r, o, "get", c, store)
          /\ o \in NWCSession
      BY <1>1, Flying, Facts DEF KeyOf
    <2>2. Blank(o) /\ o.guid = o.oldGuid
      BY <2>1, Unread
    <2>3. o.guid = c /\ (c \in Guid => c[1] # r)
      BY <2>1 DEF Fits, Ids
    <2>. QED BY <2>1, <2>2, <2>3
  <1>3. ~Here(store, c)
    BY <1>1, <1>2, Facts DEF Here, Lookup
  <1>4. Calm => c = NoId
    <2>1. ASSUME Calm, c \in Guid  PROVE FALSE
      <3>1. BrowserOf[c[1]] = b
        BY <1>2, <2>1, Facts DEF Mine
      <3>2. store[c] # Absent
        BY <1>2, <2>1, <3>1 DEF Only
      <3>. QED BY <1>3, <2>1, <3>2 DEF Here
    <2>. QED BY <2>1, Facts DEF Id
  <1>5. a \in NWCSession /\ a.draws = o.draws /\ a.blnNew /\ Blank(a)
    <2>1. (o.blnExpired \/ ~o.blnNew) \in BOOLEAN
      OBVIOUS
    <2>. HIDE DEF o
    <2>. QED BY <1>2, <2>1 DEF NWCSession, Blank
  <1>6. o.draws \in Draws
    BY <1>1, DrawAllowed DEF Inv
  <1>. HIDE DEF a
  <1>7. /\ Like(o1, a) /\ o1.guid \in Guid /\ o1.strGUID = o1.guid /\ o1.setCookie = NoId
        /\ o1.guid[1] = r
    BY <1>5, <1>6, NewIDLike DEF Blank
  <1>. HIDE DEF o1
  <1>8. /\ n \in NWCSession /\ n.guid \in Guid /\ n.oldGuid = n.guid /\ n.strGUID = n.guid
        /\ n.guid[1] = r /\ n.blnNew /\ Blank(n)
    <2>1. o1 \in NWCSession /\ o1.guid \in Id
      BY <1>7 DEF Like, Id
    <2>. QED BY <1>5, <1>7, <2>1 DEF Like, NWCSession, Blank
  <1>. HIDE DEF n
  <1>9. ~Here(store, n.oldGuid)
    BY <1>1, <1>8 DEF Here, Inv, OneRecord, Origins
  <1>10. Sound(r, n, "insert", c, store)
    <2>1. Flags(n, "insert")
      BY <1>8 DEF Flags, Blank
    <2>2. Ids(r, n, "insert", c) /\ Told(n, "insert", c)
      BY <1>2, <1>8 DEF Ids, Blank, Told
    <2>3. Kept(n, "insert", c, store)
      BY <1>3, <1>9 DEF Kept
    <2>4. \A d : Written(n, "insert", d)
      BY DEF Written
    <2>. QED BY <1>2, <1>4, <2>1, <2>2, <2>3, <2>4 DEF Sound, Fits, KeyOf
  <1>11. Turn(ContentAs(o, "get", c, store), PageAs(o, "get", c, store),
              ContentAs(n, "insert", c, store), PageAs(n, "insert", c, store))
    <2>1. ContentAs(o, "get", c, store) = {}
      BY <1>2, <1>3 DEF ContentAs, DataIn
    <2>2. ContentAs(n, "insert", c, store) = {}
      BY <1>9 DEF ContentAs, DataIn
    <2>. QED BY <2>1, <2>2 DEF Turn, PageAs
  <1>12. Step(r, n, "insert", c)
    BY <1>1, <1>8, <1>10, <1>11 DEF Step, Phase
  <1>. QED BY <1>1, <1>2, <1>12 DEF Inv, OneRecord, LiquidRecords

\* SessionInsert: the browser has a record, and it is empty.
LEMMA SessionInsertStep ==
    ASSUME Orderly, Inv, NEW r \in Requests, SessionInsert(r)
    PROVE  OnlyRequest(r) /\ LiquidRecords' /\ \E n, p, c : Step(r, n, p, c)
  <1> DEFINE b == BrowserOf[r]
             c == Cookie(r)
             o == obj[r]
             rec == [data |-> {}, liquid |-> o.blnLiquid, reent |-> o.blnReEntrance]
  <1>1. /\ phase[r] = "insert" /\ InFlight(r) /\ o \in NWCSession
        /\ obj' = [obj EXCEPT ![r] = o] /\ phase' = [phase EXCEPT ![r] = "reget"]
        /\ cookie' = [cookie EXCEPT ![b] = c] /\ store' = [store EXCEPT ![o.guid] = rec]
    BY Facts DEF SessionInsert, InFlight, Inv, TypeInv, TypeOK
  <1>2. /\ OnlyRequest(r) /\ (Calm => Only(store, b, NoId)) /\ Fits(r, o, "insert", c, store)
    BY <1>1, Flying, Facts DEF KeyOf
  <1>3. /\ Flags(o, "insert") /\ Ids(r, o, "insert", c) /\ Told(o, "insert", c)
        /\ Kept(o, "insert", c, store) /\ Blank(o) /\ ~Failed(o, "insert")
    BY <1>2, Unread DEF Fits, Failed
  <1>4. /\ o.guid \in Guid /\ o.oldGuid = o.guid /\ o.blnNew /\ ~o.blnLiquid
        /\ BrowserOf[o.guid[1]] = b /\ o.guid[1] = r /\ (c \in Guid => c[1] # r)
        /\ ~Here(store, c) /\ ~Here(store, o.guid)
    BY <1>3, Facts DEF Ids, Kept, Blank, Mine
  <1>5. rec \in Record /\ rec.data = {} /\ ~rec.liquid /\ rec # Absent
    BY <1>1, <1>4, Facts DEF Record, NWCSession
  <1>. HIDE DEF rec
  <1>6. /\ store'[o.guid] = rec
        /\ \A g \in Guid : g # o.guid => store'[g] = store[g]
    BY <1>1, <1>4, Facts
  <1>7. LiquidRecords'
    BY <1>5, <1>6 DEF Inv, OneRecord, LiquidRecords
  <1>8. DataIn(store', o.guid) = {} /\ Here(store', o.guid) /\ ~Here(store', c)
    <2>1. c # o.guid
      BY <1>4
    <2>. HIDE DEF o, c
    <2>. QED BY <1>4, <1>5, <1>6, <2>1 DEF DataIn, Here
  <1>9. KeyOf(o, "reget", c) = o.guid
    BY <1>4 DEF KeyOf
  <1>10. Sound(r, o, "reget", c, store')
    <2>1. Calm => Only(store', b, o.guid)
      BY <1>2, <1>4, <1>5, <1>6, Facts DEF Only
    <2>2. Flags(o, "reget")
      BY <1>3 DEF Flags
    <2>3. Ids(r, o, "reget", c) /\ Told(o, "reget", c)
      BY <1>3, <1>4 DEF Ids, Told, Failed
    <2>4. Kept(o, "reget", c, store')
      BY <1>8, <1>9 DEF Kept
    <2>5. Written(o, "reget", {})
      BY <1>4 DEF Written
    <2>. QED BY <1>8, <1>9, <2>1, <2>2, <2>3, <2>4, <2>5 DEF Sound, Fits
  <1>11. Turn(ContentAs(o, "insert", c, store), PageAs(o, "insert", c, store),
              ContentAs(o, "reget", c, store'), PageAs(o, "reget", c, store'))
    <2>1. ContentAs(o, "insert", c, store) = {}
      BY <1>4 DEF ContentAs, DataIn
    <2>2. ContentAs(o, "reget", c, store') = {}
      BY <1>4, <1>8 DEF ContentAs
    <2>. QED BY <2>1, <2>2 DEF Turn, PageAs
  <1>12. Step(r, o, "reget", c)
    BY <1>1, <1>4, <1>6, <1>10, <1>11 DEF Step, Phase
  <1>. QED BY <1>2, <1>7, <1>12

\* dbInit finds the record it inserted: the page begins with no contents.
LEMMA GetInsertedStep ==
    ASSUME Orderly, Inv, NEW r \in Requests, GetInserted(r)
    PROVE  OnlyRequest(r) /\ LiquidRecords' /\ \E n, p, c : Step(r, n, p, c)
  <1> DEFINE b == BrowserOf[r]
             c == Cookie(r)
             o == obj[r]
             w == WriteCookie(o)
             f == [w EXCEPT !.bErrState = FALSE]
             n == Returned(f)
  <1>1. /\ phase[r] = "reget" /\ InFlight(r) /\ o \in NWCSession
        /\ cookie' = [cookie EXCEPT ![b] = c] /\ store' = store
    BY Facts DEF GetInserted, InFlight
  <1>2. /\ OnlyRequest(r) /\ (Calm => Only(store, b, o.oldGuid))
        /\ Fits(r, o, "reget", c, store)
    BY <1>1, Flying DEF KeyOf
  <1>3. /\ Blank(o) /\ o.strGUID = o.guid /\ o.guid = o.oldGuid /\ o.blnNew
        /\ o.guid \in Guid /\ o.guid[1] = r /\ (c \in Guid => c[1] # r)
        /\ Here(store, o.guid) /\ ~Here(store, c) /\ DataIn(store, o.guid) = {}
    <2>1. Blank(o) /\ o.strGUID = o.guid /\ o.guid = o.oldGuid /\ ~Failed(o, "reget")
      BY <1>2, Unread DEF Failed
    <2>2. /\ o.blnNew /\ o.guid \in Guid /\ o.guid[1] = r /\ (c \in Guid => c[1] # r)
      BY <1>2, <2>1 DEF Fits, Ids, Blank
    <2>3. KeyOf(o, "reget", c) = o.guid
      BY <2>1 DEF KeyOf
    <2>4. Here(store, o.guid) /\ ~Here(store, c)
      BY <1>2, <2>1, <2>2, <2>3 DEF Fits, Kept, Blank
    <2>5. DataIn(store, o.guid) = {}
      BY <1>2, <2>2, <2>3 DEF Fits, Written
    <2>. QED BY <2>1, <2>2, <2>4, <2>5
  <1>4. Lookup(o.guid) # Absent
    BY <1>3, Facts DEF Here, Lookup
  <1>5. obj' = [obj EXCEPT ![r] = n] /\ phase' = [phase EXCEPT ![r] = "run"]
    BY <1>3, <1>4 DEF GetInserted
  <1>6. /\ Like(w, o) /\ w.guid = o.guid /\ w.strGUID = o.guid /\ w.setCookie = o.guid
    BY <1>1, <1>3, WriteCookieLike DEF Blank
  <1>. HIDE DEF w
  <1>7. /\ Like(f, w) /\ f.guid = w.guid /\ f.strGUID = w.strGUID /\ f.setCookie = w.setCookie
    <2>1. w.bErrState = o.bErrState /\ w \in NWCSession /\ f.bErrState = FALSE
      BY <1>6 DEF Like, NWCSession
    <2>2. w.bErrState = FALSE
      BY <1>1, <1>3, <2>1 DEF NWCSession, Blank
    <2>. QED BY <2>1, <2>2 DEF Like, NWCSession
  <1>. HIDE DEF f
  <1>8. /\ Like(n, f) /\ n.guid = f.guid /\ n.strGUID = f.strGUID /\ n.setCookie = f.setCookie
    <2>1. f \in NWCSession /\ ~f.executing
      BY <1>3, <1>6, <1>7 DEF Like, Blank
    <2>. QED BY <2>1, ReturnedLike
  <1>. HIDE DEF n
  <1>9. /\ n \in NWCSession /\ n.guid = o.guid /\ n.oldGuid = o.guid /\ n.strGUID = o.guid
        /\ n.setCookie = o.guid /\ n.blnNew
        /\ ~n.headersSent /\ ~n.bErrState /\ ~n.executing
        /\ ~n.blnFoundURLGuid /\ ~n.bReadonly /\ ~n.blnPersistDone /\ ~n.blnCancel
        /\ ~n.blnLiquid /\ n.dict = {}
    <2>. HIDE DEF o
    <2>. QED BY <1>3, <1>6, <1>7, <1>8 DEF Like, Blank
  <1>10. KeyOf(n, "run", c) = o.guid
    BY <1>9 DEF KeyOf
  <1>. HIDE DEF o, c
  <1>11. Sound(r, n, "run", c, store)
    <2>1. Flags(n, "run")
      BY <1>9 DEF Flags
    <2>2. Ids(r, n, "run", c) /\ Told(n, "run", c)
      BY <1>3, <1>9 DEF Ids, Told
    <2>3. Kept(n, "run", c, store)
      BY <1>3, <1>10 DEF Kept
    <2>4. Written(n, "run", {})
      BY <1>9 DEF Written
    <2>. QED BY <1>2, <1>3, <1>10, <2>1, <2>2, <2>3, <2>4 DEF Sound, Fits
  <1>12. Turn(ContentAs(o, "reget", c, store), PageAs(o, "reget", c, store),
              ContentAs(n, "run", c, store), PageAs(n, "run", c, store))
    <2>1. ContentAs(o, "reget", c, store) = {} /\ PageAs(o, "reget", c, store) = NoPage
      BY <1>3 DEF ContentAs, PageAs
    <2>2. ContentAs(n, "run", c, store) = {}
      BY <1>3, <1>9 DEF ContentAs
    <2>3. PageAs(n, "run", c, store)
             = [running |-> TRUE, view |-> {}, ro |-> FALSE, gone |-> FALSE]
      BY <1>9 DEF PageAs, ThePage, NWCSession
    <2>. QED BY <2>1, <2>2, <2>3 DEF Turn
  <1>13. Step(r, n, "run", c)
    BY <1>1, <1>5, <1>9, <1>11, <1>12 DEF Step, Phase, o, c
  <1>. QED BY <1>1, <1>2, <1>13 DEF Inv, OneRecord, LiquidRecords

-----------------------------------------------------------------------------
(* The methods a script calls *)

\* A script runs: its record is there, and it has a page.
LEMMA Scripting ==
    ASSUME Inv, NEW r \in Requests, phase[r] = "run"
    PROVE  /\ OnlyRequest(r) /\ obj[r] \in NWCSession
           /\ Calm => Only(store, BrowserOf[r], obj[r].oldGuid)
           /\ Flags(obj[r], "run") /\ Ids(r, obj[r], "run", Cookie(r))
           /\ Told(obj[r], "run", Cookie(r)) /\ Kept(obj[r], "run", Cookie(r), store)
           /\ Written(obj[r], "run", DataIn(store, obj[r].oldGuid))
           /\ ~Failed(obj[r], "run") /\ KeyOf(obj[r], "run", Cookie(r)) = obj[r].oldGuid
           /\ Here(store, obj[r].oldGuid) /\ ~obj[r].bErrState
           /\ ContentAs(obj[r], "run", Cookie(r), store) = DataIn(store, obj[r].oldGuid)
           /\ PageAs(obj[r], "run", Cookie(r), store) = ThePage(obj[r])
  <1>1. InFlight(r)
    BY DEF InFlight
  <1>2. /\ OnlyRequest(r) /\ Fits(r, obj[r], "run", Cookie(r), store)
        /\ obj[r] \in NWCSession /\ KeyOf(obj[r], "run", Cookie(r)) = obj[r].oldGuid
        /\ Calm => Only(store, BrowserOf[r], KeyOf(obj[r], "run", Cookie(r)))
    BY <1>1, Flying, Facts DEF KeyOf
  <1>3. ~Failed(obj[r], "run") /\ ~obj[r].bErrState
    BY <1>2 DEF Failed, Fits, Flags
  <1>4. Here(store, obj[r].oldGuid)
    BY <1>2 DEF Fits, Kept
  <1>. QED BY <1>2, <1>3, <1>4 DEF Fits, ContentAs, PageAs

\* A method that leaves the record and its key alone edits the page.
LEMMA MethodStep ==
    ASSUME Orderly, Inv, NEW r \in Requests, NEW op, NEW a \in NWCSession, Called(r, op, a),
           UNCHANGED <<store, phase>>, NEW c2 \in Id,
           cookie' = [cookie EXCEPT ![BrowserOf[r]] = c2],
           c2 \in Guid => c2 = Cookie(r) \/ c2[1] = r,
           a.calls = obj[r].calls, a.oldGuid = obj[r].oldGuid,
           obj[r].blnCancel => a.blnCancel,
           Flags(a, "run"), Ids(r, a, "run", c2), Told(a, "run", c2),
           ~a.headersSent /\ a.blnNew => ~Here(store, c2),
           Written(a, "run", DataIn(store, obj[r].oldGuid))
    PROVE  OnlyRequest(r) /\ LiquidRecords' /\ \E n, p, c : Step(r, n, p, c)
  <1> DEFINE c == Cookie(r)
             o == obj[r]
             n == [a EXCEPT !.calls = @ + 1]
             d == DataIn(store, o.oldGuid)
  <1>1. /\ phase[r] = "run" /\ obj' = [obj EXCEPT ![r] = n] /\ store' = store
        /\ phase' = [phase EXCEPT ![r] = "run"]
    BY Facts DEF Called, Inv, TypeInv, TypeOK
  <1>2. /\ n \in NWCSession /\ Like(n, a) /\ n.guid = a.guid /\ n.strGUID = a.strGUID
        /\ n.setCookie = a.setCookie
    <2>1. a.calls + 1 \in 0 .. MaxOps
      BY SessionAssumption DEF Called, NWCSession
    <2>2. n \in NWCSession
      BY <2>1 DEF NWCSession
    <2>. QED BY <2>2 DEF NWCSession, Like
  <1>. HIDE DEF n
  <1>3. /\ OnlyRequest(r) /\ (Calm => Only(store, BrowserOf[r], o.oldGuid))
        /\ Here(store, o.oldGuid) /\ o \in NWCSession
        /\ ContentAs(o, "run", c, store) = d /\ PageAs(o, "run", c, store) = ThePage(o)
    BY <1>1, Scripting
  <1>4. KeyOf(n, "run", c2) = o.oldGuid
    BY <1>2 DEF KeyOf, Like
  <1>5. Sound(r, n, "run", c2, store)
    <2>1. Flags(n, "run")
      BY <1>2 DEF Like, Flags
    <2>2. Ids(r, n, "run", c2)
      BY <1>2 DEF Like, Ids, Failed
    <2>3. Told(n, "run", c2)
      BY <1>2 DEF Like, Told, Failed
    <2>4. Kept(n, "run", c2, store)
      BY <1>2, <1>3, <1>4 DEF Like, Kept
    <2>5. Written(n, "run", d)
      BY <1>2 DEF Like, Written
    <2>. QED BY <1>3, <1>4, <2>1, <2>2, <2>3, <2>4, <2>5 DEF Sound, Fits
  <1>6. Turn(d, ThePage(o), ContentAs(n, "run", c2, store), PageAs(n, "run", c2, store))
    <2>1. n.dict \in SUBSET Requests /\ n.bReadonly \in BOOLEAN /\ n.blnCancel \in BOOLEAN
          /\ o.blnCancel \in BOOLEAN
      BY <1>2, <1>3 DEF NWCSession
    <2>2. ContentAs(n, "run", c2, store) = d
      BY <1>2 DEF ContentAs, Like
    <2>3. PageAs(n, "run", c2, store) = ThePage(n)
      BY <1>2 DEF PageAs, Like, Flags
    <2>4. o.blnCancel => n.blnCancel
      BY <1>2 DEF Like
    <2>5. ThePage(o).running /\ ThePage(o).gone = o.blnCancel
      BY DEF ThePage
    <2>6. ThePage(n) = [running |-> TRUE, view |-> n.dict, ro |-> n.bReadonly,
                        gone |-> n.blnCancel]
      BY DEF ThePage
    <2>. HIDE DEF d, o
    <2>. QED BY <2>1, <2>2, <2>3, <2>4, <2>5, <2>6 DEF Turn
  <1>7. Step(r, n, "run", c2)
    BY <1>1, <1>2, <1>3, <1>5, <1>6 DEF Step, Phase
  <1>. QED BY <1>1, <1>3, <1>7 DEF Inv, OneRecord, LiquidRecords

\* What put, Remove, Readonly and ReEntrance leave as it was.
Alike(a, o) ==
    /\ a.guid = o.guid /\ a.oldGuid = o.oldGuid /\ a.strGUID = o.strGUID
    /\ a.setCookie = o.setCookie /\ a.blnLiquid = o.blnLiquid /\ a.blnNew = o.blnNew
    /\ a.blnExpired = o.blnExpired /\ a.headersSent = o.headersSent
    /\ a.bErrState = o.bErrState /\ a.executing = o.executing
    /\ a.blnFoundURLGuid = o.blnFoundURLGuid /\ a.blnPersistDone = o.blnPersistDone
    /\ a.blnCancel = o.blnCancel /\ a.calls = o.calls

LEMMA EditStep ==
    ASSUME Orderly, Inv, NEW r \in Requests, NEW op, NEW a \in NWCSession, Method(r, op, a),
           Alike(a, obj[r]), a.bReadonly => obj[r].bReadonly \/ "readonlyOn" \in Ops,
           a.blnDirty \/ (a.dict = obj[r].dict /\ a.blnDirty = obj[r].blnDirty)
    PROVE  OnlyRequest(r) /\ LiquidRecords' /\ \E n, p, c : Step(r, n, p, c)
  <1> DEFINE c == Cookie(r)
             o == obj[r]
             d == DataIn(store, o.oldGuid)
  <1>1. phase[r] = "run" /\ Called(r, op, a) /\ UNCHANGED <<store, phase, cookie>>
    BY DEF Method, Called
  <1>2. /\ Flags(o, "run") /\ Ids(r, o, "run", c) /\ Told(o, "run", c)
        /\ Kept(o, "run", c, store) /\ Written(o, "run", d)
    BY <1>1, Scripting
  <1>3. c \in Id /\ cookie' = [cookie EXCEPT ![BrowserOf[r]] = c]
    BY <1>1, Facts
  <1>. HIDE DEF o, c, d
  <1>4. Flags(a, "run")
    BY <1>2 DEF Flags, Alike, o
  <1>5. Ids(r, a, "run", c)
    BY <1>2 DEF Ids, Alike, Failed, o
  <1>6. Told(a, "run", c)
    BY <1>2 DEF Told, Alike, Failed, o
  <1>7. ~a.headersSent /\ a.blnNew => ~Here(store, c)
    BY <1>2 DEF Kept, Alike, o
  <1>8. Written(a, "run", d)
    BY <1>2 DEF Written, Alike, o
  <1>. QED BY <1>1, <1>3, <1>4, <1>5, <1>6, <1>7, <1>8, MethodStep DEF Alike, o, c, d

LEMMA PutValueStep ==
    ASSUME Orderly, Inv, NEW r \in Requests, PutValue(r)
    PROVE  OnlyRequest(r) /\ LiquidRecords' /\ \E n, p, c : Step(r, n, p, c)
  <1> DEFINE o == obj[r]
             a == [o EXCEPT !.dict = @ \cup {r}, !.blnDirty = TRUE]
  <1>1. Method(r, "put", a) /\ o \in NWCSession
    BY Facts DEF PutValue
  <1>. HIDE DEF o
  <1>2. a \in NWCSession /\ a.blnDirty /\ Alike(a, o) /\ a.bReadonly = o.bReadonly
    BY <1>1 DEF NWCSession, Alike
  <1>. HIDE DEF a
  <1>. QED BY <1>1, <1>2, EditStep DEF o

LEMMA RemoveStep ==
    ASSUME Orderly, Inv, NEW r \in Requests, Remove(r)
    PROVE  OnlyRequest(r) /\ LiquidRecords' /\ \E n, p, c : Step(r, n, p, c)
  <1>1. PICK v \in Requests :
           Method(r, "remove", [obj[r] EXCEPT !.dict = @ \ {v}, !.blnDirty = TRUE])
    BY DEF Remove
  <1> DEFINE o == obj[r]
             a == [o EXCEPT !.dict = @ \ {v}, !.blnDirty = TRUE]
  <1>2. Method(r, "remove", a) /\ o \in NWCSession
    BY <1>1, Facts
  <1>. HIDE DEF o
  <1>3. a \in NWCSession /\ a.blnDirty /\ Alike(a, o) /\ a.bReadonly = o.bReadonly
    BY <1>2 DEF NWCSession, Alike
  <1>. HIDE DEF a
  <1>. QED BY <1>2, <1>3, EditStep DEF o

LEMMA ReadonlyStep ==
    ASSUME Orderly, Inv, NEW r \in Requests, ReadonlyOn(r) \/ ReadonlyOff(r)
    PROVE  OnlyRequest(r) /\ LiquidRecords' /\ \E n, p, c : Step(r, n, p, c)
  <1>1. PICK op \in Ops, ro \in BOOLEAN :
           /\ Method(r, op, [obj[r] EXCEPT !.bReadonly = ro])
           /\ ro => op = "readonlyOn"
    BY DEF ReadonlyOn, ReadonlyOff, Method, Called
  <1> DEFINE o == obj[r]
             a == [o EXCEPT !.bReadonly = ro]
  <1>2. Method(r, op, a) /\ o \in NWCSession
    BY <1>1, Facts
  <1>. HIDE DEF o
  <1>3. /\ a \in NWCSession /\ Alike(a, o) /\ a.bReadonly = ro
        /\ a.dict = o.dict /\ a.blnDirty = o.blnDirty
    BY <1>2 DEF NWCSession, Alike
  <1>. HIDE DEF a
  <1>. QED BY <1>1, <1>2, <1>3, EditStep DEF o

LEMMA PutReEntranceStep ==
    ASSUME Orderly, Inv, NEW r \in Requests, PutReEntrance(r)
    PROVE  OnlyRequest(r) /\ LiquidRecords' /\ \E n, p, c : Step(r, n, p, c)
  <1>1. PICK re \in BOOLEAN :
           Method(r, "reentrance", [obj[r] EXCEPT !.blnReEntrance = re])
    BY DEF PutReEntrance
  <1> DEFINE o == obj[r]
             a == [o EXCEPT !.blnReEntrance = re]
  <1>2. Method(r, "reentrance", a) /\ o \in NWCSession
    BY <1>1, Facts
  <1>. HIDE DEF o
  <1>3. /\ a \in NWCSession /\ Alike(a, o) /\ a.bReadonly = o.bReadonly
        /\ a.dict = o.dict /\ a.blnDirty = o.blnDirty
    BY <1>2 DEF NWCSession, Alike
  <1>. HIDE DEF a
  <1>. QED BY <1>2, <1>3, EditStep DEF o

\* Abandon: the cookie will be taken away, unless the headers are on their
\* way, and the record is deleted later.
LEMMA AbandonStep ==
    ASSUME Orderly, Inv, NEW r \in Requests, Abandon(r)
    PROVE  OnlyRequest(r) /\ LiquidRecords' /\ \E n, p, c : Step(r, n, p, c)
  <1> DEFINE o == obj[r]
             c == Cookie(r)
             w == [o EXCEPT !.blnCancel = TRUE, !.dict = {}]
             a == WriteCookie(w)
             d == DataIn(store, o.oldGuid)
  <1>1. /\ Called(r, "abandon", a) /\ phase[r] = "run" /\ UNCHANGED <<store, cookie, phase>>
    BY DEF Abandon, Method, Called
  <1>2. /\ o \in NWCSession /\ Flags(o, "run") /\ Ids(r, o, "run", c) /\ Told(o, "run", c)
        /\ Kept(o, "run", c, store) /\ Written(o, "run", d)
    BY <1>1, Scripting
  <1>3. c \in Id /\ cookie' = [cookie EXCEPT ![BrowserOf[r]] = c]
    BY <1>1, Facts
  <1>. HIDE DEF o, c, d
  <1>4. /\ w \in NWCSession /\ w.blnCancel /\ w.dict = {} /\ w.calls = o.calls
        /\ w.oldGuid = o.oldGuid /\ w.guid = o.guid /\ w.strGUID = o.strGUID
        /\ w.blnLiquid = o.blnLiquid /\ w.blnNew = o.blnNew /\ w.blnExpired = o.blnExpired
        /\ w.headersSent = o.headersSent /\ w.bErrState = o.bErrState
        /\ w.executing = o.executing /\ w.blnFoundURLGuid = o.blnFoundURLGuid
        /\ w.bReadonly = o.bReadonly /\ w.blnPersistDone = o.blnPersistDone
        /\ w.setCookie = o.setCookie
    BY <1>2 DEF NWCSession
  <1>. HIDE DEF w
  <1>5. /\ Like(a, w) /\ a.guid = w.guid /\ a.strGUID = w.strGUID /\ a.calls = w.calls
        /\ a.setCookie = IF w.headersSent THEN w.setCookie
                         ELSE IF w.blnCancel THEN Kill ELSE w.strGUID
    BY <1>4, WriteCookieLike, WriteCookieType
  <1>. HIDE DEF a
  <1>6. Flags(a, "run")
    BY <1>2, <1>4, <1>5 DEF Flags, Like
  <1>7. Ids(r, a, "run", c)
    BY <1>2, <1>4, <1>5 DEF Ids, Like, Failed
  <1>8. Told(a, "run", c)
    BY <1>2, <1>4, <1>5 DEF Told, Like, Failed
  <1>9. ~a.headersSent /\ a.blnNew => ~Here(store, c)
    BY <1>2, <1>4, <1>5 DEF Kept, Like
  <1>10. Written(a, "run", d)
    BY <1>2, <1>4, <1>5 DEF Written, Like
  <1>11. a \in NWCSession /\ a.calls = o.calls /\ a.oldGuid = o.oldGuid /\ a.blnCancel
    BY <1>4, <1>5 DEF Like
  <1>. QED BY <1>1, <1>3, <1>6, <1>7, <1>8, <1>9, <1>10, <1>11, MethodStep DEF o, c, d

\* put_LiquidCookie(True): the cookie will name the id that SessionSave is
\* going to rename the record to.
LEMMA LiquidOnStep ==
    ASSUME Orderly, Inv, NEW r \in Requests, LiquidOn(r)
    PROVE  OnlyRequest(r) /\ LiquidRecords' /\ \E n, p, c : Step(r, n, p, c)
  <1> DEFINE o == obj[r]
             c == Cookie(r)
             l == [o EXCEPT !.blnLiquid = TRUE, !.oldGuid = o.guid]
             m == NewID(r, l)
             a == WriteCookie(m)
             d == DataIn(store, o.oldGuid)
  <1>1. /\ Called(r, "liquidOn", a) /\ phase[r] = "run" /\ UNCHANGED <<store, cookie, phase>>
        /\ ~o.blnLiquid /\ "liquidOn" \in Ops /\ o.calls < MaxOps
    BY DEF LiquidOn, Method, Called
  <1>2. /\ o \in NWCSession /\ Flags(o, "run") /\ Ids(r, o, "run", c) /\ Told(o, "run", c)
        /\ Kept(o, "run", c, store) /\ Written(o, "run", d) /\ ~Failed(o, "run")
    BY <1>1, Scripting
  <1>3. c \in Id /\ cookie' = [cookie EXCEPT ![BrowserOf[r]] = c] /\ o.draws \in Draws
    BY <1>1, Facts, DrawAllowed DEF Inv
  <1>. HIDE DEF o, c, d
  <1>4. /\ o.guid = o.oldGuid /\ o.guid \in Guid /\ ~o.headersSent
    BY <1>1, <1>2 DEF Ids, Flags, Orderly
  <1>5. /\ l \in NWCSession /\ l.blnLiquid /\ l.oldGuid = o.oldGuid /\ l.calls = o.calls
        /\ l.draws = o.draws
        /\ l.dict = o.dict /\ l.blnDirty = o.blnDirty /\ l.blnCancel = o.blnCancel
        /\ l.blnNew = o.blnNew /\ l.blnExpired = o.blnExpired
        /\ ~l.headersSent /\ l.bErrState = o.bErrState
        /\ l.executing = o.executing /\ l.blnFoundURLGuid = o.blnFoundURLGuid
        /\ l.bReadonly = o.bReadonly /\ l.blnPersistDone = o.blnPersistDone
    BY <1>2, <1>4 DEF NWCSession
  <1>. HIDE DEF l
  <1>6. /\ Like(m, l) /\ m.guid \in Guid /\ m.guid[1] = r /\ m.strGUID = m.guid
        /\ m.calls = l.calls
    BY <1>3, <1>5, NewIDLike, NewIDType
  <1>. HIDE DEF m
  <1>7. /\ Like(a, m) /\ a.guid = m.guid /\ a.strGUID = m.strGUID /\ a.calls = m.calls
        /\ a.setCookie = IF m.blnCancel THEN Kill ELSE m.strGUID
    <2>1. m \in NWCSession /\ ~m.headersSent
      BY <1>5, <1>6 DEF Like
    <2>. QED BY <2>1, WriteCookieLike, WriteCookieType
  <1>. HIDE DEF a
  <1>8. /\ a \in NWCSession /\ a.oldGuid = o.oldGuid /\ a.guid \in Guid /\ a.guid[1] = r
        /\ a.strGUID = a.guid /\ a.calls = o.calls /\ a.blnLiquid /\ ~a.headersSent
        /\ a.dict = o.dict /\ a.blnDirty = o.blnDirty /\ a.blnCancel = o.blnCancel
        /\ a.blnNew = o.blnNew /\ a.blnExpired = o.blnExpired /\ a.bErrState = o.bErrState
        /\ (a.executing <=> o.executing) /\ a.blnFoundURLGuid = o.blnFoundURLGuid
        /\ a.bReadonly = o.bReadonly /\ a.blnPersistDone = o.blnPersistDone
        /\ a.setCookie = IF a.blnCancel THEN Kill ELSE a.guid
    BY <1>5, <1>6, <1>7 DEF Like
  <1>9. Flags(a, "run")
    BY <1>1, <1>2, <1>8 DEF Flags
  <1>10. Ids(r, a, "run", c)
    BY <1>2, <1>4, <1>8 DEF Ids, Failed
  <1>11. Told(a, "run", c)
    BY <1>2, <1>4, <1>8 DEF Told
  <1>12. ~a.headersSent /\ a.blnNew => ~Here(store, c)
    BY <1>2, <1>4, <1>8 DEF Kept
  <1>13. Written(a, "run", d)
    BY <1>2, <1>8 DEF Written
  <1>. QED BY <1>1, <1>3, <1>8, <1>9, <1>10, <1>11, <1>12, <1>13, MethodStep DEF o, c, d

\* Flush: the browser learns now what the answer would have told it.
LEMMA FlushStep ==
    ASSUME Orderly, Inv, NEW r \in Requests, Flush(r)
    PROVE  OnlyRequest(r) /\ LiquidRecords' /\ \E n, p, c : Step(r, n, p, c)
  <1> DEFINE o == obj[r]
             c == Cookie(r)
             c2 == Delivered(o, c)
             a == [o EXCEPT !.headersSent = TRUE]
             d == DataIn(store, o.oldGuid)
  <1>1. /\ Called(r, "flush", a) /\ phase[r] = "run" /\ UNCHANGED <<store, phase>>
        /\ ~o.headersSent /\ "flush" \in Ops
        /\ cookie' = [cookie EXCEPT ![BrowserOf[r]] = c2]
    BY Facts DEF Flush, Called, Cookie
  <1>2. /\ o \in NWCSession /\ Flags(o, "run") /\ Ids(r, o, "run", c) /\ Told(o, "run", c)
        /\ Kept(o, "run", c, store) /\ Written(o, "run", d) /\ ~Failed(o, "run")
    BY <1>1, Scripting
  <1>3. c2 \in Id
    BY <1>2, Facts, DeliveredType
  <1>. HIDE DEF o, c, d
  <1>4. /\ a \in NWCSession /\ a.headersSent
        /\ a.guid = o.guid /\ a.oldGuid = o.oldGuid /\ a.strGUID = o.strGUID
        /\ a.setCookie = o.setCookie /\ a.calls = o.calls /\ a.dict = o.dict
        /\ a.blnDirty = o.blnDirty /\ a.blnCancel = o.blnCancel /\ a.blnLiquid = o.blnLiquid
        /\ a.blnNew = o.blnNew /\ a.blnExpired = o.blnExpired /\ a.bErrState = o.bErrState
        /\ a.executing = o.executing /\ a.blnFoundURLGuid = o.blnFoundURLGuid
        /\ a.bReadonly = o.bReadonly /\ a.blnPersistDone = o.blnPersistDone
    BY <1>1, <1>2 DEF NWCSession, Like
  <1>5. c2 = o.guid \/ (c2 = NoId /\ o.blnCancel)
    BY <1>1, <1>2, SessionAssumption DEF Delivered, Told, Ids, Id
  <1>6. c2 \in Guid => c2 = c \/ c2[1] = r
    BY <1>1, <1>2, <1>5, SessionAssumption DEF Ids
  <1>. HIDE DEF a, c2
  <1>7. Flags(a, "run")
    BY <1>1, <1>2, <1>4 DEF Flags
  <1>8. Ids(r, a, "run", c2)
    BY <1>2, <1>4, <1>5 DEF Ids, Failed
  <1>9. Told(a, "run", c2)
    BY <1>4 DEF Told
  <1>10. Written(a, "run", d)
    BY <1>2, <1>4 DEF Written
  <1>. QED BY <1>1, <1>3, <1>4, <1>6, <1>7, <1>8, <1>9, <1>10, MethodStep DEF o, c, d, c2

LEMMA ScriptStep ==
    ASSUME Orderly, Inv, NEW r \in Requests, Script(r)
    PROVE  OnlyRequest(r) /\ LiquidRecords' /\ \E n, p, c : Step(r, n, p, c)
  <1>1. /\ ~PutRefValue(r) /\ ~RemoveAll(r) /\ ~LiquidOff(r) /\ ~Execute(r)
    BY DEF Orderly, PutRefValue, RemoveAll, LiquidOff, Execute, Method, Called
  <1>. QED BY <1>1, PutValueStep, RemoveStep, AbandonStep, LiquidOnStep, ReadonlyStep,
              PutReEntranceStep, FlushStep DEF Script


-----------------------------------------------------------------------------
(* OnEndPage *)

\* What the object, the phase and the cookie tell by themselves.
InOrder(r, o, p, c) == Flags(o, p) /\ Ids(r, o, p, c) /\ Told(o, p, c) /\ ~Failed(o, p)

\* A request that still has its script or its PersistSession to do.
LEMMA Persisting ==
    ASSUME Inv, NEW r \in Requests, phase[r] \in {"run", "rename", "write", "delete"}
    PROVE  LET o == obj[r]
               p == phase[r]
               c == Cookie(r)
               key == KeyOf(o, p, c)
           IN /\ OnlyRequest(r) /\ o \in NWCSession /\ c \in Id
              /\ Calm => Only(store, BrowserOf[r], key)
              /\ InOrder(r, o, p, c) /\ Kept(o, p, c, store)
              /\ Written(o, p, DataIn(store, key))
              /\ Here(store, key) /\ ~o.bErrState
              /\ o.guid \in Guid /\ o.oldGuid \in Guid
              /\ BrowserOf[o.guid[1]] = BrowserOf[r] /\ BrowserOf[o.oldGuid[1]] = BrowserOf[r]
              /\ ContentAs(o, p, c, store) = DataIn(store, key)
              /\ PageAs(o, p, c, store) = ThePage(o)
  <1> DEFINE o == obj[r]
             p == phase[r]
             c == Cookie(r)
             key == KeyOf(o, p, c)
  <1>1. InFlight(r) /\ p \in {"run", "rename", "write", "delete"}
    BY DEF InFlight
  <1>2. /\ OnlyRequest(r) /\ Fits(r, o, p, c, store) /\ o \in NWCSession /\ c \in Id
        /\ Calm => Only(store, BrowserOf[r], key)
    BY <1>1, Flying, Facts
  <1>3. Mine(r, o.guid) /\ Mine(r, o.oldGuid)
    BY Facts
  <1>. HIDE DEF o, p, c
  <1>4. ~Failed(o, p) /\ ~o.bErrState
    BY <1>1, <1>2 DEF Failed, Fits, Flags
  <1>5. o.guid \in Guid /\ o.oldGuid \in Guid
    BY <1>1, <1>2, <1>4 DEF Fits, Ids
  <1>6. Here(store, key)
    BY <1>1, <1>2 DEF Fits, Kept
  <1>7. ContentAs(o, p, c, store) = DataIn(store, key)
    BY <1>1 DEF ContentAs, KeyOf
  <1>8. PageAs(o, p, c, store) = ThePage(o)
    BY <1>1, <1>4 DEF PageAs
  <1>. QED BY <1>2, <1>3, <1>4, <1>5, <1>6, <1>7, <1>8 DEF Fits, InOrder, Mine, o, p, c

\* The cookie the browser will have: of the session, or none after Abandon.
LEMMA Delivery ==
    ASSUME NEW r, NEW o, NEW p \in {"run", "rename", "write", "delete", "saved"}, NEW c,
           InOrder(r, o, p, c)
    PROVE  /\ ~o.headersSent => Delivered(o, c) = IF o.blnCancel THEN NoId ELSE o.guid
           /\ o.headersSent => Delivered(o, c) = c
           /\ ~o.blnCancel => Delivered(o, c) = o.guid
           /\ Delivered(o, c) = o.guid \/ (Delivered(o, c) = NoId /\ o.blnCancel)
  BY SessionAssumption DEF InOrder, Delivered, Ids, Told, Id

\* What the contract sees of a request that has saved its session.
LEMMA AsSaved ==
    ASSUME NEW n, NEW c, NEW st
    PROVE  /\ ContentAs(n, "saved", c, st)
                 = IF ~Open(n, c, st) THEN DataIn(st, Delivered(n, c))
                   ELSE IF n.blnNew THEN {} ELSE DataIn(st, n.oldGuid)
           /\ PageAs(n, "saved", c, st)
                 = IF Open(n, c, st) /\ (n.blnCancel \/ ~n.bErrState) THEN ThePage(n)
                   ELSE NoPage
  BY DEF ContentAs, PageAs

\* The object once its PersistSession is behind it.
Persisted(n, o) ==
    /\ n \in NWCSession
    /\ n.guid = o.guid /\ n.oldGuid = o.oldGuid /\ n.strGUID = o.strGUID
    /\ n.setCookie = o.setCookie /\ n.dict = o.dict
    /\ n.blnLiquid = o.blnLiquid /\ n.blnNew = o.blnNew /\ n.blnExpired = o.blnExpired
    /\ n.headersSent = o.headersSent
    /\ n.executing = o.executing /\ n.blnFoundURLGuid = o.blnFoundURLGuid
    /\ n.bReadonly = o.bReadonly /\ n.blnCancel = o.blnCancel /\ n.blnDirty = o.blnDirty

\* What has to be seen of it, beyond what it was before, for it to be sound.
Saved(r, n, c, st) ==
    /\ n.bErrState => Faults
    /\ ~n.headersSent /\ n.blnNew => ~Here(st, c)
    /\ Calm => Only(st, BrowserOf[r], KeyOf(n, "saved", c))
    /\ Written(n, "saved", DataIn(st, KeyOf(n, "saved", c)))

LEMMA Persists ==
    ASSUME NEW r, NEW o, NEW p \in {"run", "write", "delete"}, NEW n, NEW c, NEW st,
           InOrder(r, o, p, c), Persisted(n, o), Saved(r, n, c, st)
    PROVE  Sound(r, n, "saved", c, st) /\ Delivered(n, c) = Delivered(o, c)
           /\ ThePage(n) = ThePage(o)
  <1>1. Flags(n, "saved")
    BY DEF InOrder, Flags, Persisted, Saved
  <1>2. Ids(r, n, "saved", c)
    BY DEF InOrder, Ids, Persisted
  <1>3. Told(n, "saved", c)
    BY DEF InOrder, Told, Persisted
  <1>4. Kept(n, "saved", c, st)
    BY DEF Kept, Saved
  <1>5. Delivered(n, c) = Delivered(o, c) /\ ThePage(n) = ThePage(o)
    BY DEF Delivered, ThePage, Persisted
  <1>. QED BY <1>1, <1>2, <1>3, <1>4, <1>5 DEF Sound, Fits, Saved

\* PersistSession leaves the page as it is, or ends it.
LEMMA EndPageStep ==
    ASSUME Orderly, Inv, NEW r \in Requests, EndPage(r)
    PROVE  OnlyRequest(r) /\ LiquidRecords' /\ \E n, p, c : Step(r, n, p, c)
  <1> DEFINE b == BrowserOf[r]
             c == Cookie(r)
             o == obj[r]
             p == PersistPhase(o)
             g == o.oldGuid
             d == DataIn(store, g)
             x == o.blnPersistDone \/ (p = "saved" /\ ~o.bErrState)
             n == [o EXCEPT !.blnPersistDone = x]
  <1>1. /\ phase[r] = "run" /\ UNCHANGED <<store, cookie>>
        /\ phase' = [phase EXCEPT ![r] = p] /\ cookie' = [cookie EXCEPT ![b] = c]
        /\ obj' = [obj EXCEPT ![r] = n]
    BY Facts DEF EndPage, Inv, TypeInv, TypeOK
  <1>2. /\ OnlyRequest(r) /\ o \in NWCSession /\ c \in Id /\ (Calm => Only(store, b, g))
        /\ InOrder(r, o, "run", c) /\ Kept(o, "run", c, store) /\ Written(o, "run", d)
        /\ Here(store, g) /\ ~o.bErrState /\ g \in Guid
        /\ ContentAs(o, "run", c, store) = d /\ PageAs(o, "run", c, store) = ThePage(o)
    BY <1>1, Persisting DEF KeyOf
  <1>3. ~o.blnPersistDone
    BY <1>2 DEF InOrder, Flags
  <1>4. LiquidRecords'
    BY <1>1 DEF Inv, OneRecord, LiquidRecords
  <1>. HIDE DEF o, c
  <1>5. CASE p # "saved"
    <2>1. /\ p \in {"delete", "rename", "write"}
          /\ p = "delete" => o.blnCancel
          /\ p = "rename" => o.blnLiquid /\ ~o.blnCancel
          /\ p = "write" => ~o.blnCancel /\ ~o.bReadonly /\ ~o.blnLiquid
      BY <1>5 DEF PersistPhase
    <2>2. x = o.blnPersistDone
      BY <1>2, <1>5 DEF NWCSession
    <2>. HIDE DEF p, x
    <2>3. n = o
      BY <1>2, <2>2 DEF NWCSession
    <2>4. KeyOf(o, p, c) = g
      BY <2>1 DEF KeyOf
    <2>5. Flags(o, p)
      BY <1>2, <2>1 DEF InOrder, Flags
    <2>6. Ids(r, o, p, c)
      BY <1>2, <2>1 DEF InOrder, Ids, Failed
    <2>7. Told(o, p, c)
      BY <1>2, <2>1 DEF InOrder, Told, Failed
    <2>8. Kept(o, p, c, store)
      BY <1>2, <2>1, <2>4 DEF Kept
    <2>9. Written(o, p, d)
      BY <1>2, <2>1 DEF Written
    <2>10. Sound(r, o, p, c, store)
      BY <1>2, <2>4, <2>5, <2>6, <2>7, <2>8, <2>9 DEF Sound, Fits
    <2>11. ContentAs(o, p, c, store) = d /\ PageAs(o, p, c, store) = ThePage(o)
      BY <1>2, <2>1 DEF ContentAs, PageAs
    <2>12. Step(r, o, p, c)
      BY <1>1, <1>2, <2>1, <2>3, <2>10, <2>11 DEF Step, Phase, Turn, o, c
    <2>. QED BY <1>2, <1>4, <2>12
  <1>6. CASE p = "saved"
    <2>1. ~o.blnCancel /\ o.bReadonly
      BY <1>2, <1>3, <1>6 DEF PersistPhase
    <2>2. ~o.blnLiquid /\ o.guid = g
      BY <1>2, <2>1 DEF InOrder, Flags, Ids, Orderly
    <2>3. Persisted(n, o) /\ ~n.bErrState
      BY <1>2, <1>6 DEF Persisted, NWCSession
    <2>. HIDE DEF n, p
    <2>4. KeyOf(n, "saved", c) = g
      BY <2>1, <2>2, <2>3 DEF KeyOf, Persisted
    <2>5. Written(n, "saved", d)
      BY <1>2, <2>1, <2>3 DEF Written, Persisted
    <2>6. ~n.headersSent /\ n.blnNew => ~Here(store, c)
      BY <1>2, <2>3 DEF Kept, Persisted
    <2>. HIDE DEF d, g
    <2>7. Saved(r, n, c, store)
      BY <1>2, <2>3, <2>4, <2>5, <2>6 DEF Saved, d
    <2>8. /\ Sound(r, n, "saved", c, store) /\ Delivered(n, c) = Delivered(o, c)
          /\ ThePage(n) = ThePage(o)
      BY <1>2, <2>3, <2>7, Persists
    <2>9. Delivered(n, c) = g
      BY <1>2, <2>1, <2>2, <2>8, Delivery
    <2>10. /\ ThePage(o).running /\ ~ThePage(o).gone /\ ThePage(o).ro
      BY <2>1 DEF ThePage
    <2>11. Turn(d, ThePage(o), ContentAs(n, "saved", c, store), PageAs(n, "saved", c, store))
      <3>1. CASE Open(n, c, store)
        <4>1. n.blnNew /\ o.blnNew
          BY <2>1, <2>3, <3>1 DEF Open, Persisted
        <4>2. d = {}
          BY <1>2, <4>1 DEF Written
        <4>. QED BY <2>3, <2>8, <2>9, <3>1, <4>1, <4>2, AsSaved DEF Turn
      <3>2. CASE ~Open(n, c, store)
        BY <2>8, <2>9, <2>10, <3>2, AsSaved DEF Turn, d
      <3>. QED BY <3>1, <3>2
    <2>12. Step(r, n, "saved", c)
      BY <1>1, <1>2, <1>6, <2>3, <2>8, <2>9, <2>11 DEF Step, Phase, Persisted, o, c
    <2>. QED BY <1>2, <1>4, <2>12
  <1>. QED BY <1>5, <1>6

\* SessionSave renames the record of the session to the id it will have.
LEMMA SaveRenameStep ==
    ASSUME Orderly, Inv, NEW r \in Requests, SaveRename(r)
    PROVE  OnlyRequest(r) /\ LiquidRecords' /\ \E n, p, c : Step(r, n, p, c)
  <1> DEFINE b == BrowserOf[r]
             c == Cookie(r)
             o == obj[r]
             old == o.oldGuid
             new == o.guid
             d == DataIn(store, old)
  <1>1. /\ phase[r] = "rename" /\ phase' = [phase EXCEPT ![r] = "write"]
        /\ UNCHANGED <<obj, cookie>>
    BY DEF SaveRename
  <1>2. /\ OnlyRequest(r) /\ o \in NWCSession /\ (Calm => Only(store, b, old))
        /\ InOrder(r, o, "rename", c) /\ Kept(o, "rename", c, store) /\ Written(o, "rename", d)
        /\ Here(store, old) /\ old \in Guid /\ new \in Guid
        /\ BrowserOf[new[1]] = b /\ BrowserOf[old[1]] = b
        /\ ContentAs(o, "rename", c, store) = d /\ PageAs(o, "rename", c, store) = ThePage(o)
    BY <1>1, Persisting DEF KeyOf
  <1>3. cookie' = [cookie EXCEPT ![b] = c] /\ obj' = [obj EXCEPT ![r] = o]
    BY <1>1, Facts DEF Inv, TypeInv, TypeOK
  <1>4. store' = [store EXCEPT ![old] = Absent, ![new] = store[old]]
    BY <1>2, Facts DEF SaveRename, Lookup, Here
  <1>. HIDE DEF o, c, d
  <1>5. /\ o.blnLiquid /\ ~o.blnCancel /\ ~o.bReadonly /\ ~o.headersSent /\ ~o.bErrState
    BY <1>2 DEF InOrder, Flags, Orderly
  <1>6. IF o.blnNew THEN new[1] = r /\ (c \in Guid => c[1] # r) /\ ~Here(store, c)
        ELSE new[1] = r \/ new = old
    BY <1>2, <1>5 DEF InOrder, Ids, Told, Kept
  <1>. HIDE DEF old, new
  <1>7. /\ store'[new] = store[old]
        /\ old # new => store'[old] = Absent
        /\ \A g \in Guid : g # old /\ g # new => store'[g] = store[g]
    BY <1>2, <1>4, Facts
  <1>8. \A g \in Guid : store'[g] # Absent => \E h \in Guid : store'[g] = store[h]
    BY <1>2, <1>7
  <1>9. LiquidRecords'
    BY <1>8 DEF Inv, OneRecord, LiquidRecords
  <1>10. Only(store, b, old) => Only(store', b, new)
    BY <1>2, <1>7 DEF Only, Here
  <1>11. Here(store', new) /\ DataIn(store', new) = d
    BY <1>2, <1>7 DEF DataIn, Here, d
  <1>12. o.blnNew => ~Here(store', c)
    BY <1>6, <1>7 DEF Here
  <1>13. KeyOf(o, "write", c) = new
    BY <1>5 DEF KeyOf, new
  <1>14. Sound(r, o, "write", c, store')
    <2>1. Flags(o, "write")
      BY <1>2, <1>5 DEF InOrder, Flags
    <2>2. Ids(r, o, "write", c)
      BY <1>2 DEF InOrder, Ids, Failed
    <2>3. Told(o, "write", c)
      BY <1>2 DEF InOrder, Told, Failed
    <2>4. Kept(o, "write", c, store')
      BY <1>11, <1>12, <1>13 DEF Kept
    <2>5. Written(o, "write", d)
      BY <1>2 DEF Written
    <2>. QED BY <1>2, <1>10, <1>11, <1>13, <2>1, <2>2, <2>3, <2>4, <2>5 DEF Sound, Fits
  <1>15. ContentAs(o, "write", c, store') = d /\ PageAs(o, "write", c, store') = ThePage(o)
    BY <1>5, <1>11 DEF ContentAs, PageAs, new
  <1>16. \A g \in Guid : BrowserOf[g[1]] # b => store'[g] = store[g]
    BY <1>2, <1>7
  <1>17. \A g \in Guid : store'[g] # Absent => store[g] # Absent \/ g[1] = r
    BY <1>2, <1>6, <1>7 DEF Here
  <1>18. Step(r, o, "write", c)
    BY <1>1, <1>2, <1>3, <1>14, <1>15, <1>16, <1>17 DEF Step, Phase, Turn, o, c
  <1>. QED BY <1>2, <1>9, <1>18

\* SessionSave writes the contents, unless they are what the record holds.
LEMMA SaveWriteStep ==
    ASSUME Orderly, Inv, NEW r \in Requests, SaveWrite(r)
    PROVE  OnlyRequest(r) /\ LiquidRecords' /\ \E n, p, c : Step(r, n, p, c)
  <1> DEFINE b == BrowserOf[r]
             c == Cookie(r)
             o == obj[r]
             key == KeyOf(o, "write", c)
             d == DataIn(store, key)
             n == [o EXCEPT !.blnPersistDone = TRUE, !.bErrState = FALSE]
             m == [o EXCEPT !.blnPersistDone = TRUE]
             rec == [data |-> o.dict, liquid |-> o.blnLiquid, reent |-> o.blnReEntrance]
  <1>1. phase[r] = "write" /\ UNCHANGED cookie /\ cookie' = [cookie EXCEPT ![b] = c]
    BY Facts DEF SaveWrite
  <1>2. /\ OnlyRequest(r) /\ o \in NWCSession /\ (Calm => Only(store, b, key))
        /\ InOrder(r, o, "write", c) /\ Kept(o, "write", c, store) /\ Written(o, "write", d)
        /\ Here(store, key) /\ o.guid \in Guid /\ BrowserOf[o.guid[1]] = b /\ ~o.bErrState
        /\ ContentAs(o, "write", c, store) = d /\ PageAs(o, "write", c, store) = ThePage(o)
    BY <1>1, Persisting
  <1>3. store' = IF MustWrite(o)
                 THEN [store EXCEPT ![IF o.blnLiquid THEN o.guid ELSE o.oldGuid] = rec]
                 ELSE store
    BY DEF SaveWrite
  <1>4. Continue(r, m)
    BY DEF SaveWrite
  <1>5. rec \in Record /\ rec.data = o.dict /\ rec.liquid = o.blnLiquid /\ rec # Absent
    BY <1>2, Facts DEF Record, NWCSession
  <1>. HIDE DEF o, c, d, rec
  <1>6. /\ ~o.blnCancel /\ ~o.bReadonly /\ ~o.executing
        /\ (o.blnLiquid => "liquidOn" \in Ops) /\ (o.blnExpired => o.blnNew)
    BY <1>2 DEF InOrder, Flags
  <1>7. /\ key = o.guid /\ (IF o.blnLiquid THEN o.guid ELSE o.oldGuid) = key
        /\ ~o.headersSent /\ o.blnNew =>
              key[1] = r /\ (c \in Guid => c[1] # r) /\ ~Here(store, c)
    BY <1>2 DEF KeyOf, InOrder, Ids, Kept
  <1>8. n = m /\ Persisted(n, o) /\ ~n.bErrState /\ ~n.executing
    <2>1. o.bErrState = FALSE
      BY <1>2 DEF NWCSession
    <2>2. n = m
      BY <1>2, <2>1 DEF NWCSession
    <2>3. Persisted(n, o) /\ n.bErrState = FALSE
      BY <1>2 DEF Persisted, NWCSession
    <2>. QED BY <1>6, <2>2, <2>3 DEF Persisted
  <1>. HIDE DEF n, m
  <1>9. obj' = [obj EXCEPT ![r] = n] /\ phase' = [phase EXCEPT ![r] = "saved"]
    BY <1>4, <1>8 DEF Continue
  <1>. HIDE DEF key
  <1>10. /\ \A g \in Guid : g # key => store'[g] = store[g]
         /\ store'[key] = IF MustWrite(o) THEN rec ELSE store[key]
    BY <1>2, <1>3, <1>7, Facts
  <1>11. LiquidRecords'
    BY <1>5, <1>6, <1>10 DEF Inv, OneRecord, LiquidRecords
  <1>12. Only(store, b, key) => Only(store', b, key)
    BY <1>2, <1>5, <1>7, <1>10 DEF Only
  <1>13. DataIn(store', key) = o.dict
    <2>1. CASE MustWrite(o)
      BY <1>2, <1>5, <1>7, <1>10, <2>1 DEF DataIn, Here
    <2>2. CASE ~MustWrite(o)
      <3>1. d = o.dict
        BY <1>2, <1>6, <2>2 DEF Written, MustWrite
      <3>. QED BY <1>10, <2>2, <3>1 DEF DataIn, Here, d
    <2>. QED BY <2>1, <2>2
  <1>14. ~n.headersSent /\ n.blnNew => ~Here(store', c)
    BY <1>7, <1>8, <1>10 DEF Here, Persisted
  <1>15. Saved(r, n, c, store')
    <2>1. KeyOf(n, "saved", c) = key
      BY <1>6, <1>7, <1>8 DEF KeyOf, Persisted
    <2>2. Written(n, "saved", o.dict)
      BY <1>6, <1>8 DEF Written, Persisted
    <2>. QED BY <1>2, <1>8, <1>12, <1>13, <1>14, <2>1, <2>2 DEF Saved
  <1>16. /\ Sound(r, n, "saved", c, store') /\ Delivered(n, c) = Delivered(o, c)
         /\ ThePage(n) = ThePage(o)
    BY <1>2, <1>8, <1>15, Persists
  <1>17. Delivered(n, c) = key
    BY <1>2, <1>6, <1>7, <1>16, Delivery
  <1>18. Turn(d, ThePage(o), ContentAs(n, "saved", c, store'), PageAs(n, "saved", c, store'))
    <2>1. CASE Open(n, c, store')
      <3>1. n.blnNew /\ o.blnNew
        BY <1>6, <1>8, <2>1 DEF Open, Persisted
      <3>2. d = {}
        BY <1>2, <3>1 DEF Written
      <3>. QED BY <1>8, <1>16, <2>1, <3>1, <3>2, AsSaved DEF Turn
    <2>2. CASE ~Open(n, c, store')
      <3>1. /\ ThePage(o).running /\ ~ThePage(o).gone
            /\ ~ThePage(o).ro /\ ThePage(o).view = o.dict
        BY <1>6 DEF ThePage
      <3>. QED BY <1>13, <1>17, <2>2, <3>1, AsSaved DEF Turn
    <2>. QED BY <2>1, <2>2
  <1>19. \A g \in Guid : BrowserOf[g[1]] # b => store'[g] = store[g]
    BY <1>2, <1>7, <1>10
  <1>20. \A g \in Guid : store'[g] # Absent => store[g] # Absent
    BY <1>2, <1>10 DEF Here
  <1>21. Step(r, n, "saved", c)
    BY <1>1, <1>2, <1>8, <1>9, <1>16, <1>18, <1>19, <1>20
    DEF Step, Phase, Persisted, o, c
  <1>. QED BY <1>2, <1>11, <1>21

\* SessionDelete takes the record of the session away: it is there still.
LEMMA SessionDeleteStep ==
    ASSUME Orderly, Inv, NEW r \in Requests, SessionDelete(r)
    PROVE  OnlyRequest(r) /\ LiquidRecords' /\ \E n, p, c : Step(r, n, p, c)
  <1> DEFINE b == BrowserOf[r]
             c == Cookie(r)
             o == obj[r]
             old == o.oldGuid
             d == DataIn(store, old)
             n == [o EXCEPT !.blnPersistDone = TRUE, !.bErrState = FALSE]
             e == o.bErrState \/ Lookup(old) = Absent
             m == [o EXCEPT !.blnPersistDone = TRUE, !.bErrState = e]
  <1>1. /\ phase[r] = "delete" /\ cookie' = [cookie EXCEPT ![b] = c]
        /\ store' = [store EXCEPT ![old] = Absent] /\ Continue(r, m)
    BY Facts DEF SessionDelete
  <1>2. /\ OnlyRequest(r) /\ o \in NWCSession /\ (Calm => Only(store, b, old)) /\ c \in Id
        /\ InOrder(r, o, "delete", c) /\ Kept(o, "delete", c, store) /\ Written(o, "delete", d)
        /\ Here(store, old) /\ old \in Guid /\ BrowserOf[old[1]] = b /\ ~o.bErrState
        /\ ContentAs(o, "delete", c, store) = d /\ PageAs(o, "delete", c, store) = ThePage(o)
    BY <1>1, Persisting DEF KeyOf
  <1>3. e = FALSE
    BY <1>2, Facts DEF Here, Lookup
  <1>. HIDE DEF o, c, d, old, e
  <1>4. o.blnCancel /\ ~o.executing /\ (o.headersSent => ~o.blnLiquid)
    BY <1>2 DEF InOrder, Flags, Orderly
  <1>5. o.headersSent => c = old \/ c = NoId
    BY <1>2, <1>4 DEF InOrder, Ids, old
  <1>6. n = m /\ Persisted(n, o) /\ ~n.bErrState /\ ~n.executing
    <2>1. Persisted(n, o) /\ n.bErrState = FALSE
      BY <1>2 DEF Persisted, NWCSession
    <2>. QED BY <1>3, <1>4, <2>1 DEF Persisted
  <1>. HIDE DEF n, m
  <1>7. obj' = [obj EXCEPT ![r] = n] /\ phase' = [phase EXCEPT ![r] = "saved"]
    BY <1>1, <1>6 DEF Continue
  <1>8. store'[old] = Absent /\ \A g \in Guid : g # old => store'[g] = store[g]
    BY <1>1, <1>2, Facts
  <1>9. LiquidRecords'
    BY <1>8 DEF Inv, OneRecord, LiquidRecords
  <1>10. Only(store, b, old) => Only(store', b, NoId)
    BY <1>8, Facts DEF Only
  <1>11. ~n.headersSent /\ n.blnNew => ~Here(store', c)
    BY <1>2, <1>6, <1>8 DEF Kept, Here, Persisted
  <1>12. Saved(r, n, c, store')
    <2>1. KeyOf(n, "saved", c) = NoId
      BY <1>4, <1>6 DEF KeyOf, Persisted
    <2>2. \A x : Written(n, "saved", x)
      BY <1>4, <1>6 DEF Written, Persisted
    <2>. QED BY <1>2, <1>6, <1>10, <1>11, <2>1, <2>2 DEF Saved
  <1>13. /\ Sound(r, n, "saved", c, store') /\ Delivered(n, c) = Delivered(o, c)
         /\ ThePage(n) = ThePage(o)
    BY <1>2, <1>6, <1>12, Persists
  <1>14. Delivered(n, c) \in {old, NoId}
    BY <1>2, <1>4, <1>5, <1>13, Delivery
  <1>15. DataIn(store', Delivered(n, c)) = {}
    BY <1>8, <1>14, Facts DEF DataIn, Here
  <1>16. Turn(d, ThePage(o), ContentAs(n, "saved", c, store'), PageAs(n, "saved", c, store'))
    <2>1. CASE Open(n, c, store')
      <3>1. n.blnNew /\ o.blnNew
        BY <1>6, <1>8, <2>1 DEF Open, Here, Persisted, old
      <3>2. d = {}
        BY <1>2, <3>1 DEF Written
      <3>. QED BY <1>6, <1>13, <2>1, <3>1, <3>2, AsSaved DEF Turn
    <2>2. CASE ~Open(n, c, store')
      <3>1. ThePage(o).running /\ ThePage(o).gone
        BY <1>4 DEF ThePage
      <3>. QED BY <1>15, <2>2, <3>1, AsSaved DEF Turn
    <2>. QED BY <2>1, <2>2
  <1>17. \A g \in Guid : BrowserOf[g[1]] # b => store'[g] = store[g]
    BY <1>2, <1>8
  <1>18. \A g \in Guid : store'[g] # Absent => store[g] # Absent
    BY <1>8
  <1>19. Step(r, n, "saved", c)
    BY <1>1, <1>2, <1>6, <1>7, <1>13, <1>16, <1>17, <1>18
    DEF Step, Phase, Persisted, o, c
  <1>. QED BY <1>2, <1>9, <1>19

\* The answer: the browser learns the id its record has, or that it has none.
LEMMA RespondStep ==
    ASSUME Orderly, Inv, NEW r \in Requests, Respond(r)
    PROVE  OnlyRequest(r) /\ LiquidRecords' /\ \E n, p, c : Step(r, n, p, c)
  <1> DEFINE b == BrowserOf[r]
             c == Cookie(r)
             o == obj[r]
             c2 == Delivered(o, c)
             key == KeyOf(o, "saved", c)
             d == DataIn(store, key)
             n == [NewObject EXCEPT !.draws = o.draws, !.calls = o.calls]
  <1>1. /\ phase[r] = "saved" /\ InFlight(r) /\ store' = store
        /\ phase' = [phase EXCEPT ![r] = "done"] /\ obj' = [obj EXCEPT ![r] = n]
        /\ cookie' = [cookie EXCEPT ![b] = c2]
    BY Facts DEF Respond, InFlight, Cookie
  <1>2. /\ OnlyRequest(r) /\ o \in NWCSession /\ (Calm => Only(store, b, key)) /\ c \in Id
        /\ Flags(o, "saved") /\ Ids(r, o, "saved", c) /\ Told(o, "saved", c)
        /\ Written(o, "saved", d)
    BY <1>1, Flying, Facts DEF Fits
  <1>3. n \in NWCSession
    <2>1. o.draws \in Nat /\ o.calls \in 0 .. MaxOps
      BY <1>2 DEF NWCSession
    <2>. HIDE DEF o
    <2>. QED BY <2>1, NewObjectType DEF NWCSession
  <1>. HIDE DEF o, c, n
  <1>4. Failed(o, "saved") => c2 = c
    BY DEF Failed, Delivered
  <1>5. ~Failed(o, "saved") => InOrder(r, o, "saved", c)
    BY <1>2 DEF InOrder
  <1>6. ~Failed(o, "saved") =>
           /\ ~o.headersSent => c2 = IF o.blnCancel THEN NoId ELSE o.guid
           /\ o.headersSent => c2 = c
           /\ ~o.blnCancel => c2 = o.guid
    BY <1>5, Delivery
  <1>7. c2 \in Guid => c2 = c \/ c2[1] = r
    BY <1>2, <1>4, <1>6, SessionAssumption DEF Ids
  <1>8. Calm => c2 = key
    BY <1>2, <1>6 DEF Calm, Flags, Failed, KeyOf
  <1>. HIDE DEF c2
  <1>9. Sound(r, n, "done", c2, store)
    BY <1>2, <1>8 DEF Sound, KeyOf
  <1>10. ContentAs(n, "done", c2, store) = DataIn(store, c2) /\ PageAs(n, "done", c2, store) = NoPage
    BY DEF ContentAs, PageAs
  <1>11. Turn(ContentAs(o, "saved", c, store), PageAs(o, "saved", c, store),
              DataIn(store, c2), NoPage)
    <2>1. CASE ~Open(o, c, store)
      BY <2>1, AsSaved DEF Turn, c2
    <2>2. CASE Open(o, c, store) /\ o.blnCancel
      <3>1. c2 # c
        BY <2>2 DEF Open, c2
      <3>2. c2 = NoId
        BY <1>4, <1>6, <2>2, <3>1
      <3>3. DataIn(store, c2) = {}
        BY <3>2, SessionAssumption DEF DataIn, Here
      <3>4. ThePage(o).running /\ ThePage(o).gone
        BY <2>2 DEF ThePage
      <3>. QED BY <2>2, <3>3, <3>4, AsSaved DEF Turn
    <2>3. CASE Open(o, c, store) /\ ~o.blnCancel
      <3>1. c2 # c /\ o.blnNew
        BY <2>3 DEF Open, c2
      <3>2. c2 = o.guid /\ ~Failed(o, "saved")
        BY <1>4, <1>6, <2>3, <3>1
      <3>3. key = c2
        BY <2>3, <3>2 DEF KeyOf
      <3>4. DataIn(store, c2) = IF o.bReadonly \/ o.bErrState THEN {} ELSE o.dict
        BY <1>2, <2>3, <3>1, <3>2, <3>3 DEF Written
      <3>5. ContentAs(o, "saved", c, store) = {}
        BY <2>3, <3>1, AsSaved
      <3>6. CASE o.bErrState
        <4>1. PageAs(o, "saved", c, store) = NoPage
          BY <2>3, <3>6, AsSaved
        <4>. QED BY <3>4, <3>5, <3>6, <4>1 DEF Turn
      <3>7. CASE ~o.bErrState
        <4>1. PageAs(o, "saved", c, store) = ThePage(o)
          BY <2>3, <3>7, AsSaved
        <4>2. /\ ThePage(o).running /\ ~ThePage(o).gone
              /\ ThePage(o).ro = o.bReadonly /\ ThePage(o).view = o.dict
          BY <2>3 DEF ThePage
        <4>. QED BY <3>4, <3>5, <3>7, <4>1, <4>2 DEF Turn
      <3>. QED BY <3>6, <3>7
    <2>. QED BY <2>1, <2>2, <2>3
  <1>12. Step(r, n, "done", c2)
    BY <1>1, <1>3, <1>7, <1>9, <1>10, <1>11 DEF Step, Phase, o, c
  <1>. QED BY <1>1, <1>2, <1>12 DEF Inv, OneRecord, LiquidRecords

\* A request that dbInit still has to give a session: there is no page, and
\* the browser has what it will find.
LEMMA Starting ==
    ASSUME Inv, NEW r \in Requests, phase[r] \in {"get", "insert", "reget"}
    PROVE  LET o == obj[r]
               p == phase[r]
               c == Cookie(r)
           IN /\ OnlyRequest(r) /\ o \in NWCSession /\ c \in Id /\ Fits(r, o, p, c, store)
              /\ Blank(o) /\ o.strGUID = o.guid /\ o.guid = o.oldGuid
              /\ IF p = "get" THEN o.guid = c /\ (o.blnNew <=> c = NoId) /\ ~o.blnExpired
                 ELSE o.blnNew /\ ~Here(store, c)
              /\ ContentAs(o, p, c, store) = DataIn(store, c)
              /\ PageAs(o, p, c, store) = NoPage
  <1> DEFINE c == Cookie(r)
             o == obj[r]
             p == phase[r]
  <1>1. p \in {"get", "insert", "reget"} /\ InFlight(r)
    BY DEF InFlight
  <1>2. /\ OnlyRequest(r) /\ o \in NWCSession /\ c \in Id /\ Fits(r, o, p, c, store)
    BY <1>1, Flying, Facts
  <1>. HIDE DEF o, c, p
  <1>3. /\ Blank(o) /\ o.strGUID = o.guid /\ o.guid = o.oldGuid
    BY <1>1, <1>2, Unread
  <1>4. IF p = "get" THEN o.guid = c /\ (o.blnNew <=> c = NoId) /\ ~o.blnExpired
        ELSE o.blnNew /\ ~Here(store, c)
    <2>1. Flags(o, p) /\ Ids(r, o, p, c) /\ Kept(o, p, c, store)
      BY <1>2 DEF Fits
    <2>2. ~o.headersSent
      BY <1>3 DEF Blank
    <2>. QED BY <1>1, <2>1, <2>2 DEF Flags, Ids, Kept
  <1>5. ContentAs(o, p, c, store) = DataIn(store, c) /\ PageAs(o, p, c, store) = NoPage
    <2>1. PageAs(o, p, c, store) = NoPage
      BY <1>1 DEF PageAs
    <2>2. ContentAs(o, p, c, store) = DataIn(store, o.oldGuid)
      BY <1>1 DEF ContentAs
    <2>3. CASE p = "get"
      BY <1>3, <1>4, <2>1, <2>2, <2>3
    <2>4. CASE p = "insert"
      BY <1>2, <1>4, <2>1, <2>2, <2>4 DEF Fits, Kept, DataIn
    <2>5. CASE p = "reget"
      <3>1. KeyOf(o, p, c) = o.oldGuid
        BY <2>5 DEF KeyOf
      <3>2. DataIn(store, o.oldGuid) = {}
        BY <1>2, <1>4, <2>5, <3>1 DEF Fits, Written
      <3>. QED BY <1>4, <2>1, <2>2, <2>5, <3>2 DEF DataIn
    <2>. QED BY <1>1, <2>3, <2>4, <2>5
  <1>. QED BY <1>2, <1>3, <1>4, <1>5 DEF o, c, p

\* dbInit fails: there was no page, and the browser is told nothing.
LEMMA InitFailsStep ==
    ASSUME Orderly, Inv, NEW r \in Requests, phase[r] \in {"get", "insert", "reget"},
           ConnectionFails(r)
    PROVE  OnlyRequest(r) /\ LiquidRecords' /\ \E n, p, c : Step(r, n, p, c)
  <1> DEFINE b == BrowserOf[r]
             c == Cookie(r)
             o == obj[r]
             p == phase[r]
             f == [o EXCEPT !.bErrState = TRUE]
             n == Returned(f)
  <1>1. /\ Faults /\ p \in {"get", "insert", "reget"} /\ InFlight(r)
        /\ store' = store /\ cookie' = [cookie EXCEPT ![b] = c]
        /\ obj' = [obj EXCEPT ![r] = n]
        /\ phase' = [phase EXCEPT ![r] = IF f.executing THEN "run" ELSE "saved"]
    BY Facts DEF ConnectionFails, InFlight
  <1>2. /\ OnlyRequest(r) /\ o \in NWCSession /\ c \in Id /\ Fits(r, o, p, c, store)
    BY <1>1, Starting
  <1>3. /\ Blank(o) /\ o.strGUID = o.guid /\ o.guid = o.oldGuid
    BY <1>1, Starting
  <1>4. /\ IF p = "get" THEN o.guid = c /\ (o.blnNew <=> c = NoId) /\ ~o.blnExpired
           ELSE o.blnNew /\ ~Here(store, c)
        /\ ContentAs(o, p, c, store) = DataIn(store, c) /\ PageAs(o, p, c, store) = NoPage
    BY <1>1, Starting
  <1>. HIDE DEF o, c, p
  <1>5. ~Here(store, NoId)
    BY SessionAssumption DEF Here
  <1>6. /\ f \in NWCSession /\ f.bErrState /\ ~f.executing /\ ~f.blnLiquid /\ ~f.blnCancel
        /\ ~f.blnFoundURLGuid /\ ~f.bReadonly /\ ~f.headersSent /\ ~f.blnPersistDone
        /\ f.guid = o.guid /\ f.oldGuid = o.oldGuid /\ f.strGUID = o.strGUID
        /\ f.setCookie = NoId /\ f.blnNew = o.blnNew /\ f.blnExpired = o.blnExpired
    BY <1>2, <1>3 DEF NWCSession, Blank
  <1>. HIDE DEF f
  <1>7. /\ n \in NWCSession /\ n.bErrState /\ ~n.executing /\ ~n.blnLiquid /\ ~n.blnCancel
        /\ ~n.blnFoundURLGuid /\ ~n.bReadonly /\ ~n.headersSent /\ ~n.blnPersistDone
        /\ n.guid = o.guid /\ n.oldGuid = o.oldGuid /\ n.strGUID = o.strGUID
        /\ n.setCookie = NoId /\ n.blnNew = o.blnNew /\ n.blnExpired = o.blnExpired
    BY <1>6, ReturnedLike DEF Like
  <1>. HIDE DEF n
  <1>8. Failed(n, "saved") /\ Delivered(n, c) = c /\ ~Open(n, c, store)
    BY <1>7 DEF Failed, Delivered, Open
  <1>9. Sound(r, n, "saved", c, store)
    <2>1. Flags(n, "saved")
      <3>1. o.blnExpired => o.blnNew
        BY <1>2 DEF Fits, Flags
      <3>. QED BY <1>1, <1>7, <3>1 DEF Flags
    <2>2. Ids(r, n, "saved", c)
      BY <1>3, <1>7, <1>8 DEF Ids
    <2>3. Told(n, "saved", c)
      BY <1>3, <1>4, <1>7, <1>8 DEF Told
    <2>4. Kept(n, "saved", c, store)
      BY <1>4, <1>5, <1>7 DEF Kept
    <2>5. \A d : Written(n, "saved", d)
      BY <1>8 DEF Written
    <2>. QED BY <1>1, <2>1, <2>2, <2>3, <2>4, <2>5 DEF Sound, Fits, Calm
  <1>10. ContentAs(n, "saved", c, store) = DataIn(store, c) /\ PageAs(n, "saved", c, store) = NoPage
    BY <1>8, AsSaved
  <1>11. Step(r, n, "saved", c)
    BY <1>1, <1>4, <1>6, <1>7, <1>9, <1>10 DEF Step, Phase, Turn, o, c, p
  <1>. QED BY <1>1, <1>2, <1>11 DEF Inv, OneRecord, LiquidRecords

\* The save is given up: the contents stay, and the page is gone.
LEMMA SaveFailsStep ==
    ASSUME Orderly, Inv, NEW r \in Requests, phase[r] \in {"rename", "write", "delete"},
           ConnectionFails(r)
    PROVE  OnlyRequest(r) /\ LiquidRecords' /\ \E n, p, c : Step(r, n, p, c)
  <1> DEFINE b == BrowserOf[r]
             c == Cookie(r)
             o == obj[r]
             p == phase[r]
             key == KeyOf(o, p, c)
             d == DataIn(store, key)
             n == [o EXCEPT !.bErrState = TRUE, !.blnPersistDone = TRUE]
  <1>1. /\ Faults /\ p \in {"rename", "write", "delete"}
        /\ store' = store /\ cookie' = [cookie EXCEPT ![b] = c] /\ Continue(r, n)
    BY Facts DEF ConnectionFails
  <1>2. /\ OnlyRequest(r) /\ o \in NWCSession /\ c \in Id
        /\ InOrder(r, o, p, c) /\ Kept(o, p, c, store) /\ Written(o, p, d)
        /\ Here(store, key) /\ ContentAs(o, p, c, store) = d
        /\ PageAs(o, p, c, store) = ThePage(o)
    BY <1>1, Persisting
  <1>. HIDE DEF o, c, p, n, d
  <1>3. /\ ~o.blnLiquid /\ ~o.executing /\ p \in {"write", "delete"}
        /\ o.guid = o.oldGuid
    BY <1>1, <1>2 DEF InOrder, Flags, Ids, Orderly
  <1>4. key = o.guid
    BY <1>3 DEF KeyOf
  <1>. HIDE DEF key
  <1>5. Persisted(n, o) /\ n.bErrState /\ ~n.executing
    BY <1>2, <1>3 DEF Persisted, NWCSession, n
  <1>6. obj' = [obj EXCEPT ![r] = n] /\ phase' = [phase EXCEPT ![r] = "saved"]
    BY <1>1, <1>5 DEF Continue
  <1>7. Saved(r, n, c, store)
    <2>1. ~n.headersSent /\ n.blnNew => ~Here(store, c)
      BY <1>2, <1>3, <1>5 DEF Kept, Persisted
    <2>2. Written(n, "saved", DataIn(store, KeyOf(n, "saved", c)))
      <3>1. ~n.blnCancel => KeyOf(n, "saved", c) = key
        BY <1>4, <1>5 DEF KeyOf, Persisted
      <3>2. n.blnNew => d = {}
        BY <1>2, <1>3, <1>5 DEF Written, Persisted
      <3>. QED BY <1>5, <3>1, <3>2 DEF Written, d
    <2>. QED BY <1>1, <2>1, <2>2 DEF Saved, Calm
  <1>8. /\ Sound(r, n, "saved", c, store) /\ Delivered(n, c) = Delivered(o, c)
        /\ ThePage(n) = ThePage(o)
    BY <1>2, <1>3, <1>5, <1>7, Persists
  <1>9. /\ ~o.blnCancel => Delivered(n, c) = key
        /\ Delivered(n, c) = key \/ (Delivered(n, c) = NoId /\ o.blnCancel)
    BY <1>1, <1>2, <1>4, <1>8, Delivery
  <1>10. Turn(d, ThePage(o), ContentAs(n, "saved", c, store), PageAs(n, "saved", c, store))
    <2>1. CASE Open(n, c, store)
      <3>1. ContentAs(n, "saved", c, store) = d
        <4>1. n.blnNew => d = {}
          BY <1>2, <1>3, <1>5 DEF Written, Persisted
        <4>2. n.oldGuid = key
          BY <1>3, <1>4, <1>5 DEF Persisted
        <4>. QED BY <2>1, <4>1, <4>2, AsSaved DEF d
      <3>2. PageAs(n, "saved", c, store) \in {ThePage(o), NoPage}
        BY <1>8, AsSaved
      <3>. QED BY <1>1, <3>1, <3>2 DEF Turn
    <2>2. CASE ~Open(n, c, store)
      <3>1. ContentAs(n, "saved", c, store) = DataIn(store, Delivered(n, c))
            /\ PageAs(n, "saved", c, store) = NoPage
        BY <2>2, AsSaved
      <3>2. CASE Delivered(n, c) = key
        BY <1>1, <3>1, <3>2 DEF Turn, d
      <3>3. CASE Delivered(n, c) = NoId /\ o.blnCancel
        <4>1. DataIn(store, NoId) = {}
          BY SessionAssumption DEF DataIn, Here
        <4>2. ThePage(o).running /\ ThePage(o).gone
          BY <3>3 DEF ThePage
        <4>. QED BY <3>1, <3>3, <4>1, <4>2 DEF Turn
      <3>. QED BY <1>9, <3>2, <3>3
    <2>. QED BY <2>1, <2>2
  <1>11. Step(r, n, "saved", c)
    BY <1>1, <1>2, <1>5, <1>6, <1>8, <1>10 DEF Step, Phase, Persisted, o, c, p
  <1>. QED BY <1>1, <1>2, <1>11 DEF Inv, OneRecord, LiquidRecords

-----------------------------------------------------------------------------
(* Expiry and crashes *)

\* A key that no request of a browser has in its object is none of its own,
\* except for the cookie of one that has failed before it had a page.
LEMMA Expired ==
    ASSUME Inv, NEW g \in Guid, store' = [store EXCEPT ![g] = Absent],
           NEW q \in Requests, InFlight(q), g \notin {obj[q].guid, obj[q].oldGuid}
    PROVE  LET o == obj[q]
               p == phase[q]
               c == Cookie(q)
           IN /\ Fits(q, o, p, c, store')
              /\ PageAs(o, p, c, store') = PageAs(o, p, c, store)
              /\ \/ ContentAs(o, p, c, store') = ContentAs(o, p, c, store)
                 \/ c = g /\ PageAs(o, p, c, store) = NoPage /\ ContentAs(o, p, c, store') = {}
  <1> DEFINE o == obj[q]
             p == phase[q]
             c == Cookie(q)
  <1>1. /\ Fits(q, o, p, c, store) /\ o \in NWCSession /\ c \in Id
        /\ g # o.guid /\ g # o.oldGuid /\ NoId \notin Guid
        /\ p \in Phase /\ p \notin {"idle", "done"}
    BY Flying, Facts DEF InFlight
  <1>2. store'[g] = Absent /\ \A h \in Guid : h # g => store'[h] = store[h]
    BY Facts
  <1>. HIDE DEF o, p, c
  <1>3. ASSUME NEW i, i # g
        PROVE  (Here(store', i) <=> Here(store, i)) /\ DataIn(store', i) = DataIn(store, i)
    BY <1>2, <1>3 DEF Here, DataIn
  <1>4. ASSUME NEW i, Here(store', i)  PROVE Here(store, i)
    BY <1>2, <1>4 DEF Here
  <1>5. KeyOf(o, p, c) # g
    <2>1. p = "get" => o.guid = c
      BY <1>1 DEF Fits, Ids
    <2>. QED BY <1>1, <2>1 DEF KeyOf
  <1>6. Fits(q, o, p, c, store')
    <2>1. Kept(o, p, c, store')
      BY <1>1, <1>3, <1>4, <1>5 DEF Fits, Kept
    <2>. QED BY <1>1, <1>3, <1>5, <2>1 DEF Fits
  <1>7. Open(o, c, store') <=> Open(o, c, store)
    BY <1>1, <1>3 DEF Open
  <1>8. PageAs(o, p, c, store') = PageAs(o, p, c, store)
    BY <1>7 DEF PageAs
  <1>9. CASE p # "saved"
    BY <1>1, <1>3, <1>6, <1>8, <1>9 DEF ContentAs, o, p, c
  <1>10. CASE p = "saved" /\ ~Failed(o, p)
    <2>1. InOrder(q, o, "saved", c)
      BY <1>1, <1>10 DEF Fits, InOrder
    <2>2. Delivered(o, c) # g
      BY <1>1, <2>1, Delivery
    <2>3. /\ DataIn(store', Delivered(o, c)) = DataIn(store, Delivered(o, c))
          /\ DataIn(store', o.oldGuid) = DataIn(store, o.oldGuid)
      BY ONLY <1>1, <1>3, <2>2
    <2>4. ContentAs(o, "saved", c, store') = ContentAs(o, "saved", c, store)
      BY ONLY <1>7, <2>3, AsSaved
    <2>. QED BY <1>6, <1>8, <1>10, <2>4 DEF o, p, c
  <1>11. CASE p = "saved" /\ Failed(o, p)
    <2>1. Delivered(o, c) = c
      BY <1>11 DEF Failed, Delivered
    <2>2. ~Open(o, c, store) /\ ~Open(o, c, store')
      BY <2>1 DEF Open
    <2>3. /\ ContentAs(o, p, c, store) = DataIn(store, c) /\ PageAs(o, p, c, store) = NoPage
          /\ ContentAs(o, p, c, store') = DataIn(store', c)
      BY <1>11, <2>1, <2>2, AsSaved
    <2>4. DataIn(store', g) = {}
      BY <1>2 DEF DataIn, Here
    <2>. QED BY <1>3, <1>6, <1>8, <2>3, <2>4 DEF o, p, c
  <1>. QED BY <1>9, <1>10, <1>11

\* Redis drops a key that no request holds.
LEMMA ExpireSound ==
    ASSUME Orderly, Inv, NEW g \in Guid, Expire(g)
    PROVE  OneRecord'
  <1>1. /\ Expiry = "idle" /\ ~Calm
        /\ \A r \in Requests : InFlight(r) => g \notin {obj[r].guid, obj[r].oldGuid}
        /\ store' = [store EXCEPT ![g] = Absent] /\ UNCHANGED <<cookie, phase, obj>>
    BY DEF Expire, Orderly, Calm
  <1>2. \A h \in Guid : store'[h] # Absent => store'[h] = store[h]
    BY <1>1, Facts DEF Inv, TypeInv, TypeOK
  <1>3. \A r \in Requests : (InFlight(r)' <=> InFlight(r)) /\ Cookie(r)' = Cookie(r)
    BY <1>1 DEF InFlight, Cookie
  <1>4. Alone'
    BY <1>3 DEF Inv, OneRecord, Alone
  <1>5. Between'
    BY <1>1 DEF Between, Calm, Orderly
  <1>6. During'
    <2> SUFFICES ASSUME NEW r \in Requests, InFlight(r)'
                 PROVE  Sound(r, obj'[r], phase'[r], Cookie(r)', store')
      BY DEF During
    <2>1. Fits(r, obj[r], phase[r], Cookie(r), store')
      BY <1>1, <1>3, Expired
    <2>. QED BY <1>1, <1>3, <2>1 DEF Sound
  <1>7. Origins'
    BY <1>1, <1>2 DEF Inv, OneRecord, Origins
  <1>8. LiquidRecords'
    BY <1>2 DEF Inv, OneRecord, LiquidRecords
  <1>. QED BY <1>4, <1>5, <1>6, <1>7, <1>8 DEF OneRecord

\* Nobody sees it, or it is the contents of a browser without a page.
LEMMA ExpireContract ==
    ASSUME Orderly, Inv, TypeOK', NEW g \in Guid, Expire(g)
    PROVE  [Contract!Next]_(Contract!cvars)
  <1>1. /\ Expiry = "idle" /\ TypeOK
        /\ \A r \in Requests : InFlight(r) => g \notin {obj[r].guid, obj[r].oldGuid}
        /\ store' = [store EXCEPT ![g] = Absent] /\ UNCHANGED <<cookie, phase, obj>>
    BY DEF Expire, Orderly, Inv, TypeInv
  <1>2. store'[g] = Absent /\ \A h \in Guid : h # g => store'[h] = store[h]
    BY <1>1 DEF TypeOK
  <1>3. ASSUME NEW x \in Browsers
        PROVE  /\ PageOf(x)' = PageOf(x)
               /\ \/ Content(x)' = Content(x)
                  \/ cookie[x] = g /\ PageOf(x) = NoPage /\ Content(x)' = {}
    <2>1. RequestOf(x)' = RequestOf(x)
      BY <1>1 DEF RequestOf, InFlight
    <2>2. CASE RequestOf(x) = {}
      <3>1. Content(x) = DataOf(cookie[x]) /\ Content(x)' = DataOf(cookie[x])'
            /\ PageOf(x) = NoPage /\ PageOf(x)' = NoPage
        BY <2>1, <2>2 DEF Content, PageOf, NoPage
      <3>2. cookie'[x] = cookie[x] /\ cookie[x] \in Id
        BY <1>1 DEF TypeOK
      <3>3. CASE cookie[x] = g
        <4>1. DataOf(cookie[x])' = {}
          BY <1>2, <3>2, <3>3, SessionAssumption DEF DataOf, Lookup
        <4>. QED BY <3>1, <3>3, <4>1
      <3>4. CASE cookie[x] # g
        BY <1>2, <3>1, <3>2, <3>4 DEF DataOf, Lookup, Id
      <3>. QED BY <3>3, <3>4
    <2>3. ASSUME NEW q \in RequestOf(x)
          PROVE  /\ PageOf(x)' = PageOf(x)
                 /\ \/ Content(x)' = Content(x)
                    \/ cookie[x] = g /\ PageOf(x) = NoPage /\ Content(x)' = {}
      <3>1. q \in Requests /\ BrowserOf[q] = x /\ InFlight(q) /\ OnlyRequest(q)
            /\ OnlyRequest(q)' /\ Cookie(q) = cookie[x] /\ Cookie(q)' = Cookie(q)
        BY <1>1, <2>1 DEF RequestOf, OnlyRequest, Inv, OneRecord, Alone, Cookie
      <3>2. /\ Content(x) = ContentAs(obj[q], phase[q], Cookie(q), store)
            /\ PageOf(x) = PageAs(obj[q], phase[q], Cookie(q), store)
            /\ Content(x)' = ContentAs(obj'[q], phase'[q], Cookie(q)', store')
            /\ PageOf(x)' = PageAs(obj'[q], phase'[q], Cookie(q)', store')
        BY <1>1, <3>1, Seen, SeenNext DEF SeenAs
      <3>. QED BY <1>1, <3>1, <3>2, Expired
    <2>. QED BY <2>2, <2>3
  <1>4. CASE \A x \in Browsers : Content(x)' = Content(x)
    BY <1>3, <1>4 DEF Contract!cvars
  <1>5. ASSUME NEW x \in Browsers, Content(x)' # Content(x)
        PROVE  Contract!Next
    <2>1. cookie[x] = g /\ PageOf(x) = NoPage /\ Content(x)' = {}
      BY <1>3, <1>5
    <2>2. \A y \in Browsers : y # x => cookie[y] # g
      BY <2>1, SessionAssumption DEF Inv, CookiesOwned
    <2>3. \A y \in Browsers : PageOf(y)' = PageOf(y) /\ (y # x => Content(y)' = Content(y))
      BY <1>3, <2>2
    <2>. QED BY <1>1, <2>1, <2>3, LapseContract
  <1>. QED BY <1>4, <1>5

\* After a crash nothing is in flight: all that counts is cookies and records.
LEMMA CrashSound ==
    ASSUME Orderly, Inv, Crash
    PROVE  OneRecord'
  <1>1. /\ Faults /\ ~Calm /\ UNCHANGED <<store, cookie>>
        /\ phase' = [r \in Requests |-> IF InFlight(r) THEN "done" ELSE phase[r]]
    BY DEF Crash, Calm
  <1>2. \A r \in Requests : ~InFlight(r)'
    BY <1>1 DEF InFlight
  <1>3. Alone' /\ During'
    BY <1>2 DEF Alone, During
  <1>4. Between'
    BY <1>1 DEF Between, Calm, Orderly
  <1>5. \A r \in Requests : phase'[r] = phase[r] \/ phase'[r] = "done"
    BY <1>1
  <1>6. Origins'
    <2>1. \A b \in Browsers : cookie[b] \in Guid => cookie[b][1] \in Requests
      BY DEF Guid
    <2>2. \A g \in Guid : g[1] \in Requests
      BY DEF Guid
    <2>. QED BY <1>1, <1>5, <2>1, <2>2 DEF Inv, OneRecord, Origins
  <1>7. LiquidRecords'
    BY <1>1 DEF Inv, OneRecord, LiquidRecords
  <1>. QED BY <1>3, <1>4, <1>6, <1>7 DEF OneRecord

\* A request that dies leaves the contents, or a session that it had ended.
LEMMA Dies ==
    ASSUME Orderly, Faults, Inv, NEW q \in Requests, InFlight(q)
    PROVE  LET o == obj[q]
               p == phase[q]
               c == Cookie(q)
           IN Stop(ContentAs(o, p, c, store), PageAs(o, p, c, store), DataIn(store, c), NoPage)
  <1> DEFINE o == obj[q]
             p == phase[q]
             c == Cookie(q)
  <1>1. CASE p \in {"get", "insert", "reget"}
    BY <1>1, Starting DEF Stop
  <1>2. CASE p \in {"run", "rename", "write", "delete"}
    <2> DEFINE key == KeyOf(o, p, c)
    <2>1. /\ InOrder(q, o, p, c) /\ Kept(o, p, c, store) /\ Written(o, p, DataIn(store, key))
          /\ ContentAs(o, p, c, store) = DataIn(store, key)
          /\ PageAs(o, p, c, store) = ThePage(o)
      BY <1>2, Persisting
    <2>. HIDE DEF o, p, c
    <2>2. ~o.blnLiquid /\ o.guid = o.oldGuid
      BY <1>2, <2>1 DEF InOrder, Flags, Ids, Orderly
    <2>3. key = o.oldGuid
      BY <1>2, <2>2 DEF KeyOf
    <2>. HIDE DEF key
    <2>4. ~Here(store, NoId)
      BY SessionAssumption DEF Here
    <2>5. CASE o.headersSent
      <3>1. c = key \/ (c = NoId /\ o.blnCancel)
        BY <1>2, <2>1, <2>2, <2>3, <2>5 DEF InOrder, Ids
      <3>2. ThePage(o).gone = o.blnCancel
        BY DEF ThePage
      <3>. QED BY <2>1, <2>4, <3>1, <3>2 DEF Stop, DataIn, key, o, p, c
    <2>6. CASE ~o.headersSent /\ ~o.blnNew
      <3>1. c = key
        BY <1>2, <2>1, <2>3, <2>6 DEF InOrder, Told
      <3>. QED BY <2>1, <3>1 DEF Stop, key, o, p, c
    <2>7. CASE ~o.headersSent /\ o.blnNew
      <3>1. DataIn(store, key) = {}
        BY <1>2, <2>1, <2>7 DEF Written
      <3>2. DataIn(store, c) = {}
        BY <1>2, <2>1, <2>7 DEF Kept, DataIn
      <3>. QED BY <2>1, <3>1, <3>2 DEF Stop, key, o, p, c
    <2>. QED BY <2>5, <2>6, <2>7
  <1>3. CASE p = "saved"
    <2>1. /\ Fits(q, o, "saved", c, store) /\ o \in NWCSession
      BY <1>3, Flying, Facts
    <2>. HIDE DEF o, p, c
    <2>2. ContentAs(o, "saved", c, store) = DataIn(store, c)
          \/ (ContentAs(o, "saved", c, store) = {} /\ DataIn(store, c) = {})
      <3>1. CASE Delivered(o, c) = c
        <4>1. ~Open(o, c, store)
          BY <3>1 DEF Open
        <4>. QED BY <3>1, <4>1, AsSaved
      <3>2. CASE Delivered(o, c) # c
        <4>1. ~Failed(o, "saved") /\ ~o.headersSent
          BY <3>2 DEF Failed, Delivered
        <4>2. InOrder(q, o, "saved", c)
          BY <2>1, <4>1 DEF Fits, InOrder
        <4>3. Delivered(o, c) = IF o.blnCancel THEN NoId ELSE o.guid
          BY <4>1, <4>2, Delivery
        <4>4. ~o.blnLiquid /\ o.guid = o.oldGuid
          BY <4>2 DEF InOrder, Flags, Ids, Orderly
        <4>5. CASE o.blnNew
          <5>1. Open(o, c, store)
            BY <3>2, <4>5 DEF Open
          <5>2. ~Here(store, c)
            BY <2>1, <4>1, <4>5 DEF Fits, Kept
          <5>. QED BY <4>5, <5>1, <5>2, AsSaved DEF DataIn
        <4>6. CASE ~o.blnNew
          <5>1. c = o.oldGuid
            BY <4>1, <4>2, <4>6 DEF InOrder, Told
          <5>2. o.blnCancel /\ Delivered(o, c) = NoId
            BY <3>2, <4>3, <4>4, <5>1
          <5>3. CASE Open(o, c, store)
            BY <4>6, <5>1, <5>3, AsSaved
          <5>4. CASE ~Open(o, c, store)
            <6>1. ~Here(store, c)
              BY <3>2, <5>1, <5>2, <5>4 DEF Open
            <6>2. ~Here(store, NoId)
              BY SessionAssumption DEF Here
            <6>. QED BY <5>2, <5>4, <6>1, <6>2, AsSaved DEF DataIn
          <5>. QED BY <5>3, <5>4
        <4>. QED BY <4>5, <4>6
      <3>. QED BY <3>1, <3>2
    <2>. QED BY <1>3, <2>2 DEF Stop, o, p, c
  <1>4. p \in Phase /\ p \notin {"idle", "done"}
    BY Facts DEF InFlight
  <1>. QED BY <1>1, <1>2, <1>3, <1>4 DEF Phase

\* All pages of the worker process stop at once.
LEMMA CrashContract ==
    ASSUME Orderly, Inv, Crash
    PROVE  Contract!Next
  <1>1. /\ Faults /\ TypeOK /\ UNCHANGED <<store, cookie>>
        /\ phase' = [r \in Requests |-> IF InFlight(r) THEN "done" ELSE phase[r]]
    BY DEF Crash, Inv, TypeInv
  <1>2. ASSUME NEW x \in Browsers
        PROVE  Stop(Content(x), PageOf(x), Content(x)', PageOf(x)')
    <2>1. RequestOf(x)' = {}
      BY <1>1 DEF RequestOf, InFlight
    <2>2. cookie[x] \in Id
      BY <1>1 DEF TypeOK
    <2>3. Content(x)' = DataOf(cookie[x]) /\ PageOf(x)' = NoPage
      BY <1>1, <2>1 DEF Content, PageOf, NoPage, DataOf, Lookup
    <2>4. CASE RequestOf(x) = {}
      <3>1. Content(x) = DataOf(cookie[x]) /\ PageOf(x) = NoPage
        BY <2>4 DEF Content, PageOf, NoPage
      <3>. QED BY <2>3, <3>1 DEF Stop
    <2>5. ASSUME NEW q \in RequestOf(x)
          PROVE  Stop(Content(x), PageOf(x), Content(x)', PageOf(x)')
      <3>1. q \in Requests /\ BrowserOf[q] = x /\ InFlight(q) /\ OnlyRequest(q)
            /\ Cookie(q) = cookie[x]
        BY DEF RequestOf, OnlyRequest, Inv, OneRecord, Alone, Cookie
      <3>2. /\ Content(x) = ContentAs(obj[q], phase[q], Cookie(q), store)
            /\ PageOf(x) = PageAs(obj[q], phase[q], Cookie(q), store)
        BY <1>1, <3>1, Seen DEF SeenAs
      <3>3. Content(x)' = DataIn(store, Cookie(q))
        BY <2>2, <2>3, <3>1, DataOfIn
      <3>. QED BY <1>1, <2>3, <3>1, <3>2, <3>3, Dies
    <2>. QED BY <2>4, <2>5
  <1>. QED BY <1>1, <1>2, AbortContract

-----------------------------------------------------------------------------
(* Every step, and the theorems *)

LEMMA InitInv == Orderly /\ Init => Inv /\ Contract!Init
  <1> SUFFICES ASSUME Orderly, Init  PROVE Inv /\ Contract!Init
    OBVIOUS
  <1>1. TypeInv
    BY InitType
  <1>2. /\ \A g \in Guid : store[g] = Absent
        /\ \A b \in Browsers : cookie[b] = NoId
        /\ \A r \in Requests : obj[r] = NewObject /\ ~InFlight(r)
    BY DEF Init, InFlight
  <1>3. CookiesOwned /\ RecordsOwned
    BY <1>2 DEF CookiesOwned, RecordsOwned
  <1>4. ObjectsOwned
    BY <1>2, NewObjectOwned DEF ObjectsOwned
  <1>5. \A b \in Browsers : RequestOf(b) = {}
    BY <1>2 DEF RequestOf
  <1>6. OneRecord
    BY <1>2, SessionAssumption
    DEF OneRecord, Alone, Between, During, Origins, LiquidRecords, Only
  <1>7. Contract!Init
    <2>1. \A b \in Browsers : Content(b) = {}
      BY <1>2, <1>5 DEF Content, DataOf, Lookup
    <2>2. \A b \in Browsers : PageOf(b) = Contract!Idle
      BY <1>5 DEF PageOf, Contract!Idle
    <2>. QED BY <2>1, <2>2 DEF Contract!Init
  <1>. QED BY <1>1, <1>3, <1>4, <1>6, <1>7 DEF Inv

\* A step is one of a request, or one of the environment.
LEMMA OneStep ==
    ASSUME Orderly, Inv, [Next]_vars
    PROVE  \/ \E r \in Requests : /\ OnlyRequest(r) /\ LiquidRecords'
                                  /\ \E n, p, c : Step(r, n, p, c)
           \/ \E g \in Guid : Expire(g)
           \/ Crash
           \/ UNCHANGED vars
  <1>1. ASSUME NEW r \in Requests,
               Initialize(r) \/ Script(r) \/ PersistSession(r) \/ ConnectionFails(r)
        PROVE  /\ OnlyRequest(r) /\ LiquidRecords'
               /\ \E n, p, c : Step(r, n, p, c)
    <2>1. CASE Initialize(r)
      BY <2>1, StartStep, GetFoundStep, GetMissingStep, SessionInsertStep, GetInsertedStep
      DEF Initialize
    <2>2. CASE Script(r)
      BY <2>2, ScriptStep
    <2>3. CASE PersistSession(r)
      BY <2>3, EndPageStep, SaveRenameStep, SaveWriteStep, SessionDeleteStep, RespondStep
      DEF PersistSession
    <2>4. CASE ConnectionFails(r)
      <3>1. phase[r] \in {"get", "insert", "reget"} \/ phase[r] \in {"rename", "write", "delete"}
        BY <2>4 DEF ConnectionFails
      <3>. QED BY <2>4, <3>1, InitFailsStep, SaveFailsStep
    <2>. QED BY <1>1, <2>1, <2>2, <2>3, <2>4
  <1>2. AllDone => UNCHANGED vars
    BY DEF AllDone
  <1>. QED BY <1>1, <1>2 DEF Next

LEMMA NextInv == Orderly /\ Inv /\ [Next]_vars => Inv'
  <1> SUFFICES ASSUME Orderly, Inv, [Next]_vars  PROVE Inv'
    OBVIOUS
  <1>1. TypeInv'
    BY NextType DEF Inv
  <1>2. CookiesOwned' /\ RecordsOwned' /\ ObjectsOwned'
    <2>1. IsolationInv'
      BY NextOwned DEF Inv, IsolationInv
    <2>. QED BY <2>1 DEF IsolationInv, Orderly
  <1>3. OneRecord'
    <2>1. ASSUME NEW r \in Requests, OnlyRequest(r), LiquidRecords',
                 NEW n, NEW p, NEW c, Step(r, n, p, c)
          PROVE  OneRecord'
      BY <2>1, StepOrderly DEF OneRecord
    <2>2. CASE UNCHANGED vars
      BY <2>2 DEF vars, Inv, OneRecord, Alone, Between, During, Origins, LiquidRecords,
         InFlight, RequestOf, Cookie
    <2>. QED BY <2>1, <2>2, OneStep, ExpireSound, CrashSound
  <1>. QED BY <1>1, <1>2, <1>3 DEF Inv

LEMMA NextContract ==
    Orderly /\ Inv /\ Inv' /\ [Next]_vars => [Contract!Next]_(Contract!cvars)
  <1> SUFFICES ASSUME Orderly, Inv, Inv', [Next]_vars
               PROVE  [Contract!Next]_(Contract!cvars)
    OBVIOUS
  <1>1. TypeOK'
    BY DEF Inv, TypeInv
  <1>2. ASSUME NEW r \in Requests, OnlyRequest(r), NEW n, NEW p, NEW c, Step(r, n, p, c)
        PROVE  [Contract!Next]_(Contract!cvars)
    BY <1>1, <1>2, StepContract
  <1>3. ASSUME NEW g \in Guid, Expire(g)  PROVE [Contract!Next]_(Contract!cvars)
    BY <1>1, <1>3, ExpireContract
  <1>4. CASE Crash
    BY <1>4, CrashContract
  <1>5. CASE UNCHANGED vars
    BY <1>5 DEF vars, Contract!cvars, Content, PageOf, RequestOf, InFlight, Undecided,
       Running, KeyHeld, DataOf, Lookup
  <1>. QED BY <1>2, <1>3, <1>4, <1>5, OneStep

LEMMA Invariant == ASSUME Orderly PROVE Spec => []Inv
  <1>1. Init => Inv
    BY InitInv
  <1>2. Inv /\ [Next]_vars => Inv'
    BY NextInv
  <1>. QED BY <1>1, <1>2, PTL DEF Spec

\* The id that a browser is given (dbInit and put_LiquidCookie write the
\* cookie) is the one that PersistSession saves under: between two requests of
\* one browser its cookie always names a record.
THEOREM CookieNamesSession == ASSUME Calm PROVE Spec => []CookieNamesRecord
  <1>1. Orderly
    BY DEF Calm
  <1>2. Inv => CookieNamesRecord
    <2> SUFFICES ASSUME Inv, NEW b \in Browsers, cookie[b] # NoId,
                        \A r \in Requests : BrowserOf[r] = b => ~InFlight(r)
                 PROVE  store[cookie[b]] # Absent
      BY DEF CookieNamesRecord
    <2>1. Only(store, b, cookie[b])
      BY DEF RequestOf, Inv, OneRecord, Between
    <2>2. cookie[b] \in Guid /\ BrowserOf[cookie[b][1]] = b
      BY DEF Inv, TypeInv, TypeOK, Id, CookiesOwned
    <2>. QED BY <2>1, <2>2 DEF Only
  <1>. QED BY <1>1, <1>2, Invariant, PTL

\* SessionSave renames the record of a liquid session and SessionInsert makes
\* one only for a browser that has none: no contents are under two ids.
THEOREM RotationMoves == ASSUME Calm PROVE Spec => []NoSecondCopy
  <1>1. Orderly
    BY DEF Calm
  <1>2. Inv => NoSecondCopy
    <2> SUFFICES ASSUME Inv, NEW g \in Guid, NEW h \in Guid,
                        store[g] # Absent, store[h] # Absent,
                        store[g].data \cap store[h].data # {}
                 PROVE  g = h
      BY DEF NoSecondCopy
    <2>1. BrowserOf[g[1]] = BrowserOf[h[1]]
      BY DEF Inv, RecordsOwned
    <2> DEFINE b == BrowserOf[g[1]]
    <2>2. b \in Browsers
      BY SessionAssumption DEF Guid
    <2>3. \E i : Only(store, b, i)
      <3>1. CASE RequestOf(b) = {}
        BY <2>2, <3>1 DEF Inv, OneRecord, Between
      <3>2. CASE RequestOf(b) # {}
        BY <3>2 DEF RequestOf, Inv, OneRecord, During, Sound
      <3>. QED BY <3>1, <3>2
    <2>. QED BY <2>1, <2>3 DEF Only
  <1>. QED BY <1>1, <1>2, Invariant, PTL

\* What a page finds in Session is what the page before it left there when
\* OnEndPage saved it: the requests of a browser are pages of its session, as
\* module SessionContract has them, where a session that times out lapses and
\* a save that fails or a worker process that dies leaves the contents alone.
THEOREM KeepsContract == ASSUME Orderly PROVE Spec => ImplementsContract
  <1>1. Init => Contract!Init
    BY InitInv
  <1>2. Inv /\ Inv' /\ [Next]_vars => [Contract!Next]_(Contract!cvars)
    BY NextContract
  <1>. QED BY <1>1, <1>2, Invariant, PTL DEF Spec, ImplementsContract, Contract!Spec
=============================================================================
