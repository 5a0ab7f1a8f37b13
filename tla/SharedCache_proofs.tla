------------------------- MODULE SharedCache_proofs -------------------------
(***************************************************************************)
(* Proofs about SharedCache, for every set of names, and every set of      *)
(* classic, ASP.NET and ASP.NET Core pages.                                *)
(***************************************************************************)
EXTENDS SharedCache, ClassicApplication_proofs

-----------------------------------------------------------------------------
(* Type correctness *)

LEMMA NewCacheType == Managed!NewCache \in Managed!ApplicationCache
  BY ApplicationAssumption DEF Managed!NewCache, Managed!ApplicationCache

LEMMA ManagedHereType ==
    ASSUME NEW a \in Managed!ApplicationCache
    PROVE  /\ Managed!Here(a) \subseteq Keys
           /\ \A k \in Managed!Here(a) : a.dictionary[k] \in Managed!Element
  BY DEF Managed!Here, Managed!ApplicationCache

\* The names that are added are among those whose strings are written, and
\* what is written is a value.
LEMMA ManagedWritten ==
    ASSUME NEW a \in Managed!ApplicationCache
    PROVE  /\ Managed!NewKeys(a) \subseteq Managed!Written(a)
           /\ Managed!Written(a) \subseteq Keys
           /\ \A k \in Managed!Written(a) : a.dictionary[k].val \in Value
  BY ManagedHereType
  DEF Managed!NewKeys, Managed!ChangedKeys, Managed!Written, Managed!Element, Value

LEMMA ManagedWithoutType ==
    ASSUME NEW a \in Managed!ApplicationCache, NEW keys \in SUBSET Keys
    PROVE  /\ Managed!Without(a, keys) \in Managed!ApplicationCache
           /\ Managed!Without(a, keys).calls = a.calls
  BY DEF Managed!Without, Managed!ApplicationCache

LEMMA ManagedMethodType ==
    ASSUME FarmTypeOK, NEW p \in ManagedPages, NEW op, NEW a \in Managed!ApplicationCache,
           Managed!Method(p, op, a), a.calls = mapp[p].calls
    PROVE  Managed!TypeOK' /\ UNCHANGED <<names, strings, expiring, mphase>>
  <1> DEFINE n == [a EXCEPT !.calls = @ + 1]
  <1>1. n \in Managed!ApplicationCache
    <2>1. a.calls + 1 \in 0 .. MaxOps
      BY ApplicationAssumption DEF Managed!ApplicationCache, Managed!Method
    <2>. QED BY <2>1 DEF Managed!ApplicationCache
  <1>2. mapp' = [mapp EXCEPT ![p] = n] /\ UNCHANGED <<names, strings, expiring, mphase>>
    BY DEF Managed!Method
  <1> HIDE DEF n
  <1>. QED BY <1>1, <1>2 DEF FarmTypeOK, Managed!TypeOK

\* The methods that a managed page calls leave Redis alone.
LEMMA ManagedScriptStep ==
    ASSUME FarmTypeOK, NEW p \in ManagedPages,
           Managed!Assign(p) \/ Managed!RemoveKey(p) \/ Managed!RemoveAll(p)
    PROVE  Managed!TypeOK' /\ UNCHANGED <<names, strings, expiring, mphase>>
  <1> DEFINE a == mapp[p]
  <1>1. p \in Pages /\ a \in Managed!ApplicationCache
    BY SharedCacheAssumption DEF FarmTypeOK, Managed!TypeOK
  <1>2. CASE Managed!Assign(p)
    <2> DEFINE e(k) == [val |-> p, IsNew |-> k \notin Managed!Here(a),
                        IsDirty |-> k \in Managed!Here(a)]
               With(k) == [a EXCEPT !.dictionary[k] = e(k)]
    <2>1. PICK k \in Keys : Managed!Method(p, "put", With(k))
      BY <1>2 DEF Managed!Assign
    <2>2. e(k) \in Managed!Element
      BY <1>1 DEF Managed!Element
    <2> HIDE DEF e
    <2>3. With(k) \in Managed!ApplicationCache /\ With(k).calls = a.calls
      BY <1>1, <2>2 DEF Managed!ApplicationCache
    <2> HIDE DEF With
    <2>. QED BY <2>1, <2>3, ManagedMethodType
  <1>3. ASSUME NEW keys \in SUBSET Managed!Here(a), NEW op,
               Managed!Method(p, op, Managed!Without(a, keys))
        PROVE  Managed!TypeOK' /\ UNCHANGED <<names, strings, expiring, mphase>>
    <2>1. keys \in SUBSET Keys
      BY <1>1, ManagedHereType
    <2>. QED BY <1>1, <1>3, <2>1, ManagedWithoutType, ManagedMethodType
  <1>4. CASE Managed!RemoveKey(p)
    <2>1. PICK k \in Managed!Here(a) : Managed!Method(p, "remove", Managed!Without(a, {k}))
      BY <1>4 DEF Managed!RemoveKey
    <2>. QED BY <1>3, <2>1
  <1>5. CASE Managed!RemoveAll(p)
    BY <1>3, <1>5 DEF Managed!RemoveAll
  <1>. QED BY <1>2, <1>4, <1>5

\* So does its load.
LEMMA ManagedLoadStep ==
    ASSUME FarmTypeOK, NEW p \in ManagedPages, Managed!GetMembers(p) \/ Managed!GetStrings(p)
    PROVE  Managed!TypeOK' /\ UNCHANGED <<names, strings, expiring>>
  <1>1. /\ p \in Pages /\ mapp[p] \in Managed!ApplicationCache
        /\ names \subseteq Keys /\ strings \in [Keys -> Value \cup {None}]
    BY SharedCacheAssumption DEF FarmTypeOK, Managed!TypeOK, TypeOK
  <1>2. CASE Managed!GetMembers(p)
    BY <1>1, <1>2
    DEF Managed!GetMembers, Managed!redis, FarmTypeOK, Managed!TypeOK, Managed!ApplicationCache
  <1>3. CASE Managed!GetStrings(p)
    <2> DEFINE dictionary == [k \in Keys |-> IF k \in mapp[p].members
                                             THEN Managed!Loaded(strings[k]) ELSE Absent]
               n == [mapp[p] EXCEPT !.dictionary = dictionary, !.members = {}]
    <2>1. ASSUME NEW v \in Value \cup {None}
          PROVE  Managed!Loaded(v) \in Managed!Element \cup {Absent}
      BY DEF Managed!Loaded, Managed!Element, Value
    <2>2. dictionary \in [Keys -> Managed!Element \cup {Absent}]
      BY <1>1, <2>1
    <2>3. n \in Managed!ApplicationCache
      <3>. HIDE DEF dictionary
      <3>. QED BY <1>1, <2>2 DEF Managed!ApplicationCache
    <2>4. /\ mapp' = [mapp EXCEPT ![p] = n] /\ mphase' = [mphase EXCEPT ![p] = "open"]
          /\ UNCHANGED <<names, strings, expiring>>
      BY <1>3 DEF Managed!GetStrings, Managed!redis
    <2>. HIDE DEF n
    <2>. QED BY <2>3, <2>4 DEF FarmTypeOK, Managed!TypeOK
  <1>. QED BY <1>2, <1>3

\* A step of a save, whatever it does to Redis, leaves a page in its phase
\* with the object it had, or without one.
LEMMA SendType ==
    ASSUME FarmTypeOK, NEW p \in ManagedPages, NEW now,
           NEW next \in {"sadd", "srem", "mset", "done"}, Managed!Send(p, now, next)
    PROVE  Managed!TypeOK'
  BY SharedCacheAssumption, NewCacheType DEF Managed!Send, FarmTypeOK, Managed!TypeOK

LEMMA ManagedSaveType ==
    ASSUME FarmTypeOK, NEW p \in ManagedPages,
           \/ Managed!ApplicationSave(p) \/ Managed!SetAdd(p)
           \/ Managed!SetRemove(p) \/ Managed!StringSet(p)
    PROVE  Managed!TypeOK'
  BY SendType
  DEF Managed!ApplicationSave, Managed!SetAdd, Managed!SetRemove, Managed!StringSet

LEMMA ManagedFaultType ==
    ASSUME FarmTypeOK, NEW p \in ManagedPages, Managed!Fault(p)
    PROVE  Managed!TypeOK' /\ UNCHANGED <<names, strings, expiring>>
  <1>1. CASE Managed!LoadFails(p)
    BY <1>1, SharedCacheAssumption, NewCacheType
    DEF Managed!LoadFails, Managed!redis, FarmTypeOK, Managed!TypeOK
  <1>2. CASE Managed!CommandLost(p)
    BY <1>2, SendType DEF Managed!CommandLost, Managed!redis
  <1>3. CASE Managed!Crash(p)
    BY <1>3, SendType DEF Managed!Crash, Managed!redis
  <1>. QED BY <1>1, <1>2, <1>3 DEF Managed!Fault

\* The strings that MSET leaves, for every managed page.
LEMMA StringSetStep ==
    ASSUME FarmTypeOK, NEW p \in ManagedPages, Managed!StringSet(p)
    PROVE  /\ strings' \in [Keys -> Value \cup {None}]
           /\ expiring' \subseteq {k \in Keys : strings'[k] # None}
           /\ UNCHANGED names
           /\ \A k \in Keys : strings'[k] = None =>
                 strings[k] = None /\ k \notin Managed!NewKeys(mapp[p])
  <1> DEFINE a == mapp[p]
             written == Managed!Written(a)
             result == [k \in Keys |-> IF k \in written THEN a.dictionary[k].val
                                       ELSE strings[k]]
  <1>1. /\ a \in Managed!ApplicationCache /\ strings \in [Keys -> Value \cup {None}]
        /\ expiring \subseteq {k \in Keys : strings[k] # None}
    BY SharedCacheAssumption DEF FarmTypeOK, Managed!TypeOK, TypeOK
  <1>2. strings' = result /\ expiring' = expiring \ written /\ names' = names
    BY DEF Managed!StringSet
  <1>3. /\ Managed!NewKeys(a) \subseteq written
        /\ \A k \in written : k \in Keys /\ a.dictionary[k].val \in Value
    BY <1>1, ManagedWritten
  <1> HIDE DEF a, written
  <1>. QED BY <1>1, <1>2, <1>3, ApplicationAssumption DEF a

LEMMA ManagedTypeStep ==
    ASSUME FarmTypeOK, NEW p \in ManagedPages, ManagedStep(p) \/ ManagedFault(p)
    PROVE  TypeOK' /\ Managed!TypeOK'
  <1>1. ASSUME UNCHANGED <<names, strings, expiring, phase, app>>  PROVE TypeOK'
    BY <1>1 DEF FarmTypeOK, TypeOK
  <1>2. UNCHANGED <<phase, app>>
    BY DEF ManagedStep, ManagedFault
  <1>3. CASE ManagedFault(p)
    BY <1>1, <1>2, <1>3, ManagedFaultType DEF ManagedFault
  <1>4. CASE Managed!GetMembers(p) \/ Managed!GetStrings(p)
    BY <1>1, <1>2, <1>4, ManagedLoadStep
  <1>5. CASE Managed!Assign(p) \/ Managed!RemoveKey(p) \/ Managed!RemoveAll(p)
    BY <1>1, <1>2, <1>5, ManagedScriptStep
  <1>6. CASE Managed!ApplicationSave(p)
    <2>1. UNCHANGED <<names, strings, expiring>>
      BY <1>6 DEF Managed!ApplicationSave, Managed!redis
    <2>. QED BY <1>1, <1>2, <1>6, <2>1, ManagedSaveType
  <1>7. CASE Managed!SetAdd(p) \/ Managed!SetRemove(p)
    <2>1. Managed!NewKeys(mapp[p]) \subseteq Keys
      BY SharedCacheAssumption, ManagedWritten DEF FarmTypeOK, Managed!TypeOK
    <2>2. names' \subseteq Keys /\ UNCHANGED <<strings, expiring>>
      BY <1>7, <2>1 DEF Managed!SetAdd, Managed!SetRemove, FarmTypeOK, TypeOK
    <2>. QED BY <1>2, <1>7, <2>2, ManagedSaveType DEF FarmTypeOK, TypeOK
  <1>8. CASE Managed!StringSet(p)
    BY <1>2, <1>8, StringSetStep, ManagedSaveType DEF FarmTypeOK, TypeOK
  <1>. QED BY <1>3, <1>4, <1>5, <1>6, <1>7, <1>8 DEF ManagedStep, Managed!Step

LEMMA FarmTypeStep == FarmTypeOK /\ [FarmNext]_fvars => FarmTypeOK'
  <1> SUFFICES ASSUME FarmTypeOK, [FarmNext]_fvars PROVE FarmTypeOK'
    OBVIOUS
  <1>1. ASSUME NEW p \in ClassicPages, ClassicStep(p)
        PROVE  TypeOK' /\ UNCHANGED <<mphase, mapp>>
    <2>1. p \in Pages
      BY DEF ClassicPages
    <2>2. OnStartPage(p) \/ Script(p) \/ OnEndPage(p)
      BY <1>1 DEF ClassicStep
    <2>3. TypeOK'
      BY <2>1, <2>2, TypeStep DEF FarmTypeOK, Next
    <2>. QED BY <1>1, <2>3 DEF ClassicStep
  <1>2. ASSUME TimeToLive \/ ClassicCrash \/ FarmDone \/ UNCHANGED fvars
        PROVE  TypeOK' /\ Managed!TypeOK'
    <2>1. [Next]_vars /\ UNCHANGED <<mphase, mapp>>
      BY <1>2 DEF TimeToLive, ClassicCrash, FarmDone, Next, fvars, vars
    <2>. QED BY <2>1, TypeStep DEF FarmTypeOK, Managed!TypeOK
  <1>3. ASSUME UNCHANGED <<mphase, mapp>>  PROVE Managed!TypeOK'
    BY <1>3 DEF FarmTypeOK, Managed!TypeOK
  <1>4. TypeOK' /\ Managed!TypeOK'
    BY <1>1, <1>2, <1>3, ManagedTypeStep DEF FarmNext, FarmTypeOK
  <1>5. ASSUME NEW more \in SUBSET Keys, StillHalfway(more)
        PROVE  halfway' \subseteq {k \in Keys : strings'[k] = None}
    BY <1>5 DEF StillHalfway, FarmTypeOK
  <1>6. ASSUME NEW p \in ManagedPages  PROVE Managed!OnTheirWay(p) \subseteq Keys
    <2>1. Managed!NewKeys(mapp[p]) \subseteq Keys
      BY SharedCacheAssumption, ManagedWritten DEF FarmTypeOK, Managed!TypeOK
    <2>. QED BY <2>1 DEF Managed!OnTheirWay
  <1>7. halfway' \subseteq {k \in Keys : strings'[k] = None}
    <2>1. CASE ClassicCrash \/ FarmDone \/ UNCHANGED fvars
      BY <2>1 DEF ClassicCrash, Crash, FarmDone, fvars, FarmTypeOK
    <2>2. CASE TimeToLive
      BY <2>2, <1>5 DEF TimeToLive, FarmTypeOK, TypeOK
    <2>3. ASSUME NEW p \in ManagedPages, ManagedStep(p) \/ ManagedFault(p)
          PROVE  halfway' \subseteq {k \in Keys : strings'[k] = None}
      BY <2>3, <1>5, <1>6 DEF ManagedStep, ManagedFault
    <2>4. ASSUME NEW p \in ClassicPages, ClassicStep(p)
          PROVE  halfway' \subseteq {k \in Keys : strings'[k] = None}
      BY <2>4, <1>5 DEF ClassicStep
    <2>. QED BY <2>1, <2>2, <2>3, <2>4 DEF FarmNext
  <1>. QED BY <1>4, <1>7 DEF FarmTypeOK

\* Classic and managed pages, whose objects have the same keys in Redis, keep
\* every variable of the cache and of their own objects in its type; what a
\* save that was cut short left behind has no string.
THEOREM FarmTypeCorrect == FarmSpec => []FarmTypeOK
  <1>1. FarmInit => FarmTypeOK
    BY NewApplicationType, NewCacheType
    DEF FarmInit, Init, FarmTypeOK, TypeOK, Phase, Managed!TypeOK
  <1>. QED BY <1>1, FarmTypeStep, PTL DEF FarmSpec

-----------------------------------------------------------------------------
(* Names without a string *)

Explained(k) ==
    k \in halfway \/ \E p \in ManagedPages : k \in Managed!OnTheirWay(p)

\* A managed page works on its own object.
LEMMA OthersStay ==
    ASSUME FarmTypeOK, NEW p \in ManagedPages, ManagedStep(p) \/ ManagedFault(p),
           NEW q \in ManagedPages \ {p}
    PROVE  mphase'[q] = mphase[q] /\ mapp'[q] = mapp[q]
  <1>1. p \in Pages /\ q \in Pages /\ p # q /\ mphase = [r \in Pages |-> mphase[r]]
        /\ mapp \in [Pages -> Managed!ApplicationCache]
    BY SharedCacheAssumption DEF FarmTypeOK, Managed!TypeOK
  <1>2. CASE Managed!GetMembers(p) \/ Managed!GetStrings(p) \/ Managed!LoadFails(p)
    BY <1>1, <1>2 DEF Managed!GetMembers, Managed!GetStrings, Managed!LoadFails
  <1>3. ASSUME NEW op, NEW a, Managed!Method(p, op, a)
        PROVE  mphase'[q] = mphase[q] /\ mapp'[q] = mapp[q]
    BY <1>1, <1>3 DEF Managed!Method
  <1>4. CASE Managed!Assign(p) \/ Managed!RemoveKey(p) \/ Managed!RemoveAll(p)
    BY <1>3, <1>4 DEF Managed!Assign, Managed!RemoveKey, Managed!RemoveAll
  <1>5. ASSUME NEW now, NEW next, Managed!Send(p, now, next)
        PROVE  mphase'[q] = mphase[q] /\ mapp'[q] = mapp[q]
    BY <1>1, <1>5 DEF Managed!Send
  <1>6. CASE \/ Managed!ApplicationSave(p) \/ Managed!SetAdd(p) \/ Managed!SetRemove(p)
             \/ Managed!StringSet(p) \/ Managed!CommandLost(p) \/ Managed!Crash(p)
    BY <1>5, <1>6
    DEF Managed!ApplicationSave, Managed!SetAdd, Managed!SetRemove, Managed!StringSet,
        Managed!CommandLost, Managed!Crash
  <1>. QED BY <1>2, <1>4, <1>6 DEF ManagedStep, ManagedFault, Managed!Step, Managed!Fault

\* What a page has added and not yet written stays on its way, is written, or
\* is recorded.
LEMMA OnTheirWayStep ==
    ASSUME FarmTypeOK, NEW p \in ManagedPages, ManagedStep(p) \/ ManagedFault(p),
           NEW k \in Managed!OnTheirWay(p), strings'[k] = None
    PROVE  k \in Managed!OnTheirWay(p)' \/ k \in halfway'
  <1>1. /\ p \in Pages /\ mphase[p] \in {"srem", "mset"} /\ k \in Managed!NewKeys(mapp[p])
        /\ mphase = [r \in Pages |-> mphase[r]]
    BY SharedCacheAssumption DEF Managed!OnTheirWay, FarmTypeOK, Managed!TypeOK
  <1>2. CASE ManagedFault(p)
    BY <1>2 DEF ManagedFault, StillHalfway
  <1>3. CASE Managed!SetRemove(p)
    BY <1>1, <1>3 DEF Managed!SetRemove, Managed!Send, Managed!OnTheirWay
  <1>4. CASE Managed!StringSet(p)
    <2>1. k \in Keys
      BY <1>1, ManagedWritten DEF FarmTypeOK, Managed!TypeOK
    <2>. QED BY <1>1, <1>4, <2>1, StringSetStep
  <1>5. ASSUME NEW op, NEW a, Managed!Method(p, op, a)  PROVE FALSE
    BY <1>1, <1>5 DEF Managed!Method
  <1>6. ~ (Managed!Assign(p) \/ Managed!RemoveKey(p) \/ Managed!RemoveAll(p))
    BY <1>5 DEF Managed!Assign, Managed!RemoveKey, Managed!RemoveAll
  <1>7. ~ (\/ Managed!GetMembers(p) \/ Managed!GetStrings(p) \/ Managed!ApplicationSave(p)
           \/ Managed!SetAdd(p))
    BY <1>1
    DEF Managed!GetMembers, Managed!GetStrings, Managed!ApplicationSave, Managed!SetAdd,
        Managed!Send
  <1>. QED BY <1>2, <1>3, <1>4, <1>6, <1>7 DEF ManagedStep, Managed!Step

\* Only the page that adds a name puts it in the set, and its string is then
\* on its way.
LEMMA ManagedNames ==
    ASSUME FarmTypeOK, NEW p \in ManagedPages, ManagedStep(p) \/ ManagedFault(p)
    PROVE  \A k \in names' \ names : /\ mphase[p] = "sadd"
                                     /\ k \in Managed!NewKeys(mapp[p])
                                     /\ k \in Managed!OnTheirWay(p)'
  <1>1. CASE Managed!SetAdd(p)
    <2>1. p \in Pages /\ mphase = [r \in Pages |-> mphase[r]]
      BY SharedCacheAssumption DEF FarmTypeOK, Managed!TypeOK
    <2>. QED BY <1>1, <2>1 DEF Managed!SetAdd, Managed!Send, Managed!OnTheirWay
  <1>2. CASE ManagedFault(p)
    BY <1>2, ManagedFaultType DEF ManagedFault
  <1>3. CASE Managed!SetRemove(p) \/ Managed!StringSet(p) \/ Managed!ApplicationSave(p)
    BY <1>3
    DEF Managed!SetRemove, Managed!StringSet, Managed!ApplicationSave, Managed!redis
  <1>4. CASE \/ Managed!GetMembers(p) \/ Managed!GetStrings(p)
             \/ Managed!Assign(p) \/ Managed!RemoveKey(p) \/ Managed!RemoveAll(p)
    BY <1>4, ManagedLoadStep, ManagedScriptStep
  <1>. QED BY <1>1, <1>2, <1>3, <1>4 DEF ManagedStep, Managed!Step

\* No step of a managed page takes a string away.
LEMMA ManagedStrings ==
    ASSUME FarmTypeOK, NEW p \in ManagedPages, ManagedStep(p) \/ ManagedFault(p),
           NEW k \in Keys, strings'[k] = None
    PROVE  strings[k] = None
  <1>1. CASE Managed!StringSet(p)
    BY <1>1, StringSetStep
  <1>2. CASE ManagedFault(p)
    BY <1>2, ManagedFaultType DEF ManagedFault
  <1>3. CASE Managed!SetAdd(p) \/ Managed!SetRemove(p) \/ Managed!ApplicationSave(p)
    BY <1>3 DEF Managed!SetAdd, Managed!SetRemove, Managed!ApplicationSave, Managed!redis
  <1>4. CASE \/ Managed!GetMembers(p) \/ Managed!GetStrings(p)
             \/ Managed!Assign(p) \/ Managed!RemoveKey(p) \/ Managed!RemoveAll(p)
    BY <1>4, ManagedLoadStep, ManagedScriptStep
  <1>. QED BY <1>1, <1>2, <1>3, <1>4 DEF ManagedStep, Managed!Step

LEMMA ManagedExplained ==
    ASSUME FarmTypeOK, GhostsExplained, NEW p \in ManagedPages,
           ManagedStep(p) \/ ManagedFault(p), NEW k \in names', strings'[k] = None,
           k \in Keys
    PROVE  Explained(k)'
  <1>1. CASE k \notin names
    BY <1>1, ManagedNames DEF Explained
  <1>2. CASE k \in halfway
    BY <1>2 DEF ManagedStep, ManagedFault, StillHalfway, Explained
  <1>3. CASE k \in Managed!OnTheirWay(p)
    BY <1>3, OnTheirWayStep DEF Explained
  <1>4. ASSUME NEW q \in ManagedPages \ {p}, k \in Managed!OnTheirWay(q)
        PROVE  Explained(k)'
    <2>1. mphase'[q] = mphase[q] /\ mapp'[q] = mapp[q]
      BY OthersStay
    <2>2. k \in Managed!OnTheirWay(q)'
      BY <1>4, <2>1 DEF Managed!OnTheirWay
    <2>. QED BY <2>2 DEF Explained
  <1>. QED BY <1>1, <1>2, <1>3, <1>4, ManagedStrings DEF GhostsExplained

\* A save of a classic page is one transaction: each name it adds has a string.
LEMMA ClassicExplained ==
    ASSUME FarmTypeOK, GhostsExplained, NEW p \in ClassicPages, ClassicStep(p),
           NEW k \in names', strings'[k] = None, k \in Keys
    PROVE  Explained(k)'
  <1>1. p \in Pages /\ app[p] \in CApplication /\ TypeOK
    BY DEF ClassicPages, FarmTypeOK, TypeOK
  <1>2. k \in names /\ strings[k] = None
    <2>1. CASE ApplicationSave(p)
      <3>1. /\ names' = (names \cup SAdd(app[p])) \ app[p].removed
            /\ strings'[k] = IF k \in MSet(app[p]) THEN app[p].dictionary[k].val
                             ELSE IF k \in Del(app[p]) THEN None ELSE strings[k]
        BY <2>1 DEF ApplicationSave
      <3>2. k \in MSet(app[p]) => app[p].dictionary[k].val # None
        BY <1>1, ElementsWritten, ApplicationAssumption
      <3>. QED BY <3>1, <3>2 DEF SAdd, MSet, Del
    <2>2. CASE OnStartPage(p)
      BY <2>2 DEF OnStartPage, GetMembers, GetStrings, RemoveGhosts, ConnectionFails
    <2>3. CASE Script(p) \/ EndOfPage(p)
      BY <2>3 DEF Script, PutValue, PutRefValue, Remove, RemoveAll, ExpireKeyAt, Method,
                  EndOfPage
    <2>. QED BY <2>1, <2>2, <2>3 DEF ClassicStep, OnEndPage
  <1>3. UNCHANGED <<mphase, mapp>> /\ (k \in halfway => k \in halfway')
    BY DEF ClassicStep, StillHalfway
  <1>. QED BY <1>2, <1>3 DEF GhostsExplained, Explained, Managed!OnTheirWay

LEMMA ExplainedStep ==
    FarmTypeOK /\ GhostsExplained /\ [FarmNext]_fvars => GhostsExplained'
  <1> SUFFICES ASSUME FarmTypeOK, GhostsExplained, [FarmNext]_fvars,
                      NEW k \in names', strings'[k] = None
               PROVE  Explained(k)'
    BY DEF GhostsExplained, Explained
  <1>1. k \in Keys
    BY FarmTypeStep DEF FarmTypeOK, TypeOK
  <1>2. CASE TimeToLive
    <2>1. UNCHANGED <<names, mphase, mapp>> /\ strings \in [Keys -> Value \cup {None}]
      BY <1>2 DEF TimeToLive, Expire, FarmTypeOK, TypeOK
    <2>2. PICK j \in expiring : strings' = [strings EXCEPT ![j] = None]
      BY <1>2 DEF TimeToLive, Expire
    <2>3. CASE k = j
      BY <1>2, <2>3 DEF TimeToLive, StillHalfway, Explained
    <2>4. CASE k # j
      <3>1. Explained(k)
        BY <1>1, <2>1, <2>2, <2>4 DEF GhostsExplained, Explained
      <3>. QED BY <1>2, <2>1, <3>1
           DEF TimeToLive, StillHalfway, Explained, Managed!OnTheirWay
    <2>. QED BY <2>3, <2>4
  <1>3. CASE ClassicCrash \/ FarmDone \/ UNCHANGED fvars
    <2>1. UNCHANGED <<names, strings, mphase, mapp, halfway>>
      BY <1>3 DEF ClassicCrash, Crash, FarmDone, fvars
    <2>. QED BY <2>1 DEF GhostsExplained, Explained, Managed!OnTheirWay
  <1>. QED BY <1>1, <1>2, <1>3, ManagedExplained, ClassicExplained DEF FarmNext

\* Whatever classic, ASP.NET and core pages share the cache, in any order of
\* their commands, every name in the set has its string, unless its time to
\* live ended, a page is just adding it, or a save was cut short.
THEOREM GhostsAreExplained == FarmSpec => []GhostsExplained
  <1>1. FarmInit => GhostsExplained
    BY DEF FarmInit, Init, GhostsExplained
  <1>. QED BY <1>1, ExplainedStep, FarmTypeCorrect, PTL DEF FarmSpec
=============================================================================
