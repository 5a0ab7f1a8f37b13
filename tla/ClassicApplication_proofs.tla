---------------------- MODULE ClassicApplication_proofs ----------------------
(***************************************************************************)
(* Proofs about ClassicApplication, for every set of names and of pages.   *)
(***************************************************************************)
EXTENDS ClassicApplication, TLAPS

-----------------------------------------------------------------------------
(* Type correctness *)

LEMMA NewApplicationType == NewApplication \in CApplication
  BY ApplicationAssumption DEF NewApplication, CApplication

LEMMA LoadedType ==
    ASSUME NEW v \in Value \cup {None}
    PROVE  Loaded(v) \in Element \cup {Absent}
  BY DEF Loaded, Element

\* The names of a page's dictionary are those that have an element.
LEMMA HereType ==
    ASSUME NEW a \in CApplication
    PROVE  /\ Here(a) \subseteq Keys
           /\ \A k \in Keys : k \in Here(a) <=> a.dictionary[k] \in Element
  BY ApplicationAssumption DEF Here, CApplication

LEMMA WithoutType ==
    ASSUME NEW a \in CApplication, NEW keys \in SUBSET Keys
    PROVE  /\ Without(a, keys) \in CApplication
           /\ Here(Without(a, keys)) = Here(a) \ keys
           /\ \A k \in Keys \ keys : Without(a, keys).dictionary[k] = a.dictionary[k]
           /\ Without(a, keys).removed = a.removed \cup keys
           /\ Without(a, keys).members = a.members
           /\ Without(a, keys).ghosts = a.ghosts
  BY DEF Without, CApplication, Here

\* A dictionary in which one element was entered or replaced.
LEMMA EnteredType ==
    ASSUME NEW a \in CApplication, NEW k \in Keys, NEW e \in Element
    PROVE  LET n == [a EXCEPT !.dictionary[k] = e]
           IN /\ n \in CApplication
              /\ n.dictionary = [a.dictionary EXCEPT ![k] = e]
              /\ n.removed = a.removed /\ n.members = a.members /\ n.ghosts = a.ghosts
              /\ Here(n) = Here(a) \cup {k}
  <1> DEFINE n == [a EXCEPT !.dictionary[k] = e]
  <1>1. n.dictionary = [a.dictionary EXCEPT ![k] = e] /\ n \in CApplication
    BY DEF CApplication
  <1>2. Here(n) = Here(a) \cup {k}
    BY <1>1, ApplicationAssumption DEF Here, CApplication
  <1>3. n.removed = a.removed /\ n.members = a.members /\ n.ghosts = a.ghosts
    BY DEF CApplication
  <1>. QED BY <1>1, <1>2, <1>3

\* What the call of a method is: an object that differs in more than the
\* number of calls, of a page whose script runs.
LEMMA MethodType ==
    ASSUME TypeOK, NEW p \in Pages, NEW op, NEW a \in CApplication, Method(p, op, a),
           a.calls = app[p].calls
    PROVE  /\ TypeOK'
           /\ app'[p].dictionary = a.dictionary /\ app'[p].removed = a.removed
           /\ app'[p].members = a.members /\ app'[p].ghosts = a.ghosts
           /\ \A q \in Pages \ {p} : app'[q] = app[q]
  <1> DEFINE n == [a EXCEPT !.calls = @ + 1]
  <1>1. n \in CApplication
    <2>1. a.calls + 1 \in 0 .. MaxOps
      BY ApplicationAssumption DEF CApplication, Method
    <2>. QED BY <2>1 DEF CApplication
  <1>2. app' = [app EXCEPT ![p] = n]
    BY DEF Method
  <1>3. n.dictionary = a.dictionary /\ n.removed = a.removed
        /\ n.members = a.members /\ n.ghosts = a.ghosts
    BY DEF CApplication
  <1> HIDE DEF n
  <1>. QED BY <1>1, <1>2, <1>3 DEF TypeOK, Method

\* What is left of a method once its call is accounted for.
Called(p, a) ==
    /\ phase[p] = "open"
    /\ a \in CApplication
    /\ a.members = app[p].members /\ a.ghosts = app[p].ghosts
    /\ app'[p].dictionary = a.dictionary /\ app'[p].removed = a.removed
    /\ app'[p].members = a.members /\ app'[p].ghosts = a.ghosts
    /\ \A q \in Pages \ {p} : app'[q] = app[q]
    /\ UNCHANGED <<names, strings, expiring, phase>>

LEMMA MethodCalled ==
    ASSUME TypeOK, NEW p \in Pages, NEW op, NEW a \in CApplication, Method(p, op, a),
           a.calls = app[p].calls, a.members = app[p].members, a.ghosts = app[p].ghosts
    PROVE  TypeOK' /\ Called(p, a)
  BY MethodType DEF Method, Called

\* The element that put_Value or putref_Value makes of the name k.
Assigned(a, k, e) ==
    /\ e \in Element
    /\ e.IsNew = (k \notin Here(a) \/ a.dictionary[k].IsNew)
    /\ e.IsNew \/ e.IsDirty
    /\ e.ExpireAt = IF k \in Here(a) THEN a.dictionary[k].ExpireAt ELSE 0

LEMMA PutStep ==
    ASSUME TypeOK, NEW p \in Pages, PutValue(p) \/ PutRefValue(p)
    PROVE  /\ TypeOK'
           /\ \E k \in Keys, e \in Element :
                 /\ Readd \/ k \notin app[p].removed
                 /\ Assigned(app[p], k, e)
                 /\ Called(p, [app[p] EXCEPT !.dictionary[k] = e])
  <1> DEFINE a == app[p]
             With(k, e) == [a EXCEPT !.dictionary[k] = e]
  <1>1. a \in CApplication
    BY DEF TypeOK
  <1>2. ASSUME NEW k \in Keys, NEW e \in Element, NEW op, Method(p, op, With(k, e))
        PROVE  TypeOK' /\ Called(p, With(k, e))
    <2>1. With(k, e) \in CApplication
      BY <1>1, EnteredType
    <2>2. /\ With(k, e).calls = a.calls /\ With(k, e).members = a.members
          /\ With(k, e).ghosts = a.ghosts
      BY <1>1 DEF CApplication
    <2>. HIDE DEF With
    <2>. QED BY <1>2, <2>1, <2>2, MethodCalled
  <1>3. ASSUME NEW k \in Keys, k \in Here(a)  PROVE a.dictionary[k] \in Element
    BY <1>1, <1>3, HereType
  <1>4. CASE PutValue(p)
    <2>1. PICK k \in Keys, v \in {p, Empty} :
             LET e == IF k \notin Here(a) THEN NewElement
                      ELSE IF a.dictionary[k].IsNew THEN a.dictionary[k]
                      ELSE [a.dictionary[k] EXCEPT !.IsDirty = TRUE]
                 w == IF v = Empty THEN e ELSE [e EXCEPT !.val = v]
             IN (Readd \/ k \notin a.removed) /\ Method(p, "put", With(k, w))
      BY <1>4 DEF PutValue
    <2> DEFINE e == IF k \notin Here(a) THEN NewElement
                    ELSE IF a.dictionary[k].IsNew THEN a.dictionary[k]
                    ELSE [a.dictionary[k] EXCEPT !.IsDirty = TRUE]
               w == IF v = Empty THEN e ELSE [e EXCEPT !.val = v]
    <2>2. Assigned(a, k, e)
      BY <1>3 DEF Assigned, Element, NewElement, Value
    <2>3. Assigned(a, k, w)
      <3>. HIDE DEF e
      <3>. QED BY <2>2 DEF Assigned, Element, Value
    <2>4. w \in Element
      BY <2>3 DEF Assigned
    <2>5. (Readd \/ k \notin a.removed) /\ Method(p, "put", With(k, w))
      BY <2>1
    <2>. HIDE DEF e, w, With, a
    <2>6. TypeOK' /\ Called(p, With(k, w))
      BY <2>4, <2>5, <1>2
    <2>. QED BY <2>3, <2>4, <2>5, <2>6 DEF With, a
  <1>5. CASE PutRefValue(p)
    <2>1. PICK k \in Keys, v \in {p, Empty} :
             LET e == IF k \notin Here(a) THEN NewElement
                      ELSE [a.dictionary[k] EXCEPT !.IsDirty = TRUE]
                 w == IF v = Empty THEN e ELSE [e EXCEPT !.val = v]
             IN (Readd \/ k \notin a.removed) /\ Method(p, "putref", With(k, w))
      BY <1>5 DEF PutRefValue
    <2> DEFINE e == IF k \notin Here(a) THEN NewElement
                    ELSE [a.dictionary[k] EXCEPT !.IsDirty = TRUE]
               w == IF v = Empty THEN e ELSE [e EXCEPT !.val = v]
    <2>2. Assigned(a, k, e)
      BY <1>3 DEF Assigned, Element, NewElement, Value
    <2>3. Assigned(a, k, w)
      <3>. HIDE DEF e
      <3>. QED BY <2>2 DEF Assigned, Element, Value
    <2>4. w \in Element
      BY <2>3 DEF Assigned
    <2>5. (Readd \/ k \notin a.removed) /\ Method(p, "putref", With(k, w))
      BY <2>1
    <2>. HIDE DEF e, w, With, a
    <2>6. TypeOK' /\ Called(p, With(k, w))
      BY <2>4, <2>5, <1>2
    <2>. QED BY <2>3, <2>4, <2>5, <2>6 DEF With, a
  <1>. QED BY <1>4, <1>5

LEMMA RemoveStep ==
    ASSUME TypeOK, NEW p \in Pages, Remove(p) \/ RemoveAll(p)
    PROVE  /\ TypeOK'
           /\ \E keys \in SUBSET Here(app[p]) : Called(p, Without(app[p], keys))
  <1>1. app[p] \in CApplication /\ Here(app[p]) \subseteq Keys
    BY HereType DEF TypeOK
  <1>2. ASSUME NEW keys \in SUBSET Here(app[p]), NEW op, Method(p, op, Without(app[p], keys))
        PROVE  TypeOK' /\ Called(p, Without(app[p], keys))
    <2> DEFINE n == Without(app[p], keys)
    <2>1. n \in CApplication /\ n.members = app[p].members /\ n.ghosts = app[p].ghosts
      BY <1>1, WithoutType
    <2>2. n.calls = app[p].calls
      BY <1>1 DEF Without, CApplication
    <2>. HIDE DEF n
    <2>. QED BY <1>2, <2>1, <2>2, MethodCalled DEF n
  <1>3. CASE Remove(p)
    <2>1. PICK k \in Here(app[p]) : Method(p, "remove", Without(app[p], {k}))
      BY <1>3 DEF Remove
    <2>. QED BY <1>2, <2>1
  <1>4. CASE RemoveAll(p)
    BY <1>2, <1>4 DEF RemoveAll
  <1>. QED BY <1>3, <1>4

LEMMA ExpireKeyStep ==
    ASSUME TypeOK, NEW p \in Pages, ExpireKeyAt(p)
    PROVE  /\ TypeOK'
           /\ \E k \in Here(app[p]), ms \in {0, 1} :
                 Called(p, [app[p] EXCEPT !.dictionary[k] =
                                [app[p].dictionary[k] EXCEPT !.ExpireAt = ms]])
  <1> DEFINE a == app[p]
             Later(k, ms) == [a.dictionary[k] EXCEPT !.ExpireAt = ms]
             With(k, e) == [a EXCEPT !.dictionary[k] = e]
  <1>1. a \in CApplication /\ Here(a) \subseteq Keys
    BY HereType DEF TypeOK
  <1>2. PICK k \in Here(a), ms \in {0, 1} : Method(p, "expire", With(k, Later(k, ms)))
    <2>1. PICK k \in Here(a), ms \in {0, 1} :
             Method(p, "expire", [a EXCEPT !.dictionary[k].ExpireAt = ms])
      BY DEF ExpireKeyAt
    <2>2. [a EXCEPT !.dictionary[k].ExpireAt = ms] = With(k, Later(k, ms))
      OBVIOUS
    <2>. QED BY <2>1, <2>2
  <1>3. Later(k, ms) \in Element
    <2>1. a.dictionary[k] \in Element
      BY <1>1, HereType
    <2>. QED BY <2>1 DEF Element
  <1>4. With(k, Later(k, ms)) \in CApplication
    <2>. HIDE DEF Later, a
    <2>. QED BY <1>1, <1>3, EnteredType
  <1>5. /\ With(k, Later(k, ms)).calls = a.calls
        /\ With(k, Later(k, ms)).members = a.members
        /\ With(k, Later(k, ms)).ghosts = a.ghosts
    BY <1>1 DEF CApplication
  <1> HIDE DEF With, Later
  <1>6. TypeOK' /\ Called(p, With(k, Later(k, ms)))
    BY <1>2, <1>4, <1>5, MethodCalled
  <1>. QED BY <1>6 DEF With, Later

\* The strings that a save leaves, and the elements that are written.
LEMMA ElementsWritten ==
    ASSUME NEW a \in CApplication
    PROVE  /\ MSet(a) \subseteq Here(a) /\ ExpireKeys(a) \subseteq Here(a)
           /\ \A k \in Here(a) : k \in Keys /\ a.dictionary[k].val \in Value
  BY HereType DEF MSet, NewKeys, ChangedKeys, ExpireKeys, Element

LEMMA SaveType ==
    ASSUME TypeOK, NEW p \in Pages, ApplicationSave(p)
    PROVE  TypeOK'
  <1> DEFINE a == app[p]
             written == [k \in Keys |-> IF k \in MSet(a) THEN a.dictionary[k].val
                                        ELSE IF k \in Del(a) THEN None ELSE strings[k]]
  <1>1. a \in CApplication
    BY DEF TypeOK
  <1>2. written \in [Keys -> Value \cup {None}]
    BY <1>1, ElementsWritten DEF TypeOK
  <1>3. SAdd(a) \subseteq Keys
    BY <1>1, HereType DEF SAdd, NewKeys
  <1>4. /\ names' = (names \cup SAdd(a)) \ a.removed /\ strings' = written
        /\ expiring' = {k \in (expiring \ (Del(a) \cup MSet(a))) \cup ExpireKeys(a) :
                           written[k] # None}
        /\ phase' = [phase EXCEPT ![p] = "saved"] /\ app' = app
    BY DEF ApplicationSave
  <1>5. expiring \subseteq Keys /\ ExpireKeys(a) \subseteq Keys
    BY <1>1, ElementsWritten DEF TypeOK
  <1> HIDE DEF written, a
  <1>. QED BY <1>2, <1>3, <1>4, <1>5 DEF TypeOK, Phase

LEMMA StartType ==
    ASSUME TypeOK, NEW p \in Pages, OnStartPage(p)
    PROVE  TypeOK'
  <1>1. app[p] \in CApplication
    BY DEF TypeOK
  <1>2. CASE GetMembers(p)
    BY <1>1, <1>2 DEF GetMembers, TypeOK, CApplication, Phase
  <1>3. CASE GetStrings(p)
    <2> DEFINE members == app[p].members
               dictionary == [k \in Keys |-> IF k \in members THEN Loaded(strings[k])
                                             ELSE Absent]
               ghosts == {k \in members : strings[k] = None}
               n == [app[p] EXCEPT !.dictionary = dictionary, !.members = {},
                                   !.ghosts = ghosts]
    <2>1. dictionary \in [Keys -> Element \cup {Absent}]
      BY LoadedType DEF TypeOK
    <2>2. ghosts \subseteq Keys
      BY <1>1 DEF CApplication
    <2>3. n \in CApplication
      <3>. HIDE DEF dictionary, ghosts
      <3>. QED BY <1>1, <2>1, <2>2 DEF CApplication
    <2>4. app' = [app EXCEPT ![p] = n]
      BY <1>3 DEF GetStrings
    <2>5. phase' \in [Pages -> Phase] /\ UNCHANGED <<names, strings, expiring>>
      BY <1>3 DEF GetStrings, TypeOK, Phase
    <2>. HIDE DEF n
    <2>. QED BY <2>3, <2>4, <2>5 DEF TypeOK
  <1>4. CASE RemoveGhosts(p)
    BY <1>1, <1>4 DEF RemoveGhosts, TypeOK, CApplication, Phase
  <1>5. CASE ConnectionFails(p)
    BY <1>5 DEF ConnectionFails, TypeOK, Phase
  <1>. QED BY <1>2, <1>3, <1>4, <1>5 DEF OnStartPage

LEMMA TypeStep == TypeOK /\ [Next]_vars => TypeOK'
  <1> SUFFICES ASSUME TypeOK, [Next]_vars PROVE TypeOK'
    OBVIOUS
  <1>1. ASSUME NEW p \in Pages, Script(p)  PROVE TypeOK'
    BY <1>1, PutStep, RemoveStep, ExpireKeyStep DEF Script
  <1>2. ASSUME NEW p \in Pages, EndOfPage(p)  PROVE TypeOK'
    BY <1>2, NewApplicationType DEF EndOfPage, TypeOK, Phase
  <1>3. CASE Expire
    BY <1>3 DEF Expire, TypeOK
  <1>4. CASE Crash
    BY <1>4, NewApplicationType DEF Crash, TypeOK, Phase
  <1>5. CASE AllDone \/ UNCHANGED vars
    BY <1>5 DEF AllDone, vars, TypeOK
  <1>. QED BY <1>1, <1>2, <1>3, <1>4, <1>5, SaveType, StartType DEF Next, OnEndPage

\* Every variable of the cache and of its pages keeps its type; in particular
\* only strings that exist have a time to live, whatever the transaction and
\* the expiry of Redis do to them.
THEOREM TypeCorrect == Spec => []TypeOK
  <1>1. Init => TypeOK
    BY NewApplicationType DEF Init, TypeOK, Phase
  <1>. QED BY <1>1, TypeStep, PTL DEF Spec
-----------------------------------------------------------------------------
(* Where the parts of an object are used *)

\* An object is empty until its page loads; the reply to SMEMBERS is kept only
\* until MGET; a script that does not put again what it removed has no element
\* under a removed name.
Staged(a, ph) ==
    /\ ph = "idle" => a = NewApplication
    /\ ph # "mget" => a.members = {}
    /\ ph = "mget" => a.removed = {}
    /\ a.removed \cap Here(a) = {}

Stages == \A p \in Pages : Staged(app[p], phase[p])

LEMMA NewApplicationStaged ==
    ASSUME NEW ph
    PROVE  Staged(NewApplication, ph) /\ Here(NewApplication) = {}
  BY DEF Staged, NewApplication, Here

LEMMA PutStaged ==
    ASSUME TypeOK, Stages, ~Readd, NEW p \in Pages, PutValue(p) \/ PutRefValue(p)
    PROVE  Stages'
  <1>1. PICK k \in Keys, e \in Element :
           k \notin app[p].removed /\ Called(p, [app[p] EXCEPT !.dictionary[k] = e])
    BY PutStep
  <1> DEFINE n == [app[p] EXCEPT !.dictionary[k] = e]
  <1>2. n.removed = app[p].removed /\ Here(n) = Here(app[p]) \cup {k}
    BY EnteredType DEF TypeOK
  <1>3. Called(p, n)
    BY <1>1
  <1> HIDE DEF n
  <1>4. Here(app'[p]) = Here(n)
    BY <1>3 DEF Called, Here
  <1>5. Staged(app'[p], phase'[p])
    BY <1>1, <1>2, <1>3, <1>4 DEF Called, Stages, Staged
  <1>. QED BY <1>3, <1>5 DEF Called, Stages

LEMMA RemoveStaged ==
    ASSUME TypeOK, Stages, NEW p \in Pages, Remove(p) \/ RemoveAll(p)
    PROVE  Stages'
  <1>1. PICK keys \in SUBSET Here(app[p]) : Called(p, Without(app[p], keys))
    BY RemoveStep
  <1> DEFINE n == Without(app[p], keys)
  <1>2. n.removed = app[p].removed \cup keys /\ Here(n) = Here(app[p]) \ keys
    BY WithoutType, HereType DEF TypeOK
  <1>3. Called(p, n)
    BY <1>1
  <1> HIDE DEF n
  <1>4. Here(app'[p]) = Here(n)
    BY <1>3 DEF Called, Here
  <1>5. Staged(app'[p], phase'[p])
    BY <1>2, <1>3, <1>4 DEF Called, Stages, Staged
  <1>. QED BY <1>3, <1>5 DEF Called, Stages

LEMMA ExpireKeyStaged ==
    ASSUME TypeOK, Stages, NEW p \in Pages, ExpireKeyAt(p)
    PROVE  Stages'
  <1>1. PICK k \in Here(app[p]), ms \in {0, 1} :
           Called(p, [app[p] EXCEPT !.dictionary[k] =
                          [app[p].dictionary[k] EXCEPT !.ExpireAt = ms]])
    BY ExpireKeyStep
  <1> DEFINE e == [app[p].dictionary[k] EXCEPT !.ExpireAt = ms]
             n == [app[p] EXCEPT !.dictionary[k] = e]
  <1>2. k \in Keys /\ e \in Element
    BY HereType DEF TypeOK, Element
  <1>3. Called(p, n)
    BY <1>1
  <1> HIDE DEF e
  <1>4. n.removed = app[p].removed /\ Here(n) = Here(app[p])
    <2>1. app[p] \in CApplication
      BY DEF TypeOK
    <2>2. n.removed = app[p].removed /\ Here(n) = Here(app[p]) \cup {k}
      BY <1>2, <2>1, EnteredType
    <2>. QED BY <2>2
  <1> HIDE DEF n
  <1>5. Here(app'[p]) = Here(n)
    BY <1>3 DEF Called, Here
  <1>6. Staged(app'[p], phase'[p])
    BY <1>3, <1>4, <1>5 DEF Called, Stages, Staged
  <1>. QED BY <1>3, <1>6 DEF Called, Stages

LEMMA StartStaged ==
    ASSUME TypeOK, Stages, NEW p \in Pages, OnStartPage(p)
    PROVE  Stages'
  <1>1. app[p] \in CApplication /\ Staged(app[p], phase[p])
    BY DEF TypeOK, Stages
  <1>2. ASSUME Staged(app'[p], phase'[p]),
               \A q \in Pages \ {p} : app'[q] = app[q] /\ phase'[q] = phase[q]
        PROVE  Stages'
    BY <1>2 DEF Stages
  <1>3. CASE GetMembers(p)
    <2> DEFINE n == [app[p] EXCEPT !.members = names]
    <2>1. n.members = names /\ n.removed = {} /\ Here(n) = {}
      BY <1>1, <1>3, NewApplicationStaged
         DEF GetMembers, Staged, NewApplication, CApplication, Here
    <2>2. app' = [app EXCEPT ![p] = n] /\ phase' = [phase EXCEPT ![p] =
                                                  IF names = {} THEN "open" ELSE "mget"]
      BY <1>3 DEF GetMembers
    <2>. HIDE DEF n
    <2>3. Staged(app'[p], phase'[p])
      BY <2>1, <2>2 DEF Staged, TypeOK
    <2>. QED BY <1>2, <2>2, <2>3 DEF TypeOK
  <1>4. CASE GetStrings(p)
    <2>1. app'[p].members = {} /\ app'[p].removed = {}
      BY <1>1, <1>4 DEF GetStrings, Staged, TypeOK, CApplication
    <2>2. phase'[p] \in {"open", "srem"}
      BY <1>4 DEF GetStrings, TypeOK
    <2>3. Staged(app'[p], phase'[p])
      BY <2>1, <2>2 DEF Staged
    <2>. QED BY <1>2, <1>4, <2>3 DEF GetStrings, TypeOK
  <1>5. CASE RemoveGhosts(p)
    <2>1. /\ app'[p].members = app[p].members /\ app'[p].removed = app[p].removed
          /\ app'[p].dictionary = app[p].dictionary
      BY <1>1, <1>5 DEF RemoveGhosts, TypeOK, CApplication
    <2>2. phase[p] = "srem" /\ phase'[p] = "open"
      BY <1>5 DEF RemoveGhosts, TypeOK
    <2>3. Staged(app'[p], phase'[p])
      BY <1>1, <2>1, <2>2 DEF Staged, Here
    <2>. QED BY <1>2, <1>5, <2>3 DEF RemoveGhosts, TypeOK
  <1>6. CASE ConnectionFails(p)
    <2>1. Staged(app'[p], phase'[p])
      BY <1>1, <1>6, NewApplicationStaged DEF ConnectionFails, Staged
    <2>. QED BY <1>2, <1>6, <2>1 DEF ConnectionFails, TypeOK
  <1>. QED BY <1>3, <1>4, <1>5, <1>6 DEF OnStartPage

LEMMA StagesStep ==
    ASSUME TypeOK, Stages, ~Readd, [Next]_vars
    PROVE  Stages'
  <1>1. ASSUME NEW p \in Pages, Script(p)  PROVE Stages'
    BY <1>1, PutStaged, RemoveStaged, ExpireKeyStaged DEF Script
  <1>2. ASSUME NEW p \in Pages, ApplicationSave(p)  PROVE Stages'
    BY <1>2 DEF ApplicationSave, Stages, Staged, TypeOK
  <1>3. ASSUME NEW p \in Pages, EndOfPage(p)  PROVE Stages'
    BY <1>3, NewApplicationStaged DEF EndOfPage, Stages, TypeOK
  <1>4. CASE Crash
    BY <1>4, NewApplicationStaged DEF Crash, Stages, TypeOK
  <1>5. CASE Expire \/ AllDone \/ UNCHANGED vars
    BY <1>5 DEF Expire, AllDone, vars, Stages
  <1>. QED BY <1>1, <1>2, <1>3, <1>4, <1>5, StartStaged DEF Next, OnEndPage

-----------------------------------------------------------------------------
(* Loads that no save comes between *)

\* Of the names that SMEMBERS listed, those that have left the set since were
\* ghosts; and ghosts do not come to life before SREM takes them away.
Settled ==
    /\ \A p \in Pages : phase[p] = "mget" =>
          \A k \in app[p].members : k \in names \/ strings[k] = None
    /\ GhostsAreDead

LEMMA SettledStep ==
    ASSUME TypeOK, Settled, QuietLoads, [Next]_vars
    PROVE  Settled'
  <1> USE DEF Settled, GhostsAreDead
  <1>1. ASSUME NEW p \in Pages, Script(p)  PROVE Settled'
    <2>1. PICK a : Called(p, a)
      BY <1>1, PutStep, RemoveStep, ExpireKeyStep DEF Script
    <2>. QED BY <2>1 DEF Called
  <1>2. ASSUME NEW p \in Pages, GetMembers(p)  PROVE Settled'
    BY <1>2 DEF GetMembers, TypeOK, CApplication
  <1>3. ASSUME NEW p \in Pages, GetStrings(p)  PROVE Settled'
    <2> DEFINE ghosts == {k \in app[p].members : strings[k] = None}
    <2>1. app'[p].ghosts = {k \in app[p].members : strings[k] = None}
      <3>1. PICK d : app'[p] = [app[p] EXCEPT !.dictionary = d, !.members = {},
                                             !.ghosts = ghosts]
        BY <1>3 DEF GetStrings, TypeOK
      <3>2. app[p] \in CApplication
        BY DEF TypeOK
      <3>. HIDE DEF ghosts
      <3>3. app'[p].ghosts = ghosts
        BY <3>1, <3>2 DEF CApplication
      <3>. QED BY <3>3 DEF ghosts
    <2>2. /\ \A q \in Pages \ {p} : app'[q] = app[q] /\ phase'[q] = phase[q]
          /\ phase'[p] # "mget" /\ UNCHANGED <<names, strings>>
      BY <1>3 DEF GetStrings, TypeOK
    <2>. QED BY <2>1, <2>2
  <1>4. ASSUME NEW p \in Pages, RemoveGhosts(p)  PROVE Settled'
    <2>1. \A k \in app[p].ghosts : strings[k] = None
      BY <1>4 DEF RemoveGhosts
    <2>2. /\ \A q \in Pages \ {p} : app'[q] = app[q] /\ phase'[q] = phase[q]
          /\ phase'[p] = "open" /\ names' = names \ app[p].ghosts /\ strings' = strings
      BY <1>4 DEF RemoveGhosts, TypeOK
    <2>. QED BY <2>1, <2>2
  <1>5. ASSUME NEW p \in Pages, ConnectionFails(p) \/ EndOfPage(p)  PROVE Settled'
    BY <1>5 DEF ConnectionFails, EndOfPage, TypeOK
  <1>6. ASSUME NEW p \in Pages, ApplicationSave(p)  PROVE Settled'
    BY <1>6 DEF ApplicationSave, TypeOK
  <1>7. CASE Expire
    BY <1>7 DEF Expire, TypeOK
  <1>8. CASE Crash
    BY <1>8 DEF Crash, TypeOK
  <1>9. CASE AllDone \/ UNCHANGED vars
    BY <1>9 DEF AllDone, vars
  <1>. QED BY <1>1, <1>2, <1>3, <1>4, <1>5, <1>6, <1>7, <1>8, <1>9
           DEF Next, OnStartPage, OnEndPage
-----------------------------------------------------------------------------
(* The pages of the contract *)

AllPages == [q \in Pages |-> PageOf(q)]

\* A record of the contract's page, field by field, and the updates that Begin,
\* Open, Put and Remove make.
PageWith(stage, listed, view, edits, ask) ==
    [stage |-> stage, listed |-> listed, view |-> view, edits |-> edits, ask |-> ask]

Begun(r, stage, listed) == [r EXCEPT !.stage = stage, !.listed = listed]
Opened(r, stage, listed, view) == [r EXCEPT !.stage = stage, !.listed = listed, !.view = view]
Edited(r, view, edits) == [r EXCEPT !.view = view, !.edits = edits]
Shortened(r, view, edits, ask) == [r EXCEPT !.view = view, !.edits = edits, !.ask = ask]

LEMMA BeginUpdate ==
    ASSUME NEW s, NEW l, NEW v, NEW e, NEW k, NEW s2, NEW l2
    PROVE  Begun(PageWith(s, l, v, e, k), s2, l2) = PageWith(s2, l2, v, e, k)
  <1> DEFINE r == PageWith(s, l, v, e, k)
  <1>1. [r EXCEPT !.stage = s2, !.listed = l2] = [[r EXCEPT !.stage = s2] EXCEPT !.listed = l2]
    BY Zenon
  <1>2. [r EXCEPT !.stage = s2] = PageWith(s2, l, v, e, k)
    BY DEF PageWith
  <1>3. [PageWith(s2, l, v, e, k) EXCEPT !.listed = l2] = PageWith(s2, l2, v, e, k)
    BY DEF PageWith
  <1>. QED BY <1>1, <1>2, <1>3, Zenon DEF Begun

LEMMA OpenUpdate ==
    ASSUME NEW s, NEW l, NEW v, NEW e, NEW k, NEW s2, NEW l2, NEW v2
    PROVE  Opened(PageWith(s, l, v, e, k), s2, l2, v2) = PageWith(s2, l2, v2, e, k)
  <1> DEFINE r == PageWith(s, l, v, e, k)
  <1>1. [r EXCEPT !.stage = s2, !.listed = l2, !.view = v2] =
           [[[r EXCEPT !.stage = s2] EXCEPT !.listed = l2] EXCEPT !.view = v2]
    BY Zenon
  <1>2. [r EXCEPT !.stage = s2] = PageWith(s2, l, v, e, k)
    BY DEF PageWith
  <1>3. [PageWith(s2, l, v, e, k) EXCEPT !.listed = l2] = PageWith(s2, l2, v, e, k)
    BY DEF PageWith
  <1>4. [PageWith(s2, l2, v, e, k) EXCEPT !.view = v2] = PageWith(s2, l2, v2, e, k)
    BY DEF PageWith
  <1>. QED BY <1>1, <1>2, <1>3, <1>4, Zenon DEF Opened

LEMMA PutUpdate ==
    ASSUME NEW s, NEW l, NEW v, NEW e, NEW k, NEW v2, NEW e2
    PROVE  Edited(PageWith(s, l, v, e, k), v2, e2) = PageWith(s, l, v2, e2, k)
  <1> DEFINE r == PageWith(s, l, v, e, k)
  <1>1. [r EXCEPT !.view = v2, !.edits = e2] = [[r EXCEPT !.view = v2] EXCEPT !.edits = e2]
    BY Zenon
  <1>2. [r EXCEPT !.view = v2] = PageWith(s, l, v2, e, k)
    BY DEF PageWith
  <1>3. [PageWith(s, l, v2, e, k) EXCEPT !.edits = e2] = PageWith(s, l, v2, e2, k)
    BY DEF PageWith
  <1>. QED BY <1>1, <1>2, <1>3, Zenon DEF Edited

LEMMA RemoveUpdate ==
    ASSUME NEW s, NEW l, NEW v, NEW e, NEW k, NEW v2, NEW e2, NEW k2
    PROVE  Shortened(PageWith(s, l, v, e, k), v2, e2, k2) = PageWith(s, l, v2, e2, k2)
  <1> DEFINE r == PageWith(s, l, v, e, k)
  <1>1. [r EXCEPT !.view = v2, !.edits = e2, !.ask = k2] =
           [[[r EXCEPT !.view = v2] EXCEPT !.edits = e2] EXCEPT !.ask = k2]
    BY Zenon
  <1>2. [r EXCEPT !.view = v2] = PageWith(s, l, v2, e, k)
    BY DEF PageWith
  <1>3. [PageWith(s, l, v2, e, k) EXCEPT !.edits = e2] = PageWith(s, l, v2, e2, k)
    BY DEF PageWith
  <1>4. [PageWith(s, l, v2, e2, k) EXCEPT !.ask = k2] = PageWith(s, l, v2, e2, k2)
    BY DEF PageWith
  <1>. QED BY <1>1, <1>2, <1>3, <1>4, Zenon DEF Shortened

\* A page of the contract as a function of the object and its phase.
View(a) == [k \in Keys |-> IF k \in Here(a) THEN a.dictionary[k].val ELSE None]
EditsOf(a) == [k \in Keys |-> EditOf(a, k)]
NoView == [k \in Keys |-> None]
NoEdits == [k \in Keys |-> "keep"]

Stage(ph) == CASE ph \in {"srem", "open"} -> "open" [] ph = "mget" -> "begun"
               [] OTHER -> "unopened"

PageSeen(a, ph) ==
    IF Stage(ph) = "open"
    THEN PageWith("open", a.members, View(a), EditsOf(a), ExpireKeys(a))
    ELSE PageWith(Stage(ph), a.members, NoView, NoEdits, {})

LEMMA NewApplicationSeen ==
    View(NewApplication) = NoView /\ EditsOf(NewApplication) = NoEdits
    /\ ExpireKeys(NewApplication) = {}
  <1>1. Here(NewApplication) = {}
    BY DEF Here, NewApplication
  <1>2. NewApplication.removed = {}
    BY DEF NewApplication
  <1>. QED BY <1>1, <1>2 DEF View, NoView, EditsOf, NoEdits, EditOf, ExpireKeys, NewKeys,
                             ChangedKeys

LEMMA PageOfSeen ==
    ASSUME NEW p \in Pages
    PROVE  PageOf(p) = PageSeen(app[p], phase[p])
  <1>1. CASE phase[p] \in {"srem", "open"}
    BY <1>1 DEF PageOf, PageSeen, Stage, PageWith, View, EditsOf
  <1>2. CASE phase[p] \notin {"srem", "open"}
    <2>1. PageOf(p) = PageWith(Stage(phase[p]), app[p].members, View(NewApplication),
                        EditsOf(NewApplication), ExpireKeys(NewApplication))
      BY <1>2 DEF PageOf, Stage, PageWith, View, EditsOf
    <2>. QED BY <1>2, <2>1, NewApplicationSeen DEF PageSeen, Stage
  <1>. QED BY <1>1, <1>2

LEMMA PageOfSeenNext ==
    ASSUME NEW p \in Pages
    PROVE  PageOf(p)' = PageSeen(app'[p], phase'[p])
  <1>1. CASE phase'[p] \in {"srem", "open"}
    BY <1>1 DEF PageOf, PageSeen, Stage, PageWith, View, EditsOf
  <1>2. CASE phase'[p] \notin {"srem", "open"}
    <2>1. PageOf(p)' = PageWith(Stage(phase'[p]), app'[p].members, View(NewApplication),
                        EditsOf(NewApplication), ExpireKeys(NewApplication))
      BY <1>2 DEF PageOf, Stage, PageWith, View, EditsOf
    <2>. QED BY <1>2, <2>1, NewApplicationSeen DEF PageSeen, Stage
  <1>. QED BY <1>1, <1>2

\* A step of one page changes that page of the contract.
LEMMA OnePage ==
    ASSUME NEW p \in Pages,
           \A q \in Pages \ {p} : app'[q] = app[q] /\ phase'[q] = phase[q]
    PROVE  AllPages' = [AllPages EXCEPT ![p] = PageSeen(app'[p], phase'[p])]
  BY PageOfSeen, PageOfSeenNext DEF AllPages

\* A step that leaves that page too as it was seen changes none.
LEMMA NoPage ==
    ASSUME \A q \in Pages : PageSeen(app'[q], phase'[q]) = PageSeen(app[q], phase[q])
    PROVE  AllPages' = AllPages
  BY PageOfSeen, PageOfSeenNext DEF AllPages

LEMMA Seen ==
    ASSUME NEW p \in Pages
    PROVE  AllPages[p] = PageSeen(app[p], phase[p])
  BY PageOfSeen DEF AllPages

NoPageOpen == PageWith("unopened", {}, NoView, NoEdits, {})

LEMMA UnopenedSeen ==
    ASSUME NEW a, NEW ph, ph \notin {"mget", "srem", "open"}, a.members = {}
    PROVE  PageSeen(a, ph) = NoPageOpen
  BY DEF PageSeen, Stage, NoPageOpen

LEMMA BegunSeen ==
    ASSUME NEW a
    PROVE  PageSeen(a, "mget") = PageWith("begun", a.members, NoView, NoEdits, {})
  BY DEF PageSeen, Stage

\* A page that has loaded and edited nothing.
LEMMA OpenedSeen ==
    ASSUME NEW a, NEW ph \in {"srem", "open"}, a.members = {}, a.removed = {},
           \A k \in Here(a) : /\ ~a.dictionary[k].IsNew /\ ~a.dictionary[k].IsDirty
                              /\ a.dictionary[k].ExpireAt = 0
    PROVE  PageSeen(a, ph) = PageWith("open", {}, View(a), NoEdits, {})
  <1>1. NewKeys(a) = {} /\ ChangedKeys(a) = {} /\ ExpireKeys(a) = {}
    BY DEF NewKeys, ChangedKeys, ExpireKeys
  <1>2. EditsOf(a) = NoEdits
    BY <1>1 DEF EditsOf, NoEdits, EditOf
  <1>. QED BY <1>1, <1>2 DEF PageSeen, Stage

-----------------------------------------------------------------------------
(* Steps of the contract *)

\* The same cache as before.
SameCache == UNCHANGED <<Stored, expiring \cap names, {k \in names : strings[k] = None}>>

ContractStep == Contract!Next \/ UNCHANGED Contract!ccvars

LEMMA SameCacheFrame ==
    ASSUME UNCHANGED <<names, strings, expiring>>
    PROVE  SameCache
  BY DEF SameCache, Stored

LEMMA Stutter ==
    ASSUME SameCache, AllPages' = AllPages
    PROVE  ContractStep
  BY DEF ContractStep, SameCache, AllPages, Contract!ccvars

LEMMA BeginStep ==
    ASSUME SameCache, NEW p \in Pages, NEW keys \in SUBSET Keys,
           Contract!Filled \subseteq keys, AllPages[p] = NoPageOpen,
           AllPages' = [AllPages EXCEPT ![p] = PageWith("begun", keys, NoView, NoEdits, {})]
    PROVE  ContractStep
  <1>1. PageWith("begun", keys, NoView, NoEdits, {}) = Begun(AllPages[p], "begun", keys)
    BY BeginUpdate DEF NoPageOpen
  <1>2. AllPages[p].stage = "unopened"
    BY DEF NoPageOpen, PageWith
  <1>3. AllPages' = [AllPages EXCEPT ![p] = Begun(AllPages[p], "begun", keys)]
    BY <1>1
  <1>4. AllPages' = [AllPages EXCEPT ![p].stage = "begun", ![p].listed = keys]
    BY <1>3, Zenon DEF Begun
  <1>5. Contract!Begin(p)
    BY <1>2, <1>4 DEF Contract!Begin, AllPages, SameCache
  <1>. QED BY <1>5 DEF ContractStep, Contract!Next

LEMMA OpenStep ==
    ASSUME SameCache, NEW p \in Pages, NEW keys, NEW view,
           \/ AllPages[p] = PageWith("begun", keys, NoView, NoEdits, {})
           \/ AllPages[p] = PageWith("unopened", keys, NoView, NoEdits, {}) /\ Contract!Filled = {},
           view = [k \in Keys |-> IF k \in keys THEN Stored[k] ELSE None],
           AllPages' = [AllPages EXCEPT ![p] = PageWith("open", {}, view, NoEdits, {})]
    PROVE  ContractStep
  <1>1. /\ AllPages[p].listed = keys
        /\ \/ AllPages[p].stage = "begun"
           \/ AllPages[p].stage = "unopened" /\ Contract!Filled = {}
    BY DEF PageWith
  <1>2. PageWith("open", {}, view, NoEdits, {}) = Opened(AllPages[p], "open", {}, view)
    BY OpenUpdate
  <1>3. AllPages' = [AllPages EXCEPT ![p] = Opened(AllPages[p], "open", {}, view)]
    BY <1>2
  <1>4. AllPages' = [AllPages EXCEPT ![p].stage = "open", ![p].listed = {}, ![p].view = view]
    BY <1>3, Zenon DEF Opened
  <1>5. view = [k \in Keys |-> IF k \in AllPages[p].listed THEN Stored[k] ELSE None]
    BY <1>1
  <1>6. Contract!Open(p)
    BY <1>1, <1>4, <1>5 DEF Contract!Open, AllPages, SameCache
  <1>. QED BY <1>6 DEF ContractStep, Contract!Next

-----------------------------------------------------------------------------
(* Loading *)

LEMMA GetMembersStep ==
    ASSUME TypeOK, Stages, NEW p \in Pages, GetMembers(p)
    PROVE  ContractStep
  <1> DEFINE n == [app[p] EXCEPT !.members = names]
  <1>1. app[p] = NewApplication /\ app[p] \in CApplication /\ phase[p] = "idle"
    BY DEF GetMembers, Stages, Staged, TypeOK
  <1>2. /\ n.members = names /\ n.removed = {} /\ Here(n) = {}
    BY <1>1, NewApplicationStaged DEF NewApplication, CApplication, Here
  <1>3. /\ app'[p] = n /\ phase'[p] = IF names = {} THEN "open" ELSE "mget"
        /\ \A q \in Pages \ {p} : app'[q] = app[q] /\ phase'[q] = phase[q]
    BY DEF GetMembers, TypeOK
  <1>4. AllPages[p] = NoPageOpen
    BY <1>1, Seen, UnopenedSeen DEF NewApplication
  <1>5. AllPages' = [AllPages EXCEPT ![p] = PageSeen(n, phase'[p])]
    BY <1>3, OnePage
  <1>6. SameCache
    BY SameCacheFrame DEF GetMembers
  <1>7. Contract!Filled \subseteq names
    BY DEF Contract!Filled, Stored
  <1> HIDE DEF n
  <1>8. CASE names = {}
    <2>1. View(n) = NoView
      BY <1>2 DEF View, NoView
    <2>2. PageSeen(n, phase'[p]) = PageWith("open", {}, NoView, NoEdits, {})
      BY <1>2, <1>3, <1>8, <2>1, OpenedSeen
    <2>3. Contract!Filled = {}
      BY <1>7, <1>8
    <2>4. NoView = [k \in Keys |-> IF k \in {} THEN Stored[k] ELSE None]
      BY DEF NoView
    <2>. QED BY <1>4, <1>5, <1>6, <2>2, <2>3, <2>4, OpenStep DEF NoPageOpen
  <1>9. CASE names # {}
    <2>1. PageSeen(n, phase'[p]) = PageWith("begun", names, NoView, NoEdits, {})
      BY <1>2, <1>3, <1>9, BegunSeen
    <2>. QED BY <1>4, <1>5, <1>6, <1>7, <2>1, BeginStep DEF TypeOK
  <1>. QED BY <1>8, <1>9

LEMMA GetStringsStep ==
    ASSUME TypeOK, Stages, Settled, NEW p \in Pages, GetStrings(p)
    PROVE  ContractStep
  <1> DEFINE a == app[p]
             members == a.members
             n == app'[p]
  <1>1. a \in CApplication /\ phase[p] = "mget" /\ a.removed = {}
    BY DEF GetStrings, Stages, Staged, TypeOK
  <1>2. /\ n.members = {} /\ n.removed = {}
        /\ n.dictionary = [k \in Keys |-> IF k \in members THEN Loaded(strings[k]) ELSE Absent]
    BY <1>1 DEF GetStrings, TypeOK, CApplication
  <1>3. /\ phase'[p] \in {"srem", "open"}
        /\ \A q \in Pages \ {p} : app'[q] = app[q] /\ phase'[q] = phase[q]
    BY DEF GetStrings, TypeOK
  <1>4. AllPages[p] = PageWith("begun", members, NoView, NoEdits, {})
    BY <1>1, Seen, BegunSeen
  <1>5. ASSUME NEW k \in Keys
        PROVE  /\ k \in Here(n) <=> k \in members /\ strings[k] # None
               /\ k \in Here(n) => /\ ~n.dictionary[k].IsNew /\ ~n.dictionary[k].IsDirty
                                   /\ n.dictionary[k].ExpireAt = 0
                                   /\ n.dictionary[k].val = strings[k]
    <2>1. strings[k] # None => [val |-> strings[k], IsNew |-> FALSE, IsDirty |-> FALSE,
                                ExpireAt |-> 0] \in Element
      BY DEF TypeOK, Element
    <2>2. CASE k \notin members \/ strings[k] = None
      <3>1. n.dictionary[k] = Absent
        BY <1>2, <2>2 DEF Loaded
      <3>. QED BY <2>2, <3>1 DEF Here
    <2>3. CASE k \in members /\ strings[k] # None
      <3>1. n.dictionary[k] = [val |-> strings[k], IsNew |-> FALSE, IsDirty |-> FALSE,
                               ExpireAt |-> 0]
        BY <1>2, <2>3 DEF Loaded
      <3>2. n.dictionary[k] # Absent
        BY <2>1, <2>3, <3>1, ApplicationAssumption
      <3>. QED BY <2>3, <3>1, <3>2 DEF Here
    <2>. QED BY <2>2, <2>3
  <1>6. View(n) = [k \in Keys |-> IF k \in members THEN Stored[k] ELSE None]
    <2> SUFFICES ASSUME NEW k \in Keys
                 PROVE  View(n)[k] = IF k \in members THEN Stored[k] ELSE None
      BY DEF View
    <2>1. k \in members => k \in names \/ strings[k] = None
      BY <1>1 DEF Settled
    <2>. QED BY <1>5, <2>1 DEF View, Stored
  <1>7. PageSeen(n, phase'[p]) = PageWith("open", {}, View(n), NoEdits, {})
    <2>1. Here(n) \subseteq Keys
      BY DEF Here
    <2>. QED BY <1>2, <1>3, <1>5, <2>1, OpenedSeen
  <1>8. AllPages' = [AllPages EXCEPT ![p] = PageWith("open", {}, View(n), NoEdits, {})]
    BY <1>3, <1>7, OnePage
  <1>9. SameCache
    BY SameCacheFrame DEF GetStrings
  <1> HIDE DEF n, members
  <1>. QED BY <1>4, <1>6, <1>8, <1>9, OpenStep

\* SREM takes away what is not there: the cache stays what it is.
LEMMA RemoveGhostsStep ==
    ASSUME TypeOK, Settled, NEW p \in Pages, RemoveGhosts(p)
    PROVE  ContractStep
  <1> DEFINE ghosts == app[p].ghosts
             lost == {k \in names : strings[k] = None}
  <1>1. /\ \A k \in ghosts : strings[k] = None
        /\ app[p] \in CApplication /\ phase[p] = "srem"
    BY DEF RemoveGhosts, Settled, GhostsAreDead, TypeOK
  <1>2. Stored' = Stored
    BY <1>1 DEF RemoveGhosts, Stored
  <1>3. (expiring \cap names)' = expiring \cap names
    BY <1>1 DEF RemoveGhosts, TypeOK
  <1>4. {k \in names : strings[k] = None}' \subseteq lost
    BY DEF RemoveGhosts
  <1>5. ASSUME NEW q \in Pages
        PROVE  PageSeen(app'[q], phase'[q]) = PageSeen(app[q], phase[q])
    <2>1. CASE q # p
      BY <2>1 DEF RemoveGhosts, TypeOK
    <2>2. CASE q = p
      <3>1. /\ app'[p].members = app[p].members /\ app'[p].dictionary = app[p].dictionary
            /\ app'[p].removed = app[p].removed /\ phase'[p] = "open"
        BY <1>1 DEF RemoveGhosts, TypeOK, CApplication
      <3>2. /\ View(app'[p]) = View(app[p]) /\ EditsOf(app'[p]) = EditsOf(app[p])
            /\ ExpireKeys(app'[p]) = ExpireKeys(app[p])
        BY <3>1 DEF View, EditsOf, EditOf, ExpireKeys, NewKeys, ChangedKeys, Here
      <3>. QED BY <1>1, <2>2, <3>1, <3>2 DEF PageSeen, Stage
    <2>. QED BY <2>1, <2>2
  <1>6. AllPages' = AllPages
    BY <1>5, NoPage
  <1>7. Contract!Forget
    BY <1>2, <1>3, <1>4, <1>6 DEF Contract!Forget, AllPages
  <1>. QED BY <1>7 DEF ContractStep, Contract!Next

-----------------------------------------------------------------------------
(* The script *)

\* Of an object the contract sees the dictionary, the removed names, and the
\* names it still has to load.
LEMMA SameObjectSeen ==
    ASSUME NEW a, NEW b, NEW ph, a.dictionary = b.dictionary, a.removed = b.removed,
           a.members = b.members
    PROVE  PageSeen(a, ph) = PageSeen(b, ph)
  <1>1. /\ View(a) = View(b) /\ EditsOf(a) = EditsOf(b) /\ ExpireKeys(a) = ExpireKeys(b)
    BY DEF View, EditsOf, EditOf, ExpireKeys, NewKeys, ChangedKeys, Here
  <1>. QED BY <1>1 DEF PageSeen

\* A call of a method edits an open page and leaves the cache alone.
LEMMA CalledSeen ==
    ASSUME TypeOK, Stages, NEW p \in Pages, NEW a, Called(p, a)
    PROVE  /\ AllPages[p] = PageWith("open", {}, View(app[p]), EditsOf(app[p]),
                                     ExpireKeys(app[p]))
           /\ AllPages' = [AllPages EXCEPT ![p] =
                              PageWith("open", {}, View(a), EditsOf(a), ExpireKeys(a))]
           /\ AllPages[p].stage = "open"
           /\ Contract!Here(p) = Here(app[p])
           /\ SameCache
  <1>1. /\ phase[p] = "open" /\ phase'[p] = "open" /\ app[p] \in CApplication
        /\ app[p].members = {} /\ app'[p].members = {}
    BY DEF Called, Stages, Staged, TypeOK
  <1>2. PageSeen(app[p], phase[p]) =
           PageWith("open", {}, View(app[p]), EditsOf(app[p]), ExpireKeys(app[p]))
    BY <1>1 DEF PageSeen, Stage
  <1>3. PageSeen(app'[p], phase'[p]) =
           PageWith("open", {}, View(a), EditsOf(a), ExpireKeys(a))
    <2>1. PageSeen(app'[p], "open") = PageSeen(a, "open")
      BY SameObjectSeen DEF Called
    <2>. QED BY <1>1, <2>1 DEF PageSeen, Stage, Called
  <1>4. AllPages[p] = PageSeen(app[p], phase[p])
    BY Seen
  <1>5. AllPages' = [AllPages EXCEPT ![p] = PageSeen(app'[p], phase'[p])]
    BY OnePage DEF Called
  <1>6. AllPages[p].stage = "open" /\ AllPages[p].view = View(app[p])
    BY <1>2, <1>4 DEF PageWith
  <1>7. Contract!Here(p) = Here(app[p])
    <2>1. \A k \in Here(app[p]) : app[p].dictionary[k].val # None /\ k \in Keys
      BY <1>1, ElementsWritten, ApplicationAssumption
    <2>2. Contract!Here(p) = {k \in Keys : View(app[p])[k] # None}
      BY <1>6 DEF Contract!Here, AllPages
    <2>. QED BY <2>1, <2>2 DEF View
  <1>8. SameCache
    BY SameCacheFrame DEF Called
  <1>. QED BY <1>2, <1>3, <1>4, <1>5, <1>6, <1>7, <1>8

LEMMA EditOfCases ==
    ASSUME NEW a, NEW k
    PROVE  /\ k \in NewKeys(a) => EditOf(a, k) = "add"
           /\ k \in ChangedKeys(a) => EditOf(a, k) = "change"
           /\ k \in a.removed \ Here(a) => EditOf(a, k) = "remove"
           /\ k \notin NewKeys(a) \cup ChangedKeys(a) \cup (a.removed \ Here(a)) =>
                 EditOf(a, k) = "keep"
  <1>1. NewKeys(a) \subseteq Here(a) /\ ChangedKeys(a) \subseteq Here(a) \ NewKeys(a)
    BY DEF NewKeys, ChangedKeys
  <1>. QED BY <1>1 DEF EditOf

\* The change of one element, as the contract sees it.
LEMMA PutSeen ==
    ASSUME NEW a \in CApplication, a.removed \cap Here(a) = {},
           NEW k \in Keys, k \notin a.removed, NEW e \in Element, Assigned(a, k, e)
    PROVE  LET n == [a EXCEPT !.dictionary[k] = e]
           IN /\ View(n) = [View(a) EXCEPT ![k] = e.val]
              /\ EditsOf(n) = [EditsOf(a) EXCEPT ![k] =
                                 IF k \notin Here(a) \/ EditsOf(a)[k] = "add" THEN "add"
                                 ELSE "change"]
              /\ ExpireKeys(n) = ExpireKeys(a)
  <1> DEFINE n == [a EXCEPT !.dictionary[k] = e]
  <1>1. /\ n.dictionary = [a.dictionary EXCEPT ![k] = e] /\ n.removed = a.removed
        /\ Here(n) = Here(a) \cup {k}
    BY EnteredType
  <1>2. a.dictionary \in [Keys -> Element \cup {Absent}] /\ Here(a) \subseteq Keys
    BY HereType DEF CApplication
  <1> HIDE DEF n
  <1>3. /\ n.dictionary[k] = e
        /\ \A j \in Keys \ {k} : /\ n.dictionary[j] = a.dictionary[j]
                                 /\ j \in Here(n) <=> j \in Here(a)
    BY <1>1, <1>2
  <1>4. View(n) = [View(a) EXCEPT ![k] = e.val]
    BY <1>1, <1>3 DEF View
  <1>5. /\ NewKeys(n) \ {k} = NewKeys(a) \ {k} /\ ChangedKeys(n) \ {k} = ChangedKeys(a) \ {k}
        /\ ExpireKeys(n) \ {k} = ExpireKeys(a) \ {k}
    BY <1>1, <1>2, <1>3 DEF NewKeys, ChangedKeys, ExpireKeys
  <1>6. ExpireKeys(n) = ExpireKeys(a)
    <2>1. k \in ExpireKeys(n) <=> k \in ExpireKeys(a)
      BY <1>1, <1>3 DEF ExpireKeys, Assigned
    <2>. QED BY <1>5, <2>1
  <1>7. \A j \in Keys \ {k} : EditOf(n, j) = EditOf(a, j)
    BY <1>1, <1>3, <1>5 DEF EditOf
  <1>8. EditOf(a, k) = "add" <=> k \in NewKeys(a)
    BY EditOfCases
  <1>9. EditOf(n, k) = IF k \notin Here(a) \/ EditOf(a, k) = "add" THEN "add" ELSE "change"
    <2>1. k \in NewKeys(n) <=> e.IsNew
      BY <1>1, <1>3 DEF NewKeys
    <2>2. k \in ChangedKeys(n) <=> e.IsDirty /\ ~e.IsNew
      BY <1>1, <1>3, <2>1 DEF ChangedKeys
    <2>3. e.IsNew <=> k \notin Here(a) \/ k \in NewKeys(a)
      BY DEF Assigned, NewKeys
    <2>4. e.IsNew \/ e.IsDirty
      BY DEF Assigned
    <2>. QED BY <1>8, <2>1, <2>2, <2>3, <2>4, EditOfCases
  <1>10. EditsOf(n) = [EditsOf(a) EXCEPT ![k] =
                         IF k \notin Here(a) \/ EditsOf(a)[k] = "add" THEN "add" ELSE "change"]
    BY <1>7, <1>9 DEF EditsOf
  <1>. QED BY <1>4, <1>6, <1>10 DEF n

LEMMA PutContract ==
    ASSUME TypeOK, Stages, ~Readd, NEW p \in Pages, PutValue(p) \/ PutRefValue(p)
    PROVE  ContractStep
  <1>1. PICK k \in Keys, e \in Element :
           /\ k \notin app[p].removed /\ Assigned(app[p], k, e)
           /\ Called(p, [app[p] EXCEPT !.dictionary[k] = e])
    BY PutStep
  <1> DEFINE a == app[p]
             n == [a EXCEPT !.dictionary[k] = e]
             kind == IF k \notin Here(a) \/ EditsOf(a)[k] = "add" THEN "add" ELSE "change"
  <1>2. a \in CApplication /\ a.removed \cap Here(a) = {}
    BY DEF TypeOK, Stages, Staged
  <1>3. /\ View(n) = [View(a) EXCEPT ![k] = e.val] /\ EditsOf(n) = [EditsOf(a) EXCEPT ![k] = kind]
        /\ ExpireKeys(n) = ExpireKeys(a)
    BY <1>1, <1>2, PutSeen
  <1>4. Called(p, n)
    BY <1>1
  <1> HIDE DEF n
  <1>5. /\ AllPages[p] = PageWith("open", {}, View(a), EditsOf(a), ExpireKeys(a))
        /\ AllPages' = [AllPages EXCEPT ![p] =
                           PageWith("open", {}, View(n), EditsOf(n), ExpireKeys(n))]
        /\ AllPages[p].stage = "open" /\ Contract!Here(p) = Here(a) /\ SameCache
    BY <1>4, CalledSeen
  <1>6. AllPages' = [AllPages EXCEPT ![p] = Edited(AllPages[p], View(n), EditsOf(n))]
    <2>1. PageWith("open", {}, View(n), EditsOf(n), ExpireKeys(a)) =
             Edited(AllPages[p], View(n), EditsOf(n))
      BY <1>5, PutUpdate
    <2>. QED BY <1>3, <1>5, <2>1
  <1>7. AllPages[p].view = View(a) /\ AllPages[p].edits = EditsOf(a)
    BY <1>5 DEF PageWith
  <1>8. Contract!Put(p, k, e.val)
    <2>1. AllPages' = [AllPages EXCEPT ![p].view = View(n), ![p].edits = EditsOf(n)]
      BY <1>6, Zenon DEF Edited
    <2>2. kind = IF k \notin Contract!Here(p) \/ AllPages[p].edits[k] = "add" THEN "add"
                 ELSE "change"
      BY <1>5, <1>7
    <2>3. /\ View(n) = [AllPages[p].view EXCEPT ![k] = e.val]
          /\ EditsOf(n) = [AllPages[p].edits EXCEPT ![k] = kind]
      BY <1>3, <1>7
    <2>. HIDE DEF kind
    <2>4. AllPages' = [AllPages EXCEPT ![p].view[k] = e.val, ![p].edits[k] = kind]
      BY <2>1, <2>3, Zenon
    <2>. QED BY <2>2, <2>4, Zenon DEF Contract!Put, AllPages
  <1>9. e.val \in Value
    BY DEF Element
  <1>. QED BY <1>5, <1>8, <1>9
           DEF ContractStep, Contract!Next, Contract!Edit, SameCache, AllPages

LEMMA WithoutSeen ==
    ASSUME NEW a \in CApplication, a.removed \cap Here(a) = {}, NEW keys \in SUBSET Here(a)
    PROVE  LET n == Without(a, keys)
           IN /\ View(n) = [k \in Keys |-> IF k \in keys THEN None ELSE View(a)[k]]
              /\ EditsOf(n) = [k \in Keys |-> IF k \in keys THEN "remove" ELSE EditsOf(a)[k]]
              /\ ExpireKeys(n) = ExpireKeys(a) \ keys
  <1> DEFINE n == Without(a, keys)
  <1>1. Here(a) \subseteq Keys
    BY HereType
  <1>2. /\ Here(n) = Here(a) \ keys /\ n.removed = a.removed \cup keys
        /\ \A k \in Keys \ keys : n.dictionary[k] = a.dictionary[k]
    BY <1>1, WithoutType
  <1> HIDE DEF n
  <1>3. View(n) = [k \in Keys |-> IF k \in keys THEN None ELSE View(a)[k]]
    BY <1>2 DEF View
  <1>4. /\ NewKeys(n) = NewKeys(a) \ keys /\ ChangedKeys(n) = ChangedKeys(a) \ keys
        /\ ExpireKeys(n) = ExpireKeys(a) \ keys
    BY <1>1, <1>2 DEF NewKeys, ChangedKeys, ExpireKeys
  <1>5. ASSUME NEW k \in Keys
        PROVE  EditOf(n, k) = IF k \in keys THEN "remove" ELSE EditOf(a, k)
    <2>1. CASE k \in keys
      BY <1>2, <2>1, EditOfCases
    <2>2. CASE k \notin keys
      <3>1. /\ k \in NewKeys(n) <=> k \in NewKeys(a)
            /\ k \in ChangedKeys(n) <=> k \in ChangedKeys(a)
            /\ k \in n.removed \ Here(n) <=> k \in a.removed \ Here(a)
        BY <1>2, <1>4, <2>2
      <3>. QED BY <2>2, <3>1, EditOfCases
    <2>. QED BY <2>1, <2>2
  <1>6. EditsOf(n) = [k \in Keys |-> IF k \in keys THEN "remove" ELSE EditsOf(a)[k]]
    BY <1>5 DEF EditsOf
  <1>. QED BY <1>3, <1>4, <1>6 DEF n

LEMMA RemoveContract ==
    ASSUME TypeOK, Stages, NEW p \in Pages, Remove(p) \/ RemoveAll(p)
    PROVE  ContractStep
  <1>1. PICK keys \in SUBSET Here(app[p]) : Called(p, Without(app[p], keys))
    BY RemoveStep
  <1> DEFINE a == app[p]
             n == Without(a, keys)
  <1>2. a \in CApplication /\ a.removed \cap Here(a) = {}
    BY DEF TypeOK, Stages, Staged
  <1>3. /\ View(n) = [k \in Keys |-> IF k \in keys THEN None ELSE View(a)[k]]
        /\ EditsOf(n) = [k \in Keys |-> IF k \in keys THEN "remove" ELSE EditsOf(a)[k]]
        /\ ExpireKeys(n) = ExpireKeys(a) \ keys
    BY <1>1, <1>2, WithoutSeen
  <1>4. Called(p, n)
    BY <1>1
  <1> HIDE DEF n
  <1>5. /\ AllPages[p] = PageWith("open", {}, View(a), EditsOf(a), ExpireKeys(a))
        /\ AllPages' = [AllPages EXCEPT ![p] =
                           PageWith("open", {}, View(n), EditsOf(n), ExpireKeys(n))]
        /\ AllPages[p].stage = "open" /\ Contract!Here(p) = Here(a) /\ SameCache
    BY <1>4, CalledSeen
  <1>6. /\ AllPages[p].view = View(a) /\ AllPages[p].edits = EditsOf(a)
        /\ AllPages[p].ask = ExpireKeys(a)
    BY <1>5 DEF PageWith
  <1>7. AllPages' = [AllPages EXCEPT ![p] =
                       Shortened(AllPages[p], View(n), EditsOf(n), ExpireKeys(n))]
    <2>1. PageWith("open", {}, View(n), EditsOf(n), ExpireKeys(n)) =
             Shortened(AllPages[p], View(n), EditsOf(n), ExpireKeys(n))
      BY <1>5, RemoveUpdate
    <2>. QED BY <1>5, <2>1
  <1>8. Contract!Remove(p, keys)
    <2>1. AllPages' = [AllPages EXCEPT ![p].view = View(n), ![p].edits = EditsOf(n),
                                       ![p].ask = ExpireKeys(n)]
      BY <1>7, Zenon DEF Shortened
    <2>2. /\ View(n) = [k \in Keys |-> IF k \in keys THEN None ELSE AllPages[p].view[k]]
          /\ EditsOf(n) = [k \in Keys |-> IF k \in keys THEN "remove"
                                         ELSE AllPages[p].edits[k]]
          /\ ExpireKeys(n) = AllPages[p].ask \ keys
      BY <1>3, <1>6
    <2>. QED BY <2>1, <2>2, Zenon DEF Contract!Remove, AllPages
  <1>. QED BY <1>1, <1>5, <1>8
           DEF ContractStep, Contract!Next, Contract!Edit, SameCache, AllPages

LEMMA ExpireKeyContract ==
    ASSUME TypeOK, Stages, NEW p \in Pages, ExpireKeyAt(p)
    PROVE  ContractStep
  <1>1. PICK k \in Here(app[p]), ms \in {0, 1} :
           Called(p, [app[p] EXCEPT !.dictionary[k] =
                          [app[p].dictionary[k] EXCEPT !.ExpireAt = ms]])
    BY ExpireKeyStep
  <1> DEFINE a == app[p]
             e == [a.dictionary[k] EXCEPT !.ExpireAt = ms]
             n == [a EXCEPT !.dictionary[k] = e]
  <1>2. a \in CApplication /\ k \in Keys /\ a.dictionary[k] \in Element
    BY HereType DEF TypeOK
  <1>3. /\ e \in Element /\ e.val = a.dictionary[k].val
        /\ e.IsNew = a.dictionary[k].IsNew /\ e.IsDirty = a.dictionary[k].IsDirty
    BY <1>2 DEF Element
  <1>4. Called(p, n)
    BY <1>1
  <1> HIDE DEF e
  <1>5. /\ n.dictionary = [a.dictionary EXCEPT ![k] = e] /\ n.removed = a.removed
        /\ Here(n) = Here(a) /\ Here(a) \subseteq Keys
    <2>1. /\ n.dictionary = [a.dictionary EXCEPT ![k] = e] /\ n.removed = a.removed
          /\ Here(n) = Here(a) \cup {k}
      BY <1>2, <1>3, EnteredType
    <2>. QED BY <1>2, <2>1, HereType
  <1> HIDE DEF n
  <1>6. \A j \in Keys : /\ n.dictionary[j].val = a.dictionary[j].val
                        /\ n.dictionary[j].IsNew = a.dictionary[j].IsNew
                        /\ n.dictionary[j].IsDirty = a.dictionary[j].IsDirty
    BY <1>2, <1>3, <1>5 DEF CApplication
  <1>7. NewKeys(n) = NewKeys(a) /\ ChangedKeys(n) = ChangedKeys(a)
    BY <1>5, <1>6 DEF NewKeys, ChangedKeys
  <1>8. View(n) = View(a) /\ EditsOf(n) = EditsOf(a)
    BY <1>5, <1>6, <1>7 DEF View, EditsOf, EditOf
  <1>9. ExpireKeys(n) \in SUBSET Here(a)
    BY <1>5 DEF ExpireKeys
  <1>10. /\ AllPages[p] = PageWith("open", {}, View(a), EditsOf(a), ExpireKeys(a))
         /\ AllPages' = [AllPages EXCEPT ![p] =
                            PageWith("open", {}, View(n), EditsOf(n), ExpireKeys(n))]
         /\ AllPages[p].stage = "open" /\ Contract!Here(p) = Here(a) /\ SameCache
    BY <1>4, CalledSeen
  <1>11. PageWith("open", {}, View(n), EditsOf(n), ExpireKeys(n)) =
            [AllPages[p] EXCEPT !.ask = ExpireKeys(n)]
    BY <1>8, <1>10 DEF PageWith
  <1>12. AllPages' = [AllPages EXCEPT ![p].ask = ExpireKeys(n)]
    BY <1>10, <1>11, Zenon
  <1>. QED BY <1>9, <1>10, <1>12
           DEF ContractStep, Contract!Next, Contract!Edit, SameCache, AllPages

-----------------------------------------------------------------------------
(* The save *)

\* What the end of the page p makes of the cache, in terms of the object.
LEMMA SaveSeen ==
    ASSUME TypeOK, Stages, NEW p \in Pages, ApplicationSave(p), NEW k \in Keys
    PROVE  LET a == app[p]
           IN /\ Stored'[k] = CASE k \in NewKeys(a) -> a.dictionary[k].val
                                [] k \in ChangedKeys(a) /\ k \in names -> a.dictionary[k].val
                                [] k \in a.removed -> None
                                [] OTHER -> Stored[k]
              /\ k \in names' <=> (k \in names \/ k \in NewKeys(a)) /\ k \notin a.removed
              /\ strings'[k] = IF k \in MSet(a) THEN a.dictionary[k].val
                               ELSE IF k \in a.removed THEN None ELSE strings[k]
  <1> DEFINE a == app[p]
             written == [j \in Keys |-> IF j \in MSet(a) THEN a.dictionary[j].val
                                        ELSE IF j \in Del(a) THEN None ELSE strings[j]]
  <1>1. a.removed \cap Here(a) = {}
    BY DEF Stages, Staged
  <1>2. /\ NewKeys(a) \subseteq Here(a) /\ ChangedKeys(a) \subseteq Here(a) \ NewKeys(a)
        /\ MSet(a) = NewKeys(a) \cup ChangedKeys(a)
    BY DEF NewKeys, ChangedKeys, MSet
  <1>3. names' = (names \cup NewKeys(a)) \ a.removed /\ strings' = written
    BY DEF ApplicationSave, SAdd
  <1>4. strings'[k] = IF k \in MSet(a) THEN a.dictionary[k].val
                      ELSE IF k \in a.removed THEN None ELSE strings[k]
    BY <1>3 DEF Del
  <1>5. k \in names' <=> (k \in names \/ k \in NewKeys(a)) /\ k \notin a.removed
    BY <1>3
  <1>6. /\ Stored'[k] = IF k \in names' THEN strings'[k] ELSE None
        /\ Stored[k] = IF k \in names THEN strings[k] ELSE None
    BY DEF Stored
  <1>7. Stored'[k] = CASE k \in NewKeys(a) -> a.dictionary[k].val
                       [] k \in ChangedKeys(a) /\ k \in names -> a.dictionary[k].val
                       [] k \in a.removed -> None
                       [] OTHER -> Stored[k]
    <2>1. CASE k \in NewKeys(a)
      BY <1>1, <1>2, <1>4, <1>5, <1>6, <2>1
    <2>2. CASE k \in ChangedKeys(a)
      BY <1>1, <1>2, <1>4, <1>5, <1>6, <2>2
    <2>3. CASE k \in a.removed
      BY <1>1, <1>2, <1>4, <1>5, <1>6, <2>3
    <2>4. CASE k \notin NewKeys(a) \cup ChangedKeys(a) \cup a.removed
      BY <1>1, <1>2, <1>4, <1>5, <1>6, <2>4
    <2>. QED BY <2>1, <2>2, <2>3, <2>4
  <1>. QED BY <1>4, <1>5, <1>7

LEMMA SaveContract ==
    ASSUME TypeOK, Stages, NEW p \in Pages, ApplicationSave(p)
    PROVE  ContractStep
  <1> DEFINE a == app[p]
             edited == NewKeys(a) \cup ChangedKeys(a) \cup a.removed
             lapsed == {k \in names : strings[k] = None}
  <1>1. /\ a \in CApplication /\ a.removed \cap Here(a) = {} /\ a.members = {}
        /\ phase[p] = "open"
    BY DEF TypeOK, Stages, Staged, ApplicationSave
  <1>2. /\ NewKeys(a) \subseteq Here(a) /\ ChangedKeys(a) \subseteq Here(a) \ NewKeys(a)
        /\ MSet(a) = NewKeys(a) \cup ChangedKeys(a) /\ Here(a) \subseteq Keys
        /\ a.removed \subseteq Keys
    BY <1>1, HereType DEF NewKeys, ChangedKeys, MSet, CApplication
  <1>3. AllPages[p] = PageWith("open", {}, View(a), EditsOf(a), ExpireKeys(a))
    <2>1. PageSeen(a, phase[p]) = PageWith("open", {}, View(a), EditsOf(a), ExpireKeys(a))
      BY <1>1 DEF PageSeen, Stage
    <2>. QED BY <2>1, Seen
  <1>4. /\ AllPages[p].stage = "open" /\ AllPages[p].view = View(a)
        /\ AllPages[p].edits = EditsOf(a) /\ AllPages[p].ask = ExpireKeys(a)
    BY <1>3 DEF PageWith
  <1>5. AllPages' = [AllPages EXCEPT ![p] = Contract!Unopened]
    <2>1. /\ app' = app /\ phase'[p] = "saved"
          /\ \A q \in Pages \ {p} : app'[q] = app[q] /\ phase'[q] = phase[q]
      BY DEF ApplicationSave, TypeOK
    <2>2. PageSeen(app'[p], phase'[p]) = NoPageOpen
      BY <1>1, <2>1, UnopenedSeen
    <2>3. NoPageOpen = Contract!Unopened
      BY DEF NoPageOpen, PageWith, NoView, NoEdits, Contract!Unopened
    <2>. QED BY <2>1, <2>2, <2>3, OnePage
  <1>6. ASSUME NEW k \in Keys
        PROVE  /\ k \in NewKeys(a) <=> AllPages[p].edits[k] = "add"
               /\ k \in ChangedKeys(a) <=> AllPages[p].edits[k] = "change"
               /\ k \in a.removed <=> AllPages[p].edits[k] = "remove"
               /\ k \in edited <=> AllPages[p].edits[k] # "keep"
    <2>1. AllPages[p].edits[k] = EditOf(a, k)
      BY <1>4 DEF EditsOf
    <2>. QED BY <1>1, <1>2, <2>1, EditOfCases
  <1>7. ASSUME NEW k \in Keys  PROVE Stored'[k] = Contract!Outcome(p, k)
    <2>1. k \in NewKeys(a) \cup ChangedKeys(a) => AllPages[p].view[k] = a.dictionary[k].val
      BY <1>2, <1>4 DEF View
    <2>2. k \in names <=> Stored[k] # None \/ k \in lapsed
      BY DEF Stored, TypeOK
    <2>3. k \notin names => Stored[k] = None
      BY DEF Stored
    <2>4. Stored'[k] = CASE k \in NewKeys(a) -> a.dictionary[k].val
                         [] k \in ChangedKeys(a) /\ k \in names -> a.dictionary[k].val
                         [] k \in a.removed -> None
                         [] OTHER -> Stored[k]
      BY SaveSeen
    <2>5. Contract!Outcome(p, k) =
             CASE AllPages[p].edits[k] = "add" -> AllPages[p].view[k]
               [] AllPages[p].edits[k] = "remove" -> None
               [] AllPages[p].edits[k] = "change" /\ (Stored[k] # None \/ k \in lapsed) ->
                    AllPages[p].view[k]
               [] OTHER -> Stored[k]
      BY DEF Contract!Outcome, AllPages
    <2>6. CASE k \in NewKeys(a)
      BY <1>1, <1>2, <1>6, <2>1, <2>4, <2>5, <2>6
    <2>7. CASE k \in ChangedKeys(a)
      BY <1>1, <1>2, <1>6, <2>1, <2>2, <2>4, <2>5, <2>7
    <2>8. CASE k \in a.removed
      BY <1>1, <1>2, <1>6, <2>4, <2>5, <2>8
    <2>9. CASE k \notin edited
      BY <1>6, <2>4, <2>5, <2>9
    <2>. QED BY <2>6, <2>7, <2>8, <2>9
  <1>8. ASSUME NEW k \in Keys
        PROVE  /\ k \in (expiring \cap names)' <=>
                     /\ k \in (expiring \cap names) \ edited \/ k \in ExpireKeys(a)
                     /\ Stored'[k] # None
               /\ k \in {j \in names : strings[j] = None}' <=>
                     k \in lapsed \ edited /\ Stored'[k] = None
    <2>1. Stored'[k] = IF k \in names' THEN strings'[k] ELSE None
      BY DEF Stored
    <2>2. k \in names' <=> (k \in names \/ k \in NewKeys(a)) /\ k \notin a.removed
      BY SaveSeen
    <2>3. strings'[k] = IF k \in MSet(a) THEN a.dictionary[k].val
                        ELSE IF k \in a.removed THEN None ELSE strings[k]
      BY SaveSeen
    <2>4. k \in expiring' <=>
             /\ k \in expiring \ (a.removed \cup MSet(a)) \/ k \in ExpireKeys(a)
             /\ strings'[k] # None
      BY DEF ApplicationSave, Del
    <2>5. k \in MSet(a) => a.dictionary[k].val # None
      BY <1>1, ElementsWritten, ApplicationAssumption
    <2>. QED BY <1>2, <2>1, <2>2, <2>3, <2>4, <2>5
  <1>9. Contract!End(p)
    <2> DEFINE written == {k \in Keys : AllPages[p].edits[k] # "keep"}
    <2>1. written = edited
      BY <1>2, <1>6
    <2>2. Stored' = [k \in Keys |-> Contract!Outcome(p, k)]
      BY <1>7 DEF Stored
    <2>3. /\ (expiring \cap names)' \subseteq Keys /\ (expiring \cap names) \subseteq Keys
          /\ lapsed \subseteq Keys /\ lapsed' \subseteq Keys /\ ExpireKeys(a) \subseteq Keys
      BY SaveType, <1>1, <1>2, ElementsWritten DEF TypeOK
    <2>4. (expiring \cap names)' =
             {k \in ((expiring \cap names) \ written) \cup AllPages[p].ask : Stored'[k] # None}
      BY <1>4, <1>8, <2>1, <2>3
    <2>5. lapsed' = {k \in lapsed \ written : Stored'[k] = None}
      BY <1>8, <2>1, <2>3
    <2>. QED BY <1>4, <1>5, <2>2, <2>4, <2>5 DEF Contract!End, AllPages
  <1>. QED BY <1>9 DEF ContractStep, Contract!Next

-----------------------------------------------------------------------------
(* The environment, and the refinement *)

\* A page that ends, or fails to start, is not seen before and not after.
LEMMA UnseenStep ==
    ASSUME TypeOK, Stages, NEW p \in Pages, ConnectionFails(p) \/ EndOfPage(p)
    PROVE  ContractStep
  <1>1. /\ app[p].members = {} /\ app'[p].members = {}
        /\ phase[p] \in {"idle", "saved"} /\ phase'[p] = "done"
        /\ \A q \in Pages \ {p} : app'[q] = app[q] /\ phase'[q] = phase[q]
        /\ UNCHANGED <<names, strings, expiring>>
    BY DEF ConnectionFails, EndOfPage, TypeOK, Stages, Staged, NewApplication
  <1>2. PageSeen(app'[p], phase'[p]) = NoPageOpen /\ PageSeen(app[p], phase[p]) = NoPageOpen
    BY <1>1, UnopenedSeen
  <1>3. AllPages' = AllPages
    BY <1>1, <1>2, NoPage
  <1>. QED BY <1>1, <1>3, SameCacheFrame, Stutter

\* A key that expires lapses when its name is in the set, and is not seen
\* otherwise.
LEMMA ExpireContract ==
    ASSUME TypeOK, Expire
    PROVE  ContractStep
  <1>1. PICK k \in expiring : /\ strings' = [strings EXCEPT ![k] = None]
                             /\ expiring' = expiring \ {k}
                             /\ UNCHANGED <<names, phase, app>>
    BY DEF Expire
  <1>2. AllPages' = AllPages
    BY <1>1, NoPage
  <1>3. k \in Keys /\ strings[k] # None
    BY DEF TypeOK
  <1>4. CASE k \in names
    <2>1. Stored' = [Stored EXCEPT ![k] = None]
      BY <1>1, <1>3 DEF Stored, TypeOK
    <2>2. /\ k \in expiring \cap names
          /\ (expiring \cap names)' = (expiring \cap names) \ {k}
          /\ {j \in names : strings[j] = None}' = {j \in names : strings[j] = None} \cup {k}
      BY <1>1, <1>3, <1>4 DEF TypeOK
    <2>3. Contract!Lapse
      BY <1>2, <2>1, <2>2 DEF Contract!Lapse, AllPages
    <2>. QED BY <2>3 DEF ContractStep, Contract!Next
  <1>5. CASE k \notin names
    <2>1. SameCache
      BY <1>1, <1>3, <1>5 DEF SameCache, Stored, TypeOK
    <2>. QED BY <1>2, <2>1, Stutter
  <1>. QED BY <1>4, <1>5

LEMMA CrashContract ==
    ASSUME TypeOK, Stages, Crash
    PROVE  ContractStep
  <1> DEFINE stopped == {p \in Pages : InFlight(p)}
  <1>1. NoPageOpen = Contract!Unopened
    BY DEF NoPageOpen, PageWith, NoView, NoEdits, Contract!Unopened
  <1>2. ASSUME NEW p \in Pages
        PROVE  PageOf(p)' = IF p \in stopped THEN Contract!Unopened ELSE PageOf(p)
    <2>1. CASE p \in stopped
      <3>1. app'[p].members = {} /\ phase'[p] = "done"
        BY <2>1 DEF Crash, NewApplication
      <3>2. PageSeen(app'[p], phase'[p]) = NoPageOpen
        BY <3>1, UnopenedSeen
      <3>. QED BY <1>1, <2>1, <3>2, PageOfSeenNext
    <2>2. CASE p \notin stopped
      <3>1. app'[p] = app[p] /\ phase'[p] = phase[p]
        BY <2>2 DEF Crash
      <3>. QED BY <2>2, <3>1, PageOfSeen, PageOfSeenNext
    <2>. QED BY <2>1, <2>2
  <1>3. AllPages' = [p \in Pages |-> IF p \in stopped THEN Contract!Unopened ELSE AllPages[p]]
    BY <1>2 DEF AllPages
  <1>4. SameCache
    BY SameCacheFrame DEF Crash
  <1> HIDE DEF stopped
  <1>5. stopped \in SUBSET Pages
    BY DEF stopped
  <1>6. Contract!Abort
    BY <1>3, <1>4, <1>5 DEF Contract!Abort, SameCache, AllPages
  <1>. QED BY <1>6 DEF ContractStep, Contract!Next

LEMMA ContractHolds ==
    ASSUME TypeOK, Stages, Settled, ~Readd, [Next]_vars
    PROVE  ContractStep
  <1>1. ASSUME NEW p \in Pages, OnStartPage(p)  PROVE ContractStep
    BY <1>1, GetMembersStep, GetStringsStep, RemoveGhostsStep, UnseenStep DEF OnStartPage
  <1>2. ASSUME NEW p \in Pages, Script(p)  PROVE ContractStep
    BY <1>2, PutContract, RemoveContract, ExpireKeyContract DEF Script
  <1>3. ASSUME NEW p \in Pages, OnEndPage(p)  PROVE ContractStep
    BY <1>3, SaveContract, UnseenStep DEF OnEndPage
  <1>4. CASE AllDone \/ UNCHANGED vars
    <2>1. UNCHANGED <<names, strings, expiring, phase, app>>
      BY <1>4 DEF AllDone, vars
    <2>2. AllPages' = AllPages
      BY <2>1, NoPage
    <2>. QED BY <2>1, <2>2, SameCacheFrame, Stutter
  <1>. QED BY <1>1, <1>2, <1>3, <1>4, ExpireContract, CrashContract DEF Next

LEMMA InitContract ==
    ASSUME Init
    PROVE  Stages /\ Settled /\ Contract!Init
  <1>1. Stages
    BY NewApplicationStaged DEF Init, Stages
  <1>2. Settled
    BY DEF Init, Settled, GhostsAreDead
  <1>3. /\ Stored = [k \in Keys |-> None] /\ expiring \cap names = {}
        /\ {k \in names : strings[k] = None} = {}
    BY DEF Init, Stored
  <1>4. ASSUME NEW p \in Pages  PROVE PageOf(p) = Contract!Unopened
    <2>1. app[p].members = {} /\ phase[p] = "idle"
      BY DEF Init, NewApplication
    <2>2. PageOf(p) = NoPageOpen
      BY <2>1, PageOfSeen, UnopenedSeen
    <2>. QED BY <2>2 DEF NoPageOpen, PageWith, NoView, NoEdits, Contract!Unopened
  <1>. QED BY <1>1, <1>2, <1>3, <1>4 DEF Contract!Init

\* The COM server's Application object keeps the contract of a shared cache:
\* what a page loads in up to three commands and saves in one transaction is
\* seen by all pages as edits that take effect at once, never half, never
\* undone by a page that holds older values, whatever expires, fails or dies.
\* It does so for scripts that do not put again what they removed, while no
\* page saves between the first and the last command of another one's load.
THEOREM CacheRefinement ==
    ASSUME QuietLoads, ~Readd
    PROVE  Spec => ImplementsContract
  <1>1. Init => Stages /\ Settled /\ Contract!Init
    BY InitContract
  <1>2. TypeOK /\ Stages /\ Settled /\ [Next]_vars => Stages' /\ Settled'
    BY StagesStep, SettledStep
  <1>3. TypeOK /\ Stages /\ Settled /\ [Next]_vars => [Contract!Next]_(Contract!ccvars)
    BY ContractHolds DEF ContractStep
  <1>. QED BY <1>1, <1>2, <1>3, TypeCorrect, PTL DEF Spec, ImplementsContract, Contract!Spec
=============================================================================
