------------------------ MODULE ConnectionPool_proofs ------------------------
(***************************************************************************)
(* Proofs about ConnectionPool, for every number of requests, connections  *)
(* and timer threads.                                                      *)
(***************************************************************************)
EXTENDS ConnectionPool, FiniteSetTheorems, SequenceTheorems, TLAPS

-----------------------------------------------------------------------------
(* How the vector changes *)

\* What a vector that shrank by the connection c, or one place, has to do
\* with the vector it was.
Shrunk(new, old, c) ==
    /\ Len(new) = Len(old) - 1
    /\ Range(old) = Range(new) \cup {c}
    /\ IsInjective(old) => IsInjective(new) /\ c \notin Range(new)

\* pop_back takes away the last connection.
LEMMA PoppedShrinks ==
    ASSUME NEW S, NEW s \in Seq(S), Len(s) > 0
    PROVE  /\ Popped(s) \in Seq(S)
           /\ s[Len(s)] \in S
           /\ Shrunk(Popped(s), s, s[Len(s)])
  <1> DEFINE new == Popped(s)
  <1>1. /\ Len(s) \in Nat /\ DOMAIN s = 1 .. Len(s)
        /\ \A i \in 1 .. Len(s) : s[i] \in S
    BY LenProperties, ElementOfSeq
  <1>2. /\ new \in Seq(S) /\ Len(new) = Len(s) - 1
        /\ \A i \in 1 .. Len(s) - 1 : new[i] = s[i]
    BY <1>1, SubSeqProperties DEF Popped
  <1>3. DOMAIN new = 1 .. Len(s) - 1
    BY <1>2, LenProperties
  <1> HIDE DEF new
  <1>4. Range(s) = Range(new) \cup {s[Len(s)]}
    BY <1>1, <1>2, <1>3 DEF Range
  <1>5. ASSUME IsInjective(s)
        PROVE  IsInjective(new) /\ s[Len(s)] \notin Range(new)
    BY <1>1, <1>2, <1>3, <1>5 DEF Range, IsInjective
  <1>6. s[Len(s)] \in S
    BY <1>1
  <1>. QED BY <1>2, <1>4, <1>5, <1>6 DEF Shrunk, new

\* erase takes away one connection, wherever it is.
LEMMA RemoveAtShrinks ==
    ASSUME NEW S, NEW s \in Seq(S), NEW k \in DOMAIN s
    PROVE  /\ RemoveAt(s, k) \in Seq(S)
           /\ s[k] \in S
           /\ Shrunk(RemoveAt(s, k), s, s[k])
  <1> DEFINE front == SubSeq(s, 1, k - 1)
             rest == SubSeq(s, k + 1, Len(s))
             new == front \o rest
  <1>1. /\ Len(s) \in Nat /\ DOMAIN s = 1 .. Len(s)
        /\ \A i \in 1 .. Len(s) : s[i] \in S
    BY LenProperties, ElementOfSeq
  <1>2. /\ front \in Seq(S) /\ Len(front) = k - 1
        /\ \A i \in 1 .. k - 1 : front[i] = s[i]
    BY <1>1, SubSeqProperties
  <1>3. /\ rest \in Seq(S) /\ Len(rest) = Len(s) - k
        /\ \A i \in 1 .. Len(s) - k : rest[i] = s[k + i]
    <2>1. \A i \in 1 .. Len(s) - k : (k + 1) + i - 1 = k + i
      BY <1>1
    <2>2. \A i \in k + 1 .. Len(s) : s[i] \in S
      BY <1>1
    <2>. QED BY <1>1, <2>1, <2>2, SubSeqProperties
  <1> HIDE DEF front, rest
  <1>4. /\ new \in Seq(S) /\ Len(new) = Len(s) - 1
        /\ \A i \in 1 .. Len(s) - 1 :
              new[i] = IF i <= k - 1 THEN front[i] ELSE rest[i - (k - 1)]
    <2>1. /\ new \in Seq(S) /\ Len(new) = Len(front) + Len(rest)
          /\ \A i \in 1 .. Len(front) + Len(rest) :
                new[i] = IF i <= Len(front) THEN front[i] ELSE rest[i - Len(front)]
      BY <1>2, <1>3, ConcatProperties
    <2>2. Len(front) + Len(rest) = Len(s) - 1
      BY <1>1, <1>2, <1>3
    <2>. QED BY <1>2, <2>1, <2>2
  <1> HIDE DEF new
  <1>5. \A i \in 1 .. Len(s) - 1 : new[i] = IF i < k THEN s[i] ELSE s[i + 1]
    <2> TAKE i \in 1 .. Len(s) - 1
    <2>1. CASE i < k
      BY <1>1, <1>2, <1>4, <2>1
    <2>2. CASE ~(i < k)
      <3>1. i - (k - 1) \in 1 .. Len(s) - k /\ k + (i - (k - 1)) = i + 1
        BY <1>1, <2>2
      <3>2. new[i] = rest[i - (k - 1)]
        BY <1>1, <1>4, <2>2
      <3>. QED BY <1>3, <2>2, <3>1, <3>2
    <2>. QED BY <2>1, <2>2
  <1>6. DOMAIN new = 1 .. Len(s) - 1
    BY <1>4, LenProperties
  <1>7. Range(s) = Range(new) \cup {s[k]}
    <2>1. ASSUME NEW i \in DOMAIN s  PROVE s[i] \in Range(new) \cup {s[k]}
      <3>1. CASE i < k
        <4>1. i \in DOMAIN new /\ new[i] = s[i]
          BY <1>1, <1>5, <1>6, <3>1
        <4>. QED BY <4>1 DEF Range
      <3>2. CASE i > k
        <4>1. i - 1 \in DOMAIN new /\ ~(i - 1 < k) /\ (i - 1) + 1 = i
          BY <1>1, <1>6, <3>2
        <4>2. new[i - 1] = s[i]
          BY <1>5, <1>6, <4>1
        <4>. QED BY <4>1, <4>2 DEF Range
      <3>3. CASE i = k
        BY <3>3
      <3>. QED BY <1>1, <3>1, <3>2, <3>3
    <2>2. \A i \in DOMAIN new : new[i] \in Range(s)
      <3> TAKE i \in DOMAIN new
      <3>1. i \in DOMAIN s /\ i + 1 \in DOMAIN s
        BY <1>1, <1>6
      <3>2. new[i] \in {s[i], s[i + 1]}
        BY <1>5, <1>6
      <3>. QED BY <3>1, <3>2 DEF Range
    <2>. QED BY <2>1, <2>2 DEF Range
  <1>8. ASSUME IsInjective(s)
        PROVE  IsInjective(new) /\ s[k] \notin Range(new)
    <2> DEFINE at(i) == IF i < k THEN i ELSE i + 1
    <2>1. ASSUME NEW i \in DOMAIN new
          PROVE  at(i) \in DOMAIN s /\ at(i) # k /\ new[i] = s[at(i)]
      BY <1>1, <1>5, <1>6
    <2>2. \A i, j \in DOMAIN new : at(i) = at(j) => i = j
      BY <1>1, <1>6
    <2> HIDE DEF at
    <2>3. IsInjective(new)
      BY <1>8, <2>1, <2>2 DEF IsInjective
    <2>4. s[k] \notin Range(new)
      BY <1>8, <2>1 DEF IsInjective, Range
    <2>. QED BY <2>3, <2>4
  <1>9. RemoveAt(s, k) = new
    BY DEF RemoveAt, new, front, rest
  <1>. QED BY <1>1, <1>4, <1>7, <1>8, <1>9 DEF Shrunk

\* push_back adds a connection that was not there.
LEMMA AppendGrows ==
    ASSUME NEW S, NEW s \in Seq(S), NEW c \in S
    PROVE  /\ Append(s, c) \in Seq(S)
           /\ Len(Append(s, c)) = Len(s) + 1
           /\ Range(Append(s, c)) = Range(s) \cup {c}
           /\ IsInjective(s) /\ c \notin Range(s) => IsInjective(Append(s, c))
  <1> DEFINE new == Append(s, c)
  <1>1. Len(s) \in Nat /\ DOMAIN s = 1 .. Len(s)
    BY LenProperties
  <1>2. /\ new \in Seq(S) /\ Len(new) = Len(s) + 1
        /\ \A i \in 1 .. Len(s) : new[i] = s[i]
        /\ new[Len(s) + 1] = c
    BY AppendProperties
  <1>3. DOMAIN new = 1 .. Len(s) + 1
    BY <1>2, LenProperties
  <1> HIDE DEF new
  <1>4. Range(new) = Range(s) \cup {c}
    BY <1>1, <1>2, <1>3 DEF Range
  <1>5. ASSUME IsInjective(s), c \notin Range(s)
        PROVE  IsInjective(new)
    BY <1>1, <1>2, <1>3, <1>5 DEF Range, IsInjective
  <1>. QED BY <1>2, <1>4, <1>5 DEF new

-----------------------------------------------------------------------------
(* Type correctness *)

LEMMA InitTypeOK == Init => TypeOK
  <1> SUFFICES ASSUME Init PROVE TypeOK
    OBVIOUS
  <1>1. Range(connections) = {} /\ connections \in Seq(Conns)
    BY EmptySeq DEF Init, Range
  <1>. QED BY <1>1 DEF Init, TypeOK

\* What Take does with what it finds.
LEMMA TakeType ==
    ASSUME TypeOK, NEW u \in Users, Take(u)
    PROVE  TypeOK'
  <1>1. thread' \in [Threads -> {"none", "new", "checked", "rearm", "wait", "scan", "erased"}]
    BY DEF TypeOK, Take
  <1>2. CASE AnyPooled(connections)
    <2> DEFINE c == connections[Len(connections)]
    <2>1. /\ Popped(connections) \in Seq(Conns) /\ c \in Conns
          /\ Range(connections) = Range(Popped(connections)) \cup {c}
      BY <1>2, PoppedShrinks DEF TypeOK, AnyPooled, Shrunk
    <2>2. /\ connections' = Popped(connections) /\ held' = [held EXCEPT ![u] = c]
          /\ expired' = expired \ {c} /\ user' = [user EXCEPT ![u] = "holds"]
          /\ user[u] = "idle" /\ timer' = timer
      BY <1>2 DEF Take
    <2> HIDE DEF c
    <2>3. held' \in [Users -> Conns \cup {NoConn}]
      BY <2>1, <2>2 DEF TypeOK
    <2>4. \A v \in Users : user'[v] = "holds" <=> held'[v] # NoConn
      BY <2>1, <2>2, PoolAssumption DEF TypeOK
    <2>5. Held \subseteq Held'
      BY <2>2 DEF TypeOK, Held
    <2>6. expired' \subseteq Pooled' \cup Held'
      BY <2>1, <2>2, <2>5 DEF TypeOK, Pooled
    <2>. QED BY <1>1, <2>1, <2>2, <2>3, <2>4, <2>6 DEF TypeOK
  <1>3. CASE ~AnyPooled(connections)
    BY <1>1, <1>3 DEF TypeOK, Take, Pooled, Held
  <1>. QED BY <1>2, <1>3

LEMMA RequestType ==
    ASSUME TypeOK, NEW u \in Users, Request(u)
    PROVE  TypeOK'
  <1>1. CASE Take(u)
    BY <1>1, TakeType
  <1>2. CASE Create(u)
    <2>1. PICK c \in Conns \ (Pooled \cup Held) : held' = [held EXCEPT ![u] = c]
      BY <1>2 DEF Create
    <2>2. held[u] = NoConn
      BY <1>2 DEF TypeOK, Create
    <2>3. Held' = Held \cup {c}
      BY <2>1, <2>2, PoolAssumption DEF TypeOK, Held
    <2>4. \A v \in Users : user'[v] = "holds" <=> held'[v] # NoConn
      BY <1>2, <2>1, PoolAssumption DEF TypeOK, Create
    <2>. QED BY <1>2, <2>1, <2>3, <2>4 DEF TypeOK, Create, Pooled
  <1>3. CASE CreateFails(u)
    BY <1>3 DEF TypeOK, CreateFails, Pooled, Held
  <1>4. CASE Put(u)
    <2>1. held[u] \in Conns
      BY <1>4 DEF TypeOK, Put
    <2>2. /\ connections' \in Seq(Conns)
          /\ Pooled' = Pooled \cup {held[u]}
      BY <1>4, <2>1, AppendGrows DEF TypeOK, Put, Pooled
    <2>3. Held \subseteq Held' \cup {held[u]}
      BY <1>4 DEF TypeOK, Put, Held
    <2>4. \A v \in Users : user'[v] = "holds" <=> held'[v] # NoConn
      BY <1>4 DEF TypeOK, Put
    <2>. QED BY <1>4, <2>2, <2>3, <2>4 DEF TypeOK, Put
  <1>5. CASE Drop(u)
    <2>1. Held \subseteq Held' \cup {held[u]}
      BY <1>5 DEF TypeOK, Drop, Held
    <2>2. \A v \in Users : user'[v] = "holds" <=> held'[v] # NoConn
      BY <1>5 DEF TypeOK, Drop
    <2>. QED BY <1>5, <2>1, <2>2 DEF TypeOK, Drop, Pooled
  <1>. QED BY <1>1, <1>2, <1>3, <1>4, <1>5 DEF Request

LEMMA TimerThreadType ==
    ASSUME TypeOK, NEW t \in Threads, TimerThread(t)
    PROVE  TypeOK'
  <1>1. CASE Erase(t)
    <2>1. PICK i \in Old :
             /\ connections' = RemoveAt(connections, i)
             /\ expired' = expired \ {connections[i]}
      BY <1>1 DEF Erase
    <2>2. /\ connections' \in Seq(Conns)
          /\ Pooled = Pooled' \cup {connections[i]}
      BY <2>1, RemoveAtShrinks DEF TypeOK, Old, Shrunk, Pooled
    <2>3. expired' \subseteq Pooled' \cup Held'
      BY <1>1, <2>1, <2>2 DEF TypeOK, Erase, Held
    <2>. QED BY <1>1, <2>2, <2>3 DEF TypeOK, Erase
  <1>2. CASE Leave(t)
    <2>1. timer' \in BOOLEAN
      BY <1>2 DEF Leave, TimerLeft
    <2>2. NextWait(t) \in {"none", "rearm"}
      BY DEF NextWait
    <2>. QED BY <1>2, <2>1, <2>2 DEF TypeOK, Leave, Pooled, Held
  <1>3. CASE CheckTimer(t) \/ TimerFails(t) \/ SetTimer(t) \/ Rearm(t) \/ Wake(t)
    <2>1. UNCHANGED <<connections, expired, user, held>>
      BY <1>3 DEF CheckTimer, TimerFails, SetTimer, Rearm, Wake
    <2>2. timer' \in BOOLEAN
      BY <1>3 DEF TypeOK, CheckTimer, TimerFails, SetTimer, Rearm, Wake
    <2>3. \E to \in {"none", "checked", "rearm", "wait", "scan"} :
             thread' = [thread EXCEPT ![t] = to]
      BY <1>3 DEF CheckTimer, TimerFails, SetTimer, Rearm, Wake, Step
    <2>4. thread' \in [Threads -> {"none", "new", "checked", "rearm", "wait", "scan", "erased"}]
      BY <2>3 DEF TypeOK
    <2>. QED BY <2>1, <2>2, <2>4 DEF TypeOK, Pooled, Held
  <1>. QED BY <1>1, <1>2, <1>3 DEF TimerThread

LEMMA NextTypeOK == TypeOK /\ [Next]_vars => TypeOK'
  <1> SUFFICES ASSUME TypeOK, [Next]_vars PROVE TypeOK'
    OBVIOUS
  <1>1. CASE Age
    BY <1>1 DEF TypeOK, Age, Pooled, Held
  <1>2. CASE UNCHANGED vars
    BY <1>2 DEF TypeOK, vars, Pooled, Held
  <1>. QED BY <1>1, <1>2, RequestType, TimerThreadType DEF Next

\* Every variable keeps its type: what the timer threads hold to be expired is
\* open, and a request holds a connection exactly from its get to its put.
THEOREM TypeCorrect == Spec => []TypeOK
  BY InitTypeOK, NextTypeOK, PTL DEF Spec

-----------------------------------------------------------------------------
(* One connection, one request *)

LEMMA RequestSharesNothing ==
    ASSUME TypeOK, NoSharing, NEW u \in Users, Request(u)
    PROVE  NoSharing'
  <1>1. CASE Take(u) /\ AnyPooled(connections)
    <2> DEFINE c == connections[Len(connections)]
    <2>1. /\ c \in Conns /\ IsInjective(Popped(connections))
          /\ c \notin Range(Popped(connections))
          /\ Range(connections) = Range(Popped(connections)) \cup {c}
      BY <1>1, PoppedShrinks DEF TypeOK, NoSharing, AnyPooled, Shrunk
    <2>2. connections' = Popped(connections) /\ held' = [held EXCEPT ![u] = c]
      BY <1>1 DEF Take
    <2> HIDE DEF c
    <2>3. \A v \in Users : held[v] # c
      BY <2>1, PoolAssumption DEF NoSharing, Pooled, Held
    <2>4. \A v, w \in Users : held'[v] = held'[w] /\ held'[v] # NoConn => v = w
      BY <2>2, <2>3 DEF TypeOK, NoSharing
    <2>5. Pooled' \cap Held' = {}
      BY <2>1, <2>2 DEF TypeOK, NoSharing, Pooled, Held
    <2>. QED BY <2>1, <2>2, <2>4, <2>5 DEF NoSharing
  <1>2. CASE Take(u) /\ ~AnyPooled(connections)
    BY <1>2 DEF Take, NoSharing, Pooled, Held
  <1>3. CASE Create(u)
    <2>1. PICK c \in Conns \ (Pooled \cup Held) : held' = [held EXCEPT ![u] = c]
      BY <1>3 DEF Create
    <2>2. \A v \in Users : held[v] # c
      BY <2>1, PoolAssumption DEF Held
    <2>3. \A v, w \in Users : held'[v] = held'[w] /\ held'[v] # NoConn => v = w
      BY <2>1, <2>2 DEF TypeOK, NoSharing
    <2>4. Pooled' \cap Held' = {}
      BY <1>3, <2>1 DEF Create, TypeOK, NoSharing, Pooled, Held
    <2>. QED BY <1>3, <2>3, <2>4 DEF Create, NoSharing
  <1>4. CASE CreateFails(u)
    BY <1>4 DEF CreateFails, NoSharing, Pooled, Held
  <1>5. CASE Put(u)
    <2>1. held[u] \in Conns
      BY <1>5 DEF TypeOK, Put
    <2>2. held[u] \notin Range(connections)
      BY <2>1, PoolAssumption DEF NoSharing, Pooled, Held
    <2>3. /\ IsInjective(connections')
          /\ Pooled' = Pooled \cup {held[u]}
      BY <1>5, <2>1, <2>2, AppendGrows DEF TypeOK, NoSharing, Put, Pooled
    <2>4. held' = [held EXCEPT ![u] = NoConn]
      BY <1>5 DEF Put
    <2>5. \A v, w \in Users : held'[v] = held'[w] /\ held'[v] # NoConn => v = w
      BY <2>4 DEF TypeOK, NoSharing
    <2>6. \A v \in Users : held'[v] # NoConn => held'[v] = held[v] /\ v # u
      BY <2>4 DEF TypeOK
    <2>7. held[u] \notin Held' /\ Held' \subseteq Held
      BY <2>6 DEF NoSharing, Held
    <2>. QED BY <2>3, <2>5, <2>7 DEF NoSharing
  <1>6. CASE Drop(u)
    <2>1. \A v \in Users : held'[v] # NoConn => held'[v] = held[v]
      BY <1>6 DEF TypeOK, Drop
    <2>2. Held' \subseteq Held
      BY <2>1 DEF Held
    <2>. QED BY <1>6, <2>1, <2>2 DEF Drop, NoSharing, Pooled
  <1>. QED BY <1>1, <1>2, <1>3, <1>4, <1>5, <1>6 DEF Request

LEMMA OtherStepsShareNothing ==
    ASSUME TypeOK, NoSharing,
           (\E t \in Threads : TimerThread(t)) \/ Age \/ UNCHANGED vars
    PROVE  NoSharing'
  <1>1. held' = held
    BY DEF TimerThread, CheckTimer, TimerFails, SetTimer, Rearm, Wake, Erase, Leave,
           Age, vars
  <1>2. CASE connections' = connections
    BY <1>1, <1>2 DEF NoSharing, Pooled, Held
  <1>3. CASE \E i \in DOMAIN connections : connections' = RemoveAt(connections, i)
    <2>1. PICK i \in DOMAIN connections : connections' = RemoveAt(connections, i)
      BY <1>3
    <2>2. Range(connections') \subseteq Range(connections) /\ IsInjective(connections')
      BY <2>1, RemoveAtShrinks DEF TypeOK, NoSharing, Shrunk
    <2>. QED BY <1>1, <2>2 DEF NoSharing, Pooled, Held
  <1>. QED BY <1>2, <1>3 DEF TimerThread, CheckTimer, TimerFails, SetTimer, Rearm, Wake,
                             Erase, Old, Leave, Age, vars

\* No two requests ever talk over one connection, however many requests and
\* timer threads there are: the mutex and pop_back are enough.
THEOREM Exclusive == Spec => []NoSharing
  <1>1. Init => NoSharing
    BY DEF Init, NoSharing, Pooled, Held, Range, IsInjective
  <1>2. TypeOK /\ NoSharing /\ [Next]_vars => NoSharing'
    BY RequestSharesNothing, OtherStepsShareNothing DEF Next
  <1>. QED BY <1>1, <1>2, TypeCorrect, PTL DEF Spec

-----------------------------------------------------------------------------
(* No more connections than requests *)

LEMMA BusyIsFinite ==
    /\ IsFiniteSet(Busy) /\ Cardinality(Busy) \in Nat
    /\ Cardinality(Users) \in Nat
    /\ Cardinality(Busy) <= Cardinality(Users)
    /\ Busy # Users => Cardinality(Busy) < Cardinality(Users)
  BY PoolAssumption, FS_Subset, FS_CardinalityType DEF Busy

LEMMA RequestBounded ==
    ASSUME TypeOK, PoolBounded, NEW u \in Users, Request(u)
    PROVE  PoolBounded'
  <1>1. Len(connections) \in Nat
    BY LenProperties DEF TypeOK
  <1>2. CASE Take(u)
    <2>1. u \notin Busy /\ Busy' = Busy \cup {u}
      BY <1>2 DEF Take, TypeOK, Busy
    <2>2. Cardinality(Busy') = Cardinality(Busy) + 1
      BY <2>1, BusyIsFinite, FS_AddElement
    <2>3. CASE AnyPooled(connections)
      <3>1. Len(connections') = Len(connections) - 1
        BY <1>2, <2>3, PoppedShrinks DEF Take, TypeOK, AnyPooled, Shrunk
      <3>. QED BY <1>1, <2>2, <3>1, BusyIsFinite DEF PoolBounded
    <2>4. CASE ~AnyPooled(connections)
      <3>1. Len(connections') = 0
        BY <1>1, <1>2, <2>4 DEF Take, AnyPooled
      <3>2. Cardinality(Busy) < Cardinality(Users)
        BY <2>1, BusyIsFinite
      <3>. QED BY <2>2, <3>1, <3>2, BusyIsFinite DEF PoolBounded
    <2>. QED BY <2>3, <2>4
  <1>3. CASE Create(u)
    BY <1>3 DEF Create, PoolBounded, Busy, TypeOK
  <1>4. CASE CreateFails(u) \/ Put(u) \/ Drop(u)
    <2>1. u \in Busy /\ Busy' = Busy \ {u}
      BY <1>4 DEF CreateFails, Put, Drop, TypeOK, Busy
    <2>2. Cardinality(Busy') = Cardinality(Busy) - 1
      BY <2>1, BusyIsFinite, FS_RemoveElement
    <2>3. Len(connections') \in {Len(connections), Len(connections) + 1}
      <3>1. CASE Put(u)
        BY <3>1, AppendGrows DEF Put, TypeOK
      <3>. QED BY <1>4, <3>1 DEF CreateFails, Drop
    <2>. QED BY <1>1, <2>2, <2>3, BusyIsFinite DEF PoolBounded
  <1>. QED BY <1>2, <1>3, <1>4 DEF Request

LEMMA OtherStepsBounded ==
    ASSUME TypeOK, PoolBounded,
           (\E t \in Threads : TimerThread(t)) \/ Age \/ UNCHANGED vars
    PROVE  PoolBounded'
  <1>1. user' = user
    BY DEF TimerThread, CheckTimer, TimerFails, SetTimer, Rearm, Wake, Erase, Leave,
           Age, vars
  <1>2. Len(connections) \in Nat
    BY LenProperties DEF TypeOK
  <1>3. Len(connections') \in {Len(connections), Len(connections) - 1}
    <2>1. ASSUME NEW i \in DOMAIN connections, connections' = RemoveAt(connections, i)
          PROVE  Len(connections') = Len(connections) - 1
      BY <2>1, RemoveAtShrinks DEF TypeOK, Shrunk
    <2>. QED BY <2>1 DEF TimerThread, CheckTimer, TimerFails, SetTimer, Rearm, Wake,
                         Erase, Old, Leave, Age, vars
  <1>. QED BY <1>1, <1>2, <1>3, BusyIsFinite DEF PoolBounded, Busy

\* The pool never grows beyond the number of requests that may run at a time.
THEOREM Bounded == Spec => []PoolBounded
  <1>1. Init => PoolBounded
    <2> SUFFICES ASSUME Init PROVE PoolBounded
      OBVIOUS
    <2>1. Busy = {} /\ Len(connections) = 0
      BY DEF Init, Busy
    <2>. QED BY <2>1, FS_EmptySet, BusyIsFinite DEF PoolBounded
  <1>2. TypeOK /\ PoolBounded /\ [Next]_vars => PoolBounded'
    BY RequestBounded, OtherStepsBounded DEF Next
  <1>. QED BY <1>1, <1>2, TypeCorrect, PTL DEF Spec

-----------------------------------------------------------------------------
(* A timer that nobody waits for *)

\* A thread ends only when it gives up the timer or finds it given up, so a
\* timer always has its thread: get may rely on it and start none.
THEOREM Watched == Spec => []TimerHasThread
  <1>1. Init => TimerHasThread
    BY DEF Init, TimerHasThread
  <1>2. TypeOK /\ TimerHasThread /\ [Next]_vars => TimerHasThread'
    <2> SUFFICES ASSUME TypeOK, TimerHasThread, [Next]_vars PROVE TimerHasThread'
      OBVIOUS
    <2>1. ASSUME NEW u \in Users, Request(u)  PROVE TimerHasThread'
      BY <2>1 DEF Request, Take, Create, CreateFails, Put, Drop, TimerHasThread, TypeOK
    <2>2. ASSUME NEW t \in Threads, TimerThread(t)  PROVE TimerHasThread'
      <3>1. CASE CheckTimer(t) \/ TimerFails(t)
        BY <3>1 DEF CheckTimer, TimerFails, Step, TimerHasThread, TypeOK
      <3>2. CASE SetTimer(t) \/ Rearm(t) \/ Wake(t)
        BY <3>2 DEF SetTimer, Rearm, Wake, Step, TimerHasThread, TypeOK
      <3>3. CASE Erase(t)
        BY <3>3 DEF Erase, TimerHasThread, TypeOK
      <3>4. CASE Leave(t)
        BY <3>4 DEF Leave, TimerLeft, NextWait, TimerHasThread, TypeOK
      <3>. QED BY <2>2, <3>1, <3>2, <3>3, <3>4 DEF TimerThread
    <2>3. CASE Age \/ UNCHANGED vars
      BY <2>3 DEF Age, vars, TimerHasThread
    <2>. QED BY <2>1, <2>2, <2>3 DEF Next
  <1>. QED BY <1>1, <1>2, TypeCorrect, PTL DEF Spec
=============================================================================
