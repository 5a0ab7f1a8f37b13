--------------------------- MODULE RedLock_proofs ---------------------------
(***************************************************************************)
(* Proofs about RedLock.                                                   *)
(***************************************************************************)
EXTENDS RedLock, FiniteSetTheorems, TLAPS

USE RedLockAssumption

LEMMA ModFacts ==
    ASSUME NEW a \in Nat, NEW b \in Nat \ {0}
    PROVE  a % b \in 0..b-1
  OBVIOUS

LEMMA NowType == TypeOK => now \in Nat
  BY DEF TypeOK

LEMMA GrainType ==
    ASSUME NEW c \in Clients
    PROVE  Grain(c) \in Nat \ {0}
  BY DEF Grain, Second

LEMMA DriftType == Drift \in Nat
  BY DEF Drift

\* What a server stores after the commands of a client is a value of its call.
LEMMA ServerSteps ==
    ASSUME TypeOK, NEW c \in Clients, NEW s \in Servers
    PROVE  /\ SetOnServer(c, s) => /\ stored' \in [Servers -> Vals \cup {NoVal}]
                                   /\ expiry' \in [Servers -> Nat]
           /\ DeleteOnServer(c, s) => /\ stored' \in [Servers -> Vals \cup {NoVal}]
                                      /\ expiry' \in [Servers -> Nat]
<1>1. SetOnServer(c, s) => stored' \in [Servers -> Vals \cup {NoVal}]
  BY DEF TypeOK, SetOnServer
<1>2. SetOnServer(c, s) => expiry' \in [Servers -> Nat]
  BY DEF TypeOK, SetOnServer
<1>3. DeleteOnServer(c, s) => stored' \in [Servers -> Vals \cup {NoVal}]
  BY DEF TypeOK, DeleteOnServer
<1>4. DeleteOnServer(c, s) => expiry' \in [Servers -> Nat]
  BY DEF TypeOK, DeleteOnServer
<1> QED
  BY <1>1, <1>2, <1>3, <1>4

LEMMA ClockType ==
    ASSUME now \in Nat, NEW c \in Clients
    PROVE  Clock(c) \in Int /\ Clock(c) <= now /\ now <= Clock(c) + (Grain(c) - 1)
<1>1. now % Grain(c) \in 0..Grain(c)-1
  BY GrainType, ModFacts
<1> QED
  BY <1>1, GrainType DEF Clock

\* The validity time of an attempt, less what it overstates, ends when the
\* leases of the attempt may end.
LEMMA OverstatedCovers ==
    ASSUME TypeOK, NEW c \in Clients
    PROVE  /\ Overstated(c) \in Nat
           /\ Validity(c) \in Int
           /\ now + Validity(c) - Overstated(c) + Skew <= startTime[c] + TTL
<1>1. now \in Nat
  BY NowType
<1>2. Overstated(c) \in Nat /\ Overstated(c) >= Skew + (Grain(c) - 1) - Drift
  BY GrainType, DriftType DEF Overstated
<1> QED
  BY <1>1, <1>2, ClockType, GrainType, DriftType DEF Validity, TypeOK

\* The lock and its clocks have their types in every reachable state.
THEOREM TypeCorrect == Spec => []TypeOK
<1>1. Init => TypeOK
  BY DEF Init, TypeOK, Servers
<1>2. TypeOK /\ [Next]_vars => TypeOK'
  <2> SUFFICES ASSUME TypeOK, [Next]_vars PROVE TypeOK'
    OBVIOUS
  <2> USE DEF TypeOK, client
  <2>0. now \in Nat
    OBVIOUS
  <2>1. ASSUME NEW c \in Clients, Lock(c) PROVE TypeOK'
    BY <2>0, <2>1, ClockType DEF Lock, StartAttempt, Vals
  <2>2. ASSUME NEW c \in Clients, LockInstance(c) PROVE TypeOK'
    <3>1. i[c] \in Servers
      BY <2>2 DEF LockInstance
    <3>2. stored' \in [Servers -> Vals \cup {NoVal}] /\ expiry' \in [Servers -> Nat]
      BY <2>2, <3>1, ServerSteps DEF LockInstance
    <3>3. i' \in [Clients -> 1..N + 1]
      BY <2>2, <3>1 DEF LockInstance, Servers
    <3> QED
      BY <2>2, <3>1, <3>2, <3>3 DEF LockInstance, Broken
  <2>3. ASSUME NEW c \in Clients, LockInstanceFails(c) PROVE TypeOK'
    <3>1. i[c] \in Servers
      BY <2>3 DEF LockInstanceFails
    <3>2. stored' \in [Servers -> Vals \cup {NoVal}] /\ expiry' \in [Servers -> Nat]
      BY <2>3, <3>1, ServerSteps DEF LockInstanceFails
    <3>3. i' \in [Clients -> 1..N + 1]
      BY <2>3, <3>1 DEF LockInstanceFails, Servers
    <3> QED
      BY <2>3, <3>1, <3>2, <3>3 DEF LockInstanceFails, Broken
  <2>4. ASSUME NEW c \in Clients, Acquired(c) PROVE TypeOK'
    BY <2>0, <2>4, OverstatedCovers DEF Acquired, LoopDone
  <2>5. ASSUME NEW c \in Clients, Refused(c) PROVE TypeOK'
    BY <2>5 DEF Refused, LoopDone, StartUnlock
  <2>6. ASSUME NEW c \in Clients, Unlock(c) PROVE TypeOK'
    BY <2>6 DEF Unlock, StartUnlock
  <2>7. ASSUME NEW c \in Clients, UnlockInstance(c) PROVE TypeOK'
    <3>1. i[c] \in Servers
      BY <2>7 DEF UnlockInstance
    <3>2. stored' \in [Servers -> Vals \cup {NoVal}] /\ expiry' \in [Servers -> Nat]
      BY <2>7, <3>1, ServerSteps DEF UnlockInstance
    <3>3. i' \in [Clients -> 1..N + 1]
      BY <2>7, <3>1 DEF UnlockInstance, Servers
    <3> QED
      BY <2>7, <3>1, <3>2, <3>3 DEF UnlockInstance, Broken
  <2>8. ASSUME NEW c \in Clients, UnlockInstanceFails(c) PROVE TypeOK'
    <3>1. i[c] \in Servers
      BY <2>8 DEF UnlockInstanceFails
    <3>2. stored' \in [Servers -> Vals \cup {NoVal}] /\ expiry' \in [Servers -> Nat]
      BY <2>8, <3>1, ServerSteps DEF UnlockInstanceFails
    <3>3. i' \in [Clients -> 1..N + 1]
      BY <2>8, <3>1 DEF UnlockInstanceFails, Servers
    <3> QED
      BY <2>8, <3>1, <3>2, <3>3 DEF UnlockInstanceFails, Broken
  <2>9. ASSUME NEW c \in Clients, Retry(c) PROVE TypeOK'
    BY <2>0, <2>9, ClockType DEF Retry, StartAttempt
  <2>10. ASSUME NEW c \in Clients, Return(c) PROVE TypeOK'
    BY <2>10 DEF Return, Forget
  <2>11. ASSUME NEW c \in Clients, Die(c) PROVE TypeOK'
    BY <2>11 DEF Die, Forget
  <2>12. ASSUME NEW s \in Servers, Expire(s) PROVE TypeOK'
    BY <2>12 DEF Expire
  <2>13. CASE Tick
    BY <2>13 DEF Tick
  <2>14. CASE UNCHANGED vars
    BY <2>14 DEF vars
  <2> QED
    BY <2>1, <2>2, <2>3, <2>4, <2>5, <2>6, <2>7, <2>8, <2>9, <2>10, <2>11,
       <2>12, <2>13, <2>14 DEF Next, ClientStep
<1> QED
  BY <1>1, <1>2, PTL DEF Spec

----------------------------------------------------------------------------
\* The values of a call are those its process drew.
Owned ==
    \A c \in Clients :
        /\ val[c] # NoVal => val[c][1] = c
        /\ contVal[c] # NoVal => contVal[c][1] = c
        /\ pc[c] \in {"lock", "held", "undo", "release"} => val[c] # NoVal

LEMMA OwnedInductive ==
    /\ Init => Owned
    /\ TypeOK /\ Owned /\ [Next]_vars => Owned'
<1>1. Init => Owned
  BY DEF Init, Owned
<1>2. TypeOK /\ Owned /\ [Next]_vars => Owned'
  <2> SUFFICES ASSUME TypeOK, Owned, [Next]_vars PROVE Owned'
    OBVIOUS
  <2> USE DEF TypeOK, Owned, client
  <2>1. ASSUME NEW c \in Clients, Lock(c) PROVE Owned'
    BY <2>1 DEF Lock, Vals
  <2>2. ASSUME NEW c \in Clients, LockInstance(c) \/ LockInstanceFails(c) PROVE Owned'
    BY <2>2 DEF LockInstance, LockInstanceFails
  <2>3. ASSUME NEW c \in Clients, Acquired(c) PROVE Owned'
    BY <2>3 DEF Acquired, LoopDone
  <2>4. ASSUME NEW c \in Clients, Refused(c) PROVE Owned'
    BY <2>4 DEF Refused, LoopDone
  <2>5. ASSUME NEW c \in Clients, Unlock(c) PROVE Owned'
    BY <2>5 DEF Unlock
  <2>6. ASSUME NEW c \in Clients, UnlockInstance(c) \/ UnlockInstanceFails(c)
        PROVE  Owned'
    BY <2>6 DEF UnlockInstance, UnlockInstanceFails
  <2>7. ASSUME NEW c \in Clients, Retry(c) PROVE Owned'
    BY <2>7 DEF Retry
  <2>8. ASSUME NEW c \in Clients, Return(c) PROVE Owned'
    BY <2>8 DEF Return, Forget
  <2>9. ASSUME NEW c \in Clients, Die(c) PROVE Owned'
    BY <2>9 DEF Die, Forget
  <2>10. CASE (\E s \in Servers : Expire(s)) \/ Tick \/ UNCHANGED vars
    BY <2>10 DEF Expire, Tick, vars
  <2> QED
    BY <2>1, <2>2, <2>3, <2>4, <2>5, <2>6, <2>7, <2>8, <2>9, <2>10
       DEF Next, ClientStep
<1> QED
  BY <1>1, <1>2

----------------------------------------------------------------------------
\* Server s stores the value of c until t, or t (less the skew) is over.
Backed(c, s, t) ==
    \/ now + Skew >= t
    \/ stored[s] = val[c] /\ expiry[s] >= t

\* What a client relies on: while it counts answers, each server that said OK
\* keeps the lease for TTL from the start of the attempt; while it holds the
\* lock, a majority keeps it for as long as it may be sure of the lock.
Counting(c) ==
    pc[c] = "lock" =>
        /\ startTime[c] <= now
        /\ \A s \in got[c] : Backed(c, s, startTime[c] + TTL)

Holding(c) ==
    pc[c] = "held" =>
        /\ Cardinality(got[c]) >= Quorum
        /\ \A s \in got[c] : Backed(c, s, validUntil[c] - Overstated(c) + Skew)

LeaseInv == \A c \in Clients : Counting(c) /\ Holding(c)

\* The commands of a client d do not take away what another one relies on.
LEMMA ForeignSet ==
    ASSUME TypeOK, Owned, NEW c \in Clients, NEW d \in Clients, c # d,
           NEW s \in Servers, NEW r \in Servers, NEW t \in Int,
           val[c] # NoVal, val'[c] = val[c], now' = now,
           SetOnServer(d, r) \/ DeleteOnServer(d, r), val[d] # NoVal,
           Backed(c, s, t)
    PROVE  Backed(c, s, t)'
<1> USE DEF TypeOK
<1>1. val[c] # val[d] /\ val[c] # contVal[d]
  BY DEF Owned
<1>2. CASE now + Skew >= t
  BY <1>2 DEF Backed
<1>3. CASE stored[s] = val[c] /\ expiry[s] >= t
  <2>1. CASE SetOnServer(d, r)
    BY <1>1, <1>3, <2>1 DEF Backed, SetOnServer, Grants
  <2>2. CASE DeleteOnServer(d, r)
    BY <1>1, <1>3, <2>2 DEF Backed, DeleteOnServer
  <2> QED
    BY <2>1, <2>2
<1> QED
  BY <1>2, <1>3 DEF Backed

\* A lease the client sets lasts for TTL from now on.
LEMMA OwnSet ==
    ASSUME TypeOK, NEW c \in Clients, NEW r \in Servers, NEW s \in Servers,
           NEW t \in Int, t <= now + TTL,
           val'[c] = val[c], now' = now, SetOnServer(c, r),
           Backed(c, s, t) \/ (s = r /\ Grants(c, r))
    PROVE  Backed(c, s, t)'
<1> USE DEF TypeOK
<1>1. CASE s = r /\ Grants(c, r)
  BY <1>1 DEF Backed, SetOnServer
<1>2. CASE Backed(c, s, t)
  BY <1>2 DEF Backed, SetOnServer
<1> QED
  BY <1>1, <1>2

LEMMA LaterSum == \A x, y, z, t \in Int : x + z >= t /\ y >= x => y + z >= t
  OBVIOUS

\* Steps that leave the lease as it is, or take it away when it may expire.
LEMMA Later ==
    ASSUME NEW c \in Clients, NEW s \in Servers, NEW t \in Int, Backed(c, s, t),
           now \in Int, now' \in Int, now' >= now, expiry[s] \in Int,
           val'[c] = val[c],
           \/ stored'[s] = stored[s] /\ expiry'[s] = expiry[s]
           \/ now + Skew >= expiry[s]
    PROVE  Backed(c, s, t)'
<1>0. Skew \in Int
  BY RedLockAssumption
<1>1. ASSUME now + Skew >= t PROVE Backed(c, s, t)'
  <2>1. now' + Skew >= t
    BY <1>0, <1>1, LaterSum
  <2> QED
    BY <2>1 DEF Backed
<1>2. CASE stored[s] = val[c] /\ expiry[s] >= t
  <2>1. CASE stored'[s] = stored[s] /\ expiry'[s] = expiry[s]
    BY <1>2, <2>1 DEF Backed
  <2>2. CASE now + Skew >= expiry[s]
    <3>1. now + Skew >= t
      BY <1>0, <1>2, <2>2
    <3> QED
      BY <1>1, <3>1
  <2> QED
    BY <2>1, <2>2
<1> QED
  BY <1>1, <1>2 DEF Backed

\* Steps that leave the client as it is.
LEMMA Idle ==
    ASSUME TypeOK, NEW c \in Clients, Counting(c), Holding(c),
           pc'[c] = pc[c], val'[c] = val[c], startTime'[c] = startTime[c],
           got'[c] = got[c], validUntil'[c] = validUntil[c], now' \in Int, now' >= now,
           \A s \in got[c] : \/ stored'[s] = stored[s] /\ expiry'[s] = expiry[s]
                             \/ now + Skew >= expiry[s]
    PROVE  Counting(c)' /\ Holding(c)'
<1>0. got[c] \subseteq Servers /\ now \in Int /\ expiry \in [Servers -> Nat]
  BY DEF TypeOK
<1>1. ASSUME NEW s \in got[c], NEW t \in Int, Backed(c, s, t)
      PROVE  Backed(c, s, t)'
  BY <1>0, <1>1, Later
<1>2. Counting(c)'
  <2>1. startTime[c] + TTL \in Int
    BY DEF TypeOK
  <2> QED
    BY <1>0, <1>1, <2>1 DEF Counting, TypeOK
<1>3. Holding(c)'
  <2>1. validUntil[c] - Overstated(c) + Skew \in Int
    BY OverstatedCovers DEF TypeOK
  <2> QED
    BY <1>1, <2>1 DEF Holding
<1> QED
  BY <1>2, <1>3

\* A step of another client.
LEMMA Foreign ==
    ASSUME TypeOK, Owned, NEW c \in Clients, NEW d \in Clients, c # d,
           Counting(c), Holding(c), ClientStep(d)
    PROVE  Counting(c)' /\ Holding(c)'
<1> USE DEF TypeOK
<1>1. /\ pc'[c] = pc[c] /\ val'[c] = val[c] /\ startTime'[c] = startTime[c]
      /\ got'[c] = got[c] /\ validUntil'[c] = validUntil[c] /\ now' = now
  BY DEF ClientStep, Lock, StartAttempt, LockInstance, LockInstanceFails,
         Acquired, Refused, Unlock, StartUnlock, UnlockInstance,
         UnlockInstanceFails, Retry, Return, Die, Forget
<1>2. \/ UNCHANGED <<stored, expiry>>
      \/ /\ i[d] \in Servers /\ val[d] # NoVal
         /\ SetOnServer(d, i[d]) \/ DeleteOnServer(d, i[d])
  BY DEF Owned, ClientStep, Lock, LockInstance, LockInstanceFails, Acquired,
         Refused, Unlock, UnlockInstance, UnlockInstanceFails, Retry, Return, Die
<1>3. CASE UNCHANGED <<stored, expiry>>
  <2>1. now' \in Int /\ now' >= now
    BY <1>1, NowType
  <2> QED
    BY <1>1, <1>3, <2>1, Idle
<1>4. CASE /\ i[d] \in Servers /\ val[d] # NoVal
           /\ SetOnServer(d, i[d]) \/ DeleteOnServer(d, i[d])
  <2>1. ASSUME NEW s \in got[c], NEW t \in Int, Backed(c, s, t), val[c] # NoVal
        PROVE  Backed(c, s, t)'
    BY <1>1, <1>4, <2>1, ForeignSet
  <2>2. Counting(c)'
    <3>1. startTime[c] + TTL \in Int
      OBVIOUS
    <3> QED
      BY <1>1, <2>1, <3>1 DEF Counting, Owned
  <2>3. Holding(c)'
    <3>1. validUntil[c] - Overstated(c) + Skew \in Int
      BY OverstatedCovers
    <3> QED
      BY <1>1, <2>1, <3>1 DEF Holding, Owned
  <2> QED
    BY <2>2, <2>3
<1> QED
  BY <1>2, <1>3, <1>4

\* The client's own steps.
LEMMA Own ==
    ASSUME TypeOK, Owned, NEW c \in Clients,
           Counting(c), Holding(c), ClientStep(c)
    PROVE  Counting(c)' /\ Holding(c)'
<1> USE DEF TypeOK
<1>1. CASE Lock(c) \/ Retry(c)
  BY <1>1, ClockType DEF Lock, Retry, StartAttempt, Counting, Holding
<1>2. CASE LockInstance(c)
  <2>1. /\ pc'[c] = "lock" /\ pc[c] = "lock" /\ i[c] \in Servers
        /\ val' = val /\ now' = now /\ startTime' = startTime
        /\ SetOnServer(c, i[c]) /\ val[c] # NoVal
    BY <1>2 DEF LockInstance, Owned
  <2>2. \A s \in got'[c] : s \in got[c] \/ (s = i[c] /\ Grants(c, i[c]))
    BY <1>2 DEF LockInstance
  <2>3. ASSUME NEW s \in got'[c] PROVE Backed(c, s, startTime[c] + TTL)'
    <3>1. s \in Servers
      BY <2>1, <2>2
    <3>2. Backed(c, s, startTime[c] + TTL) \/ (s = i[c] /\ Grants(c, i[c]))
      BY <2>1, <2>2 DEF Counting
    <3>3. Backed(c, s, startTime[c] + TTL)'
            <=> \/ now' + Skew >= startTime[c] + TTL
                \/ stored'[s] = val'[c] /\ expiry'[s] >= startTime[c] + TTL
      BY <2>1 DEF Backed
    <3>4. startTime[c] + TTL \in Int /\ startTime[c] + TTL <= now + TTL
      BY <2>1, NowType DEF Counting
    <3> QED
      BY <2>1, <3>1, <3>2, <3>3, <3>4, OwnSet DEF Backed
  <2> QED
    BY <2>1, <2>3 DEF Counting, Holding
<1>3. CASE LockInstanceFails(c)
  <2>1. /\ pc'[c] = "lock" /\ pc[c] = "lock" /\ i[c] \in Servers
        /\ val' = val /\ now' = now /\ startTime' = startTime /\ got' = got
        /\ UNCHANGED <<stored, expiry>> \/ SetOnServer(c, i[c])
        /\ val[c] # NoVal
    BY <1>3 DEF LockInstanceFails, Owned
  <2>2. ASSUME NEW s \in got'[c] PROVE Backed(c, s, startTime[c] + TTL)'
    <3>1. s \in Servers /\ Backed(c, s, startTime[c] + TTL)
      BY <2>1 DEF Counting
    <3>2. CASE UNCHANGED <<stored, expiry>>
      BY <2>1, <3>1, <3>2 DEF Backed
    <3>3. CASE SetOnServer(c, i[c])
      <4>1. startTime[c] + TTL \in Int /\ startTime[c] + TTL <= now + TTL
        BY <2>1, NowType DEF Counting
      <4> QED
        BY <2>1, <3>1, <3>3, <4>1, OwnSet
    <3> QED
      BY <2>1, <3>2, <3>3
  <2> QED
    BY <2>1, <2>2 DEF Counting, Holding
<1>4. CASE Acquired(c)
  <2>1. /\ pc[c] = "lock" /\ pc'[c] = "held" /\ got' = got /\ now' = now
        /\ stored' = stored /\ expiry' = expiry /\ val' = val
        /\ validUntil'[c] = now + Validity(c) /\ Cardinality(got[c]) >= Quorum
    BY <1>4 DEF Acquired, LoopDone
  <2> DEFINE end == validUntil'[c] - Overstated(c) + Skew
  <2>2. validUntil'[c] \in Int
    BY <2>1, OverstatedCovers, NowType
  <2>3. end \in Int /\ end <= startTime[c] + TTL
    BY <2>1, <2>2, OverstatedCovers, NowType DEF end
  <2>4. ASSUME NEW s \in got[c] PROVE Backed(c, s, validUntil[c] - Overstated(c) + Skew)'
    <3>1. Backed(c, s, startTime[c] + TTL) /\ s \in Servers
      BY <2>1 DEF Counting
    <3>2. now + Skew >= startTime[c] + TTL
            => now' + Skew >= end
      BY <2>1, <2>3, <3>1, NowType
    <3>3. expiry[s] >= startTime[c] + TTL => expiry[s] >= end
      BY <2>3, <3>1
    <3> QED
      BY <2>1, <3>1, <3>2, <3>3 DEF Backed
  <2> QED
    BY <2>1, <2>4 DEF Counting, Holding
<1>5. CASE \/ Refused(c) \/ Unlock(c) \/ UnlockInstance(c)
           \/ UnlockInstanceFails(c) \/ Return(c) \/ Die(c)
  <2>1. pc'[c] \notin {"lock", "held"}
    BY <1>5 DEF Refused, Unlock, UnlockInstance, UnlockInstanceFails, Return, Die
  <2> QED
    BY <2>1 DEF Counting, Holding
<1> QED
  BY <1>1, <1>2, <1>3, <1>4, <1>5 DEF ClientStep

LEMMA LeaseInductive ==
    /\ Init => LeaseInv
    /\ TypeOK /\ Owned /\ LeaseInv /\ [Next]_vars => LeaseInv'
<1>1. Init => LeaseInv
  BY DEF Init, LeaseInv, Counting, Holding
<1>2. TypeOK /\ Owned /\ LeaseInv /\ [Next]_vars => LeaseInv'
  <2> SUFFICES ASSUME TypeOK, Owned, LeaseInv, [Next]_vars, NEW c \in Clients
               PROVE  Counting(c)' /\ Holding(c)'
    BY DEF LeaseInv
  <2>0. Counting(c) /\ Holding(c)
    BY DEF LeaseInv
  <2>1. CASE \E d \in Clients : ClientStep(d)
    BY <2>0, <2>1, Own, Foreign
  <2>2. CASE \E s \in Servers : Expire(s)
    <3>1. /\ pc'[c] = pc[c] /\ val'[c] = val[c] /\ startTime'[c] = startTime[c]
          /\ got'[c] = got[c] /\ validUntil'[c] = validUntil[c] /\ now' = now
      BY <2>2 DEF Expire, client
    <3>2. \A s \in got[c] : \/ stored'[s] = stored[s] /\ expiry'[s] = expiry[s]
                            \/ now + Skew >= expiry[s]
      BY <2>2 DEF Expire, TypeOK
    <3>3. now' \in Int /\ now' >= now
      BY <3>1, NowType
    <3> QED
      BY <2>0, <3>1, <3>2, <3>3, Idle
  <2>3. CASE Tick \/ UNCHANGED vars
    <3>1. /\ pc'[c] = pc[c] /\ val'[c] = val[c] /\ startTime'[c] = startTime[c]
          /\ got'[c] = got[c] /\ validUntil'[c] = validUntil[c]
          /\ stored' = stored /\ expiry' = expiry
      BY <2>3 DEF Tick, client, vars
    <3>2. now' \in Int /\ now' >= now
      <4>1. CASE Tick
        <5>1. PICK t \in Moments : t > now /\ now' = t
          BY <4>1 DEF Tick
        <5>2. t \in Nat /\ now \in Nat
          BY NowType, RedLockAssumption
        <5> QED
          BY <5>1, <5>2
      <4>2. CASE UNCHANGED vars
        BY <4>2, NowType DEF vars
      <4> QED
        BY <2>3, <4>1, <4>2
    <3> QED
      BY <2>0, <3>1, <3>2, Idle
  <2> QED
    BY <2>1, <2>2, <2>3 DEF Next
<1> QED
  BY <1>1, <1>2

\* The servers that said OK to a holder store its value while it is sure.
LEMMA HeldStored ==
    ASSUME TypeOK, LeaseInv, NEW c \in Clients, Sure(c)
    PROVE  /\ Cardinality(got[c]) >= Quorum
           /\ got[c] \subseteq {s \in Servers : stored[s] = val[c]}
<1>1. Holding(c) /\ pc[c] = "held" /\ got[c] \subseteq Servers
  BY DEF LeaseInv, Sure, TypeOK
<1>2. ~(now + Skew >= validUntil[c] - Overstated(c) + Skew)
  BY OverstatedCovers DEF Sure, TypeOK
<1> QED
  BY <1>1, <1>2 DEF Holding, Backed

LEMMA ServersFinite == IsFiniteSet(Servers) /\ Cardinality(Servers) = N
  BY RedLockAssumption, FS_Interval DEF Servers

\* Two quorums have a server in common.
LEMMA QuorumsMeet ==
    ASSUME NEW A \in SUBSET Servers, NEW B \in SUBSET Servers,
           Cardinality(A) >= Quorum, Cardinality(B) >= Quorum
    PROVE  A \cap B # {}
<1>1. IsFiniteSet(A) /\ IsFiniteSet(B)
  BY ServersFinite, FS_Subset
<1>2. Quorum + Quorum > N /\ Quorum \in Nat
  BY RedLockAssumption DEF Quorum
<1>3. Cardinality(A) \in Nat /\ Cardinality(B) \in Nat
  BY <1>1, FS_CardinalityType
<1>4. A \cup B \subseteq Servers
  OBVIOUS
<1>5. Cardinality(A \cup B) <= N
  BY <1>4, ServersFinite, FS_Subset
<1>6. SUFFICES ASSUME A \cap B = {} PROVE FALSE
  OBVIOUS
<1>7. Cardinality(A \cup B) = Cardinality(A) + Cardinality(B)
  <2>1. Cardinality(A \cup B) = Cardinality(A) + Cardinality(B) - Cardinality(A \cap B)
    BY <1>1, FS_Union
  <2>2. Cardinality(A \cap B) = 0
    BY <1>6, FS_EmptySet
  <2> QED
    BY <1>3, <2>1, <2>2
<1> QED
  BY <1>2, <1>3, <1>5, <1>7, RedLockAssumption

\* No two processes are sure of the lock at a time, for any numbers of clients
\* and servers, any lease times and any clocks.
THEOREM LocksExclude == Spec => []SureExclusive
<1>1. TypeOK /\ Owned /\ LeaseInv => SureExclusive
  <2> SUFFICES ASSUME TypeOK, Owned, LeaseInv, NEW c \in Clients, NEW d \in Clients,
                      Sure(c), Sure(d)
               PROVE  c = d
    BY DEF SureExclusive
  <2>1. got[c] \in SUBSET Servers /\ got[d] \in SUBSET Servers
    BY DEF TypeOK
  <2>2. PICK s \in Servers : s \in got[c] \cap got[d]
    BY <2>1, HeldStored, QuorumsMeet
  <2>3. val[c] = val[d]
    BY <2>2, HeldStored
  <2>4. val[c] # NoVal /\ val[d] # NoVal
    BY DEF Owned, Sure
  <2> QED
    BY <2>3, <2>4 DEF Owned
<1> QED
  BY <1>1, TypeCorrect, OwnedInductive, LeaseInductive, PTL DEF Spec

\* While a client is sure of the lock, that is as long as the validity time
\* lasts less what it overstates, a majority of the servers stores its value.
THEOREM LocksLast == Spec => []SureByQuorum
<1>1. TypeOK /\ LeaseInv => SureByQuorum
  <2> SUFFICES ASSUME TypeOK, LeaseInv, NEW c \in Clients, Sure(c)
               PROVE  Cardinality({s \in Servers : stored[s] = val[c]}) >= Quorum
    BY DEF SureByQuorum
  <2> DEFINE S == {s \in Servers : stored[s] = val[c]}
  <2>1. got[c] \subseteq S /\ Cardinality(got[c]) >= Quorum
    BY HeldStored
  <2>2. IsFiniteSet(S)
    BY ServersFinite, FS_Subset
  <2>3. IsFiniteSet(got[c]) /\ Cardinality(got[c]) <= Cardinality(S)
    BY <2>1, <2>2, FS_Subset
  <2>4. Cardinality(got[c]) \in Nat /\ Cardinality(S) \in Nat /\ Quorum \in Nat
    BY <2>2, <2>3, FS_CardinalityType, RedLockAssumption DEF Quorum
  <2> QED
    BY <2>1, <2>3, <2>4
<1> QED
  BY <1>1, TypeCorrect, OwnedInductive, LeaseInductive, PTL DEF Spec

----------------------------------------------------------------------------
\* A step changes a key only if it expires, or if a client whose loop counter
\* moves sets it or deletes its own value.
LEMMA KeyChanges ==
    ASSUME TypeOK, Owned, [Next]_vars, NEW s \in Servers, stored'[s] # stored[s],
           stored[s] # NoVal
    PROVE  \/ now + Skew >= expiry[s]
           \/ \E c \in Clients : stored[s][1] = c /\ i'[c] # i[c]
<1> USE DEF TypeOK
<1>1. CASE \E r \in Servers : Expire(r)
  BY <1>1 DEF Expire
<1>2. CASE Tick \/ UNCHANGED vars
  BY <1>2 DEF Tick, vars
<1>3. ASSUME NEW c \in Clients, LockInstance(c) \/ LockInstanceFails(c)
      PROVE  stored[s][1] = c /\ i'[c] # i[c]
  <2>1. i[c] \in Servers /\ SetOnServer(c, i[c]) /\ i'[c] = i[c] + 1
    BY <1>3 DEF LockInstance, LockInstanceFails
  <2>2. s = i[c] /\ stored[s] = contVal[c]
    BY <2>1 DEF SetOnServer, Grants
  <2>3. i'[c] # i[c]
    BY <2>1 DEF Servers
  <2> QED
    BY <2>2, <2>3 DEF Owned
<1>4. ASSUME NEW c \in Clients, UnlockInstance(c) \/ UnlockInstanceFails(c)
      PROVE  stored[s][1] = c /\ i'[c] # i[c]
  <2>1. i[c] \in Servers /\ DeleteOnServer(c, i[c])
    BY <1>4 DEF UnlockInstance, UnlockInstanceFails
  <2>2. stored[s] = val[c]
    BY <2>1 DEF DeleteOnServer
  <2>3. i'[c] = i[c] + 1 \/ i'[c] = N + 1
    BY <1>4 DEF UnlockInstance, UnlockInstanceFails
  <2>4. i'[c] # i[c]
    BY <2>1, <2>3, RedLockAssumption DEF Servers
  <2> QED
    BY <2>2, <2>4 DEF Owned
<1>5. ASSUME NEW c \in Clients, ClientStep(c)
      PROVE  \/ LockInstance(c) \/ LockInstanceFails(c)
             \/ UnlockInstance(c) \/ UnlockInstanceFails(c)
  BY <1>5 DEF ClientStep, Lock, Acquired, Refused, LoopDone, Unlock, Retry, Return, Die
<1> QED
  BY <1>1, <1>2, <1>3, <1>4, <1>5 DEF Next

\* No lease that has not run out is taken away by another process.
THEOREM NoTheft == Spec => NoForeignRelease
<1>1. TypeOK /\ Owned /\ [Next]_vars =>
        [\A s \in Servers :
           /\ stored[s] # NoVal /\ stored'[s] # stored[s]
           /\ now + Skew < expiry[s]
           => \E c \in Clients : /\ stored[s][1] = c
                                 /\ i'[c] # i[c]]_vars
  <2> SUFFICES ASSUME TypeOK, Owned, [Next]_vars, NEW s \in Servers,
                      stored[s] # NoVal, stored'[s] # stored[s],
                      now + Skew < expiry[s]
               PROVE  \E c \in Clients : stored[s][1] = c /\ i'[c] # i[c]
    OBVIOUS
  <2>1. ~(now + Skew >= expiry[s])
    BY RedLockAssumption DEF TypeOK
  <2> QED
    BY <2>1, KeyChanges
<1> QED
  BY <1>1, TypeCorrect, OwnedInductive, PTL DEF Spec, NoForeignRelease

----------------------------------------------------------------------------
\* Where a client that talks to a server may still have a value there: the one
\* of its call, on the servers it has asked or has not yet released; and while
\* it extends a lock, the one to replace, on those it has not yet asked.
Accounted(c, s) ==
    \/ pc[c] = "dead"
    \/ pc[c] \in {"lock", "held"} /\ stored[s] = val[c]
    \/ pc[c] = "lock" /\ stored[s] = contVal[c] /\ c \in ContinueClients /\ i[c] <= s
    \/ pc[c] \in {"undo", "release"} /\ stored[s] = val[c] /\ i[c] <= s

Remains(c, s) == stored[s] # NoVal /\ stored[s][1] = c /\ s \notin broken[c]

LeftInv ==
    \A c \in Clients \ ManagedClients :
        /\ \A s \in Servers : Remains(c, s) => Accounted(c, s)
        /\ pc[c] = "held" /\ c \in ContinueClients => contVal[c] = val[c]

\* Server by server: what remains there after a step was there before, or is
\* the value of the client that makes the step.
LEMMA KeyAfter ==
    ASSUME TypeOK, [Next]_vars, NEW s \in Servers
    PROVE  \/ stored'[s] = stored[s]
           \/ stored'[s] = NoVal
           \/ \E c \in Clients :
                  /\ LockInstance(c) \/ LockInstanceFails(c)
                  /\ s = i[c] /\ stored'[s] = val[c]
<1> USE DEF TypeOK
<1>1. CASE (\E r \in Servers : Expire(r)) \/ Tick \/ UNCHANGED vars
  BY <1>1 DEF Expire, Tick, vars
<1>2. ASSUME NEW c \in Clients, LockInstance(c) \/ LockInstanceFails(c)
      PROVE  stored'[s] = stored[s] \/ (s = i[c] /\ stored'[s] = val[c])
  BY <1>2 DEF LockInstance, LockInstanceFails, SetOnServer
<1>3. ASSUME NEW c \in Clients, UnlockInstance(c) \/ UnlockInstanceFails(c)
      PROVE  stored'[s] = stored[s] \/ stored'[s] = NoVal
  BY <1>3 DEF UnlockInstance, UnlockInstanceFails, DeleteOnServer
<1>4. ASSUME NEW c \in Clients, ClientStep(c)
      PROVE  \/ LockInstance(c) \/ LockInstanceFails(c)
             \/ UnlockInstance(c) \/ UnlockInstanceFails(c)
             \/ stored' = stored
  BY <1>4 DEF ClientStep, Lock, Acquired, Refused, Unlock, Retry, Return, Die
<1> QED
  BY <1>1, <1>2, <1>3, <1>4 DEF Next

\* A step of another client or of the environment.
LEMMA LeftForeign ==
    ASSUME TypeOK, Owned, LeftInv, [Next]_vars,
           NEW c \in Clients \ ManagedClients, ~ClientStep(c)
    PROVE  /\ \A s \in Servers : Remains(c, s)' => Accounted(c, s)'
           /\ (pc[c] = "held" /\ c \in ContinueClients => contVal[c] = val[c])'
<1> USE DEF TypeOK
<1>1. /\ pc'[c] = pc[c] /\ val'[c] = val[c] /\ contVal'[c] = contVal[c]
      /\ i'[c] = i[c] /\ broken'[c] = broken[c]
  <2>1. ASSUME NEW d \in Clients, d # c, ClientStep(d)
        PROVE  /\ pc'[c] = pc[c] /\ val'[c] = val[c] /\ contVal'[c] = contVal[c]
               /\ i'[c] = i[c] /\ broken'[c] = broken[c]
    BY <2>1 DEF ClientStep, Lock, StartAttempt, LockInstance, LockInstanceFails,
         Acquired, Refused, LoopDone, Unlock, StartUnlock, UnlockInstance,
         UnlockInstanceFails, Broken, Retry, Return, Die, Forget
  <2>2. CASE (\E s \in Servers : Expire(s)) \/ Tick \/ UNCHANGED vars
    BY <2>2 DEF Expire, Tick, vars, client
  <2> QED
    BY <2>1, <2>2 DEF Next
<1>2. ASSUME NEW s \in Servers, Remains(c, s)'
      PROVE  stored'[s] = stored[s] /\ Remains(c, s)
  <2>1. ASSUME NEW d \in Clients, stored'[s] = val[d],
               LockInstance(d) \/ LockInstanceFails(d)
        PROVE  FALSE
    BY <1>2, <2>1 DEF Remains, Owned, ClientStep
  <2> QED
    BY <1>1, <1>2, <2>1, KeyAfter DEF Remains
<1>3. ASSUME NEW s \in Servers, Remains(c, s)' PROVE Accounted(c, s)'
  BY <1>1, <1>2, <1>3 DEF LeftInv, Accounted
<1> QED
  BY <1>1, <1>3 DEF LeftInv

\* The client's own steps.
LEMMA LeftOwn ==
    ASSUME TypeOK, Owned, LeftInv, [Next]_vars,
           NEW c \in Clients \ ManagedClients, ClientStep(c)
    PROVE  /\ \A s \in Servers : Remains(c, s)' => Accounted(c, s)'
           /\ (pc[c] = "held" /\ c \in ContinueClients => contVal[c] = val[c])'
<1> USE DEF TypeOK
<1>0. /\ c \in Clients /\ c \notin ManagedClients
      /\ \A s \in Servers : Remains(c, s) => Accounted(c, s)
      /\ pc[c] = "held" /\ c \in ContinueClients => contVal[c] = val[c]
      /\ pc[c] \in {"lock", "held", "undo", "release"} => val[c] # NoVal /\ val[c][1] = c
  BY DEF LeftInv, Owned
<1>1. CASE Lock(c)
  <2>1. ASSUME NEW s \in Servers, Remains(c, s)' PROVE Accounted(c, s)'
    <3>1. Remains(c, s) /\ stored' = stored
      BY <1>0, <1>1, <2>1 DEF Lock, Remains
    <3>2. pc[c] = "held" /\ c \in ContinueClients /\ stored[s] = val[c]
      BY <1>0, <1>1, <3>1 DEF Lock, Accounted
    <3>3. stored[s] = contVal[c] /\ contVal[c] # NoVal
      BY <1>0, <3>1, <3>2 DEF Remains
    <3>4. contVal'[c] = contVal[c] /\ i'[c] = 1 /\ pc'[c] = "lock"
      BY <1>0, <1>1, <3>3 DEF Lock, StartAttempt
    <3> QED
      BY <3>1, <3>2, <3>3, <3>4 DEF Accounted, Servers
  <2>2. pc'[c] # "held"
    BY <1>0, <1>1 DEF Lock
  <2> QED
    BY <2>1, <2>2
<1>2. CASE LockInstance(c)
  <2>0. /\ pc[c] = "lock" /\ pc' = pc /\ val' = val /\ contVal' = contVal
        /\ i[c] \in Servers /\ i'[c] = i[c] + 1 /\ broken' = broken
        /\ SetOnServer(c, i[c])
    BY <1>0, <1>2 DEF LockInstance
  <2>1. ASSUME NEW s \in Servers, Remains(c, s)' PROVE Accounted(c, s)'
    <3>1. CASE s = i[c]
      <4>1. CASE Grants(c, s)
        BY <2>0, <3>1, <4>1, <1>0 DEF SetOnServer, Accounted
      <4>2. CASE ~Grants(c, s)
        <5>1. stored' = stored /\ Remains(c, s)
          BY <2>0, <2>1, <3>1, <4>2 DEF SetOnServer, Remains
        <5>2. stored[s] = val[c]
          BY <1>0, <2>0, <4>2, <5>1 DEF Accounted, Grants
        <5> QED
          BY <2>0, <5>1, <5>2 DEF Accounted
      <4> QED
        BY <4>1, <4>2
    <3>2. CASE s # i[c]
      <4>1. stored'[s] = stored[s] /\ Remains(c, s)
        BY <2>0, <2>1, <3>2 DEF SetOnServer, Remains
      <4>2. i[c] <= s => i'[c] <= s
        BY <2>0, <3>2 DEF Servers
      <4> QED
        BY <1>0, <2>0, <4>1, <4>2 DEF Accounted
    <3> QED
      BY <3>1, <3>2
  <2> QED
    BY <2>0, <2>1
<1>3. CASE LockInstanceFails(c)
  <2>0. /\ pc[c] = "lock" /\ pc' = pc /\ val' = val /\ contVal' = contVal
        /\ i[c] \in Servers /\ i'[c] = i[c] + 1
        /\ broken'[c] = broken[c] \cup {i[c]}
        /\ stored' = stored \/ SetOnServer(c, i[c])
    BY <1>0, <1>3 DEF LockInstanceFails, Broken
  <2>1. ASSUME NEW s \in Servers, Remains(c, s)' PROVE Accounted(c, s)'
    <3>1. s # i[c]
      BY <2>0, <2>1 DEF Remains
    <3>2. stored'[s] = stored[s] /\ Remains(c, s)
      BY <2>0, <2>1, <3>1 DEF SetOnServer, Remains
    <3>3. i[c] <= s => i'[c] <= s
      BY <2>0, <3>1 DEF Servers
    <3> QED
      BY <1>0, <2>0, <3>2, <3>3 DEF Accounted
  <2> QED
    BY <2>0, <2>1
<1>4. CASE Acquired(c) \/ Refused(c)
  <2>0. /\ pc[c] = "lock" /\ pc'[c] \in {"held", "undo"} /\ val' = val
        /\ i[c] = N + 1 /\ i'[c] = 1 /\ stored' = stored /\ broken' = broken
        /\ c \in ContinueClients => contVal'[c] = val[c]
    BY <1>0, <1>4 DEF Acquired, Refused, LoopDone, StartUnlock
  <2>1. ASSUME NEW s \in Servers, Remains(c, s)' PROVE Accounted(c, s)'
    <3>1. Remains(c, s)
      BY <2>0, <2>1 DEF Remains
    <3>2. ~(i[c] <= s)
      BY <2>0, RedLockAssumption DEF Servers
    <3>3. stored[s] = val[c]
      BY <1>0, <2>0, <3>1, <3>2 DEF Accounted
    <3> QED
      BY <2>0, <3>3 DEF Accounted, Servers
  <2> QED
    BY <2>0, <2>1
<1>5. CASE Unlock(c)
  <2>0. /\ pc[c] = "held" /\ pc'[c] = "release" /\ val' = val
        /\ i'[c] = 1 /\ stored' = stored /\ broken' = broken
    BY <1>0, <1>5 DEF Unlock, StartUnlock
  <2>1. ASSUME NEW s \in Servers, Remains(c, s)' PROVE Accounted(c, s)'
    BY <1>0, <2>0, <2>1 DEF Accounted, Remains, Servers
  <2> QED
    BY <2>0, <2>1
<1>6. CASE UnlockInstance(c) \/ UnlockInstanceFails(c)
  <2>0. /\ pc[c] \in {"undo", "release"} /\ pc' = pc /\ val' = val
        /\ i[c] \in Servers /\ i'[c] = i[c] + 1
        /\ broken[c] \subseteq broken'[c]
        /\ \/ DeleteOnServer(c, i[c])
           \/ stored' = stored /\ i[c] \in broken'[c]
    BY <1>0, <1>6 DEF UnlockInstance, UnlockInstanceFails, Broken
  <2>1. ASSUME NEW s \in Servers, Remains(c, s)' PROVE Accounted(c, s)'
    <3>1. stored'[s] = stored[s] /\ Remains(c, s)
      BY <2>0, <2>1 DEF DeleteOnServer, Remains
    <3>2. stored[s] = val[c] /\ i[c] <= s
      BY <1>0, <2>0, <3>1 DEF Accounted
    <3>3. s # i[c]
      BY <2>0, <2>1, <3>1, <3>2 DEF DeleteOnServer, Remains
    <3>4. i'[c] <= s
      BY <2>0, <3>2, <3>3 DEF Servers
    <3> QED
      BY <2>0, <3>1, <3>2, <3>4 DEF Accounted
  <2> QED
    BY <2>0, <2>1
<1>7. CASE Retry(c) \/ Return(c)
  <2>0. /\ pc[c] \in {"undo", "release"} /\ pc'[c] \in {"lock", "idle"}
        /\ i[c] = N + 1 /\ stored' = stored /\ broken' = broken
    BY <1>0, <1>7 DEF Retry, Return
  <2>1. ASSUME NEW s \in Servers, Remains(c, s)' PROVE FALSE
    <3>1. Remains(c, s)
      BY <2>0, <2>1 DEF Remains
    <3>2. ~(i[c] <= s)
      BY <2>0, RedLockAssumption DEF Servers
    <3> QED
      BY <1>0, <2>0, <3>1, <3>2 DEF Accounted
  <2> QED
    BY <2>0, <2>1
<1>8. CASE Die(c)
  BY <1>0, <1>8 DEF Die, Accounted
<1> QED
  BY <1>1, <1>2, <1>3, <1>4, <1>5, <1>6, <1>7, <1>8 DEF ClientStep

\* CRedLock leaves nothing behind on a server it can talk to.
THEOREM NothingLeft == Spec => []NoLeftovers
<1>1. Init => LeftInv
  BY DEF Init, LeftInv, Remains
<1>2. TypeOK /\ Owned /\ LeftInv /\ [Next]_vars => LeftInv'
  BY LeftForeign, LeftOwn DEF LeftInv
<1>3. TypeOK /\ LeftInv => NoLeftovers
  BY DEF NoLeftovers, LeftInv, Remains, Accounted
<1> QED
  BY <1>1, <1>2, <1>3, TypeCorrect, OwnedInductive, PTL DEF Spec
=============================================================================
