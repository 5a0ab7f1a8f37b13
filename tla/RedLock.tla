------------------------------ MODULE RedLock ------------------------------
(***************************************************************************)
(* The distributed lock: CRedLock of the COM library and Redlock of the    *)
(* managed library, which lock one resource on the same N Redis servers    *)
(* with the same commands.  A call walks over the servers one by one; each *)
(* command is one step, so that calls of several processes interleave,     *)
(* replies get lost and leases expire between any two of them.             *)
(*                                                                         *)
(* Time is counted in milliseconds and jumps from one of the Moments to    *)
(* any later one.  The clock of CRedLock is time(NULL) * 1000, which       *)
(* stands still for a Second (the product overflows an int, but only the   *)
(* difference of two readings is used and there the overflow cancels); the *)
(* managed one is DateTime.Now, which is finer.  The clock of a server may *)
(* run ahead: a lease may vanish up to Skew milliseconds early.            *)
(***************************************************************************)
EXTENDS Integers, FiniteSets

CONSTANTS
    Clients,         \* processes with a lock object of their own
    ManagedClients,  \* those that use the managed library
    ContinueClients, \* those of the others that call ContinueLock for Lock
    N,               \* m_redisServer.size()
    TTL,             \* the ttl the callers pass
    NowGrain,        \* granularity of DateTime.Now
    Skew,            \* how much earlier than promised a server may expire
    Retries,         \* m_retryCount, DefaultRetryCount
    MaxCalls,        \* bounds on the calls of each client
    Moments,         \* the times at which something happens
    MaxLost,         \* bound on the commands and replies lost
    NoVal            \* no value stored

Servers == 1..N
\* GetUniqueLockId: random, never repeated.
Vals == Clients \X (Nat \ {0})

ASSUME RedLockAssumption ==
    /\ ManagedClients \subseteq Clients
    /\ ContinueClients \subseteq Clients \ ManagedClients
    /\ N \in Nat \ {0}
    /\ TTL \in Nat /\ NowGrain \in Nat \ {0} /\ Skew \in Nat
    /\ Retries \in Nat \ {0} /\ MaxCalls \in [Clients -> Nat]
    /\ Moments \subseteq Nat /\ 0 \in Moments
    /\ MaxLost \in Nat
    /\ NoVal \notin Vals

VARIABLES
    now,         \* real time
    stored,      \* [Servers -> value of the resource's key or NoVal]
    expiry,      \* [Servers -> when that value expires]
    pc,          \* where the client is
    val,         \* lock.m_val
    contVal,     \* m_continueLock.m_val
    startTime,   \* startTime of the current attempt
    i,           \* loop counter over the servers
    got,         \* servers that answered OK in this attempt (n counts them)
    retryCount,  \* attempts left
    validUntil,  \* return of the call + m_validityTime
    calls,       \* calls made so far
    broken,      \* connections with an error: hiredis never reopens them
    lost         \* commands and replies lost so far

client == <<pc, val, contVal, startTime, i, got, retryCount, validUntil,
            calls, broken, lost>>
vars == <<now, stored, expiry, pc, val, contVal, startTime, i, got,
          retryCount, validUntil, calls, broken, lost>>

TypeOK ==
    /\ now \in Moments
    /\ stored \in [Servers -> Vals \cup {NoVal}]
    /\ expiry \in [Servers -> Nat]
    /\ pc \in [Clients -> {"idle", "lock", "held", "undo", "release", "dead"}]
    /\ val \in [Clients -> Vals \cup {NoVal}]
    /\ contVal \in [Clients -> Vals \cup {NoVal}]
    /\ startTime \in [Clients -> Int]
    /\ i \in [Clients -> 1..N + 1]
    /\ got \in [Clients -> SUBSET Servers]
    /\ retryCount \in [Clients -> 0..Retries]
    /\ validUntil \in [Clients -> Int]
    /\ calls \in [Clients -> Nat]
    /\ broken \in [Clients -> SUBSET Servers]
    /\ lost \in 0..MaxLost

\* AddServerUrl keeps a connection that could not be made: it counts for the
\* quorum, and is here one whose first command is lost.
Init ==
    /\ now = 0
    /\ stored = [s \in Servers |-> NoVal]
    /\ expiry = [s \in Servers |-> 0]
    /\ pc = [c \in Clients |-> "idle"]
    /\ val = [c \in Clients |-> NoVal]
    /\ contVal = [c \in Clients |-> NoVal]
    /\ startTime = [c \in Clients |-> 0]
    /\ i = [c \in Clients |-> 1]
    /\ got = [c \in Clients |-> {}]
    /\ retryCount = [c \in Clients |-> 0]
    /\ validUntil = [c \in Clients |-> 0]
    /\ calls = [c \in Clients |-> 0]
    /\ broken = [c \in Clients |-> {}]
    /\ lost = 0

----------------------------------------------------------------------------
\* time(NULL) counts seconds.
Second == 1000

Grain(c) == IF c \in ManagedClients THEN NowGrain ELSE Second

\* The clock the client reads.
Clock(c) == now - (now % Grain(c))

\* ttl * m_clockDriftFactor + 2
Drift == TTL \div 100 + 2

\* Mutated form of Quorum: half of the servers are enough.
QuorumHalf == N \div 2

Quorum == (N \div 2) + 1

\* Mutated form of Validity: the time the loop took is not taken off.
ValidityFromNow(c) == TTL - Drift

\* ttl - (now - startTime) - drift
Validity(c) == TTL - (Clock(c) - startTime[c]) - Drift

\* Mutated form of StartAttempt: the loop starts before the first server.
StartAttemptEarly(c) ==
    /\ startTime' = [startTime EXCEPT ![c] = Clock(c)]
    /\ i' = [i EXCEPT ![c] = 0]
    /\ got' = [got EXCEPT ![c] = {}]

\* The head of the do loop: n = 0, startTime = now, i = 0; and its locals
\* when they are no longer read.
StartAttempt(c) ==
    /\ startTime' = [startTime EXCEPT ![c] = Clock(c)]
    /\ i' = [i EXCEPT ![c] = 1]
    /\ got' = [got EXCEPT ![c] = {}]

\* Mutated form of StartUnlock: what was locked is left locked.
StartUnlockSkips(c) ==
    /\ startTime' = [startTime EXCEPT ![c] = 0]
    /\ i' = [i EXCEPT ![c] = N + 1]
    /\ got' = [got EXCEPT ![c] = {}]

StartUnlock(c) ==
    /\ startTime' = [startTime EXCEPT ![c] = 0]
    /\ i' = [i EXCEPT ![c] = 1]
    /\ got' = [got EXCEPT ![c] = {}]

\* Lock and ContinueLock up to the loop.  ContinueLock is also called to
\* extend the lock that the client holds.  Its first call remembers its own
\* new value as the one to replace.
Lock(c) ==
    /\ pc[c] = "idle" \/ (pc[c] = "held" /\ c \in ContinueClients)
    /\ calls[c] < MaxCalls[c]
    /\ calls' = [calls EXCEPT ![c] = @ + 1]
    /\ val' = [val EXCEPT ![c] = <<c, calls[c] + 1>>]
    /\ contVal' = IF c \in ContinueClients /\ contVal[c] = NoVal
                  THEN [contVal EXCEPT ![c] = <<c, calls[c] + 1>>]
                  ELSE contVal
    /\ pc' = [pc EXCEPT ![c] = "lock"]
    /\ retryCount' = [retryCount EXCEPT ![c] = Retries]
    /\ validUntil' = [validUntil EXCEPT ![c] = 0]
    /\ StartAttempt(c)
    /\ UNCHANGED <<now, stored, expiry, broken, lost>>

\* What a server does with LockInstance's "SET .. PX .. NX", or with the
\* script of ContinueLockInstance, which first deletes the value to replace.
Grants(c, s) ==
    \/ stored[s] = NoVal
    \/ c \in ContinueClients /\ stored[s] = contVal[c]

SetOnServer(c, s) ==
    IF Grants(c, s)
    THEN /\ stored' = [stored EXCEPT ![s] = val[c]]
         /\ expiry' = [expiry EXCEPT ![s] = now + TTL]
    ELSE UNCHANGED <<stored, expiry>>

\* Mutated form of DeleteOnServer: deletes without comparing.
DeleteAny(c, s) ==
    /\ stored' = [stored EXCEPT ![s] = NoVal]
    /\ expiry' = [expiry EXCEPT ![s] = 0]

\* What a server does with the unlock script: compare and delete.
DeleteOnServer(c, s) ==
    IF stored[s] = val[c]
    THEN /\ stored' = [stored EXCEPT ![s] = NoVal]
         /\ expiry' = [expiry EXCEPT ![s] = 0]
    ELSE UNCHANGED <<stored, expiry>>

\* A lost command or reply leaves an error on a hiredis connection, on which
\* redisCommand then returns NULL for ever; the managed multiplexer reconnects.
Broken(c, s) ==
    IF c \in ManagedClients
    THEN /\ lost < MaxLost /\ lost' = lost + 1
         /\ UNCHANGED broken
    ELSE \/ s \in broken[c] /\ UNCHANGED <<broken, lost>>
         \/ /\ s \notin broken[c] /\ lost < MaxLost /\ lost' = lost + 1
            /\ broken' = [broken EXCEPT ![c] = @ \cup {s}]

\* One turn of the loop over the servers, the reply received.
LockInstance(c) ==
    /\ pc[c] = "lock" /\ i[c] \in Servers
    /\ i[c] \notin broken[c]
    /\ SetOnServer(c, i[c])
    /\ got' = [got EXCEPT ![c] = IF Grants(c, i[c]) THEN @ \cup {i[c]} ELSE @]
    /\ i' = [i EXCEPT ![c] = @ + 1]
    /\ UNCHANGED <<now, pc, val, contVal, startTime, retryCount, validUntil,
                   calls, broken, lost>>

\* The turn with no reply: the command may have been executed all the same.
LockInstanceFails(c) ==
    /\ pc[c] = "lock" /\ i[c] \in Servers
    /\ \/ UNCHANGED <<stored, expiry>>
       \/ i[c] \notin broken[c] /\ SetOnServer(c, i[c])
    /\ Broken(c, i[c])
    /\ i' = [i EXCEPT ![c] = @ + 1]
    /\ UNCHANGED <<now, pc, val, contVal, startTime, got, retryCount,
                   validUntil, calls>>

\* After the loop: ContinueLock takes the new value for the one to replace
\* next; the call returns with the lock or undoes the attempt.
LoopDone(c) ==
    /\ pc[c] = "lock" /\ i[c] = N + 1
    /\ contVal' = IF c \in ContinueClients
                  THEN [contVal EXCEPT ![c] = val[c]] ELSE contVal

Acquired(c) ==
    /\ LoopDone(c)
    /\ Cardinality(got[c]) >= Quorum /\ Validity(c) > 0
    /\ pc' = [pc EXCEPT ![c] = "held"]
    /\ validUntil' = [validUntil EXCEPT ![c] = now + Validity(c)]
    /\ startTime' = [startTime EXCEPT ![c] = 0]
    /\ i' = [i EXCEPT ![c] = 1]
    /\ retryCount' = [retryCount EXCEPT ![c] = 0]
    /\ UNCHANGED <<now, stored, expiry, val, got, calls, broken, lost>>

Refused(c) ==
    /\ LoopDone(c)
    /\ ~(Cardinality(got[c]) >= Quorum /\ Validity(c) > 0)
    /\ pc' = [pc EXCEPT ![c] = "undo"]
    /\ StartUnlock(c)
    /\ UNCHANGED <<now, stored, expiry, val, retryCount, validUntil, calls,
                   broken, lost>>

\* The holder calls Unlock, in time or not.
Unlock(c) ==
    /\ pc[c] = "held"
    /\ pc' = [pc EXCEPT ![c] = "release"]
    /\ validUntil' = [validUntil EXCEPT ![c] = 0]
    /\ StartUnlock(c)
    /\ UNCHANGED <<now, stored, expiry, val, contVal, retryCount, calls,
                   broken, lost>>

UnlockInstance(c) ==
    /\ pc[c] \in {"undo", "release"} /\ i[c] \in Servers
    /\ i[c] \notin broken[c]
    /\ DeleteOnServer(c, i[c])
    /\ i' = [i EXCEPT ![c] = @ + 1]
    /\ UNCHANGED <<now, pc, val, contVal, startTime, got, retryCount,
                   validUntil, calls, broken, lost>>

\* The managed UnlockInstance throws: the servers that follow are not asked.
UnlockInstanceFails(c) ==
    /\ pc[c] \in {"undo", "release"} /\ i[c] \in Servers
    /\ \/ UNCHANGED <<stored, expiry>>
       \/ i[c] \notin broken[c] /\ DeleteOnServer(c, i[c])
    /\ Broken(c, i[c])
    /\ i' = [i EXCEPT ![c] = IF c \in ManagedClients THEN N + 1 ELSE @ + 1]
    /\ UNCHANGED <<now, pc, val, contVal, startTime, got, retryCount,
                   validUntil, calls>>

\* The foot of the loop: wait, count, try again or give up.
Retry(c) ==
    /\ pc[c] = "undo" /\ i[c] = N + 1 /\ retryCount[c] > 1
    /\ retryCount' = [retryCount EXCEPT ![c] = @ - 1]
    /\ pc' = [pc EXCEPT ![c] = "lock"]
    /\ StartAttempt(c)
    /\ UNCHANGED <<now, stored, expiry, val, contVal, validUntil, calls, broken, lost>>

Forget(c) ==
    /\ val' = [val EXCEPT ![c] = NoVal]
    /\ startTime' = [startTime EXCEPT ![c] = 0]
    /\ i' = [i EXCEPT ![c] = 1]
    /\ got' = [got EXCEPT ![c] = {}]
    /\ retryCount' = [retryCount EXCEPT ![c] = 0]
    /\ validUntil' = [validUntil EXCEPT ![c] = 0]

Return(c) ==
    /\ i[c] = N + 1
    /\ pc[c] = "release" \/ (pc[c] = "undo" /\ retryCount[c] <= 1)
    /\ pc' = [pc EXCEPT ![c] = "idle"]
    /\ Forget(c)
    /\ UNCHANGED <<now, stored, expiry, contVal, calls, broken, lost>>

----------------------------------------------------------------------------
\* The environment: a process ends without unlocking, a lease runs out (a
\* little early if the clock of the server is ahead), time passes.
Die(c) ==
    /\ pc[c] # "dead"
    /\ pc' = [pc EXCEPT ![c] = "dead"]
    /\ contVal' = [contVal EXCEPT ![c] = NoVal]
    /\ calls' = [calls EXCEPT ![c] = MaxCalls[c]]
    /\ broken' = [broken EXCEPT ![c] = {}]
    /\ Forget(c)
    /\ UNCHANGED <<now, stored, expiry, lost>>

Expire(s) ==
    /\ stored[s] # NoVal
    /\ now + Skew >= expiry[s]
    /\ stored' = [stored EXCEPT ![s] = NoVal]
    /\ expiry' = [expiry EXCEPT ![s] = 0]
    /\ UNCHANGED <<now, client>>

Tick ==
    /\ \E t \in Moments : t > now /\ now' = t
    /\ UNCHANGED <<stored, expiry, client>>

ClientStep(c) ==
    \/ Lock(c) \/ LockInstance(c) \/ LockInstanceFails(c)
    \/ Acquired(c) \/ Refused(c)
    \/ Unlock(c) \/ UnlockInstance(c) \/ UnlockInstanceFails(c)
    \/ Retry(c) \/ Return(c) \/ Die(c)

Next ==
    \/ \E c \in Clients : ClientStep(c)
    \/ \E s \in Servers : Expire(s)
    \/ Tick

Spec == Init /\ [][Next]_vars

----------------------------------------------------------------------------
\* c has the lock as far as it can know: the call returned it and the
\* validity time it returned is not over.
Holds(c) == pc[c] = "held" /\ now < validUntil[c]

\* The time Lock returns is time the lock lives (CRedLock.h, m_validityTime):
\* as long as it lasts, a majority of the servers stores the value of the
\* holder.  CRedLock does not keep this: its clock may show nothing of the
\* time that an attempt has taken.
HeldByQuorum ==
    \A c \in Clients :
        Holds(c) => Cardinality({s \in Servers : stored[s] = val[c]}) >= Quorum

\* How much of a validity time the lock may not live: what the clocks of the
\* client and the servers can be wrong by, less the drift taken off.
Overstated(c) ==
    LET wrong == Skew + (Grain(c) - 1)
    IN  IF wrong > Drift THEN wrong - Drift ELSE 0

\* c has the lock, and the part of the validity time it may rely on lasts.
Sure(c) == pc[c] = "held" /\ now + Overstated(c) < validUntil[c]

\* No two processes are sure of the lock, whatever the servers lose, however
\* the calls interleave and however long they take: the validity time of a
\* lock is too long by what the clocks hide and by no more.
SureExclusive ==
    \A c, d \in Clients : Sure(c) /\ Sure(d) => c = d

\* While a client is sure of the lock, a majority of the servers stores its
\* value, retried, extended and half lost calls included.
SureByQuorum ==
    \A c \in Clients :
        Sure(c) => Cardinality({s \in Servers : stored[s] = val[c]}) >= Quorum

\* No process takes away a lease of another that has not run out: not the
\* late unlock of a client whose lock went to the next one, nor the undo of
\* an attempt that shared the servers with another.
NoForeignRelease ==
    [][\A s \in Servers :
         /\ stored[s] # NoVal /\ stored'[s] # stored[s]
         /\ now + Skew < expiry[s]
         => \E c \in Clients : /\ stored[s][1] = c
                               /\ i'[c] # i[c]]_vars

\* CRedLock leaves nothing behind on a server it can still talk to: when it
\* is not in a call and does not hold the lock, no lease of any of its calls
\* and attempts, extended or not, remains there.
NoLeftovers ==
    \A c \in Clients \ ManagedClients, s \in Servers :
        pc[c] = "idle" /\ stored[s] # NoVal /\ stored[s][1] = c
        => s \in broken[c]
============================================================================
