---------------------------- MODULE ConnectionPool ----------------------------
(***************************************************************************)
(* The connections to Redis that the requests of one IIS worker process    *)
(* share (src/COM/simple_pool.cpp). Every request makes simple_pool objects *)
(* of its own; the vector of connections, its mutex and the timer are      *)
(* static and belong to all. Host, password and database are left out.     *)
(*                                                                         *)
(* A thread that get() starts when there is no timer erases what nobody    *)
(* has taken for 20 seconds:                                               *)
(*                                                                         *)
(*   none -get-> new -> checked -> rearm -> wait -> scan [-> erased] -> .. *)
(*                                                                         *)
(* where scan and erased are inside the mutex. Time is not modelled: any   *)
(* connection may get old at any time, and a timer set is due at any time. *)
(***************************************************************************)
EXTENDS Naturals, FiniteSets, Sequences, SequencesExt

CONSTANTS
    Users,     \* the requests; each holds one connection at a time
    Conns,     \* connections that may be open at the same time
    NoConn,    \* the null pointer
    Threads,   \* timer threads that may run at the same time
    Faults     \* which of "connect" (to a server) and "timer" (creation) may fail

ASSUME PoolAssumption ==
    /\ IsFiniteSet(Users)
    /\ NoConn \notin Conns
    /\ Faults \subseteq {"connect", "timer"}

VARIABLES
    connections,   \* the vector connections
    expired,       \* history of time: connections last taken over 20 seconds ago
    user,          \* user[u]: how far a request is with its get and put
    held,          \* held[u]: the connection of u, or NoConn
    timer,         \* _timer is not null
    thread         \* thread[t]: how far a timer thread is

vars == <<connections, expired, user, held, timer, thread>>

Pooled == Range(connections)
Held == {held[u] : u \in Users} \ {NoConn}

Init ==
    /\ connections = <<>>
    /\ expired = {}
    /\ user = [u \in Users |-> "idle"]
    /\ held = [u \in Users |-> NoConn]
    /\ timer = FALSE
    /\ thread = [t \in Threads |-> "none"]

\* _access_mutex is free.
Unlocked == \A t \in Threads : thread[t] \notin {"scan", "erased"}

-----------------------------------------------------------------------------
(* simple_pool::get *)

\* Mutated form of AnyPooled: an off-by-one in the test of the size.
AnyPooledButOne(s) == Len(s) > 1

\* get finds a connection in the vector.
AnyPooled(s) == Len(s) > 0

\* Mutated form of Popped: the connection taken stays in the vector.
PoppedNone(s) == s

\* Mutated form of Popped: one connection too many is popped.
PoppedTwo(s) == IF Len(s) = 1 THEN <<>> ELSE SubSeq(s, 1, Len(s) - 2)

Popped(s) == SubSeq(s, 1, Len(s) - 1)

\* get starts a timer thread.
NeedsTimer == ~timer

\* Get, inside the mutex: the connection put last is taken and its time
\* renewed; without a timer a thread is started to make one.
Take(u) ==
    /\ user[u] = "idle"
    /\ Unlocked
    /\ IF AnyPooled(connections)
       THEN LET c == connections[Len(connections)]
            IN /\ held' = [held EXCEPT ![u] = c]
               /\ connections' = Popped(connections)
               /\ expired' = expired \ {c}
               /\ user' = [user EXCEPT ![u] = "holds"]
       ELSE /\ user' = [user EXCEPT ![u] = "creates"]
            /\ UNCHANGED <<held, connections, expired>>
    /\ IF NeedsTimer
       THEN \E t \in Threads :
               /\ thread[t] = "none"
               /\ thread' = [thread EXCEPT ![t] = "new"]
       ELSE UNCHANGED thread
    /\ UNCHANGED timer

\* Get, outside the mutex: connect, AUTH and SELECT.
Create(u) ==
    /\ user[u] = "creates"
    /\ \E c \in Conns \ (Pooled \cup Held) :
          held' = [held EXCEPT ![u] = c]
    /\ user' = [user EXCEPT ![u] = "holds"]
    /\ UNCHANGED <<connections, expired, timer, thread>>

\* No server, or AUTH fails: get returns null and the caller gives up.
CreateFails(u) ==
    /\ "connect" \in Faults
    /\ user[u] = "creates"
    /\ user' = [user EXCEPT ![u] = "idle"]
    /\ UNCHANGED <<connections, expired, held, timer, thread>>

-----------------------------------------------------------------------------
(* simple_pool::put *)

\* A valid connection goes to the end of the vector, with the time at which
\* it was taken.
Put(u) ==
    /\ user[u] = "holds"
    /\ Unlocked
    /\ connections' = Append(connections, held[u])
    /\ held' = [held EXCEPT ![u] = NoConn]
    /\ user' = [user EXCEPT ![u] = "idle"]
    /\ UNCHANGED <<expired, timer, thread>>

\* A connection in error is closed with its last reference, as is one whose
\* user met an exception or wants no pooling and does not put it.
Drop(u) ==
    /\ user[u] = "holds"
    /\ expired' = expired \ {held[u]}
    /\ held' = [held EXCEPT ![u] = NoConn]
    /\ user' = [user EXCEPT ![u] = "idle"]
    /\ UNCHANGED <<connections, timer, thread>>

-----------------------------------------------------------------------------
(* TimerThread and TimerAPCProc *)

Step(t, from, to) ==
    /\ thread[t] = from
    /\ thread' = [thread EXCEPT ![t] = to]

\* The test of _timer, outside the mutex.
CheckTimer(t) ==
    /\ Step(t, "new", IF timer THEN "none" ELSE "checked")
    /\ UNCHANGED <<connections, expired, user, held, timer>>

\* The waitable timer cannot be created.
TimerFails(t) ==
    /\ "timer" \in Faults
    /\ Step(t, "new", "none")
    /\ UNCHANGED <<connections, expired, user, held, timer>>

SetTimer(t) ==
    /\ Step(t, "checked", "rearm")
    /\ timer' = TRUE
    /\ UNCHANGED <<connections, expired, user, held>>

\* SetWaitableTimer and WaitForSingleObject, which fails on a null handle.
Rearm(t) ==
    /\ Step(t, "rearm", IF timer THEN "wait" ELSE "none")
    /\ UNCHANGED <<connections, expired, user, held, timer>>

\* The timer is due, and the thread enters the mutex.
Wake(t) ==
    /\ Unlocked
    /\ Step(t, "wait", "scan")
    /\ UNCHANGED <<connections, expired, user, held, timer>>

Old == {i \in DOMAIN connections : connections[i] \in expired}

\* The first expired connection is erased; its destructor closes it.
Erase(t) ==
    /\ thread[t] \in {"scan", "erased"}
    /\ \E i \in Old :
          /\ \A j \in Old : i <= j
          /\ connections' = RemoveAt(connections, i)
          /\ expired' = expired \ {connections[i]}
    /\ thread' = [thread EXCEPT ![t] = "erased"]
    /\ UNCHANGED <<user, held, timer>>

\* TimerAPCProc gives up the timer.
LastErased(t) == thread[t] = "erased" /\ connections = <<>> /\ timer

\* Mutated form of TimerLeft: the handle is closed and not set to null.
TimerLeftOpen(t) == timer

\* _timer when TimerAPCProc returns
TimerLeft(t) == timer /\ ~LastErased(t)

\* Mutated form of NextWait: the thread watches for one period only.
NextWaitNever(t) == "none"

NextWait(t) == IF LastErased(t) THEN "none" ELSE "rearm"

\* Nothing (more) is expired: TimerAPCProc leaves the mutex.
Leave(t) ==
    /\ thread[t] \in {"scan", "erased"}
    /\ Old = {}
    /\ timer' = TimerLeft(t)
    /\ thread' = [thread EXCEPT ![t] = NextWait(t)]
    /\ UNCHANGED <<connections, expired, user, held>>

-----------------------------------------------------------------------------
\* 20 seconds pass since a connection was taken.
Age ==
    \E c \in (Pooled \cup Held) \ expired :
       /\ expired' = expired \cup {c}
       /\ UNCHANGED <<connections, user, held, timer, thread>>

Request(u) == Take(u) \/ Create(u) \/ CreateFails(u) \/ Put(u) \/ Drop(u)

TimerThread(t) ==
    \/ CheckTimer(t) \/ TimerFails(t) \/ SetTimer(t) \/ Rearm(t)
    \/ Wake(t) \/ Erase(t) \/ Leave(t)

Next ==
    \/ \E u \in Users : Request(u)
    \/ \E t \in Threads : TimerThread(t)
    \/ Age

Spec == Init /\ [][Next]_vars

\* The scheduler runs the timer threads, and their timers come due.
FairSpec == Spec /\ \A t \in Threads : WF_vars(TimerThread(t))

-----------------------------------------------------------------------------
(* Properties *)

TypeOK ==
    /\ connections \in Seq(Conns)
    /\ expired \subseteq Pooled \cup Held
    /\ user \in [Users -> {"idle", "creates", "holds"}]
    /\ held \in [Users -> Conns \cup {NoConn}]
    /\ \A u \in Users : user[u] = "holds" <=> held[u] # NoConn
    /\ timer \in BOOLEAN
    /\ thread \in [Threads -> {"none", "new", "checked", "rearm", "wait", "scan", "erased"}]

\* Two requests never talk over one connection: what one holds is neither in
\* the pool nor held by another, and nothing is in the pool twice.
NoSharing ==
    /\ \A u, v \in Users : held[u] = held[v] /\ held[u] # NoConn => u = v
    /\ Pooled \cap Held = {}
    /\ IsInjective(connections)

Busy == {u \in Users : user[u] # "idle"}

\* There are never more connections, open or being opened, than there are
\* requests, although a request looks into the pool before it creates one.
PoolBounded == Len(connections) + Cardinality(Busy) <= Cardinality(Users)

\* While there is a timer there is a thread that waits for it: get, which
\* starts no thread then, can rely on it.
TimerHasThread ==
    timer => \E t \in Threads : thread[t] \in {"rearm", "wait", "scan", "erased"}

\* A connection that got old in the pool under a timer is erased or taken.
WatchedAreErased ==
    \A c \in Conns : timer /\ c \in Pooled \cap expired ~> c \notin Pooled \cap expired
=============================================================================
