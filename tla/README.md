# ISP Session: models and proofs

TLA+ models of ISP Session (`egbertn/ispsession.io`): the session and the
application cache that classic ASP, ASP.NET and ASP.NET Core pages share
through Redis. Paths such as `src/COM/Session.cpp` below are relative to the
`src` directory of the repository (and to its root for `setup/` and `docs/`).

## The system

A web farm has many IIS worker processes; a worker process runs many requests
at a time. All state that outlives a request is in Redis. Three servers use the
same records:

| Server | Code | For |
|---|---|---|
| COM server | `src/COM` | classic ASP; `NWCSession` and `CApplication` objects, one per page |
| managed module | `src/CSessionManaged` | ASP.NET; a session state module |
| core middleware | `src/ispsession.io.core` | ASP.NET Core; middleware and store |

### Components

**Classic session** (`Session.cpp`, `Session.h`, `CSessionDL` of `CSessionDL.h`).
State: one Redis key `{appkey}:{guid}` per session with the contents and some
flags (liquid cookie, re-entrance, time-out), the cookie in the browser, and per
request an object with the dictionary, `guid`, `oldGuid` and a dozen flags.
`OnStartPage` (`Initialize`, `dbInit`) reads the record or inserts a new one; the
script calls methods; `OnEndPage` (`PersistSession`) renames, writes, deletes or
touches the record. `Execute` and `Transfer` save before, and load after, another
page runs. Hard: overlapping requests of one browser (frames, AJAX), ids that
rotate while the record keeps its name until the page ends, flags set in any
order, keys that expire at any time, connections and processes that die between
two commands.
*Correct when*: pages one after another see what the page before left, all or
nothing of it; an abandoned session is over; a dead session never comes back; no
browser sees another one's values; the cookie names the record.

**Session dictionary** (`CVariantDictionary`). The contents of one request, with a
dirty and a read-only flag. *Correct when* every change makes it dirty.

**Classic application cache** (`Application.cpp`, `CApplicationDL` of `CSessionDL.h`).
State: a Redis set of the names in use and one string per name; per page a
dictionary whose elements are new, dirty or neither, and the list of removed
names. Loads in three commands (SMEMBERS, MGET, SREM of ghosts), saves in one
transaction. Hard: names that come and go between the three commands, strings
that expire while their names stay in the set, pages that save what others have
removed. *Correct when* a page's edits take effect together, other names are left
alone, a removed name does not come back by itself, set and strings agree.

**Connection pool** (`simple_pool.cpp`). State: a static vector of connections with
its mutex, a static timer handle, timer threads. `get` takes the connection put
last or opens one, and starts a timer thread if there is no timer; `put` gives it
back; a timer thread erases every two seconds what nobody took for 20 seconds
and ends when it has emptied the pool. Hard: the timer is tested and set outside
the mutex. *Correct when* no two requests use one connection, connections do not
accumulate, what is pooled is watched and erased when nobody takes it.

**Distributed lock** (`CRedLock.cpp`, managed `Redlock.cs`). State: on each of N
servers a key with a random value and a lease; per client a lock object with the
value, the time its attempt began and the connections. `Lock` sends SET NX PX to
one server after the other and computes a validity time from the clock, `ContinueLock`
extends, `Unlock` deletes by script what has the client's value. Hard: replies that get
lost, leases that expire while the quorum is being collected, retries, a clock that shows seconds
only. *Correct when* two clients never hold valid locks of one resource at a time, and a call
leaves nothing behind. Nothing calls it yet (`Application.h:10` comments it out).

**Managed session** (`ISPSessionModule.cs`, `ISPSessionIDManager.cs`,
`CSessionDL.cs`) and **core session** (`ISPSession.cs`, `ISPSessionMiddleWare.cs`,
`ISPSessionIDManager.cs`, `CSessionDL.cs`). The same records. The managed module reads
the session when the request acquires its state, writes the cookie before the page
runs, and saves when the request releases the state; the core one chooses the id first,
reads when the page first uses the session, and commits after the page. Hard: an id is
tested by EXISTS and read later, the id is rotated in up to two places of one request,
time-outs of Redis, flags that abandon. *Correct when* they keep the contract of the
classic session and leave no record without an owner.

**Managed and core application cache** (both `ApplicationCache.cs`). The same set and
strings as the classic cache; the commands of a save are sent one by one, past the
transaction that the code creates. *Correct when* they keep the contract of the
classic cache, except for what the missing transaction costs.

**Serialization** (`CVariantDictionary.cpp`, `CStream.cpp`, `StreamManager.cs`,
`PersistUtil.cs`). State: the stream of a session, and per page which objects are still
streams. Hard: three writers and three readers of one format in any order, each of which
writes again what another one wrote; arrays whose elements are walked in two orders;
objects that are read only when a script asks for them. *Correct when* what one server
writes another one reads back.

**The rest**: parsing of configuration, logging, cookie formatting, strings, COM
registration, `SessionPing`, the unused redis3m pools, vendored Redis and hiredis,
demos, installers. `PROJECT.json` lists every component and its status.

### How they interact

A page's session and application objects each own a `simple_pool` object and go
through it for every command; the pool objects of a process share one vector.
Redis commands are atomic and serialised by the server; MULTI/EXEC makes one step
of several commands. Redis expires keys by itself. The browser sends the cookie it
holds when a request begins and takes a new one when the response arrives, so of
two overlapping requests the later response wins. A dying worker process takes all
its requests and its pool with it, and nothing in Redis.

## The modules

| Module | Models |
|---|---|
| `SessionContract` | what a session promises to the pages of one browser |
| `ClassicSession` | `NWCSession`, `CVariantDictionary` (contents and flags), `CSessionDL`; shown to implement `SessionContract` |
| `ClassicSession_proofs`, `ClassicSessionContract_proofs` | proofs about it |
| `CacheContract` | what the application cache promises to the pages that share it |
| `ClassicApplication` | `CApplication`, `CApplicationDL`; shown to implement `CacheContract` |
| `ClassicApplication_proofs` | proofs about it |
| `ManagedCache` | `ApplicationCache` of ASP.NET and ASP.NET Core |
| `SharedCache` | composes `ClassicApplication` and `ManagedCache` on one set and its strings |
| `SharedCache_proofs` | proofs about it |
| `SessionSite` | what the two .NET sessions share: records, cookies, a session object per request, the site's settings |
| `ManagedSession` | `ISPSessionModule` and its id manager |
| `CoreSession` | `ISPSessionMiddleWare`, `ISPSession` and its id manager |
| `SessionFarm` | composes the two on one database and one browser's cookie; shown to implement `SessionContract` |
| `SessionFarm_proofs` | proofs about it |
| `SessionStream` | the format in which all three servers write and read a session |
| `SessionStream_proofs` | proofs about it |
| `ConnectionPool` | `simple_pool`: `get`, `put`, the timer threads |
| `ConnectionPool_proofs` | proofs about it |
| `RedLock` | `CRedLock` and the managed `Redlock` |
| `RedLock_proofs` | proofs about it |
| `MC*` | instances for TLC: names of requests, browsers, pages, values, symmetry sets |

### ClassicSession

| Variable | In the code |
|---|---|
| `store[g]` | the Redis key of the GUID `g`: `data`, and the meta data `liquid`, `reent` |
| `cookie[b]` | the session cookie in browser `b` |
| `phase[r]` | the next Redis command of request `r` |
| `obj[r]` | the `NWCSession` object: `guid`, `oldGuid`, `blnNew`, `blnLiquid`, `blnReEntrance`, `bReadonly`, `blnCancel`, `blnPersistDone`, `bErrState`, the dictionary and its dirty flag, the Set-Cookie header, whether headers were sent |

One action is one Redis command together with the code up to the next one, or
one script method, so all interleavings of the commands of different requests are
explored. `Start`, `GetFound`, `GetMissing`, `SessionInsert`, `GetInserted` are
`OnStartPage`; `EndPage`, `SaveRename`, `SaveWrite`, `SessionDelete`, `Respond` are
`OnEndPage`. `Execute` also stands for `Transfer`, which saves and loads in the same
way. Redis, the browser and the process are external: `Expire`, `Crash`,
`ConnectionFails`, `Delivered`, `Flush`.

A request writes its own name as a value, so that it is known who wrote what. A
GUID is the request that drew it and the number of the draw. `rand_s` makes
repetition negligible; the model takes it for impossible. The counter of draws
and the counter of method calls are bounded by `MaxOps`; that the first never
exceeds `2 * MaxOps + 1` is proved, not assumed.

Times to live, locale, code page and sizes are left out; a key may expire whenever
`Expiry` says: never, at any time, or (`"idle"`) as long as no request has its id in
its object. Every load and every save starts the time to live anew, so that only a page that
runs longer than its session lives sees more.

### ClassicApplication

`names` is the set under `{appkey}`, `strings` the strings under `{appkey}:NAME`,
`expiring` those with a time to live, `app[p]` the `CApplication` object of page `p`.
`GetMembers`, `GetStrings`, `RemoveGhosts` are the three commands of
`ApplicationGet`; `ApplicationSave` is the whole transaction, the methods are one
action each. The order of the commands inside the transaction matters (see
*Divergences*) and is in the definitions of `names'` and `strings'`. A value is the
page that wrote it.

Three constants describe the pages the cache is used by: `Overlap`, how many run
at a time; `Readd`, whether a script assigns to a name it has removed;
`QuietLoads`, whether no page saves between the first and the last command of
another one's load. The cache keeps its contract only without `Readd` and, once
names are removed or expire, only with `QuietLoads`: see *Divergences* for a name put
again, and the run `farm_ghost` for a load that meets a save.

### ManagedCache and SharedCache

The same three Redis variables; `app[p]` is the `ApplicationCache` of a page. Where the
classic save is one step, `SetAdd`, `SetRemove` and `StringSet` are three, each of which
may be lost (`CommandLost`; the code does not wait for replies). A core page loads when
it first uses the cache, and a load that fails leaves an empty cache that counts as
loaded (`LoadFails`). `SharedCache` interleaves both kinds of pages on one database. Its
variable `halfway` is history: the names to which a lost command, a dead process or a time
to live left no string; no action reads it.

### SessionSite, ManagedSession, CoreSession, SessionFarm

`store[g]` is the record of id `g`, `cookie[b]` the cookie of a browser, `req[r]` a request:
the Redis command it is about to send (`phase`), which server has it, `SessionID` and
`OldSessionID`, the items, the flags. `site` is chosen once: which servers run, whether ids
rotate (`liquid`), whether an unknown id may be taken up again (`reentrance`), which
methods and faults occur. Both servers of a site have the same settings, as they have to.

`ManagedExists`, `ManagedGet`, `ManagedInsert` acquire the state (`OnAcquireRequestState`,
`GetSessionID`, `SessionGet`, `SessionInsert`); `ManagedRelease`, `ManagedRemove`,
`ManagedSave`, `ManagedRespond` release it. `CoreExists` is `Invoke`; `CoreUse` and
`CoreGet` are the lazy `LoadAsync` with its second look for the id, `CoreThrows` a page that
ends in an exception, `CoreCommit`, `CoreSave` and `CoreRespond` what follows the page.
`Rename` is shared. A record may be *bare* (meta data without items): `SessionInsert` writes
such ones, and the managed module takes them for none. `RedundantExists` is one step that may
answer "no" for a session that exists, when all three tries time out.

A browser sends its next request when it has the response to the last one and the
server has finished with it.

### SessionStream

`record` is the stream, `page` the page that runs, with its items and with `isserialized`,
the note which objects are still streams; `truth` and `savers` are history: what the pages
meant to store, and which servers saved. A stream is a sequence of cells, one per write: a
string, a type, a next offset, a fixed value, a length and a blob, a block of array elements.
A value is the sequence of its nodes, in the order in which `WriteValue` visits them: a
scalar, an object, or an array with its type, bounds and elements; the elements of an array of
variants are values of their own, and their nodes follow the array's (`Children` says how
many values do). So a value nests to any depth, and neither writing nor reading needs a
recursive operator: `WriteValue` runs over the nodes, and `ReadValue` over the cells with the
count of the values it still has to read (`todo`), those that the loops of all pending calls
in the code have before them.
`IsValue` says which sequences of nodes are values of a server. A session that does not exist
is the empty stream.

`LocalContents` and `WriteValue` give the stream each server writes, `LocalLoad` and
`ReadValue` what each makes of it; a server is a parameter where they differ: the order of
the names, which arrays are one block, in which order a block lies in memory, how a
currency, an object or a typed array is marked, what is refused, which types there are no
arrays of (`TypeOf`). `Place` is where an element
lies among the others, by columns or by rows, for any number of dimensions; `InMemory`
translates the one order into the other. The actions are one page at a time on any server:
`Load`, `Put` and `PutRef`, `RemoveItem`, `Save`, `End`, and `SessionEnds`.

`Load` is the whole start of a page. A classic page gets every object of its session before the
script runs (`InvokeOnStartPage`; `Started`), which turns streams into objects and takes back
the notes about them (`StillNoted`); what remains noted is what could not be read. A page whose
session cannot be loaded fails and saves nothing, but if the id rotates, a classic one goes on
with the items before the failure (`partial`). The model does not know whether ids rotate and
lets either happen. `PutRef` is `Set Session(name) = object`, which does not make the
dictionary dirty.

### RedLock

`stored[s]`, `expiry[s]` are the key and its lease on server `s`; per client there are the value
of its lock, the server its loop is at (`i`), the servers that granted (`got`), `startTime`,
`validUntil`, what retries are left, and connections that are broken. Each command to one
server is one step, and can succeed, be lost, or be carried out with its reply lost. `now` is
the time in milliseconds, and jumps from one of the `Moments` to any later one. `CRedLock`
reads it rounded down to a `Second` (`time(NULL) * 1000`), the managed client to `NowGrain`
(`DateTime.Now`); `Drift` is that of the code, one per cent of the ttl and 2 ms. Servers may
expire a lease up to `Skew` milliseconds early. A client may die at any
step. A server that loses its data when it restarts is not modelled: Redlock needs
servers that persist, and no code deals with it.

### ConnectionPool

`connections` is the vector in its order, `expired` the connections whose last
`get` was more than 20 seconds ago, `user` and `held` what each request does, `timer`
whether `_timer` is not null, `thread` how far each timer thread is. Code inside
`_access_mutex` is one action, except for the loop of `TimerAPCProc`, which is one
action per connection it erases; `Unlocked` keeps the others out. Time is left out:
a connection may get old and a timer come due at any moment. A request holds one
connection at a time, as all callers do. The pool objects of a process share the
vector, and the model is of all of them together; the host, the password and the
database of a pool object are left out.

## What is checked

Every run is exhaustive for its constants. The models have no unbounded data.

| Run | Shows |
|---|---|
| `classic_contract` | Two browsers, three requests, ids that rotate: `SessionIsolation`, `CookieNamesRecord`, `NoSecondCopy`, `ImplementsContract` (refinement of `SessionContract`). |
| `classic_crash` | The same contract for two browsers with failing connections, processes that die at every step and take the pages of both with them, expiry of keys that no request has in hand, read-only pages, flushed headers. |
| `classic_races` | Two overlapping requests, all methods, ids in query strings, expiry at any time, faults: `TypeOK`, `DeadStaysDead`. |
| `app_contract` | Three pages, two at a time, two names, assigning, removing, expiry, faults; no saves during loads: `TypeOK`, `ImplementsContract` (refinement of `CacheContract`). |
| `pool_shared` | Three requests, two timer threads, failing connects and timers: `TypeOK`, `NoSharing`, `PoolBounded`, `TimerHasThread`, and the liveness of `WatchedAreErased`. |
| `redlock` | A COM client that extends its lock and a managed client, three servers, a lost command or reply, retries, early expiry, death, the clocks of the code: `TypeOK`, `SureExclusive`, `SureByQuorum`, `NoLeftovers`, `NoForeignRelease`. |
| `farm_cache` | A classic, an ASP.NET and an ASP.NET Core page at a time on one cache, everything switched on, saves during loads and names put again included: `FarmTypeOK`, `GhostsExplained`. |
| `farm_sessions` | Four requests of one browser, each on either .NET server, over four configurations of the site: `TypeOK`, `NoOrphans`, `ImplementsContract` (refinement of `SessionContract`). |
| `stream_formats` | Any number of pages on any server, two names, two methods per page, fourteen values, one of each kind: `TypeOK`, `ReadBack`, `OwnValues`, `InStep`. |

Why the bounds are enough. The classic session has two kinds of races, between two requests
of a browser (two requests in `classic_races`) and between browsers (three requests in
`classic_contract`, the third of which sees what the first two left). Two method calls per script reach every pair
of flags in both orders; the divergences found need no more. The cache's page
needs two calls to touch two names, or one name twice, and three pages are one that
fills the cache, one that changes it, and one that meets the change half-way. The
race of a load with a removal *and* a new assignment needs a fourth page (one puts
the name, one loads, one removes, one puts again): that is the race `QuietLoads`
excludes, and with it a fourth page only repeats the part of another. For the pool,
`PoolBounded` says that as many connections as requests are enough; two timer
threads are what a race needs, and the theorems below are for any number. Two lock
clients on three servers have two majorities that meet in one server, and one can lose
one server and still get a majority. The ttl is 1500 ms, above a second and far below the 100
seconds from which on the drift covers one; the moments are the ends of a tick of either clock
(0, 15, 999, 1000), the time at which the leases of the first loop run out, `Skew` early (1498; the last one at which a loop of
`CRedLock` from 0 to 999 lets its client be sure of the lock is the one before), and the last one
at which a lock taken at 999 is valid (2481). One client calls twice, which gives an extension of the lock it holds, a lock after
an unlock, and a late unlock against the other's lock. In the farm's cache the three pages
are one of each kind, and two methods reach both names, or one name twice. Four requests let an id rotate three times, or let
an abandoned session be followed by two more pages. A stream has two items, so that an item
follows one whose end is in doubt; a page of two methods can read one item and put
another, and since pages come without bound, a value can go through any chain of servers.
The values are one of each kind that a server treats in its own way; a table has three
rows and two columns, so that rows and columns cannot be confused. That deeper nesting, more
dimensions and more names bring nothing new is proved.

Deadlock is checked in all runs but `redlock`, whose clock and calls are bounded; in the
others a step of its own lets a finite set of requests be done, and the pool and the
stream run for ever.

### Fairness

Sessions, caches, lock and streams have safety properties only: no code waits for
anything but a reply, every loop ends after a fixed number of tries, and a page that stops
half-way is a behaviour of the system. The pool has one liveness property,
`WatchedAreErased`, under weak fairness of each timer thread: Windows schedules it,
and the waitable timer it armed with two seconds comes due. Nothing is assumed of
the requests: one may hold its connection for ever.

### Divergences

Runs that end in a violation each check one statement of the repository's own
documents, comments or log lines; `PROJECT.json` quotes them.

| Run | Divergence |
|---|---|
| `farm_ghost` | A classic page that loads takes out of the cache a name that an ASP.NET page is just adding: SADD and MSET are not in one transaction, and a name without a string is taken for an expired one. |
| `farm_rotation` | With a rotating id, an ASP.NET Core page that only reads its session loses it. |
| `redlock_clock` | The validity time that `CRedLock` returns outlasts the leases. |

The code behaves in some more ways that surprise. They need no run: one page, or one look at
the line, shows them. Where a run leaves such a case out, this is said here.

*Classic sessions and pool.*

- `LiquidCookie = True`, then `Readonly = True`, in one page, and `LiquidCookie` on and
  off on the first page, leave the browser with an id that has no record
  (`Session.cpp:1124`, `Session.cpp:838`). So does an id from a query string that is
  refused: it stays in `oldGuid` (`Session.cpp:1005`). A site whose ids rotate also loses
  a session when headers are sent before the new id is written to the cookie, or when a save
  fails after RENAME. The runs of the contract leave these pairs and query strings out.
- `Contents.RemoveAll` alone, or `ReEntrance = True` alone, does not make a session
  dirty, so that page saves nothing; neither does `Set Session(name) = object`
  (`CVariantDictionary.cpp:164`).
- `Execute` and `Transfer` save the session and set `blnPersistDoneByOnEndPage`, which nothing
  clears, so that `PersistSession` returns at once when the page ends (`Session.cpp:1110`): what a
  page writes after them is not saved. `classic_races` has `execute`, the runs of the contract
  do not.
- Overlapping requests of one browser take no lock, on any of the servers, and the last one
  to save wins; the document that promises a lock dates from before the Redis version.
- Several timer threads may watch the pool at a time (`simple_pool.cpp:24` tests and
  sets the timer outside the mutex); `TimerHasThread` and `NoSharing` hold all the same. A
  thread that empties the pool ends; what a request puts back afterwards stays unwatched
  until the next `get` (`simple_pool.cpp:95`). Hence `WatchedAreErased` speaks of watched
  connections.
- Pool objects of different databases share one vector (`simple_pool.h:17`); the model is of
  one database.

*Application caches.*

- A name removed and assigned again in one classic page is written and, by the same
  transaction, taken out of the set (`CSessionDL.h:185`): `app_contract` has `Readd` false.
  The .NET caches do the same.
- Ghost cleaning also races among classic pages alone: one finds a ghost, a second puts the
  name again, the first removes it. `app_contract` has `QuietLoads` true.
- In the .NET caches the second assignment of a new name replaces its element by one that is not
  new (`ApplicationCache.cs:40`): its string is written, its name never. The strings of removed
  names are not deleted (`CSessionDL.cs:60`); when a page adds the name again, everybody finds the
  removed value between its SADD and its MSET, and for good if the MSET is lost.
- `ExpireKeyAt` with 0 ms does nothing in a classic page (`Application.cpp:1591`); in .NET it
  is sent for the bare name, which is no key of the cache, and has no effect at all.
- A core cache whose load fails is empty and counts as loaded.
- With late activation, a COM object that a page only passes on is saved with the two bytes
  that mark a .NET object in front (`StreamManager.cs:1031`).

*.NET sessions.*

- `Abandon` with a rotating id deletes the new id, which has no record yet; the old record
  stays (`ISPSessionModule.cs:210`). A worker process that dies between RENAME and the
  response loses a session with a rotating id. The configurations with a rotating id have
  neither `abandon` nor crashes.
- A core session that is first used after the response has started throws.
- `RedundantExists` answers "no" after three time-outs; on a site that does not take up unknown
  ids the session is then forgotten. Time-outs occur in the configurations that do.
- The managed module sends SET for every page, changed or not. `Abandon` of the core session
  only clears the items; its flag is reset by the same call (`ISPSession.cs:203`), and
  `isNewSessionKey` is never true. A record without items makes the core session throw
  "Corrupt Session State".
- `_instanceCount` is not lowered by a request that fails (`ISPSessionModule.cs:110`), and
  `_initialized` is tested outside its lock (`ISPSessionModule.cs:62`).
- The items of a core session are kept under `name.GetHashCode()`
  (`ISPSessionStateItemCollection2.cs:50`): two names with one hash code share a value.

*Serialization.*

- `ConvertTypeToVtEnum` answers VT_VARIANT for every class, as `Type.GetTypeCode` does, and the
  tests for `CurrencyWrapper` and COM objects behind it are never reached. A currency or a COM
  object that a classic page has stored, in a session that an ASP.NET page then saves, cannot
  be read by classic pages any more: the load fails and so does the page.
- An object of a class that is not serializable is written as its type and nothing else
  (`StreamManager.cs:627`, and in the core copy 642, with the exception commented out): the
  session cannot be loaded again. .NET Core's `CurrencyWrapper` is such a class, so a core page
  that saves a session with a currency of a classic page destroys it. (`lost` in
  `SessionStream`.)
- With a rotating id, a classic page whose session cannot be loaded goes on with the items before
  the one that failed, and saves them as the session: `NewID` overwrites the result of the load
  (`Session.cpp:1062`). What was behind is gone. (`partial` and `lost`.)
- With `Compress`, a core session is stored empty or truncated: the compressed bytes are
  taken before the stream is flushed, since `zip.Close()` is commented out
  (`ispsession.io.core/PersistUtil.cs:48`). The model has no compression.
- A block of numbers of two or more dimensions comes back transposed between classic pages, which
  keep arrays by columns, and .NET, which keeps them by rows.
- An array that a page of VBScript has only declared, without bounds, is empty when the next
  page reads it (`CVariantDictionary.cpp:866`); .NET makes an array of length 0 of it.
  `OwnValues` is about arrays that have bounds (`Dimensioned`).
- A session of more than 32767 items is saved, and refused by every load
  (`CVariantDictionary.cpp:362`); the module assumes no more names (`MAXSHORT`).
- In .NET an array of dates, or one of booleans that is not empty, makes `Buffer.BlockCopy`
  throw, and the page saves nothing. For signed bytes (VT_I1) .NET has no array type, and a
  session with such an array of a classic page cannot be loaded. A typed array of objects is refused by classic pages. A byte comes back as an int.
- Names of types differ between .NET Framework and .NET Core; the model takes them as resolvable.

*Distributed lock.*

- `CRedLock.h:52` calls `m_validityTime` the time, in milliseconds, that the lock can still
  live. It is computed from `time(NULL) * 1000`: up to 999 ms of the attempt are not seen, and
  the drift of 1 % + 2 ms does not cover them, so that the time returned outlives the lock for
  every ttl below about 100 s, and a second client can have the lock in that time.
  `redlock_clock` has a loop that takes from 0 to 999. `Overstated` says by how much the time
  is too long, and `SureExclusive` and `SureByQuorum` that it is by no more: whoever takes that
  off (about a second, less the drift, plus what the clocks of the servers are wrong by) is safe.
  For the managed client nothing has to be taken off in the run, since the drift of
  17 ms covers 15 ms of its clock and a `Skew` of 2. (`time * 1000` overflows an int, but only the
  difference of two readings is used, where the overflow cancels.)
- `ContinueLock` after `Lock` never extends: its first call takes a new value for the old one,
  and the leases of the lock are left behind. `m_continueLock` is one for all resources. The
  clients of the model use `ContinueLock` from the start, or `Lock`.
- In the managed `Redlock` an exception while unlocking one server ends the unlock of the rest.

## What is proved

By TLAPS, for all values of the constants that satisfy the modules' assumptions
(which only say what the constants are: `SessionAssumption`, `ApplicationAssumption`,
`SharedCacheAssumption`, `SiteAssumption`, `PoolAssumption`, `RedLockAssumption`,
`StreamAssumption`).

**ClassicSession.** `TypeCorrect`: `TypeOK` is not inductive, since GUIDs are drawn
from a bounded set; `TypeInv` adds `DrawsBounded`, which relates the number of draws to
the number of calls and the phase, and gives each `NewID` a GUID it has not drawn.
`Isolation`: `SessionIsolation` is strengthened to `IsolationInv`: either ids come in
query strings (then nothing is claimed), or every cookie, including those on their way
in an object (`CookiesOwned`), every record (`RecordsOwned`) and every id and value held
by an object (`ObjectsOwned`) belongs to the browser of the request that drew or wrote
it. One lemma per action; expiry and faults only take away. `DeadForEver`
(`DeadStaysDead`) needs `Fresh`: a request that has not read the record of its id knows that
id only, and one that has not begun has drawn none. Then every action is shown to be
`Quiet` (the ids under which the request may write afterwards, its `Keys`, it had before, or
drew just now, or found a record under) and `StoreQuiet` (records are written under such
ids only); a dead id is none of them, has no record, and is never drawn again.

`KeepsContract` (`ImplementsContract`), `CookieNamesSession` (`CookieNamesRecord`) and
`RotationMoves` (`NoSecondCopy`) assume `Orderly`: each browser sends its (finitely many)
requests one after another, ids travel in cookies, no key expires in the hands of a request,
and scripts use the methods that mark what they change and do not save in between. Sessions may
time out, connections fail, processes die, pages be read-only and headers leave early, except
on sites whose ids rotate: TLC finds the contract violated there by each of a process that dies
after RENAME, headers sent before `LiquidCookie` draws the new id, and a read-only page, which
gives its browser an id and then does not save under it. Both `classic_contract` and
`classic_crash` are instances. `CookieNamesSession` and `RotationMoves` assume `Calm`: nothing
expires or fails, and headers are sent at the end, for otherwise a cookie outlives its record and a
crash leaves a record that no browser knows of.

The invariant is `OneRecord`. `Fits` says of a request by itself, phase by phase, which flags
there are (`Flags`), where its ids come from (`Ids`: the cookie, or a draw of its own), what its
browser knows and will be told (`Told`), that the record it uses is there and a new session's id
is not the one the browser had (`Kept`), and how the contents of the record and of the object
differ (`Written`): only in what is marked dirty. `KeyOf` says in which phase the record is under
which id, `Origins` that a record has an id drawn by a request that has begun, so that a fresh id
has none; and where all is calm, the browser has no other record (`Only`). From
it follows (`Seen`) that the contents and the page of the contract are functions of one request
(`ContentAs`, `PageAs`), without the CHOOSE in `Content` and `PageOf`. Every action of a request is
then a `Step`, one lemma each: it keeps the other browsers' records, leads to a sound place
(`StepOrderly`), and is a `Turn` of the contract (`StepContract`): a page begins when GET finds its
record, methods edit it, it ends with SET or the deletion, or with the answer if the browser has to
be told of its session first; RENAME is a stutter. A save that fails stops the page and leaves the
contents (`SaveFailsStep`), unless the page had abandoned them and the browser has no cookie any more.
The time-out of a key is a lapse, for a browser without a page, or nobody sees it (`Expired`,
`ExpireContract`); in a crash each page stops with the contents its browser had, or with none if it
had abandoned them (`Dies`), and all pages do so in one step (`CrashContract`). That step was
first stated as the end of one page; with two browsers in `classic_crash` TLC found a crash that
ends one abandoned page and stops another, and `SessionContract` now says so (`Abort`).

**SessionFarm.** `TypeCorrect` holds on every site. That a rotated session does not get the id
it gives up is no matter of types: `TypeInv` says of each id where it was drawn (`Own`), by
this request or by an earlier one of the same browser whose session was loaded (`From`).
`FarmImplementsContract` (`ImplementsContract`) and `NothingOrphaned` (`NoOrphans`) assume
`Keeps`, which says of each site: where ids rotate, the managed module alone serves it, its pages
do not call `Abandon` and its processes do not die; time-outs that go unread occur only where an
unknown id may be taken up again. TLC finds the contract violated on a site for each
of these clauses if it is dropped (see *Divergences*), so no site is left out for the proof's sake;
the four of `farm_sessions` are instances. Browsers, requests and method calls may be any
number; expiry is allowed throughout, and where ids last, pages that throw, lost commands and
dying processes. The inductive invariant `Inv` adds to the types: a browser has one request
at a time (`Alone`); between requests its only record is the one its cookie names (`Between`);
during one (`During`, `Fits`) its records are under the cookie's id and the two of the request,
the contents are where `PlaceOf` says, and what is under the new id is empty before the save and
what the page left after it (`FitsRead`); records are under ids that were sent out
(`RecordsKnown`), so that a fresh id has none. `Seen` gives the contents and the
page of the contract as functions of one request, each action of a request is a `Step` (it keeps
other browsers' records and is a `Turn` of the contract, or stops the page where
processes die), `StepInv` and `StepContract` do the rest for all of them at once. `CrashStep`
and `ExpireStep` treat what is no request's doing: the pages of a process stop together, and the
time-out of a record either empties the contents of a browser without a page or is not seen.

**ClassicApplication.** `TypeCorrect` holds of every instance (`TypeOK` is inductive as it
stands). `CacheRefinement` is the
refinement of `CacheContract`, under the two provisos that the cases
under *Divergences* show to be needed: `~Readd` and `QuietLoads`. It
rests on two invariants. `Stages` says which parts of an object are in use when, and
that no removed name has an element (this needs `~Readd`); `Settled` says that a
name listed by SMEMBERS that has left the set since was a ghost, and that ghosts do
not come to life before SREM removes them (this needs `QuietLoads`). `PageSeen` gives
a page of the contract as a function of the object and its phase; then each action
has one lemma that finds the step of the contract it is, or that it is a stutter:
SMEMBERS begins a page (or opens it, when the set is empty), MGET opens it, SREM
forgets, methods edit, the transaction ends the page, expiry lapses, a crash aborts.

**SharedCache.** `FarmTypeCorrect`, which takes the classic steps from the proofs of
`ClassicApplication`. `GhostsAreExplained` (`GhostsExplained`) is inductive relative to it: a
managed step makes at most one page's names go on their way (SADD), writes them all (MSET) or
records them in `halfway` (`OnTheirWayStep`), and leaves the other pages' alone (`OthersStay`);
a classic save adds no name without its string, being one transaction; only expiry takes a
string from a name in the set. No
proviso is made on the scripts or on the order of loads and saves.

**ConnectionPool.** `TypeCorrect`, then three invariants inductive relative to it.
`Exclusive` (`NoSharing`): a connection is in one place of the vector or in one hand;
it rests on lemmas about what `pop_back`, `erase` and `push_back` do to the elements of
a sequence without repetitions. `Bounded` (`PoolBounded`): what is pooled and the
requests that are busy are together never more than the requests, because a request
opens a connection only when it found the vector empty, and counts as busy from then
on. `Watched` (`TimerHasThread`): a thread ends only when it sets the timer to null
or finds it so.

**RedLock.** `TypeCorrect`; `NoTheft` (`NoForeignRelease`) and `NothingLeft`
(`NoLeftovers`) hold for any number of servers, leases and clocks, and so do `LocksLast`
(`SureByQuorum`) and `LocksExclude` (`SureExclusive`): nothing is assumed of ttl, drift, skew or
the grain of a clock, since `Overstated` is what they leave uncovered (`OverstatedCovers`). The
invariant says of each server that granted (`Backed`): until `validUntil - Overstated + Skew` it
stores the client's value with a lease at least that long. A grant is kept by the commands of
others, which change a server only if its lease is over or they have its value; the
client's own next attempt begins by giving its grants up. Two majorities of N servers meet
(`QuorumsMeet`, from the cardinality of a union), and one server stores one value.

**SessionStream.** All four properties: `TypeCorrect` (`TypeOK`), `ValuesInStep` (`InStep`),
`ValuesReadBack` (`ReadBack`) and `OwnValuesRead` (`OwnValues`), for any names (as many as
`LocalLoad` accepts), any values that are values of their server (`StreamAssumption`), nested
to any depth, with any number of dimensions and elements, and any number of method calls.

Values and streams are read and written by functions defined by recursion over a length.
What is true of every value is proved by induction over that length, which the library's
induction rules do not give, since they take an operator; `NatSet` and `UpTo` derive it for
sets of numbers from `WFMin`, which does not. From the bottom up: elements and places in
memory correspond one to one (`PlaceBijective`; of two indices one is before the other, so
that places are ranks), therefore a block that is written in one order is read as the array it
was by servers with that order, and by all if it has one dimension (`ArrayRead`). Objects (`ObjectRead`), and then every node (`NodeRead`), are read from
where they were written, by every server: the cells end where the reader stops, whether or
not it makes of them what was meant. `ValueRead` adds them up along a value: the reader and
the writer have the same number of values to come after each node, and where the reader stops
early it does so with a result that `LocalLoad` sees, and what could not be read is empty. `NextItemRead` and `ContentsRead` do the
same along a session, the latter for the order of names of each server, and `LoadKept` says what
a page that loads it has.

The invariant is `StreamInv`, since neither `ReadBack` nor `OwnValues` says how the record came
to be, nor what a page has in hand between loading one record and saving the next. The record is
what `LocalContents` of one of its savers makes of some items, all of them values of that server
(`RecordInv`), and the page that runs has such items, too (`PageInv`); of both, unless something
is `lost`, `Kept` holds: the items have the names that the pages meant, an object is noted as a
stream exactly when it is one, and each value that is portable, or any with bounds as long as
one kind of server has done all the saving, means what was meant. `Load` takes `Kept` from the
record to the page (`LoadKept`), whichever server it runs on, `Save` back to the record; each method
has a lemma, and `EnterKept` and `WithoutKept` say how items, meaning and notes are edited in step.
A page may hold a value that it cannot show to be what was meant (a transposed block, say): it is
carried along, and nothing is claimed of it until it is replaced. `GotValue` and `StartedIs`
say that getting the objects at the start of a page keeps what the items mean, `NoObject` that a
page of .NET has none to get.

**Only model-checked**: the liveness of the pool (`WatchedAreErased`), and whatever is about
ENABLED: the provers have neither. Every other property of a passing run is a theorem.

## What is left

Worth doing next, in this order: overlapping requests in `SessionFarm`, with an abstract
specification weak enough for the last writer to win; three servers in `SessionFarm`, with the
classic one (its own flags and ids are in `ClassicSession`).

Composition: the session and cache modules use Redis as their environment, each with its own
keys, and share only the pool; what they need of it (a request talks over a connection of
its own) is `NoSharing`. What they need of the format of a record is `ReadBack`.

## Not modelled

- Times to live in minutes, locale, code page, sizes: a key may expire whenever the
  configuration of the run says.
- The bytes of values: UTF-8, DATE, DECIMAL, deflate, `CStream`'s memory; lower bounds of
  arrays, jagged arrays, arrays of unsigned 16, 32 and 64 bit numbers and of
  signed bytes of .NET; objects inside
  arrays of classic pages.
- Cookieless ids, the event `Session_End`, edits of a core page after `Abandon`, enumeration.
- `SessionPing` (one EXPIRE), cookie formatting, configuration, logging, strings, COM
  registration: pure I/O, parsing and formatting, or no state of their own.
- The redis3m pools that nothing calls, vendored Redis, hiredis, Win32_Interop, dlmalloc, and the
  copies of headers in `Distribute`, `OleAutoTestPad2` and the archive. They are far the
  largest part of the repository's lines: the sources of the three servers, without
  generated and copied headers, are about an eighth of it.

## Running

    tlc -config classic_contract.cfg MCClassicSession.tla
    tlapm ConnectionPool_proofs.tla

| Module | Configurations |
|---|---|
| `MCClassicSession` | `classic_contract`, `classic_crash`, `classic_races` |
| `MCClassicApplication` | `app_contract` |
| `MCConnectionPool` | `pool_shared` |
| `MCRedLock` | `redlock`, `redlock_clock` |
| `MCSharedCache` | `farm_cache`, `farm_ghost` |
| `MCSessionFarm` | `farm_sessions`, `farm_rotation` |
| `MCSessionStream` | `stream_formats` |

In `PROJECT.json`, `map` relates each definition to the lines it models; `mutants` lists for
each property a plausible defect of the code that makes the run fail.
