# Verification of spring-cloud-web: sequences, locks, accounts

The repository is a Spring Cloud demonstration: a gateway, an account provider
and a consumer of it, an authorisation service, and a library, `web-common`,
of distributed identifiers and locks. The library is where state is shared
between threads, JVMs, Redis and ZooKeeper, and most of these modules specify
it; the rest are about the account page, its provider and its consumer. File
names below are relative to
`src/web-common/src/main/java/me/linbo/web/common/` unless they start with
another top directory.

## 1. Inventory

### Sequences (`sequence/`)

`SequenceManager` holds one object of each kind as a static constant, so every
JVM that loads it has one of each; all JVMs share the Redis and ZooKeeper
state. Callers are any number of threads per JVM. What all of them promise
(`ISequence.next()`: "the next id") is that no id is handed out twice and that
every client sees its ids grow.

| component | state it keeps | operations | what is hard |
|---|---|---|---|
| `NumberCacheSequence` | per JVM `curValue`, `maxCacheValue`; in Redis the counter | `next`, `fetchSegment` | threads race to refill; the reply to `getAndAdd` is lost; restarts |
| `RedisSequence` | only the Redis counter | `next` (not synchronized) | replies overtake each other or are lost |
| `SequenceManager` | the constants | static initialisers | two sequences share one key; an initialiser that throws |
| `ZookeeperSequencePro` | per JVM `curNum`, `maxNum`, a queue of prefetches; in ZooKeeper the node data and the lock | constructor, `next`, `fetchSegment` on a caller or on the pool thread | prefetches between calls and other JVMs; every ZooKeeper request can fail, before or after it took effect; failed releases; expired sessions; restarts |
| `SnowFlakeSequence` | `lastStmp`, `sequence` | `next`, `getNextMill` | the clock goes back; numbers run out within a millisecond; restarts forget `lastStmp` |
| `SnowFlakeAutoSequence` | the above, a machine number; in Redis its key with a time to live | `register`, `renewalMachine`, `next` | late and failed renewals; numbers that change hands; numbers wider than their field |
| `ZookeeperSequence` | sequential children of one node | `next`, a cleaner task | the cleaners of several JVMs delete each other's nodes and abort |
| `NumberSequence`, `MixedSequence` and the sequences that format strings | `curValue`, the Redis counter | `next` | `NumberSequence` is not synchronised and saturates at its maximum |

### Locks (`lock/`)

`LockeManager` offers two reentrant locks behind `IDistributedLock`, which do
not know of each other.

| component | state it keeps | operations | what is hard |
|---|---|---|---|
| `RedisLock` | in Redis a hash: holder, count, time to live | `lock`, `tryLock` (both wait without limit and take a lease), `unlock` | the lease ends under its holder; answers are lost; `unlock` by who has no lock |
| `ZookeeperLock` | in ZooKeeper a queue of ephemeral nodes; per JVM the count of each thread | `lock`, `tryLock` with a timeout, `unlock` | the result of `acquire` with a timeout is ignored; sessions expire; deletes fail |

Correct means: a caller told that it has the lock has it, and nobody else does,
until its lease or session ends; and nobody waits for ever.

### The services

| component | state it keeps | operations | what is hard |
|---|---|---|---|
| provider (`web-api-provider`) | the table `account` | `list` (a count, then a select), `add`, `update`, `delete`; an exception is answered with HTTP status 200 and code 0 | a write between the two statements; a failure after a statement was executed; requests nobody waits for any more |
| consumer (`web-api-consumer`) | nothing | the same calls through Feign, with the fallback of Hystrix | the fallback answers while the provider may still act |
| page (`index.html`) | the list, the page number and size, the edit dialog | paging, the dialog, `create`, `update`, `handleDelete`, a reload after each | answers in any order or never; the dialog edits the row of the list; the code of an answer is not looked at |

Correct means: what was told as a success stays true, and the list, once
nothing is under way, shows what is in the table.

`web-bll/web-auth` issues tokens; `web-gateway` is configuration; `web-core`
holds value classes and the exception handler. The JavaScript libraries and SQL
dumps are third-party or data.

### Interaction

Threads call `next()`. The caching sequences hold a Java monitor while they
talk to Redis or ZooKeeper, so the other threads of the JVM wait for the
network; other JVMs interfere only through the shared counter, node, lock or
key. `ZookeeperSequencePro` calls itself back through a one-thread pool,
`SnowFlakeAutoSequence` through a scheduler. The locks meet in a thread that
takes both, the page and the consumer in the table they write to.

## 2. Modules

| module | models | composes |
|---|---|---|
| `DistributedIds` | the promise: an id is issued at most once | |
| `NumberCacheSequence` | the class of that name, with threads and JVMs | implements `DistributedIds`, client = JVM |
| `RedisSequence` | the class of that name | implements `DistributedIds`, client = thread |
| `ZookeeperSequence` | the class of that name, its cleaners included | implements `DistributedIds`, client = thread |
| `RedisOrderNo` | `REDIS_ORDER_NO` and `REDIS_CACHE_ORDER_NO` on their one key | `RedisSequence` and `NumberCacheSequence`, sharing the variable `counter` |
| `ZookeeperSequencePro` | the class of that name with the lock recipe, the pool and the session | compared with `DistributedIds` |
| `SnowFlakeSequence` | the class of that name with its clock | implements `DistributedIds`, client = JVM |
| `RedisCounter` | the `RAtomicLong` under a key | |
| `NumberSequence` | the class of that name, one object per `MixedSequence` | objects sharing a `RedisCounter` |
| `MachineLease` | registration and renewal of `SnowFlakeAutoSequence` | |
| `SnowFlakeAutoSequence` | its `next()` and the layout of the id | extends `MachineLease` |
| `DistributedLock` | a lock with a lease: nobody enters while somebody is inside whose lease has not ended | |
| `RedisLock`, `ZookeeperLock` | the classes of those names with what Redis, ZooKeeper, Redisson and Curator do for them | each implements `DistributedLock` (`ZookeeperLock` for the threads it has served) |
| `LockeManager` | the interface of that name | threads that take both locks |
| `AccountProvider` | the table, `AccountApi`, the exception handler, requests on their way | |
| `AccountPage` | `index.html` | a client of `AccountProvider` |
| `AccountConsumer` | the Feign client and its fallback | a client of `AccountProvider` |
| `Accounts` | | all three, on one table |
| `*_proofs` | theorems about the module of the same name and the modules it is composed of | |
| `MC*` | the instances TLC explores (symmetry, functions, restricted specifications) | |

A refinement of `DistributedIds` includes uniqueness (`AbstractUnique`), so a run
that checks the one does not repeat the other; nor does `locks` repeat
`Exclusion`, which `DistributedLock` includes.

**How state and actions correspond to the code.** Variables have the names of
the fields they stand for (`curValue`, `maxNum`, `lastStmp`); `counter`,
`node`, `lockHolder`, `expires` are what Redis and ZooKeeper keep; `pc` says
where a thread is. A method is cut into actions only where another actor can
act: at the monitor, when a command is executed by the server, when its answer
arrives. Every remote command can fail before it is executed (`FetchThrows`
from `"fetch"`, `RequestThrows`) or after (`FetchThrows` from `"replied"`,
`AnswerLost`). `Restart` is the death of a JVM and its next start, possible at
every moment. `issued` is a history of what `next()` returned. Operators
introduced by "A defect:" (or "Defects:") are variants of the definition that follows; nothing
but the mutation table of `PROJECT.json` refers to them.

Particular to a module:

- `NumberCacheSequence`: the monitor and its threads are explicit, because the
  refill must happen once per shortage. `Reserve` is the 10 of the code.
- `ZookeeperSequencePro`: threads that wait for the monitor have no state, so
  `who` and `pc` of the thread inside it are all there is, and the number of
  callers is unbounded. The node may exist with blank data at the start because
  the lock recipe uses its path as a parent. `pending` counts the tasks queued
  in the pool: every call below the low-water mark queues one.
- `ZookeeperSequence`: one `Create` is what ZooKeeper executes, once or, after
  a lost answer, several times (`Retry`). A task of the pool thread is `List`
  and then one `Delete` per node, so that two cleaners interleave. The parent
  is also the node of `ZookeeperSequencePro` in `SequenceManager`; the children
  of its lock never start with the prefix and are left out. The create of the
  constructor is there to skip the number 0 (line 62); when it fails, which is
  swallowed, 0 is the first id (`ConstructFails`).
- `SnowFlakeSequence`: shifts and bitwise-or are a positional number, because
  the constructor bounds each field and `sequence` is masked. A restart takes
  longer than one millisecond. `Refuse` and `Spin` change nothing, as in the
  code; they make the throwing call and the loop visible.
- `MachineLease`: one clock, in seconds. `register()` retries the numbers
  `1..4097` 131072 times before it gives up; the model retries without end. A
  `setIfAbsent` whose answer is lost leaves the key and no object: that is
  `Register` followed by `Crash`. `late` and `lapsed` are histories.
- `SnowFlakeAutoSequence`: an id is the set of its 1 bits, so that the plain
  `|` of the code is a union and a part that is too wide reaches into the next.
  `LoopAssumption` ties the last machine number to `MACHINE_LEFT`, as the loop
  does. One clock serves Redis and the JVMs here; `SnowFlakeSequence`, whose
  `next()` is the same, has clocks that differ and go back.
- `RedisLock`: a call is cut where Redis executes the script and where the
  answer arrives. `depth` is what the callers believe, `holder`, `count` and
  `ttl` what Redis has. `Tick` is a unit of the lease. An inner `unlock`
  renews the lease with the watchdog's time, as the script of Redisson does.
  `lapsed` are the threads inside whose lease has ended; nobody tells them.
- `ZookeeperLock`: `nodes` is the queue under the lock's node, `local` the
  count Curator keeps per thread. `unserved` are the threads a `tryLock` let in
  without the lock, `lapsed` those whose node went with their session. Curator
  deletes the nodes it could not delete in the background (`OrphanRemoved`).
- `NumberSequence`: the field is written, compared and read in steps of their
  own; `alone` marks the calls that met no other call in their object.
- `AccountProvider`: a request stays in `requests`; `phase` is what the
  provider has done with it, `told` what its client has seen. Fields of an
  account are one value. The answer to an update or delete of an account that
  is gone is a success, as in the code. Filters of the list are left out.
- `AccountPage`: `listOf` (whose answer the list is) and `typed` (rows typed
  into since) are histories. The page's `axios` has no timeout; a lost request
  is `Fails`, if it ends at all. `el-pagination` (in the minified `element-ui`)
  has a page number of its own: `TurnTo` is what the user does there,
  `PagerFollows` its watcher of the number of pages, part of every action that
  changes total or size, and `EmitChange` the event it puts off to `nextTick`,
  which comes before anything else does (`PageStep`).
- `AccountConsumer`: `Fallback` may come at any moment of a call and leaves the
  request with the provider. The call under `/restTemplate` has neither
  timeout nor fallback, only reads, and is left out.

## 3. What the runs check

| run | instance | shows |
|---|---|---|
| `redis_order_no` | 2 JVMs x 2 threads and 2 plain callers on one key, segments of 3, reserve 2, a counter up to 7 | both sequences keep their inductive invariants (together `OrderNoIInv`), issue growing ids and refine `DistributedIds`, under lost replies and restarts; an id they share is the first of a segment |
| `zookeeper_sequence` | 3 threads in 2 JVMs, numbers 0..3, one failed pass or restart | `IInv` (growth included), implements `DistributedIds` (uniqueness included); deletes only what is older than an id returned; cleans up when nothing disturbs it |
| `pro_single` | 1 JVM, segments of 4, low water 2, one expired session | `ZookeeperSequencePro` implements `DistributedIds` when one JVM uses the node |
| `pro_shared` | 2 JVMs, segments of 3, low water 2, 3 segments, all faults but expiry | segments are disjoint, ids are issued only below the node and ids of one JVM grow (parts of `IInv`), caches and node never go back, waiters for the lock are served |
| `pro_duplicate` | 2 JVMs, 5 segments, **no fault** | **violation**: two JVMs return the same id |
| `snowflake` | 2 JVMs, 3 milliseconds, 2 numbers each, one clock set back or one restart | `IInv`; growing, implements `DistributedIds`; the spin ends |
| `snowflake_auto` | 3 JVMs, 3 machine numbers, 3 s to live, renewals up to 2 s late, one failed renewal, one crash, 3 ids | the inductive `AutoIInv`; a number is shared only after a key lapsed under one of the two; while renewals are timely, never, every JVM in service has its key, and no time, number and counter are used twice, also by who takes over a dead JVM's number; ids whose machine fits its field are distinct |
| `snowflake_auto_alias` | the same layout | **violation**: two machines issue one id |
| `locks` | 2 threads, 2 calls each, leases of 1 and 2, one fault, both locks | `RedisLock` implements `DistributedLock`; `ZookeeperLock` does for the threads it has served; Curator's count agrees with the queue of nodes; the inductive invariants of both (`IInv`, `ZkIInv`); no call waits for ever, whatever the order in which both are taken |
| `zookeeper_try_lock` | 2 threads, no fault needed | **violation**: `tryLock` lets two threads in |
| `number_sequence` | 2 objects x 2 threads, 5 calls, restarts | `IInv`; two objects return no number twice but the last; a call that met no other in its object returns a number of its own, at most the last one |
| `accounts` | page, consumer and provider, 2 accounts at first, 2 page sizes, 2 calls after the first list, at most one of them through Feign, and the reloads they cause | `IInv` (`PagerInRange` included), `ListSettles`, `ListFresh`, `SuccessKept` (below) |

`ListSettles`: when the page waits for nothing and shows the answer to the last
list it asked for, that list is newer than every write the page was told of,
and it is that page of the table, with its total, unless somebody wrote since
or the user typed into a row. `ListFresh` needs no settled page: at every moment
each row shown that was not typed into is one the table has had since its list
was begun (at the count), so a row deleted or overwritten before is not shown,
even when an older list came last or writes fell between count and select.
`SuccessKept`: a write answered with code 1 is in the table until a later write
to the same row; a deleted account never comes back. `PagerInRange`: the page
that `el-pagination` shows as the current one exists by the total of the list
shown, and is never after the page that is listed.

Bounds. `MaxCounter`, `MaxNumber`, `MaxNode`, `MaxTime`, `MaxNow` end the instance; a run
grants two or more segments, so that a cache is refilled from a partial, an
exhausted and an interrupted state, and another JVM's segment comes between.
`MaxFaults`, `MaxExpiries`, `MaxSetBacks`, `MaxRestarts`, `MaxFailures`, `MaxLate` bound
faults; restarts are unbounded where the model has no such constant. Segments
of 3 or 4 with a reserve of 2 have a first, a middle and a last id and the same
order of thresholds as 100 and 10, 1000 and 200. Two JVMs suffice to contend;
the third in `snowflake_auto` waits for a number of the others. Two threads
suffice for a lock, since a third is one more that waits; with two calls each a
thread locks again while it has the lock. In `snowflake_auto` the sequence
has 1 bit and the machine 1, so that the first number that does not fit is the
third, as 33 is with 5 bits. In `accounts` two rows
and a page size of 1 give a second page, which a delete or the other size takes
away again. The scope `OneFault` of `snowflake` leaves
out a clock set back before a restart. Overflow of a `long` and
of the 41-bit time stamp lies beyond any bound and is not modelled.

The violations, in words:

- *Prefetch* (`ZookeeperSequencePro.java:104`): a prefetch leaves `curNum`
  where it is and sets `maxNum` to the end of the new segment. When another JVM
  was granted a segment in between, the cache runs through it. No fault is
  needed; only `IncreasingIds` survives with two JVMs.
- *Alias* (`SnowFlakeAutoSequence.java:64`): the loop is bounded by
  `1 << MACHINE_LEFT`, the shift, where `MACHINE_BIT` is meant, and the data
  center never changes because line 41 increments the field and line 44 passes
  the local variable. Machine 33 issues the ids of machine 1.
- *Timeout* (`ZookeeperLock.java:82`): the result of `acquire` is not looked
  at, and `tryLock` answers true when its time is up.

Known limits that the properties take as conditions, instead of showing them in
runs of their own:

- *One key* (`RedisSequence.java:21`, `NumberCacheSequence.java:26`): both build
  the key of one name and count on it, one returning the counter after, the
  other from before its increment. Each is correct on its own (`UniqueIds` and
  `PlainIInv`), but the number at which a run of increments ends and a segment
  starts is issued by both; `SharedIdStartsSegment` says that nothing else is.
- *Cleaners* (`ZookeeperSequence.java:91`): of two cleaners that list the same
  children, one finds a node gone and ends its pass; older nodes stay until the
  next call, against line 21. `CleanUndisturbed` excludes a pass cut short.
- *Restart* (`SnowFlakeSequence.java:79`): `lastStmp` is only in memory; a clock
  set back is accepted after a restart and ids repeat.
- *Renewal* (`SnowFlakeAutoSequence.java:82`): after one failed renewal another
  JVM can register the number, and the next renewal takes the key back whoever
  has it by then; both keep the number.
- *Messages of the page* (`index.html:208`, `224`, `233`): an answer with code 0
  is announced as a success, and so is an update of an account that is gone.
  `SuccessKept` speaks of code 1.
- *The pager* (`index.html:65`): when the last page loses its rows,
  `el-pagination` shows an earlier page and does not tell; `pageNo` and the
  empty list stay until the user turns the page. Only after a change of the
  size does it send `current-change`.
- *Order of answers* (`index.html:183`): an older list that arrives last stays
  on the screen; `ListSettles` is about the other case, and `ListFresh` bounds how
  old its rows can be: not older than that list.
- *The dialog* (`index.html:225`, `234`): an answer closes whichever dialog is
  open by then; a record is sent whole, and undoes what others have changed in
  it since the list was read.
- *Within an object* `NumberSequence` (`NumberSequence.java:33`) may return one
  number twice, or none of its own, when calls race.

Two JVMs that build `SnowFlakeSequence(1, 1)`, as `SequenceManager.java:12`
does in each of them, repeat ids immediately; the instances give them distinct
pairs, as `SnowFlakeSequence.java:83` asks.

## 4. Fairness

Safety is checked and proved without fairness. For liveness:

- `ZookeeperSequencePro`: weak fairness of the steps of a thread inside the
  monitor (a request returns or throws; the finally block runs; a value is
  taken) and of the removal of leases whose session ended or whose delete
  failed (ZooKeeper expires dead sessions; Curator's guaranteed delete
  retries). Strong fairness of `Acquire`: the recipe queues its waiters by
  sequential nodes, so none is overtaken for ever. Nobody is obliged to call
  `next()`.
- `LockeManager` (`CallsEnd`): Redis and ZooKeeper execute what they were asked,
  leases run out, nodes of dead sessions are removed; and who has a lock
  unlocks it sooner or later (`CallersUnlock`, strong because a thread may be in
  a call of the other lock), which every caller in the repository does in a
  `finally` block. For `RedisLock` the lease would do without; `ZookeeperLock`
  has none, although `IDistributedLock.java:11` promises a default.
- `SnowFlakeSequence`: clocks advance and a runnable thread runs. `SpinEnds`
  speaks of milliseconds the instance can reach. The action constraint
  `OneFaultStep` of `MCSnowFlakeSequence` leaves out a second fault; faults are
  never fair, so it removes no step that liveness relies on.

## 5. What is proved

TLAPS checks these for every value of the constants. The assumptions are the
named `ASSUME`s on constants, which TLC evaluates: sizes are positive, bounds
are natural numbers, a model value such as `NoThread` is not a thread, the
constructor of `SnowFlakeSequence` has accepted its numbers, a field has a
number of bits (`BitAssumption`), the table of `Accounts` starts with accounts
and its page sizes have a smallest and a largest. One is a fact of arithmetic,
which the provers do not know because they know nothing of `^`: `2 ^ 0` is 1 and
each power of two is twice the one before (`PowerAssumption`, up to a bound that
the constants give). Where a theorem has a further hypothesis, it is named below. Every
inductive invariant is also an invariant of a run.

Sequences:

- `RedisOrderNo_proofs`, first each sequence on a counter of its own, then both
  on one. `UniqueIds` of the cached sequence is not inductive: the invariant
  adds that the threads outside `"idle"` are exactly the one in the monitor,
  that nothing at or beyond the counter is held or issued, and that what a JVM
  *holds* (cached, or granted in a reply under way) nobody else holds or has
  issued and is above all the JVM has issued. Each action then moves ids from
  "not granted" to "in reply" to "cached" to "issued", or drops them. Of the
  plain sequence a reply under way is held by one caller and is above what it
  received before. On the shared counter both keep these invariants, because
  they only need that it never goes back. `SharedIdStartsSegment` follows from
  `ApartInv`: an id that was granted in a segment is never one less than an
  answer to an increment. Both refine `DistributedIds`, which implies that ids
  are unique (`AbstractUnique`): an id nobody has keeps them so, one above all
  that its client has keeps them growing.
- `NumberSequence_proofs`: `IInv`, `ObjectsDistinct` and `AloneCorrect`. A
  number under way is in no field and on its way to nobody
  else (`SentInv`); a number in a field is in no other object's and was
  returned by no other (`OwnFieldInv`); a call marked alone is the only one in
  its object, and what it has stored is not returned yet (`AloneInv`); what such
  a call returned stays in the field, but every later call overwrites it before
  it reads (`SpentInv`), which is why a race before or after does no harm.
- `ZookeeperSequence_proofs`: `IInv`, `DeletedWereOlder`, `CleanUndisturbed`
  and the refinement. A number between its creation and the return of its call
  is that thread's alone and above all it received (`CreatedInv`); every queued
  task and every pass at work comes from a call that has returned, so what it
  may delete is outdated for good (`TasksInv`); and every node is the newest or
  will be met by a task that is queued or at work, unless a pass was cut short
  (`CoverInv`).
- `ZookeeperSequencePro_proofs`: `IInv`, `SegmentsExclusive`, `IncreasingIds`
  and `NeverBack`, when sessions do not expire under a holder or there is one
  JVM (`Protected`, a condition on the constants; the model allows an expired
  session otherwise, and then they are false). The invariant says that a JVM
  between acquire and release owns the lease, so what it read from the node is
  still there when it writes, that every granted segment ends at or below the
  node, and that ids are issued from the cache, below the node and in order. A
  single JVM refines `DistributedIds`, with expired sessions (with two it does
  not: `pro_duplicate`).
- `SnowFlakeSequence_proofs`: `IInv`, that ids of a JVM grow, and the
  refinement. Every id issued is the packed numbers of its JVM with a time and
  a number in the JVM's *past* (`StampInv`): before `lastStmp`, or in that
  millisecond and not above `sequence`; packing is injective and monotone while
  the fields are in their bounds. Growth and refinement have the hypothesis
  that clocks set back and restarts do not both happen (`OneFault`), which the
  known limit *Restart* requires; the refinement also that no two JVMs have the
  same pair of numbers (`DistinctNumbers`).
- `SnowFlakeAutoSequence_proofs`: of the registration `TypeOK`;
  `SharedOnlyAfterLapse`, because who is up and has not lapsed still has its
  key; `DistinctWhileTimely` and `RegisteredWhileTimely`, because a timely
  renewal is due before the key expires. The sequence refines its registration
  step by step, so these hold of it too (`AutoLease`). `PartsUnique`: while
  renewals are timely, what was issued under a machine number was issued before
  its key expires, and is in the past of the JVM that has the number now, even
  if it took it over (`IssuedInv`). `IdsUniqueWhenFitting` follows from it,
  because an id shows its parts (`PackTells`): below `MachineLeft` there are only
  the bits of the sequence, since a number below `2 ^ k` has none from `k` on;
  from there to `DatacenterLeft` those of the machine, except that `2 ^
  MachineBit`, whose one bit falls on the data center's, is told from the others
  by having none; and from `TimestmpLeft` on those of the time. Numbers with the
  same bits are equal (`BitsDetermine`). These are inductions over numbers, which
  the provers do not do; they argue with the least number for which the claim
  fails (`Least`, from the library's theorem that `<` is well-founded).

Locks (`LockeManager_proofs`), with threads that take both:

- `RedisLock`: `Exclusion` is not inductive: the invariant adds that Redis
  counts at least as many locks of a thread as the thread has, including the
  one whose answer or whose `unlock` is under way, or the last `unlock` but one
  would let somebody in. A lost answer leaves Redis with more, never less. It
  refines `DistributedLock`.
- `ZookeeperLock`: a thread has one node, only while it waits or has the lock
  (`NodesInv`), and who was served has the first, until its session expires.
  From that follow `ZkLocalAgrees` and the refinement for the threads it has
  served, in which the removal of the first node is what ends a lock.

Accounts (`Accounts_proofs`):

- `SuccessKept`: kept from the moment the statement is executed, before anybody
  is told (`WritesInv`); a later write to the row has a later number, an id is
  never used again, and no statement brings back a deleted row.
- `ListSettles`: until the next write, a list that was counted has the total of
  the table and one that was selected is its page (`ReadsInv`); the list shown
  is the one that was answered but for what was typed (`ShownInv`); and the last
  list the page asked for is for the page it is at and was not begun before a
  write the page was told of (`NewestInv`), because each such answer sends a
  list. That a page has at most its size of rows, all of them there, is counted
  with the ranks of `Page`, which tell rows apart.
- `ListFresh`: what the table has is what the last write to each row has left, and
  an answer under way has rows the table has had since the list was begun
  (`VersionsInv`); a later write leaves that true, because it has a later number
  (`WriteHad`), and an answer that is shown is not counted again (`ShownSame`).
- `PagerInRange`: part of the inductive invariant; every step that changes total
  or size moves the current page back (`PagerFollowed`), and a turn is to a page
  there is (`Turns`).

Only model-checked:

- `SpinEnds`, `LockServesWaiters`, `CallsEnd`: liveness under fairness is out of
  the prover's reach.

## 6. Abstractions and omissions

Redis and ZooKeeper are linearizable objects that keep their data; a Redis
failover that forgets a counter is not modelled, nor is a Curator lease created
by an `acquire` whose answer was lost. With two JVMs and an expired session
`setData` without a version repeats segments; the proved and checked statements
name the hypothesis that excludes it.

Further: `RedisLock` leaves out a lease of 0 (`tryLock(0)`), which Redis expires
at once; sessions of `ZookeeperLock` expire thread by thread; the clocks of
several hosts that take over a machine number from each other are one clock; the
page's query fields and the columns of a row are one value; the page starts with
the smallest page size, not with 10 (`index.html:121`), and every other size is a
change away; and Redis executes a script of Redisson at most once, although
Redisson may send an `unlock` again that was not answered in time.

Not modelled, with the reason in `PROJECT.json`: the static initialisers of
`SequenceManager` (each fails or succeeds once per JVM), the sequences that
format strings, `SpringContextHolder`, the lifetime of a token (a constant of
`JwtService`, 2.4 hours where line 25 says a day), gateway and security configuration, value
classes, third-party code other than `el-pagination`.

## 7. Plan

What can be modelled faithfully is, and every safety property a run checks is
proved. A change of the code starts at the lines `PROJECT.json` maps: the action
changes first, then the run, then the step of the proof that names the action.
