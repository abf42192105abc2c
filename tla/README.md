# A verification project for apt-cacher-ng

apt-cacher-ng is a caching proxy for package archives. Clients connect over
HTTP; each connection gets a thread that turns requests into *jobs*; a job
shares a *cache item* with every other job for the same path; an item that is
not complete on disk is filled by a *downloader* thread from an upstream mirror
while its readers already send the data on. This directory holds TLA+ models of
that machinery, the TLC configurations that check them, and TLAPS proofs.

Lines are those of the repository's `src/` directory; `PROJECT.json` maps every
definition of a module to the lines it stands for.

## 1. Inventory

| Component | State it keeps | Operations | Talks to |
|---|---|---|---|
| connection server (`conserver.cc`, `apt-cacher.cc`) | listening sockets and their events | accept, resume after exhaustion, finish a connection, shut down | event loop, thread pool |
| thread pool (`tpool.cc`) | two counters, a queue of closures, a shutdown flag, one condition variable | `schedule`, `ThreadAction`, `stop` | connection server |
| event base (`evabase.cc`, `ebrunner.cc`) | the libevent base, the list of posted actions, `in_shutdown` | `MainLoop`, `Post`, `SignalStop` | everyone |
| client connection and jobs (`conn.cc`, `job.cc`) | queue of jobs, send position, its downloader | read a request, select an item, wait for data, send, time out | registry, items, downloader |
| item registry (`acregistry.cc`) | map from path to item, users per item, prolonged queue | `Create` (two forms), holder destructor, `BackgroundCleanup` | jobs, cleaner |
| items and storage (`fileitem.cc`) | status, sizes, destroy mode; data file and `.head` file | `Setup`, `DlStarted`, `DlAddData`, `DlFinish`, `DlSetError`, `MarkFaulty`, destructor | jobs, downloader, disk |
| downloader (`dlcon.cc`) | new jobs, pipeline of requested jobs, control hint, blacklist of mirrors | `AddJob`, `WorkLoop`, header and body processing, resume, `SignalStop` | items, upstream connections |
| upstream connections (`tcpconnect.cc`, `aconnect.cc`, `atcpstream.cc`) | pool of idle connections with limits and age | connect with fallback addresses, recycle, `BackgroundCleanup` | DNS cache, cleaner |
| DNS cache (`caddrinfo.cc`) | resolved and pending names, expiration queue | `Resolve`, completion, expiration | event loop |
| cleaner (`cleaner.cc`) | one time stamp per component, a thread | `ScheduleFor`, `WorkLoop`, `Stop` | registry, upstream pool, DNS cache |
| HTTP header, buffers (`header.cc`, `acbuf.cc`) | parsed fields, a byte buffer | parse, load, store | items, downloader |
| maintenance (`maintenance.cc`, `bgtask.cc`, `cacheman.cc`, `expiration.cc`, ...) | one exclusive task, the expiration list | expiration in two passes, mirror, import, report | items, downloader |
| remote database (`remotedb.cc`) | mirror groups, hooks with a user count | lookup, hooks | jobs, downloader |
| configuration, logging, readers, tools | static data | parse, print | everyone |

What is hard about it:

* **Concurrency.** Connection threads, one downloader thread per connection, the
  cleaner thread and the event loop share items through three kinds of locks;
  the holder's destructor looks at the item before it has any.
* **Failure.** Thread creation, memory, descriptors, the upstream connection and
  the disk may fail between any two steps; data and header files are written
  separately, and the program may be killed at any time.
* **Ordering and time.** Stale snapshots are merged with new requests in the
  cleaner; expiration depends on a wall clock that may be set back; pipelined
  responses are matched to jobs by order.
* **Limits.** Threads, idle connections and descriptors are bounded by tests that
  are not atomic with what they bound.

What makes each part correct:

* registry: the map, the items' back references and the user counts agree in
  every interleaving; an item leaves the map once, with its last user or when it
  is displaced; nobody's item is stopped under him.
* pool: counters equal thread numbers; accepted work has a thread on its way to
  it; nothing starts after `stop()`; `stop()` returns.
* server: every accepted descriptor has exactly one owner, every accepted client is
  served, and the shutdown returns, but for the cases that section 5 lists.
* cleaner: no request is lost in the merge, no sleep outlasts a request.
* items, readers, downloaders: one writer per item; the checked size never
  shrinks under a reader; nobody waits for an item that no downloader has; what
  a client receives as a complete file is one version of it, whole.
* pipeline: a job gets the answer to its own request; a connection goes back to
  the pool only when nothing is outstanding on it; every job ends.
* client connection: the client can tell where each response ends; every byte of
  a job is accounted for; a request is answered or the connection closed.
* upstream pool, DNS: a downloader reaches the peer it asked for; idle
  connections end; everybody who waits for a name or a socket is answered.
* maintenance: one task at a time; every group of index files in the cache is
  read before packages are judged; nothing is removed before its time.

`PROJECT.json` lists the hazards line by line, with the properties that cover
them; a hazard without a property has a note that says why.

## 2. The modules and the code

### FileItemStates, ItemRegistry (`acregistry.cc`, parts of `fileitem.cc`)

`FileItemStates` has the status order, the destroy modes and the three ways to
ask for an item. In `ItemRegistry`, `item` are the item objects (status, user
count, owner reference, start time, destroy mode), `mapItems` the registry's
map, `holder` the `TFileItemHolder` objects, `prolongedQ` the queue of volatile
items that are kept for a while. `Create` is split by its outcome: `CreateNew`,
`CreateShare`, `CreateNoStore`, `CreateMakeWay`, `CreateCustom` and
`CreateCustomConflict`; it runs under the registry's mutex and is one step. The
holder's destructor is two steps, because it reads `m_owner` before it has any
lock (`HolderDtorReadOwner`) and acts on it afterwards (`HolderDtorStillUsed`,
`HolderDtorProlong`, `HolderDtorUnreg`, `HolderDtorUnowned`). `mapItems.erase`
of an entry that is not there is undefined behaviour: it sets `corrupted`, and
the model says nothing of what follows. A failing `link` or `unlink` in
`Create` returns an empty holder and changes nothing. `nRangeLimit` and
`m_bCreateItemMustDisplace` are never set by the code, so that the branches of
`Create` that test them are left out.

### Executor, ThreadPool (`tpool.cc`, `lockable.h`)

`ThreadPool` has the pool's two counters, queue and flag, the place of every
thread in `ThreadAction` and of the caller of `stop()`. A critical section is
one step; a wait is a step into `"waiting"`, left by a notification or by a
spurious wake-up. Thread creation and memory may fail at every call of
`schedule` (`ScheduleNoMem` leaves a thread without work behind, as the code
does). `Executor` is what users of the pool rely on: works are accepted once,
started in order of acceptance, never after `stop()`, and none runs when
`stop()` has returned. `ThreadPool` implements it with the mapping that reads
the queue and the running works off the pool's state.

### ConServer (`conserver.cc`, `apt-cacher.cc`)

`ConServer` extends `ThreadPool`: a work is a client's connection, `fd` says who
has its descriptor, `held` what keeps the connection from ending, `listener` whether
the listening event is armed, waits for its timer, or is dead because the timer could
not be made (the result of `event_base_once` is ignored). Accepting, refusing, pausing
on exhaustion and `cb_resume` are the steps of the event loop; `ConnBegin`, `ConnHold`,
`ConnEnd` and `ConnFail` those of a pool thread; `TermSocket` the graceful close in the
event loop; `Shutdown` the destructor that stops the pool. A connection is held in a
tunnel, until one of its peers ends it, or by a downloader that waits for the event
loop to connect it, until `ConnAnswered`, which needs a loop that runs. A descriptor
that nobody knows any more is `"lost"`: that of a client whom the pool refused, and
that of a connection that ended after the loop.

### Cleaner (`cleaner.cc`)

The thread's pass is split where it gives up the mutex: the time, the snapshot
and reset of the stamps, one step per component, the merge, the wait. `request`
is a history variable: the earliest time each component asked for and was not
called since. The components' own work is only the time they return.

### ItemTransfer (`fileitem.cc`, `dlcon.cc`, `job.cc`, `conn.cc`, `httpdate.cc`)

One path of a solid file; clients that want all of it, each with its downloader;
the item objects between them; the data file and the `.head` file. A version of
the upstream file is a sequence of blocks marked with the version; a version's
number is its date.

* `item` has what the transfer needs of a fileitem: status, `cached`
  (`m_nSizeCachedInitial`), `checked` (`m_nSizeChecked`), `clen`
  (`m_nContentLength`), `date` (`m_responseModDate`), `good` (the response
  status is 200), `vol`, `replace` (`m_bWriterMustReplaceFile`), `fd`.
* `job` is a `tDlJob`: queued, request sent, body, broken. `AppendRequest` picks
  the range; `Header200`, `Header206`, `Header206Unexpected`, `Header416`,
  `Header416Restart`, `HeaderError`, `HeaderErrorResuming`, `HeaderProbe` and
  `HeaderBusy` are the branches of `CheckAndSaveHeader`, each with the calls of
  `DlStarted`, `DlFinish` and `DlSetError` it makes; `OpenNew`, `OpenInPlace`,
  `AddData` and the error steps are `DlAddData` with `SafeOpenOutFile`;
  `FirstWriteFails` is the end of it between the stored `.head` file and the first
  block, by an error or a kill; `FirstWriteInterrupted` and `AddDataInterrupted` are
  writes that return -1 with EINTR or EAGAIN;
  `Requeue`, `JobDies`, `FinishJob` the ways a response ends.
* `reader` is a `job` of a client: waiting, sending plain or in chunks. What it
  saw under the item's lock (`lim`, `final`) is used in a later step, from a
  file that it opens by path.
* `Prepare` is `Create` and `Setup` in one step; with one path and
  ALWAYS_TRY_SHARING nothing that happens between the two can tell. The wait for
  the first data and `CookResponseHeader` are one step for the same reason.
* `Crash` kills the program during a transfer. A block or a header is written
  as a whole. At other times a crash leaves the disk as if all had left.

An interrupted write is a constant of the model, `Interrupts`: its result is added
to `m_nSizeChecked` and moves the start of the chunk, so that the next write begins with
a byte that stands before the chunk in memory. In the end the checked size is right
again and the file is one further than it; `ahead` has the items of which that is so.
The bound: once for an open file.

The code has five known ways to end up with a damaged file. They are steps of
the model, and `suspect` remembers that one was taken:

1. *misled*: an error reply to a resume request (section 5);
2. *overlay*: the header of a new version is stored over a file that has blocks of
   another one, and the transfer does not get to their end, or not even to its first
   block (`fileitem.cc:343-369` replaces a file only when it is larger, although the
   comment says that replacing is safer; section 5 says what comes of it);
3. *revived*: `SafeOpenOutFile` sets `FIST_DLRECEIVING` whatever the status
   was, so the downloader of an item that its last user stopped may write, or
   lose, the file that a new item of the same path has by then;
4. *false probe*: a download that was started again from zero, in chunks and
   into a new file, and is lost one byte short of the old size, is resumed at
   that position, and `dlcon.cc:817` takes the answer for that of a probe: the
   item is complete with the old size, the file is one byte short of it, and a
   reader of the missing byte calls `sendfile` over and over;
5. *slipped*: an interrupted write, as above.

`DiskSound`, `CheckedIsReadable` and `DeliveredWhole` say that there is no
sixth way. Left out: HEAD and range requests and pass-through items (they are
in `ClientConn`), several jobs on one upstream connection (`DlPipeline`),
volatile files, a server without Last-Modified or with a 206 in chunks.

### DlPipeline (`dlcon.cc`)

One downloader thread: `WorkLoop` and `ExchangeData` complete, `ProcessIncomming`
as far as it decides on framing, redirection and the fate of a job. `pc` is the
place in the loop: `top` (stop, take over new jobs), `connect` and `dial` (choose
mirrors, connect or reuse a pooled connection), `fill` (move jobs into the
pipeline), `select` (wait, read, process one token of the buffer after the
other), `result` (what the flags returned by `ExchangeData` lead to). The stream
from the server is a sequence of tokens (header, piece of a body, last chunk,
junk); each says which file it belongs to, which the program cannot see. `wire`
is what the server has yet to answer or to deliver, `inBuf` what was read,
`idle` what is outstanding on the pooled connection of a host. `got` remembers
the files whose data went into each job's item. Two known ways to lose the
framing are steps of the model that `taint` remembers: a redirection header that
stays in the buffer and rewrites the other jobs of the pipeline
(*redirected*), and a failed redirection or an invalid chunk, after which the
connection stays in use with the rest of the response in it (*unframed*). What a
header means for the item is left to `ItemTransfer`; here it is accepted,
refused, or the item is busy. A status below 200 is a *hint* that may come before the
answer to a job of `Hinted`, with or without `Connection: close` (`ProcHint`). Without it
`ExchangeData` takes HINT_MORE for a lack of data and goes to `select` whatever is in the
buffer: that is the place `wait`. With it `WorkLoop` notes that the server will close and
continues; the jobs of the pipeline are not requested again, since HINT_MORE leads back
to the loop's start (`dlcon.cc:1761`) before they would be. A 416 for an item that nobody
has begun is tried again as often as the server answers so (`ProcRestart`). HEAD jobs are
left out: no caller sets `bHeadOnly`. `AddJob` and `SignalStop` are called by one client
thread, and what they do is seen only where the loop looks at it.

### ClientConn (`conn.cc`, `job.cc`, parts of `header.cc`, `aclogger.cc`)

One client connection. `script` are the requests the client will send, pipelined
or not (method, kind of target, range, Cache-Control, Connection, version); `jobs`
is `m_jobs2send`; `wire` the responses as the client sees them, each with the
length that its header announces and the bytes that followed; `lg` the accounting
of `LogDataCounts`. `Prepare` has the tests of `job::Prepare` in their order and
yields every job that can result; items are reduced to status, size, length and
kind of response, and `ItemStep` lets somebody else's downloader go on. `Flush`,
`CookResponseHeader`, `SendBody`, `ChunkHeader`, `ChunkData`, `Finish` and `Sudden`
are the branches of `SendData`. CONNECT, POST and unreadable requests end the
connection (`Leave`); the redirection of a POST, the refusal of a CONNECT and what comes
through a tunnel are written past the queue of jobs, `past` is the request they answer.
A maintenance page goes to the client directly, too (`MaintWork`), and neither is in the
log. `cut` marks an item whose file has become shorter than its checked size: `sendfile`
returns 0 and the job is tried again without end. Responses to HEAD have no body for the client, whatever they
announce, and the responses the code is known to frame badly (section 5) are
excepted in `Framed`, by name.

### ConnPool (`tcpconnect.cc`, `remotedb.cc`, `cleaner.cc`)

`con` is the connection object of a user, with the name it goes by (`host`), the
host its user wants and the one it reaches (`peer`); `pool` is `spareConPool` in
the order of the multimap; `hook` the use count and the timer of a repository's
hooks; `due` the cleaner's stamps for both. TLS is its outcome. The cleaner is
taken from `Cleaner`'s promise: it is never a full second late. `Retained`, of the small
module `Selections`, is what is left of a list when a loop has erased some of it; the
downloader's queues use it, too.

### DnsCache (`caddrinfo.cc`, `aconnect.cc`, `evabase.cc`)

`con` is a thread that waits for an `aconnector` and the aconnector itself:
posted to the event thread, waiting for the name, connecting with `cand`
addresses untried and `pend` sockets pending. `look` are the running lookups with
their callbacks and tasks, `cache` and `expq` the cache. Everything but `Connect`
and `Taken` happens in the event thread.

### IndexUpdate (`cacheman.cc`)

`UpdateVolatileFiles` and `ProcessSeenIndexFiles` for one suite: its two release
files, the variants of one index file, a list of diffs. `disk` has the version of
each file, `fl` the flags of `tIfileAttribs`. The steps are those of the code:
release files and by-hash names (`RestoreFiles`, `UpdateRelease`,
`FixMissingByHashLinks`), groups of equivalent files (`ExtractGroups`, `FetchBase`,
`SyncGroups`, `ShareKnowledge`), patching (`PatchFresh`, `PatchWorks`,
`InstallPatched`), the downloads of a group and of the rest, reading. A loop over
files is one step per file that it does something with: `todo` is what it has still
to visit, `First` the next such file, and the step that ends the loop is taken when
there is none (`Ahead`). `SyncSiblings` is the one operation by which a fresh variant
disables its siblings or gives them a copy. A download is a *plan*: what became of the request and of the one for
the alternative name. `Download` returns OK for failed ones, too, as the code
does. What the parsers extract from a file is abstracted to the fact that it was
read (`heard`); the digests by which the code compares files are versions. `Inject` may
fail at any copy (`Lost`, `InstallFails`). Errors are forgiven of the list of diffs, of
the files of `ignore_list` (`given.ignored`) and of files that the walk only pretends to
have (`given.wanted`, the installer's SHA256SUMS); `spared` remembers the files that
were not read for that reason. `muted` remembers the one known way to lose a group
otherwise: a fresh variant that was disabled itself disables the one that was to be read
in its place. Clients do not fetch index files between the installation of patches and
the end, the servers' version does not change during a run, and a file that was cut off
unnoticed is not told from a whole one.

### MaintTask, Expiration (`bgtask.cc`, `maintenance.cc`, `expiration.cc`, `showinfo.cc`)

`MaintTask` is the life of a detachable task: registration, work, listeners that
follow its log, abort. `Expiration` extends it with the work itself: the trade-off
check, the walk, the update of index files (its outcome only), reading
(`HandlePkgEntry`), the merge of dates from `_expending_dat`, the review, the fail
count; the purge and truncate tasks; `tDeleter`, which runs without registration.
Time is days; a date is how many days ago a file was first found unreferenced.
Days also pass while a task runs, since its clock `m_gMaintTimeNow` is a global that
every maintenance request sets; the last pass over the candidates is taken to end
within a day, and the clock does not go back. `since` is the true history that the
dates are compared with. A crash may lose any part of the list that is being written.
`Exceptional` is `DropExceptionalVersions`: the .deb names of the hash map, in its
order `Order`, form groups (`Group`); the highest versions of each are dated anew,
names that are in the map only because `_expending_dat` lists them (`Entries`) or
because an index refers to them included.

## 3. The runs

| Run | Instance | States | What it shows |
|---|---|---|---|
| `registry` | 1 path, 2 items, 2 users, 2 times, GET and HEAD of a volatile file, custom items | 600 000 | the safety invariants of the registry and `LeavesMapForGood` |
| `server` | 2 threads, 3 clients | 24 000 | counters, wake-ups, refinement of `Executor`; one owner per descriptor, liveness of service and shutdown |
| `cleaner` | 2 components, times 0..2 | 400 000 | no request forgotten or overslept, liveness |
| `transfer` | 2 clients and downloaders, 1 item, versions of 1 and 2 blocks, interrupted writes | 1.6 million | one writer, no orphaned reader, lengths stay, the checked size grows, disk and delivery are sound |
| `pipeline` | 2 jobs, 2 mirrors, redirections to the second, hints for one job | 873 000 | `OwnAnswer`, `IdleClean`, `JobsEnd` |
| `client` | 2 requests, files of 2 bytes | 278 000 | `Framed`, `Accounted`, and `Served` |
| `connpool` | 3 users, 2 hosts, a pool of 2 | 1.3 million | `RightPeer`, `LinkUp`, `IdleEnds` |
| `dns` | 2 users, 2 names, 2 tasks per lookup | 111 000 | `Answered` |
| `indexupdate` | 6 files, 2 versions, 1 fault, 1 client | 2 million | `GroupHeard`, `CoverKept` |
| `expiration` | 2 sessions, 2 packages, 2 events | 471 000 | `OneWorker`, `NoEarlyRemoval`, `OrphanGoes` |

Violations, which show where the code is at odds with its comments (section 5):

| Run | Property | Instance |
|---|---|---|
| `registry_double_unreg` | `NoDoubleUnreg` | 1 path, 2 items |
| `indexupdate_read` | `GroupRead` | as `indexupdate` |

Each module's `TypeOK` documents its state; that of the registry, the pool, the
cleaner, the transfer and the upstream pool is proved (section 4); those of `ClientConn`
and `IndexUpdate` are parts of the proved invariants. None is the property of a run.

*Are the bounds enough?* Registry: a race needs one user who leaves and one
who shares or displaces, and an old and a new item of one path; paths do not
interact. A third user, who stays on the displaced item, adds no violation
(the complete search has 1.4 million states and takes five minutes), and the
theorems of section 4 cover any number of users, items and paths. Two times give a fresh and a stuck item and a clock that goes back.
Server and pool: three clients against two threads have works queue, threads stay,
leave and be created, and one client refused; MaxSpare 1 and MaxCount 3 put both limits in
reach. The server schedules nothing after `stop()`; that the pool keeps its promise then,
too, is proved of the pool by itself (`PoolImplementsExecutor`). Cleaner: two
components are enough for the minimum over several and for a request that meets
a pass at either of them; `MaxWait` caps the wait as the code's 84600 seconds
do. Transfer: two jobs of one item compete for it, and one item object sees all
of its life, deleted and created again included. A first version of one block
is cached, complete or without a known length, when the file becomes longer; two blocks
have a reader and a loss between them. With a second version of three blocks, which lets a
restart from zero be lost short of the cached size, the complete search has 4.5 million
states, takes more than four minutes and violates nothing; the theorems hold for any
lengths. An old and a new item together meet only
on disk, and only when the old one is revived (way 3): an instance with two
items, versions `<<2, 2>>` and three files is too large for a complete search;
its first 6.5 million states (26 steps deep) and random behaviours of 80 steps
(45 million states) violate none of the properties. Pipeline: two requests
are what an answer can be mistaken between; a job in backend mode and one with a
URL of its own, two mirrors and a redirection reach every branch of the loop;
`MaxRetry` 1 and `RedirMax` 2 let each retry happen once and run out. Hints for one job
are enough to shift the other one's answer. The run has no proxy: with an optional one
the search, with its temporal property, takes too long; `OwnAnswer` and `IdleClean` are
proved with any proxy. Client:
framing is about a response and the one after it, so that two requests are
enough; the scripts pair ordinary requests with one of each other kind. A file
of two bytes has a first and a last one; `MaxData` bounds the chunks of a
response to HEAD (section 5). Connection pool: two connections fill it, a third
user is refused a place; `Expire` 4 has the cleaner come (every 4/4 + 1 seconds)
while entries are young and after they expire. DNS: two users share or do not
share a lookup, and `CacheMax` 3 has the second name throw the first one out.
Index update: `MCStarts` has every mixture of missing, old and current variants,
diffs and by-hash copies, and every option on some of them. Expiration:
`MaxEvents` counts what users, crashes and the archive do; two of them meet at
any point of a run, while days, traffic and the daily task go on without bound.
`MCForgiving` adds the hints to the update's starts.

*Deadlock* is checked in `connpool`. Elsewhere the system may stop: the pool is
stopped, the registry's clock and the finite sets of works, times, jobs and
requests run out, a task ends, and a proxy without clients is idle.

*Fairness.* Pool: a thread that can have the mutex gets it, and a running work
ends once `m_shutdown` is set, because a connection thread looks at
`in_shutdown` at each return from `select`, at most seconds later; before that
a work may run for ever. Server: in addition the event loop runs `cb_resume`'s
timer, the termination of sockets and, as long as it runs, answers connects, and
the destructor calls `Shutdown`; a connection ends at shutdown only when nothing
holds it, since a tunnel's `select` has no timeout and `~conn` joins a downloader that
may wait for a loop that was left. No client or server is assumed to send or to leave,
and `ServerStops` names the exception. Cleaner: the thread goes on, time goes
on, and `join` returns when the thread has ended. `StopReturns` of the cleaner
holds because its wait is bounded: the code tests `m_terminating` before it
takes the mutex for the wait, so a `Stop()` in between is seen only when the
wait times out, up to 84600 seconds later. Pipeline: the downloader's thread
runs, `select` returns at the latest when it times out; nothing is assumed of
servers and clients. The exception that `JobsEnd` names are servers that send hints, or
a 416 with `Connection: close`, again and again: neither uses up `nLostConTolerance`. Client: the connection's thread runs; items may stay as they
are for ever, which is what the wait's timeout is for; a file that was cut is the
exception that `Served` names. DNS: the event thread runs,
time passes, c-ares answers every query or times out, and a pending socket has an
event at the latest at its timeout. Expiration: the daily cron job asks for a run
again and again, registered tasks run and end, days pass, and clients download
something (the trade-off check needs it).

Every property has a mutant: an operator named for a plausible bug ("Bug for the
mutation check") that stands before the definition it replaces, under which TLC
finds the property violated.

## 4. What is proved

`ItemRegistryProofs`, `ConServerProofs` (the server and the thread pool under it),
`ItemTransferProofs`, `DlPipelineProofs`, `ClientConnProofs`, `ConnPoolProofs` (the
upstream pool and the cleaner that serves it), `IndexUpdateProofs` and
`ExpirationProofs` hold for any values of the constants that satisfy the assumptions of
the modules they are about: finite sets of users and threads, natural numbers for limits
and times, versions with at least one block, mirrors that are not the null pointer, a
clock past any configured delay, task ids that are not zero, names of index files that
are different from one another.

* **Registry.** `IInv == BaseInv /\ (~corrupted => SafeInv)`. `BaseInv` is what
  holds come what may (types, holders refer to items, the queue's entries are
  exactly the waiting holders). `SafeInv` holds until the undefined `erase`: the
  map and the owner references mirror each other, a holder that has read an
  owner holds a counted item, the count is that of the counted holders, stopped
  items have none, registered ones have one. Counts are cardinalities, so
  each step has a lemma on what adding or removing one holder does to the set of
  users. Proved: `TypeCorrect`, `MapAlwaysConsistent`, `UserCountCorrect`,
  `StoppedItemsUnused`, `RegisteredItemsUsed`, `QueueAlwaysConsistent`,
  `ItemsLeaveForGood`.
* **Pool.** `CountsExact` is inductive with types, `WorkOwned` (a thread has a
  work exactly while it runs) and `StopInv` (what a stopped pool has left);
  `QueueServed`, `NoLostWakeup` and `IdleBounded` are added on top, and
  `OnePlace` (a work is offered, queued, running or finished, once) is what the
  refinement needs. `PoolImplementsExecutor` maps each step to a step of
  `Executor` or a stutter.
* **Server.** `ConInv` adds to the pool's invariant that the state of a client's
  descriptor and the place of its closure agree (`Owners`: queued exactly while the
  closure is in `m_freshWork`, served exactly while a thread has it). Every step of the
  server is a step of the pool or leaves it alone, which also gives the pool's promise
  under the server (`ServerUsesExecutor`). That a closure has one place is the pool's
  `OnePlace`; with it `Owners` becomes the counts of `OneOwner`: exactly one place for a
  descriptor that is queued or served, none otherwise, and a lost one is that of a client
  who was refused or of a connection that ended after the loop
  (`DescriptorHasOneOwner`).
* **Cleaner.** `CleanerInv` is `CleanerTypeOK`, `RequestCovered` (for each request a stamp,
  the snapshot not yet worked on, or the call in progress is early enough),
  `SleepInv` (a sleeping thread's deadline covers all stamps) and `ThreadInv`.
  Proved: `CleanerTypeCorrect`, `RequestsCovered`, `SleepEndsInTime`.
* **Expiration.** `OneWorker` is inductive once its cardinality is read as "two
  workers are the same" (`TaskInv`): a session registers only at stamp zero, and
  every other step of `Expiration` is a step of `MaintTask` or leaves its variables
  alone. `NoEarlyRemoval` speaks of one step and needs what led to it: `DateInv`, no
  date in `_expending_dat` or among the tagged files is older than what complete runs
  have seen; `PhaseInv`, what the lists of a task hold in each of its phases (nothing
  tagged before the review; candidates without a date before `LoadPreviousData`; a
  file found good is no candidate with an old date afterwards); and `TaskInv`, because
  the command reviewed under is that of the one worker. `DateInv` is not claimed of .deb
  files with KeepExtraVersions, which re-dates them; what is proved of those is that the
  run that removes one has not found it referenced. Proved: `OneWorkerCorrect`, `DatesNeverTooOld`, `NoEarlyRemovalCorrect`.
* **Transfer.** Two invariants, one on top of the other. `Structure`: the types; what
  the fields of an item, a job and a reader say about each other (an item in
  `FIST_DLGOTHEAD` or `FIST_DLRECEIVING` has a job that is assigned to it; a job that
  writes knows the item's descriptor; what a reader saw under the lock is not more than
  the item has now; the length a reader was told is the item's); `OneWriter` itself. It
  holds in all states, and gives `OneWriterHolds`, `WaitingHasDownloaderHolds`,
  `AnnouncedLengthStaysHolds` and, as a property of steps, `SizeCheckedGrowsHolds`: the
  checked size of an item goes back only when the item ends in error, after a write that
  was interrupted and then failed. Without interrupted writes no file is ahead of its item
  (`AheadHolds`), and the same is true until one is taken.
  `Content` relates what is known of the data file to its blocks, until one of the five
  ways that `suspect` stands for is taken: the file is a part of the version that the
  `.head` file names, or of the version the item is being filled with from the position
  where its job is; the checked size is within it; what a reader has sent is the
  beginning of it; descriptors of replaced files are those of nobody who matters. Each
  step of `Content` uses `Structure`. From both: `DiskSoundHolds`,
  `CheckedIsReadableHolds`, `DeliveredWholeHolds`. The end between the stored header and
  the first block is a step of its own there (`FirstWriteFails`): it is harmless when the
  file has no block of another version behind the position, and *overlay* otherwise. So
  there is no sixth way to a damaged file, for any number of clients and any lengths.
* **Pipeline.** `Inv == QueueInv /\ (taint = {} => PipeInv)`. `QueueInv`: a job is at
  most once in the three queues, and a new one in none. `PipeInv`: the thread has a
  connection where it uses one and an empty pipeline where it has none (`PlaceInv`); a
  job points to its own file, and only the first of the pipeline has begun (`JobInv`);
  and `StreamInv`, the reason why order is enough: buffer and wire together are the rest
  of the answer to the first job, as its state says, and then one request for each of
  the others in their order; what is in the buffer belongs to that answer. Hints may come
  before the answer and belong to it, whether the thread processes the rest of the buffer
  or waits. It is suspended between a redirection and its execution, since the code leaves anything in
  the buffer there (`RedirectInv`). A step that would break it is one that `taint`
  records. Proved: `OwnAnswerHolds`, `IdleCleanHolds`. `JobsEnd` is a liveness property.
* **Client connection.** `Inv == Types /\ JobsInv /\ WireInv /\ FrontInv /\ LogInv`.
  The jobs are those of consecutive requests (`JobsInv`), the responses on the wire are
  numbered in the same way, and all but the last are complete where `Framed` asks for it
  (`WireInv`). `FrontInv` is about the first job: either nothing of its response is out,
  then the header that it has ready fits what it will send; or its response is the last
  one on the wire, and the state of the job says what that lacks. For a body of announced
  length this is an equation (`Aimed`): what the header promised less what was sent is
  the end of the job's range less its position. It needs what items keep to
  (`ItemInv`): an announced length is not exceeded, and reached by the end. `LogInv`:
  what was sent for a file is what the log has for it, the record that is being
  collected and what the first job has yet to report. A maintenance page is the last
  response, since the connection ends with it. What is written past the queue answers a
  request behind those of all responses and ends the connection (`PastInv`). The destructor reports the jobs
  one after the other; that the later ones add nothing is an induction over the queue.
  Proved: `FramedHolds`, `AccountedHolds`.
* **Index update.** `HeardInv` is why a group is read. A disabled variant means that
  another one is fresh and not disabled, as long as no error was counted or forgiven and
  `muted` is not set (`GroupKept`); `Release` is disabled only for `InRelease`
  (`ReleaseKept`); what counts as read was read, or a variant in its place
  (`ParsedHeard`); the loop over the groups never disables a release file (`GroupTodo`);
  and while files are read, each that can be read was read, has failed, was forgiven, or
  is still to be visited (`Visited`). The last one makes the end of the loop
  enough for `GroupHeardHolds`. `CoverInv` is on top of it and speaks of runs in which
  nothing has failed or was left over (`Smooth`): the flag `uptodate` is never set on a
  file that is not current (`FreshCurrent`), whether by a download, by the quick check,
  by a copy of a sibling, by a by-hash copy or by patching. For the quick check the
  release file must be fresh by then (`ReleaseInv`), for patching the list of diffs must
  lead to the current version (`DiffCurrent`), and whatever is read must be fresh when
  the reading starts (`RestInv`, `HeardFresh`). Proved: `GroupHeardHolds`,
  `CoverKeptHolds`.
* **Upstream pool.** `HookInv`: the count of the hook handler is the number of users that
  hold or ask for a connection of its repository; while it is positive the link is up
  and no timer runs; while a timer runs the link is up. The third part is what lets
  `OnAccess` skip PreUp when it calls off a pending Down (`LinkUpCorrect`). Where the
  connections lead does not matter for it. `PoolInv`: every pooled connection leads to
  the host it is pooled under, and its age and the time until the cleaner's next visit
  together stay within the bound of `IdleEnds`; a connection in use leads where its user
  wants to go. The second loop of the cleanup, which looks at the wrong entries, keeps
  readable connections longer than meant, but what it keeps is young enough. Proved:
  `RightPeerCorrect`, `IdleEndsCorrect`, `TypeCorrect`.

`SelectSeq` has no definition that the provers can use. Where the models erase elements
from a list they do it with `Retained` of the module `Selections`, the elements at a set
of places in their order; that this is one sequence is not needed by the proofs. Types and
`IdleBounded` are proved only; no run checks them. Only model-checked: all liveness
properties (they rest on fairness): `JobsEnd`, `Served`, `OrphanGoes`, those of the
server and the cleaner, and `Answered`, the only property of `DnsCache`. A sum or a
loop over a sequence is written as a recursive function or with one step per element,
never as a RECURSIVE operator, which the provers cannot use.

## 5. Findings

Two runs show the code at odds with a statement of its own comments; `PROJECT.json`
quotes each.

* `registry_double_unreg`: the destructor reads `m_owner`, `Create` displaces the item,
  the destructor unregisters it again.
* `indexupdate_read`: fresh variants disable one another, none is read, and no error is
  counted.

The following was met while the code was translated. The models have the code's
behaviour, and the properties above hold in spite of it or name the exception.

*Items and threads.* A start time of 0 makes every item that has not begun look
stuck, so that a second client displaces it (`acregistry.cc:183`). Operator
precedence makes the start of the download the expiration date, and nothing is
held ready (`acregistry.cc:95`). `DlSetError` keeps the smaller destroy mode, so a
faulty file is kept (`fileitem.cc:577`). An error reply to a resume request makes
the cached part the complete file (`fileitem.cc:554`). The thread limit compares
twice the active threads and does not see queued works (`tpool.cc:58`). An interrupted
write counts as -1 bytes (`fileitem.cc:292`), after which the checked size and the file
are out of step. The `.head` file of a new version is stored over blocks of the old one
(`fileitem.cc:387`); when the first write fails or the program is killed then, the next
download resumes behind them, and a complete file has blocks of two versions (the way
*overlay* of `suspect`, which `DiskSound` and `DeliveredWhole` except).

*Server.* When the pool refuses a client, the descriptor that was released into the
closure stays open, although `conserver.cc:69` says that `unique_fd` will clean up; it is
the `lost` descriptor that `OneOwner` names. The listening socket is disconnected "for now"
(`conserver.cc:120`) when descriptors are short, and nobody looks at whether the timer
that would resume it could be made: the listener is then `dead`. `stop()` waits for a
tunnel, or for a downloader that waits for the event loop that has ended (`conn.cc:227`,
`aconnect.cc:50`), although `conserver.h:17` speaks of stopping all connections; that is the
exception of `ServerStops`.

*Downloader.* A redirection header is never dropped from the buffer before the
other jobs of the pipeline look at it, so they are sent to the first job's
location (`dlcon.cc:1363`). A redirection that fails and an invalid chunk leave
the rest of the response in the buffer and the connection in use. A collision
drops every job whose item is being received, the downloader's own ones included
(`dlcon.cc:1785`). `Connection: close` on a 200 response is not noted, so that the
close counts as a lost connection and in the end blacklists the mirror;
`nLostConTolerance` is restored only when it is used up, and not used up by a 416 that
closes the connection, nor by a hint. After a 1xx status that was to be ignored
(`ChangeLog:287`) the thread waits in `select` with the whole answer in its buffer
(`dlcon.cc:543`; the place `wait`). A redirection to a path keeps `m_pCurBackend`.

*Connections and names.* The second loop of the pool's cleanup looks at as many
entries as are readable, but from the front (`tcpconnect.cc:255`). The Down hook may
run while an idle connection is pooled; a hooks file without a Down command never
runs PreUp again. Cached names are cleaned while they are fresh and kept when they
have expired, and `Resolve` does not look at the date (`caddrinfo.cc:179`, `426`;
`conf/acng.conf.in:193` says that they are kept for `DnsCacheSeconds`). A connect
that succeeds at once is reported as "Internal error" and leaks its descriptor
(`aconnect.cc:173`). A cancelled SRV query caches an error. Connectors with pending
sockets are not answered at shutdown, which is why `Answered` ends there.

*Client connection.* Error pages go with a body to HEAD requests. HEAD of a file of
unknown length enters the chunk states and sends empty chunks until data comes
(`job.cc:923`). A range of an uncached file cuts the body, while the raw header
announces all of it; a range of a file of unknown length may announce a length of
-1, a reversed one a negative length. An empty file ends the connection. Maintenance
pages and replies past the queue are not in the log. A file that is shorter than its
item says keeps the job, and the thread, busy for ever (`job.cc:912`). A redirection has
no length on a connection that is kept (`job.cc:1052`). The reply to a POST or CONNECT is
written before the responses to the requests that came first (`conn.cc:369`); the
connection ends with it.

*Maintenance.* `Download` returns OK for failed downloads (`cacheman.cc:619`), so they
are never counted as errors, although `conf/acng.conf.in:169` describes how
expiration stops on them. A missing file is given up for its alternative
although that one failed, too. An outdated list of diffs declares an old index
fresh, and by-hash copies of an old release replace a newer index. An abort that
arrives between registration and start is lost. A listener does not notice that
the task it follows was replaced by another one, and sends while it holds the lock
of all tasks. Purging leaves the lists of pending and damaged files as they are.
With KeepExtraVersions a .deb file that is referenced again is dated as lost, and goes at
once when it is lost later (`expiration.cc:946`, `356`), although `conf/acng.conf.in:393`
promises the safety period to every file; `NoEarlyRemoval` excepts these.
A failing open of `_expending_dat` may remove it, which starts all dates anew.

## 6. Plan

Done, with proofs of all safety properties that the runs check: the registry, the pool
and server, the cleaner, the transfer of one file, the downloader's pipeline, the client
connection, the upstream pool and hooks, the update of index files, maintenance tasks
with expiration. Done, with a run only: the DNS cache and connectors.

Next:

1. Storage: displacement on disk, the destructor's destroy modes, volatile items in
   the transfer, crash and restart between the two (`acregistry.cc:229-242`).
2. `ItemTransfer` with `DlPipeline`'s stream instead of one job per connection.
3. Mirror and import tasks on top of `IndexUpdate`.

## 7. What is not modelled, and why

* Parsing of configuration, header fields, URLs and index files, decompression,
  digests, report pages: functions of their input without shared state. Where the
  control depends on them, the models have their outcomes (`ReadsAll`, `ReadsBad`,
  `Detect`, `Part`).
* `acngtool` and the FUSE client: offline or separate programs on the same parsers.
* `mirror.cc`, `pkgimport.cc`: tasks on top of the same update and registration.
* `m_bSkipHeaderChecks`, preallocation, the release side store: storage details that
  wait for the storage module.
* The network, condition variables, the clock, c-ares, and the upstream server are
  modelled from how the code uses them and marked as external in the map.
