# A verification project for emby-proxy-stat

emby-proxy-stat sits beside a Caddy gateway for Emby and Jellyfin servers.  It
follows Caddy's access log, counts traffic and plays into SQLite, shows them on
a dashboard, and sends a daily report.  This directory holds TLA+ models of the
parts whose order of steps matters, the TLC runs that check them on small
instances, and proofs, of every safety property the runs check, that hold for
every instance.

Paths such as `traffic.go:50` are under `src/internal/store/` unless they say
otherwise.

## The system

| Component | State | Operations | Hard because |
|---|---|---|---|
| Traffic store (`internal/store`) | two in-memory maps under `trafficMu`; tables `daily_traffic`, `traffic_by_client` behind the lock channel `dbMu` | `AddTraffic`, `FlushTraffic`, `Stats`, `Breakdown`, `Trend`, `PruneOld`, `Open`, `Close` | a batch in flight is in neither place; two locks; failing transactions; crash |
| Play recorder (`traffic.go:150-206`) | the debounce map `recentPlays`; table `play_events` | `RecordPlay` (claim, insert, release) | claim before insert; timestamps from the log, not the clock |
| Log tailer (`internal/caddylog/tail.go`) | open file, position, own byte count, `started`; `activeStreams` | `Run`, `followOnce`, `processLine`, `rememberStream`, `recordHeartbeat`, `ActiveSessions` | rotation, truncation, half-written lines, errors |
| Log line parser (`entry.go`) | none | pure functions of a line | |
| Process (`cmd/emby-proxy-stat/main.go`) | background context, signal channel, HTTP server | flush loop, prune loop, SIGHUP reload, two shutdown paths | both shutdown paths run at once, neither waits for the loop |
| Authentication (`internal/auth`) | session map; failure map | `Create`, `Valid`, `Destroy` (`Prune` has no caller); `RetryAfter`, `RecordFailure`, `Reset` | check and record are two critical sections; the clock is read before the lock; limits; expiry |
| Web server (`internal/web`) | none of its own | login, logout, statistics, trend, test message | concurrent requests |
| Daily report (`internal/notify`) | `lastSentDate` in memory | one check per tick, `Send` | lost answers, restart, midnight, configuration reload |
| Configuration (`internal/config`) | current configuration under a lock; the file | `Load`, `Validate`, `Reload`, `Current` | readers read it piecemeal, some only once |
| Proxy guard (`internal/proxyguard`) | DNS cache with a limit | parse, resolve, dial, rewrite | lookups without the lock; expiry and limit of the cache |
| Clock, client address (`clock`, `netutil`) | none | pure functions | host zone against business zone |
| Dashboard (`web/index.html`) | what it draws | polls the API | |
| Installer (`deploy/`) | files on disk | install, update, reconfigure | |

How they meet: the tailer calls `AddTraffic` and `RecordPlay` for each line;
the flush loop, and at the end both shutdown paths, call `FlushTraffic`; the
HTTP handlers and the daily report call `Stats`; the dashboard calls
`Breakdown`, `Trend` and `ActiveSessions`; the prune loop calls `PruneOld`.
`dbMu` serialises all that touch SQLite.  The log is shared with Caddy, which
appends and rolls it, and with logrotate, which may truncate it.

What makes each part correct:

- *store*: every line counted is, at any time, in exactly one of the buffer, a
  batch or the tables until it is swept or dies with the process; no figure
  counts a line twice; the detailed maps agree with the global ones; nothing
  stays in memory for ever; the two locks never block each other.
- *plays*: a play per viewing, none closer than the window, and no heartbeat
  swallowed by a claim that has no row.
- *tailer*: each line once and in order, across rotation and truncation.
- *process*: a SIGTERM ends it, and what was counted before is stored.
- *authentication*: no more failures than the limit and those already past the
  check are counted in a window; a block has a cause and an end, and no other
  client lifts it; a session lives its lifetime and is never valid again.
- *trend*: all the days asked for, in order, with their rows.
- *daily report*: once per day, not before its time, with the day's figures;
  trouble during the day is made up for.
- *proxy guard*: an address that is dialled was resolved within the lifetime of
  an entry, and the cache never exceeds its limit nor stops taking entries.

## The modules

| Module | Models | Built on |
|---|---|---|
| `TrafficLedger` | the promise of the store: pending, stored, gone, told | |
| `TrafficStore` | the traffic half of the store, lock by lock | refines `TrafficLedger` |
| `TrafficStoreProofs` | theorems about `TrafficStore`: types and where each line is | `TrafficStore` |
| `TrafficLedgerProofs` | theorems about its figures, and the refinement of the ledger | `TrafficStoreProofs` |
| `ProcessLifecycle` | `main.go`'s goroutines around the store | extends `TrafficStore` |
| `ProcessLifecycleProofs` | theorems about `ProcessLifecycle` | `ProcessLifecycle`, `TrafficStoreProofs` |
| `PlayRecorder` | `RecordPlay` and the debounce map | |
| `PlayRecorderProofs` | theorems about `PlayRecorder` | `PlayRecorder` |
| `LogTail` | `followOnce`, the buffered reader, Caddy and logrotate | |
| `LogTailProofs` | theorems about `LogTail` | `LogTail` |
| `StreamBinding` | `processLine`: which item a heartbeat is counted for | extends `PlayRecorder` |
| `StreamBindingProofs` | theorems about `StreamBinding` | `StreamBinding`, `PlayRecorderProofs` |
| `DailyReport` | the scheduler, `Send`, the configuration file and its reload, midnight | |
| `DailyReportProofs` | theorems about `DailyReport` | `DailyReport` |
| `LoginLimiter` | `handleLogin` and the limiter | |
| `WebSessions` | the session map, `requireSession`, `handleLogout` | |
| `DnsCache` | `resolvePublicUpstream` and the name cache | |
| `TrendQuery` | `Trend` and its readings of the clock | |
| `MCServers` | the last four, one at a time: they share no state and no lock | `LoginLimiter`, `WebSessions`, `DnsCache`, `TrendQuery` |
| `ServersProofs` | theorems about each of the four | `MCServers` |
| `MC...` | constants of the instances, symmetry | |

Definitions whose comment says *Mutant* are deliberate bugs.  Nothing uses
them; each shows that some property would notice such a bug.

### TrafficStore

A line of the log that carries bytes is an element of `Requests`; its key (day,
client, upstream) is `KeyOf`.  An aggregate of the code, a pair of counters that
only ever grows by `+=`, is the *bag* of the lines counted into it.  So "bytes
were counted twice" is a 2 in a bag and "bytes are missing" a 0, whatever the
sizes are: sums of bytes and of requests are both sums over the bag.  Overflow
of the 64-bit counters (nine exabytes) is not modelled.

| Code | Model |
|---|---|
| `Store.traffic`, `Store.trafficDetail` | `buffer` |
| `daily_traffic`, `traffic_by_client` (committed) | `tables` |
| `trafficMu`, `dbMu` | the holder of each, or `NoProc`; `AddTraffic` and `Restore` hold `trafficMu` for the one step they take |
| `batch`, `detailBatch` of a call to `FlushTraffic` | `batch[f]` |
| the open transaction | `tx`: the tables as they will be |
| local variables of a reader | `call`, `snap`, `rows` |
| `cutoff` of a sweep | `cutoff[p]` |
| `clock.Today()` | `today`, `Midnight` |

Each critical section and each statement against the database is an action, so
everything that can come between two of them does.  `BeginFails`, `Rollback`,
`QueryFails` and `PruneFails` may happen at each statement; a failed commit is
a rollback, as SQLite has it.  `Exit` may happen at any step: memory and an
open transaction are gone, committed rows stay.  `Close` may overtake a
transaction, whose connection database/sql leaves open until it ends.  The
queries of one reader are one step, since `dbMu` keeps every writer out while
they run.

The history variables `added`, `dropped` and `pruned` say which lines were
counted, died in memory, or were swept.

### ProcessLifecycle

Extends the store with the stages of the flush loop, the tailer, the main and
the signal goroutine (`stage`), the server (`serving`), the background context
(`cancelled`) and the signal (`term`).  `Shutdown` closes the listeners first,
so `ListenAndServe` returns in the main goroutine while the signal goroutine
still waits for the handlers: from there both run cancel, flush, close, exit,
and whoever exits first ends the other.  The tailer looks at the context only
at the end of the log, the loop only between two ticks.

### PlayRecorder

One goroutine, the tailer, calls `RecordPlay`, so the calls do not overlap; what
interleaves with them is the sweep of `play_events` and the death of the
process between claim and insert.  Time is the timestamp of the line.  Lines of
concurrent requests may be logged slightly out of order, which `Jitter` bounds.
`recentPlays` is a partial function like the map it models; every heartbeat
first drops the keys that were silent for longer than the window *by its own
timestamp*, so the heartbeat of one client decides what is forgotten of
another.  The history variable `heard` holds the heartbeats of this life.

### LogTail

A file is a sequence of units, two for each line, the second with the newline.
Caddy appends a line in one write, but a reader may see the first unit alone.
Rolling renames the log and creates a new one, with a moment in between when
the path names nothing.  `Truncate` is logrotate's copytruncate.  The reader is
`followOnce` with the `bufio.Reader` made explicit: `Fill` reads some of what is
there, `TakeLine` hands over a line, `HitEof` hands over an unfinished line for
nothing, and `Poll` is the stat 200 ms later with its three reasons to reopen.
`offset` is the code's own count, which is not the position.

### StreamBinding

Composes the stream map of the tailer with the recorder: `HeartbeatLine` looks
the item up and takes the `Renew` or `Claim` step of `PlayRecorder` for the key
address and item; after a claim `RecordPlayReturns` takes its `Insert` or
`InsertFails`.  Every line ends with `PruneStreamsMaybe`, after a claim only
when the insert is over, and by then the clock may have moved (`Tick`).
Timestamps of lines may lie before the clock of the tailer (`MaxLag`), while
streams are stamped with that clock, as in the code.  `read` (the stream lines)
and `told` (the last heartbeat) are history: the properties speak of the lines,
not of the map.  All nameless clients have the name `Unknown`, as in the code
`未知设备` is one key.  There is one upstream, since its name ends every key, and no
device has a name that is the address of another client.

The sweep of `play_events` is left to `PlayRecorder`: it touches neither map.

### DailyReport

One tick of the 30-second ticker is one instant.  The scheduler goes from
`wait` through `stats`, `send` and `answer`; each of these may fail, and a tick
that passes meanwhile is a stall, because sending takes 15 s at most and only a
wait for the database, or a halted machine, takes longer.  The channel of the
ticker holds one tick (`ticker`).

The configuration file may be edited (`Edit`) into anything, also into a file
that cannot be read (`Broken`) or a time that is none (`NoTime`), which
`Validate` refuses only while Telegram is enabled.  `Reload` is SIGHUP: the
scheduler sees the new time, but `enabled`, like the token, was handed to the
sender when the process started and stays.  `Start` reads the file, and does
not succeed while it does not validate.

Midnight needs no stall.  At the last tick of a day `GetStats` may read the clock
on either side of it, because a tick stands for half a minute; `Day(clock)` is
the day of the tick and the day after is the other choice.  A longer way past
midnight is a stall.

`messages` and `faults` are history, numbered so that two of the same kind are
two.  `late`, which a message takes along, says that the day in hand was taken up
at its last tick.  `excused` holds the days whose last tick found no scheduler
that could report: down, just started, without a sender, or with a time that no
tick reaches.

### LoginLimiter, WebSessions, DnsCache

Here time is not a number that grows.  A point in time is kept as its distance
from now, an age or the time left, and `Tick` moves all of them; one beyond
which nothing changes is kept at its last value.  So these models have no last
instant, and the states are finite.  Each operation of the code reads the clock
*before* it takes its lock: the age of that reading is a part of the state of
the goroutine (`stamp`), and comparisons are made by the reading, as in the
code, even if another goroutine with a newer one was faster.  What bounds the
age is the time a request may take (`MaxStage`, `MaxLag`, `MaxLookup`).

`LoginLimiter`: `handleLogin` is `Denied` or `Admitted` (the critical section of
`RetryAfter`), `BadRequest` or `Verify` without a lock, then `RecordFailure` or
`Reset`.  `failures` holds the age of the window's begin, the count and what is
left of the block; the zero time of a client that was never blocked is
`LongOver`.  A map beyond its limit is swept inside `RecordFailure`.  History:
`failed`, the ages of a client's last failures.  `RetryAfter` reads the clock
again for the number of seconds in the header: wording, left out.

`WebSessions`: `BeginCreate` and `Create` are the two halves of
`SessionManager.Create`; tokens are never handed out twice.  A cookie may be
presented by whoever got it, at any time, also after a logout.  `Prune` has no
caller, so it is no action.  History: `granted`, the age of every token and
whether it was given up by a logout or lost with the process.

`DnsCache`: `Hit` and `Miss` are the first critical section, `Resolved` and
`Refused` the lookup and the test for public addresses, `Store` the second
critical section with the sweep, `Dial` the connection to the pinned address.
An entry is dated by the reading of the clock at the start.  History: `age`, how
old the answer really is, in the cache and in the hand of the request.

### TrendQuery

`Trend` reads the clock for today (`AskTrend`), for the first day
(`ReadStart`), for each day it puts into its map (`FillMap`), and for each
point of the answer (`AnswerPoint`); before the queries (`QueryTrend`) it waits
for `dbMu`.  Midnight and stored lines may come in at each of these points.  A
point that is not in the map is the nil pointer: `panic`.  `rows` and
`midnight` are history.  What the rows hold, and that the lock keeps a flush
out, is `TrafficStore`'s part, where the readers of one lock are `Stats` and
`Breakdown`.

## The runs

| Run | Instance | Shows |
|---|---|---|
| `store` | 2 lines of one day that differ in client and host, 3 days, 2 flushers, 1 reader, 1 sweep, 1 crash | `TypeOK`, `CountedAtMostOnce`, `NothingLost`, `DetailMirrorsGlobal`, `NoDoubleCount`, and `TrafficStore` implements `TrafficLedger` |
| `store_live` | 2 lines, 2 flushers, 1 reader, 1 crash, fairness | `FlushedEventually`, `AnsweredEventually` |
| `shutdown` | 2 lines, loop, main, signal goroutine, 1 handler, 1 shutdown, fairness | `LossNeedsOverlap`, `TermEnds` |
| `shutdown_loss` | the same | finding: `GracefulLosesNothing` is violated |
| `plays` | 2 keys, window 4, jitter 1, timestamps 0 to 6, 5 heartbeats a life, 3 rows, 1 restart | `PlaysApart`, `OneRowPerViewing`, `EveryBeatCounted` |
| `tail` | 3 lines, 2 files, 2 truncations of each, 1 error, fairness | `SeenInOrder`, `ReadAgainOncePerFault`, `HolesHaveAReason`, `FollowsFile` |
| `tail_truncate` | 2 lines, 1 file, 1 truncation | finding: `TruncationNoticed` is violated |
| `binding` | 2 addresses, 2 named devices and nameless ones, 2 items, 2 stream lines, instants 0 to 4, 1 restart | `BoundToLatest`, `NameBelongs`, `ViewerIsShown`, `StreamsReclaimed` |
| `binding_long` | 1 viewer, 1 item, binding window 2, debounce window 4 | finding: `LongVideoCountsOnce` is violated |
| `report` | 3 days of 3 ticks, report time in the middle or at the end of the day, 2 faults, 2 edits of the file | `OncePerDay`, `NotedIsSent`, `MissedOnlyAtTheEnd`, `FiguresOfTheDay` |
| `servers` | limiter: 2 handlers, 2 clients, window 2, block 3, limit 2, map limit 1; sessions: 2 logins, 2 tokens, lifetime 2; cache: 2 requests, 3 hosts, lifetime 2, limit 2; trend: at most 3 days, 0 to 4 asked for, 3 days of clock; every step or request at most 1 tick; fairness for the limiter | `FailuresBounded`, `BlockedForCause`, `BlockEndsForCause`, `BlockEnds`; `SessionLifetime`; `DialsFreshAnswer`, `CacheAtLimit`; `TrendLostOnlyAtMidnight`, `TrendInFull` |
| `trend` | the trend of `servers` alone, 2 days of clock | finding: `TrendAnswers` is violated |

Why these bounds are enough for the cases that matter:

- *store*: two lines are one that is in flight and one that arrives meanwhile;
  two flushers are the loop and a shutdown path, and can overtake each other;
  with a retention of one day, three days let the sweep delete the lines, and a
  midnight can pass between the computation of a cutoff and its use.  The
  proofs remove the bounds for the invariants.
- *plays*: five heartbeats at distance one reach past a window of four, so a
  window that does not slide shows; the second key is the one whose timestamps
  make the map forget the first.
- *tail*: two files and two truncations of each, with a line before, between and
  after; the truncated file can grow past both the position and the count.
- *binding*: with windows of 1 (binding), 2 (reclaiming) and an interval of 2,
  four instants reach past every one of them, in the order the code's 120 s,
  600 s and 120 s have; two stream lines are the one that must win and the one
  that must not; one heartbeat is enough, as heartbeats change no stream.
- *report*: with three ticks a day a report time in the middle has a tick before
  and one after it, and the last tick is the default 23:59; two faults are a
  failure and a restart in one day,
  or one in each of two; two edits are one that breaks the file, or puts the time
  out of reach, and one that mends it.
- *servers*: two handlers are one that is past the check when the other reaches
  the limit; two clients against a map limit of one make every failure of the
  second sweep the first; a window of 2 and a block of 3 keep the code's order
  (ten and fifteen minutes) with room for a step of one tick, during which a
  window runs out.  Two tokens are one that is used while the other is given up.
  Three hosts against a limit of two make a full cache, with entries that are
  old and entries that are not.  Three days leave every request below, at and
  above the cut, and a midnight on either side of it.

What a property lets pass is as much its content as what it forbids:

- `FollowsFile` promises nothing to a line that is torn or skipped by an
  unnoticed truncation, or whose file was truncated or left by an error.  A roll
  is an excuse only for a line that was written while the reader waited at the
  end of the file or had none open: what it had before it is read.
- `DetailMirrorsGlobal` does not look at lines the sweep has reached: it would
  notice the DELETEs in another order, not that they stop half way.
- `BoundToLatest` speaks of heartbeats with a device name, and of an address only
  where no line carried the heartbeat's name.  Where nameless lines were read, it
  leaves open what a nameless heartbeat is counted for.  To `ViewerIsShown` all
  nameless clients are one viewer, as they are to the dashboard.
- `FiguresOfTheDay` lets a report that was in hand during the last tick of its
  day carry later figures; no failure is needed for that.  `MissedOnlyAtTheEnd`
  lets a report be missing when the sender is off, whatever the current
  configuration says, or when the time is one that no tick reaches.
- `SessionLifetime` says nothing of sessions that stay in the map.
- `OneRowPerViewing` speaks of one life of the process.

Deadlock is checked in every passing run.

### Fairness

- A goroutine that holds a lock, or waits for nothing, goes on (weak fairness).
- A step that takes a lock is taken if it is possible again and again (strong
  fairness): a Go mutex hands itself over to a waiter that has starved for a
  millisecond, and senders on a channel queue.
- `store_live` assumes that an open database does not fail flushes for ever;
  without that nothing can be promised.  `shutdown` does not assume it.
- `Restart=always` in the service file: a dead process is started again.
- The tailer's goroutine runs, a write that began is completed and a roll
  creates the new file.  Errors and rolls have no fairness.
- `BlockEnds` needs that time passes and that a login that began goes on to its
  next step (its reading and its answer have deadlines).  New logins, and what
  they find, have no fairness: a client that never stops asking is allowed.

## What is proved

Every invariant and every action property of the passing runs is a theorem for
all values of the constants that satisfy the assumptions named below.

### The store and the process

`TrafficStoreProofs` proves, under the assumptions of `TrafficStore` (disjoint
sets of goroutines, `KeyOf` a function to keys, a positive retention, finite
sets of days, clients and hosts; no bound on any of them, nor on lines or
goroutines):

- `TypeCorrect`: `Spec => []TypeOK`;
- `NoLineCountedTwice`: `Spec => []CountedAtMostOnce`;
- `NoLineLost`: `Spec => []NothingLost`;
- `MirrorsAgree`: `Spec => []DetailMirrorsGlobal`;
- `StatsCountsOnce`: `Spec => []TodayCountedOnce`, the part of `NoDoubleCount`
  that speaks of the day's figure.

None of these is inductive alone.  `StoreInvariant` is: who is where in
`FlushTraffic` decides which lock it holds (`LockInv`), so at most one
transaction is open; what the transaction will leave is the tables plus the
halves of the batch already written (`TxInv`); a batch is empty outside a flush
(`BatchInv`); a line not yet counted is nowhere (`AddedInv`); and between the
two DELETEs of a sweep the daily rows are already gone (`SweepInv`).  With
these, each step moves a line from one place to another or leaves it.  A step
is proved once per kind (`AddStep`, `TakeStep`, `WriteStep`, `CommitStep`,
`RestoreStep`, the two of the sweep, `ExitStep`, and `QuietStep` for the many
steps that move no line) on top of the algebra of bags (`MergeLaw`, `TallyLaw`).
`ReaderInvariant` adds what a reader knows: while it holds `dbMu` nothing leaves
a batch for the tables, so its snapshot and the rows it will read share no line.

`TrafficLedgerProofs` goes on to the sums.  `FiguresCountOnce` is
`[]NoDoubleCount`, all figures of `Stats` and `Breakdown` included.  A sum over
days, clients or hosts counts a line once because the line has one key: all
terms of the sum but one are 0.  That is shown without induction over the set,
from a smallest subset on which it would fail (strict inclusion of finite sets
is well-founded); finiteness of the sets is what a sum needs to be defined.
`LedgerInv` relates the figures in a reader's hand to the bag of lines it saw,
and says that a line swept from the tables is in no map and no batch again.
`StoreImplementsLedger` is the refinement: each step is a step of
`TrafficLedger` or a stutter, shown action by action from `LedgerInv`.

`ProcessLifecycleProofs` proves `LifeImplementsStore` (`LifeSpec => Spec`), so
that every theorem about the store holds of the process; `LossesNeedAnOverlap`
(`[]LossNeedsOverlap`), `LifeInvariant` and `LifeTypes`.  The only assumption is
that the three flushers are three.  `LossInv` speaks of a life in which no two
flushes overlapped and the database refused nothing: at most one goroutine is in
`FlushTraffic`; once a last flush writes, the buffer holds no line counted
before the signal; once a last flush is over, none of them is in memory; and
none was dropped.  `before` holds the lines counted in this life before the
signal; what an earlier life lost is not this shutdown's loss.

### Plays

`PlayRecorderProofs` proves, for every window, disorder, set of keys and number
of heartbeats, `RecorderTypes` (`[]TypeOK`) and `DebounceHolds`
(`[]PlaysApart`).  The invariant says why the map may forget: a play is
remembered by a stamp that is at most the disorder before it, or the log has
gone on for a window since (`StampInv`); a pending claim already lies far enough
from earlier plays (`ClaimInv`), so an insert that succeeds late does no harm,
and an insert that fails may delete the key.

If twice the disorder is less than the window (the code's window is half an
hour, `store.go:20`; the disorder is the time by which two lines may be logged
in the wrong order), it also proves `ViewingsCountOnce` (`[]OneRowPerViewing`)
and `BeatsAreCounted` (`[]EveryBeatCounted`).  Without that condition a claim
might be older than a heartbeat already settled.  `ViewingInv` follows each
heartbeat: it is remembered by a stamp or forgotten with cause (`BeatInv`), it
belongs to a play from which heartbeats lead to it (`CoverInv`), and between two
plays there is a pause (`GapInv`).

`StreamBindingProofs` builds on it, for any set of addresses, devices and items
and any number of lines.  A step of the composition is a step of the recorder or
leaves its variables alone, so `PlayInvariant` carries over
(`TailerKeepsDebounce`: `[]PlaysApart` under `BindSpec`).  To that `BindInv`
adds `MapInv`: a key of the stream map holds exactly the last line filed under
it, unless that line is old enough to have been reclaimed; `SweepInv`: what the
last sweep left; and `ToldInv`: what was said of the last heartbeat stays true
while lines are added.  From these, `HeartbeatsBound` (`[]BoundToLatest`: a named
device's heartbeat goes to what it asked for last, and to its address only when
the device was silent for the age of reclaiming; one whose name no line carried
goes to the last item of its address), `NamesBelong` (`[]NameBelongs`),
`ViewersAreShown` (`[]ViewerIsShown`),
`OldStreamsGo` (`StreamsReclaimed`) and `BindTypes`.  `TailerDrivesRecorder`
states the composition itself, `BindSpec => Spec` of the recorder, and
`TailerCountsViewings` what follows from it.  The assumption is the order of the
code's durations: the binding window is shorter than the age of reclaiming,
which is shorter than the debounce window; the sweep has an interval above
zero.  The definitions use a maximum over the lines; the invariant names the
last line, so no induction is needed.

### The tailer

`LogTailProofs` proves, for any number of lines, files, truncations and errors,
`TailTypes` (`[]TypeOK`), `LinesInOrder` (`[]SeenInOrder`), `RereadOncePerFault`
(`[]ReadAgainOncePerFault`) and `HolesExplained` (`[]HolesHaveAReason`).  Each
unit has a rank, its place in the order of writing.  The invariant (`TailInv`)
is:

- `DiskInv`: units lie in each file in the order of their ranks, files created
  later hold higher ones, a head is followed by its tail, and a line is where it
  was written until its file is truncated;
- `ReadInv`: the count is behind the position, the buffer is what is just before
  the position unless the file was truncated, and, truncated or not, all that
  can still be read was written after what is in the buffer.  What can still be
  read (`Unread`) counts the files the reader has not come to, its own behind
  the position, and all of its own once that is shorter than the position or the
  path has to be opened again.  `UnreadWorld` and `UnreadFollow` show that it
  grows by writing alone, whatever is rolled, truncated or reopened: this is why
  a truncation that goes unnoticed costs lines but repeats none;
- `OrderInv`: without errors all that is to come has a higher rank than all that
  was processed or skipped;
- `CountInv`: what was read of a line, with the reading that may still come, is
  at most one more than the errors;
- `HoleInv`: what a reader that is not blind has not processed of its file is
  torn, or left in the buffer or behind the position.

### Report, logins, sessions, names, trend

`DailyReportProofs` proves, for any day, report times and number of days, faults
and edits, `ReportedOnce` (`[]OncePerDay`), `NotedWasSent` (`[]NotedIsSent`),
`FiguresAreOfTheDay` (`[]FiguresOfTheDay`) and `ReportTypes`.  The invariant
(`ReportInv`) says that the day in hand is later than the day noted and not
later than the clock's (`PhaseInv`); that what waits for an answer has reached
Telegram (`SentInv`); that a day in hand that is no longer today, or whose
figures are another day's, was in hand during its last tick: taken up then, or
held up by a stall into it (`FiguresInv`); and that a day that may still get a
message has no
more of them than lost answers and restarts account for, the others at most one
more (`OnceInv`).  `MissedForCause` (`[]MissedOnlyAtTheEnd`) needs a day of more
than one tick, as a day of 30-second ticks is: with a single one the report time
and the end of the day would be the same instant.  Its invariant says of each
tick after the report time what the scheduler knows and does, so that only the
last one is beyond repair.

`ServersProofs` proves the theorems about the four small servers, and
`ServersTypes` (`[]ServersTypeOK`) of all of them side by side.  Of the limiter:
`FailuresStayBounded` (`[]FailuresBounded`), `BlocksEndForCause`
(`BlockEndsForCause`) and `LoginTypes` for every finite set of handlers, any
clients, limit and map limit, if a step takes less than a window and a block
lasts at least a window and a step, as ten and fifteen minutes do.  The count is
not bounded by itself: `LoginInv` counts it together with the handlers of the
same client that are past the check and may still add to it, and shows that a
full count has begun a block that outlasts its window, so that nobody gets past
until both are gone.  `BlocksHaveACause` (`[]BlockedForCause`) follows the ages
of a client's last failures: as many as the entry counts, none older than its
window and a step, and the last of them the one that began the block.

Of the sessions: `SessionsLastTheirLife` (`[]SessionLifetime`), from the
agreement of the time left and the age of a token, if the lag of a login is at
most the lifetime.  Of the name cache: `NothingOldIsDialled`
(`[]DialsFreshAnswer`), `LimitIsNoDeadEnd` (`CacheAtLimit`) and `DnsTypes`,
which holds the limit, if a request is shorter than a lifetime; the invariant is
that the time left and the age of an answer make up a lifetime at most
(`CacheInv`), and that a request that files an answer got it after it read the
clock (`RequestInv`).  Of the trend: `LostOnlyAtMidnight`
(`[]TrendLostOnlyAtMidnight`), `AnswersInFull` (`[]TrendInFull`) and
`TrendTypes` for any number of days; without midnight the map is the run of days
up to today (`MapInv`), after it, the day that began is the one it lacks
(`MidnightInv`).

### Only model-checked

- liveness (`FlushedEventually`, `AnsweredEventually`, `TermEnds`, `FollowsFile`,
  `BlockEnds`): the prover has neither fairness nor `ENABLED`;
- the findings, each a counterexample of a few steps.

## What the models show to be otherwise

- **SIGTERM may lose counted traffic** (`README.md:28`, run `shutdown_loss`).  The
  loop takes a batch, SIGTERM arrives, the last flush finds an empty buffer, the
  database is closed and the process exits.  `LossNeedsOverlap` shows that two
  overlapping flushes are the only reason when the database works.
- **A truncation may go unnoticed** (`README.md:25`, run `tail_truncate`).  The
  tailer seeks to the end of the log when it starts but counts consumed bytes
  from zero, and compares that count with the size.
- **A long video may count twice** (`README.md:13`, run `binding_long`).  The
  debounce key contains the item, and a heartbeat has its item only while the
  device asked for data within 120 s.  A player that buffers ahead, or holds one
  long request that Caddy logs when it ends, goes on under the item `session`.

- **Midnight may lose a trend** (`query.go:310`, run `trend`).  The comment at
  `query.go:242` promises the last days, today included.  `Trend` fills its map
  and makes its answer by different readings of the clock; when midnight passes
  in between, the new day is not in the map, `query.go:311` dereferences a nil
  pointer, and the request is cut off.  `TrendLostOnlyAtMidnight` shows that this
  is the only reason, and that a midnight before the map is begun does no harm.

Also visible, though no run of its own shows it:

- A batch between reset and commit is in neither the buffer nor the tables, so a
  reader that wins the database lock reports less than was counted
  (`query.go:45` says buffer and database), and the total can go down from one
  call to the next.  It never counts double.
- A nameless stream is filed under the device key of `未知设备` (`tail.go:211`),
  which all nameless clients of the upstream share, and not under its address.
  So a nameless heartbeat goes to the last nameless stream from *any* address,
  where `README.md:12` and `tail.go:206-207` say that the address decides.
- The address is meant to be the fallback only where there is no device name
  (`tail.go:43`).  A named device whose stream was reclaimed, or that never had
  one, falls back to it too (`tail.go:222-224`).
- A roll may leave lines behind (`README.md:25` speaks of rotation followed
  without a trace).  At the end of file the tailer sleeps 200 ms and looks at the
  path; if the log was rolled, it opens the new file without reading the old one
  once more (`tail.go:123-128`).  What Caddy wrote in the pause is lost.
- A restart in the middle of a viewing counts it again (`README.md:13`): the
  debounce map starts empty (`store.go:69`).
- A report may carry the next day's figures: the scheduler takes the day at the
  tick, the provider asks the clock again (`main.go:94`), and at the default time
  of 23:59 half a minute lies between the last tick and midnight.
- A login that is in flight when its client is blocked may lift the block: a
  success deletes the failures, and a failure recorded after the window has run
  out begins a new one.  `BlockEndsForCause` allows those two steps
  of its own logins, time and the end of the process, and nothing else.
- `Prune` says that a background task calls it (`session.go:58`), and
  `README.md:26` that expired sessions are reclaimed; nothing calls it, and a
  session that is not presented again stays in the map.  It is not valid, which
  is what `SessionLifetime` shows.
- SIGHUP (`README.md:28`) reaches the report time and what asks the manager
  anew, but not the sender: `main.go:91` hands it the Telegram settings once.
- A file that switches Telegram off may hold a time that is none
  (`config.go:79`); loaded while the sender is on, it stops the report without a
  word.
- `main.go:109` says that Caddy does not use the proxy guard at present, so
  `DnsCache` models code that runs only when it is called directly.

## Not modelled

- `TodayClients` is one query under the lock; `FormatBytes`, `entry.go`, `netutil`
  and most of `clock` are pure functions of strings, numbers and time.
- Password hashes and tokens: cryptography.  Whether a password is right is left
  open in `LoginLimiter`.
- Of the guard: parsing of the target, the test for public addresses, the
  rewriting of headers, all string or address arithmetic.
- The other handlers of the web server hand one value on and change nothing.
- The flags and the defaults of the configuration.
- The dashboard, the installer and the service files; `Restart=always` and
  copytruncate appear as the environment.
- Time zones: the models have one calendar, although lines are dated in the
  host's zone (`tail.go:182`) and readers ask in Asia/Shanghai.

## The plan

Done: the store, the play recorder, the lifecycle, the tailer, the stream
bindings, the daily report with the configuration it follows, the logins, the
sessions, the name cache and the trend, and the proofs of all their safety
properties.  Next:

1. The host's zone as a parameter of `TrafficStore` and `TrendQuery`: the day of a
   line and the day a reader asks for differ for some hours.
2. Readings of the configuration piece by piece, by handlers that ask the manager
   more than once.
