--------------------------- MODULE TrafficStore ---------------------------
(***************************************************************************)
(* The traffic half of internal/store: the in-memory buffer that           *)
(* AddTraffic fills, the goroutines that flush it to SQLite, the readers   *)
(* that add buffer and tables together (Stats, Breakdown), and the         *)
(* retention sweep (PruneOld).                                             *)
(*                                                                         *)
(* An aggregate of the code (a TrafficEntry, a row of a table) is a pair   *)
(* of counters, bytes and requests, that grows with every access-log line  *)
(* counted into it.  Here it is the bag of the lines counted into it, a    *)
(* function from lines to how often each was counted, and `+=' is the      *)
(* pointwise sum: a line counted twice has the count 2, a lost one 0.      *)
(* Bytes and requests are both sums over that bag.                         *)
(***************************************************************************)
EXTENDS Integers, FiniteSets, FiniteSetsExt

CONSTANTS
    Requests,   \* lines of the access log that carry traffic
    Dates,      \* days, as integers
    Clients,    \* client addresses
    Targets,    \* upstream hosts
    KeyOf,      \* the trafficDetailKey of each line
    Flushers,   \* goroutines that call FlushTraffic
    Readers,    \* HTTP handlers and the reporter, which call Stats or Breakdown
    Pruners,    \* goroutines that call PruneOld
    NoProc,     \* the holder of a free lock
    FirstDay,   \* the day the model starts on
    Retention,  \* retention_days, 365 when the configuration says 0
    MaxExits    \* bound: how often the process dies

Procs == Flushers \cup Readers \cup Pruners

DetailKeys == [date : Dates, client : Clients, target : Targets]

ASSUME DatesAssumption == Dates \subseteq Int /\ FirstDay \in Dates
ASSUME FiniteAssumption == IsFiniteSet(Dates) /\ IsFiniteSet(Clients) /\ IsFiniteSet(Targets)
ASSUME KeyAssumption == KeyOf \in [Requests -> DetailKeys]
ASSUME ProcsAssumption ==
    /\ NoProc \notin Procs
    /\ Flushers \cap Readers = {}
    /\ Flushers \cap Pruners = {}
    /\ Readers \cap Pruners = {}
ASSUME BoundAssumption == Retention \in Nat \ {0} /\ MaxExits \in Nat

DateOf(q) == KeyOf[q].date

-----------------------------------------------------------------------------
(* Aggregates. *)

Bag == [Requests -> Nat]
EmptyBag == [q \in Requests |-> 0]
Plus(a, b) == [q \in Requests |-> a[q] + b[q]]

(* A pair of maps: the global one by date and the detailed one by key.  The
   buffer, a batch taken from it and the two tables all have this shape. *)
Maps == [global : [Dates -> Bag], detail : [DetailKeys -> Bag]]
EmptyMaps == [global |-> [d \in Dates |-> EmptyBag],
              detail |-> [k \in DetailKeys |-> EmptyBag]]

MergeGlobal(m, n) == [global |-> [d \in Dates |-> Plus(m.global[d], n.global[d])],
                      detail |-> m.detail]
MergeDetail(m, n) == [global |-> m.global,
                      detail |-> [k \in DetailKeys |-> Plus(m.detail[k], n.detail[k])]]
Merge(m, n) == MergeDetail(MergeGlobal(m, n), n)

(* One more line is counted in both maps. *)
Tally(m, q) == [global |-> [m.global EXCEPT ![DateOf(q)][q] = @ + 1],
                detail |-> [m.detail EXCEPT ![KeyOf[q]][q] = @ + 1]]

(* How often a line is counted, in the global map and in the detailed one. *)
Holds(m, q) == m.global[DateOf(q)][q]
HoldsDetail(m, q) == m.detail[KeyOf[q]][q]

-----------------------------------------------------------------------------
VARIABLES
    status,     \* "open", "closed" (after Close), "down" (no process)
    today,      \* clock.Today()
    buffer,     \* Store.traffic and Store.trafficDetail
    trafficMu,  \* holder of the mutex over the buffer
    dbMu,       \* holder of the database lock
    tables,     \* committed rows of daily_traffic and traffic_by_client
    tx,         \* what the tables become if the open transaction commits
    pc,         \* where each goroutine is
    batch,      \* the snapshot a flusher carries
    call,       \* what a reader asks: [kind, date]
    snap,       \* what a reader took from the buffer
    rows,       \* what a reader's queries returned
    cutoff,     \* the date a sweep deletes below
    exits,      \* how often the process has died
    added, dropped, pruned \* history: lines counted, lost with the memory, swept

locks == <<trafficMu, dbMu>>
flushing == <<batch, tx>>
reading == <<call, snap, rows>>
history == <<added, dropped, pruned>>
world == <<status, today, exits>>
vars == <<world, buffer, locks, tables, flushing, pc, reading, cutoff, history>>

NoCall == [kind |-> "none", date |-> FirstDay]

Goto(p, label) == pc' = [pc EXCEPT ![p] = label]

TypeOK ==
    /\ status \in {"open", "closed", "down"}
    /\ today \in Dates
    /\ exits \in 0 .. MaxExits
    /\ buffer \in Maps
    /\ tables \in Maps
    /\ tx \in Maps
    /\ trafficMu \in Flushers \cup {NoProc}
    /\ dbMu \in Procs \cup {NoProc}
    /\ pc \in [Procs -> {"idle", "take", "lockdb", "global", "detail", "commit",
                         "restore", "snapshot", "query", "done"}]
    /\ batch \in [Flushers -> Maps]
    /\ call \in [Readers -> [kind : {"none", "stats", "breakdown"}, date : Dates]]
    /\ snap \in [Readers -> Maps]
    /\ rows \in [Readers -> Maps]
    /\ cutoff \in [Pruners -> Int]
    /\ added \subseteq Requests
    /\ dropped \subseteq Requests
    /\ pruned \subseteq Requests

Init ==
    /\ status = "open"
    /\ today = FirstDay
    /\ exits = 0
    /\ buffer = EmptyMaps
    /\ tables = EmptyMaps
    /\ tx = EmptyMaps
    /\ trafficMu = NoProc
    /\ dbMu = NoProc
    /\ pc = [p \in Procs |-> "idle"]
    /\ batch = [f \in Flushers |-> EmptyMaps]
    /\ call = [r \in Readers |-> NoCall]
    /\ snap = [r \in Readers |-> EmptyMaps]
    /\ rows = [r \in Readers |-> EmptyMaps]
    /\ cutoff = [p \in Pruners |-> FirstDay - Retention]
    /\ added = {}
    /\ dropped = {}
    /\ pruned = {}

-----------------------------------------------------------------------------
(* AddTraffic: both maps grow by the line, under trafficMu. *)
AddTraffic(q) ==
    /\ status # "down"
    /\ q \notin added
    /\ trafficMu = NoProc
    /\ buffer' = Tally(buffer, q)
    /\ added' = added \cup {q}
    /\ UNCHANGED <<world, locks, tables, flushing, pc, reading, cutoff, dropped, pruned>>

-----------------------------------------------------------------------------
(* FlushTraffic. *)

LockTraffic(f) ==
    /\ status # "down"
    /\ pc[f] = "idle"
    /\ trafficMu = NoProc
    /\ trafficMu' = f
    /\ Goto(f, "take")
    /\ UNCHANGED <<world, buffer, dbMu, tables, flushing, reading, cutoff, history>>

ReturnEmpty(f) ==
    /\ pc[f] = "take"
    /\ buffer = EmptyMaps
    /\ trafficMu' = NoProc
    /\ Goto(f, "idle")
    /\ UNCHANGED <<world, buffer, dbMu, tables, flushing, reading, cutoff, history>>

(* Mutant: the maps are not reset. *)
TakeBatchKeeping(f) ==
    /\ pc[f] = "take"
    /\ buffer # EmptyMaps
    /\ batch' = [batch EXCEPT ![f] = buffer]
    /\ trafficMu' = NoProc
    /\ Goto(f, "lockdb")
    /\ UNCHANGED <<world, buffer, dbMu, tables, tx, reading, cutoff, history>>

(* Mutant: trafficMu is still held while the database lock is awaited. *)
TakeBatchLocked(f) ==
    /\ pc[f] = "take"
    /\ buffer # EmptyMaps
    /\ batch' = [batch EXCEPT ![f] = buffer]
    /\ buffer' = EmptyMaps
    /\ Goto(f, "lockdb")
    /\ UNCHANGED <<world, locks, tables, tx, reading, cutoff, history>>

(* The snapshot moves to the batch, both maps are reset, trafficMu is
   released before the database lock is asked for. *)
TakeBatch(f) ==
    /\ pc[f] = "take"
    /\ buffer # EmptyMaps
    /\ batch' = [batch EXCEPT ![f] = buffer]
    /\ buffer' = EmptyMaps
    /\ trafficMu' = NoProc
    /\ Goto(f, "lockdb")
    /\ UNCHANGED <<world, dbMu, tables, tx, reading, cutoff, history>>

(* persistTrafficBatch: withDB, Begin, the two prepared statements, Commit. *)
BeginTx(f) ==
    /\ pc[f] = "lockdb"
    /\ dbMu = NoProc
    /\ status = "open"
    /\ dbMu' = f
    /\ tx' = tables
    /\ Goto(f, "global")
    /\ UNCHANGED <<world, buffer, trafficMu, tables, batch, reading, cutoff, history>>

BeginFails(f) ==
    /\ pc[f] = "lockdb"
    /\ dbMu = NoProc
    /\ Goto(f, "restore")
    /\ UNCHANGED <<world, buffer, locks, tables, flushing, reading, cutoff, history>>

WriteGlobal(f) ==
    /\ pc[f] = "global"
    /\ tx' = MergeGlobal(tx, batch[f])
    /\ Goto(f, "detail")
    /\ UNCHANGED <<world, buffer, locks, tables, batch, reading, cutoff, history>>

WriteDetail(f) ==
    /\ pc[f] = "detail"
    /\ tx' = MergeDetail(tx, batch[f])
    /\ Goto(f, "commit")
    /\ UNCHANGED <<world, buffer, locks, tables, batch, reading, cutoff, history>>

(* Mutant: what was committed is taken out of the buffer, which TakeBatch had
   already emptied. *)
CommitSubtracting(f) ==
    /\ pc[f] = "commit"
    /\ tables' = tx
    /\ tx' = EmptyMaps
    /\ dbMu' = NoProc
    /\ buffer' = [global |-> [d \in Dates |->
                      [q \in Requests |-> buffer.global[d][q] - batch[f].global[d][q]]],
                   detail |-> buffer.detail]
    /\ batch' = [batch EXCEPT ![f] = EmptyMaps]
    /\ Goto(f, "idle")
    /\ UNCHANGED <<world, trafficMu, reading, cutoff, history>>

Commit(f) ==
    /\ pc[f] = "commit"
    /\ tables' = tx
    /\ tx' = EmptyMaps
    /\ dbMu' = NoProc
    /\ batch' = [batch EXCEPT ![f] = EmptyMaps]
    /\ Goto(f, "idle")
    /\ UNCHANGED <<world, buffer, trafficMu, reading, cutoff, history>>

(* Mutant: the statements run outside a transaction, so those already done
   stay. *)
RollbackNothing(f) ==
    /\ pc[f] \in {"global", "detail", "commit"}
    /\ tables' = tx
    /\ tx' = EmptyMaps
    /\ dbMu' = NoProc
    /\ Goto(f, "restore")
    /\ UNCHANGED <<world, buffer, trafficMu, batch, reading, cutoff, history>>

(* Mutant: the error path leaves withDB without releasing the lock. *)
RollbackHolding(f) ==
    /\ pc[f] \in {"global", "detail", "commit"}
    /\ tx' = EmptyMaps
    /\ Goto(f, "restore")
    /\ UNCHANGED <<world, buffer, locks, tables, batch, reading, cutoff, history>>

(* Any statement, or the commit, fails: the transaction is rolled back. *)
Rollback(f) ==
    /\ pc[f] \in {"global", "detail", "commit"}
    /\ tx' = EmptyMaps
    /\ dbMu' = NoProc
    /\ Goto(f, "restore")
    /\ UNCHANGED <<world, buffer, trafficMu, tables, batch, reading, cutoff, history>>

(* Mutant: the snapshot replaces the buffer. *)
RestoreOver(f) ==
    /\ pc[f] = "restore"
    /\ trafficMu = NoProc
    /\ buffer' = batch[f]
    /\ batch' = [batch EXCEPT ![f] = EmptyMaps]
    /\ Goto(f, "idle")
    /\ UNCHANGED <<world, locks, tables, tx, reading, cutoff, history>>

(* restoreTrafficBatch: the snapshot is added to what arrived meanwhile. *)
Restore(f) ==
    /\ pc[f] = "restore"
    /\ trafficMu = NoProc
    /\ buffer' = Merge(buffer, batch[f])
    /\ batch' = [batch EXCEPT ![f] = EmptyMaps]
    /\ Goto(f, "idle")
    /\ UNCHANGED <<world, locks, tables, tx, reading, cutoff, history>>

FlushTraffic(f) ==
    \/ LockTraffic(f) \/ ReturnEmpty(f) \/ TakeBatch(f)
    \/ BeginTx(f) \/ BeginFails(f) \/ WriteGlobal(f) \/ WriteDetail(f)
    \/ Commit(f) \/ Rollback(f) \/ Restore(f)

-----------------------------------------------------------------------------
(* Stats(today) and Breakdown(today). *)

(* The caller evaluates clock.Today() before it waits for the lock. *)
Ask(r, kind) ==
    /\ status # "down"
    /\ pc[r] = "idle"
    /\ call' = [call EXCEPT ![r] = [kind |-> kind, date |-> today]]
    /\ Goto(r, "lockdb")
    /\ UNCHANGED <<world, buffer, locks, tables, flushing, snap, rows, cutoff, history>>

(* Mutant: the reader does not take the database lock. *)
ReadUnlocked(r) ==
    /\ pc[r] = "lockdb"
    /\ Goto(r, "snapshot")
    /\ UNCHANGED <<world, buffer, locks, tables, flushing, reading, cutoff, history>>

LockForRead(r) ==
    /\ pc[r] = "lockdb"
    /\ dbMu = NoProc
    /\ dbMu' = r
    /\ Goto(r, "snapshot")
    /\ UNCHANGED <<world, buffer, trafficMu, tables, flushing, reading, cutoff, history>>

(* todayBytesFromBuffer, or the copy at the head of Breakdown: the entries
   of the day asked for, under trafficMu and with dbMu held.  Stats reads the
   global half of it, Breakdown the detailed half. *)
Snapshot(r) ==
    /\ pc[r] = "snapshot"
    /\ trafficMu = NoProc
    /\ snap' = [snap EXCEPT ![r] =
         [global |-> [d \in Dates |->
            IF d = call[r].date THEN buffer.global[d] ELSE EmptyBag],
          detail |-> [k \in DetailKeys |->
            IF k.date = call[r].date THEN buffer.detail[k] ELSE EmptyBag]]]
    /\ Goto(r, "query")
    /\ UNCHANGED <<world, buffer, locks, tables, flushing, call, rows, cutoff, history>>

(* The queries run with dbMu held. *)
Reply(r) ==
    /\ pc[r] = "query"
    /\ status = "open"
    /\ rows' = [rows EXCEPT ![r] = tables]
    /\ dbMu' = NoProc
    /\ Goto(r, "done")
    /\ UNCHANGED <<world, buffer, trafficMu, tables, flushing, call, snap, cutoff, history>>

QueryFails(r) ==
    /\ pc[r] = "query"
    /\ snap' = [snap EXCEPT ![r] = EmptyMaps]
    /\ call' = [call EXCEPT ![r] = NoCall]
    /\ dbMu' = NoProc
    /\ Goto(r, "idle")
    /\ UNCHANGED <<world, buffer, trafficMu, tables, flushing, rows, cutoff, history>>

Return(r) ==
    /\ pc[r] = "done"
    /\ snap' = [snap EXCEPT ![r] = EmptyMaps]
    /\ rows' = [rows EXCEPT ![r] = EmptyMaps]
    /\ call' = [call EXCEPT ![r] = NoCall]
    /\ Goto(r, "idle")
    /\ UNCHANGED <<world, buffer, locks, tables, flushing, cutoff, history>>

(* The figures of the response: the day's row, SUM(bytes) over all rows, and
   the rows of the day by client and by host, each with the snapshot added. *)
Sum(f, S) == MapThenSumSet(LAMBDA x : f[x], S)
TodayBytes(r) ==
    Plus(snap[r].global[call[r].date], rows[r].global[call[r].date])
TotalBytes(r) ==
    [q \in Requests |-> snap[r].global[call[r].date][q]
                        + Sum([d \in Dates |-> rows[r].global[d][q]], Dates)]
Slice(r, C, T) ==
    LET K == [date : {call[r].date}, client : C, target : T]
    IN  [q \in Requests |->
            Sum([k \in K |-> snap[r].detail[k][q] + rows[r].detail[k][q]], K)]
ByClient(r) == [c \in Clients |-> Slice(r, {c}, Targets)]
ByHost(r) == [t \in Targets |-> Slice(r, Clients, {t})]

Read(r) ==
    \/ \E kind \in {"stats", "breakdown"} : Ask(r, kind)
    \/ LockForRead(r) \/ Snapshot(r) \/ Reply(r) \/ QueryFails(r) \/ Return(r)

-----------------------------------------------------------------------------
(* PruneOld(cutoff): the cutoff is computed before the wait for the lock, and
   the DELETEs are statements of their own, not one transaction.  The first
   one, on play_events, leaves the traffic tables alone. *)

StartPrune(p) ==
    /\ status # "down"
    /\ pc[p] = "idle"
    /\ cutoff' = [cutoff EXCEPT ![p] = today - Retention]
    /\ Goto(p, "lockdb")
    /\ UNCHANGED <<world, buffer, locks, tables, flushing, reading, history>>

LockForPrune(p) ==
    /\ pc[p] = "lockdb"
    /\ dbMu = NoProc
    /\ dbMu' = p
    /\ Goto(p, "global")
    /\ UNCHANGED <<world, buffer, trafficMu, tables, flushing, reading, cutoff, history>>

(* Mutant: the cutoff day is deleted too. *)
PruneDailyInclusive(p) ==
    /\ pc[p] = "global"
    /\ status = "open"
    /\ tables' = [global |-> [d \in Dates |->
                               IF d =< cutoff[p] THEN EmptyBag ELSE tables.global[d]],
                   detail |-> tables.detail]
    /\ pruned' = pruned \cup {q \in Requests :
         DateOf(q) =< cutoff[p] /\ tables.global[DateOf(q)][q] > 0}
    /\ Goto(p, "detail")
    /\ UNCHANGED <<world, buffer, locks, flushing, reading, cutoff, added, dropped>>

PruneDaily(p) ==
    /\ pc[p] = "global"
    /\ status = "open"
    /\ tables' = [global |-> [d \in Dates |->
                               IF d < cutoff[p] THEN EmptyBag ELSE tables.global[d]],
                   detail |-> tables.detail]
    /\ pruned' = pruned \cup {q \in Requests :
         DateOf(q) < cutoff[p] /\ tables.global[DateOf(q)][q] > 0}
    /\ Goto(p, "detail")
    /\ UNCHANGED <<world, buffer, locks, flushing, reading, cutoff, added, dropped>>

PruneDetail(p) ==
    /\ pc[p] = "detail"
    /\ status = "open"
    /\ tables' = [global |-> tables.global,
                   detail |-> [k \in DetailKeys |->
                               IF k.date < cutoff[p] THEN EmptyBag ELSE tables.detail[k]]]
    /\ dbMu' = NoProc
    /\ Goto(p, "idle")
    /\ UNCHANGED <<world, buffer, trafficMu, flushing, reading, cutoff, history>>

PruneFails(p) ==
    /\ pc[p] \in {"global", "detail"}
    /\ dbMu' = NoProc
    /\ Goto(p, "idle")
    /\ UNCHANGED <<world, buffer, trafficMu, tables, flushing, reading, cutoff, history>>

PruneOld(p) ==
    StartPrune(p) \/ LockForPrune(p) \/ PruneDaily(p) \/ PruneDetail(p) \/ PruneFails(p)

-----------------------------------------------------------------------------
(* The process. *)

InMemory == {q \in Requests : Holds(buffer, q) > 0
                              \/ \E f \in Flushers : Holds(batch[f], q) > 0}

Close ==
    /\ status = "open"
    /\ exits < MaxExits
    /\ status' = "closed"
    /\ UNCHANGED <<today, exits, buffer, locks, tables, flushing, pc, reading, cutoff, history>>

(* A crash, or the exit that follows Close: the memory is gone, an open
   transaction never happened, committed rows stay. *)
Exit ==
    /\ status # "down"
    /\ exits < MaxExits
    /\ status' = "down"
    /\ exits' = exits + 1
    /\ dropped' = dropped \cup InMemory
    /\ buffer' = EmptyMaps
    /\ tx' = EmptyMaps
    /\ trafficMu' = NoProc
    /\ dbMu' = NoProc
    /\ pc' = [p \in Procs |-> "idle"]
    /\ batch' = [f \in Flushers |-> EmptyMaps]
    /\ call' = [r \in Readers |-> NoCall]
    /\ snap' = [r \in Readers |-> EmptyMaps]
    /\ rows' = [r \in Readers |-> EmptyMaps]
    /\ cutoff' = [p \in Pruners |-> today - Retention]
    /\ UNCHANGED <<today, tables, added, pruned>>

(* store.Open: empty maps over the database as it was left. *)
Open ==
    /\ status = "down"
    /\ status' = "open"
    /\ UNCHANGED <<today, exits, buffer, locks, tables, flushing, pc, reading, cutoff, history>>

(* Midnight.  A call and a sweep last less than a day (the HTTP server cuts a
   call after 15 seconds), so none sees a second midnight. *)
Midnight ==
    /\ today + 1 \in Dates
    /\ \A r \in Readers : pc[r] # "idle" => call[r].date = today
    /\ \A p \in Pruners : pc[p] # "idle" => cutoff[p] = today - Retention
    /\ today' = today + 1
    /\ UNCHANGED <<status, exits, buffer, locks, tables, flushing, pc, reading, cutoff, history>>

Next ==
    \/ \E q \in Requests : AddTraffic(q)
    \/ \E f \in Flushers : FlushTraffic(f)
    \/ \E r \in Readers : Read(r)
    \/ \E p \in Pruners : PruneOld(p)
    \/ Close \/ Exit \/ Open \/ Midnight

Spec == Init /\ [][Next]_vars

(* The flush loop ticks for ever.  The mutex and the lock channel hand
   themselves over in turn (a Go mutex starves nobody, senders on a channel
   queue), hence strong fairness for the step that takes a lock.  What runs
   with a lock held goes on.  The database, while it is open, does not fail
   for ever.  A process that died is started again (Restart=always in the
   unit), one that closed its database exits. *)
TakesLock(p) ==
    \/ p \in Flushers /\ (LockTraffic(p) \/ BeginTx(p) \/ BeginFails(p) \/ Restore(p))
    \/ p \in Readers /\ (LockForRead(p) \/ Snapshot(p))
    \/ p \in Pruners /\ LockForPrune(p)

GoesOn(p) ==
    \/ p \in Flushers /\ (\/ ReturnEmpty(p) \/ TakeBatch(p) \/ WriteGlobal(p)
                          \/ WriteDetail(p) \/ Commit(p) \/ Rollback(p))
    \/ p \in Readers /\ (Reply(p) \/ QueryFails(p) \/ Return(p))
    \/ p \in Pruners /\ (PruneDaily(p) \/ PruneDetail(p) \/ PruneFails(p))

FlushFails == status = "open" /\ \E f \in Flushers : BeginFails(f) \/ Rollback(f)

Fairness ==
    /\ \A p \in Procs : SF_vars(TakesLock(p)) /\ WF_vars(GoesOn(p))
    /\ WF_vars(Open)
    /\ WF_vars(Exit /\ status = "closed")
    /\ <>[][~FlushFails]_vars

FairSpec == Spec /\ Fairness

-----------------------------------------------------------------------------
(* Properties. *)

(* No line is counted twice: of the buffer, the batches in flight and the
   committed tables, at most one holds it, and it holds it once.  This is what
   the lock order of Stats relies on, whatever fails, dies or is retried. *)
CountedAtMostOnce ==
    \A q \in Requests :
        /\ Holds(buffer, q) + Holds(tables, q) =< 1
        /\ \A f \in Flushers :
             /\ Holds(batch[f], q) + Holds(buffer, q) + Holds(tables, q) =< 1
             /\ \A g \in Flushers \ {f} : Holds(batch[f], q) + Holds(batch[g], q) =< 1

(* No line is lost while the process lives: a counted line that did not die
   with a process and was not swept is in the buffer, in a batch or stored.
   A failed flush puts its batch back and loses nothing. *)
NothingLost ==
    \A q \in added \ (dropped \cup pruned) :
        \/ Holds(buffer, q) > 0
        \/ Holds(tables, q) > 0
        \/ \E f \in Flushers : Holds(batch[f], q) > 0

(* The detailed maps and the global ones tell the same story, in the buffer,
   in every batch and in the committed tables (AddTraffic: both are written in
   the same transaction).  Only a sweep that failed half way leaves detail rows
   whose daily row is gone. *)
DetailMirrorsGlobal ==
    \A q \in Requests :
        /\ Holds(buffer, q) = HoldsDetail(buffer, q)
        /\ \A f \in Flushers : Holds(batch[f], q) = HoldsDetail(batch[f], q)
        /\ q \notin pruned => Holds(tables, q) = HoldsDetail(tables, q)

(* What Stats returns for the day counts no line twice: holding dbMu before
   taking the snapshot keeps every batch on one side or the other. *)
TodayCountedOnce ==
    \A r \in Readers, q \in Requests :
        pc[r] = "done" /\ call[r].kind = "stats" => TodayBytes(r)[q] =< 1

(* The same of all figures: the day, the grand total, and the distributions by
   client and by host. *)
NoDoubleCount ==
    /\ TodayCountedOnce
    /\ \A r \in Readers, q \in Requests : pc[r] = "done" =>
        IF call[r].kind = "stats" THEN TotalBytes(r)[q] =< 1
        ELSE /\ Sum([c \in Clients |-> ByClient(r)[c][q]], Clients) =< 1
             /\ Sum([t \in Targets |-> ByHost(r)[t][q]], Targets) =< 1

(* The detailed specification implements the ledger. *)
Told(r) ==
    IF call[r].kind = "stats" THEN TodayBytes(r)
    ELSE [q \in Requests |-> Sum([c \in Clients |-> ByClient(r)[c][q]], Clients)]
StoredLines == {q \in Requests : Holds(tables, q) > 0}
Ledger == INSTANCE TrafficLedger WITH
    day <- today,
    pending <- InMemory,
    stored <- StoredLines,
    gone <- added \ (InMemory \cup StoredLines),
    told <- [r \in Readers |-> IF pc[r] = "done" THEN Told(r) ELSE EmptyBag]
ImplementsLedger == Ledger!Spec

(* A counted line is not pending for ever: it is stored, or it dies with a
   process.  The flush loop retries what failed. *)
FlushedEventually ==
    \A q \in Requests : q \in InMemory ~> q \notin InMemory

(* A reader that asked is answered, or told of an error, or dies with the
   process: the two locks, taken in this order by readers and one after the
   other by flushers, cannot block each other. *)
AnsweredEventually ==
    \A r \in Readers : pc[r] = "lockdb" ~> pc[r] \in {"done", "idle"}
====
