------------------------- MODULE TrafficStoreProofs -------------------------
(***************************************************************************)
(* Theorems about TrafficStore, for every set of lines, flushers, readers  *)
(* and sweeps, every retention and any number of crashes.                  *)
(***************************************************************************)
EXTENDS TrafficStore, TLAPS

-----------------------------------------------------------------------------
(* Aggregates. *)

(* Sums of maps are maps, and count each line as often as both parts do. *)
LEMMA MergeGlobalLaw ==
    ASSUME NEW m \in Maps, NEW n \in Maps
    PROVE  /\ MergeGlobal(m, n) \in Maps
           /\ \A q \in Requests : Holds(MergeGlobal(m, n), q) = Holds(m, q) + Holds(n, q)
           /\ \A q \in Requests : HoldsDetail(MergeGlobal(m, n), q) = HoldsDetail(m, q)
<1>1. \A a, b \in Bag : Plus(a, b) \in Bag
  BY DEF Bag, Plus
<1>2. m.global \in [Dates -> Bag] /\ m.detail \in [DetailKeys -> Bag]
      /\ n.global \in [Dates -> Bag] /\ n.detail \in [DetailKeys -> Bag]
  BY DEF Maps
<1>3. \A q \in Requests : DateOf(q) \in Dates /\ KeyOf[q] \in DetailKeys
  BY KeyAssumption DEF DateOf, DetailKeys
<1>4. MergeGlobal(m, n) \in Maps
  BY <1>1, <1>2 DEF MergeGlobal, Maps
<1> QED
  BY <1>2, <1>3, <1>4 DEF MergeGlobal, Plus, Holds, HoldsDetail

(* The same for the detailed half. *)
LEMMA MergeDetailLaw ==
    ASSUME NEW m \in Maps, NEW n \in Maps
    PROVE  /\ MergeDetail(m, n) \in Maps
           /\ \A q \in Requests : Holds(MergeDetail(m, n), q) = Holds(m, q)
           /\ \A q \in Requests :
                HoldsDetail(MergeDetail(m, n), q) = HoldsDetail(m, q) + HoldsDetail(n, q)
<1>1. \A a, b \in Bag : Plus(a, b) \in Bag
  BY DEF Bag, Plus
<1>2. m.global \in [Dates -> Bag] /\ m.detail \in [DetailKeys -> Bag]
      /\ n.global \in [Dates -> Bag] /\ n.detail \in [DetailKeys -> Bag]
  BY DEF Maps
<1>3. \A q \in Requests : DateOf(q) \in Dates /\ KeyOf[q] \in DetailKeys
  BY KeyAssumption DEF DateOf, DetailKeys
<1>4. MergeDetail(m, n) \in Maps
  BY <1>1, <1>2 DEF MergeDetail, Maps
<1> QED
  BY <1>2, <1>3, <1>4 DEF MergeDetail, Plus, Holds, HoldsDetail

(* Both halves. *)
LEMMA MergeLaw ==
    ASSUME NEW m \in Maps, NEW n \in Maps
    PROVE  /\ Merge(m, n) \in Maps
           /\ \A q \in Requests : Holds(Merge(m, n), q) = Holds(m, q) + Holds(n, q)
           /\ \A q \in Requests :
                HoldsDetail(Merge(m, n), q) = HoldsDetail(m, q) + HoldsDetail(n, q)
BY MergeGlobalLaw, MergeDetailLaw DEF Merge

(* Counting a line adds one to its own count and to no other. *)
LEMMA TallyLaw ==
    ASSUME NEW m \in Maps, NEW q \in Requests
    PROVE  /\ Tally(m, q) \in Maps
           /\ \A x \in Requests :
                /\ Holds(Tally(m, q), x) = Holds(m, x) + IF x = q THEN 1 ELSE 0
                /\ HoldsDetail(Tally(m, q), x) = HoldsDetail(m, x) + IF x = q THEN 1 ELSE 0
<1>1. \A x \in Requests : DateOf(x) \in Dates /\ KeyOf[x] \in DetailKeys
  BY KeyAssumption DEF DateOf, DetailKeys
<1> DEFINE G == [m.global EXCEPT ![DateOf(q)][q] = @ + 1]
           D == [m.detail EXCEPT ![KeyOf[q]][q] = @ + 1]
<1>2. m.global \in [Dates -> Bag] /\ m.detail \in [DetailKeys -> Bag]
  BY DEF Maps
<1>3. G \in [Dates -> Bag]
  BY <1>1, <1>2 DEF Bag
<1>4. D \in [DetailKeys -> Bag]
  BY <1>1, <1>2 DEF Bag
<1>5. Tally(m, q) = [global |-> G, detail |-> D]
  BY DEF Tally
<1>6. \A x \in Requests : G[DateOf(x)][x] = m.global[DateOf(x)][x] + IF x = q THEN 1 ELSE 0
  BY <1>1, <1>2 DEF Bag
<1>7. \A x \in Requests : D[KeyOf[x]][x] = m.detail[KeyOf[x]][x] + IF x = q THEN 1 ELSE 0
  BY <1>1, <1>2 DEF Bag
<1> HIDE DEF G, D
<1> QED
  BY <1>3, <1>4, <1>5, <1>6, <1>7 DEF Maps, Holds, HoldsDetail

(* Empty maps hold nothing. *)
LEMMA EmptyLaw ==
    /\ EmptyMaps \in Maps
    /\ EmptyBag \in Bag
    /\ \A q \in Requests : Holds(EmptyMaps, q) = 0 /\ HoldsDetail(EmptyMaps, q) = 0
BY KeyAssumption DEF EmptyMaps, EmptyBag, Maps, Bag, Holds, HoldsDetail, DateOf, DetailKeys

(* Counts are natural numbers. *)
LEMMA HoldsNat ==
    ASSUME NEW m \in Maps, NEW q \in Requests
    PROVE  Holds(m, q) \in Nat /\ HoldsDetail(m, q) \in Nat
BY KeyAssumption DEF Maps, Bag, Holds, HoldsDetail, DateOf, DetailKeys

-----------------------------------------------------------------------------
(* Types. *)

(* The initial state has the right types. *)
LEMMA TypeInit == Init => TypeOK
BY EmptyLaw, DatesAssumption, BoundAssumption
   DEF Init, TypeOK, NoCall

(* Every step keeps the types. *)
LEMMA TypeStep == TypeOK /\ [Next]_vars => TypeOK'
<1> SUFFICES ASSUME TypeOK, [Next]_vars PROVE TypeOK'
  OBVIOUS
<1> USE DEF TypeOK, Goto, world, locks, flushing, reading, history, Procs
<1>1. ASSUME NEW q \in Requests, AddTraffic(q) PROVE TypeOK'
  <2>1. buffer' \in Maps BY <1>1, TallyLaw DEF AddTraffic
  <2> QED BY <1>1, <2>1 DEF AddTraffic
<1>2. ASSUME NEW f \in Flushers, FlushTraffic(f) PROVE TypeOK'
  <2>1. CASE LockTraffic(f) BY <2>1 DEF LockTraffic
  <2>2. CASE ReturnEmpty(f) BY <2>2 DEF ReturnEmpty
  <2>3. CASE TakeBatch(f) BY <2>3, EmptyLaw DEF TakeBatch
  <2>4. CASE BeginTx(f) BY <2>4 DEF BeginTx
  <2>5. CASE BeginFails(f) BY <2>5 DEF BeginFails
  <2>6. CASE WriteGlobal(f) BY <2>6, MergeGlobalLaw DEF WriteGlobal
  <2>7. CASE WriteDetail(f) BY <2>7, MergeDetailLaw DEF WriteDetail
  <2>8. CASE Commit(f) BY <2>8, EmptyLaw DEF Commit
  <2>9. CASE Rollback(f) BY <2>9, EmptyLaw DEF Rollback
  <2>10. CASE Restore(f) BY <2>10, EmptyLaw, MergeLaw DEF Restore
  <2> QED BY <1>2, <2>1, <2>2, <2>3, <2>4, <2>5, <2>6, <2>7, <2>8, <2>9, <2>10
          DEF FlushTraffic
<1>3. ASSUME NEW r \in Readers, Read(r) PROVE TypeOK'
  <2>1. CASE \E kind \in {"stats", "breakdown"} : Ask(r, kind) BY <2>1 DEF Ask
  <2>2. CASE LockForRead(r) BY <2>2 DEF LockForRead
  <2>3. CASE Snapshot(r)
    <3>1. /\ [d \in Dates |-> IF d = call[r].date THEN buffer.global[d] ELSE EmptyBag]
               \in [Dates -> Bag]
          /\ [k \in DetailKeys |-> IF k.date = call[r].date THEN buffer.detail[k] ELSE EmptyBag]
               \in [DetailKeys -> Bag]
      BY EmptyLaw DEF Maps
    <3>2. snap' \in [Readers -> Maps]
      BY <2>3, <3>1 DEF Snapshot, Maps
    <3> QED BY <2>3, <3>2 DEF Snapshot
  <2>4. CASE Reply(r) BY <2>4 DEF Reply
  <2>5. CASE QueryFails(r) BY <2>5, EmptyLaw, DatesAssumption DEF QueryFails, NoCall
  <2>6. CASE Return(r) BY <2>6, EmptyLaw, DatesAssumption DEF Return, NoCall
  <2> QED BY <1>3, <2>1, <2>2, <2>3, <2>4, <2>5, <2>6 DEF Read
<1>4. ASSUME NEW p \in Pruners, PruneOld(p) PROVE TypeOK'
  <2>1. CASE StartPrune(p) BY <2>1, DatesAssumption, BoundAssumption DEF StartPrune
  <2>2. CASE LockForPrune(p) BY <2>2 DEF LockForPrune
  <2>3. CASE PruneDaily(p)
    <3>1. tables' \in Maps BY <2>3, EmptyLaw DEF PruneDaily, Maps
    <3>2. pruned' \subseteq Requests BY <2>3 DEF PruneDaily
    <3> QED BY <2>3, <3>1, <3>2 DEF PruneDaily
  <2>4. CASE PruneDetail(p)
    <3>1. tables' \in Maps BY <2>4, EmptyLaw DEF PruneDetail, Maps
    <3> QED BY <2>4, <3>1 DEF PruneDetail
  <2>5. CASE PruneFails(p) BY <2>5 DEF PruneFails
  <2> QED BY <1>4, <2>1, <2>2, <2>3, <2>4, <2>5 DEF PruneOld
<1>5. CASE Close BY <1>5 DEF Close
<1>6. CASE Exit
  <2>1. InMemory \subseteq Requests BY DEF InMemory
  <2> QED BY <1>6, <2>1, EmptyLaw, DatesAssumption, BoundAssumption DEF Exit, NoCall
<1>7. CASE Open BY <1>7 DEF Open
<1>8. CASE Midnight BY <1>8 DEF Midnight
<1>9. CASE UNCHANGED vars BY <1>9 DEF vars
<1> QED BY <1>1, <1>2, <1>3, <1>4, <1>5, <1>6, <1>7, <1>8, <1>9 DEF Next

(* Every variable keeps its type in every behaviour. *)
THEOREM TypeCorrect == Spec => []TypeOK
<1>1. Init => TypeOK BY TypeInit
<1>2. TypeOK /\ [Next]_vars => TypeOK' BY TypeStep
<1> QED BY <1>1, <1>2, PTL DEF Spec

-----------------------------------------------------------------------------
(* The two locks. *)

(* The labels of each kind of goroutine, and those at which it holds dbMu. *)
FlusherLabels == {"idle", "take", "lockdb", "global", "detail", "commit", "restore"}
ReaderLabels == {"idle", "lockdb", "snapshot", "query", "done"}
PrunerLabels == {"idle", "lockdb", "global", "detail"}
InDB(p) ==
    \/ p \in Flushers /\ pc[p] \in {"global", "detail", "commit"}
    \/ p \in Readers /\ pc[p] \in {"snapshot", "query"}
    \/ p \in Pruners /\ pc[p] \in {"global", "detail"}

(* Who is between taking and releasing a lock is its holder, and nobody else
   is. *)
LockInv ==
    /\ \A f \in Flushers : pc[f] \in FlusherLabels
    /\ \A r \in Readers : pc[r] \in ReaderLabels
    /\ \A p \in Pruners : pc[p] \in PrunerLabels
    /\ \A f \in Flushers : pc[f] = "take" => trafficMu = f
    /\ \A p \in Procs : InDB(p) => dbMu = p

(* The locks are kept by every step. *)
LEMMA LockStep == TypeOK /\ LockInv /\ [Next]_vars => LockInv'
<1> SUFFICES ASSUME TypeOK, LockInv, [Next]_vars PROVE LockInv'
  OBVIOUS
<1>0. pc \in [Procs -> {"idle", "take", "lockdb", "global", "detail", "commit",
                       "restore", "snapshot", "query", "done"}]
  BY DEF TypeOK
<1> USE ProcsAssumption
    DEF LockInv, InDB, FlusherLabels, ReaderLabels, PrunerLabels,
        Goto, world, locks, flushing, reading, history, Procs
<1>1. ASSUME NEW q \in Requests, AddTraffic(q) PROVE LockInv'
  BY <1>1 DEF AddTraffic
<1>2. ASSUME NEW f \in Flushers, FlushTraffic(f) PROVE LockInv'
  <2>1. CASE LockTraffic(f) BY <1>0, <2>1 DEF LockTraffic
  <2>2. CASE ReturnEmpty(f) BY <1>0, <2>2 DEF ReturnEmpty
  <2>3. CASE TakeBatch(f) BY <1>0, <2>3 DEF TakeBatch
  <2>4. CASE BeginTx(f) BY <1>0, <2>4 DEF BeginTx
  <2>5. CASE BeginFails(f) BY <1>0, <2>5 DEF BeginFails
  <2>6. CASE WriteGlobal(f) BY <1>0, <2>6 DEF WriteGlobal
  <2>7. CASE WriteDetail(f) BY <1>0, <2>7 DEF WriteDetail
  <2>8. CASE Commit(f) BY <1>0, <2>8 DEF Commit
  <2>9. CASE Rollback(f) BY <1>0, <2>9 DEF Rollback
  <2>10. CASE Restore(f) BY <1>0, <2>10 DEF Restore
  <2> QED BY <1>2, <2>1, <2>2, <2>3, <2>4, <2>5, <2>6, <2>7, <2>8, <2>9, <2>10
          DEF FlushTraffic
<1>3. ASSUME NEW r \in Readers, Read(r) PROVE LockInv'
  <2>1. CASE \E kind \in {"stats", "breakdown"} : Ask(r, kind) BY <1>0, <2>1 DEF Ask
  <2>2. CASE LockForRead(r) BY <1>0, <2>2 DEF LockForRead
  <2>3. CASE Snapshot(r) BY <1>0, <2>3 DEF Snapshot
  <2>4. CASE Reply(r) BY <1>0, <2>4 DEF Reply
  <2>5. CASE QueryFails(r) BY <1>0, <2>5 DEF QueryFails
  <2>6. CASE Return(r) BY <1>0, <2>6 DEF Return
  <2> QED BY <1>3, <2>1, <2>2, <2>3, <2>4, <2>5, <2>6 DEF Read
<1>4. ASSUME NEW p \in Pruners, PruneOld(p) PROVE LockInv'
  <2>1. CASE StartPrune(p) BY <1>0, <2>1 DEF StartPrune
  <2>2. CASE LockForPrune(p) BY <1>0, <2>2 DEF LockForPrune
  <2>3. CASE PruneDaily(p) BY <1>0, <2>3 DEF PruneDaily
  <2>4. CASE PruneDetail(p) BY <1>0, <2>4 DEF PruneDetail
  <2>5. CASE PruneFails(p) BY <1>0, <2>5 DEF PruneFails
  <2> QED BY <1>4, <2>1, <2>2, <2>3, <2>4, <2>5 DEF PruneOld
<1>5. CASE Close BY <1>5 DEF Close
<1>6. CASE Exit BY <1>0, <1>6 DEF Exit
<1>7. CASE Open BY <1>7 DEF Open
<1>8. CASE Midnight BY <1>8 DEF Midnight
<1>9. CASE UNCHANGED vars BY <1>9 DEF vars
<1> QED BY <1>1, <1>2, <1>3, <1>4, <1>5, <1>6, <1>7, <1>8, <1>9 DEF Next

-----------------------------------------------------------------------------
(* Where a line is counted. *)

(* An open transaction holds the tables plus what was written so far.  The
   tables cannot have moved under it, for it holds dbMu. *)
TxInv ==
    \A f \in Flushers :
        /\ pc[f] = "global" => tx = tables
        /\ pc[f] \in {"detail", "commit"} =>
             \A q \in Requests : Holds(tx, q) = Holds(tables, q) + Holds(batch[f], q)
        /\ pc[f] = "detail" =>
             \A q \in Requests : HoldsDetail(tx, q) = HoldsDetail(tables, q)
        /\ pc[f] = "commit" =>
             \A q \in Requests :
                HoldsDetail(tx, q) = HoldsDetail(tables, q) + HoldsDetail(batch[f], q)

(* A flusher with nothing in hand has an empty batch. *)
BatchInv ==
    \A f \in Flushers : pc[f] \in {"idle", "take"} => batch[f] = EmptyMaps

(* Between its two DELETEs a sweep has emptied the daily rows it is about. *)
SweepInv ==
    \A p \in Pruners : pc[p] = "detail" =>
        \A q \in Requests : DateOf(q) < cutoff[p] => Holds(tables, q) = 0

(* A line that was not counted yet is nowhere, one that was swept had been
   counted. *)
AddedInv ==
    /\ pruned \subseteq added
    /\ \A q \in Requests \ added :
        /\ Holds(buffer, q) = 0 /\ HoldsDetail(buffer, q) = 0
        /\ Holds(tables, q) = 0
        /\ \A f \in Flushers : Holds(batch[f], q) = 0

CountInv ==
    /\ TxInv /\ BatchInv /\ SweepInv /\ AddedInv
    /\ CountedAtMostOnce /\ NothingLost /\ DetailMirrorsGlobal

(* The inductive invariant. *)
StoreInv == TypeOK /\ LockInv /\ CountInv

(* It holds at the start. *)
LEMMA StoreInvInit == Init => StoreInv
<1> SUFFICES ASSUME Init PROVE StoreInv
  OBVIOUS
<1>1. TypeOK BY TypeInit
<1>2. LockInv
  BY ProcsAssumption DEF Init, LockInv, InDB, FlusherLabels, ReaderLabels, PrunerLabels, Procs
<1>3. TxInv /\ BatchInv /\ SweepInv
  BY DEF Init, TxInv, BatchInv, SweepInv, Procs
<1>4. AddedInv /\ CountedAtMostOnce /\ NothingLost /\ DetailMirrorsGlobal
  BY EmptyLaw DEF Init, AddedInv, CountedAtMostOnce, NothingLost, DetailMirrorsGlobal
<1> QED BY <1>1, <1>2, <1>3, <1>4 DEF StoreInv, CountInv

(* A step that leaves the maps alone, and moves no flusher or sweep into a
   stage the invariant speaks about. *)
LEMMA QuietStep ==
    ASSUME StoreInv,
           UNCHANGED <<buffer, tables, tx, batch, added, dropped, pruned>>,
           \A f \in Flushers : \/ pc'[f] = pc[f]
                               \/ pc'[f] \in {"take", "restore", "lockdb"} /\ batch[f] = EmptyMaps
                               \/ pc'[f] = "restore"
                               \/ pc'[f] = "idle" /\ batch[f] = EmptyMaps,
           \A p \in Pruners : \/ pc'[p] = pc[p] /\ cutoff'[p] = cutoff[p]
                              \/ pc'[p] # "detail"
    PROVE  CountInv'
<1>1. TxInv' BY DEF StoreInv, CountInv, TxInv
<1>2. BatchInv' BY DEF StoreInv, CountInv, BatchInv
<1>3. SweepInv' BY DEF StoreInv, CountInv, SweepInv
<1>4. AddedInv' BY DEF StoreInv, CountInv, AddedInv
<1>5. CountedAtMostOnce' BY DEF StoreInv, CountInv, CountedAtMostOnce
<1>6. NothingLost' BY DEF StoreInv, CountInv, NothingLost
<1>7. DetailMirrorsGlobal' BY DEF StoreInv, CountInv, DetailMirrorsGlobal
<1> QED BY <1>1, <1>2, <1>3, <1>4, <1>5, <1>6, <1>7 DEF CountInv

(* AddTraffic counts a new line once, in the buffer. *)
LEMMA AddStep ==
    ASSUME StoreInv, NEW q \in Requests, AddTraffic(q)
    PROVE  CountInv'
<1> USE DEF StoreInv, CountInv
<1>1. /\ UNCHANGED <<tables, tx, batch, pc, dropped, pruned, cutoff>>
      /\ added' = added \cup {q} /\ q \notin added
  BY DEF AddTraffic, world, locks, flushing, reading
<1>2. \A x \in Requests :
        /\ Holds(buffer', x) = Holds(buffer, x) + IF x = q THEN 1 ELSE 0
        /\ HoldsDetail(buffer', x) = HoldsDetail(buffer, x) + IF x = q THEN 1 ELSE 0
  BY TallyLaw DEF AddTraffic, TypeOK
<1>3. /\ \A x \in Requests : Holds(buffer, x) \in Nat /\ HoldsDetail(buffer, x) \in Nat
      /\ \A x \in Requests : Holds(tables, x) \in Nat
      /\ \A x \in Requests, f \in Flushers : Holds(batch[f], x) \in Nat
  BY HoldsNat DEF TypeOK
<1>4. TxInv' /\ BatchInv' /\ SweepInv'
  BY <1>1 DEF TxInv, BatchInv, SweepInv
<1>5. AddedInv'
  BY <1>1, <1>2, <1>3 DEF AddedInv
<1>6. CountedAtMostOnce'
  BY <1>1, <1>2, <1>3 DEF CountedAtMostOnce, AddedInv
<1>7. NothingLost'
  <2> SUFFICES ASSUME NEW x \in added' \ (dropped' \cup pruned')
               PROVE  \/ Holds(buffer', x) > 0
                      \/ Holds(tables', x) > 0
                      \/ \E f \in Flushers : Holds(batch'[f], x) > 0
    BY DEF NothingLost
  <2>1. x \in Requests
    BY <1>1 DEF TypeOK
  <2>2. CASE x = q
    BY <1>2, <1>3, <2>1, <2>2
  <2>3. CASE x # q
    <3>1. x \in added \ (dropped \cup pruned) BY <1>1, <2>3
    <3>2. Holds(buffer', x) = Holds(buffer, x) BY <1>2, <1>3, <2>1, <2>3
    <3> QED BY <1>1, <3>1, <3>2 DEF NothingLost
  <2> QED BY <2>2, <2>3
<1>8. DetailMirrorsGlobal'
  BY <1>1, <1>2, <1>3 DEF DetailMirrorsGlobal
<1> QED BY <1>4, <1>5, <1>6, <1>7, <1>8

(* The snapshot moves every count from the buffer to the batch. *)
LEMMA TakeStep ==
    ASSUME StoreInv, NEW f \in Flushers, TakeBatch(f)
    PROVE  CountInv'
<1> USE DEF StoreInv, CountInv
<1>1. /\ UNCHANGED <<tables, tx, added, dropped, pruned, cutoff>>
      /\ pc[f] = "take" /\ pc' = [pc EXCEPT ![f] = "lockdb"]
      /\ batch' = [batch EXCEPT ![f] = buffer] /\ buffer' = EmptyMaps
      /\ batch[f] = EmptyMaps
  BY DEF TakeBatch, BatchInv, Goto, world, locks, flushing, reading, history
<1>2. /\ \A x \in Requests : Holds(buffer', x) = 0 /\ HoldsDetail(buffer', x) = 0
      /\ \A x \in Requests : Holds(batch[f], x) = 0
  BY <1>1, EmptyLaw
<1>3. /\ \A x \in Requests : Holds(buffer, x) \in Nat /\ HoldsDetail(buffer, x) \in Nat
      /\ \A x \in Requests : Holds(tables, x) \in Nat
      /\ \A x \in Requests, g \in Flushers : Holds(batch[g], x) \in Nat
  BY HoldsNat DEF TypeOK
<1>4. batch'[f] = buffer /\ \A g \in Flushers \ {f} : batch'[g] = batch[g]
  BY <1>1 DEF TypeOK
<1>5. pc'[f] = "lockdb" /\ \A p \in Procs \ {f} : pc'[p] = pc[p]
  BY <1>1 DEF TypeOK, Procs
<1>6. \A p \in Pruners : pc'[p] = pc[p]
  BY <1>5, ProcsAssumption DEF Procs
<1>7. TxInv' /\ BatchInv' /\ SweepInv'
  BY <1>1, <1>4, <1>5, <1>6 DEF TxInv, BatchInv, SweepInv, Procs
<1>8. AddedInv'
  BY <1>1, <1>2, <1>4 DEF AddedInv
<1>9. CountedAtMostOnce'
  BY <1>1, <1>2, <1>3, <1>4 DEF CountedAtMostOnce
<1>10. NothingLost'
  BY <1>1, <1>2, <1>3, <1>4 DEF NothingLost
<1>11. DetailMirrorsGlobal'
  BY <1>1, <1>2, <1>4 DEF DetailMirrorsGlobal
<1> QED BY <1>7, <1>8, <1>9, <1>10, <1>11

(* What the statements write into the transaction is tables plus batch. *)
LEMMA WriteStep ==
    ASSUME StoreInv, NEW f \in Flushers, WriteGlobal(f) \/ WriteDetail(f)
    PROVE  CountInv'
<1> USE DEF StoreInv, CountInv
<1>1. /\ UNCHANGED <<buffer, tables, batch, added, dropped, pruned, cutoff>>
      /\ pc[f] \in {"global", "detail"}
      /\ pc' = [pc EXCEPT ![f] = IF pc[f] = "global" THEN "detail" ELSE "commit"]
  BY DEF WriteGlobal, WriteDetail, Goto, world, locks, flushing, reading, history
<1>2. /\ pc'[f] = IF pc[f] = "global" THEN "detail" ELSE "commit"
      /\ \A p \in Procs \ {f} : pc'[p] = pc[p]
  BY <1>1 DEF TypeOK, Procs
<1>3. \A g \in Flushers \ {f} : pc'[g] \notin {"global", "detail", "commit"}
  BY <1>1, <1>2 DEF LockInv, InDB, Procs
<1>4. \A p \in Pruners : pc'[p] = pc[p]
  BY <1>2, ProcsAssumption DEF Procs
<1>5. /\ pc[f] = "global" => \A q \in Requests :
           /\ Holds(tx', q) = Holds(tables, q) + Holds(batch[f], q)
           /\ HoldsDetail(tx', q) = HoldsDetail(tables, q)
      /\ pc[f] = "detail" => \A q \in Requests :
           /\ Holds(tx', q) = Holds(tables, q) + Holds(batch[f], q)
           /\ HoldsDetail(tx', q) = HoldsDetail(tables, q) + HoldsDetail(batch[f], q)
  <2>1. CASE WriteGlobal(f)
    BY <2>1, MergeGlobalLaw DEF WriteGlobal, TxInv, TypeOK
  <2>2. CASE WriteDetail(f)
    BY <2>2, MergeDetailLaw DEF WriteDetail, TxInv, TypeOK
  <2> QED BY <2>1, <2>2
<1>6. TxInv'
  BY <1>1, <1>2, <1>3, <1>5 DEF TxInv
<1>7. BatchInv' /\ SweepInv'
  BY <1>1, <1>2, <1>4 DEF BatchInv, SweepInv, Procs
<1>8. AddedInv' /\ CountedAtMostOnce'
  BY <1>1 DEF AddedInv, CountedAtMostOnce
<1>9. NothingLost' /\ DetailMirrorsGlobal'
  BY <1>1 DEF NothingLost, DetailMirrorsGlobal
<1> QED BY <1>6, <1>7, <1>8, <1>9

(* The commit moves every count from the batch to the tables. *)
LEMMA CommitStep ==
    ASSUME StoreInv, NEW f \in Flushers, Commit(f)
    PROVE  CountInv'
<1> USE DEF StoreInv, CountInv
<1>1. /\ UNCHANGED <<buffer, added, dropped, pruned, cutoff>>
      /\ pc[f] = "commit" /\ pc' = [pc EXCEPT ![f] = "idle"]
      /\ batch' = [batch EXCEPT ![f] = EmptyMaps] /\ tables' = tx
  BY DEF Commit, Goto, world, locks, flushing, reading, history
<1>2. batch'[f] = EmptyMaps /\ \A g \in Flushers \ {f} : batch'[g] = batch[g]
  BY <1>1 DEF TypeOK
<1>3. pc'[f] = "idle" /\ \A p \in Procs \ {f} : pc'[p] = pc[p]
  BY <1>1 DEF TypeOK, Procs
<1>4. /\ \A g \in Flushers : pc'[g] \notin {"global", "detail", "commit"}
      /\ \A p \in Pruners : pc'[p] # "detail"
  BY <1>1, <1>3, ProcsAssumption DEF LockInv, InDB, Procs
<1>5. \A q \in Requests :
        /\ Holds(tables', q) = Holds(tables, q) + Holds(batch[f], q)
        /\ HoldsDetail(tables', q) = HoldsDetail(tables, q) + HoldsDetail(batch[f], q)
        /\ Holds(batch'[f], q) = 0 /\ HoldsDetail(batch'[f], q) = 0
  BY <1>1, <1>2, EmptyLaw DEF TxInv
<1>6. /\ \A q \in Requests : Holds(buffer, q) \in Nat /\ Holds(tables, q) \in Nat
      /\ \A q \in Requests, g \in Flushers : Holds(batch[g], q) \in Nat
  BY HoldsNat DEF TypeOK
<1>7. TxInv' /\ BatchInv' /\ SweepInv'
  BY <1>2, <1>3, <1>4 DEF TxInv, BatchInv, SweepInv, Procs
<1>8. AddedInv'
  BY <1>1, <1>2, <1>5, <1>6 DEF AddedInv
<1>9. CountedAtMostOnce'
  BY <1>1, <1>2, <1>5, <1>6 DEF CountedAtMostOnce
<1>10. NothingLost'
  BY <1>1, <1>2, <1>5, <1>6 DEF NothingLost, TypeOK
<1>11. DetailMirrorsGlobal'
  BY <1>1, <1>2, <1>5 DEF DetailMirrorsGlobal
<1> QED BY <1>7, <1>8, <1>9, <1>10, <1>11

(* A failed flush moves every count from the batch back to the buffer. *)
LEMMA RestoreStep ==
    ASSUME StoreInv, NEW f \in Flushers, Restore(f)
    PROVE  CountInv'
<1> USE DEF StoreInv, CountInv
<1>1. /\ UNCHANGED <<tables, tx, added, dropped, pruned, cutoff>>
      /\ pc[f] = "restore" /\ pc' = [pc EXCEPT ![f] = "idle"]
      /\ batch' = [batch EXCEPT ![f] = EmptyMaps] /\ buffer' = Merge(buffer, batch[f])
  BY DEF Restore, Goto, world, locks, flushing, reading, history
<1>2. batch'[f] = EmptyMaps /\ \A g \in Flushers \ {f} : batch'[g] = batch[g]
  BY <1>1 DEF TypeOK
<1>3. pc'[f] = "idle" /\ \A p \in Procs \ {f} : pc'[p] = pc[p]
  BY <1>1 DEF TypeOK, Procs
<1>4. \A p \in Pruners : pc'[p] = pc[p]
  BY <1>3, ProcsAssumption DEF Procs
<1>5. \A q \in Requests :
        /\ Holds(buffer', q) = Holds(buffer, q) + Holds(batch[f], q)
        /\ HoldsDetail(buffer', q) = HoldsDetail(buffer, q) + HoldsDetail(batch[f], q)
        /\ Holds(batch'[f], q) = 0 /\ HoldsDetail(batch'[f], q) = 0
  BY <1>1, <1>2, EmptyLaw, MergeLaw DEF TypeOK
<1>6. /\ \A q \in Requests : Holds(buffer, q) \in Nat /\ Holds(tables, q) \in Nat
      /\ \A q \in Requests, g \in Flushers : Holds(batch[g], q) \in Nat
  BY HoldsNat DEF TypeOK
<1>7. TxInv' /\ BatchInv' /\ SweepInv'
  BY <1>1, <1>2, <1>3, <1>4 DEF TxInv, BatchInv, SweepInv, Procs
<1>8. AddedInv'
  <2>1. \A q \in Requests \ added : HoldsDetail(batch[f], q) = 0
    BY DEF AddedInv, DetailMirrorsGlobal
  <2> QED BY <1>1, <1>2, <1>5, <1>6, <2>1 DEF AddedInv
<1>9. CountedAtMostOnce'
  BY <1>1, <1>2, <1>5, <1>6 DEF CountedAtMostOnce
<1>10. NothingLost'
  BY <1>1, <1>2, <1>5, <1>6 DEF NothingLost, TypeOK
<1>11. DetailMirrorsGlobal'
  BY <1>1, <1>2, <1>5 DEF DetailMirrorsGlobal
<1> QED BY <1>7, <1>8, <1>9, <1>10, <1>11

(* The first DELETE takes whole days out of the daily rows and records them. *)
LEMMA PruneDailyStep ==
    ASSUME StoreInv, NEW p \in Pruners, PruneDaily(p)
    PROVE  CountInv'
<1> USE DEF StoreInv, CountInv
<1>1. /\ UNCHANGED <<buffer, batch, tx, added, dropped, cutoff>>
      /\ pc[p] = "global" /\ pc' = [pc EXCEPT ![p] = "detail"]
      /\ pruned' = pruned \cup {q \in Requests :
                                  DateOf(q) < cutoff[p] /\ Holds(tables, q) > 0}
  BY DEF PruneDaily, Goto, Holds, world, locks, flushing, reading
<1>2. pc'[p] = "detail" /\ \A x \in Procs \ {p} : pc'[x] = pc[x]
  BY <1>1 DEF TypeOK, Procs
<1>3. /\ \A f \in Flushers : pc'[f] = pc[f] /\ pc'[f] \notin {"global", "detail", "commit"}
      /\ \A x \in Pruners \ {p} : pc'[x] # "detail"
  BY <1>1, <1>2, ProcsAssumption DEF LockInv, InDB, Procs
<1>4. \A q \in Requests :
        /\ Holds(tables', q) = IF DateOf(q) < cutoff[p] THEN 0 ELSE Holds(tables, q)
        /\ HoldsDetail(tables', q) = HoldsDetail(tables, q)
  BY KeyAssumption DEF PruneDaily, Holds, HoldsDetail, EmptyBag, DateOf, DetailKeys
<1>5. /\ \A q \in Requests : Holds(buffer, q) \in Nat /\ Holds(tables, q) \in Nat
      /\ \A q \in Requests, g \in Flushers : Holds(batch[g], q) \in Nat
      /\ \A q \in Requests : Holds(tables', q) =< Holds(tables, q)
  BY <1>4, HoldsNat DEF TypeOK
<1>6. TxInv' /\ BatchInv'
  BY <1>1, <1>3 DEF TxInv, BatchInv
<1>7. SweepInv'
  BY <1>1, <1>3, <1>4 DEF SweepInv
<1>8. AddedInv'
  BY <1>1, <1>4, <1>5 DEF AddedInv
<1>9. CountedAtMostOnce'
  BY <1>1, <1>4, <1>5 DEF CountedAtMostOnce
<1>10. NothingLost'
  BY <1>1, <1>4, <1>5 DEF NothingLost, TypeOK
<1>11. DetailMirrorsGlobal'
  BY <1>1, <1>4, <1>5 DEF DetailMirrorsGlobal
<1> QED BY <1>6, <1>7, <1>8, <1>9, <1>10, <1>11

(* The second DELETE takes out detail rows whose daily rows are gone. *)
LEMMA PruneDetailStep ==
    ASSUME StoreInv, NEW p \in Pruners, PruneDetail(p)
    PROVE  CountInv'
<1> USE DEF StoreInv, CountInv
<1>1. /\ UNCHANGED <<buffer, batch, tx, added, dropped, pruned, cutoff>>
      /\ pc[p] = "detail" /\ pc' = [pc EXCEPT ![p] = "idle"]
  BY DEF PruneDetail, Goto, world, locks, flushing, reading, history
<1>2. pc'[p] = "idle" /\ \A x \in Procs \ {p} : pc'[x] = pc[x]
  BY <1>1 DEF TypeOK, Procs
<1>3. /\ \A f \in Flushers : pc'[f] = pc[f] /\ pc'[f] \notin {"global", "detail", "commit"}
      /\ \A x \in Pruners : pc'[x] # "detail"
  BY <1>1, <1>2, ProcsAssumption DEF LockInv, InDB, Procs
<1>4. \A q \in Requests :
        /\ Holds(tables', q) = Holds(tables, q)
        /\ HoldsDetail(tables', q) = IF DateOf(q) < cutoff[p] THEN 0 ELSE HoldsDetail(tables, q)
  BY KeyAssumption DEF PruneDetail, Holds, HoldsDetail, EmptyBag, DateOf, DetailKeys
<1>5. \A q \in Requests : DateOf(q) < cutoff[p] => Holds(tables, q) = 0
  BY <1>1 DEF SweepInv
<1>6. TxInv' /\ BatchInv' /\ SweepInv'
  BY <1>1, <1>3 DEF TxInv, BatchInv, SweepInv
<1>7. AddedInv' /\ CountedAtMostOnce'
  BY <1>1, <1>4 DEF AddedInv, CountedAtMostOnce
<1>8. NothingLost'
  BY <1>1, <1>4 DEF NothingLost, TypeOK
<1>9. DetailMirrorsGlobal'
  BY <1>1, <1>4, <1>5 DEF DetailMirrorsGlobal
<1> QED BY <1>6, <1>7, <1>8, <1>9

(* What dies with the process is what was in its memory. *)
LEMMA ExitStep ==
    ASSUME StoreInv, Exit
    PROVE  CountInv'
<1> USE DEF StoreInv, CountInv
<1>1. /\ UNCHANGED <<tables, added, pruned>>
      /\ buffer' = EmptyMaps
      /\ pc' = [p \in Procs |-> "idle"]
      /\ batch' = [f \in Flushers |-> EmptyMaps]
      /\ dropped' = dropped \cup InMemory
  BY DEF Exit
<1>2. \A p \in Procs : pc'[p] = "idle"
  BY <1>1
<1>3. \A q \in Requests :
        /\ Holds(buffer', q) = 0 /\ HoldsDetail(buffer', q) = 0
        /\ \A f \in Flushers : Holds(batch'[f], q) = 0 /\ HoldsDetail(batch'[f], q) = 0
  BY <1>1, EmptyLaw
<1>4. /\ \A q \in Requests : Holds(buffer, q) \in Nat /\ Holds(tables, q) \in Nat
      /\ \A q \in Requests, g \in Flushers : Holds(batch[g], q) \in Nat
  BY HoldsNat DEF TypeOK
<1>5. TxInv' /\ BatchInv' /\ SweepInv'
  BY <1>1, <1>2 DEF TxInv, BatchInv, SweepInv, Procs
<1>6. AddedInv'
  BY <1>1, <1>3 DEF AddedInv
<1>7. CountedAtMostOnce'
  BY <1>1, <1>3, <1>4 DEF CountedAtMostOnce
<1>8. NothingLost'
  BY <1>1, <1>3, <1>4 DEF NothingLost, InMemory, TypeOK
<1>9. DetailMirrorsGlobal'
  BY <1>1, <1>3 DEF DetailMirrorsGlobal
<1> QED BY <1>5, <1>6, <1>7, <1>8, <1>9

(* Every step keeps the invariant. *)
LEMMA StoreInvStep == StoreInv /\ [Next]_vars => StoreInv'
<1> SUFFICES ASSUME StoreInv, [Next]_vars PROVE StoreInv'
  OBVIOUS
<1>1. TypeOK' /\ LockInv'
  BY TypeStep, LockStep DEF StoreInv
<1>2. /\ LockInv /\ BatchInv
      /\ pc \in [Procs -> {"idle", "take", "lockdb", "global", "detail", "commit",
                          "restore", "snapshot", "query", "done"}]
      /\ cutoff \in [Pruners -> Int]
  BY DEF StoreInv, CountInv, TypeOK
<1>3. CountInv'
  <2> USE DEF Goto, world, locks, flushing, reading, history
  <2>1. ASSUME NEW q \in Requests, AddTraffic(q) PROVE CountInv'
    BY <2>1, AddStep
  <2>2. ASSUME NEW f \in Flushers, FlushTraffic(f) PROVE CountInv'
    <3>0. f \in Procs /\ Flushers \subseteq Procs /\ Pruners \subseteq Procs /\ f \notin Pruners
      BY ProcsAssumption DEF Procs
    <3>1. CASE LockTraffic(f)
      BY <1>2, <3>0, <3>1, QuietStep DEF LockTraffic, BatchInv
    <3>2. CASE ReturnEmpty(f)
      BY <1>2, <3>0, <3>2, QuietStep DEF ReturnEmpty, BatchInv
    <3>3. CASE TakeBatch(f) BY <3>3, TakeStep
    <3>4. CASE BeginTx(f)
      <4> USE DEF StoreInv, CountInv
      <4>1. /\ UNCHANGED <<buffer, tables, batch, added, dropped, pruned, cutoff>>
            /\ tx' = tables /\ pc' = [pc EXCEPT ![f] = "global"] /\ dbMu' = f
        BY <3>4 DEF BeginTx
      <4>2. pc'[f] = "global" /\ \A p \in Procs \ {f} : pc'[p] = pc[p]
        BY <1>2, <3>0, <4>1
      <4>3. \A g \in Flushers \ {f} : pc'[g] \notin {"global", "detail", "commit"}
        BY <1>1, <3>0, <4>1 DEF LockInv, InDB
      <4>4. TxInv' /\ BatchInv' /\ SweepInv'
        BY <3>0, <4>1, <4>2, <4>3 DEF TxInv, BatchInv, SweepInv
      <4>5. AddedInv' /\ CountedAtMostOnce' /\ NothingLost' /\ DetailMirrorsGlobal'
        BY <4>1 DEF AddedInv, CountedAtMostOnce, NothingLost, DetailMirrorsGlobal
      <4> QED BY <4>4, <4>5
    <3>5. CASE BeginFails(f)
      BY <1>2, <3>0, <3>5, QuietStep DEF BeginFails
    <3>6. CASE WriteGlobal(f) \/ WriteDetail(f) BY <3>6, WriteStep
    <3>7. CASE Commit(f) BY <3>7, CommitStep
    <3>8. CASE Rollback(f)
      <4> USE DEF StoreInv, CountInv
      <4>1. /\ UNCHANGED <<buffer, tables, batch, added, dropped, pruned, cutoff>>
            /\ pc' = [pc EXCEPT ![f] = "restore"] /\ pc[f] \in {"global", "detail", "commit"}
        BY <3>8 DEF Rollback
      <4>2. pc'[f] = "restore" /\ \A p \in Procs \ {f} : pc'[p] = pc[p]
        BY <1>2, <3>0, <4>1
      <4>3. \A g \in Flushers : pc'[g] \notin {"global", "detail", "commit"}
        BY <1>2, <3>0, <4>1, <4>2 DEF LockInv, InDB
      <4>4. TxInv' /\ BatchInv' /\ SweepInv'
        BY <3>0, <4>1, <4>2, <4>3 DEF TxInv, BatchInv, SweepInv
      <4>5. AddedInv' /\ CountedAtMostOnce' /\ NothingLost' /\ DetailMirrorsGlobal'
        BY <4>1 DEF AddedInv, CountedAtMostOnce, NothingLost, DetailMirrorsGlobal
      <4> QED BY <4>4, <4>5
    <3>9. CASE Restore(f) BY <3>9, RestoreStep
    <3> QED BY <2>2, <3>1, <3>2, <3>3, <3>4, <3>5, <3>6, <3>7, <3>8, <3>9 DEF FlushTraffic
  <2>3. ASSUME NEW r \in Readers, Read(r) PROVE CountInv'
    <3>0. /\ r \in Procs /\ Flushers \subseteq Procs /\ Pruners \subseteq Procs
          /\ r \notin Pruners /\ r \notin Flushers
      BY ProcsAssumption DEF Procs
    <3>1. UNCHANGED <<buffer, tables, tx, batch, added, dropped, pruned, cutoff>>
      BY <2>3 DEF Read, Ask, LockForRead, Snapshot, Reply, QueryFails, Return
    <3>2. \A p \in Flushers \cup Pruners : pc'[p] = pc[p]
      BY <1>2, <2>3, <3>0 DEF Read, Ask, LockForRead, Snapshot, Reply, QueryFails, Return
    <3> QED BY <3>1, <3>2, QuietStep
  <2>4. ASSUME NEW p \in Pruners, PruneOld(p) PROVE CountInv'
    <3>0. /\ p \in Procs /\ Flushers \subseteq Procs /\ Pruners \subseteq Procs /\ p \notin Flushers
      BY ProcsAssumption DEF Procs
    <3>1. CASE StartPrune(p) \/ LockForPrune(p) \/ PruneFails(p)
      <4>1. UNCHANGED <<buffer, tables, tx, batch, added, dropped, pruned>>
        BY <3>1 DEF StartPrune, LockForPrune, PruneFails
      <4>2. \A f \in Flushers : pc'[f] = pc[f]
        BY <1>2, <3>0, <3>1 DEF StartPrune, LockForPrune, PruneFails
      <4>3. \A x \in Pruners : \/ pc'[x] = pc[x] /\ cutoff'[x] = cutoff[x]
                              \/ pc'[x] # "detail"
        BY <1>2, <3>0, <3>1 DEF StartPrune, LockForPrune, PruneFails, TypeOK
      <4> QED BY <4>1, <4>2, <4>3, QuietStep
    <3>2. CASE PruneDaily(p) BY <3>2, PruneDailyStep
    <3>3. CASE PruneDetail(p) BY <3>3, PruneDetailStep
    <3> QED BY <2>4, <3>1, <3>2, <3>3 DEF PruneOld
  <2>5. CASE Close \/ Open \/ Midnight \/ UNCHANGED vars
    <3>1. UNCHANGED <<buffer, tables, tx, batch, added, dropped, pruned, pc, cutoff>>
      BY <2>5 DEF Close, Open, Midnight, vars
    <3> QED BY <3>1, QuietStep
  <2>6. CASE Exit BY <2>6, ExitStep
  <2> QED BY <2>1, <2>2, <2>3, <2>4, <2>5, <2>6 DEF Next
<1> QED BY <1>1, <1>3 DEF StoreInv

(* The inductive invariant holds in every behaviour. *)
THEOREM StoreInvariant == Spec => []StoreInv
BY StoreInvInit, StoreInvStep, PTL DEF Spec

(* No line is counted twice, whatever fails, crashes or is retried: at most one
   of the buffer, the batches and the tables holds it, once. *)
THEOREM NoLineCountedTwice == Spec => []CountedAtMostOnce
<1>1. StoreInv => CountedAtMostOnce BY DEF StoreInv, CountInv
<1> QED BY <1>1, StoreInvariant, PTL

(* No line is lost while the process lives: a failed flush gives its batch
   back, and every counted line is in the buffer, in a batch or stored. *)
THEOREM NoLineLost == Spec => []NothingLost
<1>1. StoreInv => NothingLost BY DEF StoreInv, CountInv
<1> QED BY <1>1, StoreInvariant, PTL

(* The distribution by client and host always tells the same story as the daily
   totals, but for days that a half-failed sweep was about. *)
THEOREM MirrorsAgree == Spec => []DetailMirrorsGlobal
<1>1. StoreInv => DetailMirrorsGlobal BY DEF StoreInv, CountInv
<1> QED BY <1>1, StoreInvariant, PTL

-----------------------------------------------------------------------------
(* What a reader returns. *)

(* A line is counted in the row of its own day only. *)
OwnRows(m) == \A q \in Requests, d \in Dates : d # DateOf(q) => m.global[d][q] = 0
RowsInv ==
    /\ OwnRows(buffer) /\ OwnRows(tables) /\ OwnRows(tx)
    /\ \A f \in Flushers : OwnRows(batch[f])

(* The snapshot a reader carries and the tables it is about to read, or has
   read, hold no line in common. *)
ReadInv ==
    \A r \in Readers, q \in Requests, d \in Dates :
        /\ pc[r] = "query" => snap[r].global[d][q] + tables.global[d][q] =< 1
        /\ pc[r] = "done" => snap[r].global[d][q] + rows[r].global[d][q] =< 1

(* Sums keep lines in their own rows. *)
LEMMA OwnRowsLaw ==
    /\ OwnRows(EmptyMaps)
    /\ \A m, n \in Maps : OwnRows(m) /\ OwnRows(n) =>
          OwnRows(MergeGlobal(m, n)) /\ OwnRows(MergeDetail(m, n)) /\ OwnRows(Merge(m, n))
    /\ \A m \in Maps, q \in Requests : OwnRows(m) => OwnRows(Tally(m, q))
<1>1. OwnRows(EmptyMaps)
  BY DEF OwnRows, EmptyMaps, EmptyBag
<1>2. ASSUME NEW m \in Maps, NEW n \in Maps, OwnRows(m), OwnRows(n)
      PROVE  OwnRows(MergeGlobal(m, n)) /\ OwnRows(MergeDetail(m, n)) /\ OwnRows(Merge(m, n))
  BY <1>2 DEF OwnRows, MergeGlobal, MergeDetail, Merge, Plus
<1>3. ASSUME NEW m \in Maps, NEW q \in Requests, OwnRows(m)
      PROVE  OwnRows(Tally(m, q))
  <2>1. m.global \in [Dates -> [Requests -> Nat]] /\ DateOf(q) \in Dates
    BY KeyAssumption DEF Maps, Bag, DateOf, DetailKeys
  <2>2. Tally(m, q).global = [m.global EXCEPT ![DateOf(q)][q] = @ + 1]
    BY DEF Tally
  <2> QED BY <1>3, <2>1, <2>2 DEF OwnRows
<1> QED BY <1>1, <1>2, <1>3

(* Every step keeps lines in their own rows. *)
LEMMA RowsStep == TypeOK /\ RowsInv /\ [Next]_vars => RowsInv'
<1> SUFFICES ASSUME TypeOK, RowsInv, [Next]_vars PROVE RowsInv'
  OBVIOUS
<1> USE DEF RowsInv, world, locks, flushing, reading, history
<1>1. /\ buffer \in Maps /\ tables \in Maps /\ tx \in Maps /\ batch \in [Flushers -> Maps]
  BY DEF TypeOK
<1>2. ASSUME NEW q \in Requests, AddTraffic(q) PROVE RowsInv'
  BY <1>1, <1>2, OwnRowsLaw DEF AddTraffic
<1>3. ASSUME NEW f \in Flushers, FlushTraffic(f) PROVE RowsInv'
  <2>1. CASE LockTraffic(f) \/ ReturnEmpty(f) \/ BeginFails(f)
    BY <1>1, <2>1 DEF LockTraffic, ReturnEmpty, BeginFails
  <2>2. CASE TakeBatch(f) BY <1>1, <2>2, OwnRowsLaw DEF TakeBatch
  <2>3. CASE BeginTx(f) \/ Rollback(f) BY <1>1, <2>3, OwnRowsLaw DEF BeginTx, Rollback
  <2>4. CASE WriteGlobal(f) BY <1>1, <2>4, OwnRowsLaw DEF WriteGlobal
  <2>5. CASE WriteDetail(f) BY <1>1, <2>5, OwnRowsLaw DEF WriteDetail
  <2>6. CASE Commit(f) BY <1>1, <2>6, OwnRowsLaw DEF Commit
  <2>7. CASE Restore(f) BY <1>1, <2>7, OwnRowsLaw DEF Restore
  <2> QED BY <1>3, <2>1, <2>2, <2>3, <2>4, <2>5, <2>6, <2>7 DEF FlushTraffic
<1>4. ASSUME NEW r \in Readers, Read(r) PROVE RowsInv'
  BY <1>4 DEF Read, Ask, LockForRead, Snapshot, Reply, QueryFails, Return
<1>5. ASSUME NEW p \in Pruners, PruneOld(p) PROVE RowsInv'
  <2>1. CASE StartPrune(p) \/ LockForPrune(p) \/ PruneFails(p)
    BY <2>1 DEF StartPrune, LockForPrune, PruneFails
  <2>2. CASE PruneDaily(p) BY <2>2 DEF PruneDaily, OwnRows, EmptyBag
  <2>3. CASE PruneDetail(p) BY <2>3 DEF PruneDetail, OwnRows
  <2> QED BY <1>5, <2>1, <2>2, <2>3 DEF PruneOld
<1>6. CASE Close \/ Open \/ Midnight \/ UNCHANGED vars
  BY <1>6 DEF Close, Open, Midnight, vars
<1>7. CASE Exit BY <1>1, <1>7, OwnRowsLaw DEF Exit
<1> QED BY <1>2, <1>3, <1>4, <1>5, <1>6, <1>7 DEF Next

ReaderInv == StoreInv /\ RowsInv /\ ReadInv

(* The snapshot of a reader stays disjoint from the tables until it has read
   them: the tables do not move while the reader holds dbMu. *)
LEMMA ReadStep == ReaderInv /\ [Next]_vars => ReadInv'
<1> SUFFICES ASSUME ReaderInv, [Next]_vars,
                    NEW r \in Readers, NEW q \in Requests, NEW d \in Dates
             PROVE  /\ pc'[r] = "query" => snap'[r].global[d][q] + tables'.global[d][q] =< 1
                    /\ pc'[r] = "done" => snap'[r].global[d][q] + rows'[r].global[d][q] =< 1
  BY DEF ReadInv
<1> DEFINE Goal == /\ pc'[r] = "query" => snap'[r].global[d][q] + tables'.global[d][q] =< 1
                   /\ pc'[r] = "done" => snap'[r].global[d][q] + rows'[r].global[d][q] =< 1
<1> USE DEF Goto, world, locks, flushing, reading, history
<1>1. /\ pc[r] = "query" => snap[r].global[d][q] + tables.global[d][q] =< 1
      /\ pc[r] = "done" => snap[r].global[d][q] + rows[r].global[d][q] =< 1
  BY DEF ReaderInv, ReadInv
<1>2. /\ r \in Procs /\ Flushers \subseteq Procs /\ Pruners \subseteq Procs
      /\ r \notin Flushers /\ r \notin Pruners /\ Readers \subseteq Procs
  BY ProcsAssumption DEF Procs
<1>3. /\ pc \in [Procs -> {"idle", "take", "lockdb", "global", "detail", "commit",
                          "restore", "snapshot", "query", "done"}]
      /\ snap \in [Readers -> Maps] /\ rows \in [Readers -> Maps] /\ buffer \in Maps
      /\ LockInv
  BY DEF ReaderInv, StoreInv, TypeOK
<1>4. ASSUME tables' = tables, snap'[r] = snap[r], rows'[r] = rows[r], pc'[r] = pc[r]
      PROVE  Goal
  BY <1>1, <1>4
<1>5. ASSUME pc[r] # "query", snap'[r] = snap[r], rows'[r] = rows[r], pc'[r] = pc[r]
      PROVE  Goal
  BY <1>1, <1>5
<1>6. ASSUME NEW x \in Requests, AddTraffic(x) PROVE Goal
  BY <1>4, <1>6 DEF AddTraffic
<1>7. ASSUME NEW f \in Flushers, FlushTraffic(f) PROVE Goal
  <2>1. pc'[r] = pc[r] /\ UNCHANGED <<snap, rows>>
    BY <1>2, <1>3, <1>7
       DEF FlushTraffic, LockTraffic, ReturnEmpty, TakeBatch, BeginTx, BeginFails,
           WriteGlobal, WriteDetail, Commit, Rollback, Restore
  <2>2. CASE Commit(f)
    <3>1. pc[r] # "query" BY <1>2, <1>3, <2>2 DEF Commit, LockInv, InDB
    <3> QED BY <1>5, <2>1, <3>1
  <2>3. CASE ~Commit(f)
    <3>1. UNCHANGED tables
      BY <1>7, <2>3 DEF FlushTraffic, LockTraffic, ReturnEmpty, TakeBatch, BeginTx,
                        BeginFails, WriteGlobal, WriteDetail, Rollback, Restore
    <3> QED BY <1>4, <2>1, <3>1
  <2> QED BY <2>2, <2>3
<1>8. ASSUME NEW p \in Pruners, PruneOld(p) PROVE Goal
  <2>1. pc'[r] = pc[r] /\ UNCHANGED <<snap, rows>>
    BY <1>2, <1>3, <1>8
       DEF PruneOld, StartPrune, LockForPrune, PruneDaily, PruneDetail, PruneFails
  <2>2. CASE PruneDaily(p) \/ PruneDetail(p)
    <3>1. pc[r] # "query"
      BY <1>2, <1>3, <2>2 DEF PruneDaily, PruneDetail, LockInv, InDB
    <3> QED BY <1>5, <2>1, <3>1
  <2>3. CASE StartPrune(p) \/ LockForPrune(p) \/ PruneFails(p)
    <3>1. UNCHANGED tables BY <2>3 DEF StartPrune, LockForPrune, PruneFails
    <3> QED BY <1>4, <2>1, <3>1
  <2> QED BY <1>8, <2>2, <2>3 DEF PruneOld
<1>9. ASSUME NEW x \in Readers, Read(x) PROVE Goal
  <2>1. CASE x # r
    <3>1. tables' = tables /\ snap'[r] = snap[r] /\ rows'[r] = rows[r] /\ pc'[r] = pc[r]
      BY <1>2, <1>3, <1>9, <2>1
         DEF Read, Ask, LockForRead, Snapshot, Reply, QueryFails, Return
    <3> QED BY <1>4, <3>1
  <2>2. CASE x = r
    <3>1. CASE \E kind \in {"stats", "breakdown"} : Ask(r, kind)
      BY <1>2, <1>3, <3>1 DEF Ask
    <3>2. CASE LockForRead(r) \/ QueryFails(r) \/ Return(r)
      BY <1>2, <1>3, <3>2 DEF LockForRead, QueryFails, Return
    <3>3. CASE Snapshot(r)
      <4>1. pc'[r] = "query" /\ tables' = tables
        BY <1>2, <1>3, <3>3 DEF Snapshot
      <4>2. snap'[r].global[d] = IF d = call[r].date THEN buffer.global[d] ELSE EmptyBag
        BY <1>3, <3>3 DEF Snapshot
      <4>3. buffer.global[d][q] + tables.global[d][q] =< 1
        <5>1. CASE d = DateOf(q)
          BY <5>1 DEF ReaderInv, StoreInv, CountInv, CountedAtMostOnce, Holds
        <5>2. CASE d # DateOf(q)
          BY <5>2 DEF ReaderInv, RowsInv, OwnRows
        <5> QED BY <5>1, <5>2
      <4>4. buffer.global[d][q] \in Nat /\ tables.global[d][q] \in Nat
        BY DEF ReaderInv, StoreInv, TypeOK, Maps, Bag
      <4> QED BY <4>1, <4>2, <4>3, <4>4 DEF EmptyBag
    <3>4. CASE Reply(r)
      BY <1>1, <1>2, <1>3, <3>4 DEF Reply
    <3> QED BY <1>9, <2>2, <3>1, <3>2, <3>3, <3>4 DEF Read
  <2> QED BY <2>1, <2>2
<1>10. CASE Close \/ Open \/ Midnight \/ UNCHANGED vars
  BY <1>4, <1>10 DEF Close, Open, Midnight, vars
<1>11. CASE Exit
  BY <1>2, <1>11 DEF Exit
<1> QED BY <1>6, <1>7, <1>8, <1>9, <1>10, <1>11 DEF Next

(* The inductive invariant with the readers in it. *)
THEOREM ReaderInvariant == Spec => []ReaderInv
<1>1. Init => ReaderInv
  BY StoreInvInit, OwnRowsLaw, ProcsAssumption DEF Init, ReaderInv, RowsInv, ReadInv, Procs
<1>2. ReaderInv /\ [Next]_vars => ReaderInv'
  BY StoreInvStep, RowsStep, ReadStep DEF ReaderInv, StoreInv
<1> QED BY <1>1, <1>2, PTL DEF Spec

(* The figure Stats returns for the day counts no line twice, at whatever moment
   of a flush, a failed flush or a sweep the reader asked. *)
THEOREM StatsCountsOnce == Spec => []TodayCountedOnce
<1>1. ReaderInv => TodayCountedOnce
  <2> SUFFICES ASSUME ReaderInv, NEW r \in Readers, NEW q \in Requests, pc[r] = "done"
               PROVE  TodayBytes(r)[q] =< 1
    BY DEF TodayCountedOnce
  <2>1. call[r].date \in Dates
    BY DEF ReaderInv, StoreInv, TypeOK
  <2>2. TodayBytes(r)[q] = snap[r].global[call[r].date][q] + rows[r].global[call[r].date][q]
    BY DEF TodayBytes, Plus
  <2> QED BY <2>1, <2>2 DEF ReaderInv, ReadInv
<1> QED BY <1>1, ReaderInvariant, PTL

====
