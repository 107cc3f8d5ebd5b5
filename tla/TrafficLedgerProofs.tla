------------------------- MODULE TrafficLedgerProofs -------------------------
(***************************************************************************)
(* That what Stats and Breakdown return counts no line twice, in any of    *)
(* their figures, and that TrafficStore implements TrafficLedger, whatever *)
(* the constants are.  The figures are sums over days, clients and hosts:  *)
(* the first section says what such a sum is.                              *)
(***************************************************************************)
EXTENDS TrafficStoreProofs, FiniteSetTheorems

-----------------------------------------------------------------------------
(* Sums over finite sets. *)

(* A set of subsets of a finite set has a member with no smaller one. *)
LEMMA SmallestSubset ==
    ASSUME NEW S, IsFiniteSet(S), NEW T, T \subseteq SUBSET S, T # {}
    PROVE  \E A \in T : \A B \in T : B \subseteq A => B = A
<1>1. IsWellFoundedOn(StrictSubsetOrdering(S), FiniteSubsetsOf(S))
  BY FS_StrictSubsetOrderingWellFounded
<1>2. T \subseteq FiniteSubsetsOf(S)
  BY FS_Subset DEF FiniteSubsetsOf
<1>3. \E A \in T : \A B \in T : <<B, A>> \notin StrictSubsetOrdering(S)
  BY <1>1, <1>2, WFMin
<1> QED BY <1>3 DEF StrictSubsetOrdering

(* The member of s that MapThenFoldSet takes next, and the table of all partial
   sums that it computes: g[s] is the sum of f over s. *)
Chosen(s) == CHOOSE x \in s : TRUE
Sums(f, S, g) ==
    g = [s \in SUBSET S |-> IF s = {} THEN 0 ELSE f[Chosen(s)] + g[s \ {Chosen(s)}]]

(* Chosen(s) is a member of s. *)
LEMMA ChosenLaw == \A s : s # {} => Chosen(s) \in s
BY DEF Chosen

(* Sum is the last entry of such a table. *)
LEMMA SumUnfolds == \A f, S : Sum(f, S) = (CHOOSE g : Sums(f, S, g))[S]
BY Zenon DEF Sum, MapThenSumSet, MapThenFoldSet, Sums, Chosen

(* An entry of the table. *)
LEMMA SumsAt ==
    ASSUME NEW f, NEW S, NEW g, Sums(f, S, g), NEW s, s \subseteq S
    PROVE  g[s] = IF s = {} THEN 0 ELSE f[Chosen(s)] + g[s \ {Chosen(s)}]
BY DEF Sums

(* There is one table at most: of the sets on which two of them differ, a
   smallest one has a subset on which they differ too. *)
LEMMA SumsUnique ==
    ASSUME NEW f, NEW S, IsFiniteSet(S), NEW g, NEW h, Sums(f, S, g), Sums(f, S, h)
    PROVE  g = h
<1> DEFINE D == {s \in SUBSET S : g[s] # h[s]}
<1>0. D \subseteq SUBSET S
  OBVIOUS
<1>1. CASE D = {}
  <2>1. \A s \in SUBSET S : g[s] = h[s] BY <1>1
  <2>2. g = [s \in SUBSET S |-> g[s]] /\ h = [s \in SUBSET S |-> h[s]] BY DEF Sums
  <2> QED BY <2>1, <2>2
<1>2. CASE D # {}
  <2>1. PICK A \in D : \A B \in D : B \subseteq A => B = A
    <3> HIDE DEF D
    <3> QED BY <1>0, <1>2, SmallestSubset
  <2> DEFINE B == A \ {Chosen(A)}
  <2>2. A # {} BY <2>1, SumsAt
  <2>3. B \subseteq A /\ B # A BY <2>2, ChosenLaw
  <2>4. g[B] = h[B] BY <2>1, <2>3
  <2>5. g[A] = f[Chosen(A)] + g[B] /\ h[A] = f[Chosen(A)] + h[B]
    <3>1. A \subseteq S BY <2>1
    <3> QED BY <2>2, <3>1, SumsAt
  <2> QED BY <2>1, <2>4, <2>5
<1> QED BY <1>1, <1>2

(* The table of a set holds the table of each of its subsets. *)
LEMMA SumsWithin ==
    ASSUME NEW f, NEW S, NEW g, Sums(f, S, g), NEW T, T \subseteq S
    PROVE  Sums(f, T, [s \in SUBSET T |-> g[s]])
<1> DEFINE h == [s \in SUBSET T |-> g[s]]
<1>1. ASSUME NEW s \in SUBSET T
      PROVE  h[s] = IF s = {} THEN 0 ELSE f[Chosen(s)] + h[s \ {Chosen(s)}]
  BY SumsAt
<1> QED BY <1>1 DEF Sums

(* There is a table: the tables of the smaller sets make one. *)
LEMMA SumsExist ==
    ASSUME NEW f, NEW S, IsFiniteSet(S)
    PROVE  \E g : Sums(f, S, g)
<1> DEFINE D == {s \in SUBSET S : ~ \E g : Sums(f, s, g)}
<1> SUFFICES ASSUME D # {} PROVE FALSE
  OBVIOUS
<1>0. D \subseteq SUBSET S
  OBVIOUS
<1>1. PICK A \in D : \A B \in D : B \subseteq A => B = A
  <2> HIDE DEF D
  <2> QED BY <1>0, SmallestSubset
<1> DEFINE G(s) == CHOOSE g : Sums(f, s, g)
           h == [s \in SUBSET A |-> IF s = {} THEN 0
                                    ELSE IF s = A THEN f[Chosen(A)] + G(A \ {Chosen(A)})[A \ {Chosen(A)}]
                                    ELSE G(s)[s]]
<1>2. \A s \in SUBSET A : s # A => Sums(f, s, G(s))
  BY <1>1
<1>3. G({})[{}] = 0 \/ A = {}
  <2> HIDE DEF G
  <2> QED BY <1>2, SumsAt
<1> HIDE DEF G
<1>4. ASSUME NEW s \in SUBSET A
      PROVE  h[s] = IF s = {} THEN 0 ELSE f[Chosen(s)] + h[s \ {Chosen(s)}]
  <2>1. CASE s = {} BY <2>1
  <2>2. CASE s # {}
    <3> DEFINE t == s \ {Chosen(s)}
    <3>1. t \subseteq s /\ t # s BY <2>2, ChosenLaw
    <3>2. t \subseteq A /\ t # A BY <3>1
    <3>3. h[t] = G(t)[t] BY <1>3, <3>2
    <3>4. CASE s = A BY <2>2, <3>3, <3>4
    <3>5. CASE s # A
      <4>1. Sums(f, s, G(s)) /\ Sums(f, t, G(t)) BY <1>2, <3>2, <3>5
      <4>2. Sums(f, t, [u \in SUBSET t |-> G(s)[u]]) BY <3>1, <4>1, SumsWithin
      <4>3. IsFiniteSet(t) BY <3>2, FS_Subset
      <4>4. G(t) = [u \in SUBSET t |-> G(s)[u]] BY <4>1, <4>2, <4>3, SumsUnique
      <4>5. G(t)[t] = G(s)[t] BY <4>4
      <4>6. G(s)[s] = f[Chosen(s)] + G(s)[t] BY <2>2, <4>1, SumsAt
      <4> QED BY <2>2, <3>3, <3>5, <4>5, <4>6
    <3> QED BY <3>4, <3>5
  <2> QED BY <2>1, <2>2
<1>5. Sums(f, A, h) BY <1>4 DEF Sums
<1> QED BY <1>1, <1>5

(* A sum over a set that is not empty is the term of one member plus the sum
   over the others. *)
LEMMA SumLaw ==
    ASSUME NEW f, NEW S, IsFiniteSet(S)
    PROVE  Sum(f, S) = IF S = {} THEN 0 ELSE f[Chosen(S)] + Sum(f, S \ {Chosen(S)})
<1> DEFINE G(s) == CHOOSE g : Sums(f, s, g)
           T == S \ {Chosen(S)}
<1>1. Sums(f, S, G(S)) BY SumsExist
<1>2. IsFiniteSet(T) BY FS_Subset
<1>3. Sums(f, T, G(T)) BY <1>2, SumsExist
<1> HIDE DEF G
<1>4. Sums(f, T, [u \in SUBSET T |-> G(S)[u]]) BY <1>1, SumsWithin
<1>5. G(T) = [u \in SUBSET T |-> G(S)[u]] BY <1>2, <1>3, <1>4, SumsUnique
<1>6. G(T)[T] = G(S)[T] BY <1>5
<1>7. Sum(f, S) = G(S)[S] /\ Sum(f, T) = G(T)[T] BY SumUnfolds DEF G
<1> QED BY <1>1, <1>6, <1>7, SumsAt

(* A sum with one term that is not zero is that term. *)
LEMMA SumOfOne ==
    ASSUME NEW S, IsFiniteSet(S), NEW f, NEW z,
           \A x \in S : f[x] \in Nat,
           \A x \in S : x # z => f[x] = 0
    PROVE  Sum(f, S) = IF z \in S THEN f[z] ELSE 0
<1> DEFINE D == {s \in SUBSET S : Sum(f, s) # IF z \in s THEN f[z] ELSE 0}
<1> SUFFICES ASSUME D # {} PROVE FALSE
  OBVIOUS
<1>0. D \subseteq SUBSET S
  OBVIOUS
<1>1. PICK A \in D : \A B \in D : B \subseteq A => B = A
  <2> HIDE DEF D
  <2> QED BY <1>0, SmallestSubset
<1> DEFINE B == A \ {Chosen(A)}
<1>2. IsFiniteSet(A) BY FS_Subset
<1>3. A # {} BY <1>1, <1>2, SumLaw
<1>4. Chosen(A) \in A BY <1>3, ChosenLaw
<1>5. Sum(f, B) = IF z \in B THEN f[z] ELSE 0 BY <1>1, <1>4
<1>6. Sum(f, A) = f[Chosen(A)] + Sum(f, B) BY <1>2, <1>3, SumLaw
<1>7. CASE Chosen(A) = z BY <1>1, <1>4, <1>5, <1>6, <1>7
<1>8. CASE Chosen(A) # z BY <1>1, <1>4, <1>5, <1>6, <1>8
<1> QED BY <1>7, <1>8

-----------------------------------------------------------------------------
(* The figures of a response. *)

(* A line is counted in the detail row of its own key only. *)
OwnDetail(m) == \A q \in Requests, k \in DetailKeys : k # KeyOf[q] => m.detail[k][q] = 0

(* The detail rows of a day, of some clients and hosts. *)
Part(d, C, T) == [date : {d}, client : C, target : T]

(* They are finitely many. *)
LEMMA FiniteRows ==
    ASSUME NEW d \in Dates, NEW C, IsFiniteSet(C), NEW T, IsFiniteSet(T)
    PROVE  IsFiniteSet(Part(d, C, T))
<1> DEFINE K == [date : {d}, client : C, target : T]
           h == [x \in C \X T |-> [date |-> d, client |-> x[1], target |-> x[2]]]
<1>1. IsFiniteSet(C \X T)
  BY FS_Product
<1>2. h \in [C \X T -> K]
  OBVIOUS
<1>3. ASSUME NEW k \in K PROVE \E x \in C \X T : h[x] = k
  <2>1. <<k.client, k.target>> \in C \X T /\ h[<<k.client, k.target>>] = k
    OBVIOUS
  <2> QED BY <2>1
<1>4. h \in Surjection(C \X T, K)
  BY <1>2, <1>3, Zenon DEF Surjection
<1> QED BY <1>1, <1>4, FS_Surjection DEF Part

(* SUM(bytes) over the daily rows counts a line as often as its own row does. *)
LEMMA TotalLaw ==
    ASSUME NEW m \in Maps, OwnRows(m), NEW q \in Requests
    PROVE  Sum([d \in Dates |-> m.global[d][q]], Dates) = Holds(m, q)
<1> DEFINE f == [d \in Dates |-> m.global[d][q]]
<1>1. DateOf(q) \in Dates
  BY KeyAssumption DEF DateOf, DetailKeys
<1>2. \A d \in Dates : f[d] \in Nat
  BY DEF Maps, Bag
<1>3. \A d \in Dates : d # DateOf(q) => f[d] = 0
  BY DEF OwnRows
<1>4. f[DateOf(q)] = Holds(m, q)
  BY <1>1 DEF Holds
<1> HIDE DEF f
<1>5. Sum(f, Dates) = f[DateOf(q)]
  BY <1>1, <1>2, <1>3, FiniteAssumption, SumOfOne
<1> QED BY <1>4, <1>5 DEF f

(* The rows of a day by some clients and hosts count a line as often as its
   own row does, if it is among them. *)
LEMMA SliceLaw ==
    ASSUME NEW m \in Maps, NEW n \in Maps, OwnDetail(m), OwnDetail(n),
           NEW q \in Requests, NEW d \in Dates,
           NEW C \in SUBSET Clients, NEW T \in SUBSET Targets
    PROVE  Sum([k \in Part(d, C, T) |-> m.detail[k][q] + n.detail[k][q]], Part(d, C, T)) =
             IF KeyOf[q] \in Part(d, C, T) THEN HoldsDetail(m, q) + HoldsDetail(n, q) ELSE 0
<1> DEFINE K == Part(d, C, T)
           f == [k \in K |-> m.detail[k][q] + n.detail[k][q]]
<1>1. IsFiniteSet(K)
  BY FiniteAssumption, FS_Subset, FiniteRows
<1>2. K \subseteq DetailKeys
  BY DEF DetailKeys, Part
<1>3. \A k \in K : m.detail[k][q] \in Nat /\ n.detail[k][q] \in Nat
  BY <1>2 DEF Maps, Bag
<1>4. \A k \in K : f[k] \in Nat
  BY <1>3
<1>5. \A k \in K : k # KeyOf[q] => f[k] = 0
  BY <1>2 DEF OwnDetail
<1>6. KeyOf[q] \in K => f[KeyOf[q]] = HoldsDetail(m, q) + HoldsDetail(n, q)
  BY DEF HoldsDetail
<1> HIDE DEF f, K
<1>7. Sum(f, K) = IF KeyOf[q] \in K THEN f[KeyOf[q]] ELSE 0
  BY <1>1, <1>4, <1>5, SumOfOne
<1> QED BY <1>6, <1>7 DEF f, K

(* What a reader that has its rows is about to return, line by line. *)
FiguresOf ==
    \A r \in Readers, q \in Requests :
        LET d == call[r].date
            n == HoldsDetail(snap[r], q) + HoldsDetail(rows[r], q)
        IN  /\ TodayBytes(r)[q] = snap[r].global[d][q] + rows[r].global[d][q]
            /\ TotalBytes(r)[q] = snap[r].global[d][q] + Holds(rows[r], q)
            /\ Sum([c \in Clients |-> ByClient(r)[c][q]], Clients)
                 = IF DateOf(q) = d THEN n ELSE 0
            /\ Sum([t \in Targets |-> ByHost(r)[t][q]], Targets)
                 = IF DateOf(q) = d THEN n ELSE 0

OwnFigures == \A r \in Readers : /\ OwnRows(snap[r]) /\ OwnRows(rows[r])
                                 /\ OwnDetail(snap[r]) /\ OwnDetail(rows[r])

(* A line whose aggregates are in its own rows is counted in every figure as
   often as the snapshot and the tables count it together. *)
LEMMA FiguresLaw == TypeOK /\ OwnFigures => FiguresOf
<1> SUFFICES ASSUME TypeOK, OwnFigures, NEW r \in Readers, NEW q \in Requests
             PROVE  LET d == call[r].date
                        n == HoldsDetail(snap[r], q) + HoldsDetail(rows[r], q)
                    IN  /\ TodayBytes(r)[q] = snap[r].global[d][q] + rows[r].global[d][q]
                        /\ TotalBytes(r)[q] = snap[r].global[d][q] + Holds(rows[r], q)
                        /\ Sum([c \in Clients |-> ByClient(r)[c][q]], Clients)
                             = IF DateOf(q) = d THEN n ELSE 0
                        /\ Sum([t \in Targets |-> ByHost(r)[t][q]], Targets)
                             = IF DateOf(q) = d THEN n ELSE 0
  BY DEF FiguresOf
<1> DEFINE d == call[r].date
           n == HoldsDetail(snap[r], q) + HoldsDetail(rows[r], q)
<1>1. d \in Dates /\ snap[r] \in Maps /\ rows[r] \in Maps
  BY DEF TypeOK
<1>2. OwnRows(rows[r]) /\ OwnDetail(snap[r]) /\ OwnDetail(rows[r])
  BY DEF OwnFigures
<1>3. n \in Nat
  BY <1>1, HoldsNat
<1>4. KeyOf[q] \in DetailKeys /\ DateOf(q) = KeyOf[q].date
  BY KeyAssumption DEF DateOf
<1>5. TodayBytes(r)[q] = snap[r].global[d][q] + rows[r].global[d][q]
  BY DEF TodayBytes, Plus
<1>6. TotalBytes(r)[q] = snap[r].global[d][q] + Holds(rows[r], q)
  BY <1>1, <1>2, TotalLaw DEF TotalBytes
<1>7. ASSUME NEW C \in SUBSET Clients, NEW T \in SUBSET Targets
      PROVE  Slice(r, C, T)[q] =
               IF DateOf(q) = d /\ KeyOf[q].client \in C /\ KeyOf[q].target \in T THEN n ELSE 0
  <2>1. KeyOf[q] \in Part(d, C, T)
          <=> DateOf(q) = d /\ KeyOf[q].client \in C /\ KeyOf[q].target \in T
    BY <1>4 DEF DetailKeys, Part
  <2>2. Slice(r, C, T)[q] = Sum([k \in Part(d, C, T) |-> snap[r].detail[k][q] + rows[r].detail[k][q]],
                                Part(d, C, T))
    BY DEF Slice, Part
  <2>3. Slice(r, C, T)[q] = IF KeyOf[q] \in Part(d, C, T) THEN n ELSE 0
    BY <1>1, <1>2, <2>2, SliceLaw
  <2> QED BY <2>1, <2>3
<1> HIDE DEF d, n
<1>8. Sum([c \in Clients |-> ByClient(r)[c][q]], Clients) = IF DateOf(q) = d THEN n ELSE 0
  <2> DEFINE f == [c \in Clients |-> ByClient(r)[c][q]]
             z == KeyOf[q].client
  <2>1. \A c \in Clients : f[c] = IF DateOf(q) = d /\ c = z THEN n ELSE 0
    BY <1>4, <1>7 DEF ByClient, DetailKeys
  <2>2. z \in Clients
    BY <1>4 DEF DetailKeys
  <2>3. (\A c \in Clients : f[c] \in Nat) /\ (\A c \in Clients : c # z => f[c] = 0)
    BY <1>3, <2>1
  <2> HIDE DEF f, z
  <2>4. Sum(f, Clients) = f[z]
    BY <2>2, <2>3, FiniteAssumption, SumOfOne
  <2> QED BY <2>1, <2>2, <2>4 DEF f
<1>9. Sum([t \in Targets |-> ByHost(r)[t][q]], Targets) = IF DateOf(q) = d THEN n ELSE 0
  <2> DEFINE f == [t \in Targets |-> ByHost(r)[t][q]]
             z == KeyOf[q].target
  <2>1. \A t \in Targets : f[t] = IF DateOf(q) = d /\ t = z THEN n ELSE 0
    BY <1>4, <1>7 DEF ByHost, DetailKeys
  <2>2. z \in Targets
    BY <1>4 DEF DetailKeys
  <2>3. (\A t \in Targets : f[t] \in Nat) /\ (\A t \in Targets : t # z => f[t] = 0)
    BY <1>3, <2>1
  <2> HIDE DEF f, z
  <2>4. Sum(f, Targets) = f[z]
    BY <2>2, <2>3, FiniteAssumption, SumOfOne
  <2> QED BY <2>1, <2>2, <2>4 DEF f
<1> QED BY <1>5, <1>6, <1>8, <1>9 DEF d, n

-----------------------------------------------------------------------------
(* Which row a line is counted in. *)

FiguresInv ==
    /\ OwnDetail(buffer) /\ OwnDetail(tables) /\ OwnDetail(tx)
    /\ \A f \in Flushers : OwnDetail(batch[f])
    /\ OwnFigures

(* Sums keep lines in their own detail rows. *)
LEMMA OwnDetailLaw ==
    /\ OwnDetail(EmptyMaps)
    /\ \A m, n \in Maps : OwnDetail(m) /\ OwnDetail(n) =>
          OwnDetail(MergeGlobal(m, n)) /\ OwnDetail(MergeDetail(m, n)) /\ OwnDetail(Merge(m, n))
    /\ \A m \in Maps, q \in Requests : OwnDetail(m) => OwnDetail(Tally(m, q))
<1>1. OwnDetail(EmptyMaps)
  BY DEF OwnDetail, EmptyMaps, EmptyBag
<1>2. ASSUME NEW m \in Maps, NEW n \in Maps, OwnDetail(m), OwnDetail(n)
      PROVE  OwnDetail(MergeGlobal(m, n)) /\ OwnDetail(MergeDetail(m, n)) /\ OwnDetail(Merge(m, n))
  BY <1>2 DEF OwnDetail, MergeGlobal, MergeDetail, Merge, Plus
<1>3. ASSUME NEW m \in Maps, NEW q \in Requests, OwnDetail(m)
      PROVE  OwnDetail(Tally(m, q))
  <2>1. m.detail \in [DetailKeys -> [Requests -> Nat]] /\ KeyOf[q] \in DetailKeys
    BY KeyAssumption DEF Maps, Bag
  <2>2. Tally(m, q).detail = [m.detail EXCEPT ![KeyOf[q]][q] = @ + 1]
    BY DEF Tally
  <2> QED BY <1>3, <2>1, <2>2 DEF OwnDetail
<1> QED BY <1>1, <1>2, <1>3

(* Every step keeps lines in their own rows, in the detailed maps and in what
   readers carry. *)
LEMMA FiguresStep == TypeOK /\ RowsInv /\ FiguresInv /\ [Next]_vars => FiguresInv'
<1> SUFFICES ASSUME TypeOK, RowsInv, FiguresInv, [Next]_vars PROVE FiguresInv'
  OBVIOUS
<1> USE DEF FiguresInv, OwnFigures, world, locks, flushing, reading, history
<1>1. /\ buffer \in Maps /\ tables \in Maps /\ tx \in Maps /\ batch \in [Flushers -> Maps]
      /\ snap \in [Readers -> Maps] /\ rows \in [Readers -> Maps]
  BY DEF TypeOK
<1>2. ASSUME NEW q \in Requests, AddTraffic(q) PROVE FiguresInv'
  BY <1>1, <1>2, OwnDetailLaw DEF AddTraffic
<1>3. ASSUME NEW f \in Flushers, FlushTraffic(f) PROVE FiguresInv'
  <2>1. CASE LockTraffic(f) \/ ReturnEmpty(f) \/ BeginFails(f)
    BY <1>1, <2>1 DEF LockTraffic, ReturnEmpty, BeginFails
  <2>2. CASE TakeBatch(f) BY <1>1, <2>2, OwnDetailLaw DEF TakeBatch
  <2>3. CASE BeginTx(f) \/ Rollback(f) BY <1>1, <2>3, OwnDetailLaw DEF BeginTx, Rollback
  <2>4. CASE WriteGlobal(f) BY <1>1, <2>4, OwnDetailLaw DEF WriteGlobal
  <2>5. CASE WriteDetail(f) BY <1>1, <2>5, OwnDetailLaw DEF WriteDetail
  <2>6. CASE Commit(f) BY <1>1, <2>6, OwnDetailLaw DEF Commit
  <2>7. CASE Restore(f) BY <1>1, <2>7, OwnDetailLaw DEF Restore
  <2> QED BY <1>3, <2>1, <2>2, <2>3, <2>4, <2>5, <2>6, <2>7 DEF FlushTraffic
<1>4. ASSUME NEW r \in Readers, Read(r) PROVE FiguresInv'
  <2>1. UNCHANGED <<buffer, tables, tx, batch>>
    BY <1>4 DEF Read, Ask, LockForRead, Snapshot, Reply, QueryFails, Return
  <2>2. OwnRows(EmptyMaps) /\ OwnDetail(EmptyMaps)
    BY OwnRowsLaw, OwnDetailLaw
  <2>3. OwnFigures'
    <3>1. CASE (\E kind \in {"stats", "breakdown"} : Ask(r, kind)) \/ LockForRead(r)
      BY <3>1 DEF Ask, LockForRead
    <3>2. CASE Snapshot(r)
      <4> DEFINE m == [global |-> [d \in Dates |->
                          IF d = call[r].date THEN buffer.global[d] ELSE EmptyBag],
                       detail |-> [k \in DetailKeys |->
                          IF k.date = call[r].date THEN buffer.detail[k] ELSE EmptyBag]]
      <4>1. OwnRows(m) /\ OwnDetail(m)
        BY DEF RowsInv, OwnRows, OwnDetail, EmptyBag
      <4>2. snap' = [snap EXCEPT ![r] = m] /\ UNCHANGED rows
        BY <3>2 DEF Snapshot
      <4> HIDE DEF m
      <4> QED BY <1>1, <4>1, <4>2
    <3>3. CASE Reply(r)
      BY <1>1, <3>3 DEF Reply, RowsInv
    <3>4. CASE QueryFails(r) \/ Return(r)
      BY <1>1, <2>2, <3>4 DEF QueryFails, Return
    <3> QED BY <1>4, <3>1, <3>2, <3>3, <3>4 DEF Read
  <2> QED BY <2>1, <2>3
<1>5. ASSUME NEW p \in Pruners, PruneOld(p) PROVE FiguresInv'
  <2>1. CASE StartPrune(p) \/ LockForPrune(p) \/ PruneFails(p)
    BY <2>1 DEF StartPrune, LockForPrune, PruneFails
  <2>2. CASE PruneDaily(p) BY <2>2 DEF PruneDaily, OwnDetail
  <2>3. CASE PruneDetail(p) BY <2>3 DEF PruneDetail, OwnDetail, EmptyBag
  <2> QED BY <1>5, <2>1, <2>2, <2>3 DEF PruneOld
<1>6. CASE Close \/ Open \/ Midnight \/ UNCHANGED vars
  BY <1>6 DEF Close, Open, Midnight, vars
<1>7. CASE Exit BY <1>1, <1>7, OwnRowsLaw, OwnDetailLaw DEF Exit
<1> QED BY <1>2, <1>3, <1>4, <1>5, <1>6, <1>7 DEF Next

-----------------------------------------------------------------------------
(* What a step does to the memory and to the tables. *)

(* A line counted by AddTraffic is new in memory. *)
LEMMA AddMoves ==
    ASSUME StoreInv, NEW q \in Requests, AddTraffic(q)
    PROVE  /\ InMemory' = InMemory \cup {q} /\ StoredLines' = StoredLines
           /\ added' = added \cup {q}
           /\ q \notin added \cup InMemory \cup StoredLines
<1>1. /\ UNCHANGED <<tables, batch>> /\ added' = added \cup {q} /\ q \notin added
  BY DEF AddTraffic, flushing
<1>2. \A x \in Requests : Holds(buffer', x) = Holds(buffer, x) + IF x = q THEN 1 ELSE 0
  BY TallyLaw DEF AddTraffic, StoreInv, TypeOK
<1>3. \A x \in Requests : Holds(buffer, x) \in Nat
  BY HoldsNat DEF StoreInv, TypeOK
<1>4. /\ Holds(buffer, q) = 0 /\ Holds(tables, q) = 0
      /\ \A f \in Flushers : Holds(batch[f], q) = 0
  BY <1>1 DEF StoreInv, CountInv, AddedInv
<1> QED BY <1>1, <1>2, <1>3, <1>4 DEF InMemory, StoredLines

(* The snapshot a flusher takes, and the batch it gives back, stay in memory. *)
LEMMA TakeMoves ==
    ASSUME StoreInv, NEW f \in Flushers, TakeBatch(f) \/ Restore(f)
    PROVE  /\ InMemory' = InMemory /\ StoredLines' = StoredLines
           /\ UNCHANGED <<tables, added, pruned>>
           /\ \A q \in Requests \ InMemory :
                /\ Holds(buffer', q) = 0
                /\ \A g \in Flushers : Holds(batch'[g], q) = 0
<1>1. UNCHANGED <<tables, added, pruned>>
  BY DEF TakeBatch, Restore, history
<1>2. \A g \in Flushers \ {f} : batch'[g] = batch[g]
  BY DEF TakeBatch, Restore, StoreInv, TypeOK
<1>3. /\ \A q \in Requests : Holds(buffer, q) \in Nat
      /\ \A q \in Requests, g \in Flushers : Holds(batch[g], q) \in Nat
  BY HoldsNat DEF StoreInv, TypeOK
<1>4. \A q \in Requests :
        /\ Holds(buffer', q) + Holds(batch'[f], q) = Holds(buffer, q) + Holds(batch[f], q)
        /\ Holds(buffer', q) \in Nat /\ Holds(batch'[f], q) \in Nat
  <2>1. CASE TakeBatch(f)
    <3>1. batch'[f] = buffer /\ buffer' = EmptyMaps /\ batch[f] = EmptyMaps
      BY <2>1 DEF TakeBatch, StoreInv, TypeOK, CountInv, BatchInv
    <3> QED BY <1>3, <3>1, EmptyLaw
  <2>2. CASE Restore(f)
    <3>1. batch'[f] = EmptyMaps /\ buffer' = Merge(buffer, batch[f])
      BY <2>2 DEF Restore, StoreInv, TypeOK
    <3>2. \A q \in Requests : Holds(buffer', q) = Holds(buffer, q) + Holds(batch[f], q)
      BY <3>1, MergeLaw DEF StoreInv, TypeOK
    <3> QED BY <1>3, <3>1, <3>2, EmptyLaw
  <2> QED BY <2>1, <2>2
<1>5. \A q \in Requests :
        (Holds(buffer', q) > 0 \/ Holds(batch'[f], q) > 0)
          <=> (Holds(buffer, q) > 0 \/ Holds(batch[f], q) > 0)
  BY <1>3, <1>4
<1>6. InMemory' = InMemory
  BY <1>2, <1>5 DEF InMemory
<1>7. ASSUME NEW q \in Requests, q \notin InMemory
      PROVE  Holds(buffer', q) = 0 /\ \A g \in Flushers : Holds(batch'[g], q) = 0
  BY <1>2, <1>3, <1>4, <1>7 DEF InMemory
<1> QED BY <1>1, <1>6, <1>7 DEF StoredLines

(* A commit moves the lines of its batch from the memory to the tables. *)
LEMMA CommitMoves ==
    ASSUME StoreInv, NEW f \in Flushers, Commit(f)
    PROVE  LET S == {q \in Requests : Holds(batch[f], q) > 0}
           IN  /\ S \subseteq InMemory
               /\ InMemory' = InMemory \ S /\ StoredLines' = StoredLines \cup S
               /\ UNCHANGED <<buffer, added, pruned>>
               /\ batch' = [batch EXCEPT ![f] = EmptyMaps]
               /\ \A q \in Requests :
                    /\ Holds(tables', q) = Holds(tables, q) + Holds(batch[f], q)
                    /\ HoldsDetail(tables', q) = HoldsDetail(tables, q) + Holds(batch[f], q)
<1> DEFINE S == {q \in Requests : Holds(batch[f], q) > 0}
<1>1. /\ UNCHANGED <<buffer, added, pruned>> /\ tables' = tx /\ pc[f] = "commit"
      /\ batch' = [batch EXCEPT ![f] = EmptyMaps]
  BY DEF Commit, history
<1>2. batch'[f] = EmptyMaps /\ \A g \in Flushers \ {f} : batch'[g] = batch[g]
  BY <1>1 DEF StoreInv, TypeOK
<1>3. \A q \in Requests :
        /\ Holds(tables', q) = Holds(tables, q) + Holds(batch[f], q)
        /\ HoldsDetail(tables', q) = HoldsDetail(tables, q) + Holds(batch[f], q)
  BY <1>1 DEF StoreInv, CountInv, TxInv, DetailMirrorsGlobal
<1>4. /\ \A q \in Requests : Holds(buffer, q) \in Nat /\ Holds(tables, q) \in Nat
      /\ \A q \in Requests, g \in Flushers : Holds(batch[g], q) \in Nat
  BY HoldsNat DEF StoreInv, TypeOK
<1>5. \A q \in S : /\ Holds(buffer, q) = 0
                   /\ \A g \in Flushers \ {f} : Holds(batch[g], q) = 0
  BY <1>4 DEF StoreInv, CountInv, CountedAtMostOnce
<1>6. \A q \in Requests : Holds(batch'[f], q) = 0
  BY <1>2, EmptyLaw
<1>7. S \subseteq InMemory
  BY DEF InMemory
<1>8. InMemory' = InMemory \ S
  BY <1>1, <1>2, <1>4, <1>5, <1>6 DEF InMemory
<1>9. StoredLines' = StoredLines \cup S
  BY <1>3, <1>4 DEF StoredLines
<1> QED BY <1>1, <1>3, <1>7, <1>8, <1>9

(* The first DELETE takes the stored lines of old days out of the tables, the
   second one no stored line. *)
LEMMA PruneMoves ==
    ASSUME StoreInv, NEW p \in Pruners
    PROVE  /\ PruneDaily(p) =>
                LET old == {q \in StoredLines : DateOf(q) < cutoff[p]}
                IN  /\ StoredLines' = StoredLines \ old /\ pruned' = pruned \cup old
                    /\ UNCHANGED <<buffer, batch, added>>
                    /\ old \cap InMemory = {}
                    /\ \A q \in Requests :
                         /\ Holds(tables', q) = IF DateOf(q) < cutoff[p] THEN 0 ELSE Holds(tables, q)
                         /\ HoldsDetail(tables', q) = HoldsDetail(tables, q)
           /\ PruneDetail(p) =>
                /\ StoredLines' = StoredLines
                /\ UNCHANGED <<buffer, batch, added, pruned>>
                /\ \A q \in Requests :
                     /\ Holds(tables', q) = Holds(tables, q)
                     /\ HoldsDetail(tables', q) \in {0, HoldsDetail(tables, q)}
<1>1. CASE PruneDaily(p)
  <2> DEFINE old == {q \in StoredLines : DateOf(q) < cutoff[p]}
  <2>1. UNCHANGED <<buffer, batch, added>>
    BY <1>1 DEF PruneDaily, flushing
  <2>2. pruned' = pruned \cup old
    BY <1>1 DEF PruneDaily, StoredLines, Holds
  <2>3. \A q \in Requests :
          /\ Holds(tables', q) = IF DateOf(q) < cutoff[p] THEN 0 ELSE Holds(tables, q)
          /\ HoldsDetail(tables', q) = HoldsDetail(tables, q)
    BY <1>1, KeyAssumption DEF PruneDaily, Holds, HoldsDetail, EmptyBag, DateOf, DetailKeys
  <2>4. StoredLines' = StoredLines \ old
    BY <2>3 DEF StoredLines
  <2>5. /\ \A q \in Requests : Holds(buffer, q) \in Nat /\ Holds(tables, q) \in Nat
        /\ \A q \in Requests, g \in Flushers : Holds(batch[g], q) \in Nat
    BY HoldsNat DEF StoreInv, TypeOK
  <2>6. old \cap InMemory = {}
    BY <2>5 DEF StoredLines, InMemory, StoreInv, CountInv, CountedAtMostOnce
  <2>7. ~PruneDetail(p)
    BY <1>1 DEF PruneDaily, PruneDetail
  <2> QED BY <2>1, <2>2, <2>3, <2>4, <2>6, <2>7
<1>2. CASE PruneDetail(p)
  <2>1. UNCHANGED <<buffer, batch, added, pruned>>
    BY <1>2 DEF PruneDetail, flushing, history
  <2>2. \A q \in Requests :
          /\ Holds(tables', q) = Holds(tables, q)
          /\ HoldsDetail(tables', q) \in {0, HoldsDetail(tables, q)}
    BY <1>2, KeyAssumption DEF PruneDetail, Holds, HoldsDetail, EmptyBag, DateOf, DetailKeys
  <2>3. StoredLines' = StoredLines
    BY <2>2 DEF StoredLines
  <2>4. ~PruneDaily(p)
    BY <1>2 DEF PruneDaily, PruneDetail
  <2> QED BY <2>1, <2>2, <2>3, <2>4
<1> QED BY <1>1, <1>2

(* No other step touches memory, tables or history; a crash empties the
   memory. *)
LEMMA QuietMoves ==
    ASSUME [Next]_vars
    PROVE  \/ \E q \in Requests : AddTraffic(q)
           \/ \E f \in Flushers : TakeBatch(f) \/ Commit(f) \/ Restore(f)
           \/ \E p \in Pruners : PruneDaily(p) \/ PruneDetail(p)
           \/ Exit
           \/ UNCHANGED <<buffer, tables, batch, added, pruned>>
<1> USE DEF world, locks, flushing, reading, history
<1>1. ASSUME NEW f \in Flushers, FlushTraffic(f), ~TakeBatch(f), ~Commit(f), ~Restore(f)
      PROVE  UNCHANGED <<buffer, tables, batch, added, pruned>>
  BY <1>1 DEF FlushTraffic, LockTraffic, ReturnEmpty, BeginTx, BeginFails, WriteGlobal,
              WriteDetail, Rollback
<1>2. ASSUME NEW r \in Readers, Read(r)
      PROVE  UNCHANGED <<buffer, tables, batch, added, pruned>>
  BY <1>2 DEF Read, Ask, LockForRead, Snapshot, Reply, QueryFails, Return
<1>3. ASSUME NEW p \in Pruners, PruneOld(p), ~PruneDaily(p), ~PruneDetail(p)
      PROVE  UNCHANGED <<buffer, tables, batch, added, pruned>>
  BY <1>3 DEF PruneOld, StartPrune, LockForPrune, PruneFails
<1>4. CASE Close \/ Open \/ Midnight \/ UNCHANGED vars
  BY <1>4 DEF Close, Open, Midnight, vars
<1> QED BY <1>1, <1>2, <1>3, <1>4 DEF Next

(* What a crash does. *)
LEMMA ExitMoves ==
    ASSUME StoreInv, Exit
    PROVE  /\ InMemory' = {} /\ StoredLines' = StoredLines
           /\ UNCHANGED <<tables, added, pruned, today>>
           /\ buffer' = EmptyMaps /\ batch' = [f \in Flushers |-> EmptyMaps]
           /\ pc' = [p \in Procs |-> "idle"]
<1>1. /\ UNCHANGED <<tables, added, pruned, today>>
      /\ buffer' = EmptyMaps /\ batch' = [f \in Flushers |-> EmptyMaps]
      /\ pc' = [p \in Procs |-> "idle"]
  BY DEF Exit
<1>2. InMemory' = {}
  BY <1>1, EmptyLaw DEF InMemory
<1> QED BY <1>1, <1>2 DEF StoredLines

(* What a step does to one reader: the process dies, the reader makes a step of
   its own, or nothing of the reader moves, and while it is between its snapshot
   and its queries the tables do not move either. *)
LEMMA ReaderMoves ==
    ASSUME StoreInv, [Next]_vars, NEW r \in Readers
    PROVE  \/ Exit
           \/ Read(r) /\ UNCHANGED <<tables, buffer, batch, world, added, pruned>>
           \/ /\ pc'[r] = pc[r] /\ snap'[r] = snap[r]
              /\ rows'[r] = rows[r] /\ call'[r] = call[r]
              /\ pc[r] = "query" => UNCHANGED tables /\ InMemory \subseteq InMemory'
<1> DEFINE Still == /\ pc'[r] = pc[r] /\ snap'[r] = snap[r]
                    /\ rows'[r] = rows[r] /\ call'[r] = call[r]
<1> USE DEF Goto, world, locks, flushing, reading, history
<1>1. /\ r \in Procs /\ Flushers \subseteq Procs /\ Pruners \subseteq Procs
      /\ r \notin Flushers /\ r \notin Pruners /\ Readers \subseteq Procs
  BY ProcsAssumption DEF Procs
<1>2. /\ pc \in [Procs -> {"idle", "take", "lockdb", "global", "detail", "commit",
                          "restore", "snapshot", "query", "done"}]
      /\ snap \in [Readers -> Maps] /\ rows \in [Readers -> Maps]
      /\ call \in [Readers -> [kind : {"none", "stats", "breakdown"}, date : Dates]]
      /\ LockInv
  BY DEF StoreInv, TypeOK
<1>3. ASSUME ~Exit, ~Read(r) PROVE Still
  <2>1. ASSUME NEW q \in Requests, AddTraffic(q) PROVE Still
    BY <2>1 DEF AddTraffic
  <2>2. ASSUME NEW f \in Flushers, FlushTraffic(f) PROVE Still
    BY <1>1, <1>2, <2>2
       DEF FlushTraffic, LockTraffic, ReturnEmpty, TakeBatch, BeginTx, BeginFails,
           WriteGlobal, WriteDetail, Commit, Rollback, Restore
  <2>3. ASSUME NEW x \in Readers, Read(x) PROVE Still
    BY <1>1, <1>2, <1>3, <2>3 DEF Read, Ask, LockForRead, Snapshot, Reply, QueryFails, Return
  <2>4. ASSUME NEW p \in Pruners, PruneOld(p) PROVE Still
    BY <1>1, <1>2, <2>4
       DEF PruneOld, StartPrune, LockForPrune, PruneDaily, PruneDetail, PruneFails
  <2>5. CASE Close \/ Open \/ Midnight \/ UNCHANGED vars
    BY <2>5 DEF Close, Open, Midnight, vars
  <2> QED BY <1>3, <2>1, <2>2, <2>3, <2>4, <2>5 DEF Next
<1>4. ASSUME Read(r) PROVE UNCHANGED <<tables, buffer, batch, world, added, pruned>>
  BY <1>4 DEF Read, Ask, LockForRead, Snapshot, Reply, QueryFails, Return
<1>5. ASSUME ~Exit, pc[r] = "query" PROVE UNCHANGED tables /\ InMemory \subseteq InMemory'
  <2>1. ASSUME NEW q \in Requests, AddTraffic(q)
        PROVE  UNCHANGED tables /\ InMemory \subseteq InMemory'
    BY <2>1, AddMoves DEF AddTraffic
  <2>2. ASSUME NEW f \in Flushers, TakeBatch(f) \/ Restore(f)
        PROVE  UNCHANGED tables /\ InMemory \subseteq InMemory'
    BY <2>2, TakeMoves
  <2>3. ASSUME NEW f \in Flushers, Commit(f) PROVE FALSE
    BY <1>1, <1>2, <1>5, <2>3 DEF Commit, LockInv, InDB
  <2>4. ASSUME NEW p \in Pruners, PruneDaily(p) \/ PruneDetail(p) PROVE FALSE
    BY <1>1, <1>2, <1>5, <2>4 DEF PruneDaily, PruneDetail, LockInv, InDB
  <2>5. CASE UNCHANGED <<buffer, tables, batch, added, pruned>>
    BY <2>5 DEF InMemory
  <2> QED BY <1>5, <2>1, <2>2, <2>3, <2>4, <2>5, QuietMoves
<1> QED BY <1>3, <1>4, <1>5

-----------------------------------------------------------------------------
(* The invariant behind the figures and behind the ledger. *)

(* A swept line is in no map again; a detail row, of which a sweep may leave
   some, counts a line once. *)
SweptInv ==
    /\ \A q \in pruned : /\ Holds(buffer, q) = 0 /\ Holds(tables, q) = 0
                         /\ \A f \in Flushers : Holds(batch[f], q) = 0
    /\ \A q \in Requests : HoldsDetail(tables, q) =< 1

(* The detailed half of ReadInv. *)
ReadDetailInv ==
    \A r \in Readers, q \in Requests :
        /\ pc[r] = "query" => HoldsDetail(snap[r], q) + HoldsDetail(tables, q) =< 1
        /\ pc[r] = "done" => HoldsDetail(snap[r], q) + HoldsDetail(rows[r], q) =< 1

(* While a reader holds dbMu, what it took from the buffer is still in memory,
   and it took lines of its day only. *)
SnapInv ==
    \A r \in Readers, q \in Requests : pc[r] = "query" =>
        /\ Holds(snap[r], q) > 0 \/ HoldsDetail(snap[r], q) > 0 =>
             q \in InMemory /\ DateOf(q) = call[r].date
        /\ DateOf(q) = call[r].date => Holds(snap[r], q) = HoldsDetail(snap[r], q)

(* A call and a sweep are a day old at most, so a swept line is older than the
   day of any call. *)
AgeInv ==
    /\ \A r \in Readers : pc[r] # "idle" => call[r].date \in {today, today - 1}
    /\ \A p \in Pruners : pc[p] # "idle" =>
          cutoff[p] \in {today - Retention, today - Retention - 1}
    /\ \A q \in pruned : DateOf(q) < today - 1

LedgerInv == ReaderInv /\ FiguresInv /\ SweptInv /\ ReadDetailInv /\ SnapInv /\ AgeInv

(* Every step keeps the part about what a sweep has deleted. *)
LEMMA SweptStep == StoreInv /\ SweptInv /\ [Next]_vars => SweptInv'
<1> SUFFICES ASSUME StoreInv, SweptInv, [Next]_vars PROVE SweptInv'
  OBVIOUS
<1>1. /\ \A q \in Requests : /\ Holds(buffer, q) \in Nat /\ Holds(tables, q) \in Nat
                             /\ HoldsDetail(tables, q) \in Nat
      /\ \A q \in Requests, g \in Flushers : Holds(batch[g], q) \in Nat
      /\ pruned \subseteq Requests
  BY HoldsNat DEF StoreInv, TypeOK
<1>2. pruned \cap InMemory = {} /\ pruned \subseteq added
  BY DEF SweptInv, InMemory, StoreInv, CountInv, AddedInv
<1>3. ASSUME NEW q \in Requests, AddTraffic(q) PROVE SweptInv'
  <2>1. UNCHANGED <<tables, batch, pruned>> /\ q \notin pruned
    BY <1>2, <1>3 DEF AddTraffic, flushing
  <2>2. \A x \in Requests : Holds(buffer', x) = Holds(buffer, x) + IF x = q THEN 1 ELSE 0
    BY <1>3, TallyLaw DEF AddTraffic, StoreInv, TypeOK
  <2> QED BY <1>1, <2>1, <2>2 DEF SweptInv
<1>4. ASSUME NEW f \in Flushers, TakeBatch(f) \/ Restore(f) PROVE SweptInv'
  <2>1. /\ UNCHANGED <<tables, pruned>>
        /\ \A q \in Requests \ InMemory : /\ Holds(buffer', q) = 0
                                          /\ \A g \in Flushers : Holds(batch'[g], q) = 0
    BY <1>4, TakeMoves
  <2> QED BY <1>1, <1>2, <2>1 DEF SweptInv
<1>5. ASSUME NEW f \in Flushers, Commit(f) PROVE SweptInv'
  <2>1. /\ UNCHANGED <<buffer, pruned>> /\ batch' = [batch EXCEPT ![f] = EmptyMaps]
        /\ \A q \in Requests :
             /\ Holds(tables', q) = Holds(tables, q) + Holds(batch[f], q)
             /\ HoldsDetail(tables', q) = HoldsDetail(tables, q) + Holds(batch[f], q)
    BY <1>5, CommitMoves
  <2>2. batch'[f] = EmptyMaps /\ \A g \in Flushers \ {f} : batch'[g] = batch[g]
    BY <2>1 DEF StoreInv, TypeOK
  <2>3. ASSUME NEW q \in Requests PROVE HoldsDetail(tables', q) =< 1
    <3>1. CASE q \in pruned
      BY <1>1, <2>1, <3>1 DEF SweptInv
    <3>2. CASE q \notin pruned
      <4>1. HoldsDetail(tables, q) = Holds(tables, q)
        BY <3>2 DEF StoreInv, CountInv, DetailMirrorsGlobal
      <4>2. Holds(batch[f], q) + Holds(buffer, q) + Holds(tables, q) =< 1
        BY DEF StoreInv, CountInv, CountedAtMostOnce
      <4> QED BY <1>1, <2>1, <4>1, <4>2
    <3> QED BY <3>1, <3>2
  <2>4. \A q \in pruned' : /\ Holds(buffer', q) = 0 /\ Holds(tables', q) = 0
                           /\ \A g \in Flushers : Holds(batch'[g], q) = 0
    BY <1>1, <2>1, <2>2, EmptyLaw DEF SweptInv
  <2> QED BY <2>3, <2>4 DEF SweptInv
<1>6. ASSUME NEW p \in Pruners, PruneDaily(p) PROVE SweptInv'
  <2> DEFINE old == {q \in StoredLines : DateOf(q) < cutoff[p]}
  <2>1. /\ pruned' = pruned \cup old /\ UNCHANGED <<buffer, batch>>
        /\ old \cap InMemory = {}
        /\ \A q \in Requests :
             /\ Holds(tables', q) = IF DateOf(q) < cutoff[p] THEN 0 ELSE Holds(tables, q)
             /\ HoldsDetail(tables', q) = HoldsDetail(tables, q)
    BY <1>6, PruneMoves
  <2>2. old \subseteq Requests
    BY DEF StoredLines
  <2>3. \A q \in old : /\ Holds(buffer, q) = 0
                       /\ \A f \in Flushers : Holds(batch[f], q) = 0
    BY <1>1, <2>1, <2>2 DEF InMemory
  <2> QED BY <1>1, <2>1, <2>2, <2>3 DEF SweptInv
<1>7. ASSUME NEW p \in Pruners, PruneDetail(p) PROVE SweptInv'
  <2>1. /\ UNCHANGED <<buffer, batch, pruned>>
        /\ \A q \in Requests : /\ Holds(tables', q) = Holds(tables, q)
                               /\ HoldsDetail(tables', q) \in {0, HoldsDetail(tables, q)}
    BY <1>7, PruneMoves
  <2> QED BY <1>1, <2>1 DEF SweptInv
<1>8. CASE Exit
  <2>1. /\ UNCHANGED <<tables, pruned>>
        /\ buffer' = EmptyMaps /\ batch' = [f \in Flushers |-> EmptyMaps]
    BY <1>8, ExitMoves
  <2> QED BY <1>1, <2>1, EmptyLaw DEF SweptInv
<1>9. CASE UNCHANGED <<buffer, tables, batch, added, pruned>>
  BY <1>9 DEF SweptInv
<1> QED BY <1>3, <1>4, <1>5, <1>6, <1>7, <1>8, <1>9, QuietMoves

(* A reader's snapshot and the rows it reads share no line in the detailed maps
   either, and the snapshot stays in memory until the rows are read. *)
LEMMA SnapStep ==
    LedgerInv /\ [Next]_vars => ReadDetailInv' /\ SnapInv'
<1> SUFFICES ASSUME LedgerInv, [Next]_vars, NEW r \in Readers, NEW q \in Requests
             PROVE  /\ pc'[r] = "query" =>
                         HoldsDetail(snap'[r], q) + HoldsDetail(tables', q) =< 1
                    /\ pc'[r] = "done" =>
                         HoldsDetail(snap'[r], q) + HoldsDetail(rows'[r], q) =< 1
                    /\ pc'[r] = "query" =>
                         /\ Holds(snap'[r], q) > 0 \/ HoldsDetail(snap'[r], q) > 0 =>
                              q \in InMemory' /\ DateOf(q) = call'[r].date
                         /\ DateOf(q) = call'[r].date =>
                              Holds(snap'[r], q) = HoldsDetail(snap'[r], q)
  BY DEF ReadDetailInv, SnapInv
<1> USE DEF LedgerInv, ReaderInv
<1>1. /\ pc[r] = "query" => HoldsDetail(snap[r], q) + HoldsDetail(tables, q) =< 1
      /\ pc[r] = "done" => HoldsDetail(snap[r], q) + HoldsDetail(rows[r], q) =< 1
      /\ pc[r] = "query" =>
           /\ Holds(snap[r], q) > 0 \/ HoldsDetail(snap[r], q) > 0 =>
                q \in InMemory /\ DateOf(q) = call[r].date
           /\ DateOf(q) = call[r].date => Holds(snap[r], q) = HoldsDetail(snap[r], q)
  BY DEF ReadDetailInv, SnapInv
<1>2. /\ pc \in [Procs -> {"idle", "take", "lockdb", "global", "detail", "commit",
                          "restore", "snapshot", "query", "done"}]
      /\ snap \in [Readers -> Maps] /\ rows \in [Readers -> Maps] /\ buffer \in Maps
      /\ tables \in Maps /\ r \in Procs
  BY DEF StoreInv, TypeOK, Procs
<1>3. CASE Exit
  BY <1>2, <1>3, ExitMoves
<1>4. CASE Read(r) /\ UNCHANGED <<tables, buffer, batch, world, added, pruned>>
  <2>1. CASE (\E kind \in {"stats", "breakdown"} : Ask(r, kind)) \/ LockForRead(r)
             \/ QueryFails(r) \/ Return(r)
    <3>1. pc'[r] \in {"lockdb", "snapshot", "idle"}
      BY <1>2, <2>1 DEF Ask, LockForRead, QueryFails, Return, Goto
    <3> QED BY <3>1
  <2>2. CASE Snapshot(r)
    <3> DEFINE m == [global |-> [d \in Dates |->
                        IF d = call[r].date THEN buffer.global[d] ELSE EmptyBag],
                     detail |-> [k \in DetailKeys |->
                        IF k.date = call[r].date THEN buffer.detail[k] ELSE EmptyBag]]
    <3>1. snap'[r] = m /\ pc'[r] = "query" /\ call'[r] = call[r]
      BY <1>2, <2>2 DEF Snapshot, Goto
    <3>2. /\ Holds(m, q) = IF DateOf(q) = call[r].date THEN Holds(buffer, q) ELSE 0
          /\ HoldsDetail(m, q) = IF DateOf(q) = call[r].date THEN HoldsDetail(buffer, q) ELSE 0
      BY KeyAssumption DEF Holds, HoldsDetail, DateOf, DetailKeys, EmptyBag
    <3>3. Holds(buffer, q) = HoldsDetail(buffer, q)
      BY DEF StoreInv, CountInv, DetailMirrorsGlobal
    <3>4. Holds(buffer, q) \in Nat /\ Holds(tables, q) \in Nat /\ HoldsDetail(tables, q) \in Nat
      BY <1>2, HoldsNat
    <3>5. HoldsDetail(buffer, q) + HoldsDetail(tables, q) =< 1
      <4>1. CASE q \in pruned
        BY <3>3, <3>4, <4>1 DEF SweptInv
      <4>2. CASE q \notin pruned
        BY <3>3, <4>2 DEF StoreInv, CountInv, DetailMirrorsGlobal, CountedAtMostOnce
      <4> QED BY <4>1, <4>2
    <3>6. HoldsDetail(tables, q) =< 1
      BY DEF SweptInv
    <3>7. Holds(buffer, q) > 0 => q \in InMemory
      BY DEF InMemory
    <3>8. InMemory' = InMemory /\ tables' = tables
      BY <1>4 DEF InMemory
    <3> HIDE DEF m
    <3> QED BY <3>1, <3>2, <3>3, <3>4, <3>5, <3>6, <3>7, <3>8
  <2>3. CASE Reply(r)
    <3>1. /\ pc[r] = "query" /\ pc'[r] = "done"
          /\ snap'[r] = snap[r] /\ rows'[r] = tables
      BY <1>2, <2>3 DEF Reply, Goto
    <3> QED BY <1>1, <3>1
  <2> QED BY <1>4, <2>1, <2>2, <2>3 DEF Read
<1>5. CASE /\ pc'[r] = pc[r] /\ snap'[r] = snap[r]
           /\ rows'[r] = rows[r] /\ call'[r] = call[r]
           /\ pc[r] = "query" => UNCHANGED tables /\ InMemory \subseteq InMemory'
  BY <1>1, <1>5
<1> QED BY <1>3, <1>4, <1>5, ReaderMoves

(* A second midnight passes no call and no sweep. *)
LEMMA AgeStep == TypeOK /\ AgeInv /\ [Next]_vars => AgeInv'
<1> SUFFICES ASSUME TypeOK, AgeInv, [Next]_vars PROVE AgeInv'
  OBVIOUS
<1> USE DEF Goto, world, locks, flushing, reading, history
<1>1. /\ Readers \subseteq Procs /\ Pruners \subseteq Procs /\ Flushers \subseteq Procs
      /\ Readers \cap Pruners = {} /\ Readers \cap Flushers = {} /\ Pruners \cap Flushers = {}
  BY ProcsAssumption DEF Procs
<1>2. /\ pc \in [Procs -> {"idle", "take", "lockdb", "global", "detail", "commit",
                          "restore", "snapshot", "query", "done"}]
      /\ call \in [Readers -> [kind : {"none", "stats", "breakdown"}, date : Dates]]
      /\ cutoff \in [Pruners -> Int] /\ today \in Dates /\ pruned \subseteq Requests
  BY DEF TypeOK
<1>3. today \in Int /\ Retention \in Nat /\ Retention >= 1 /\ \A q \in Requests : DateOf(q) \in Int
  <2>1. today \in Int
    BY <1>2, DatesAssumption
  <2>2. Retention \in Nat /\ Retention >= 1
    BY BoundAssumption
  <2>3. \A q \in Requests : DateOf(q) \in Int
    BY DatesAssumption, KeyAssumption DEF DateOf, DetailKeys
  <2> QED BY <2>1, <2>2, <2>3
<1>4. ASSUME NEW q \in Requests, AddTraffic(q) PROVE AgeInv'
  BY <1>4 DEF AgeInv, AddTraffic
<1>5. ASSUME NEW f \in Flushers, FlushTraffic(f) PROVE AgeInv'
  <2>1. /\ \A x \in Readers \cup Pruners : pc'[x] = pc[x]
        /\ UNCHANGED <<today, call, cutoff, pruned>>
    BY <1>1, <1>2, <1>5
       DEF FlushTraffic, LockTraffic, ReturnEmpty, TakeBatch, BeginTx, BeginFails,
           WriteGlobal, WriteDetail, Commit, Rollback, Restore
  <2> QED BY <2>1 DEF AgeInv
<1>6. ASSUME NEW r \in Readers, Read(r) PROVE AgeInv'
  <2>1. /\ \A x \in Readers \ {r} : pc'[x] = pc[x] /\ call'[x] = call[x]
        /\ \A p \in Pruners : pc'[p] = pc[p]
        /\ UNCHANGED <<today, cutoff, pruned>>
    BY <1>1, <1>2, <1>6 DEF Read, Ask, LockForRead, Snapshot, Reply, QueryFails, Return
  <2>2. pc'[r] # "idle" => call'[r].date \in {today, today - 1}
    BY <1>1, <1>2, <1>6 DEF AgeInv, Read, Ask, LockForRead, Snapshot, Reply, QueryFails, Return
  <2> QED BY <2>1, <2>2 DEF AgeInv
<1>7. ASSUME NEW p \in Pruners, PruneOld(p) PROVE AgeInv'
  <2>1. /\ \A x \in Pruners \ {p} : pc'[x] = pc[x] /\ cutoff'[x] = cutoff[x]
        /\ \A r \in Readers : pc'[r] = pc[r]
        /\ UNCHANGED <<today, call>>
    BY <1>1, <1>2, <1>7
       DEF PruneOld, StartPrune, LockForPrune, PruneDaily, PruneDetail, PruneFails
  <2>2. pc'[p] # "idle" => cutoff'[p] \in {today - Retention, today - Retention - 1}
    BY <1>1, <1>2, <1>7
       DEF AgeInv, PruneOld, StartPrune, LockForPrune, PruneDaily, PruneDetail, PruneFails
  <2>3. \A q \in pruned' : DateOf(q) < today - 1
    <3>1. CASE PruneDaily(p)
      <4>1. pc[p] # "idle"
        BY <3>1 DEF PruneDaily
      <4>2. cutoff[p] =< today - 1
        BY <1>3, <4>1 DEF AgeInv
      <4>3. \A q \in pruned' : q \in pruned \/ (q \in Requests /\ DateOf(q) < cutoff[p])
        BY <3>1 DEF PruneDaily
      <4> QED BY <1>2, <1>3, <4>2, <4>3 DEF AgeInv
    <3>2. CASE ~PruneDaily(p)
      <4>1. UNCHANGED pruned
        BY <1>7, <3>2 DEF PruneOld, StartPrune, LockForPrune, PruneDetail, PruneFails
      <4> QED BY <4>1 DEF AgeInv
    <3> QED BY <3>1, <3>2
  <2> QED BY <2>1, <2>2, <2>3 DEF AgeInv
<1>8. CASE Close \/ Open \/ UNCHANGED vars
  BY <1>8 DEF AgeInv, Close, Open, vars
<1>9. CASE Midnight
  BY <1>2, <1>3, <1>9 DEF AgeInv, Midnight
<1>10. CASE Exit
  BY <1>1, <1>10 DEF AgeInv, Exit
<1> QED BY <1>4, <1>5, <1>6, <1>7, <1>8, <1>9, <1>10 DEF Next

(* The inductive invariant. *)
THEOREM LedgerInvariant == Spec => []LedgerInv
<1>1. Init => LedgerInv
  <2> SUFFICES ASSUME Init PROVE LedgerInv
    OBVIOUS
  <2>1. ReaderInv
    BY StoreInvInit, OwnRowsLaw, ProcsAssumption DEF Init, ReaderInv, RowsInv, ReadInv, Procs
  <2>2. FiguresInv
    BY OwnRowsLaw, OwnDetailLaw DEF Init, FiguresInv, OwnFigures
  <2>3. SweptInv
    BY EmptyLaw DEF Init, SweptInv
  <2>4. ReadDetailInv /\ SnapInv /\ AgeInv
    BY DEF Init, ReadDetailInv, SnapInv, AgeInv, Procs
  <2> QED BY <2>1, <2>2, <2>3, <2>4 DEF LedgerInv
<1>2. LedgerInv /\ [Next]_vars => LedgerInv'
  BY StoreInvStep, RowsStep, ReadStep, FiguresStep, SweptStep, SnapStep, AgeStep
     DEF LedgerInv, ReaderInv, StoreInv
<1> QED BY <1>1, <1>2, PTL DEF Spec

(* No figure of a response counts a line twice: not the day, not the grand
   total, not the distribution by client or by host, at whatever moment of a
   flush, a failed flush, a sweep or a half-failed sweep the reader asked. *)
THEOREM FiguresCountOnce == Spec => []NoDoubleCount
<1>1. LedgerInv => NoDoubleCount
  <2> SUFFICES ASSUME LedgerInv, NEW r \in Readers, NEW q \in Requests, pc[r] = "done"
               PROVE  /\ TodayBytes(r)[q] =< 1 /\ TotalBytes(r)[q] =< 1
                      /\ Sum([c \in Clients |-> ByClient(r)[c][q]], Clients) =< 1
                      /\ Sum([t \in Targets |-> ByHost(r)[t][q]], Targets) =< 1
    BY DEF NoDoubleCount, TodayCountedOnce
  <2> DEFINE d == call[r].date
  <2>1. FiguresOf
    BY FiguresLaw DEF LedgerInv, ReaderInv, StoreInv, FiguresInv
  <2>2. /\ d \in Dates /\ DateOf(q) \in Dates
        /\ snap[r] \in Maps /\ rows[r] \in Maps
    BY KeyAssumption DEF LedgerInv, ReaderInv, StoreInv, TypeOK, DateOf, DetailKeys
  <2>3. HoldsDetail(snap[r], q) + HoldsDetail(rows[r], q) =< 1
    BY DEF LedgerInv, ReadDetailInv
  <2>4. \A x \in Dates : /\ snap[r].global[x][q] + rows[r].global[x][q] =< 1
                         /\ snap[r].global[x][q] \in Nat /\ rows[r].global[x][q] \in Nat
    BY <2>2 DEF LedgerInv, ReaderInv, ReadInv, Maps, Bag
  <2>5. snap[r].global[d][q] + Holds(rows[r], q) =< 1
    <3>1. CASE DateOf(q) = d
      BY <2>2, <2>4, <3>1 DEF Holds
    <3>2. CASE DateOf(q) # d
      <4>1. snap[r].global[d][q] = 0
        BY <2>2, <3>2 DEF LedgerInv, FiguresInv, OwnFigures, OwnRows
      <4> QED BY <2>2, <2>4, <4>1 DEF Holds
    <3> QED BY <3>1, <3>2
  <2> HIDE DEF d
  <2> QED BY <2>1, <2>2, <2>3, <2>4, <2>5 DEF FiguresOf, d
<1> QED BY <1>1, LedgerInvariant, PTL

-----------------------------------------------------------------------------
(* The refinement. *)

(* What the ledger sees of the readers. *)
ToldNow == [r \in Readers |-> IF pc[r] = "done" THEN Told(r) ELSE EmptyBag]

(* Told depends on nothing but the reader's own variables. *)
LEMMA ToldOfOne ==
    ASSUME NEW r \in Readers,
           \/ pc[r] # "done" /\ pc'[r] # "done"
           \/ pc'[r] = pc[r] /\ call'[r] = call[r] /\ snap'[r] = snap[r] /\ rows'[r] = rows[r]
    PROVE  ToldNow'[r] = ToldNow[r]
<1>1. CASE pc[r] # "done" /\ pc'[r] # "done"
  BY <1>1 DEF ToldNow
<1>2. CASE pc'[r] = pc[r] /\ call'[r] = call[r] /\ snap'[r] = snap[r] /\ rows'[r] = rows[r]
  <2>1. Told(r)' = Told(r)
    BY <1>2 DEF Told, TodayBytes, ByClient, Slice
  <2> QED BY <1>2, <2>1 DEF ToldNow
<1> QED BY <1>1, <1>2

(* Only a reply, the end of a call and a crash change what readers were told. *)
LEMMA ToldMoves ==
    ASSUME StoreInv, [Next]_vars, ~Exit, \A r \in Readers : ~Reply(r) /\ ~Return(r)
    PROVE  ToldNow' = ToldNow
<1>1. ASSUME NEW r \in Readers PROVE ToldNow'[r] = ToldNow[r]
  <2>1. CASE Read(r)
    <3>1. pc[r] # "done" /\ pc'[r] # "done"
      <4>1. /\ r \in Procs
            /\ pc \in [Procs -> {"idle", "take", "lockdb", "global", "detail", "commit",
                                 "restore", "snapshot", "query", "done"}]
        BY DEF StoreInv, TypeOK, Procs
      <4> QED BY <2>1, <4>1 DEF Read, Ask, LockForRead, Snapshot, QueryFails, Goto
    <3> QED BY <3>1, ToldOfOne
  <2>2. CASE pc'[r] = pc[r] /\ call'[r] = call[r] /\ snap'[r] = snap[r] /\ rows'[r] = rows[r]
    BY <2>2, ToldOfOne
  <2> QED BY <2>1, <2>2, ReaderMoves
<1>2. ToldNow' = [r \in Readers |-> ToldNow'[r]] /\ ToldNow = [r \in Readers |-> ToldNow[r]]
  BY DEF ToldNow
<1> QED BY <1>1, <1>2

(* What a reply tells: the lines of the day that are stored, and those the
   snapshot took, each once. *)
LEMMA ReplyTells ==
    ASSUME LedgerInv, LedgerInv', NEW r \in Readers, Reply(r)
    PROVE  LET d == call[r].date
               S == {q \in Requests : DateOf(q) = d /\ Holds(snap[r], q) + Holds(tables, q) = 1}
           IN  /\ d \in {today, today - 1}
               /\ {q \in StoredLines : DateOf(q) = d} \subseteq S
               /\ S \subseteq {q \in StoredLines \cup InMemory : DateOf(q) = d}
               /\ ToldNow[r] = EmptyBag
               /\ ToldNow' = [ToldNow EXCEPT ![r] = [q \in Requests |-> IF q \in S THEN 1 ELSE 0]]
<1> DEFINE d == call[r].date
           S == {q \in Requests : DateOf(q) = d /\ Holds(snap[r], q) + Holds(tables, q) = 1}
<1> USE DEF LedgerInv, ReaderInv
<1>1. /\ pc[r] = "query" /\ pc'[r] = "done" /\ rows'[r] = tables
      /\ snap' = snap /\ call' = call
      /\ \A x \in Readers \ {r} : pc'[x] = pc[x] /\ rows'[x] = rows[x]
  BY DEF Reply, StoreInv, TypeOK, Procs, Goto
<1>2. /\ d \in Dates /\ d \in {today, today - 1} /\ today \in Int
      /\ snap[r] \in Maps /\ tables \in Maps
  BY <1>1, DatesAssumption DEF AgeInv, StoreInv, TypeOK
<1>3. \A q \in Requests : Holds(snap[r], q) \in Nat /\ Holds(tables, q) \in Nat
  BY <1>2, HoldsNat
<1>4. \A q \in Requests : DateOf(q) = d =>
        /\ q \notin pruned
        /\ HoldsDetail(tables, q) = Holds(tables, q)
        /\ HoldsDetail(snap[r], q) = Holds(snap[r], q)
        /\ Holds(snap[r], q) + Holds(tables, q) =< 1
  <2> SUFFICES ASSUME NEW q \in Requests, DateOf(q) = d
               PROVE  /\ q \notin pruned
                      /\ HoldsDetail(tables, q) = Holds(tables, q)
                      /\ HoldsDetail(snap[r], q) = Holds(snap[r], q)
                      /\ Holds(snap[r], q) + Holds(tables, q) =< 1
    OBVIOUS
  <2>1. q \notin pruned
    BY <1>2 DEF AgeInv
  <2>2. HoldsDetail(tables, q) = Holds(tables, q)
    BY <2>1 DEF StoreInv, CountInv, DetailMirrorsGlobal
  <2>3. HoldsDetail(snap[r], q) = Holds(snap[r], q)
    BY <1>1 DEF SnapInv
  <2>4. Holds(snap[r], q) + Holds(tables, q) =< 1
    BY <1>1, <1>2 DEF ReadInv, Holds
  <2> QED BY <2>1, <2>2, <2>3, <2>4
<1>5. \A q \in Requests : Told(r)'[q] = IF q \in S THEN 1 ELSE 0
  <2> SUFFICES ASSUME NEW q \in Requests PROVE Told(r)'[q] = IF q \in S THEN 1 ELSE 0
    OBVIOUS
  <2>1. FiguresOf'
    <3>1. (TypeOK /\ OwnFigures)'
      BY DEF StoreInv, FiguresInv
    <3> QED BY <3>1, FiguresLaw, PTL
  <2>2. /\ TodayBytes(r)'[q] = snap[r].global[d][q] + tables.global[d][q]
        /\ Sum([c \in Clients |-> ByClient(r)'[c][q]], Clients)
             = IF DateOf(q) = d THEN HoldsDetail(snap[r], q) + HoldsDetail(tables, q) ELSE 0
    BY <1>1, <2>1 DEF FiguresOf
  <2>3. Told(r)'[q] = IF call[r].kind = "stats" THEN TodayBytes(r)'[q]
                      ELSE Sum([c \in Clients |-> ByClient(r)'[c][q]], Clients)
    BY <1>1 DEF Told
  <2>4. snap[r].global[d][q] + tables.global[d][q]
          = IF DateOf(q) = d THEN Holds(snap[r], q) + Holds(tables, q) ELSE 0
    <3>1. CASE DateOf(q) = d
      BY <3>1 DEF Holds
    <3>2. CASE DateOf(q) # d
      BY <1>2, <3>2 DEF RowsInv, FiguresInv, OwnFigures, OwnRows
    <3> QED BY <3>1, <3>2
  <2> HIDE DEF d
  <2> QED BY <1>3, <1>4, <2>2, <2>3, <2>4
<1>6. Told(r)' = [q \in Requests |-> Told(r)'[q]]
  BY DEF Told, TodayBytes, Plus
<1>7. Told(r)' = [q \in Requests |-> IF q \in S THEN 1 ELSE 0]
  <2> HIDE DEF S
  <2> QED BY <1>5, <1>6
<1>8. ToldNow' = [ToldNow EXCEPT ![r] = [q \in Requests |-> IF q \in S THEN 1 ELSE 0]]
  <2>1. \A x \in Readers \ {r} : ToldNow'[x] = ToldNow[x]
    BY <1>1, ToldOfOne
  <2>2. ToldNow'[r] = [q \in Requests |-> IF q \in S THEN 1 ELSE 0]
    BY <1>1, <1>7 DEF ToldNow
  <2>3. ToldNow' = [x \in Readers |-> ToldNow'[x]] /\ ToldNow = [x \in Readers |-> ToldNow[x]]
    BY DEF ToldNow
  <2> HIDE DEF S
  <2> QED BY <2>1, <2>2, <2>3
<1>9. {q \in StoredLines : DateOf(q) = d} \subseteq S
  BY <1>3, <1>4 DEF StoredLines
<1>10. S \subseteq {q \in StoredLines \cup InMemory : DateOf(q) = d}
  <2> SUFFICES ASSUME NEW q \in S PROVE q \in StoredLines \cup InMemory
    OBVIOUS
  <2>1. CASE Holds(tables, q) > 0
    BY <2>1 DEF StoredLines
  <2>2. CASE Holds(snap[r], q) > 0
    BY <1>1, <2>2 DEF SnapInv
  <2> QED BY <1>3, <2>1, <2>2
<1>11. ToldNow[r] = EmptyBag
  BY <1>1 DEF ToldNow
<1> QED BY <1>2, <1>8, <1>9, <1>10, <1>11

(* What the ledger sees as gone. *)
GoneNow == added \ (InMemory \cup StoredLines)

(* A step that moves no line and tells nobody anything is none of the ledger. *)
LEMMA LedgerStutter ==
    ASSUME InMemory' = InMemory, StoredLines' = StoredLines, added' = added,
           ToldNow' = ToldNow, today' = today
    PROVE  UNCHANGED Ledger!vars
<1>1. GoneNow' = GoneNow
  BY DEF GoneNow
<1> QED BY <1>1 DEF Ledger!vars, ToldNow, GoneNow

(* Every step is a step of the ledger, or none. *)
LEMMA LedgerStep ==
    LedgerInv /\ LedgerInv' /\ [Next]_vars => [Ledger!Next]_(Ledger!vars)
<1> SUFFICES ASSUME LedgerInv, LedgerInv', [Next]_vars
             PROVE  Ledger!Next \/ UNCHANGED Ledger!vars
  OBVIOUS
<1> USE DEF world, locks, flushing, reading, history
<1>0. StoreInv
  BY DEF LedgerInv, ReaderInv
<1>1. /\ InMemory \subseteq Requests /\ StoredLines \subseteq Requests
      /\ InMemory \cap StoredLines = {} /\ InMemory \subseteq added /\ added \subseteq Requests
  <2>1. \A q \in Requests : /\ Holds(buffer, q) \in Nat /\ Holds(tables, q) \in Nat
                            /\ \A f \in Flushers : Holds(batch[f], q) \in Nat
    BY <1>0, HoldsNat DEF StoreInv, TypeOK
  <2>2. InMemory \cap StoredLines = {}
    BY <1>0, <2>1 DEF StoreInv, CountInv, CountedAtMostOnce, InMemory, StoredLines
  <2>3. InMemory \subseteq added
    BY <1>0 DEF StoreInv, CountInv, AddedInv, InMemory
  <2>4. InMemory \subseteq Requests /\ StoredLines \subseteq Requests /\ added \subseteq Requests
    BY <1>0 DEF InMemory, StoredLines, StoreInv, TypeOK
  <2> QED BY <2>2, <2>3, <2>4
<1>2. StoredLines \subseteq added
  BY <1>0 DEF StoreInv, CountInv, AddedInv, StoredLines
<1>3. ASSUME NEW q \in Requests, AddTraffic(q) PROVE Ledger!Next
  <2>1. /\ InMemory' = InMemory \cup {q} /\ StoredLines' = StoredLines
        /\ added' = added \cup {q} /\ q \notin added \cup InMemory \cup StoredLines
    BY <1>0, <1>3, AddMoves
  <2>2. GoneNow' = GoneNow
    BY <1>1, <2>1 DEF GoneNow
  <2>3. UNCHANGED <<today, pc, call, snap, rows>>
    BY <1>3 DEF AddTraffic
  <2>4. ToldNow' = ToldNow
    BY <2>3 DEF ToldNow, Told, TodayBytes, ByClient, Slice
  <2>5. Ledger!Count(q)
    BY <2>1, <2>2, <2>3, <2>4 DEF Ledger!Count, GoneNow, ToldNow
  <2> QED BY <2>5 DEF Ledger!Next
<1>4. ASSUME NEW f \in Flushers, Commit(f) PROVE Ledger!Next
  <2> DEFINE S == {q \in Requests : Holds(batch[f], q) > 0}
  <2>1. /\ S \subseteq InMemory /\ InMemory' = InMemory \ S
        /\ StoredLines' = StoredLines \cup S /\ UNCHANGED added
    BY <1>0, <1>4, CommitMoves
  <2> HIDE DEF S
  <2>2. GoneNow' = GoneNow
    BY <2>1 DEF GoneNow
  <2>3. UNCHANGED today
    BY <1>4 DEF Commit
  <2>4. ToldNow' = ToldNow
    <3>1. /\ \A r \in Readers : pc'[r] = pc[r]
          /\ UNCHANGED <<call, snap, rows>>
      BY <1>0, <1>4, ProcsAssumption DEF Commit, Goto, StoreInv, TypeOK, Procs
    <3>2. \A r \in Readers : ToldNow'[r] = ToldNow[r]
      BY <3>1, ToldOfOne
    <3>3. ToldNow' = [r \in Readers |-> ToldNow'[r]] /\ ToldNow = [r \in Readers |-> ToldNow[r]]
      BY DEF ToldNow
    <3> QED BY <3>2, <3>3
  <2>5. Ledger!Store(S)
    BY <2>1, <2>2, <2>3, <2>4 DEF Ledger!Store, GoneNow, ToldNow
  <2> QED BY <2>1, <2>5 DEF Ledger!Next
<1>5. ASSUME NEW p \in Pruners, PruneDaily(p) PROVE Ledger!Next
  <2> DEFINE old == {q \in StoredLines : DateOf(q) < cutoff[p]}
  <2>1. /\ StoredLines' = StoredLines \ old /\ old \cap InMemory = {}
        /\ UNCHANGED <<buffer, batch, added>>
    BY <1>0, <1>5, PruneMoves
  <2>2. InMemory' = InMemory
    BY <2>1 DEF InMemory
  <2>3. GoneNow' = GoneNow \cup old
    BY <1>2, <2>1, <2>2 DEF GoneNow
  <2>4. cutoff[p] \in {today - Retention, today - Retention - 1} /\ today' = today
    BY <1>5 DEF PruneDaily, LedgerInv, AgeInv
  <2>5. ToldNow' = ToldNow
    <3>1. /\ \A r \in Readers : pc'[r] = pc[r]
          /\ UNCHANGED <<call, snap, rows>>
      BY <1>0, <1>5, ProcsAssumption DEF PruneDaily, Goto, StoreInv, TypeOK, Procs
    <3>2. \A r \in Readers : ToldNow'[r] = ToldNow[r]
      BY <3>1, ToldOfOne
    <3>3. ToldNow' = [r \in Readers |-> ToldNow'[r]] /\ ToldNow = [r \in Readers |-> ToldNow[r]]
      BY DEF ToldNow
    <3> QED BY <3>2, <3>3
  <2>6. Ledger!Sweep(cutoff[p])
    BY <2>1, <2>2, <2>3, <2>4, <2>5 DEF Ledger!Sweep, GoneNow, ToldNow
  <2> QED BY <2>4, <2>6 DEF Ledger!Next
<1>6. CASE Exit
  <2>1. /\ InMemory' = {} /\ StoredLines' = StoredLines /\ UNCHANGED <<added, today>>
        /\ pc' = [p \in Procs |-> "idle"]
    BY <1>0, <1>6, ExitMoves
  <2>2. GoneNow' = GoneNow \cup InMemory
    BY <1>1, <2>1 DEF GoneNow
  <2>3. ToldNow' = [r \in Readers |-> EmptyBag]
    BY <2>1 DEF ToldNow, Procs
  <2>4. Ledger!Forget
    BY <2>1, <2>2, <2>3 DEF Ledger!Forget, Ledger!Silent, GoneNow, ToldNow, EmptyBag
  <2> QED BY <2>4 DEF Ledger!Next
<1>7. ASSUME NEW r \in Readers, Reply(r) PROVE Ledger!Next
  <2>1. PICK d \in {today, today - 1}, S \in SUBSET Requests :
          /\ {q \in StoredLines : DateOf(q) = d} \subseteq S
          /\ S \subseteq {q \in StoredLines \cup InMemory : DateOf(q) = d}
          /\ ToldNow[r] = EmptyBag
          /\ ToldNow' = [ToldNow EXCEPT ![r] = [q \in Requests |-> IF q \in S THEN 1 ELSE 0]]
    <3> DEFINE e == call[r].date
               T == {q \in Requests : DateOf(q) = e /\ Holds(snap[r], q) + Holds(tables, q) = 1}
    <3>1. T \in SUBSET Requests
      OBVIOUS
    <3>2. /\ e \in {today, today - 1}
          /\ {q \in StoredLines : DateOf(q) = e} \subseteq T
          /\ T \subseteq {q \in StoredLines \cup InMemory : DateOf(q) = e}
          /\ ToldNow[r] = EmptyBag
          /\ ToldNow' = [ToldNow EXCEPT ![r] = [q \in Requests |-> IF q \in T THEN 1 ELSE 0]]
      BY <1>7, ReplyTells
    <3> HIDE DEF e, T
    <3> QED BY <3>1, <3>2
  <2>2. UNCHANGED <<today, buffer, batch, tables, added>>
    BY <1>7 DEF Reply
  <2>3. InMemory' = InMemory /\ StoredLines' = StoredLines
    BY <2>2 DEF InMemory, StoredLines
  <2>4. GoneNow' = GoneNow
    BY <2>2, <2>3 DEF GoneNow
  <2>5. Ledger!Tell(r, d, S)
    BY <2>1, <2>2, <2>3, <2>4 DEF Ledger!Tell, Ledger!Silent, GoneNow, ToldNow, EmptyBag
  <2> QED BY <2>1, <2>5 DEF Ledger!Next
<1>8. ASSUME NEW r \in Readers, Return(r) PROVE Ledger!Next
  <2>1. UNCHANGED <<today, buffer, batch, tables, added>>
    BY <1>8 DEF Return
  <2>2. InMemory' = InMemory /\ StoredLines' = StoredLines
    BY <2>1 DEF InMemory, StoredLines
  <2>3. GoneNow' = GoneNow
    BY <2>1, <2>2 DEF GoneNow
  <2>4. /\ pc'[r] = "idle"
        /\ \A x \in Readers \ {r} : /\ pc'[x] = pc[x] /\ call'[x] = call[x]
                                    /\ snap'[x] = snap[x] /\ rows'[x] = rows[x]
    BY <1>0, <1>8 DEF Return, Goto, StoreInv, TypeOK, Procs
  <2>5. \A x \in Readers \ {r} : ToldNow'[x] = ToldNow[x]
    BY <2>4, ToldOfOne
  <2>6. ToldNow'[r] = EmptyBag
    BY <2>4 DEF ToldNow
  <2>7. ToldNow' = [x \in Readers |-> ToldNow'[x]] /\ ToldNow = [x \in Readers |-> ToldNow[x]]
    BY DEF ToldNow
  <2>8. ToldNow' = [ToldNow EXCEPT ![r] = EmptyBag]
    BY <2>5, <2>6, <2>7
  <2>9. Ledger!Hush(r)
    BY <2>1, <2>2, <2>3, <2>8 DEF Ledger!Hush, Ledger!Silent, GoneNow, ToldNow, EmptyBag
  <2> QED BY <2>9 DEF Ledger!Next
<1>9. CASE Midnight
  <2>1. /\ today + 1 \in Dates /\ today' = today + 1
        /\ UNCHANGED <<buffer, batch, tables, added, pc, call, snap, rows>>
    BY <1>9 DEF Midnight
  <2>2. InMemory' = InMemory /\ StoredLines' = StoredLines
    BY <2>1 DEF InMemory, StoredLines
  <2>3. GoneNow' = GoneNow
    BY <2>1, <2>2 DEF GoneNow
  <2>4. ToldNow' = ToldNow
    BY <2>1 DEF ToldNow, Told, TodayBytes, ByClient, Slice
  <2>5. Ledger!NextDay
    BY <2>1, <2>2, <2>3, <2>4 DEF Ledger!NextDay, GoneNow, ToldNow
  <2> QED BY <2>5 DEF Ledger!Next
<1>10. ASSUME ~Exit, ~Midnight,
              \A q \in Requests : ~AddTraffic(q),
              \A f \in Flushers : ~Commit(f),
              \A p \in Pruners : ~PruneDaily(p),
              \A r \in Readers : ~Reply(r) /\ ~Return(r)
       PROVE  UNCHANGED Ledger!vars
  <2>1. ToldNow' = ToldNow
    BY <1>0, <1>10, ToldMoves
  <2>2. InMemory' = InMemory /\ StoredLines' = StoredLines /\ added' = added
    <3>1. ASSUME NEW f \in Flushers, TakeBatch(f) \/ Restore(f)
          PROVE  InMemory' = InMemory /\ StoredLines' = StoredLines /\ added' = added
      BY <1>0, <3>1, TakeMoves
    <3>2. ASSUME NEW p \in Pruners, PruneDetail(p)
          PROVE  InMemory' = InMemory /\ StoredLines' = StoredLines /\ added' = added
      <4>1. UNCHANGED <<buffer, batch, added>> /\ StoredLines' = StoredLines
        BY <1>0, <3>2, PruneMoves
      <4> QED BY <4>1 DEF InMemory
    <3>3. CASE UNCHANGED <<buffer, tables, batch, added, pruned>>
      BY <3>3 DEF InMemory, StoredLines
    <3> QED BY <1>10, <3>1, <3>2, <3>3, QuietMoves
  <2>3. today' = today
    <3>1. ASSUME NEW f \in Flushers, FlushTraffic(f) PROVE today' = today
      BY <3>1 DEF FlushTraffic, LockTraffic, ReturnEmpty, TakeBatch, BeginTx, BeginFails,
                  WriteGlobal, WriteDetail, Commit, Rollback, Restore
    <3>2. ASSUME NEW r \in Readers, Read(r) PROVE today' = today
      BY <3>2 DEF Read, Ask, LockForRead, Snapshot, Reply, QueryFails, Return
    <3>3. ASSUME NEW p \in Pruners, PruneOld(p) PROVE today' = today
      BY <3>3 DEF PruneOld, StartPrune, LockForPrune, PruneDaily, PruneDetail, PruneFails
    <3>4. CASE Close \/ Open \/ UNCHANGED vars
      BY <3>4 DEF Close, Open, vars
    <3> QED BY <1>10, <3>1, <3>2, <3>3, <3>4 DEF Next
  <2> QED BY <2>1, <2>2, <2>3, LedgerStutter
<1> QED BY <1>3, <1>4, <1>5, <1>6, <1>7, <1>8, <1>9, <1>10

(* The store implements the ledger: with its buffer, its two locks, its
   transactions that fail and are retried, its crashes and its sweeps, it stores
   every line once and for good, loses only what was in memory, sweeps only whole
   old days, and tells every reader each stored line of its day once. *)
THEOREM StoreImplementsLedger == Spec => ImplementsLedger
<1>1. Init => Ledger!Init
  <2> SUFFICES ASSUME Init PROVE Ledger!Init
    OBVIOUS
  <2>1. /\ buffer = EmptyMaps /\ tables = EmptyMaps /\ added = {} /\ today = FirstDay
        /\ batch = [f \in Flushers |-> EmptyMaps] /\ pc = [p \in Procs |-> "idle"]
    BY DEF Init
  <2>2. InMemory = {} /\ StoredLines = {}
    BY <2>1, EmptyLaw DEF InMemory, StoredLines
  <2>3. GoneNow = {}
    BY <2>1 DEF GoneNow
  <2>4. ToldNow = [r \in Readers |-> EmptyBag]
    BY <2>1 DEF ToldNow, Procs
  <2> QED BY <2>1, <2>2, <2>3, <2>4
          DEF Ledger!Init, Ledger!Silent, GoneNow, ToldNow, EmptyBag
<1> QED BY <1>1, LedgerInvariant, LedgerStep, PTL DEF Spec, ImplementsLedger, Ledger!Spec

====
