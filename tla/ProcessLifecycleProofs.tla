---------------------- MODULE ProcessLifecycleProofs ----------------------
(***************************************************************************)
(* Theorems about ProcessLifecycle, for every set of lines and handlers    *)
(* and any number of restarts.                                             *)
(***************************************************************************)
EXTENDS ProcessLifecycle, TrafficStoreProofs, FiniteSetTheorems

-----------------------------------------------------------------------------
(* The goroutines. *)

(* The two goroutines that end the process. *)
Enders == {main, sig}

(* The three goroutines that flush are different. *)
LEMMA ThreeFlushers ==
    /\ loop # main /\ loop # sig /\ main # sig
    /\ Name(loop) = "loop" /\ Name(main) = "main" /\ Name(sig) = "sig"
<1>1. ASSUME NEW a, NEW b PROVE Cardinality({a, b}) # 3
  <2>1. IsFiniteSet({a}) /\ Cardinality({a}) = 1
    BY FS_Singleton
  <2>2. Cardinality({a} \cup {b}) = IF b \in {a} THEN Cardinality({a}) ELSE Cardinality({a}) + 1
    BY <2>1, FS_AddElement
  <2>3. {a} \cup {b} = {a, b}
    OBVIOUS
  <2> QED
    BY <2>1, <2>2, <2>3
<1>2. loop # main
  <2>1. loop = main => {loop, main, sig} = {main, sig}
    OBVIOUS
  <2> QED BY <1>1, <2>1, FlushersAssumption
<1>3. loop # sig
  <2>1. loop = sig => {loop, main, sig} = {main, sig}
    OBVIOUS
  <2> QED BY <1>1, <2>1, FlushersAssumption
<1>4. main # sig
  <2>1. main = sig => {loop, main, sig} = {loop, sig}
    OBVIOUS
  <2> QED BY <1>1, <2>1, FlushersAssumption
<1> QED
  BY <1>2, <1>3, <1>4 DEF Name

(* A set of flushers that counts no more than one has no two members. *)
LEMMA AtMostOne ==
    ASSUME NEW S \in SUBSET Flushers, ~(Cardinality(S) > 1),
           NEW f \in S, NEW h \in S
    PROVE  f = h
<1> SUFFICES ASSUME f # h PROVE FALSE
  OBVIOUS
<1>1. IsFiniteSet(Flushers)
  <2>1. IsFiniteSet({loop}) /\ IsFiniteSet({loop} \cup {main})
    BY FS_Singleton, FS_AddElement
  <2>2. IsFiniteSet(({loop} \cup {main}) \cup {sig})
    BY <2>1, FS_AddElement
  <2>3. ({loop} \cup {main}) \cup {sig} = Flushers
    BY FlushersAssumption
  <2> QED BY <2>2, <2>3
<1>2. IsFiniteSet(S)
  BY <1>1, FS_Subset
<1>3. Cardinality({f, h}) = 2
  <2>1. IsFiniteSet({f}) /\ Cardinality({f}) = 1
    BY FS_Singleton
  <2>2. Cardinality({f} \cup {h}) = IF h \in {f} THEN Cardinality({f}) ELSE Cardinality({f}) + 1
    BY <2>1, FS_AddElement
  <2>3. {f} \cup {h} = {f, h} /\ h \notin {f}
    OBVIOUS
  <2> QED BY <2>1, <2>2, <2>3
<1>4. Cardinality({f, h}) <= Cardinality(S)
  <2>1. {f, h} \in SUBSET S
    OBVIOUS
  <2> QED BY <1>2, <2>1, FS_Subset
<1>5. Cardinality(S) \in Nat
  BY <1>2, FS_CardinalityType
<1> QED
  BY <1>3, <1>4, <1>5

-----------------------------------------------------------------------------
(* The process is a store. *)

(* Every step of the process is a step of the store or leaves it alone. *)
LEMMA LifeIsStore == [LifeNext]_allVars => [Next]_vars
<1> SUFFICES ASSUME [LifeNext]_allVars PROVE [Next]_vars
  OBVIOUS
<1>1. main \in Flushers /\ sig \in Flushers /\ loop \in Flushers
  BY FlushersAssumption
<1>2. ASSUME NEW q \in Requests, TailLine(q) PROVE Next
  BY <1>2 DEF TailLine, Next
<1>3. CASE LoopStep
  BY <1>1, <1>3 DEF LoopStep, Flush, Next
<1>4. ASSUME NEW r \in Readers, Handle(r) PROVE Next
  BY <1>4 DEF Handle, Next
<1>5. ASSUME NEW g \in {main, sig}, ShutDownStep(g) PROVE [Next]_vars
  <2>1. CASE CancelBackground(g) BY <2>1 DEF CancelBackground
  <2>2. CASE FlushTrafficOnce(g) BY <1>1, <2>2 DEF FlushTrafficOnce, Flush, Next
  <2>3. CASE CloseStore(g) BY <2>3 DEF CloseStore, Next
  <2>4. CASE ExitProcess(g) BY <2>4 DEF ExitProcess, Next
  <2> QED BY <1>5, <2>1, <2>2, <2>3, <2>4 DEF ShutDownStep
<1>6. CASE Restart BY <1>6 DEF Restart, Next
<1>7. CASE TailStop \/ LoopStop \/ SigTerm \/ ShutdownBegins \/ ShutdownReturns \/ ListenReturns
  BY <1>7 DEF TailStop, LoopStop, SigTerm, ShutdownBegins, ShutdownReturns, ListenReturns
<1>8. CASE UNCHANGED allVars BY <1>8 DEF allVars
<1> QED
  BY <1>2, <1>3, <1>4, <1>5, <1>6, <1>7, <1>8 DEF LifeNext

(* Whatever is proved of the store holds in the process: main.go drives it by
   the operations TrafficStore describes and no other. *)
THEOREM LifeImplementsStore == LifeSpec => Spec
<1>1. LifeInit => Init BY DEF LifeInit
<1> QED BY <1>1, LifeIsStore, PTL DEF LifeSpec, Spec

(* So its inductive invariant holds in the process. *)
LEMMA LifeStoreInv == LifeSpec => []StoreInv
BY LifeImplementsStore, StoreInvariant, PTL

-----------------------------------------------------------------------------
(* What a step of FlushTraffic does to the memory. *)

(* It moves no other goroutine, leaves the process alone, and a goroutine
   that was idle is so no longer. *)
LEMMA FlushMoves ==
    ASSUME StoreInv, NEW f \in Flushers, FlushTraffic(f)
    PROVE  /\ \A p \in Procs \ {f} : pc'[p] = pc[p]
           /\ pc[f] = "idle" => pc'[f] = "take"
           /\ UNCHANGED <<status, history>>
           /\ f \in Procs
<1>1. pc \in [Procs -> {"idle", "take", "lockdb", "global", "detail", "commit",
                       "restore", "snapshot", "query", "done"}] /\ f \in Procs
  BY DEF StoreInv, TypeOK, Procs
<1> QED
  BY <1>1 DEF FlushTraffic, LockTraffic, ReturnEmpty, TakeBatch, BeginTx, BeginFails,
    WriteGlobal, WriteDetail, Commit, Rollback, Restore, Goto, world, history

(* It brings no line into memory that was not there. *)
LEMMA FlushBringsNothing ==
    ASSUME StoreInv, NEW f \in Flushers, FlushTraffic(f)
    PROVE  InMemory' \subseteq InMemory
<1>0. buffer \in Maps /\ batch \in [Flushers -> Maps]
  BY DEF StoreInv, TypeOK
<1>1. CASE UNCHANGED <<buffer, batch>>
  BY <1>1 DEF InMemory, Holds
<1>2. CASE TakeBatch(f)
  <2>1. buffer' = EmptyMaps /\ batch' = [batch EXCEPT ![f] = buffer]
    BY <1>2 DEF TakeBatch
  <2>2. \A q \in Requests : Holds(buffer', q) = 0
    BY <2>1, EmptyLaw
  <2>3. batch'[f] = buffer /\ \A h \in Flushers \ {f} : batch'[h] = batch[h]
    BY <1>0, <2>1
  <2> QED
    BY <2>2, <2>3 DEF InMemory, Holds
<1>3. CASE Commit(f)
  <2>1. buffer' = buffer /\ batch' = [batch EXCEPT ![f] = EmptyMaps]
    BY <1>3 DEF Commit
  <2>2. \A q \in Requests : Holds(EmptyMaps, q) = 0
    BY EmptyLaw
  <2>3. batch'[f] = EmptyMaps /\ \A h \in Flushers \ {f} : batch'[h] = batch[h]
    BY <1>0, <2>1
  <2> QED
    BY <2>1, <2>2, <2>3 DEF InMemory, Holds
<1>4. CASE Restore(f)
  <2>1. buffer' = Merge(buffer, batch[f]) /\ batch' = [batch EXCEPT ![f] = EmptyMaps]
    BY <1>4 DEF Restore
  <2>2. \A q \in Requests : Holds(EmptyMaps, q) = 0
    BY EmptyLaw
  <2>3. batch'[f] = EmptyMaps /\ \A h \in Flushers \ {f} : batch'[h] = batch[h]
    BY <1>0, <2>1
  <2>4. ASSUME NEW q \in Requests, Holds(buffer', q) > 0 PROVE q \in InMemory
    <3>1. batch[f] \in Maps
      BY <1>0
    <3>2. Holds(buffer', q) = Holds(buffer, q) + Holds(batch[f], q)
      BY <1>0, <2>1, <3>1, MergeLaw
    <3>3. Holds(buffer, q) \in Nat /\ Holds(batch[f], q) \in Nat
      BY <1>0, <3>1, HoldsNat
    <3>4. Holds(buffer, q) > 0 \/ Holds(batch[f], q) > 0
      BY <2>4, <3>2, <3>3
    <3> QED BY <3>4 DEF InMemory
  <2>5. ASSUME NEW q \in Requests, NEW h \in Flushers, Holds(batch'[h], q) > 0
        PROVE  q \in InMemory
    <3>1. h # f
      BY <2>2, <2>3, <2>5
    <3> QED BY <2>3, <2>5, <3>1 DEF InMemory
  <2>6. \A q \in InMemory' : \/ Holds(buffer', q) > 0
                             \/ \E h \in Flushers : Holds(batch'[h], q) > 0
    BY DEF InMemory, Holds
  <2>7. \A q \in InMemory' : q \in Requests
    BY DEF InMemory
  <2> QED BY <2>4, <2>5, <2>6, <2>7
<1> QED
  BY <1>1, <1>2, <1>3, <1>4 DEF FlushTraffic, LockTraffic, ReturnEmpty, BeginTx, BeginFails,
    WriteGlobal, WriteDetail, Rollback, flushing

-----------------------------------------------------------------------------
(* Where the goroutines are. *)

Stages == {"run", "stopped", "serve", "wait", "drain", "cancel", "flush", "close",
           "exit", "gone"}
LifeTypeOK ==
    /\ stage \in [{"loop", "tailer", "main", "sig"} -> Stages]
    /\ failed \in BOOLEAN
    /\ overlapped \in BOOLEAN

(* The two goroutines that end the process stay where they started until
   SIGTERM arrives, they are inside FlushTraffic only during their own last
   flush, and only one that is about to exit has closed the database. *)
StageInv ==
    /\ LifeTypeOK
    /\ ~term => At(main, "serve") /\ At(sig, "wait")
    /\ ~serving => term
    /\ status = "closed" => \E g \in Enders : At(g, "exit")
    /\ status = "down" => \A n \in DOMAIN stage : stage[n] = "gone"
    /\ \A g \in Enders : pc[g] # "idle" => At(g, "flush")
    /\ before \subseteq added

(* A process starts with every goroutine at its first stage. *)
LEMMA StartLaw ==
    StartStage \in [{"loop", "tailer", "main", "sig"} -> Stages]
<1>1. DOMAIN StartStage = {"loop", "tailer", "main", "sig"}
  BY DEF StartStage
<1>2. StartStage = [n \in DOMAIN StartStage |-> StartStage[n]]
  BY DEF StartStage
<1>3. \A n \in DOMAIN StartStage : StartStage[n] \in Stages
  BY <1>1 DEF StartStage, Stages
<1> QED
  BY <1>1, <1>2, <1>3

(* Where a goroutine moves to, and that it moves no other one. *)
LEMMA MoveLaw ==
    ASSUME LifeTypeOK, NEW g \in Flushers, NEW s \in Stages, MoveTo(g, s)
    PROVE  /\ stage' \in [{"loop", "tailer", "main", "sig"} -> Stages]
           /\ At(g, s)'
           /\ \A h \in Flushers \ {g} : \A t : At(h, t)' <=> At(h, t)
BY ThreeFlushers, FlushersAssumption DEF LifeTypeOK, MoveTo, At

(* It holds at the start. *)
LEMMA StageInit == LifeInit => StageInv
<1> SUFFICES ASSUME LifeInit PROVE StageInv
  OBVIOUS
<1>1. LifeTypeOK
  BY StartLaw DEF LifeInit, LifeTypeOK
<1>2. \A g \in Enders : pc[g] = "idle"
  BY FlushersAssumption DEF LifeInit, Init, Enders, Procs
<1> QED
  BY <1>1, <1>2, ThreeFlushers DEF LifeInit, Init, StartStage, StageInv, At

(* One goroutine goes on to a stage s; one that ends the process is not about
   to exit yet, SIGTERM has arrived, and it is inside FlushTraffic only if s is
   its last flush. *)
LEMMA StageMove ==
    ASSUME StageInv, NEW g \in Flushers, NEW s \in Stages, s # "gone", MoveTo(g, s),
           status # "down", status' # "down",
           status' = "closed" => status = "closed" \/ (g \in Enders /\ s = "exit"),
           UNCHANGED <<term, before, added>>, ~serving' => term, LifeTypeOK',
           g \in Enders => term /\ ~At(g, "exit") /\ (pc'[g] # "idle" => s = "flush"),
           \A h \in Enders \ {g} : pc'[h] = pc[h]
    PROVE  StageInv'
<1>1. LifeTypeOK
  BY DEF StageInv
<1>2. At(g, s)' /\ \A h \in Flushers \ {g} : \A t : At(h, t)' <=> At(h, t)
  BY <1>1, MoveLaw
<1>3. main \in Enders /\ sig \in Enders /\ Enders \subseteq Flushers
  BY FlushersAssumption DEF Enders
<1>4. ~term' => At(main, "serve")' /\ At(sig, "wait")'
  <2>1. SUFFICES ASSUME ~term PROVE At(main, "serve")' /\ At(sig, "wait")'
    OBVIOUS
  <2>2. main # g /\ sig # g
    BY <1>3, <2>1
  <2>3. At(main, "serve") /\ At(sig, "wait")
    BY <2>1 DEF StageInv
  <2> QED BY <1>2, <1>3, <2>2, <2>3
<1>5. status' = "closed" => \E h \in Enders : At(h, "exit")'
  <2>1. SUFFICES ASSUME status' = "closed" PROVE \E h \in Enders : At(h, "exit")'
    OBVIOUS
  <2>2. CASE g \in Enders /\ s = "exit"
    BY <1>2, <2>2
  <2>3. CASE status = "closed"
    <3>1. PICK h \in Enders : At(h, "exit")
      BY <2>3 DEF StageInv
    <3>2. h # g
      BY <3>1
    <3> QED BY <1>2, <1>3, <3>1, <3>2
  <2> QED BY <2>1, <2>2, <2>3
<1>6. \A h \in Enders : pc'[h] # "idle" => At(h, "flush")'
  <2> SUFFICES ASSUME NEW h \in Enders, pc'[h] # "idle" PROVE At(h, "flush")'
    OBVIOUS
  <2>1. CASE h = g
    BY <1>2, <2>1
  <2>2. CASE h # g
    <3>1. At(h, "flush")
      BY <2>2 DEF StageInv
    <3> QED BY <1>2, <1>3, <2>2, <3>1
  <2> QED BY <2>1, <2>2
<1>7. before' \subseteq added'
  BY DEF StageInv
<1> QED
  BY <1>4, <1>5, <1>6, <1>7 DEF StageInv

(* Every step keeps the invariant of the stages. *)
LEMMA StageStep ==
    ASSUME StageInv, StoreInv, [LifeNext]_allVars
    PROVE  StageInv'
<1>0. /\ LifeTypeOK /\ main \in Flushers /\ sig \in Flushers /\ loop \in Flushers
      /\ Enders \subseteq Flushers
  BY FlushersAssumption DEF StageInv, Enders
<1>a. ASSUME NEW g \in Flushers, NEW s \in Stages, At(g, s), s # "gone" PROVE status # "down"
  <2>1. Name(g) \in DOMAIN stage
    BY <1>0, ThreeFlushers, FlushersAssumption DEF LifeTypeOK
  <2> QED BY <1>a, <2>1 DEF StageInv, At
<1>b. ASSUME NEW g \in Flushers, NEW s \in Stages, NEW t \in Stages, t # "gone",
             At(g, s), s \notin {"gone", "exit", "flush"},
             MoveTo(g, t), UNCHANGED <<vars, term, lifeHistory>>,
             (serving' = serving) \/ term, g \in Enders => term
      PROVE  StageInv'
  <2>1. UNCHANGED <<status, pc, term, before, added, failed, overlapped>>
    BY <1>b DEF vars, world, history, lifeHistory
  <2>2. LifeTypeOK'
    BY <1>0, <1>b, <2>1, MoveLaw DEF LifeTypeOK
  <2>3. status # "down"
    BY <1>a, <1>b
  <2>4. ~At(g, "exit") /\ ~At(g, "flush")
    BY <1>b DEF At
  <2>5. g \in Enders => pc[g] = "idle"
    BY <2>4 DEF StageInv
  <2>6. ~serving' => term
    BY <1>b DEF StageInv
  <2> QED BY <1>b, <2>1, <2>2, <2>3, <2>4, <2>5, <2>6, StageMove
<1>c. ASSUME NEW g \in Enders, NEW s \in Stages, At(g, s), s \notin {"serve", "wait"} PROVE term
  BY <1>c DEF StageInv, At, Enders
<1>1. ASSUME NEW q \in Requests, TailLine(q) PROVE StageInv'
  BY <1>1 DEF TailLine, AddTraffic, lifeVars, lifeHistory, world, StageInv, LifeTypeOK, At
<1>2. CASE TailStop
  <2>1. stage' \in [{"loop", "tailer", "main", "sig"} -> Stages]
        /\ \A n \in DOMAIN stage : n # "tailer" => stage'[n] = stage[n]
    BY <1>0, <1>2 DEF TailStop, LifeTypeOK, Stages
  <2>2. \A g \in Flushers : Name(g) \in DOMAIN stage /\ Name(g) # "tailer"
    BY <1>0, ThreeFlushers, FlushersAssumption DEF LifeTypeOK
  <2>3. \A g \in Flushers, s \in Stages : At(g, s)' <=> At(g, s)
    BY <2>1, <2>2 DEF At
  <2>4. status # "down"
    BY <1>0, <1>2 DEF TailStop, StageInv, LifeTypeOK
  <2> QED
    BY <1>0, <1>2, <2>1, <2>3, <2>4
       DEF TailStop, lifeHistory, vars, world, history, StageInv, LifeTypeOK, Stages
<1>3. CASE LoopStep
  <2>1. loop \notin Enders
    BY ThreeFlushers DEF Enders
  <2>2. \A g \in Enders : pc'[g] = pc[g]
    BY <1>0, <1>3, <2>1, FlushMoves DEF LoopStep, Flush, Procs
  <2>3. UNCHANGED <<status, history, stage, serving, term, before>>
        /\ failed' \in BOOLEAN /\ overlapped' \in BOOLEAN
    BY <1>0, <1>3, FlushMoves DEF LoopStep, Flush
  <2> QED BY <1>0, <2>2, <2>3 DEF StageInv, LifeTypeOK, At, history
<1>4. CASE LoopStop
  <2>1. "run" \in Stages /\ "stopped" \in Stages /\ loop \notin Enders
    BY ThreeFlushers DEF Stages, Enders
  <2>2. /\ At(loop, "run") /\ MoveTo(loop, "stopped")
        /\ UNCHANGED <<vars, serving, term, lifeHistory>>
    BY <1>4 DEF LoopStop
  <2> QED BY <1>0, <1>b, <2>1, <2>2
<1>5. ASSUME NEW r \in Readers, Handle(r) PROVE StageInv'
  <2>1. UNCHANGED <<status, added, lifeVars>>
    BY <1>5 DEF Handle, Read, Ask, LockForRead, Snapshot, Reply, QueryFails, Return, world, history
  <2>2. \A g \in Enders : pc'[g] = pc[g]
    <3>1. pc' = [pc EXCEPT ![r] = pc'[r]]
      BY <1>5 DEF Handle, Read, Ask, LockForRead, Snapshot, Reply, QueryFails, Return, Goto,
                  StoreInv, TypeOK
    <3>2. r \notin Enders
      BY <1>0, ProcsAssumption
    <3> QED BY <1>0, <3>1, <3>2 DEF StoreInv, TypeOK, Procs
  <2> QED BY <2>1, <2>2 DEF lifeVars, lifeHistory, StageInv, LifeTypeOK, At
<1>6. CASE SigTerm
  <2>1. UNCHANGED <<status, added, pc, stage, serving, failed, overlapped>>
    BY <1>6 DEF SigTerm, vars, world, history
  <2> QED BY <1>6, <2>1 DEF SigTerm, StageInv, LifeTypeOK, At
<1>7. CASE ShutdownBegins
  <2>1. "wait" \in Stages /\ "drain" \in Stages
    BY DEF Stages
  <2>2. term /\ At(sig, "wait") /\ MoveTo(sig, "drain") /\ UNCHANGED <<vars, term, lifeHistory>>
    BY <1>7 DEF ShutdownBegins
  <2> QED BY <1>0, <1>b, <2>1, <2>2
<1>8. CASE ShutdownReturns
  <2>1. "drain" \in Stages /\ "cancel" \in Stages
    BY DEF Stages
  <2>2. /\ At(sig, "drain") /\ MoveTo(sig, "cancel")
        /\ UNCHANGED <<vars, serving, term, lifeHistory>>
    BY <1>8 DEF ShutdownReturns
  <2>3. term
    BY <1>c, <2>1, <2>2 DEF Enders
  <2> QED BY <1>0, <1>b, <2>1, <2>2, <2>3
<1>9. CASE ListenReturns
  <2>1. "serve" \in Stages /\ "cancel" \in Stages
    BY DEF Stages
  <2>2. /\ At(main, "serve") /\ MoveTo(main, "cancel") /\ ~serving
        /\ UNCHANGED <<vars, serving, term, lifeHistory>>
    BY <1>9 DEF ListenReturns
  <2>3. term
    BY <2>2 DEF StageInv
  <2> QED BY <1>0, <1>b, <2>1, <2>2, <2>3
<1>10. ASSUME NEW g \in Enders, CancelBackground(g) PROVE StageInv'
  <2>1. "cancel" \in Stages /\ "flush" \in Stages
    BY DEF Stages
  <2>2. /\ At(g, "cancel") /\ MoveTo(g, "flush")
        /\ UNCHANGED <<vars, serving, term, lifeHistory>>
    BY <1>10 DEF CancelBackground
  <2>3. term
    BY <1>c, <2>1, <2>2
  <2> QED BY <1>0, <1>b, <2>1, <2>2, <2>3
<1>11. ASSUME NEW g \in Enders, FlushTrafficOnce(g) PROVE StageInv'
  <2>1. PICK s \in {"flush", "close"} : MoveTo(g, s) /\ (pc'[g] # "idle" => s = "flush")
    BY <1>11 DEF FlushTrafficOnce, MoveTo
  <2>2. At(g, "flush") /\ s \in Stages /\ s \notin {"gone", "exit"} /\ "flush" \in Stages
    BY <1>11 DEF FlushTrafficOnce, Stages
  <2>3. /\ UNCHANGED <<status, added, serving, term, before>>
        /\ failed' \in BOOLEAN /\ overlapped' \in BOOLEAN
        /\ \A h \in Enders \ {g} : pc'[h] = pc[h]
    BY <1>0, <1>11, FlushMoves DEF FlushTrafficOnce, Flush, history, Procs
  <2>4. LifeTypeOK'
    BY <1>0, <2>1, <2>2, <2>3, MoveLaw DEF LifeTypeOK
  <2>5. term /\ status # "down" /\ ~At(g, "exit")
    <3>1. ~At(g, "exit")
      BY <2>2 DEF At
    <3> QED BY <1>0, <1>a, <1>c, <2>2, <3>1
  <2> QED BY <1>0, <2>1, <2>2, <2>3, <2>4, <2>5, StageMove
<1>12. ASSUME NEW g \in Enders, CloseStore(g) PROVE StageInv'
  <2>1. At(g, "close") /\ MoveTo(g, "exit") /\ "close" \in Stages /\ "exit" \in Stages
    BY <1>12 DEF CloseStore, Stages
  <2>2. UNCHANGED <<pc, added, serving, term, before, failed, overlapped>> /\ status' = "closed"
    BY <1>12 DEF CloseStore, Close, vars, world, history, lifeHistory
  <2>3. ~At(g, "exit") /\ ~At(g, "flush")
    BY <2>1 DEF At
  <2>4. term /\ status # "down" /\ pc[g] = "idle"
    <3>1. term /\ status # "down"
      BY <1>0, <1>a, <1>c, <2>1
    <3>2. pc[g] = "idle"
      BY <2>3 DEF StageInv
    <3> QED BY <3>1, <3>2
  <2>5. LifeTypeOK'
    BY <1>0, <2>1, <2>2, MoveLaw DEF LifeTypeOK
  <2> QED BY <1>0, <2>1, <2>2, <2>3, <2>4, <2>5, StageMove
<1>13. ASSUME NEW g \in Enders, ExitProcess(g) PROVE StageInv'
  <2>1. \A h \in Enders : pc'[h] = "idle"
    BY <1>0, <1>13 DEF ExitProcess, Exit, Procs
  <2>2. status' = "down" /\ UNCHANGED <<added, serving, term, before, failed, overlapped>>
    BY <1>13 DEF ExitProcess, Exit, lifeHistory
  <2>3. stage' = [n \in DOMAIN stage |-> "gone"]
    BY <1>13 DEF ExitProcess
  <2>4. LifeTypeOK'
    BY <1>0, <2>2, <2>3 DEF LifeTypeOK, Stages
  <2>5. term
    BY <1>13, <1>c DEF ExitProcess, Stages
  <2> QED BY <2>1, <2>2, <2>3, <2>4, <2>5 DEF StageInv
<1>14. CASE Restart
  <2>1. status' = "open" /\ before' = {} /\ serving' = TRUE
        /\ UNCHANGED <<pc, added, failed, overlapped>>
    BY <1>14 DEF Restart, Open, history
  <2>2. stage' = StartStage /\ StartStage["main"] = "serve" /\ StartStage["sig"] = "wait"
    BY <1>14 DEF Restart, StartStage
  <2>3. LifeTypeOK'
    BY <1>0, <2>1, <2>2, StartLaw DEF LifeTypeOK
  <2>4. At(main, "serve")' /\ At(sig, "wait")'
    BY <2>2, ThreeFlushers DEF At
  <2>5. \A g \in Enders : pc[g] = "idle"
    <3>1. status = "down" /\ \A g \in Enders : Name(g) \in DOMAIN stage
      BY <1>0, <1>14, ThreeFlushers, FlushersAssumption DEF Restart, Open, LifeTypeOK
    <3>2. \A g \in Enders : ~At(g, "flush")
      BY <3>1 DEF StageInv, At
    <3> QED BY <3>2 DEF StageInv
  <2> QED BY <2>1, <2>3, <2>4, <2>5 DEF StageInv
<1>15. CASE UNCHANGED allVars
  BY <1>15 DEF allVars, vars, world, history, lifeVars, lifeHistory, StageInv, LifeTypeOK, At
<1> QED
  BY <1>1, <1>2, <1>3, <1>4, <1>5, <1>6, <1>7, <1>8, <1>9, <1>10, <1>11, <1>12, <1>13,
     <1>14, <1>15 DEF LifeNext, ShutDownStep, Enders

-----------------------------------------------------------------------------
(* What is lost. *)

Writing == {"lockdb", "global", "detail", "commit"}
Kept == before \cap InMemory = {}

(* No two goroutines are inside FlushTraffic. *)
OneAtATime ==
    \A f \in Flushers : \A h \in Flushers \ {f} : pc[f] = "idle" \/ pc[h] = "idle"
(* The last flush took all lines counted before SIGTERM. *)
AllTaken == \A g \in Enders : pc[g] \in Writing => \A q \in before : Holds(buffer, q) = 0
(* Once it has succeeded they are not in memory; nor are they when it puts its
   batch back, for then another goroutine has closed the database, after a last
   flush of its own. *)
AllStored ==
    \A g \in Enders : pc[g] = "restore" \/ At(g, "close") \/ At(g, "exit") => Kept

LossParts == OneAtATime /\ AllTaken /\ AllStored /\ dropped \cap before = {}
LossInv == ~failed /\ ~overlapped => LossParts

(* While no flush has overlapped another, a goroutine in FlushTraffic is the
   only one there, before its step and after it. *)
LEMMA FlushAlone ==
    ASSUME StoreInv, NEW f \in Flushers, Flush(f), OneAtATime, ~overlapped'
    PROVE  \A h \in Flushers \ {f} : pc[h] = "idle" /\ pc'[h] = "idle"
<1> SUFFICES ASSUME NEW h \in Flushers \ {f} PROVE pc[h] = "idle" /\ pc'[h] = "idle"
  OBVIOUS
<1>1. FlushTraffic(f) /\ ~(Cardinality({e \in Flushers : pc'[e] # "idle"}) > 1)
  BY DEF Flush
<1>2. pc'[h] = pc[h] /\ (pc[f] = "idle" => pc'[f] = "take")
  BY <1>1, FlushMoves DEF Procs
<1>3. SUFFICES ASSUME pc[h] # "idle" PROVE FALSE
  BY <1>2
<1>4. pc'[f] # "idle"
  BY <1>2, <1>3 DEF OneAtATime
<1> DEFINE S == {e \in Flushers : pc'[e] # "idle"}
<1>5. f \in S /\ h \in S /\ S \in SUBSET Flushers /\ ~(Cardinality(S) > 1)
  BY <1>1, <1>2, <1>3, <1>4
<1> HIDE DEF S
<1> QED
  BY <1>5, AtMostOne

(* A step of the flush of g that does not overlap another, while the open
   database refuses nothing.  A goroutine that ends the process is in its last
   flush, and the step that ends it leads to "close". *)
LEMMA FlushKeeps ==
    ASSUME StoreInv, StageInv, LossParts, NEW g \in Flushers, Flush(g),
           ~failed', ~overlapped', status # "down",
           g \in Enders => At(g, "flush")
    PROVE  /\ OneAtATime' /\ AllTaken' /\ dropped' \cap before' = {}
           /\ Kept => Kept'
           /\ g \in Enders /\ pc'[g] \in {"restore", "idle"} => Kept'
           /\ \A h \in Enders \ {g} : pc'[h] = "idle"
<1>0. Enders \subseteq Flushers /\ FlushTraffic(g) /\ buffer \in Maps
      /\ batch \in [Flushers -> Maps]
  BY FlushersAssumption DEF Enders, Flush, StoreInv, TypeOK
<1>1. \A h \in Flushers \ {g} : pc[h] = "idle" /\ pc'[h] = "idle"
  BY FlushAlone DEF LossParts
<1>2. UNCHANGED <<before, dropped, status>>
  BY <1>0, FlushMoves DEF Flush, history
<1>3. OneAtATime'
  BY <1>1 DEF OneAtATime
<1>4. Kept => Kept'
  BY <1>0, <1>2, FlushBringsNothing DEF Kept
<1>5. AllTaken'
  <2> SUFFICES ASSUME NEW h \in Enders, pc'[h] \in Writing, NEW q \in before
               PROVE  Holds(buffer, q)' = 0
    BY <1>2 DEF AllTaken
  <2>1. h = g
    BY <1>0, <1>1 DEF Writing
  <2>2. q \in Requests
    BY DEF StageInv, StoreInv, TypeOK
  <2>3. CASE TakeBatch(g)
    <3>1. buffer' = EmptyMaps
      BY <2>3 DEF TakeBatch
    <3>2. Holds(EmptyMaps, q) = 0
      BY <2>2, EmptyLaw
    <3> QED BY <3>1, <3>2 DEF Holds
  <2>4. CASE pc[g] \in Writing /\ buffer' = buffer
    <3>1. Holds(buffer, q) = 0
      BY <2>1, <2>4 DEF LossParts, AllTaken
    <3> QED BY <2>4, <3>1 DEF Holds
  <2>5. pc \in [Procs -> {"idle", "take", "lockdb", "global", "detail", "commit",
                         "restore", "snapshot", "query", "done"}] /\ g \in Procs
    BY DEF StoreInv, TypeOK, Procs
  <2> QED
    BY <1>0, <2>1, <2>3, <2>4, <2>5 DEF FlushTraffic, LockTraffic, ReturnEmpty, BeginTx, BeginFails,
       WriteGlobal, WriteDetail, Commit, Rollback, Restore, Goto, Writing
<1>6. ASSUME g \in Enders, pc'[g] \in {"restore", "idle"} PROVE Kept'
  <2>0. pc \in [Procs -> {"idle", "take", "lockdb", "global", "detail", "commit",
                         "restore", "snapshot", "query", "done"}] /\ g \in Procs
    BY DEF StoreInv, TypeOK, Procs
  <2>1. ASSUME NEW q \in before, q \in InMemory', Commit(g) \/ ReturnEmpty(g) PROVE FALSE
    <3>1. q \in Requests
      BY DEF StageInv, StoreInv, TypeOK
    <3>2. Holds(EmptyMaps, q) = 0
      BY <3>1, EmptyLaw
    <3>3. \A h \in Flushers \ {g} : batch[h] = EmptyMaps
      BY <1>1 DEF StoreInv, CountInv, BatchInv
    <3>4. CASE Commit(g)
      <4>1. buffer' = buffer /\ batch' = [batch EXCEPT ![g] = EmptyMaps] /\ pc[g] = "commit"
        BY <3>4 DEF Commit
      <4>2. Holds(buffer, q) = 0
        BY <1>6, <4>1 DEF LossParts, AllTaken, Writing
      <4>3. \A h \in Flushers : batch'[h] = EmptyMaps
        BY <1>0, <3>3, <4>1
      <4> QED BY <2>1, <3>2, <4>1, <4>2, <4>3 DEF InMemory, Holds
    <3>5. CASE ReturnEmpty(g)
      <4>1. buffer = EmptyMaps /\ buffer' = EmptyMaps /\ batch' = batch /\ pc[g] = "take"
        BY <3>5 DEF ReturnEmpty, flushing
      <4>2. batch[g] = EmptyMaps
        BY <4>1 DEF StoreInv, CountInv, BatchInv
      <4>3. \A h \in Flushers : batch'[h] = EmptyMaps
        BY <3>3, <4>1, <4>2
      <4> QED BY <2>1, <3>2, <4>1, <4>3 DEF InMemory, Holds
    <3> QED BY <2>1, <3>4, <3>5
  <2>2. CASE Commit(g) \/ ReturnEmpty(g)
    BY <1>2, <2>1, <2>2 DEF Kept
  <2>3. CASE BeginFails(g) \/ Rollback(g)
    <3>1. pc[g] # "restore" /\ pc'[g] = "restore"
      BY <2>0, <2>3 DEF BeginFails, Rollback, Goto
    <3>2. status # "open"
      BY <3>1 DEF Flush
    <3>3. status = "closed"
      BY <3>2 DEF StoreInv, TypeOK
    <3>4. PICK h \in Enders : At(h, "exit")
      BY <3>3 DEF StageInv
    <3> QED BY <1>4, <3>4 DEF LossParts, AllStored
  <2>4. CASE Restore(g)
    <3>1. pc[g] = "restore"
      BY <2>4 DEF Restore
    <3> QED BY <1>4, <1>6, <3>1 DEF LossParts, AllStored
  <2>5. ~LockTraffic(g) /\ ~TakeBatch(g) /\ ~BeginTx(g) /\ ~WriteGlobal(g) /\ ~WriteDetail(g)
    BY <1>6, <2>0 DEF LockTraffic, TakeBatch, BeginTx, WriteGlobal, WriteDetail, Goto
  <2> QED BY <1>0, <2>2, <2>3, <2>4, <2>5 DEF FlushTraffic
<1> QED
  BY <1>0, <1>1, <1>2, <1>3, <1>4, <1>5, <1>6 DEF LossParts

(* Only a flush writes the two histories it is judged by, and they never go
   back. *)
LEMMA HistoryStep ==
    [LifeNext]_allVars => (failed => failed') /\ (overlapped => overlapped')
<1> SUFFICES ASSUME [LifeNext]_allVars PROVE (failed => failed') /\ (overlapped => overlapped')
  OBVIOUS
<1>1. CASE \E g \in Flushers : Flush(g)
  BY <1>1 DEF Flush
<1>2. CASE UNCHANGED <<failed, overlapped>>
  BY <1>2
<1>3. (\E g \in Flushers : Flush(g)) \/ UNCHANGED <<failed, overlapped>>
  BY FlushersAssumption
     DEF LifeNext, allVars, lifeVars, lifeHistory, TailLine, TailStop, LoopStep, LoopStop, Handle,
       SigTerm, ShutdownBegins, ShutdownReturns, ListenReturns, ShutDownStep, CancelBackground,
       FlushTrafficOnce, CloseStore, ExitProcess, Restart
<1> QED
  BY <1>1, <1>2, <1>3

(* A step that leaves memory alone, moves one goroutine at most, and leads to
   "close" or "exit" only who is already there. *)
LEMMA LossQuiet ==
    ASSUME StoreInv, StageInv, LossParts, UNCHANGED <<buffer, batch, before, dropped>>,
           \A f \in Flushers : pc'[f] = pc[f],
           \A h \in Enders : At(h, "close")' \/ At(h, "exit")' => At(h, "close") \/ At(h, "exit")
    PROVE  LossParts'
<1>1. Enders \subseteq Flushers
  BY FlushersAssumption DEF Enders
<1>2. Kept => Kept'
  BY DEF Kept, InMemory, Holds
<1>3. OneAtATime'
  BY DEF LossParts, OneAtATime
<1>4. AllTaken'
  BY <1>1 DEF LossParts, AllTaken, Holds
<1>5. AllStored'
  BY <1>1, <1>2 DEF LossParts, AllStored
<1> QED
  BY <1>3, <1>4, <1>5 DEF LossParts

(* Every step keeps the invariant of the lines lost. *)
LEMMA LossStep ==
    ASSUME StoreInv, StageInv, LossInv, [LifeNext]_allVars
    PROVE  LossInv'
<1> SUFFICES ASSUME ~failed', ~overlapped' PROVE LossParts'
  BY DEF LossInv
<1>0. /\ LossParts /\ LifeTypeOK /\ Enders \subseteq Flushers
      /\ main \in Flushers /\ sig \in Flushers /\ loop \in Flushers /\ loop \notin Enders
  BY HistoryStep, ThreeFlushers, FlushersAssumption DEF LossInv, StageInv, Enders
<1>a. ASSUME NEW g \in Flushers, NEW s \in Stages, MoveTo(g, s), s \notin {"close", "exit"},
             UNCHANGED <<vars, before>>
      PROVE  LossParts'
  <2>1. UNCHANGED <<buffer, batch, before, dropped, pc>>
    BY <1>a DEF vars, flushing, history
  <2>2. \A h \in Enders : At(h, "close")' \/ At(h, "exit")' => At(h, "close") \/ At(h, "exit")
    <3> SUFFICES ASSUME NEW h \in Enders, NEW t \in {"close", "exit"}, At(h, t)' PROVE At(h, t)
      OBVIOUS
    <3>1. At(g, s)' /\ \A e \in Flushers \ {g} : At(e, t)' <=> At(e, t)
      BY <1>0, <1>a, MoveLaw
    <3>2. ASSUME h = g PROVE s = t
      <4>1. At(g, s)' /\ At(g, t)'
        BY <3>1, <3>2
      <4> QED BY <4>1 DEF At
    <3>3. h # g
      BY <1>a, <3>2
    <3> QED BY <1>0, <3>1, <3>3
  <2> QED BY <1>0, <2>1, <2>2, LossQuiet
<1>1. ASSUME NEW q \in Requests, TailLine(q) PROVE LossParts'
  <2>1. /\ buffer' = Tally(buffer, q) /\ q \notin added
        /\ UNCHANGED <<batch, pc, dropped, before, stage>>
    BY <1>1 DEF TailLine, AddTraffic, flushing, lifeVars, lifeHistory
  <2>2. q \notin before /\ before \subseteq Requests
    BY <2>1 DEF StageInv, StoreInv, TypeOK
  <2>3. \A l \in Requests \ {q} : Holds(buffer, l)' = Holds(buffer, l)
    <3> SUFFICES ASSUME NEW l \in Requests \ {q} PROVE Holds(buffer, l)' = Holds(buffer, l)
      OBVIOUS
    <3>1. buffer \in Maps
      BY DEF StoreInv, TypeOK
    <3>2. Holds(Tally(buffer, q), l) = Holds(buffer, l) + 0
      BY <3>1, TallyLaw
    <3>3. Holds(buffer, l) \in Nat
      BY <3>1, HoldsNat
    <3>4. Holds(buffer, l)' = Holds(Tally(buffer, q), l)
      BY <2>1 DEF Holds
    <3> QED BY <3>2, <3>3, <3>4
  <2>4. Kept => Kept'
    BY <2>1, <2>2, <2>3 DEF Kept, InMemory, Holds
  <2>5. OneAtATime'
    BY <1>0, <2>1 DEF LossParts, OneAtATime
  <2>6. AllTaken'
    BY <1>0, <2>1, <2>2, <2>3 DEF LossParts, AllTaken
  <2>7. AllStored'
    BY <1>0, <2>1, <2>4 DEF LossParts, AllStored, At
  <2> QED BY <1>0, <2>1, <2>5, <2>6, <2>7 DEF LossParts
<1>2. CASE TailStop
  <2>1. UNCHANGED <<buffer, batch, before, dropped, pc>>
    BY <1>2 DEF TailStop, vars, flushing, history, lifeHistory
  <2>2. \A g \in Flushers : Name(g) \in DOMAIN stage /\ Name(g) # "tailer"
    BY <1>0, ThreeFlushers, FlushersAssumption DEF LifeTypeOK
  <2>3. \A n \in DOMAIN stage : n # "tailer" => stage'[n] = stage[n]
    BY <1>0, <1>2 DEF TailStop, LifeTypeOK
  <2>4. \A h \in Enders : At(h, "close")' \/ At(h, "exit")' => At(h, "close") \/ At(h, "exit")
    BY <1>0, <2>2, <2>3 DEF At
  <2> QED BY <1>0, <2>1, <2>4, LossQuiet
<1>3. CASE LoopStep
  <2>1. Flush(loop) /\ UNCHANGED stage
    BY <1>3 DEF LoopStep
  <2>2. status # "down"
    <3>1. "loop" \in DOMAIN stage /\ stage["loop"] = "run"
      BY <1>0, <1>3, ThreeFlushers DEF LoopStep, At, LifeTypeOK
    <3> QED BY <3>1 DEF StageInv
  <2>3. /\ OneAtATime' /\ AllTaken' /\ dropped' \cap before' = {}
        /\ Kept => Kept'
        /\ \A h \in Enders \ {loop} : pc'[h] = "idle"
    BY <1>0, <2>1, <2>2, FlushKeeps
  <2>4. AllStored'
    <3>1. \A h \in Enders : pc'[h] # "restore"
      BY <1>0, <2>3
    <3> QED BY <1>0, <2>1, <2>3, <3>1 DEF AllStored, At, LossParts
  <2> QED BY <2>3, <2>4 DEF LossParts
<1>4. CASE LoopStop
  <2>1. MoveTo(loop, "stopped") /\ UNCHANGED <<vars, before>> /\ "stopped" \in Stages
    BY <1>4 DEF LoopStop, lifeHistory, Stages
  <2> QED BY <1>0, <1>a, <2>1
<1>5. ASSUME NEW r \in Readers, Handle(r) PROVE LossParts'
  <2>1. UNCHANGED <<buffer, batch, before, dropped, stage>>
    BY <1>5 DEF Handle, Read, Ask, LockForRead, Snapshot, Reply, QueryFails, Return, flushing,
                history, lifeVars, lifeHistory
  <2>2. \A f \in Flushers : pc'[f] = pc[f]
    <3>1. pc' = [pc EXCEPT ![r] = pc'[r]]
      BY <1>5 DEF Handle, Read, Ask, LockForRead, Snapshot, Reply, QueryFails, Return, Goto,
                  StoreInv, TypeOK
    <3>2. r \notin Flushers
      BY ProcsAssumption
    <3> QED BY <3>1, <3>2 DEF StoreInv, TypeOK, Procs
  <2>3. \A h \in Enders, t \in Stages : At(h, t)' <=> At(h, t)
    BY <2>1 DEF At
  <2> QED BY <1>0, <2>1, <2>2, <2>3, LossQuiet DEF Stages
<1>6. CASE SigTerm
  <2>1. UNCHANGED <<buffer, batch, dropped, pc, stage>> /\ before' = added \ dropped
    BY <1>6 DEF SigTerm, vars, flushing, history
  <2>2. At(main, "serve") /\ At(sig, "wait")
    BY <1>6 DEF SigTerm, StageInv
  <2>3. \A g \in Enders : ~At(g, "flush") /\ ~At(g, "close") /\ ~At(g, "exit")
    BY <2>2 DEF Enders, At
  <2>4. \A g \in Enders : pc[g] = "idle"
    BY <2>3 DEF StageInv
  <2>5. AllTaken' /\ AllStored'
    BY <2>1, <2>3, <2>4 DEF AllTaken, AllStored, Writing, At
  <2>6. OneAtATime'
    BY <1>0, <2>1 DEF LossParts, OneAtATime
  <2> QED BY <2>1, <2>5, <2>6 DEF LossParts
<1>7. CASE ShutdownBegins
  <2>1. MoveTo(sig, "drain") /\ UNCHANGED <<vars, before>> /\ "drain" \in Stages
    BY <1>7 DEF ShutdownBegins, lifeHistory, Stages
  <2> QED BY <1>0, <1>a, <2>1
<1>8. CASE ShutdownReturns
  <2>1. MoveTo(sig, "cancel") /\ UNCHANGED <<vars, before>> /\ "cancel" \in Stages
    BY <1>8 DEF ShutdownReturns, lifeHistory, Stages
  <2> QED BY <1>0, <1>a, <2>1
<1>9. CASE ListenReturns
  <2>1. MoveTo(main, "cancel") /\ UNCHANGED <<vars, before>> /\ "cancel" \in Stages
    BY <1>9 DEF ListenReturns, lifeHistory, Stages
  <2> QED BY <1>0, <1>a, <2>1
<1>10. ASSUME NEW g \in Enders, CancelBackground(g) PROVE LossParts'
  <2>1. MoveTo(g, "flush") /\ UNCHANGED <<vars, before>> /\ "flush" \in Stages
    BY <1>10 DEF CancelBackground, lifeHistory, Stages
  <2> QED BY <1>0, <1>a, <2>1
<1>11. ASSUME NEW g \in Enders, FlushTrafficOnce(g) PROVE LossParts'
  <2>1. PICK s \in {"flush", "close"} : MoveTo(g, s) /\ (s = "close" => pc'[g] = "idle")
    BY <1>11 DEF FlushTrafficOnce, MoveTo
  <2>2. At(g, "flush") /\ Flush(g) /\ s \in Stages
    BY <1>11 DEF FlushTrafficOnce, Stages
  <2>3. status # "down"
    <3>1. Name(g) \in DOMAIN stage
      BY <1>0, ThreeFlushers, FlushersAssumption DEF LifeTypeOK
    <3> QED BY <2>2, <3>1 DEF StageInv, At
  <2>4. /\ OneAtATime' /\ AllTaken' /\ dropped' \cap before' = {}
        /\ Kept => Kept'
        /\ pc'[g] \in {"restore", "idle"} => Kept'
        /\ \A h \in Enders \ {g} : pc'[h] = "idle"
    BY <1>0, <2>2, <2>3, FlushKeeps
  <2>5. AllStored'
    <3> SUFFICES ASSUME NEW h \in Enders,
                        pc'[h] = "restore" \/ At(h, "close")' \/ At(h, "exit")'
                 PROVE  Kept'
      BY DEF AllStored
    <3>1. At(g, s)' /\ \A e \in Flushers \ {g} : \A t : At(e, t)' <=> At(e, t)
      BY <1>0, <2>1, <2>2, MoveLaw
    <3>2. CASE h = g
      <4>1. pc'[g] = "restore" \/ s = "close"
        BY <3>1, <3>2 DEF At
      <4> QED BY <2>1, <2>4, <4>1
    <3>3. CASE h # g
      <4>1. At(h, "close") \/ At(h, "exit")
        BY <1>0, <2>4, <3>1, <3>3
      <4> QED BY <1>0, <2>4, <4>1 DEF LossParts, AllStored
    <3> QED BY <3>2, <3>3
  <2> QED BY <2>4, <2>5 DEF LossParts
<1>12. ASSUME NEW g \in Enders, CloseStore(g) PROVE LossParts'
  <2>1. At(g, "close") /\ MoveTo(g, "exit") /\ "exit" \in Stages
    BY <1>12 DEF CloseStore, Stages
  <2>2. UNCHANGED <<buffer, batch, pc, dropped, before>>
    BY <1>12 DEF CloseStore, Close, vars, flushing, history, lifeHistory
  <2>3. At(g, "exit")' /\ \A h \in Flushers \ {g} : \A t : At(h, t)' <=> At(h, t)
    BY <1>0, <2>1, MoveLaw
  <2>4. \A h \in Enders : At(h, "close")' \/ At(h, "exit")' => At(h, "close") \/ At(h, "exit")
    BY <1>0, <2>1, <2>3
  <2> QED BY <1>0, <2>2, <2>4, LossQuiet
<1>13. ASSUME NEW g \in Enders, ExitProcess(g) PROVE LossParts'
  <2>1. \A f \in Flushers : pc'[f] = "idle"
    BY <1>13 DEF ExitProcess, Exit, Procs
  <2>2. dropped' = dropped \cup InMemory /\ before' = before
    BY <1>13 DEF ExitProcess, Exit, lifeHistory
  <2>3. Kept
    BY <1>0, <1>13 DEF ExitProcess, LossParts, AllStored
  <2>4. \A h \in Enders : ~At(h, "close")' /\ ~At(h, "exit")'
    <3>1. \A h \in Enders : Name(h) \in DOMAIN stage
      BY <1>0, ThreeFlushers, FlushersAssumption DEF LifeTypeOK
    <3> QED BY <1>13, <3>1 DEF ExitProcess, At
  <2>5. OneAtATime' /\ AllTaken' /\ AllStored'
    BY <1>0, <2>1, <2>4 DEF OneAtATime, AllTaken, AllStored, Writing
  <2> QED BY <1>0, <2>2, <2>3, <2>5 DEF LossParts, Kept
<1>14. CASE Restart
  <2>1. before' = {} /\ UNCHANGED pc
    BY <1>14 DEF Restart, Open
  <2>2. OneAtATime'
    BY <1>0, <2>1 DEF LossParts, OneAtATime
  <2> QED BY <2>1, <2>2 DEF LossParts, AllTaken, AllStored, Kept
<1>15. CASE UNCHANGED allVars
  <2>1. UNCHANGED <<buffer, batch, before, dropped, pc, stage>>
    BY <1>15 DEF allVars, vars, flushing, history, lifeVars, lifeHistory
  <2>2. \A h \in Enders, t \in Stages : At(h, t)' <=> At(h, t)
    BY <2>1 DEF At
  <2> QED BY <1>0, <2>1, <2>2, LossQuiet DEF Stages
<1> QED
  BY <1>1, <1>2, <1>3, <1>4, <1>5, <1>6, <1>7, <1>8, <1>9, <1>10, <1>11, <1>12, <1>13,
     <1>14, <1>15 DEF LifeNext, ShutDownStep, Enders

(* The inductive invariant of the process. *)
LifeInv == StoreInv /\ StageInv /\ LossInv

(* It holds in every behaviour. *)
THEOREM LifeInvariant == LifeSpec => []LifeInv
<1>1. LifeInit => LifeInv
  <2> SUFFICES ASSUME LifeInit PROVE LifeInv
    OBVIOUS
  <2>1. StoreInv /\ StageInv
    BY StoreInvInit, StageInit DEF LifeInit
  <2>2. (\A f \in Flushers : pc[f] = "idle") /\ before = {}
    BY DEF LifeInit, Init, Procs
  <2>3. LossInv
    BY <2>2 DEF LossInv, LossParts, OneAtATime, AllTaken, AllStored, Kept
  <2> QED BY <2>1, <2>3 DEF LifeInv
<1>2. LifeInv /\ [LifeNext]_allVars => LifeInv'
  BY LifeIsStore, StoreInvStep, StageStep, LossStep DEF LifeInv
<1> QED
  BY <1>1, <1>2, PTL DEF LifeSpec

(* Of the lines counted before SIGTERM none is lost unless two flushes
   overlapped or the open database refused one: the order cancel, flush, close,
   exit is right in each of the two goroutines, for any number of lines,
   handlers and restarts. *)
THEOREM LossesNeedAnOverlap == LifeSpec => []LossNeedsOverlap
<1>1. LifeInv => LossNeedsOverlap
  BY DEF LifeInv, LossInv, LossParts, LossNeedsOverlap
<1> QED
  BY <1>1, LifeInvariant, PTL

(* The types of the variables of the process. *)
THEOREM LifeTypes == LifeSpec => [](TypeOK /\ LifeTypeOK)
<1>1. LifeInv => TypeOK /\ LifeTypeOK
  BY DEF LifeInv, StoreInv, StageInv
<1> QED
  BY <1>1, LifeInvariant, PTL
====
