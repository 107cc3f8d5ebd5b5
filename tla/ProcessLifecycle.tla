------------------------- MODULE ProcessLifecycle -------------------------
(***************************************************************************)
(* cmd/emby-proxy-stat/main.go around the store: the tailer that counts    *)
(* lines, the flush loop, the HTTP handlers, and the two goroutines that   *)
(* both shut the process down when SIGTERM arrives.  The signal goroutine  *)
(* calls Shutdown, which makes ListenAndServe return in the main goroutine *)
(* at once; from there each cancels the background context, flushes,       *)
(* closes the database and ends the process, and whoever is first takes    *)
(* the other down with it.                                                 *)
(***************************************************************************)
EXTENDS TrafficStore

CONSTANTS loop, main, sig   \* the goroutines that flush

ASSUME FlushersAssumption ==
    Flushers = {loop, main, sig} /\ Cardinality(Flushers) = 3

VARIABLES
    stage,      \* where loop, main, sig and the tailer are
    serving,    \* the HTTP server accepts requests
    cancelled,  \* the background context is cancelled
    term,       \* SIGTERM has arrived
    before,     \* history: the lines counted before SIGTERM, but those lost with an earlier life
    failed,     \* history: the open database refused a flush
    overlapped  \* history: two goroutines were inside FlushTraffic at once

lifeHistory == <<before, failed, overlapped>>
lifeVars == <<stage, serving, cancelled, term, lifeHistory>>
allVars == <<vars, lifeVars>>

StartStage == [loop |-> "run", tailer |-> "run", main |-> "serve", sig |-> "wait"]
Name(g) == IF g = loop THEN "loop" ELSE IF g = main THEN "main" ELSE "sig"
At(g, s) == stage[Name(g)] = s
MoveTo(g, s) == stage' = [stage EXCEPT ![Name(g)] = s]

LifeInit ==
    /\ Init
    /\ stage = StartStage
    /\ serving = TRUE
    /\ cancelled = FALSE
    /\ term = FALSE
    /\ before = {}
    /\ failed = FALSE
    /\ overlapped = FALSE

-----------------------------------------------------------------------------
(* The tailer looks at the context only when it has read to the end of the
   log: until then it goes on counting lines, cancelled or not. *)
TailLine(q) ==
    /\ stage.tailer = "run"
    /\ AddTraffic(q)
    /\ UNCHANGED lifeVars

TailStop ==
    /\ stage.tailer = "run"
    /\ cancelled
    /\ stage' = [stage EXCEPT !.tailer = "stopped"]
    /\ UNCHANGED <<vars, serving, cancelled, term, lifeHistory>>

(* A step of FlushTraffic, with what history records of it. *)
Flush(g) ==
    /\ FlushTraffic(g)
    /\ failed' = (failed \/ (status = "open" /\ pc[g] # "restore" /\ pc'[g] = "restore"))
    /\ overlapped' = (overlapped \/ Cardinality({f \in Flushers : pc'[f] # "idle"}) > 1)
    /\ UNCHANGED <<serving, cancelled, term, before>>

(* flushTrafficLoop: every tick flushes; a tick that is ready together with the
   cancelled context may still be chosen. *)
LoopStep ==
    /\ At(loop, "run")
    /\ Flush(loop)
    /\ UNCHANGED stage

LoopStop ==
    /\ At(loop, "run")
    /\ cancelled
    /\ pc[loop] = "idle"
    /\ MoveTo(loop, "stopped")
    /\ UNCHANGED <<vars, serving, cancelled, term, lifeHistory>>

(* A handler starts only while the server accepts; it goes on regardless. *)
Handle(r) ==
    /\ Read(r)
    /\ pc[r] = "idle" => serving
    /\ UNCHANGED lifeVars

-----------------------------------------------------------------------------
SigTerm ==
    /\ status # "down"
    /\ exits < MaxExits
    /\ ~term
    /\ term' = TRUE
    /\ before' = added \ dropped
    /\ UNCHANGED <<vars, stage, serving, cancelled, failed, overlapped>>

(* Shutdown closes the listeners first and then waits for the handlers. *)
ShutdownBegins ==
    /\ At(sig, "wait")
    /\ term
    /\ serving' = FALSE
    /\ MoveTo(sig, "drain")
    /\ UNCHANGED <<vars, cancelled, term, lifeHistory>>

ShutdownReturns ==
    /\ At(sig, "drain")
    /\ \A r \in Readers : pc[r] = "idle"
    /\ MoveTo(sig, "cancel")
    /\ UNCHANGED <<vars, serving, cancelled, term, lifeHistory>>

(* ListenAndServe returns ErrServerClosed as soon as Shutdown has begun. *)
ListenReturns ==
    /\ At(main, "serve")
    /\ ~serving
    /\ MoveTo(main, "cancel")
    /\ UNCHANGED <<vars, serving, cancelled, term, lifeHistory>>

CancelBackground(g) ==
    /\ At(g, "cancel")
    /\ cancelled' = TRUE
    /\ MoveTo(g, "flush")
    /\ UNCHANGED <<vars, serving, term, lifeHistory>>

(* Mutant: the database is closed before the last flush. *)
CloseFirst(g) ==
    /\ At(g, "flush")
    /\ Flush(g)
    /\ stage' = [stage EXCEPT ![Name(g)] = IF pc[g] = "idle" THEN "close" ELSE "flush"]

(* Mutant: the last flush is tried again until it succeeds. *)
FlushUntilDone(g) ==
    /\ At(g, "flush")
    /\ Flush(g)
    /\ stage' = [stage EXCEPT ![Name(g)] =
         IF pc'[g] = "idle" /\ pc[g] # "restore" THEN "close" ELSE "flush"]

(* FlushTrafficOnce: one FlushTraffic, whose error is printed and dropped. *)
FlushTrafficOnce(g) ==
    /\ At(g, "flush")
    /\ Flush(g)
    /\ stage' = [stage EXCEPT ![Name(g)] = IF pc'[g] = "idle" THEN "close" ELSE "flush"]

CloseStore(g) ==
    /\ At(g, "close")
    /\ Close \/ (status = "closed" /\ UNCHANGED vars)
    /\ MoveTo(g, "exit")
    /\ UNCHANGED <<serving, cancelled, term, lifeHistory>>

(* os.Exit(0), or main returns: the process is gone, whatever else it was
   doing. *)
ExitProcess(g) ==
    /\ At(g, "exit")
    /\ Exit
    /\ stage' = [n \in DOMAIN stage |-> "gone"]
    /\ UNCHANGED <<serving, cancelled, term, lifeHistory>>

(* systemd starts the service again. *)
Restart ==
    /\ Open
    /\ stage' = StartStage
    /\ serving' = TRUE
    /\ cancelled' = FALSE
    /\ term' = FALSE
    /\ before' = {}
    /\ UNCHANGED <<failed, overlapped>>

-----------------------------------------------------------------------------
ShutDownStep(g) ==
    CancelBackground(g) \/ FlushTrafficOnce(g) \/ CloseStore(g) \/ ExitProcess(g)

LifeNext ==
    \/ \E q \in Requests : TailLine(q)
    \/ TailStop
    \/ LoopStep \/ LoopStop
    \/ \E r \in Readers : Handle(r)
    \/ SigTerm \/ ShutdownBegins \/ ShutdownReturns \/ ListenReturns
    \/ \E g \in {main, sig} : ShutDownStep(g)
    \/ Restart

(* Every goroutine is scheduled and gets the locks it waits for; the database
   may fail as often as it likes. *)
LifeFairness ==
    /\ SF_allVars(LoopStep)
    /\ \A r \in Readers : SF_allVars(Handle(r))
    /\ WF_allVars(ShutdownBegins) /\ WF_allVars(ShutdownReturns) /\ WF_allVars(ListenReturns)
    /\ \A g \in {main, sig} : SF_allVars(ShutDownStep(g))
    /\ WF_allVars(Restart)

LifeSpec == LifeInit /\ [][LifeNext]_allVars /\ LifeFairness

-----------------------------------------------------------------------------
(* A line that had been counted before SIGTERM is lost only if two flushes
   overlapped (the loop's and a last one, or the two last ones) or the open
   database refused one: the order cancel, flush, close, exit is right in each
   of the goroutines, it is their meeting that loses lines. *)
LossNeedsOverlap ==
    status = "down" /\ ~failed /\ ~overlapped => dropped \cap before = {}

(* A SIGTERM ends the process, also when the database fails for ever or a
   handler is still waiting for the lock. *)
TermEnds == term ~> status = "down"

(* README.md, "SIGTERM ... flushes the traffic buffer, no data lost over a
   restart": what was counted before the signal is stored when the process is
   gone, given a database that never failed. *)
GracefulLosesNothing ==
    status = "down" /\ ~failed => dropped \cap before = {}
====
