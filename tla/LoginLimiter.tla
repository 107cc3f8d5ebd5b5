--------------------------- MODULE LoginLimiter ---------------------------
(***************************************************************************)
(* handleLogin and the limiter of internal/auth.  A login asks the         *)
(* limiter, reads its body and checks the password without any lock, and   *)
(* reports a failure or a success in a second critical section.  The       *)
(* limiter's methods read the clock before they take the lock.             *)
(*                                                                         *)
(* Points in time are kept as their distance from now, counted by Tick: an *)
(* age, or the time left.  A distance that no longer matters stays at its  *)
(* last value, so time is unbounded.                                       *)
(***************************************************************************)
EXTENDS Integers, Sequences, FiniteSets, Functions

CONSTANTS
    Handlers,     \* goroutines that serve a login
    Clients,      \* client keys
    LoginWindow,
    LoginBlock,
    LoginMaxFailures,
    LoginMapLimit,
    MaxStage      \* how long a login stays at one of its steps, at most

ASSUME LimiterAssumption ==
    /\ LoginWindow \in Nat /\ LoginBlock \in Nat /\ MaxStage \in Nat
    /\ MaxStage < LoginWindow /\ LoginWindow + MaxStage =< LoginBlock
    /\ LoginMaxFailures \in Nat \ {0}
    /\ LoginMapLimit \in Nat

ASSUME HandlersAssumption == IsFiniteSet(Handlers)

VARIABLES
    login,      \* of each handler: its step, its client, the age of its clock reading
    failures,   \* LoginLimiter.failures
    failed      \* history: the ages of the last failures of each client the map knows

loginVars == <<login, failures, failed>>

OldAge == LoginWindow + MaxStage    \* of a window: it has run out, whoever asks
LongOver == -MaxStage - 1           \* of a block: it is over, whoever asks, or never was

Least(a, b) == IF a < b THEN a ELSE b
Most(a, b) == IF a < b THEN b ELSE a

Steps == {"idle", "check", "verify", "record", "reset"}
Logins ==
    [pc : {"idle"}] \cup [pc : Steps \ {"idle"}, client : Clients, stamp : 0 .. MaxStage]
FailureStates == [age : 0 .. OldAge, failures : Nat, left : LongOver .. LoginBlock]

LoginTypeOK ==
    /\ login \in [Handlers -> Logins]
    /\ DOMAIN failures \subseteq Clients
    /\ failures \in [DOMAIN failures -> FailureStates]
    /\ failed \in [DOMAIN failures -> Seq(Nat)]

NoFailures == [c \in {} |-> 0]
Forget(c) ==
    /\ failures' = Restrict(failures, DOMAIN failures \ {c})
    /\ failed' = Restrict(failed, DOMAIN failures \ {c})

AtRest == [pc |-> "idle"]

LoginInit ==
    /\ login = [h \in Handlers |-> AtRest]
    /\ failures = NoFailures
    /\ failed = NoFailures

At(h, step) == login[h].pc = step
Goto(h, step) == login' = [login EXCEPT ![h] = [pc |-> step, client |-> @.client, stamp |-> 0]]
Finish(h) == login' = [login EXCEPT ![h] = AtRest]

-----------------------------------------------------------------------------
(* The limiter, as a caller sees it whose clock reading is s old. *)

BlockedAt(state, s) == state.left > -s
BlockOver(state, s) == state.left < -s
WindowOver(state, s) == state.age - s >= LoginWindow

Fresh(s) == [age |-> s, failures |-> 0, left |-> LongOver]

(* Mutant: a window that has run out goes on. *)
CountedInEver(c, s) == IF c \in DOMAIN failures THEN failures[c] ELSE Fresh(s)

(* The state a failure is counted in: a new one once the window has run out,
   which knows of no block. *)
CountedIn(c, s) ==
    IF c \in DOMAIN failures /\ ~WindowOver(failures[c], s) THEN failures[c] ELSE Fresh(s)

(* Mutant: the limit must be exceeded. *)
OneMoreLate(c, s) ==
    LET state == CountedIn(c, s)
    IN  [state EXCEPT !.failures = @ + 1,
                      !.left = IF state.failures >= LoginMaxFailures THEN LoginBlock - s ELSE @]

OneMore(c, s) ==
    LET state == CountedIn(c, s)
    IN  [state EXCEPT !.failures = @ + 1,
                      !.left = IF state.failures + 1 >= LoginMaxFailures THEN LoginBlock - s ELSE @]

(* Mutant: a window that has run out is enough to be dropped. *)
KeptByWindow(map, s) ==
    IF Cardinality(DOMAIN map) > LoginMapLimit
    THEN {c \in DOMAIN map : ~WindowOver(map[c], s)}
    ELSE DOMAIN map

(* What the sweep of a map beyond its limit leaves. *)
Kept(map, s) ==
    IF Cardinality(DOMAIN map) > LoginMapLimit
    THEN {c \in DOMAIN map : ~(WindowOver(map[c], s) /\ BlockOver(map[c], s))}
    ELSE DOMAIN map

LastFailures(seq) ==
    IF Len(seq) > LoginMaxFailures THEN Tail(seq) ELSE seq

-----------------------------------------------------------------------------
(* handleLogin. *)

Arrive(h, c) ==
    /\ At(h, "idle")
    /\ login' = [login EXCEPT ![h] = [pc |-> "check", client |-> c, stamp |-> 0]]
    /\ UNCHANGED <<failures, failed>>

(* Mutant: to ask while blocked begins the block anew. *)
DeniedAnew(h) ==
    LET c == login[h].client  s == login[h].stamp
    IN  /\ At(h, "check")
        /\ c \in DOMAIN failures /\ BlockedAt(failures[c], s)
        /\ failures' = [failures EXCEPT ![c].left = LoginBlock - s]
        /\ Finish(h)
        /\ UNCHANGED failed

(* RetryAfter > 0: 429. *)
Denied(h) ==
    LET c == login[h].client
    IN  /\ At(h, "check")
        /\ c \in DOMAIN failures /\ BlockedAt(failures[c], login[h].stamp)
        /\ Finish(h)
        /\ UNCHANGED <<failures, failed>>

(* RetryAfter = 0, which forgets a client whose window has run out. *)
Admitted(h) ==
    LET c == login[h].client  s == login[h].stamp
    IN  /\ At(h, "check")
        /\ c \in DOMAIN failures => ~BlockedAt(failures[c], s)
        /\ IF c \in DOMAIN failures /\ WindowOver(failures[c], s)
           THEN Forget(c)
           ELSE UNCHANGED <<failures, failed>>
        /\ Goto(h, "verify")

(* The body cannot be decoded: 400. *)
BadRequest(h) ==
    /\ At(h, "verify")
    /\ Finish(h)
    /\ UNCHANGED <<failures, failed>>

(* VerifyPassword: the hash and the configuration are left open. *)
Verify(h) ==
    /\ At(h, "verify")
    /\ Goto(h, "record") \/ Goto(h, "reset")
    /\ UNCHANGED <<failures, failed>>

(* 401. *)
RecordFailure(h) ==
    LET c == login[h].client  s == login[h].stamp
        updated == [x \in DOMAIN failures \cup {c} |->
                       IF x = c THEN OneMore(c, s) ELSE failures[x]]
        before == IF c \in DOMAIN failures THEN failed[c] ELSE <<>>
    IN  /\ At(h, "record")
        /\ failures' = Restrict(updated, Kept(updated, s))
        /\ failed' = [x \in Kept(updated, s) |->
                         IF x = c THEN LastFailures(Append(before, s)) ELSE failed[x]]
        /\ Finish(h)

(* Reset; the login goes on to SessionManager.Create. *)
Reset(h) ==
    /\ At(h, "reset")
    /\ Forget(login[h].client)
    /\ Finish(h)

HandleLogin(h) ==
    \/ Denied(h) \/ Admitted(h) \/ BadRequest(h) \/ Verify(h)
    \/ RecordFailure(h) \/ Reset(h)

(* The process is started again. *)
LimiterRestart == login' = [h \in Handlers |-> AtRest] /\ failures' = NoFailures /\ failed' = NoFailures

(* The server gives a request 15 s and a window lasts ten minutes, so no login
   stays at a step for long. *)
Tick ==
    /\ \A h \in Handlers : ~At(h, "idle") => login[h].stamp < MaxStage
    /\ login' = [h \in Handlers |->
         IF At(h, "idle") THEN login[h] ELSE [login[h] EXCEPT !.stamp = @ + 1]]
    /\ failures' = [c \in DOMAIN failures |->
         [failures[c] EXCEPT !.age = Least(@ + 1, OldAge), !.left = Most(@ - 1, LongOver)]]
    /\ failed' = [c \in DOMAIN failed |->
         [i \in DOMAIN failed[c] |-> Least(failed[c][i] + 1, LoginBlock + OldAge + MaxStage)]]

LoginNext ==
    \/ \E h \in Handlers : (\E c \in Clients : Arrive(h, c)) \/ HandleLogin(h)
    \/ LimiterRestart
    \/ Tick

(* Time passes, and a handler that began goes on. *)
LoginFairness ==
    /\ WF_loginVars(Tick)
    /\ \A h \in Handlers : WF_loginVars(HandleLogin(h))

LoginSpec == LoginInit /\ [][LoginNext]_loginVars /\ LoginFairness

-----------------------------------------------------------------------------
(* Properties. *)

(* What a limiter promises although check and record are apart: the failures
   counted against a client in one window are fewer than the limit, and those
   of requests that were past the check when it was reached. *)
FailuresBounded ==
    \A c \in DOMAIN failures :
        failures[c].failures =< LoginMaxFailures - 1 + Cardinality(Handlers)

(* Nobody is refused without cause: behind a block that some handler may still
   find lies the full number of failures of that very client, none of them
   before its last success, closer together than a window and the last of them
   no older than a block, give or take the time of a step. *)
BlockedForCause ==
    \A c \in DOMAIN failures : failures[c].left > -MaxStage =>
        LET ages == failed[c]
        IN  /\ Len(ages) = LoginMaxFailures
            /\ \A i, j \in DOMAIN ages : ages[i] - ages[j] < LoginWindow + MaxStage
            /\ \E i \in DOMAIN ages : ages[i] < LoginBlock + MaxStage

Blocked(c) == c \in DOMAIN failures /\ failures[c].left > 0

(* A block ends by the step of time, with the process, or by the very step of a
   login that the client itself had in flight when it was blocked: a success, or
   a failure that is recorded when the window has run out.  Nothing another client does lifts it, a full map
   included. *)
BlockEndsForCause ==
    [][\A c \in Clients : Blocked(c) /\ ~Blocked(c)' =>
          \/ Tick \/ LimiterRestart
          \/ \E h \in Handlers : ~At(h, "idle") /\ login[h].client = c /\
               \/ Reset(h)
               \/ RecordFailure(h) /\ WindowOver(failures[c], login[h].stamp)]_loginVars

(* A block ends, even if the client never stops asking. *)
BlockEnds == \A c \in Clients : Blocked(c) ~> ~Blocked(c)
====
