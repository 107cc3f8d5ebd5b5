---------------------------- MODULE WebSessions ----------------------------
(***************************************************************************)
(* The session map of internal/auth and its users in the web server: a     *)
(* login that was successful creates a session, requireSession asks for    *)
(* it, a logout destroys it, and a session that is found to be over is     *)
(* deleted.  Create reads the clock before it takes the lock.  The sweep   *)
(* of the map, Prune, has no caller and so is no action.                   *)
(*                                                                         *)
(* Time is kept as distances from now, as in LoginLimiter.                 *)
(***************************************************************************)
EXTENDS Integers, Functions

CONSTANTS
    Creators,     \* goroutines that serve a login
    Tokens,       \* bound: the tokens GenerateToken returns, each once
    SessionTTL,
    MaxLag        \* from the clock reading to the lock, at most

ASSUME SessionAssumption == SessionTTL \in Nat /\ MaxLag \in Nat /\ MaxLag =< SessionTTL

VARIABLES
    creating,   \* of a login inside Create: the age of its clock reading
    sessions,   \* SessionManager.sessions: the time left of each
    granted     \* history: the age of each token handed out, and whether it was given up

sessionVars == <<creating, sessions, granted>>

NoSessions == [t \in {} |-> 0]
Over == SessionTTL + 1    \* an age beyond every lifetime

SessionTypeOK ==
    /\ DOMAIN creating \subseteq Creators
    /\ creating \in [DOMAIN creating -> 0 .. MaxLag]
    /\ DOMAIN sessions \subseteq Tokens
    /\ sessions \in [DOMAIN sessions -> -1 .. SessionTTL]
    /\ DOMAIN granted \subseteq Tokens
    /\ granted \in [DOMAIN granted -> [age : 0 .. Over, ended : BOOLEAN]]

SessionInit ==
    /\ creating = NoSessions
    /\ sessions = NoSessions
    /\ granted = NoSessions

Dropped(map, x) == Restrict(map, DOMAIN map \ {x})
Put(map, x, value) == [y \in DOMAIN map \cup {x} |-> IF y = x THEN value ELSE map[y]]

-----------------------------------------------------------------------------
(* Create: GenerateToken may fail, which the caller answers with 500; else the
   clock is read. *)
BeginCreate(h) ==
    /\ h \notin DOMAIN creating
    /\ creating' = Put(creating, h, 0)
    /\ UNCHANGED <<sessions, granted>>

Create(h) ==
    /\ h \in DOMAIN creating
    /\ creating' = Dropped(creating, h)
    /\ \E t \in Tokens \ DOMAIN granted :
         /\ sessions' = Put(sessions, t, SessionTTL - creating[h])
         /\ granted' = Put(granted, t, [age |-> 0, ended |-> FALSE])

Valid(t) == t \in DOMAIN sessions /\ sessions[t] >= 0

(* Mutant: a request renews the session. *)
RequireSessionRenewing(t) ==
    /\ t \in DOMAIN granted
    /\ sessions' = IF Valid(t) THEN Put(sessions, t, SessionTTL) ELSE Dropped(sessions, t)
    /\ UNCHANGED <<creating, granted>>

(* requireSession with the token of a cookie: it goes on, or answers 401 and
   the token is deleted. *)
RequireSession(t) ==
    /\ t \in DOMAIN granted
    /\ sessions' = IF Valid(t) THEN sessions ELSE Dropped(sessions, t)
    /\ UNCHANGED <<creating, granted>>

(* handleLogout: the token of the cookie is destroyed, whatever it is. *)
HandleLogout(t) ==
    /\ t \in DOMAIN granted
    /\ sessions' = Dropped(sessions, t)
    /\ granted' = [granted EXCEPT ![t].ended = TRUE]
    /\ UNCHANGED creating

(* The process is started again: the map is memory, the cookies are not. *)
SessionRestart ==
    /\ creating' = NoSessions
    /\ sessions' = NoSessions
    /\ granted' = [t \in DOMAIN granted |-> [granted[t] EXCEPT !.ended = TRUE]]

SessionTick ==
    /\ \A h \in DOMAIN creating : creating[h] < MaxLag
    /\ creating' = [h \in DOMAIN creating |-> creating[h] + 1]
    /\ sessions' = [t \in DOMAIN sessions |-> IF sessions[t] < 0 THEN -1 ELSE sessions[t] - 1]
    /\ granted' = [t \in DOMAIN granted |->
         [granted[t] EXCEPT !.age = IF @ = Over THEN Over ELSE @ + 1]]

SessionNext ==
    \/ \E h \in Creators : BeginCreate(h) \/ Create(h)
    \/ \E t \in Tokens : RequireSession(t) \/ HandleLogout(t)
    \/ SessionRestart
    \/ SessionTick

SessionSpec == SessionInit /\ [][SessionNext]_sessionVars

-----------------------------------------------------------------------------
(* A token is good from its login for its lifetime (less what the login waited
   for the lock), whoever else logs in or out and whatever it was used for, and
   never again after a logout with it or a restart. *)
SessionLifetime ==
    \A t \in DOMAIN granted :
        LET life == granted[t]
        IN  /\ Valid(t) => ~life.ended /\ life.age =< SessionTTL
            /\ ~life.ended /\ life.age =< SessionTTL - MaxLag => Valid(t)
====
