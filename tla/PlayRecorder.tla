--------------------------- MODULE PlayRecorder ---------------------------
(***************************************************************************)
(* The other half of internal/store: RecordPlay and its debounce map.  A   *)
(* heartbeat claims its key in memory, then inserts a row, and gives the   *)
(* claim back when the insert fails; a heartbeat within Window of the      *)
(* previous one of its key only moves the claim on.  One goroutine calls   *)
(* RecordPlay, the tailer, once per heartbeat line and in the order of the *)
(* log; the time of a heartbeat is the timestamp of its line, not the time *)
(* it is read.  Lines of concurrent requests may be logged a little out of *)
(* order, by Jitter at most.                                               *)
(***************************************************************************)
EXTENDS Integers, FiniteSets, Functions

CONSTANTS
    Keys,       \* client : upstream : item
    Window,     \* DebounceWindow
    Jitter,     \* how far a timestamp may lie before one already read
    DayLen,     \* instants of a day
    MaxTime,    \* bound: the latest timestamp
    MaxBeats,   \* bound: how many heartbeats one life hears
    MaxRows,    \* bound: how many rows are inserted
    MaxExits    \* bound: how often the process dies

Times == 0 .. MaxTime
DateOf(t) == t \div DayLen

ASSUME WindowAssumption == Window \in Nat \ {0} /\ Jitter \in Nat
ASSUME PlayBoundAssumption ==
    MaxTime \in Nat /\ MaxBeats \in Nat /\ MaxRows \in Nat /\ MaxExits \in Nat /\ DayLen \in Nat \ {0}

Rows == [id : Nat, key : Keys, at : Times, life : Nat]

VARIABLES
    recentPlays,  \* the debounce map: the last heartbeat of the keys it holds
    pc,           \* "idle", or "insert" between the claim and its outcome
    event,        \* the heartbeat whose insert is pending, if any
    rows,         \* play_events
    nextId,       \* its AUTOINCREMENT
    life,         \* how often the process has died
    top,          \* history: the latest timestamp read
    heard,        \* history: the heartbeats of this life, but those refused
    swept         \* history: rows the retention sweep deleted

tailing == <<recentPlays, pc, event>>
playHistory == <<top, heard, swept>>
playVars == <<tailing, rows, nextId, life, playHistory>>

TypeOK ==
    /\ DOMAIN recentPlays \subseteq Keys
    /\ recentPlays \in [DOMAIN recentPlays -> Times]
    /\ pc \in {"idle", "insert"}
    /\ event \subseteq [key : Keys, at : Times]
    /\ rows \subseteq Rows
    /\ nextId \in Nat
    /\ life \in Nat
    /\ top \in Times
    /\ heard \subseteq [key : Keys, at : Times]
    /\ swept \subseteq Rows

NoPlays == [k \in {} |-> 0]

Init ==
    /\ recentPlays = NoPlays
    /\ pc = "idle"
    /\ event = {}
    /\ rows = {}
    /\ nextId = 1
    /\ life = 0
    /\ top = 0
    /\ heard = {}
    /\ swept = {}

-----------------------------------------------------------------------------
(* claimDebounce.  Every call first drops the keys that have been silent for
   more than the window, by the timestamp of this heartbeat. *)

(* Mutant: the sweep of the map uses half the window. *)
PurgedEarly(at) ==
    Restrict(recentPlays, {k \in DOMAIN recentPlays : 2 * (at - recentPlays[k]) =< Window})

Purged(at) ==
    Restrict(recentPlays, {k \in DOMAIN recentPlays : at - recentPlays[k] =< Window})

Within(k, at) == k \in DOMAIN Purged(at) /\ at - Purged(at)[k] < Window

Stamp(k, at) == [j \in DOMAIN Purged(at) \cup {k} |-> IF j = k THEN at ELSE Purged(at)[j]]

Hear(k, at) ==
    /\ pc = "idle"
    /\ at >= top - Jitter
    /\ top' = IF at > top THEN at ELSE top
    /\ heard' = heard \cup {[key |-> k, at |-> at]}
    /\ Cardinality(heard') =< MaxBeats

(* Mutant: the window starts at the play and does not slide. *)
RenewFixed(k, at) ==
    /\ Hear(k, at)
    /\ Within(k, at)
    /\ recentPlays' = Purged(at)
    /\ UNCHANGED <<pc, event, rows, nextId, life, swept>>

(* Within the window of the last heartbeat: the window slides, no play. *)
Renew(k, at) ==
    /\ Hear(k, at)
    /\ Within(k, at)
    /\ recentPlays' = Stamp(k, at)
    /\ UNCHANGED <<pc, event, rows, nextId, life, swept>>

Claim(k, at) ==
    /\ Hear(k, at)
    /\ ~Within(k, at)
    /\ recentPlays' = Stamp(k, at)
    /\ event' = {[key |-> k, at |-> at]}
    /\ pc' = "insert"
    /\ UNCHANGED <<rows, nextId, life, swept>>

(* RecordPlay after a claim: the INSERT, or its error and releaseDebounce. *)
Insert ==
    /\ pc = "insert"
    /\ nextId =< MaxRows
    /\ rows' = rows \cup {[id |-> nextId, key |-> e.key, at |-> e.at, life |-> life] : e \in event}
    /\ nextId' = nextId + 1
    /\ pc' = "idle"
    /\ event' = {}
    /\ UNCHANGED <<recentPlays, life, playHistory>>

(* Mutant: the claim stays when the insert fails. *)
InsertFailsKeeping ==
    /\ pc = "insert"
    /\ heard' = heard \ event
    /\ pc' = "idle"
    /\ event' = {}
    /\ UNCHANGED <<recentPlays, rows, nextId, life, top, swept>>

(* Mutant: the key is marked instead of deleted. *)
InsertFailsMarking ==
    /\ pc = "insert"
    /\ recentPlays' = [k \in DOMAIN recentPlays |-> IF k \in {e.key : e \in event} THEN -Window ELSE recentPlays[k]]
    /\ heard' = heard \ event
    /\ pc' = "idle"
    /\ event' = {}
    /\ UNCHANGED <<rows, nextId, life, top, swept>>

InsertFails ==
    /\ pc = "insert"
    /\ recentPlays' = Restrict(recentPlays, DOMAIN recentPlays \ {e.key : e \in event})
    /\ heard' = heard \ event
    /\ pc' = "idle"
    /\ event' = {}
    /\ UNCHANGED <<rows, nextId, life, top, swept>>

RecordPlay ==
    \/ \E k \in Keys, at \in Times : Renew(k, at) \/ Claim(k, at)
    \/ Insert \/ InsertFails

(* PruneOld, its statement on play_events.  The log may be read late, so the
   wall clock, and with it the cutoff, is at no fixed distance from `top'. *)
PrunePlays(cutoff) ==
    /\ rows' = {r \in rows : DateOf(r.at) >= cutoff}
    /\ swept' = swept \cup (rows \ rows')
    /\ rows' # rows
    /\ UNCHANGED <<tailing, nextId, life, top, heard>>

(* The process dies and is started again: the map is empty, the rows stay, and
   an insert that was pending never happened. *)
Restart ==
    /\ life < MaxExits
    /\ life' = life + 1
    /\ recentPlays' = NoPlays
    /\ pc' = "idle"
    /\ event' = {}
    /\ heard' = {}
    /\ UNCHANGED <<rows, nextId, top, swept>>

Next ==
    \/ RecordPlay
    \/ \E cutoff \in 1 .. DateOf(MaxTime) : PrunePlays(cutoff)
    \/ Restart

Spec == Init /\ [][Next]_playVars

-----------------------------------------------------------------------------
(* Properties. *)

Plays(k) == {r \in rows \cup swept : r.key = k /\ r.life = life}
Beats(k) == {b.at : b \in {b \in heard : b.key = k}}

(* Someone watched from a to t: no two heartbeats in between are as far apart
   as `gap'. *)
Watched(k, a, t, gap) ==
    \A b \in Beats(k) : a =< b /\ b < t =>
        \E c \in Beats(k) : b < c /\ c =< t /\ c - b < gap

(* Two plays of a key lie a window apart, whatever failed in between and
   whatever the sweep of the map threw away; each timestamp out of order may
   cost it the jitter. *)
PlaysApart ==
    \A k \in Keys : \A p, q \in Plays(k) :
        p.id < q.id => q.at - p.at >= Window - 2 * Jitter

(* Continuous watching counts once: between two plays of a key there was a
   pause.  (A line that came late may have filled a part of it.) *)
OneRowPerViewing ==
    \A k \in Keys : \A p, q \in Plays(k) :
        p.id < q.id => ~Watched(k, p.at, q.at, Window - 2 * Jitter)

(* A heartbeat that is swallowed belongs to a viewing that was counted: no
   failed insert leaves a claim behind that hides later heartbeats. *)
EveryBeatCounted ==
    \A b \in heard :
        \/ b \in event
        \/ \E p \in Plays(b.key) :
             p.at =< b.at + Jitter /\ Watched(b.key, p.at, b.at, Window)
====
