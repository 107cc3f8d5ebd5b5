------------------------ MODULE PlayRecorderProofs ------------------------
(***************************************************************************)
(* Two plays of a key lie a window apart, with a pause of the viewer in    *)
(* between, and each heartbeat belongs to a play: for every window, every  *)
(* amount of disorder in the log, any number of keys and heartbeats.       *)
(***************************************************************************)
EXTENDS PlayRecorder, WellFoundedInduction, TLAPS

Ever == rows \cup swept
Pending == {e.key : e \in event}

(* The claim that is pending is the stamp of its key, and as late as the log
   allows. *)
EventInv ==
    /\ pc = "idle" => event = {}
    /\ \A e \in event : /\ e.key \in DOMAIN recentPlays
                        /\ recentPlays[e.key] = e.at
                        /\ e.at =< top /\ top =< e.at + Jitter

RowInv == \A p \in Ever : p.id < nextId /\ p.life =< life /\ p.at =< top

(* The map remembers each play, by a stamp that is hardly earlier, or has
   forgotten it for a reason: the log went on for a window since. *)
StampInv ==
    \A p \in Ever : p.life = life =>
        IF p.key \in DOMAIN recentPlays \ Pending
        THEN p.at =< recentPlays[p.key] + Jitter
        ELSE top >= p.at + Window - Jitter

ClaimInv ==
    \A e \in event : \A p \in Ever :
        p.life = life /\ p.key = e.key => e.at - p.at >= Window - 2 * Jitter

ApartInv ==
    \A p, q \in Ever :
        p.life = life /\ q.life = life /\ p.key = q.key /\ p.id < q.id =>
            q.at - p.at >= Window - 2 * Jitter

PlayInv == TypeOK /\ EventInv /\ RowInv /\ StampInv /\ ClaimInv /\ ApartInv

-----------------------------------------------------------------------------
(* What a call of claimDebounce leaves of the map. *)
LEMMA StampLaw ==
    ASSUME TypeOK, NEW k \in Keys, NEW at \in Times
    PROVE  /\ DOMAIN Stamp(k, at) \subseteq DOMAIN recentPlays \cup {k}
           /\ Stamp(k, at) \in [DOMAIN Stamp(k, at) -> Times]
           /\ k \in DOMAIN Stamp(k, at) /\ Stamp(k, at)[k] = at
           /\ \A j \in DOMAIN Stamp(k, at) \ {k} : Stamp(k, at)[j] = recentPlays[j]
           /\ \A j \in DOMAIN recentPlays \ {k} :
                j \in DOMAIN Stamp(k, at) \/ at - recentPlays[j] > Window
  <1> DEFINE P == {j \in DOMAIN recentPlays : at - recentPlays[j] =< Window}
  <1>1. Purged(at) = [j \in P |-> recentPlays[j]]
    BY DEF Purged, Restrict
  <1>2. Stamp(k, at) = [j \in P \cup {k} |-> IF j = k THEN at ELSE Purged(at)[j]]
    BY <1>1 DEF Stamp
  <1>3. \A j \in P : recentPlays[j] \in Times /\ recentPlays[j] \in Int /\ at \in Int
    BY DEF TypeOK, Times
  <1>4. Window \in Int
    BY WindowAssumption
  <1>5. \A j \in P : Purged(at)[j] = recentPlays[j]
    BY <1>1
  <1>6. Stamp(k, at) \in [P \cup {k} -> Times]
    BY <1>2, <1>3, <1>5
  <1>7. DOMAIN Stamp(k, at) = P \cup {k}
    BY <1>2
  <1>8. \A j \in DOMAIN recentPlays \ P : at - recentPlays[j] > Window
    BY <1>4 DEF TypeOK, Times
  <1>9. QED
    BY <1>2, <1>5, <1>6, <1>7, <1>8

(* A heartbeat that is not within the window of its key comes a window after
   the stamp of the key, if there is one. *)
LEMMA OutsideLaw ==
    ASSUME TypeOK, NEW k \in Keys, NEW at \in Times, ~Within(k, at), k \in DOMAIN recentPlays
    PROVE  at - recentPlays[k] >= Window
  <1> DEFINE P == {j \in DOMAIN recentPlays : at - recentPlays[j] =< Window}
  <1>1. Purged(at) = [j \in P |-> recentPlays[j]]
    BY DEF Purged, Restrict
  <1>2. recentPlays[k] \in Int /\ at \in Int /\ Window \in Int
    BY WindowAssumption DEF TypeOK, Times
  <1>3. CASE k \in P
    BY <1>1, <1>2, <1>3 DEF Within
  <1>4. CASE k \notin P
    BY <1>2, <1>4
  <1>5. QED
    BY <1>3, <1>4

(* The recorder at the start: no stamp, no claim, no play. *)
LEMMA PlayInit == Init => PlayInv
  <1> SUFFICES ASSUME Init PROVE PlayInv
    OBVIOUS
  <1>1. Ever = {} /\ event = {}
    BY DEF Init, Ever
  <1>2. TypeOK
    BY PlayBoundAssumption DEF Init, TypeOK, NoPlays, Times
  <1>3. QED
    BY <1>1, <1>2 DEF Init, PlayInv, EventInv, RowInv, StampInv, ClaimInv, ApartInv

-----------------------------------------------------------------------------
(* A heartbeat: the two outcomes of claimDebounce. *)
LEMMA HearStep ==
    ASSUME PlayInv, NEW k \in Keys, NEW at \in Times, Renew(k, at) \/ Claim(k, at)
    PROVE  PlayInv'
  <1> USE WindowAssumption
  <1>1. /\ TypeOK /\ EventInv /\ RowInv /\ StampInv /\ ApartInv
        /\ pc = "idle" /\ event = {} /\ Pending = {}
    BY DEF PlayInv, Renew, Claim, Hear, EventInv, Pending
  <1>2. /\ recentPlays' = Stamp(k, at)
        /\ at >= top - Jitter
        /\ top' = (IF at > top THEN at ELSE top)
        /\ heard' = heard \cup {[key |-> k, at |-> at]}
        /\ UNCHANGED <<rows, nextId, life, swept>>
    BY DEF Renew, Claim, Hear
  <1>3. Ever' = Ever
    BY <1>2 DEF Ever
  <1>4. /\ top \in Times /\ top' \in Times /\ top' >= top /\ top' >= at
        /\ top' =< at + Jitter /\ at \in Int /\ Jitter \in Int
    BY <1>1, <1>2 DEF TypeOK, Times
  <1>5. \/ Renew(k, at) /\ event' = {} /\ pc' = "idle"
        \/ Claim(k, at) /\ event' = {[key |-> k, at |-> at]} /\ pc' = "insert"
    BY <1>1 DEF Renew, Claim
  <1>6. TypeOK'
    <2>1. recentPlays' \in [DOMAIN recentPlays' -> Times] /\ DOMAIN recentPlays' \subseteq Keys
      BY <1>1, <1>2, StampLaw DEF TypeOK
    <2>2. event' \subseteq [key : Keys, at : Times] /\ pc' \in {"idle", "insert"}
      BY <1>5
    <2>3. heard' \subseteq [key : Keys, at : Times]
      BY <1>1, <1>2 DEF TypeOK
    <2>4. QED
      BY <1>1, <1>2, <1>4, <2>1, <2>2, <2>3 DEF TypeOK
  <1>7. EventInv'
    BY <1>1, <1>2, <1>4, <1>5, StampLaw DEF EventInv
  <1>8. RowInv'
    BY <1>1, <1>2, <1>3, <1>4 DEF RowInv, TypeOK, Ever, Rows, Times
  <1>9. ASSUME NEW p \in Ever, p.life = life
        PROVE  /\ p.key # k => IF p.key \in DOMAIN recentPlays'
                               THEN p.at =< recentPlays'[p.key] + Jitter
                               ELSE top' >= p.at + Window - Jitter
               /\ p.key = k => p.at =< at + Jitter
               /\ p.key = k /\ Claim(k, at) =>
                    /\ top' >= p.at + Window - Jitter
                    /\ at - p.at >= Window - 2 * Jitter
    <2>1. p.at \in Int /\ p.key \in Keys /\ p.at =< top
      BY <1>1 DEF RowInv, TypeOK, Ever, Rows, Times
    <2>2. IF p.key \in DOMAIN recentPlays
          THEN p.at =< recentPlays[p.key] + Jitter /\ recentPlays[p.key] \in Int
          ELSE top >= p.at + Window - Jitter
      BY <1>1, <1>9 DEF StampInv, TypeOK, Times
    <2>3. ASSUME p.key # k
          PROVE  IF p.key \in DOMAIN recentPlays'
                 THEN p.at =< recentPlays'[p.key] + Jitter
                 ELSE top' >= p.at + Window - Jitter
      <3>1. CASE p.key \in DOMAIN recentPlays'
        BY <1>1, <1>2, <2>2, <2>3, <3>1, StampLaw
      <3>2. CASE p.key \notin DOMAIN recentPlays' /\ p.key \in DOMAIN recentPlays
        <4>1. at - recentPlays[p.key] > Window
          BY <1>1, <1>2, <2>3, <3>2, StampLaw
        <4>2. QED
          BY <1>4, <2>1, <2>2, <3>2, <4>1 DEF Times
      <3>3. CASE p.key \notin DOMAIN recentPlays' /\ p.key \notin DOMAIN recentPlays
        BY <1>4, <2>1, <2>2, <3>3 DEF Times
      <3>4. QED
        BY <3>1, <3>2, <3>3
    <2>4. p.at =< at + Jitter
      BY <1>2, <1>4, <2>1 DEF Times
    <2>5. ASSUME p.key = k, Claim(k, at)
          PROVE  top' >= p.at + Window - Jitter /\ at - p.at >= Window - 2 * Jitter
      <3>1. CASE k \in DOMAIN recentPlays
        <4>1. at - recentPlays[k] >= Window
          BY <1>1, <2>5, <3>1, OutsideLaw DEF Claim
        <4>2. QED
          BY <1>4, <2>1, <2>2, <2>5, <3>1, <4>1 DEF Times
      <3>2. CASE k \notin DOMAIN recentPlays
        BY <1>2, <1>4, <2>1, <2>2, <2>5, <3>2 DEF Times
      <3>3. QED
        BY <3>1, <3>2
    <2>6. QED
      BY <2>3, <2>4, <2>5
  <1>10. StampInv'
    <2> SUFFICES ASSUME NEW p \in Ever, p.life = life
                 PROVE  IF p.key \in DOMAIN recentPlays' \ Pending'
                        THEN p.at =< recentPlays'[p.key] + Jitter
                        ELSE top' >= p.at + Window - Jitter
      BY <1>2, <1>3 DEF StampInv
    <2>1. k \in DOMAIN recentPlays' /\ recentPlays'[k] = at
      BY <1>1, <1>2, StampLaw
    <2>2. CASE p.key # k
      <3>1. p.key \notin Pending'
        BY <1>5, <2>2 DEF Pending
      <3>2. QED
        BY <1>9, <2>2, <3>1
    <2>3. CASE p.key = k /\ Renew(k, at) /\ event' = {}
      <3>1. Pending' = {}
        BY <2>3 DEF Pending
      <3>2. QED
        BY <1>9, <2>1, <2>3, <3>1
    <2>4. CASE p.key = k /\ Claim(k, at) /\ event' = {[key |-> k, at |-> at]}
      <3>1. k \in Pending'
        BY <2>4 DEF Pending
      <3>2. QED
        BY <1>9, <2>4, <3>1
    <2>5. QED
      BY <1>5, <2>2, <2>3, <2>4
  <1>11. ClaimInv'
    <2> SUFFICES ASSUME NEW e \in event', NEW p \in Ever, p.life = life, p.key = e.key
                 PROVE  e.at - p.at >= Window - 2 * Jitter
      BY <1>2, <1>3 DEF ClaimInv
    <2>1. Claim(k, at) /\ e = [key |-> k, at |-> at]
      BY <1>5
    <2>2. QED
      BY <1>9, <2>1
  <1>12. ApartInv'
    BY <1>1, <1>2, <1>3 DEF ApartInv
  <1>13. QED
    BY <1>6, <1>7, <1>8, <1>10, <1>11, <1>12 DEF PlayInv

(* The insert succeeds: the new play is a window after the earlier ones. *)
LEMMA InsertStep == ASSUME PlayInv, Insert PROVE PlayInv'
  <1> USE WindowAssumption
  <1> DEFINE Added ==
        {[id |-> nextId, key |-> e.key, at |-> e.at, life |-> life] : e \in event}
  <1>1. TypeOK /\ EventInv /\ RowInv /\ StampInv /\ ClaimInv /\ ApartInv
    BY DEF PlayInv
  <1>2. /\ rows' = rows \cup Added
        /\ nextId' = nextId + 1 /\ pc' = "idle" /\ event' = {}
        /\ UNCHANGED <<recentPlays, life, top, heard, swept>>
    BY DEF Insert, playHistory
  <1>3. Ever' = Ever \cup Added /\ Pending' = {}
    BY <1>2 DEF Ever, Pending
  <1>4. Added \subseteq Rows
    BY <1>1 DEF TypeOK, Rows
  <1>5. TypeOK'
    BY <1>1, <1>2, <1>4 DEF TypeOK
  <1>6. EventInv'
    BY <1>2 DEF EventInv
  <1>7. \A q \in Added : /\ q.id = nextId /\ q.life = life /\ q.at \in Int
                         /\ q.key \in Pending /\ q.key \in DOMAIN recentPlays
                         /\ recentPlays[q.key] = q.at
                         /\ q.at =< top /\ top =< q.at + Jitter
                         /\ [key |-> q.key, at |-> q.at] \in event
    <2> SUFFICES ASSUME NEW e \in event
                 PROVE  /\ e.key \in Pending /\ e.at \in Int
                        /\ e.key \in DOMAIN recentPlays /\ recentPlays[e.key] = e.at
                        /\ e.at =< top /\ top =< e.at + Jitter
                        /\ [key |-> e.key, at |-> e.at] = e
      OBVIOUS
    <2>1. QED
      BY <1>1 DEF EventInv, Pending, TypeOK, Times
  <1> HIDE DEF Added
  <1>8. \A p \in Ever : p.at \in Int /\ p.id \in Int /\ p.at =< top /\ p.id < nextId
    BY <1>1 DEF RowInv, Ever, TypeOK, Rows, Times
  <1>9. nextId \in Int /\ top \in Int /\ life \in Int /\ Jitter \in Int
    BY <1>1 DEF TypeOK, Times
  <1>10. RowInv'
    <2> SUFFICES ASSUME NEW p \in Ever'
                 PROVE  p.id < nextId + 1 /\ p.life =< life /\ p.at =< top
      BY <1>2 DEF RowInv
    <2>1. CASE p \in Added
      <3>1. p.id = nextId /\ p.life = life /\ p.at =< top
        BY <1>7, <2>1
      <3>2. QED
        BY <1>9, <3>1
    <2>2. CASE p \in Ever
      <3>1. p.id \in Int /\ p.id < nextId /\ p.life =< life /\ p.at =< top
        BY <1>1, <1>8, <2>2 DEF RowInv
      <3>2. QED
        BY <1>9, <3>1
    <2>3. QED
      BY <1>3, <2>1, <2>2
  <1>11. StampInv'
    <2> SUFFICES ASSUME NEW p \in Ever', p.life = life
                 PROVE  IF p.key \in DOMAIN recentPlays
                        THEN p.at =< recentPlays[p.key] + Jitter
                        ELSE top >= p.at + Window - Jitter
      BY <1>2, <1>3 DEF StampInv
    <2>1. CASE p \in Added
      <3>1. p.key \in DOMAIN recentPlays /\ recentPlays[p.key] = p.at /\ p.at \in Int
        BY <1>7, <2>1
      <3>2. QED
        BY <1>9, <3>1
    <2>2. CASE p \in Ever /\ p.key \in Pending
      <3>1. PICK e \in event : e.key = p.key
        BY <2>2 DEF Pending
      <3>2. recentPlays[p.key] = e.at /\ top =< e.at + Jitter /\ p.key \in DOMAIN recentPlays
        BY <1>1, <3>1 DEF EventInv
      <3>3. e.at \in Int
        BY <1>1, <3>1 DEF TypeOK, Times
      <3>4. QED
        BY <1>8, <1>9, <2>2, <3>2, <3>3
    <2>3. CASE p \in Ever /\ p.key \notin Pending
      BY <1>1, <2>3 DEF StampInv
    <2>4. QED
      BY <1>3, <2>1, <2>2, <2>3
  <1>12. ClaimInv'
    BY <1>2 DEF ClaimInv
  <1>13. ApartInv'
    <2> SUFFICES ASSUME NEW p \in Ever', NEW q \in Ever',
                        p.life = life, q.life = life, p.key = q.key, p.id < q.id
                 PROVE  q.at - p.at >= Window - 2 * Jitter
      BY <1>2 DEF ApartInv
    <2>1. CASE p \in Ever /\ q \in Ever
      BY <1>1, <2>1 DEF ApartInv
    <2>2. CASE p \in Ever /\ q \in Added
      <3>1. [key |-> q.key, at |-> q.at] \in event
        BY <1>7, <2>2
      <3>2. QED
        BY <1>1, <2>2, <3>1 DEF ClaimInv
    <2>3. CASE p \in Added
      <3>1. p.id = nextId
        BY <1>7, <2>3
      <3>2. q.id = nextId \/ (q.id \in Int /\ q.id < nextId)
        BY <1>3, <1>7, <1>8
      <3>3. QED
        BY <1>9, <3>1, <3>2
    <2>4. QED
      BY <1>3, <2>1, <2>2, <2>3
  <1>14. QED
    BY <1>5, <1>6, <1>10, <1>11, <1>12, <1>13 DEF PlayInv

(* The insert fails: the key is forgotten, and rightly so. *)
LEMMA InsertFailsStep == ASSUME PlayInv, InsertFails PROVE PlayInv'
  <1>1. TypeOK /\ EventInv /\ RowInv /\ StampInv /\ ApartInv
    BY DEF PlayInv
  <1>2. /\ recentPlays' = [j \in DOMAIN recentPlays \ Pending |-> recentPlays[j]]
        /\ heard' = heard \ event /\ pc' = "idle" /\ event' = {}
        /\ UNCHANGED <<rows, nextId, life, top, swept>>
    BY DEF InsertFails, Restrict, Pending
  <1>3. Ever' = Ever /\ Pending' = {}
    BY <1>2 DEF Ever, Pending
  <1>4. TypeOK'
    BY <1>1, <1>2 DEF TypeOK
  <1>5. StampInv'
    BY <1>1, <1>2, <1>3 DEF StampInv
  <1>6. EventInv' /\ RowInv' /\ ClaimInv' /\ ApartInv'
    BY <1>1, <1>2, <1>3 DEF EventInv, RowInv, ClaimInv, ApartInv
  <1>7. QED
    BY <1>4, <1>5, <1>6 DEF PlayInv

(* The sweep of the table moves rows to history. *)
LEMMA PruneStep == ASSUME PlayInv, NEW cutoff, PrunePlays(cutoff) PROVE PlayInv'
  <1>1. /\ rows' \subseteq rows /\ swept' = swept \cup (rows \ rows')
        /\ UNCHANGED <<recentPlays, pc, event, nextId, life, top, heard>>
    BY DEF PrunePlays, tailing
  <1>2. Ever' = Ever /\ Pending' = Pending
    BY <1>1 DEF Ever, Pending
  <1>3. TypeOK'
    BY <1>1 DEF PlayInv, TypeOK
  <1>4. QED
    BY <1>1, <1>2, <1>3 DEF PlayInv, EventInv, RowInv, StampInv, ClaimInv, ApartInv

(* A new life has no plays yet. *)
LEMMA RestartStep == ASSUME PlayInv, Restart PROVE PlayInv'
  <1>1. TypeOK /\ RowInv
    BY DEF PlayInv
  <1>2. /\ life' = life + 1 /\ recentPlays' = NoPlays /\ pc' = "idle" /\ event' = {}
        /\ heard' = {} /\ UNCHANGED <<rows, nextId, top, swept>>
    BY DEF Restart
  <1>3. Ever' = Ever
    BY <1>2 DEF Ever
  <1>4. \A p \in Ever : p.life \in Int /\ p.life < life'
    BY <1>1, <1>2 DEF RowInv, Ever, TypeOK, Rows
  <1>5. TypeOK'
    BY <1>1, <1>2 DEF TypeOK, NoPlays
  <1>6. RowInv'
    BY <1>1, <1>2, <1>3, <1>4 DEF RowInv, TypeOK
  <1>7. StampInv' /\ ClaimInv' /\ ApartInv'
    BY <1>2, <1>3, <1>4 DEF StampInv, ClaimInv, ApartInv
  <1>8. EventInv'
    BY <1>2 DEF EventInv
  <1>9. QED
    BY <1>5, <1>6, <1>7, <1>8 DEF PlayInv

(* Every step keeps the invariant. *)
LEMMA PlayStep == PlayInv /\ [Next]_playVars => PlayInv'
  <1> SUFFICES ASSUME PlayInv, [Next]_playVars PROVE PlayInv'
    OBVIOUS
  <1>1. CASE \E k \in Keys, at \in Times : Renew(k, at) \/ Claim(k, at)
    BY <1>1, HearStep
  <1>2. CASE Insert
    BY <1>2, InsertStep
  <1>3. CASE InsertFails
    BY <1>3, InsertFailsStep
  <1>4. CASE \E cutoff \in 1 .. DateOf(MaxTime) : PrunePlays(cutoff)
    BY <1>4, PruneStep
  <1>5. CASE Restart
    BY <1>5, RestartStep
  <1>6. CASE UNCHANGED playVars
    BY <1>6 DEF playVars, tailing, playHistory, PlayInv, TypeOK, EventInv, RowInv, StampInv,
                ClaimInv, ApartInv, Ever, Pending
  <1>7. QED
    BY <1>1, <1>2, <1>3, <1>4, <1>5, <1>6 DEF Next, RecordPlay

-----------------------------------------------------------------------------
(* The invariant of the recorder: claims, rows, stamps and distances. *)
THEOREM PlayInvariant == Spec => []PlayInv
  <1>1. QED
    BY PlayInit, PlayStep, PTL DEF Spec

(* RecordPlay keeps every variable in its type. *)
THEOREM RecorderTypes == Spec => []TypeOK
  <1>1. PlayInv => TypeOK
    BY DEF PlayInv
  <1>2. QED
    BY <1>1, PlayInvariant, PTL

(* The debounce of RecordPlay: within a life of the process two plays of one
   client, upstream and item are at least the window apart, less twice the
   disorder of the log, whatever inserts failed, whatever other keys made the
   map forget, and whatever the retention sweep deleted. *)
THEOREM DebounceHolds == Spec => []PlaysApart
  <1>1. PlayInv => PlaysApart
    BY DEF PlayInv, ApartInv, PlaysApart, Plays, Ever
  <1>2. QED
    BY <1>1, PlayInvariant, PTL

-----------------------------------------------------------------------------
(* Viewings.  From here on twice the disorder of the log is less than the
   window (in the code the length of a request against half an hour): then a heartbeat
   that is claimed is later than every settled one of its key, and what a failed
   insert takes back is that heartbeat and no other. *)

(* The heartbeats whose outcome is known, and the pause that a claim proves. *)
Settled == heard \ event
Pause == Window - 2 * Jitter

(* The map remembers each heartbeat as it does each play. *)
BeatInv ==
    /\ event \subseteq heard
    /\ \A b \in heard : b.at =< top
    /\ \A k \in DOMAIN recentPlays : [key |-> k, at |-> recentPlays[k]] \in heard
    /\ \A b \in Settled :
        IF b.key \in DOMAIN recentPlays \ Pending
        THEN b.at =< recentPlays[b.key] + Jitter
        ELSE top >= b.at + Window - Jitter

(* A play is a heartbeat. *)
PlayedInv == \A p \in Ever : p.life = life => [key |-> p.key, at |-> p.at] \in Settled

(* Before each play, or claim, there was a pause, which no line came late
   enough to fall into. *)
GapInv ==
    /\ \A q \in Ever : q.life = life => \E t \in Int :
         /\ t =< q.at /\ t =< top - Jitter
         /\ \A b \in heard : b.key = q.key => b.at =< t - Pause \/ b.at >= t
         /\ \A p \in Ever : p.life = life /\ p.key = q.key /\ p.id < q.id => p.at =< t - Pause
    /\ \A e \in event : \E t \in Int :
         /\ t =< e.at /\ t =< top - Jitter
         /\ \A b \in Settled : b.key = e.key => b.at =< t - Pause

(* Settled heartbeats lead from a to t with no window between two of them. *)
Bridged(k, a, t) ==
    \A b \in Settled : b.key = k /\ a =< b.at /\ b.at < t =>
        \E c \in Settled : c.key = k /\ b.at < c.at /\ c.at =< t /\ c.at - b.at < Window

(* Such a chain leads from a play to each settled heartbeat. *)
CoverInv ==
    \A b \in Settled : \E p \in Ever :
        p.life = life /\ p.key = b.key /\ p.at =< b.at + Jitter /\ Bridged(b.key, p.at, b.at)

ViewingInv == BeatInv /\ PlayedInv /\ GapInv /\ CoverInv

(* A nonempty set of timestamps has a latest one. *)
LEMMA Latest ==
    ASSUME NEW T, T \subseteq Times, T # {}
    PROVE  \E m \in T : \A n \in T : n =< m
<1> DEFINE R == {MaxTime - n : n \in T}
           Before == OpToRel(<, Nat)
<1>1. MaxTime \in Nat /\ \A n \in T : n \in Nat /\ MaxTime - n \in Nat
  BY PlayBoundAssumption DEF Times
<1>2. R \subseteq Nat /\ R # {}
  BY <1>1
<1>3. PICK r \in R : \A x \in R : <<x, r>> \notin Before
  <2> HIDE DEF R, Before
  <2>1. IsWellFoundedOn(Before, Nat)
    BY NatLessThanWellFounded DEF Before
  <2> QED BY <1>2, <2>1, WFMin
<1>4. \A x \in R : ~(x < r)
  BY <1>2, <1>3 DEF OpToRel
<1>5. PICK m \in T : r = MaxTime - m
  OBVIOUS
<1>6. \A n \in T : ~(MaxTime - n < MaxTime - m)
  BY <1>4, <1>5
<1> QED BY <1>1, <1>5, <1>6

(* What is known of the heartbeats of a key when one of them is claimed. *)
LEMMA ClaimedAfter ==
    ASSUME TypeOK, EventInv, BeatInv, NEW k \in Keys, NEW at \in Times, Claim(k, at),
           NEW b \in heard, b.key = k
    PROVE  b.at =< top' - Window + Jitter
<1> USE WindowAssumption
<1>1. /\ event = {} /\ at >= top - Jitter /\ top' = (IF at > top THEN at ELSE top)
      /\ ~Within(k, at)
  BY DEF EventInv, Claim, Hear
<1>2. b \in Settled /\ k \notin Pending
  BY <1>1 DEF Settled, Pending
<1>3. b.at \in Int /\ at \in Int /\ top \in Int /\ Window \in Int /\ Jitter \in Int
  BY DEF TypeOK, Times
<1>4. CASE k \in DOMAIN recentPlays
  <2>1. at - recentPlays[k] >= Window /\ recentPlays[k] \in Int
    BY <1>1, <1>4, OutsideLaw DEF TypeOK, Times
  <2>2. b.at =< recentPlays[k] + Jitter
    BY <1>2, <1>4 DEF BeatInv
  <2> QED BY <1>1, <1>3, <2>1, <2>2
<1>5. CASE k \notin DOMAIN recentPlays
  <2>1. top >= b.at + Window - Jitter
    BY <1>2, <1>5 DEF BeatInv
  <2> QED BY <1>1, <1>3, <2>1
<1> QED BY <1>4, <1>5

(* A heartbeat, within the window or not, keeps what the map remembers. *)
LEMMA BeatHear ==
    ASSUME 2 * Jitter < Window, PlayInv, BeatInv,
           NEW k \in Keys, NEW at \in Times, Renew(k, at) \/ Claim(k, at)
    PROVE  BeatInv'
<1> USE WindowAssumption
<1> DEFINE x == [key |-> k, at |-> at]
<1>1. /\ TypeOK /\ EventInv
      /\ event = {} /\ Pending = {} /\ Settled = heard
      /\ recentPlays' = Stamp(k, at) /\ heard' = heard \cup {x}
      /\ at >= top - Jitter /\ top' = (IF at > top THEN at ELSE top)
  BY DEF PlayInv, EventInv, Renew, Claim, Hear, Pending, Settled
<1>2. \/ Renew(k, at) /\ event' = {} /\ Pending' = {}
      \/ Claim(k, at) /\ event' = {x} /\ Pending' = {k}
  <2>1. Renew(k, at) => event' = {}
    BY <1>1 DEF Renew
  <2>2. Claim(k, at) => event' = {x}
    BY DEF Claim
  <2>3. event' = {} => Pending' = {}
    BY DEF Pending
  <2>4. event' = {x} => Pending' = {k}
    <3>1. x.key = k
      OBVIOUS
    <3> HIDE DEF x
    <3> QED BY <3>1 DEF Pending
  <2> QED BY <2>1, <2>2, <2>3, <2>4
<1>3. /\ at \in Int /\ top \in Int /\ top' \in Int /\ Window \in Int /\ Jitter \in Int
      /\ \A b \in heard : b.at \in Int /\ b.at =< top /\ b.key \in Keys
      /\ top' >= top /\ top' >= at /\ top' =< at + Jitter
  BY <1>1 DEF TypeOK, Times, BeatInv
<1>4. event' \subseteq heard'
  BY <1>1, <1>2
<1>5. \A b \in heard' : b.at =< top'
  BY <1>1, <1>3
<1>6. /\ k \in DOMAIN recentPlays' /\ recentPlays'[k] = at
      /\ \A j \in DOMAIN recentPlays' \ {k} :
           j \in DOMAIN recentPlays /\ recentPlays'[j] = recentPlays[j]
      /\ \A j \in DOMAIN recentPlays \ {k} :
           j \in DOMAIN recentPlays' \/ at - recentPlays[j] > Window
  BY <1>1, StampLaw
<1>7. \A j \in DOMAIN recentPlays' : [key |-> j, at |-> recentPlays'[j]] \in heard'
  BY <1>1, <1>6 DEF BeatInv
<1>8. ASSUME NEW b \in Settled'
      PROVE  IF b.key \in DOMAIN recentPlays' \ Pending'
             THEN b.at =< recentPlays'[b.key] + Jitter
             ELSE top' >= b.at + Window - Jitter
  <2>1. b \in heard'
    BY DEF Settled
  <2>2. CASE b.key # k
    <3>1. b \in heard /\ b.key \notin Pending'
      BY <1>1, <1>2, <2>1, <2>2
    <3>2. IF b.key \in DOMAIN recentPlays
          THEN b.at =< recentPlays[b.key] + Jitter /\ recentPlays[b.key] \in Int
          ELSE top >= b.at + Window - Jitter
      BY <1>1, <3>1 DEF BeatInv, TypeOK, Times
    <3> QED BY <1>3, <1>6, <2>2, <3>1, <3>2
  <2>3. CASE b.key = k /\ Renew(k, at) /\ Pending' = {}
    <3>1. b.at =< at + Jitter
      BY <1>1, <1>3, <2>1
    <3> QED BY <1>6, <2>3, <3>1
  <2>4. CASE b.key = k /\ Claim(k, at) /\ event' = {x} /\ Pending' = {k}
    <3>1. b \in heard
      BY <1>1, <2>1, <2>4 DEF Settled
    <3>2. b.at =< top' - Window + Jitter
      BY <1>1, <2>4, <3>1, ClaimedAfter
    <3> QED BY <1>3, <2>4, <3>1, <3>2
  <2> QED BY <1>2, <2>2, <2>3, <2>4
<1> QED BY <1>4, <1>5, <1>7, <1>8 DEF BeatInv

(* A claimed heartbeat is a new one, and later than those of its key. *)
LEMMA ClaimedIsNew ==
    ASSUME 2 * Jitter < Window, PlayInv, BeatInv,
           NEW k \in Keys, NEW at \in Times, Claim(k, at),
           NEW b \in heard, b.key = k
    PROVE  b.at < at
<1>1. TypeOK /\ EventInv
  BY DEF PlayInv
<1>2. b.at =< top' - Window + Jitter
  BY <1>1, ClaimedAfter
<1>3. at >= top - Jitter /\ top' = (IF at > top THEN at ELSE top)
  BY DEF Claim, Hear
<1>4. b.at \in Int /\ at \in Int /\ top \in Int /\ Window \in Int /\ Jitter \in Int
      /\ Jitter >= 0
  BY <1>1, WindowAssumption DEF TypeOK, Times
<1> QED BY <1>2, <1>3, <1>4

(* A heartbeat of a key keeps the chains: one that slides the window lengthens
   the chain of the stamp, one that came late falls between two links. *)
LEMMA CoverHear ==
    ASSUME 2 * Jitter < Window, PlayInv, BeatInv, CoverInv,
           NEW k \in Keys, NEW at \in Times, Renew(k, at)
    PROVE  CoverInv'
<1> USE WindowAssumption
<1> DEFINE x == [key |-> k, at |-> at]
<1>1. /\ TypeOK /\ EventInv /\ RowInv
      /\ event = {} /\ event' = {}
      /\ heard' = heard \cup {x} /\ at >= top - Jitter
      /\ UNCHANGED <<rows, swept, life>>
  BY DEF PlayInv, EventInv, Renew, Hear
<1>2. Ever' = Ever /\ Settled = heard /\ Settled' = heard \cup {x} /\ life' = life
  BY <1>1 DEF Ever, Settled
<1>3. /\ at \in Int /\ top \in Int /\ Window \in Int /\ Jitter \in Int
      /\ \A b \in heard : b.at \in Int /\ b.at =< top
      /\ \A p \in Ever : p.at \in Int /\ p.at =< top
  BY <1>1 DEF TypeOK, Times, BeatInv, RowInv, Ever, Rows
<1>4. ASSUME NEW b \in heard, NEW p \in Ever, Bridged(b.key, p.at, b.at)
      PROVE  Bridged(b.key, p.at, b.at)'
  <2> SUFFICES ASSUME NEW c \in Settled', c.key = b.key, p.at =< c.at, c.at < b.at
               PROVE  \E d \in Settled' : /\ d.key = b.key /\ c.at < d.at
                                          /\ d.at =< b.at /\ d.at - c.at < Window
    BY DEF Bridged
  <2>1. CASE c \in heard
    <3>1. PICK d \in heard : /\ d.key = b.key /\ c.at < d.at
                             /\ d.at =< b.at /\ d.at - c.at < Window
      BY <1>2, <1>4, <2>1 DEF Bridged
    <3> QED BY <1>2, <3>1
  <2>2. CASE c = x
    <3>1. b.at - at < Window /\ c.at = at
      BY <1>1, <1>3, <2>2
    <3>2. b \in Settled' /\ b.at =< b.at
      BY <1>2, <1>3
    <3> QED BY <3>1, <3>2
  <2> QED BY <1>2, <2>1, <2>2
<1>5. \A b \in heard : \E p \in Ever :
        p.life = life /\ p.key = b.key /\ p.at =< b.at + Jitter /\ Bridged(b.key, p.at, b.at)'
  BY <1>2, <1>4 DEF CoverInv
<1>6. \E d \in Settled' : d.key = k /\ d.at = at
  <2>1. x \in Settled' /\ x.key = k /\ x.at = at
    BY <1>2
  <2> HIDE DEF x
  <2> QED BY <2>1
<1>7. \E p \in Ever : p.life = life /\ p.key = k /\ p.at =< at + Jitter /\ Bridged(k, p.at, at)'
  <2> DEFINE s == recentPlays[k]
  <2>1. k \in DOMAIN recentPlays /\ at - s < Window
    BY DEF Renew, Within, Purged, Restrict
  <2>2. [key |-> k, at |-> s] \in heard /\ s \in Int
    BY <1>1, <2>1 DEF BeatInv, TypeOK, Times
  <2>3. PICK p \in Ever : p.life = life /\ p.key = k /\ Bridged(k, p.at, s)
    BY <1>2, <2>2 DEF CoverInv
  <2>4. p.at =< at + Jitter
    BY <1>1, <1>3
  <2>5. Bridged(k, p.at, at)'
    <3> SUFFICES ASSUME NEW c \in Settled', c.key = k, p.at =< c.at, c.at < at
                 PROVE  \E d \in Settled' : /\ d.key = k /\ c.at < d.at
                                            /\ d.at =< at /\ d.at - c.at < Window
      BY DEF Bridged
    <3>1. c \in heard /\ c.at \in Int
      BY <1>2, <1>3
    <3>2. CASE c.at < s
      <4>1. PICK d \in heard : d.key = k /\ c.at < d.at /\ d.at =< s /\ d.at - c.at < Window
        BY <1>2, <2>3, <3>1, <3>2 DEF Bridged
      <4>2. CASE d.at =< at
        BY <1>2, <4>1, <4>2
      <4>3. CASE d.at > at
        <5>1. at - c.at < Window
          BY <1>3, <3>1, <4>1, <4>3
        <5> QED BY <1>3, <1>6, <5>1
      <4>4. d.at \in Int
        BY <1>3
      <4> QED BY <1>3, <4>2, <4>3, <4>4
    <3>3. CASE c.at >= s
      <4>1. at - c.at < Window
        BY <1>3, <2>1, <2>2, <3>1, <3>3
      <4> QED BY <1>3, <1>6, <4>1
    <3> QED BY <2>2, <3>1, <3>2, <3>3
  <2> QED BY <2>3, <2>4, <2>5
<1>8. ASSUME NEW b \in Settled'
      PROVE  \E p \in Ever' : p.life = life' /\ p.key = b.key
                              /\ p.at =< b.at + Jitter /\ Bridged(b.key, p.at, b.at)'
  <2>1. CASE b \in heard
    BY <1>2, <1>5, <2>1
  <2>2. CASE b = x
    <3>1. b.key = k /\ b.at = at
      BY <2>2
    <3> QED BY <1>2, <1>7, <3>1
  <2> QED BY <1>2, <2>1, <2>2
<1> QED BY <1>8 DEF CoverInv

(* A heartbeat keeps the rest: what is settled stays, and a line that comes
   late does not come late enough to fall into a pause. *)
LEMMA ViewingHear ==
    ASSUME 2 * Jitter < Window, PlayInv, ViewingInv,
           NEW k \in Keys, NEW at \in Times, Renew(k, at) \/ Claim(k, at)
    PROVE  ViewingInv'
<1> USE WindowAssumption
<1> DEFINE x == [key |-> k, at |-> at]
<1>1. /\ TypeOK /\ EventInv /\ RowInv /\ BeatInv /\ PlayedInv /\ GapInv /\ CoverInv
      /\ event = {} /\ Settled = heard
      /\ heard' = heard \cup {x} /\ at >= top - Jitter
      /\ top' = (IF at > top THEN at ELSE top)
      /\ UNCHANGED <<rows, swept, life>>
  BY DEF PlayInv, ViewingInv, EventInv, Renew, Claim, Hear, Settled
<1>2. Ever' = Ever
  BY <1>1 DEF Ever
<1>3. /\ at \in Int /\ top \in Int /\ top' \in Int /\ Window \in Int /\ Jitter \in Int
      /\ Jitter >= 0 /\ Pause \in Int
      /\ top' >= top /\ top' =< at + Jitter
      /\ \A b \in heard : b.at \in Int /\ b.at =< top
      /\ \A p \in Ever : p.at \in Int /\ p.at =< top
  BY <1>1 DEF TypeOK, Times, BeatInv, RowInv, Ever, Rows, Pause
<1>4. heard \subseteq Settled' /\ Settled' \subseteq heard \cup {x}
  <2>1. CASE Renew(k, at)
    BY <1>1, <2>1 DEF Renew, Settled
  <2>2. CASE Claim(k, at)
    <3>1. x \notin heard
      <4>1. x.key = k /\ x.at = at
        OBVIOUS
      <4>2. x \in heard => x.at < at
        BY <1>1, <2>2, <4>1, ClaimedIsNew
      <4> QED BY <1>3, <4>1, <4>2
    <3> QED BY <1>1, <2>2, <3>1 DEF Claim, Settled
  <2> QED BY <2>1, <2>2
<1>5. BeatInv'
  BY <1>1, BeatHear
<1>6. PlayedInv'
  BY <1>1, <1>2, <1>4 DEF PlayedInv
<1>7. ASSUME NEW q \in Ever, q.life = life
      PROVE  \E t \in Int :
               /\ t =< q.at /\ t =< top' - Jitter
               /\ \A b \in heard' : b.key = q.key => b.at =< t - Pause \/ b.at >= t
               /\ \A p \in Ever : p.life = life /\ p.key = q.key /\ p.id < q.id => p.at =< t - Pause
  <2>1. PICK t \in Int :
               /\ t =< q.at /\ t =< top - Jitter
               /\ \A b \in heard : b.key = q.key => b.at =< t - Pause \/ b.at >= t
               /\ \A p \in Ever : p.life = life /\ p.key = q.key /\ p.id < q.id => p.at =< t - Pause
    BY <1>1, <1>7 DEF GapInv
  <2>2. t =< top' - Jitter /\ at >= t
    BY <1>1, <1>3, <2>1
  <2>3. \A b \in heard' : b.key = q.key => b.at =< t - Pause \/ b.at >= t
    BY <1>1, <2>1, <2>2
  <2> QED BY <2>1, <2>2, <2>3
<1>8. ASSUME NEW e \in event'
      PROVE  \E t \in Int :
               /\ t =< e.at /\ t =< top' - Jitter
               /\ \A b \in Settled' : b.key = e.key => b.at =< t - Pause
  <2>1. Claim(k, at) /\ event' = {x} /\ e = x
    BY <1>1, <1>8 DEF Renew, Claim
  <2>2. e.key = k /\ e.at = at /\ Settled' = heard' \ {x}
    BY <2>1 DEF Settled
  <2>3. \A b \in Settled' : b \in heard
    BY <1>1, <2>2
  <2>4. \A b \in heard : b.key = k => b.at =< top' - Window + Jitter
    BY <1>1, <2>1, ClaimedAfter
  <2>5. /\ top' - Jitter \in Int /\ top' - Jitter =< at
        /\ top' - Jitter - Pause = top' - Window + Jitter
    <3>1. top' \in Int /\ at \in Int /\ Jitter \in Int /\ Window \in Int /\ top' =< at + Jitter
      BY <1>3
    <3>2. 2 * Jitter = Jitter + Jitter
      BY <3>1
    <3>3. \A m, n, j \in Int : m =< n + j => m - j \in Int /\ m - j =< n
      OBVIOUS
    <3>5. top' - Jitter \in Int /\ top' - Jitter =< at
      BY <3>1, <3>3
    <3>4. top' - Jitter - Pause = top' - Window + Jitter
      BY <3>1, <3>2 DEF Pause
    <3> QED BY <3>4, <3>5
  <2>6. PICK t \in Int : t = top' - Jitter
    BY <2>5
  <2>7. t =< top' - Jitter
    BY <2>6
  <2> QED BY <2>2, <2>3, <2>4, <2>5, <2>6, <2>7
<1>9. GapInv'
  BY <1>1, <1>2, <1>7, <1>8 DEF GapInv
<1>10. CoverInv'
  <2>1. CASE Renew(k, at)
    BY <1>1, <2>1, CoverHear
  <2>2. CASE Claim(k, at)
    <3>1. Settled' = Settled
      BY <1>1, <1>4, <2>2 DEF Claim, Settled
    <3> QED BY <1>1, <1>2, <3>1 DEF CoverInv, Bridged
  <2> QED BY <2>1, <2>2
<1> QED BY <1>5, <1>6, <1>9, <1>10 DEF ViewingInv

(* A claimed heartbeat is later than the settled ones of its key. *)
LEMMA EventIsLast ==
    ASSUME 2 * Jitter < Window, TypeOK, EventInv, GapInv, BeatInv,
           NEW e \in event, NEW b \in Settled, b.key = e.key
    PROVE  b.at < e.at /\ b.at =< top
<1> USE WindowAssumption
<1>1. PICK t \in Int : t =< e.at /\ b.at =< t - Pause
  BY DEF GapInv
<1>2. e.at \in Int /\ b.at \in Int /\ Pause \in Int /\ Pause > 0
  <2>1. b \in heard /\ Window \in Int /\ Jitter \in Int
    BY DEF Settled
  <2> QED BY <2>1 DEF TypeOK, Times, Pause
<1>3. b.at =< top
  BY DEF Settled, BeatInv
<1> QED BY <1>1, <1>2, <1>3

(* The insert settles the claim: its heartbeat is the play. *)
LEMMA ViewingInsert ==
    ASSUME 2 * Jitter < Window, PlayInv, ViewingInv, Insert
    PROVE  ViewingInv'
<1> USE WindowAssumption
<1> DEFINE Row(e) == [id |-> nextId, key |-> e.key, at |-> e.at, life |-> life]
<1>1. /\ TypeOK /\ EventInv /\ RowInv /\ BeatInv /\ PlayedInv /\ GapInv /\ CoverInv
      /\ event' = {} /\ UNCHANGED <<recentPlays, life, top, heard, swept>>
      /\ rows' = rows \cup {Row(e) : e \in event}
  BY DEF PlayInv, ViewingInv, Insert, playHistory
<1>2. Ever' = Ever \cup {Row(e) : e \in event}
  BY <1>1 DEF Ever
<1>3. Settled' = heard /\ Settled = heard \ event /\ event \subseteq heard
  BY <1>1 DEF Settled, BeatInv
<1>4. /\ \A b \in heard : b.at \in Int /\ b.at =< top
      /\ \A e \in event : e.at \in Int /\ e = [key |-> e.key, at |-> e.at]
      /\ top \in Int /\ Jitter \in Int /\ Jitter >= 0 /\ Pause \in Int /\ nextId \in Int
      /\ \A p \in Ever : p.id < nextId /\ p.id \in Int /\ p.at \in Int
  BY <1>1 DEF TypeOK, Times, BeatInv, Pause, RowInv, Ever, Rows
<1>5. \A e \in event : \A b \in heard : b.key = e.key /\ b \notin event => b.at < e.at
  BY <1>1, <1>3, EventIsLast
<1>6. \A e, b \in event : b.key = e.key => b.at = e.at
  BY <1>1 DEF EventInv
<1>7. BeatInv'
  <2>1. Pending' = {}
    BY <1>1 DEF Pending
  <2>2. ASSUME NEW b \in heard
        PROVE  IF b.key \in DOMAIN recentPlays
               THEN b.at =< recentPlays[b.key] + Jitter
               ELSE top >= b.at + Window - Jitter
    <3>1. CASE b \in event
      <4>1. b.key \in DOMAIN recentPlays /\ recentPlays[b.key] = b.at
        BY <1>1, <3>1 DEF EventInv
      <4> QED BY <1>4, <4>1
    <3>2. CASE b \notin event /\ b.key \in Pending
      <4>1. PICK e \in event : e.key = b.key
        BY <3>2 DEF Pending
      <4>2. e.key \in DOMAIN recentPlays /\ recentPlays[e.key] = e.at
        BY <1>1 DEF EventInv
      <4>3. b.at < e.at
        BY <1>5, <3>2, <4>1
      <4> QED BY <1>4, <4>1, <4>2, <4>3
    <3>3. CASE b \notin event /\ b.key \notin Pending
      BY <1>1, <1>3, <3>3 DEF BeatInv
    <3> QED BY <3>1, <3>2, <3>3
  <2> QED BY <1>1, <1>3, <2>1, <2>2 DEF BeatInv
<1>8. PlayedInv'
  <2>1. \A e \in event : Row(e).key = e.key /\ Row(e).at = e.at
    OBVIOUS
  <2>2. \A p \in Ever' : p \in Ever \/ \E e \in event : p.key = e.key /\ p.at = e.at
    BY <1>2, <2>1
  <2> QED BY <1>1, <1>3, <1>4, <2>2 DEF PlayedInv
<1>9. ASSUME NEW q \in Ever', q.life = life
      PROVE  \E t \in Int :
               /\ t =< q.at /\ t =< top - Jitter
               /\ \A b \in heard : b.key = q.key => b.at =< t - Pause \/ b.at >= t
               /\ \A p \in Ever' : p.life = life /\ p.key = q.key /\ p.id < q.id => p.at =< t - Pause
  <2>1. \A p \in Ever' : p \in Ever \/ (p.id = nextId /\ \E e \in event : p.key = e.key /\ p.at = e.at)
    BY <1>2
  <2>2. CASE q \in Ever
    <3>1. \A p \in Ever' : p.id < q.id => p \in Ever
      BY <1>4, <2>1, <2>2
    <3>2. PICK t \in Int :
               /\ t =< q.at /\ t =< top - Jitter
               /\ \A b \in heard : b.key = q.key => b.at =< t - Pause \/ b.at >= t
               /\ \A p \in Ever : p.life = life /\ p.key = q.key /\ p.id < q.id => p.at =< t - Pause
      BY <1>1, <1>9, <2>2 DEF GapInv
    <3> QED BY <3>1, <3>2
  <2>3. CASE q.id = nextId /\ \E e \in event : q.key = e.key /\ q.at = e.at
    <3>1. PICK e \in event : q.key = e.key /\ q.at = e.at
      BY <2>3
    <3>2. PICK t \in Int :
               /\ t =< e.at /\ t =< top - Jitter
               /\ \A b \in Settled : b.key = e.key => b.at =< t - Pause
      BY <1>1 DEF GapInv
    <3>3. \A b \in heard : b.key = q.key => b.at =< t - Pause \/ b.at >= t
      BY <1>3, <1>6, <3>1, <3>2
    <3>4. ASSUME NEW p \in Ever', p.life = life, p.key = q.key, p.id < q.id
          PROVE  p.at =< t - Pause
      <4>1. p \in Ever
        BY <1>4, <2>1, <2>3, <3>4
      <4>2. [key |-> p.key, at |-> p.at] \in Settled
        BY <1>1, <3>4, <4>1 DEF PlayedInv
      <4> QED BY <3>1, <3>2, <3>4, <4>2
    <3> QED BY <3>1, <3>2, <3>3, <3>4
  <2> QED BY <2>1, <2>2, <2>3
<1>10. GapInv'
  BY <1>1, <1>9 DEF GapInv
<1>11. ASSUME NEW b \in heard
       PROVE  \E p \in Ever' : p.life = life /\ p.key = b.key
                               /\ p.at =< b.at + Jitter /\ Bridged(b.key, p.at, b.at)'
  <2>1. CASE b \in event
    <3>1. Row(b) \in Ever' /\ Row(b).life = life /\ Row(b).key = b.key /\ Row(b).at = b.at
      BY <1>2, <2>1
    <3>2. Bridged(b.key, b.at, b.at)'
      BY <1>3, <1>4 DEF Bridged
    <3>3. b.at =< b.at + Jitter
      BY <1>4
    <3> HIDE DEF Row
    <3> QED BY <3>1, <3>2, <3>3
  <2>2. CASE b \notin event
    <3>1. PICK p \in Ever : p.life = life /\ p.key = b.key
                            /\ p.at =< b.at + Jitter /\ Bridged(b.key, p.at, b.at)
      BY <1>1, <1>3, <2>2 DEF CoverInv
    <3>2. ASSUME NEW c \in heard, c.key = b.key, p.at =< c.at, c.at < b.at
          PROVE  \E d \in heard : /\ d.key = b.key /\ c.at < d.at
                                  /\ d.at =< b.at /\ d.at - c.at < Window
      <4>1. c \notin event
        BY <1>4, <1>5, <2>2, <3>2
      <4> QED BY <1>3, <3>1, <3>2, <4>1 DEF Bridged
    <3>3. Bridged(b.key, p.at, b.at)'
      BY <1>3, <3>2 DEF Bridged
    <3> QED BY <1>2, <3>1, <3>3
  <2> QED BY <2>1, <2>2
<1>12. CoverInv'
  BY <1>1, <1>3, <1>11 DEF CoverInv
<1> QED BY <1>7, <1>8, <1>10, <1>12 DEF ViewingInv

(* What a failed insert takes back was not settled, so what was stays. *)
LEMMA ViewingInsertFails ==
    ASSUME 2 * Jitter < Window, PlayInv, ViewingInv, InsertFails
    PROVE  ViewingInv'
<1>1. /\ TypeOK /\ BeatInv /\ PlayedInv /\ GapInv /\ CoverInv
      /\ event' = {} /\ heard' = heard \ event
      /\ recentPlays' = Restrict(recentPlays, DOMAIN recentPlays \ Pending)
      /\ UNCHANGED <<rows, life, top, swept>>
  BY DEF PlayInv, ViewingInv, InsertFails, Pending
<1>2. Ever' = Ever /\ Settled' = Settled /\ Pending' = {} /\ heard' = Settled
  BY <1>1 DEF Ever, Settled, Pending
<1>3. /\ DOMAIN recentPlays' = DOMAIN recentPlays \ Pending
      /\ \A k \in DOMAIN recentPlays' : recentPlays'[k] = recentPlays[k]
  BY <1>1 DEF Restrict
<1>4. BeatInv'
  <2>1. ASSUME NEW k \in DOMAIN recentPlays'
        PROVE  [key |-> k, at |-> recentPlays'[k]] \in heard'
    <3> DEFINE x == [key |-> k, at |-> recentPlays[k]]
    <3>1. x \in heard /\ x.key = k
      BY <1>1, <1>3 DEF BeatInv
    <3>2. x \notin event
      <4> HIDE DEF x
      <4> QED BY <1>3, <3>1 DEF Pending
    <3> QED BY <1>1, <1>3, <3>1, <3>2
  <2>2. \A b \in heard' : b.at =< top'
    BY <1>1 DEF BeatInv
  <2>3. ASSUME NEW b \in Settled'
        PROVE  IF b.key \in DOMAIN recentPlays' \ Pending'
               THEN b.at =< recentPlays'[b.key] + Jitter
               ELSE top' >= b.at + Window - Jitter
    BY <1>1, <1>2, <1>3 DEF BeatInv
  <2> QED BY <1>1, <2>1, <2>2, <2>3 DEF BeatInv
<1>5. PlayedInv' /\ CoverInv'
  BY <1>1, <1>2 DEF PlayedInv, CoverInv, Bridged
<1>6. GapInv'
  <2>1. \A b \in heard' : b \in heard
    BY <1>1
  <2> QED BY <1>1, <1>2, <2>1 DEF GapInv
<1> QED BY <1>4, <1>5, <1>6 DEF ViewingInv

(* The retention sweep moves rows and no more; a new life has heard nothing. *)
LEMMA ViewingElse ==
    ASSUME PlayInv, ViewingInv,
           (\E cutoff \in 1 .. DateOf(MaxTime) : PrunePlays(cutoff)) \/ Restart
           \/ UNCHANGED playVars
    PROVE  ViewingInv'
<1>1. TypeOK /\ RowInv /\ BeatInv /\ PlayedInv /\ GapInv /\ CoverInv
  BY DEF PlayInv, ViewingInv
<1>2. CASE \E cutoff \in 1 .. DateOf(MaxTime) : PrunePlays(cutoff)
  <2>1. UNCHANGED <<recentPlays, event, life, top, heard>> /\ Ever' = Ever
    BY <1>2 DEF PrunePlays, tailing, Ever
  <2>2. Settled' = Settled /\ Pending' = Pending
    BY <2>1 DEF Settled, Pending
  <2> QED BY <1>1, <2>1, <2>2 DEF ViewingInv, BeatInv, PlayedInv, GapInv, CoverInv, Bridged
<1>3. CASE Restart
  <2>1. /\ event' = {} /\ heard' = {} /\ life' = life + 1 /\ DOMAIN recentPlays' = {}
        /\ UNCHANGED <<rows, top, swept>>
    BY <1>3 DEF Restart, NoPlays
  <2>2. Settled' = {} /\ Ever' = Ever
    BY <2>1 DEF Settled, Ever
  <2>3. \A p \in Ever' : p.life # life'
    BY <1>1, <2>1, <2>2 DEF RowInv, TypeOK, Ever, Rows
  <2> QED BY <2>1, <2>2, <2>3 DEF ViewingInv, BeatInv, PlayedInv, GapInv, CoverInv
<1>4. CASE UNCHANGED playVars
  <2>1. UNCHANGED <<recentPlays, event, life, top, heard, rows, swept>>
    BY <1>4 DEF playVars, tailing, playHistory
  <2>2. Settled' = Settled /\ Pending' = Pending /\ Ever' = Ever
    BY <2>1 DEF Settled, Pending, Ever
  <2> QED BY <1>1, <2>1, <2>2 DEF ViewingInv, BeatInv, PlayedInv, GapInv, CoverInv, Bridged
<1> QED BY <1>2, <1>3, <1>4

(* The invariant of viewings holds of the recorder: what each heartbeat left in the map, and what led
   to each play. *)
THEOREM ViewingInvariant ==
    ASSUME 2 * Jitter < Window
    PROVE  Spec => [](PlayInv /\ ViewingInv)
<1>1. Init => ViewingInv
  BY DEF Init, ViewingInv, BeatInv, PlayedInv, GapInv, CoverInv, Settled, Ever, NoPlays
<1>2. ASSUME PlayInv, ViewingInv, [Next]_playVars
      PROVE  ViewingInv'
  <2>1. CASE \E k \in Keys, at \in Times : Renew(k, at) \/ Claim(k, at)
    BY <1>2, <2>1, ViewingHear
  <2>2. CASE Insert
    BY <1>2, <2>2, ViewingInsert
  <2>3. CASE InsertFails
    BY <1>2, <2>3, ViewingInsertFails
  <2> QED BY <1>2, <2>1, <2>2, <2>3, ViewingElse DEF Next, RecordPlay
<1>3. Spec => []PlayInv
  BY PlayInvariant
<1> QED BY <1>1, <1>2, <1>3, PTL DEF Spec

(* Continuous watching counts once: between two plays of a key of one life
   there was a pause in its heartbeats, as long as the window less twice the
   disorder of the log.  The pause is the one the claim of the second play
   found; the latest heartbeat before it has no successor near enough. *)
THEOREM ViewingsCountOnce ==
    ASSUME 2 * Jitter < Window
    PROVE  Spec => []OneRowPerViewing
<1>1. ASSUME PlayInv, ViewingInv
      PROVE  OneRowPerViewing
  <2> SUFFICES ASSUME NEW k \in Keys, NEW p \in Plays(k), NEW q \in Plays(k), p.id < q.id,
                      Watched(k, p.at, q.at, Window - 2 * Jitter)
               PROVE  FALSE
    BY DEF OneRowPerViewing
  <2>1. /\ p \in Ever /\ p.life = life /\ p.key = k
        /\ q \in Ever /\ q.life = life /\ q.key = k
    BY DEF Plays, Ever
  <2>2. PICK t \in Int :
          /\ t =< q.at
          /\ \A b \in heard : b.key = k => b.at =< t - Pause \/ b.at >= t
          /\ p.at =< t - Pause
    BY <1>1, <2>1 DEF ViewingInv, GapInv
  <2>3. /\ Beats(k) \subseteq Times /\ p.at \in Times /\ q.at \in Times
        /\ Pause \in Int /\ Pause > 0
    BY <1>1, <2>1, WindowAssumption DEF PlayInv, TypeOK, Beats, Ever, Rows, Pause
  <2>4. p.at \in Beats(k)
    <3>1. [key |-> p.key, at |-> p.at] \in heard
      BY <1>1, <2>1 DEF ViewingInv, PlayedInv, Settled
    <3> QED BY <2>1, <3>1 DEF Beats
  <2>5. \A b \in Beats(k) : b =< t - Pause \/ b >= t
    BY <2>2 DEF Beats
  <2> DEFINE T == {b \in Beats(k) : p.at =< b /\ b =< t - Pause}
  <2>6. PICK m \in T : \A n \in T : n =< m
    <3>1. T \subseteq Times /\ p.at \in T
      BY <2>2, <2>3, <2>4 DEF Times
    <3> HIDE DEF T
    <3> QED BY <3>1, Latest
  <2>7. m \in Beats(k) /\ m \in Int /\ p.at =< m /\ m < q.at /\ q.at \in Int
    BY <2>2, <2>3 DEF Times
  <2>8. PICK c \in Beats(k) : m < c /\ c =< q.at /\ c - m < Pause
    BY <2>7 DEF Watched, Pause
  <2>9. c \in Int /\ p.at \in Int
    BY <2>3 DEF Times
  <2>10. CASE c =< t - Pause
    BY <2>6, <2>7, <2>8, <2>9, <2>10
  <2>11. CASE c >= t
    BY <2>2, <2>3, <2>6, <2>7, <2>8, <2>9, <2>11
  <2> QED BY <2>5, <2>10, <2>11
<1>2. Spec => [](PlayInv /\ ViewingInv)
  BY ViewingInvariant
<1> QED BY <1>1, <1>2, PTL

(* No claim is left behind: each heartbeat of the life but the one whose insert
   is pending belongs to a play of its key, from which heartbeats lead to it
   with no window between two of them, whatever inserts failed before it. *)
THEOREM BeatsAreCounted ==
    ASSUME 2 * Jitter < Window
    PROVE  Spec => []EveryBeatCounted
<1>1. ASSUME PlayInv, ViewingInv
      PROVE  EveryBeatCounted
  <2> SUFFICES ASSUME NEW b \in heard, b \notin event
               PROVE  \E p \in Plays(b.key) :
                        p.at =< b.at + Jitter /\ Watched(b.key, p.at, b.at, Window)
    BY DEF EveryBeatCounted
  <2>1. b \in Settled
    BY DEF Settled
  <2>2. PICK p \in Ever : /\ p.life = life /\ p.key = b.key /\ p.at =< b.at + Jitter
                          /\ Bridged(b.key, p.at, b.at)
    BY <1>1, <2>1 DEF ViewingInv, CoverInv
  <2>3. p \in Plays(b.key)
    BY <2>2 DEF Plays, Ever
  <2>4. ASSUME NEW a \in Beats(b.key), p.at =< a, a < b.at
        PROVE  \E d \in Beats(b.key) : a < d /\ d =< b.at /\ d - a < Window
    <3>1. PICK c \in heard : c.key = b.key /\ c.at = a
      BY DEF Beats
    <3>2. c \notin event
      <4>1. c \in event => b.at < c.at
        BY <1>1, <2>1, <3>1, EventIsLast DEF PlayInv, ViewingInv
      <4>2. b.at \in Int /\ c.at \in Int
        BY <1>1, <3>1 DEF PlayInv, TypeOK, Times
      <4> QED BY <2>4, <3>1, <4>1, <4>2
    <3>3. PICK d \in Settled : /\ d.key = b.key /\ c.at < d.at
                               /\ d.at =< b.at /\ d.at - c.at < Window
      BY <2>2, <2>4, <3>1, <3>2 DEF Bridged, Settled
    <3>4. d.at \in Beats(b.key)
      BY <3>3 DEF Beats, Settled
    <3> QED BY <3>1, <3>3, <3>4
  <2>5. Watched(b.key, p.at, b.at, Window)
    BY <2>4 DEF Watched
  <2> QED BY <2>2, <2>3, <2>5
<1>2. Spec => [](PlayInv /\ ViewingInv)
  BY ViewingInvariant
<1> QED BY <1>1, <1>2, PTL

====
