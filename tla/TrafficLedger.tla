--------------------------- MODULE TrafficLedger ---------------------------
(***************************************************************************)
(* What internal/store promises about traffic, with no buffer, lock,       *)
(* batch or transaction.  A line that was counted is pending until it is   *)
(* stored, once and for good; what dies with the process is only what was  *)
(* pending; the sweep takes only whole days that are old enough; and a     *)
(* reader is told every stored line of its day, perhaps some pending ones, *)
(* and no line twice.                                                      *)
(***************************************************************************)
EXTENDS Integers

CONSTANTS
    Requests, Dates, DateOf(_), Readers, FirstDay, Retention

VARIABLES
    day,      \* the business day
    pending,  \* counted, not yet in the database
    stored,   \* in the database
    gone,     \* lost with the process, or swept
    told      \* what a reader was told: how often each line of its day counts

vars == <<day, pending, stored, gone, told>>

Silent == [q \in Requests |-> 0]

Init ==
    /\ day = FirstDay
    /\ pending = {}
    /\ stored = {}
    /\ gone = {}
    /\ told = [r \in Readers |-> Silent]

Count(q) ==
    /\ q \notin pending \cup stored \cup gone
    /\ pending' = pending \cup {q}
    /\ UNCHANGED <<day, stored, gone, told>>

(* A flush stores some of the pending lines, in one step. *)
Store(S) ==
    /\ S \subseteq pending
    /\ pending' = pending \ S
    /\ stored' = stored \cup S
    /\ UNCHANGED <<day, gone, told>>

(* The sweep of a cutoff that was right today or the day before. *)
Sweep(c) ==
    /\ c \in {day - Retention, day - Retention - 1}
    /\ LET old == {q \in stored : DateOf(q) < c}
       IN  stored' = stored \ old /\ gone' = gone \cup old
    /\ UNCHANGED <<day, pending, told>>

(* The process dies. *)
Forget ==
    /\ pending' = {}
    /\ gone' = gone \cup pending
    /\ told' = [r \in Readers |-> Silent]
    /\ UNCHANGED <<day, stored>>

(* A reader that asked on day d, today or yesterday, is answered. *)
Tell(r, d, S) ==
    /\ told[r] = Silent
    /\ d \in {day, day - 1}
    /\ {q \in stored : DateOf(q) = d} \subseteq S
    /\ S \subseteq {q \in stored \cup pending : DateOf(q) = d}
    /\ told' = [told EXCEPT ![r] = [q \in Requests |-> IF q \in S THEN 1 ELSE 0]]
    /\ UNCHANGED <<day, pending, stored, gone>>

Hush(r) ==
    /\ told' = [told EXCEPT ![r] = Silent]
    /\ UNCHANGED <<day, pending, stored, gone>>

NextDay ==
    /\ day + 1 \in Dates
    /\ day' = day + 1
    /\ UNCHANGED <<pending, stored, gone, told>>

Next ==
    \/ \E q \in Requests : Count(q)
    \/ \E S \in SUBSET pending : Store(S)
    \/ \E c \in {day - Retention, day - Retention - 1} : Sweep(c)
    \/ Forget
    \/ \E r \in Readers, d \in {day, day - 1}, S \in SUBSET Requests : Tell(r, d, S)
    \/ \E r \in Readers : Hush(r)
    \/ NextDay

Spec == Init /\ [][Next]_vars

====
