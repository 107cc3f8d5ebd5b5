---------------------------- MODULE TrendQuery ----------------------------
(***************************************************************************)
(* Store.Trend: the figures of the last days, today included.  It reads    *)
(* the clock for today, for the first day, once for each day of the map it *)
(* fills, and once more for each day of the answer; in between it waits    *)
(* for the database and asks it for the days from the first to today.      *)
(* Midnight may pass at any point, and lines are counted meanwhile.        *)
(***************************************************************************)
EXTENDS Integers, Sequences

CONSTANTS
    MaxDays,    \* what days is cut to
    MaxAsked,   \* bound: what a client asks for, 0 .. MaxAsked
    LastDay     \* bound: days 1 .. LastDay of the clock

ASSUME TrendAssumption ==
    MaxDays \in Nat \ {0} /\ LastDay \in Nat \ {0} /\ MaxAsked \in Nat

TrendDays == 1 - MaxDays .. LastDay

VARIABLES
    day,       \* the day of the clock
    stored,    \* the days that have rows
    trend      \* the call: its step and its local variables; history: the rows
               \* there were when it asked, and whether midnight passed

trendVars == <<day, stored, trend>>

NoTrend == [pc |-> "idle"]
Calls ==
    [pc : {"start", "fill", "query", "answer", "done", "panic"}, days : 1 .. MaxDays,
     today : TrendDays, start : TrendDays, i : 0 .. MaxDays, byDate : SUBSET TrendDays,
     found : SUBSET TrendDays, out : Seq(TrendDays), rows : SUBSET TrendDays, midnight : BOOLEAN]

TrendTypeOK ==
    /\ day \in 1 .. LastDay
    /\ stored \subseteq TrendDays
    /\ trend = NoTrend \/ trend \in Calls

TrendInit ==
    /\ day = 1
    /\ stored \in SUBSET (1 - MaxDays .. 1)
    /\ trend = NoTrend

DoesNow(step) == trend.pc = step

-----------------------------------------------------------------------------
CutTo(days) == IF days < 1 THEN 1 ELSE IF days > MaxDays THEN MaxDays ELSE days

(* The call, and its first reading of the clock. *)
AskTrend(days) ==
    /\ DoesNow("idle")
    /\ trend' = [pc |-> "start", days |-> CutTo(days), today |-> day, start |-> day, i |-> 0,
                 byDate |-> {}, found |-> {}, out |-> <<>>, rows |-> {}, midnight |-> FALSE]
    /\ UNCHANGED <<day, stored>>

ReadStart ==
    /\ DoesNow("start")
    /\ trend' = [trend EXCEPT !.pc = "fill", !.start = day - (trend.days - 1)]
    /\ UNCHANGED <<day, stored>>

(* One turn of the loop that fills the map, which reads the clock. *)
FillMap ==
    /\ DoesNow("fill")
    /\ trend' = [trend EXCEPT !.byDate = @ \cup {day - trend.i},
                              !.i = @ + 1,
                              !.pc = IF trend.i + 1 = trend.days THEN "query" ELSE "fill"]
    /\ UNCHANGED <<day, stored>>

(* Mutant: the first day is left out. *)
FoundAfter == {d \in stored \cap trend.byDate : trend.start < d /\ d =< trend.today}

(* Mutant: a day too many is asked of the map. *)
LastIndexOff == trend.days

Found == {d \in stored \cap trend.byDate : trend.start =< d /\ d =< trend.today}
LastIndex == trend.days - 1

(* Both queries, under the database lock. *)
QueryTrend ==
    /\ DoesNow("query")
    /\ trend' = [trend EXCEPT !.found = Found, !.rows = stored, !.i = LastIndex, !.pc = "answer"]
    /\ UNCHANGED <<day, stored>>

(* One turn of the loop that makes the answer, which reads the clock again; a
   day that is not in the map is a nil pointer. *)
AnswerPoint ==
    LET date == day - trend.i
    IN  /\ DoesNow("answer")
        /\ trend' = IF date \notin trend.byDate THEN [trend EXCEPT !.pc = "panic"]
                    ELSE [trend EXCEPT !.out = Append(@, date),
                                       !.i = IF trend.i = 0 THEN 0 ELSE @ - 1,
                                       !.pc = IF trend.i = 0 THEN "done" ELSE "answer"]
        /\ UNCHANGED <<day, stored>>

(* The handler answers; 503 after an error of the database; the HTTP server
   recovers from a panic and cuts the connection. *)
TrendReturns ==
    /\ DoesNow("done") \/ DoesNow("panic") \/ DoesNow("query")
    /\ trend' = NoTrend
    /\ UNCHANGED <<day, stored>>

(* Lines of the day are stored. *)
StoreRows ==
    /\ stored' = stored \cup {day}
    /\ UNCHANGED <<day, trend>>

(* A call lasts 15 s at most and sees one midnight. *)
TrendMidnight ==
    /\ day < LastDay
    /\ ~DoesNow("idle") => trend.today = day
    /\ day' = day + 1
    /\ trend' = IF trend.pc \in {"fill", "query", "answer"} /\ trend.byDate # {}
                THEN [trend EXCEPT !.midnight = TRUE] ELSE trend
    /\ UNCHANGED stored

TrendNext ==
    \/ \E days \in 0 .. MaxAsked : AskTrend(days)
    \/ ReadStart \/ FillMap \/ QueryTrend \/ AnswerPoint \/ TrendReturns
    \/ StoreRows \/ TrendMidnight

TrendSpec == TrendInit /\ [][TrendNext]_trendVars

-----------------------------------------------------------------------------
(* Properties. *)

(* A call is lost exactly if midnight passes between the first day it puts
   into the map and the last it takes out; midnight before that does no harm,
   although the clock is read twice by then. *)
TrendLostOnlyAtMidnight ==
    /\ DoesNow("panic") => trend.midnight
    /\ DoesNow("done") => ~trend.midnight

(* "The last days, today included, in ascending order" (query.go:242): an
   answer is the run of days up to the day the map was begun, each with its
   rows if there were any; only the day that began after today was read may
   lack them. *)
TrendInFull ==
    DoesNow("done") =>
        /\ Len(trend.out) = trend.days
        /\ \A j \in DOMAIN trend.out :
             /\ trend.out[j] = trend.out[1] + j - 1
             /\ trend.out[j] \in trend.rows \ trend.found => trend.out[j] > trend.today

(* The same sentence as a promise: who asks gets an answer, or an error of the
   database. *)
TrendAnswers == ~DoesNow("panic")
====
