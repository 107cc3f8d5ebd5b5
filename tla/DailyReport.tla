---------------------------- MODULE DailyReport ----------------------------
(***************************************************************************)
(* The daily report of internal/notify, and the configuration manager it   *)
(* follows.  A ticker wakes the scheduler; once the configured time of the *)
(* day is reached it asks for the figures and sends a message, and notes   *)
(* the day as done when Telegram answers.  It tries again at the next tick *)
(* otherwise.  The note lives in memory.  SIGHUP loads the configuration   *)
(* file, unless it does not validate; the scheduler sees the new time, but *)
(* whether Telegram is enabled was settled when the process started.  The  *)
(* figures are those of the day on which they are asked for, which is read *)
(* from the clock a second time.                                           *)
(*                                                                         *)
(* One instant of the clock is one interval of the ticker.                 *)
(***************************************************************************)
EXTENDS Integers, FiniteSets

CONSTANTS
    DayLen,       \* ticks of a day
    LastDay,      \* bound: days 0 .. LastDay
    ReportTimes,  \* what daily_report_time may say: ticks of the day
    NoTime,       \* a daily_report_time that is no time of the day
    Broken,       \* a file that cannot be read, or that Validate refuses anyway
    MaxFaults,    \* bound: failing steps, stalls and crashes
    MaxEdits      \* bound: how often the configuration file is edited

Days == 0 .. LastDay
Ticks == 0 .. DayLen - 1
NoDay == -1

(* A file as far as the report is concerned. *)
Configs == [enabled : BOOLEAN, time : ReportTimes \cup {NoTime}]

ASSUME ReportAssumption ==
    /\ DayLen \in Nat \ {0} /\ LastDay \in Nat
    /\ ReportTimes \subseteq Ticks /\ ReportTimes # {}
    /\ NoTime \notin ReportTimes /\ Broken \notin Configs
    /\ MaxFaults \in Nat /\ MaxEdits \in Nat

VARIABLES
    clock,         \* business time, in ticks since day 0
    ticker,        \* a tick waits in the ticker's channel, which holds one
    phase,         \* what the scheduler is about to do
    today,         \* the day it read at this tick
    late,          \* history: it took the day in hand at its last tick
    figures,       \* the day of the statistics it got
    lastSentDate,
    file,          \* the configuration file
    edits,
    current,       \* Manager.current
    enabled,       \* Sender.enabled
    messages,      \* history: what reached Telegram
    faults,        \* history: what went wrong when
    excused        \* history: the days whose last tick met no scheduler that could report

world == <<file, edits, current, enabled, excused>>
vars == <<clock, ticker, phase, today, late, figures, lastSentDate, messages, faults, world>>

Day(t) == t \div DayLen
TickOf(t) == t % DayLen
IsLast(t) == TickOf(t) = DayLen - 1
FaultKinds == {"stall", "restart", "stats", "send", "answer"}

(* Mutant: the time is not looked at. *)
ValidateLoosely(f) == f # Broken

(* Load and Validate: the time is only looked at when Telegram is enabled. *)
Validate(f) == f # Broken /\ (f.enabled => f.time # NoTime)

TypeOK ==
    /\ clock \in 0 .. (LastDay + 1) * DayLen - 1
    /\ ticker \in BOOLEAN
    /\ phase \in {"down", "wait", "stats", "send", "answer"}
    /\ today \in Days \cup {NoDay}
    /\ late \in BOOLEAN
    /\ figures \in Days \cup {NoDay}
    /\ lastSentDate \in Days \cup {NoDay}
    /\ file \in Configs \cup {Broken}
    /\ edits \in 0 .. MaxEdits
    /\ current \in Configs /\ Validate(current)
    /\ enabled \in BOOLEAN
    /\ excused \subseteq Days
    /\ messages \subseteq [nr : Nat, day : Days, late : BOOLEAN, figures : Days]
    /\ faults \subseteq [nr : Nat, kind : FaultKinds, at : Nat, day : Days \cup {NoDay}]

Init ==
    /\ clock = 0
    /\ ticker = FALSE
    /\ phase = "wait"
    /\ today = NoDay
    /\ late = FALSE
    /\ figures = NoDay
    /\ lastSentDate = NoDay
    /\ file \in {f \in Configs : Validate(f)}
    /\ edits = 0
    /\ current = file
    /\ enabled = file.enabled
    /\ excused = {}
    /\ messages = {}
    /\ faults = {}

Fault(kind) ==
    /\ Cardinality(faults) < MaxFaults
    /\ faults' = faults \cup
         {[nr |-> Cardinality(faults), kind |-> kind, at |-> clock, day |-> today]}

-----------------------------------------------------------------------------
(* The environment. *)

Late == IF IsLast(clock) THEN excused \cup {Day(clock)} ELSE excused

(* The sender is there, and the time is not one that was only accepted because
   the file switches Telegram off. *)
Willing == enabled /\ (current.enabled \/ current.time # NoTime)

(* Sending takes 15 s at most and the ticker's interval is 30 s, so a scheduler
   that is not stalled is back before the next tick; a stall is a wait for the
   database, or a machine that stands still. *)
TimePasses ==
    /\ clock + 1 < (LastDay + 1) * DayLen
    /\ clock' = clock + 1
    /\ ticker' = (phase # "down")
    /\ IF phase = "down" \/ (phase = "wait" /\ ~ticker) THEN UNCHANGED faults ELSE Fault("stall")
    /\ excused' = IF phase # "down" /\ Willing THEN excused ELSE Late
    /\ UNCHANGED <<phase, today, late, figures, lastSentDate, messages, file, edits, current, enabled>>

Edit ==
    /\ edits < MaxEdits
    /\ edits' = edits + 1
    /\ file' \in (Configs \cup {Broken}) \ {file}
    /\ UNCHANGED <<clock, ticker, phase, today, late, figures, lastSentDate, messages, faults,
                   current, enabled, excused>>

(* SIGHUP: a file that does not validate leaves the configuration as it is. *)
Reload ==
    /\ phase # "down"
    /\ Validate(file)
    /\ current # file
    /\ current' = file
    /\ excused' = IF Willing THEN excused ELSE Late
    /\ UNCHANGED <<clock, ticker, phase, today, late, figures, lastSentDate, messages, faults,
                   file, edits, enabled>>

Crash ==
    /\ phase # "down"
    /\ Fault("restart")
    /\ ticker' = FALSE
    /\ phase' = "down"
    /\ today' = NoDay
    /\ late' = FALSE
    /\ figures' = NoDay
    /\ lastSentDate' = NoDay
    /\ UNCHANGED <<clock, messages, world>>

(* The process is started again, with a new ticker and a new sender; it exits
   at once while the file does not validate. *)
Start ==
    /\ phase = "down"
    /\ Validate(file)
    /\ phase' = "wait"
    /\ current' = file
    /\ enabled' = file.enabled
    /\ excused' = Late
    /\ UNCHANGED <<clock, ticker, today, late, figures, lastSentDate, messages, faults, file, edits>>

-----------------------------------------------------------------------------
(* Scheduler.Run. *)

(* A time that cannot be parsed is never reached. *)
ReportDue(t) == current.time # NoTime /\ TickOf(t) >= current.time

Idle == phase' = "wait" /\ today' = NoDay /\ late' = FALSE /\ figures' = NoDay

Skip ==
    /\ phase = "wait" /\ ticker
    /\ ~ReportDue(clock) \/ lastSentDate = Day(clock)
    /\ ticker' = FALSE
    /\ UNCHANGED <<clock, phase, today, late, figures, lastSentDate, messages, faults, world>>

(* Mutant: the report is that of the next day. *)
BeginNextDay ==
    /\ phase = "wait" /\ ticker
    /\ ReportDue(clock) /\ lastSentDate # Day(clock)
    /\ ticker' = FALSE
    /\ phase' = "stats"
    /\ today' = Day(clock) + 1
    /\ late' = IsLast(clock)
    /\ UNCHANGED <<clock, figures, lastSentDate, messages, faults, world>>

Begin ==
    /\ phase = "wait" /\ ticker
    /\ ReportDue(clock) /\ lastSentDate # Day(clock)
    /\ ticker' = FALSE
    /\ phase' = "stats"
    /\ today' = Day(clock)
    /\ late' = IsLast(clock)
    /\ UNCHANGED <<clock, figures, lastSentDate, messages, faults, world>>

(* Mutant: the figures of the day before. *)
GetStatsOld ==
    /\ phase = "stats"
    /\ figures' = IF Day(clock) = 0 THEN 0 ELSE Day(clock) - 1
    /\ phase' = "send"
    /\ UNCHANGED <<clock, ticker, today, late, lastSentDate, messages, faults, world>>

(* The provider reads the clock again: after the last tick of a day midnight may
   have come meanwhile, without a stall. *)
GetStats ==
    /\ phase = "stats"
    /\ figures' \in {Day(clock)} \cup (IF IsLast(clock) THEN {Day(clock) + 1} \cap Days ELSE {})
    /\ phase' = "send"
    /\ UNCHANGED <<clock, ticker, today, late, lastSentDate, messages, faults, world>>

StatsFail ==
    /\ phase = "stats"
    /\ Fault("stats")
    /\ Idle
    /\ UNCHANGED <<clock, ticker, lastSentDate, messages, world>>

(* Sender.Send: the request reaches Telegram, or does not. *)
Deliver ==
    /\ phase = "send" /\ enabled
    /\ messages' = messages \cup
         {[nr |-> Cardinality(messages), day |-> today, late |-> late, figures |-> figures]}
    /\ phase' = "answer"
    /\ UNCHANGED <<clock, ticker, today, late, figures, lastSentDate, faults, world>>

(* A disabled sender sends nothing and says that it failed. *)
SendDisabled ==
    /\ phase = "send" /\ ~enabled
    /\ Idle
    /\ UNCHANGED <<clock, ticker, lastSentDate, messages, faults, world>>

SendFails ==
    /\ phase = "send" /\ enabled
    /\ Fault("send")
    /\ Idle
    /\ UNCHANGED <<clock, ticker, lastSentDate, messages, world>>

(* Mutant: the day is read once more when the answer is there. *)
AnsweredLate ==
    /\ phase = "answer"
    /\ lastSentDate' = Day(clock)
    /\ Idle
    /\ UNCHANGED <<clock, ticker, messages, faults, world>>

(* Mutant: nothing is noted. *)
AnsweredUnnoted ==
    /\ phase = "answer"
    /\ Idle
    /\ UNCHANGED <<clock, ticker, lastSentDate, messages, faults, world>>

(* Its answer: ok, or one that is lost, late or cannot be read. *)
Answered ==
    /\ phase = "answer"
    /\ lastSentDate' = today
    /\ Idle
    /\ UNCHANGED <<clock, ticker, messages, faults, world>>

AnswerLost ==
    /\ phase = "answer"
    /\ Fault("answer")
    /\ Idle
    /\ UNCHANGED <<clock, ticker, lastSentDate, messages, world>>

Run == Skip \/ Begin \/ GetStats \/ StatsFail \/ Deliver \/ SendDisabled \/ SendFails \/ Answered \/ AnswerLost

(* The end of the days looked at. *)
Done == clock + 1 = (LastDay + 1) * DayLen /\ phase \in {"wait", "down"} /\ ~ticker /\ UNCHANGED vars

Next == TimePasses \/ Edit \/ Reload \/ Crash \/ Start \/ Run \/ Done

Spec == Init /\ [][Next]_vars

-----------------------------------------------------------------------------
(* Properties. *)

Reports(d) == {m \in messages : m.day = d}

(* A report per day: a second message for a day needs an answer that was lost,
   or a restart that made the scheduler forget; a reload, or a stall that lets
   ticks pile up, is no reason. *)
OncePerDay ==
    \A d \in Days :
        Cardinality(Reports(d)) =<
            1 + Cardinality({f \in faults : f.kind = "answer" /\ f.day = d})
              + Cardinality({f \in faults : f.kind = "restart" /\ Day(f.at) = d})

(* Noted is sent: the scheduler is never done with a day of which nothing
   reached Telegram. *)
NotedIsSent ==
    lastSentDate # NoDay => Reports(lastSentDate) # {}

(* A day without a report had trouble at its very last tick: a step failed or
   stalled, the process was down or had just been started, Telegram was off
   when it started, or a file that switches Telegram off had put the time out
   of reach.  Whatever went wrong before is made up for, and a file that does
   not validate does no harm. *)
MissedOnlyAtTheEnd ==
    \A d \in Days : d < Day(clock) /\ Reports(d) = {} =>
        \/ \E f \in faults : f.at = d * DayLen + DayLen - 1
        \/ d \in excused

(* A report that has the figures of another day has those of a later one, and was
   in hand during the last tick of its own: it was begun then, or stood still into
   that tick. *)
FiguresOfTheDay ==
    \A m \in messages : m.figures # m.day =>
        /\ m.figures > m.day
        /\ \/ m.late
           \/ \E f \in faults : f.kind = "stall" /\ f.day = m.day /\ IsLast(f.at + 1)
====
