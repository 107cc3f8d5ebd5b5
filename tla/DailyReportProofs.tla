------------------------- MODULE DailyReportProofs -------------------------
(***************************************************************************)
(* A report per day, never noted before it was sent, with the figures of   *)
(* its day: for every length of the day, report time and number of faults. *)
(***************************************************************************)
EXTENDS DailyReport, FiniteSetTheorems, TLAPS

(* Both histories are numbered from 0. *)
HistoryInv ==
    /\ IsFiniteSet(messages) /\ \A m \in messages : m.nr < Cardinality(messages)
    /\ IsFiniteSet(faults) /\ \A f \in faults : f.nr < Cardinality(faults)

(* A day is in hand in the middle of a report alone, and is later than the day
   noted last. *)
InHand == phase \in {"stats", "send", "answer"}
PhaseInv ==
    /\ InHand <=> today # NoDay
    /\ today =< Day(clock) /\ lastSentDate =< Day(clock)
    /\ InHand => lastSentDate < today
    /\ phase \in {"send", "answer"} => figures # NoDay

(* What reached Telegram is what is noted, or what waits for its answer. *)
SentInv == NotedIsSent /\ (phase = "answer" => Reports(today) # {})

(* The day in hand was so during its last tick: the report was begun then, or
   stood still into it. *)
StoodInto(d) == \E f \in faults : f.kind = "stall" /\ f.day = d /\ IsLast(f.at + 1)
Held == late \/ StoodInto(today)
FiguresInv ==
    /\ FiguresOfTheDay
    /\ phase = "stats" /\ (Day(clock) # today \/ IsLast(clock)) => Held
    /\ phase = "send" /\ figures # today => figures > today /\ Held

(* A day may still get a message: it is in hand, or has not passed and is not
   noted.  The messages of such a day are all accounted for by faults. *)
Open(d) ==
    \/ phase \in {"stats", "send"} /\ today = d
    \/ d >= Day(clock) /\ lastSentDate # d /\ ~(phase = "answer" /\ today = d)
Lost(d) == {f \in faults : f.kind = "answer" /\ f.day = d}
Forgotten(d) == {f \in faults : f.kind = "restart" /\ Day(f.at) = d}
OnceInv ==
    \A d \in Days :
        /\ Cardinality(Reports(d)) =< 1 + Cardinality(Lost(d)) + Cardinality(Forgotten(d))
        /\ Open(d) => Cardinality(Reports(d)) =< Cardinality(Lost(d)) + Cardinality(Forgotten(d))

ReportInv == TypeOK /\ HistoryInv /\ PhaseInv /\ SentInv /\ FiguresInv /\ OnceInv

-----------------------------------------------------------------------------
(* The calendar: a tick changes the day only at the last tick of it. *)
LEMMA DayLaw ==
    ASSUME NEW t \in Nat
    PROVE  /\ Day(t) \in Nat /\ TickOf(t) \in Ticks
           /\ Day(t + 1) >= Day(t)
           /\ Day(t + 1) # Day(t) => TickOf(t) = DayLen - 1
<1>1. DayLen \in Nat \ {0}
  BY ReportAssumption
<1> DEFINE q == t \div DayLen
           r == t % DayLen
<1>2. q \in Nat /\ r \in 0 .. DayLen - 1 /\ t = DayLen * q + r
  BY <1>1
<1>3. CASE r = DayLen - 1
  <2>1. t + 1 = DayLen * (q + 1)
    BY <1>1, <1>2, <1>3
  <2>2. (t + 1) \div DayLen = q + 1
    BY <1>1, <1>2, <2>1
  <2> QED
    BY <1>2, <1>3, <2>2 DEF Day, TickOf, Ticks
<1>4. CASE r # DayLen - 1
  <2>1. t + 1 = DayLen * q + (r + 1) /\ r + 1 \in 0 .. DayLen - 1
    BY <1>1, <1>2, <1>4
  <2>2. (t + 1) \div DayLen = q
    BY <1>1, <1>2, <2>1
  <2> QED
    BY <1>2, <1>4, <2>2 DEF Day, TickOf, Ticks
<1> QED
  BY <1>3, <1>4

(* The days looked at. *)
LEMMA DaysLaw ==
    ASSUME NEW t \in 0 .. (LastDay + 1) * DayLen - 1
    PROVE  t \in Nat /\ Day(t) \in Days
<1>1. DayLen \in Nat \ {0} /\ LastDay \in Nat
  BY ReportAssumption
<1>2. (LastDay + 1) * DayLen \in Nat
  BY <1>1
<1>3. t \in Nat /\ t < (LastDay + 1) * DayLen
  BY <1>2
<1> DEFINE q == t \div DayLen
<1>4. q \in Nat /\ DayLen * q =< t
  BY <1>1, <1>3
<1>5. q =< LastDay
  <2> SUFFICES ASSUME q >= LastDay + 1
               PROVE  FALSE
    BY <1>1, <1>4
  <2>1. DayLen * q >= DayLen * (LastDay + 1)
    BY <1>1, <1>4
  <2> QED
    BY <1>1, <1>3, <1>4, <2>1
<1> QED
  BY <1>1, <1>3, <1>4, <1>5 DEF Day, Days

(* Counting in finite histories. *)
LEMMA CountLaw ==
    ASSUME HistoryInv, NEW d
    PROVE  /\ Cardinality(messages) \in Nat /\ Cardinality(faults) \in Nat
           /\ IsFiniteSet(Reports(d)) /\ IsFiniteSet(Lost(d)) /\ IsFiniteSet(Forgotten(d))
           /\ Cardinality(Reports(d)) \in Nat
           /\ Cardinality(Lost(d)) \in Nat /\ Cardinality(Forgotten(d)) \in Nat
<1>1. /\ Reports(d) \subseteq messages /\ Lost(d) \subseteq faults /\ Forgotten(d) \subseteq faults
      /\ IsFiniteSet(messages) /\ IsFiniteSet(faults)
  BY DEF Reports, Lost, Forgotten, HistoryInv
<1>2. IsFiniteSet(Reports(d)) /\ IsFiniteSet(Lost(d)) /\ IsFiniteSet(Forgotten(d))
  BY <1>1, FS_Subset
<1> QED
  BY <1>1, <1>2, FS_CardinalityType

(* A fault is one more: of its kind, at this instant, on the day in hand. *)
LEMMA FaultLaw ==
    ASSUME TypeOK, HistoryInv, NEW kind \in FaultKinds, Fault(kind)
    PROVE  /\ faults' \subseteq [nr : Nat, kind : FaultKinds, at : Nat, day : Days \cup {NoDay}]
           /\ IsFiniteSet(faults') /\ \A f \in faults' : f.nr < Cardinality(faults')
           /\ faults \subseteq faults'
           /\ kind = "stall" => \E f \in faults' : f.kind = "stall" /\ f.day = today /\ f.at = clock
           /\ \A d \in Days :
                /\ Cardinality(Lost(d)') =
                     Cardinality(Lost(d)) + (IF kind = "answer" /\ today = d THEN 1 ELSE 0)
                /\ Cardinality(Forgotten(d)') =
                     Cardinality(Forgotten(d)) + (IF kind = "restart" /\ Day(clock) = d THEN 1 ELSE 0)
<1> DEFINE n == Cardinality(faults)
<1>1. n \in Nat /\ clock \in Nat /\ IsFiniteSet(faults) /\ \A f \in faults : f.nr < n
  BY CountLaw, DaysLaw DEF TypeOK, HistoryInv
<1>2. PICK f0 : f0 = [nr |-> n, kind |-> kind, at |-> clock, day |-> today]
  OBVIOUS
<1>3. /\ faults' = faults \cup {f0}
      /\ f0 \in [nr : Nat, kind : FaultKinds, at : Nat, day : Days \cup {NoDay}]
      /\ f0.nr = n /\ f0.kind = kind /\ f0.at = clock /\ f0.day = today
  BY <1>1, <1>2 DEF Fault, TypeOK
<1>4. f0 \notin faults
  BY <1>1, <1>3
<1> HIDE DEF n
<1>5. IsFiniteSet(faults') /\ Cardinality(faults') = n + 1
  BY <1>1, <1>3, <1>4, FS_AddElement DEF n
<1>6. \A f \in faults' : f.nr < n + 1
  <2>1. \A f \in faults : f.nr \in Nat
    BY DEF TypeOK
  <2> QED
    BY <1>1, <1>3, <2>1
<1>7. ASSUME NEW d \in Days
      PROVE  /\ Cardinality(Lost(d)') =
                  Cardinality(Lost(d)) + (IF kind = "answer" /\ today = d THEN 1 ELSE 0)
             /\ Cardinality(Forgotten(d)') =
                  Cardinality(Forgotten(d)) + (IF kind = "restart" /\ Day(clock) = d THEN 1 ELSE 0)
  <2>1. /\ Lost(d)' = IF kind = "answer" /\ today = d THEN Lost(d) \cup {f0} ELSE Lost(d)
        /\ Forgotten(d)' =
             IF kind = "restart" /\ Day(clock) = d THEN Forgotten(d) \cup {f0} ELSE Forgotten(d)
    BY <1>3 DEF Lost, Forgotten
  <2>2. f0 \notin Lost(d) /\ f0 \notin Forgotten(d)
    BY <1>4 DEF Lost, Forgotten
  <2>3. /\ Cardinality(Lost(d) \cup {f0}) = Cardinality(Lost(d)) + 1
        /\ Cardinality(Forgotten(d) \cup {f0}) = Cardinality(Forgotten(d)) + 1
    BY <2>2, CountLaw, FS_AddElement
  <2>4. Cardinality(Lost(d)) \in Nat /\ Cardinality(Forgotten(d)) \in Nat
    BY CountLaw
  <2> QED
    BY <2>1, <2>3, <2>4
<1> QED
  BY <1>3, <1>5, <1>6, <1>7 DEF TypeOK

(* A step that only reads, or only touches what the history does not speak of. *)
LEMMA QuietLaw ==
    ASSUME ReportInv, TypeOK', UNCHANGED <<clock, phase, today, late, figures, lastSentDate, messages, faults>>
    PROVE  ReportInv'
BY DEF ReportInv, HistoryInv, PhaseInv, InHand, SentInv, NotedIsSent, Reports, FiguresInv, FiguresOfTheDay,
       Held, StoodInto, OnceInv, Open, Lost, Forgotten

(* A report is given up, with a fault or, if the sender is disabled, without. *)
LEMMA GiveUpLaw ==
    ASSUME ReportInv, InHand, Idle,
           UNCHANGED <<clock, ticker, lastSentDate, messages, world>>,
           \/ phase = "stats" /\ Fault("stats")
           \/ phase = "send" /\ (Fault("send") \/ UNCHANGED faults)
           \/ phase = "answer" /\ Fault("answer")
    PROVE  ReportInv'
<1>1. /\ faults' \subseteq [nr : Nat, kind : FaultKinds, at : Nat, day : Days \cup {NoDay}]
      /\ IsFiniteSet(faults') /\ \A f \in faults' : f.nr < Cardinality(faults')
      /\ faults \subseteq faults'
      /\ \A d \in Days :
           /\ Cardinality(Lost(d)') =
                Cardinality(Lost(d)) + (IF phase = "answer" /\ today = d THEN 1 ELSE 0)
           /\ Cardinality(Forgotten(d)') = Cardinality(Forgotten(d))
  <2>1. CASE UNCHANGED faults /\ phase = "send"
    <3>1. \A d \in Days : /\ Lost(d)' = Lost(d) /\ Cardinality(Lost(d)) \in Nat
                          /\ Forgotten(d)' = Forgotten(d) /\ Cardinality(Forgotten(d)) \in Nat
      BY <2>1, CountLaw DEF Lost, Forgotten, ReportInv
    <3> QED
      BY <2>1, <3>1 DEF ReportInv, TypeOK, HistoryInv
  <2>2. CASE phase \in {"stats", "send", "answer"} /\ Fault(phase)
    <3>1. \A d \in Days : Cardinality(Forgotten(d)) \in Nat
      BY CountLaw DEF ReportInv
    <3> QED
      BY <2>2, <3>1, FaultLaw DEF ReportInv, FaultKinds
  <2> QED
    BY <2>1, <2>2
<1>2. /\ clock' = clock /\ phase' = "wait" /\ today' = NoDay /\ late' = FALSE /\ figures' = NoDay
      /\ lastSentDate' = lastSentDate /\ messages' = messages
  BY DEF Idle
<1>3. Day(clock) \in Nat /\ NoDay = -1 /\ today \in Days \cup {NoDay} /\ LastDay \in Nat
  BY DaysLaw, DayLaw, ReportAssumption DEF ReportInv, TypeOK, NoDay
<1>4. TypeOK'
  BY <1>1, <1>2 DEF ReportInv, TypeOK, world
<1>5. HistoryInv' /\ PhaseInv'
  BY <1>1, <1>2, <1>3 DEF ReportInv, HistoryInv, PhaseInv, InHand
<1>6. SentInv'
  BY <1>2 DEF ReportInv, SentInv, NotedIsSent, Reports
<1>7. FiguresInv'
  BY <1>1, <1>2 DEF ReportInv, FiguresInv, FiguresOfTheDay
<1>8. OnceInv'
  <2> SUFFICES ASSUME NEW d \in Days
               PROVE  /\ Cardinality(Reports(d)') =< 1 + Cardinality(Lost(d)') + Cardinality(Forgotten(d)')
                      /\ Open(d)' => Cardinality(Reports(d)') =< Cardinality(Lost(d)') + Cardinality(Forgotten(d)')
    BY DEF OnceInv
  <2>1. Reports(d)' = Reports(d)
    BY <1>2 DEF Reports
  <2>2. Open(d)' => Open(d) \/ (phase = "answer" /\ today = d)
    BY <1>2 DEF Open
  <2>3. /\ Cardinality(Reports(d)) \in Nat /\ Cardinality(Lost(d)) \in Nat /\ Cardinality(Forgotten(d)) \in Nat
    BY CountLaw DEF ReportInv
  <2> QED
    BY <1>1, <2>1, <2>2, <2>3 DEF ReportInv, OnceInv
<1> QED
  BY <1>4, <1>5, <1>6, <1>7, <1>8 DEF ReportInv

(* Time moves the days forward, and stands still for the scheduler only with a
   fault that says so. *)
LEMMA TimeLaw ==
    ASSUME ReportInv, TimePasses
    PROVE  ReportInv'
<1>1. /\ phase' = phase /\ today' = today /\ late' = late /\ figures' = figures
      /\ lastSentDate' = lastSentDate
      /\ messages' = messages /\ clock' = clock + 1 /\ clock + 1 < (LastDay + 1) * DayLen
  BY DEF TimePasses
<1>2. /\ clock \in Nat /\ Day(clock) \in Nat /\ Day(clock') \in Nat /\ Day(clock') >= Day(clock)
      /\ Day(clock') # Day(clock) => TickOf(clock) = DayLen - 1
  BY <1>1, DaysLaw, DayLaw DEF ReportInv, TypeOK
<1>3. /\ faults' \subseteq [nr : Nat, kind : FaultKinds, at : Nat, day : Days \cup {NoDay}]
      /\ IsFiniteSet(faults') /\ \A f \in faults' : f.nr < Cardinality(faults')
      /\ faults \subseteq faults'
      /\ InHand => \E f \in faults' : f.kind = "stall" /\ f.day = today /\ f.at = clock
      /\ \A d \in Days : /\ Cardinality(Lost(d)') = Cardinality(Lost(d))
                         /\ Cardinality(Forgotten(d)') = Cardinality(Forgotten(d))
  <2>1. CASE UNCHANGED faults /\ ~InHand
    BY <2>1 DEF ReportInv, TypeOK, HistoryInv, Lost, Forgotten
  <2>2. CASE Fault("stall")
    <3>1. \A d \in Days : Cardinality(Lost(d)) \in Nat /\ Cardinality(Forgotten(d)) \in Nat
      BY CountLaw DEF ReportInv
    <3> QED
      BY <2>2, <3>1, FaultLaw DEF ReportInv, FaultKinds
  <2> QED
    BY <2>1, <2>2 DEF TimePasses, InHand
<1>4. TypeOK'
  <2>1. clock + 1 \in 0 .. (LastDay + 1) * DayLen - 1
    <3>1. (LastDay + 1) * DayLen \in Nat
      BY ReportAssumption
    <3> QED
      BY <1>1, <1>2, <3>1
  <2>2. excused' \subseteq Days
    BY DaysLaw DEF TimePasses, Late, ReportInv, TypeOK
  <2>3. ticker' \in BOOLEAN /\ UNCHANGED <<file, edits, current, enabled>>
    BY DEF TimePasses
  <2> QED
    BY <1>1, <1>3, <2>1, <2>2, <2>3 DEF ReportInv, TypeOK
<1>5. HistoryInv' /\ PhaseInv' /\ SentInv'
  <2>1. today \in Int /\ lastSentDate \in Int
    BY ReportAssumption DEF ReportInv, TypeOK, Days, NoDay
  <2> QED
    BY <1>1, <1>2, <1>3, <2>1 DEF ReportInv, HistoryInv, PhaseInv, InHand, SentInv, NotedIsSent, Reports
<1>6. FiguresInv'
  <2>1. Held => Held'
    BY <1>1, <1>3 DEF Held, StoodInto
  <2>2. phase = "stats" /\ (Day(clock') # today \/ IsLast(clock')) => Held'
    <3>1. CASE Day(clock) # today \/ IsLast(clock)
      BY <2>1, <3>1 DEF ReportInv, FiguresInv
    <3>2. CASE Day(clock) = today /\ ~IsLast(clock)
      BY <1>1, <1>2, <1>3, <3>2 DEF InHand, Held, StoodInto, IsLast
    <3> QED
      BY <3>1, <3>2
  <2>3. FiguresOfTheDay'
    BY <1>1, <1>3 DEF ReportInv, FiguresInv, FiguresOfTheDay
  <2> QED
    BY <1>1, <2>1, <2>2, <2>3 DEF ReportInv, FiguresInv
<1>7. OnceInv'
  <2> SUFFICES ASSUME NEW d \in Days
               PROVE  /\ Cardinality(Reports(d)') =< 1 + Cardinality(Lost(d)') + Cardinality(Forgotten(d)')
                      /\ Open(d)' => Cardinality(Reports(d)') =< Cardinality(Lost(d)') + Cardinality(Forgotten(d)')
    BY DEF OnceInv
  <2>1. Reports(d)' = Reports(d)
    BY <1>1 DEF Reports
  <2>2. Open(d)' => Open(d)
    BY <1>1, <1>2, ReportAssumption DEF Open, Days
  <2> QED
    BY <1>3, <2>1, <2>2 DEF ReportInv, OnceInv
<1> QED
  BY <1>4, <1>5, <1>6, <1>7 DEF ReportInv

(* A message: the day in hand was open, and is now waiting for its answer. *)
LEMMA DeliverLaw ==
    ASSUME ReportInv, Deliver
    PROVE  ReportInv'
<1> DEFINE n == Cardinality(messages)
<1>1. /\ phase = "send" /\ phase' = "answer"
      /\ clock' = clock /\ today' = today /\ late' = late /\ figures' = figures
      /\ lastSentDate' = lastSentDate /\ faults' = faults /\ n \in Nat /\ IsFiniteSet(messages) /\ \A m \in messages : m.nr < n
  BY CountLaw DEF Deliver, ReportInv, HistoryInv
<1>2. PICK m0 : m0 = [nr |-> n, day |-> today, late |-> late, figures |-> figures]
  OBVIOUS
<1>3. today \in Days /\ late \in BOOLEAN /\ figures \in Days \cup {NoDay}
  BY <1>1, DaysLaw DEF ReportInv, TypeOK, PhaseInv, InHand
<1>4. /\ messages' = messages \cup {m0} /\ m0.nr = n
      /\ m0.day = today /\ m0.late = late /\ m0.figures = figures
  BY <1>2 DEF Deliver
<1>5. m0 \notin messages
  BY <1>1, <1>4
<1>6. figures \in Days
  BY <1>1, <1>3 DEF ReportInv, PhaseInv
<1> HIDE DEF n
<1>7. IsFiniteSet(messages') /\ Cardinality(messages') = n + 1 /\ \A m \in messages' : m.nr < n + 1
  <2>1. \A m \in messages : m.nr \in Nat
    BY DEF ReportInv, TypeOK
  <2>2. IsFiniteSet(messages') /\ Cardinality(messages') = n + 1
    BY <1>1, <1>4, <1>5, FS_AddElement DEF n
  <2> QED
    BY <1>1, <1>4, <2>1, <2>2
<1>8. TypeOK'
  <2>1. m0 \in [nr : Nat, day : Days, late : BOOLEAN, figures : Days]
    BY <1>1, <1>2, <1>3, <1>6
  <2> QED
    BY <1>1, <1>4, <2>1 DEF Deliver, world, ReportInv, TypeOK
<1>9. HistoryInv' /\ PhaseInv'
  BY <1>1, <1>7 DEF ReportInv, HistoryInv, PhaseInv, InHand
<1>10. SentInv'
  <2>1. \A d : Reports(d) \subseteq Reports(d)' /\ m0 \in Reports(today)'
    BY <1>1, <1>4 DEF Reports
  <2> QED
    BY <1>1, <2>1 DEF ReportInv, SentInv, NotedIsSent
<1>11. FiguresInv'
  BY <1>1, <1>4 DEF ReportInv, FiguresInv, FiguresOfTheDay, Held, StoodInto
<1>12. OnceInv'
  <2> SUFFICES ASSUME NEW d \in Days
               PROVE  /\ Cardinality(Reports(d)') =< 1 + Cardinality(Lost(d)') + Cardinality(Forgotten(d)')
                      /\ Open(d)' => Cardinality(Reports(d)') =< Cardinality(Lost(d)') + Cardinality(Forgotten(d)')
    BY DEF OnceInv
  <2>1. Lost(d)' = Lost(d) /\ Forgotten(d)' = Forgotten(d)
    BY <1>1 DEF Lost, Forgotten
  <2>2. /\ Cardinality(Reports(d)) \in Nat /\ Cardinality(Lost(d)) \in Nat
        /\ Cardinality(Forgotten(d)) \in Nat /\ IsFiniteSet(Reports(d))
    BY CountLaw DEF ReportInv
  <2>3. CASE d = today
    <3>1. Reports(d)' = Reports(d) \cup {m0} /\ m0 \notin Reports(d)
      BY <1>4, <1>5, <2>3 DEF Reports
    <3>2. Cardinality(Reports(d)') = Cardinality(Reports(d)) + 1
      BY <2>2, <3>1, FS_AddElement
    <3>3. Open(d) /\ ~Open(d)'
      BY <1>1, <2>3 DEF Open
    <3> QED
      BY <2>1, <2>2, <3>2, <3>3 DEF ReportInv, OnceInv
  <2>4. CASE d # today
    <3>1. Reports(d)' = Reports(d) /\ (Open(d)' => Open(d))
      BY <1>1, <1>4, <2>4 DEF Reports, Open
    <3> QED
      BY <2>1, <3>1 DEF ReportInv, OnceInv
  <2> QED
    BY <2>3, <2>4
<1> QED
  BY <1>8, <1>9, <1>10, <1>11, <1>12 DEF ReportInv

(* What dies with the process is the note and the report in hand. *)
LEMMA CrashLaw ==
    ASSUME ReportInv, Crash
    PROVE  ReportInv'
<1>1. /\ faults' \subseteq [nr : Nat, kind : FaultKinds, at : Nat, day : Days \cup {NoDay}]
      /\ IsFiniteSet(faults') /\ \A f \in faults' : f.nr < Cardinality(faults')
      /\ faults \subseteq faults'
      /\ \A d \in Days :
           /\ Cardinality(Lost(d)') = Cardinality(Lost(d))
           /\ Cardinality(Forgotten(d)') =
                Cardinality(Forgotten(d)) + (IF Day(clock) = d THEN 1 ELSE 0)
  <2>1. \A d \in Days : Cardinality(Lost(d)) \in Nat
    BY CountLaw DEF ReportInv
  <2> QED
    BY <2>1, FaultLaw DEF Crash, ReportInv, FaultKinds
<1>2. /\ clock' = clock /\ phase' = "down" /\ today' = NoDay /\ late' = FALSE /\ figures' = NoDay
      /\ lastSentDate' = NoDay /\ messages' = messages /\ ticker' = FALSE /\ UNCHANGED world
  BY DEF Crash
<1>3. Day(clock) \in Nat /\ NoDay = -1 /\ today \in Int /\ lastSentDate \in Int
  BY DaysLaw, DayLaw, ReportAssumption DEF ReportInv, TypeOK, NoDay, Days
<1>4. TypeOK'
  BY <1>1, <1>2 DEF ReportInv, TypeOK, world
<1>5. HistoryInv' /\ PhaseInv' /\ SentInv'
  BY <1>1, <1>2, <1>3 DEF ReportInv, HistoryInv, PhaseInv, InHand, SentInv, NotedIsSent
<1>6. FiguresInv'
  BY <1>1, <1>2 DEF ReportInv, FiguresInv, FiguresOfTheDay
<1>7. OnceInv'
  <2> SUFFICES ASSUME NEW d \in Days
               PROVE  /\ Cardinality(Reports(d)') =< 1 + Cardinality(Lost(d)') + Cardinality(Forgotten(d)')
                      /\ Open(d)' => Cardinality(Reports(d)') =< Cardinality(Lost(d)') + Cardinality(Forgotten(d)')
    BY DEF OnceInv
  <2>1. Reports(d)' = Reports(d)
    BY <1>2 DEF Reports
  <2>2. Open(d)' => Open(d) \/ d = Day(clock)
    <3>1. d \in Int /\ lastSentDate =< Day(clock) /\ today =< Day(clock)
      BY ReportAssumption DEF Days, ReportInv, PhaseInv
    <3> QED
      BY <1>2, <1>3, <3>1 DEF Open
  <2>3. /\ Cardinality(Reports(d)) \in Nat /\ Cardinality(Lost(d)) \in Nat /\ Cardinality(Forgotten(d)) \in Nat
    BY CountLaw DEF ReportInv
  <2> QED
    BY <1>1, <2>1, <2>2, <2>3 DEF ReportInv, OnceInv
<1> QED
  BY <1>4, <1>5, <1>6, <1>7 DEF ReportInv

(* The scheduler takes a day in hand, gets the figures, and notes the day. *)
LEMMA SchedulerLaw ==
    ASSUME ReportInv, Begin \/ GetStats \/ Answered
    PROVE  ReportInv'
<1>1. clock' = clock /\ messages' = messages /\ faults' = faults /\ UNCHANGED world
  BY DEF Begin, GetStats, Answered
<1>2. /\ Day(clock) \in Days /\ Day(clock) \in Nat /\ NoDay = -1
      /\ today \in Days \cup {NoDay} /\ lastSentDate \in Days \cup {NoDay} /\ Days \subseteq Nat
  BY DaysLaw, DayLaw, ReportAssumption DEF ReportInv, TypeOK, NoDay, Days
<1>3. HistoryInv'
  BY <1>1 DEF ReportInv, HistoryInv
<1>4. /\ \A d : Reports(d)' = Reports(d) /\ Lost(d)' = Lost(d) /\ Forgotten(d)' = Forgotten(d)
      /\ FiguresOfTheDay'
  BY <1>1 DEF Reports, Lost, Forgotten, ReportInv, FiguresInv, FiguresOfTheDay
<1>5. ASSUME \A d \in Days : Open(d)' => Open(d)
      PROVE  OnceInv'
  BY <1>4, <1>5 DEF ReportInv, OnceInv
<1>6. CASE Begin
  <2>1. /\ phase = "wait" /\ phase' = "stats" /\ today' = Day(clock) /\ late' = IsLast(clock)
        /\ lastSentDate # Day(clock) /\ lastSentDate' = lastSentDate
        /\ figures' = figures /\ ticker' = FALSE
    BY <1>6 DEF Begin
  <2>2. TypeOK'
    BY <1>1, <1>2, <2>1 DEF ReportInv, TypeOK, IsLast, world
  <2>3. PhaseInv' /\ SentInv' /\ FiguresInv'
    BY <1>1, <1>2, <1>4, <2>1
      DEF ReportInv, PhaseInv, InHand, SentInv, NotedIsSent, FiguresInv, Held, Reports
  <2>4. \A d \in Days : Open(d)' => Open(d)
    BY <1>1, <1>2, <2>1 DEF Open
  <2> QED
    BY <1>3, <1>5, <2>2, <2>3, <2>4 DEF ReportInv
<1>7. CASE GetStats
  <2>1. /\ phase = "stats" /\ phase' = "send" /\ figures' \in Days
        /\ figures' = Day(clock) \/ (IsLast(clock) /\ figures' = Day(clock) + 1)
        /\ today' = today /\ late' = late /\ lastSentDate' = lastSentDate /\ ticker' = ticker
    BY <1>2, <1>7 DEF GetStats
  <2>2. TypeOK'
    BY <1>1, <1>2, <2>1 DEF ReportInv, TypeOK, world
  <2>3. PhaseInv' /\ SentInv' /\ FiguresInv'
    BY <1>1, <1>2, <1>4, <2>1
      DEF ReportInv, PhaseInv, InHand, SentInv, NotedIsSent, FiguresInv, Held, StoodInto, Reports
  <2>4. \A d \in Days : Open(d)' => Open(d)
    BY <1>1, <1>2, <2>1 DEF Open
  <2> QED
    BY <1>3, <1>5, <2>2, <2>3, <2>4 DEF ReportInv
<1>8. CASE Answered
  <2>1. /\ phase = "answer" /\ phase' = "wait" /\ figures' = NoDay /\ today' = NoDay /\ late' = FALSE
        /\ lastSentDate' = today /\ ticker' = ticker
    BY <1>8 DEF Answered, Idle
  <2>2. TypeOK'
    BY <1>1, <1>2, <2>1 DEF ReportInv, TypeOK, world
  <2>3. PhaseInv' /\ SentInv' /\ FiguresInv'
    BY <1>1, <1>2, <1>4, <2>1
      DEF ReportInv, PhaseInv, InHand, SentInv, NotedIsSent, FiguresInv, Reports
  <2>4. \A d \in Days : Open(d)' => Open(d)
    <3>1. lastSentDate < today /\ today =< Day(clock)
      BY <2>1 DEF ReportInv, PhaseInv, InHand
    <3> QED
      BY <1>1, <1>2, <2>1, <3>1 DEF Open
  <2> QED
    BY <1>3, <1>5, <2>2, <2>3, <2>4 DEF ReportInv
<1> QED
  BY <1>6, <1>7, <1>8

-----------------------------------------------------------------------------
(* Every step keeps the invariant. *)
THEOREM ReportInvariant == Spec => []ReportInv
<1>1. Init => ReportInv
  <2> SUFFICES ASSUME Init PROVE ReportInv
    OBVIOUS
  <2>1. /\ 0 \in Nat /\ 0 < (LastDay + 1) * DayLen
        /\ 0 \in 0 .. (LastDay + 1) * DayLen - 1
    <3>1. LastDay + 1 \in Nat \ {0} /\ DayLen \in Nat \ {0}
      BY ReportAssumption
    <3>2. (LastDay + 1) * DayLen \in Nat \ {0}
      BY <3>1
    <3> QED
      BY <3>2
  <2>2. Day(0) \in Nat
    BY <2>1, DayLaw
  <2>3. IsFiniteSet({})
    BY FS_EmptySet
  <2>4. TypeOK
    <3>1. file \in Configs /\ Validate(file) /\ current = file /\ enabled = file.enabled
      BY DEF Init
    <3>2. enabled \in BOOLEAN /\ Validate(current)
      BY <3>1 DEF Configs
    <3>3. 0 \in 0 .. MaxEdits
      BY ReportAssumption
    <3> QED
      BY <2>1, <3>1, <3>2, <3>3 DEF Init, TypeOK
  <2>5. HistoryInv /\ PhaseInv /\ SentInv /\ FiguresInv
    BY <2>2, <2>3 DEF Init, HistoryInv, PhaseInv, InHand, SentInv, NotedIsSent, FiguresInv, FiguresOfTheDay, NoDay
  <2>6. OnceInv
    <3> SUFFICES ASSUME NEW d \in Days
                 PROVE  Cardinality(Reports(d)) = 0 /\ Cardinality(Lost(d)) \in Nat
                        /\ Cardinality(Forgotten(d)) \in Nat
      BY DEF OnceInv
    <3>1. Reports(d) = {}
      BY DEF Init, Reports
    <3> QED
      BY <2>5, <3>1, CountLaw, FS_EmptySet
  <2> QED
    BY <2>4, <2>5, <2>6 DEF ReportInv
<1>2. ReportInv /\ [Next]_vars => ReportInv'
  <2> SUFFICES ASSUME ReportInv, [Next]_vars
               PROVE  ReportInv'
    OBVIOUS
  <2>1. CASE TimePasses
    BY <2>1, TimeLaw
  <2>2. CASE Edit
    <3>1. TypeOK'
      <4>1. edits' \in 0 .. MaxEdits
        BY <2>2, ReportAssumption DEF Edit, ReportInv, TypeOK
      <4> QED
        BY <2>2, <4>1 DEF Edit, ReportInv, TypeOK
    <3> QED
      BY <2>2, <3>1, QuietLaw DEF Edit
  <2>3. CASE Reload
    <3>1. TypeOK'
      BY <2>3, DaysLaw DEF Reload, Late, Validate, ReportInv, TypeOK
    <3> QED
      BY <2>3, <3>1, QuietLaw DEF Reload
  <2>4. CASE Crash
    BY <2>4, CrashLaw
  <2>5. CASE Start
    <3>1. TypeOK'
      BY <2>5, DaysLaw DEF Start, Late, Validate, Configs, ReportInv, TypeOK
    <3>2. /\ clock' = clock /\ today' = today /\ late' = late /\ figures' = figures
          /\ lastSentDate' = lastSentDate /\ messages' = messages /\ faults' = faults /\ phase = "down" /\ phase' = "wait"
      BY <2>5 DEF Start
    <3>3. \A d \in Days : Open(d)' => Open(d)
      BY <3>2 DEF Open
    <3>4. HistoryInv' /\ PhaseInv' /\ SentInv' /\ FiguresInv'
      BY <3>2 DEF ReportInv, HistoryInv, PhaseInv, InHand, SentInv, NotedIsSent, Reports, FiguresInv, FiguresOfTheDay
    <3>5. OnceInv'
      <4>1. \A d : Reports(d)' = Reports(d) /\ Lost(d)' = Lost(d) /\ Forgotten(d)' = Forgotten(d)
        BY <3>2 DEF Reports, Lost, Forgotten
      <4> QED
        BY <3>3, <4>1 DEF ReportInv, OnceInv
    <3> QED
      BY <3>1, <3>4, <3>5 DEF ReportInv
  <2>6. CASE Skip
    <3>1. TypeOK'
      BY <2>6 DEF Skip, world, ReportInv, TypeOK
    <3> QED
      BY <2>6, <3>1, QuietLaw DEF Skip
  <2>7. CASE Begin \/ GetStats \/ Answered
    BY <2>7, SchedulerLaw
  <2>8. CASE Deliver
    BY <2>8, DeliverLaw
  <2>9. CASE StatsFail \/ SendDisabled \/ SendFails \/ AnswerLost
    BY <2>9, GiveUpLaw DEF StatsFail, SendDisabled, SendFails, AnswerLost, InHand
  <2>10. CASE Done \/ UNCHANGED vars
    <3>1. UNCHANGED vars
      BY <2>10 DEF Done
    <3>2. TypeOK'
      BY <3>1 DEF vars, world, ReportInv, TypeOK
    <3> QED
      BY <3>1, <3>2, QuietLaw DEF vars
  <2> QED
    BY <2>1, <2>2, <2>3, <2>4, <2>5, <2>6, <2>7, <2>8, <2>9, <2>10 DEF Next, Run
<1> QED
  BY <1>1, <1>2, PTL DEF Spec

(* Every variable keeps its type, and the configuration in use is one that
   validates, whatever becomes of the file. *)
THEOREM ReportTypes == Spec => []TypeOK
BY ReportInvariant, PTL DEF ReportInv

(* One message for a day, but for one more for each answer that was lost and for
   each restart on the day. *)
THEOREM ReportedOnce == Spec => []OncePerDay
<1>1. ReportInv => OncePerDay
  BY DEF ReportInv, OnceInv, Lost, Forgotten, OncePerDay
<1> QED
  BY <1>1, ReportInvariant, PTL

(* A day is noted only when its message has reached Telegram. *)
THEOREM NotedWasSent == Spec => []NotedIsSent
BY ReportInvariant, PTL DEF ReportInv, SentInv

(* A message with the figures of another day was in hand during the last tick of
   its own. *)
THEOREM FiguresAreOfTheDay == Spec => []FiguresOfTheDay
BY ReportInvariant, PTL DEF ReportInv, FiguresInv
-----------------------------------------------------------------------------
(* Missed days. *)

(* A day has its report, or a reason at its last tick. *)
Explained(d) ==
    \/ Reports(d) # {}
    \/ \E f \in faults : f.at = d * DayLen + DayLen - 1
    \/ d \in excused

(* The last tick of a day, once it is dealt with, leaves the day explained, or a
   scheduler that cannot report; a report begun at this tick is for this day. *)
EndInv ==
    /\ \A d \in Days : d < Day(clock) => Explained(d)
    /\ IsLast(clock) /\ phase = "wait" /\ ~ticker => Explained(Day(clock)) \/ ~Willing
    /\ InHand /\ ~ticker => today = Day(clock)

(* A day that ends with a tick ends with its last one. *)
LEMMA MidnightLaw ==
    ASSUME NEW t \in Nat, NEW d \in Nat
    PROVE  /\ d < Day(t + 1) => d < Day(t) \/ (d = Day(t) /\ IsLast(t))
           /\ d = Day(t) /\ IsLast(t) => t = d * DayLen + DayLen - 1
<1>1. DayLen \in Nat \ {0}
  BY ReportAssumption
<1> DEFINE q == t \div DayLen
           r == t % DayLen
<1>2. q \in Nat /\ r \in 0 .. DayLen - 1 /\ t = DayLen * q + r
  BY <1>1
<1>3. CASE r = DayLen - 1
  <2>1. t + 1 = DayLen * (q + 1)
    BY <1>1, <1>2, <1>3
  <2>2. (t + 1) \div DayLen = q + 1
    BY <1>1, <1>2, <2>1
  <2>3. DayLen * q = q * DayLen
    BY <1>1, <1>2
  <2>4. t = q * DayLen + DayLen - 1
    BY <1>1, <1>2, <1>3, <2>3
  <2> QED
    BY <1>2, <1>3, <2>2, <2>4 DEF Day, TickOf, IsLast
<1>4. CASE r # DayLen - 1
  <2>1. t + 1 = DayLen * q + (r + 1) /\ r + 1 \in 0 .. DayLen - 1
    BY <1>1, <1>2, <1>4
  <2>2. (t + 1) \div DayLen = q
    BY <1>1, <1>2, <2>1
  <2> QED
    BY <1>2, <1>4, <2>2 DEF Day, TickOf, IsLast
<1> QED
  BY <1>3, <1>4

(* Messages, faults and excuses are not taken back. *)
LEMMA ExplainedStays ==
    ASSUME NEW d, Explained(d),
           messages \subseteq messages', faults \subseteq faults', excused \subseteq excused'
    PROVE  Explained(d)'
BY DEF Explained, Reports

(* A fault is noted at its instant. *)
LEMMA FaultHere ==
    ASSUME NEW kind, Fault(kind)
    PROVE  \E f \in faults' : f.at = clock
<1>1. PICK f0 : f0 = [nr |-> Cardinality(faults), kind |-> kind, at |-> clock, day |-> today]
  OBVIOUS
<1>2. f0 \in faults' /\ f0.at = clock
  BY <1>1 DEF Fault
<1> QED
  BY <1>2

(* A fault at the last tick explains the day. *)
LEMMA FaultNow ==
    ASSUME ReportInv, UNCHANGED clock, NEW kind, Fault(kind), IsLast(clock)
    PROVE  Explained(Day(clock))'
<1>1. clock \in Nat /\ Day(clock) \in Nat
  BY DaysLaw, DayLaw DEF ReportInv, TypeOK
<1>2. clock = Day(clock) * DayLen + DayLen - 1
  BY <1>1, MidnightLaw
<1>3. \E f \in faults' : f.at = clock
  BY FaultHere
<1> QED
  BY <1>2, <1>3 DEF Explained

(* A tick in which the day does not end leaves the days before explained; one in
   which it ends finds the scheduler done with it, or says why not. *)
LEMMA EndTime ==
    ASSUME ReportInv, EndInv, TimePasses
    PROVE  EndInv'
<1>1. /\ clock \in Nat /\ Day(clock) \in Days /\ Day(clock) \in Nat
      /\ clock' = clock + 1 /\ phase' = phase /\ messages' = messages
  BY DaysLaw, DayLaw DEF TimePasses, ReportInv, TypeOK
<1>2. faults \subseteq faults' /\ excused \subseteq excused'
  BY DEF TimePasses, Fault, Late
<1>3. ticker' = (phase # "down")
  BY DEF TimePasses
<1>4. ASSUME NEW d \in Days, d < Day(clock')
      PROVE  Explained(d)'
  <2>1. d \in Nat
    BY ReportAssumption DEF Days
  <2>2. CASE d < Day(clock)
    BY <1>1, <1>2, <2>2, ExplainedStays DEF EndInv
  <2>3. CASE d = Day(clock) /\ IsLast(clock)
    <3>1. clock = d * DayLen + DayLen - 1
      BY <1>1, <2>1, <2>3, MidnightLaw
    <3>2. CASE phase = "down" \/ ~Willing
      <4>1. d \in excused'
        BY <2>3, <3>2 DEF TimePasses, Late
      <4> QED
        BY <4>1 DEF Explained
    <3>3. CASE phase = "wait" /\ ~ticker /\ Willing
      BY <1>1, <1>2, <2>3, <3>3, ExplainedStays DEF EndInv
    <3>4. CASE phase # "down" /\ ~(phase = "wait" /\ ~ticker)
      <4>1. \E f \in faults' : f.at = clock
        BY <3>4, FaultHere DEF TimePasses
      <4> QED
        BY <3>1, <4>1 DEF Explained
    <3> QED
      BY <3>2, <3>3, <3>4
  <2> QED
    BY <1>1, <1>4, <2>1, <2>2, <2>3, MidnightLaw
<1>5. phase' = "wait" \/ InHand' => ticker'
  BY <1>1, <1>3 DEF InHand
<1> QED
  BY <1>4, <1>5 DEF EndInv

(* A step at the last tick that ends in a scheduler at rest explains the day, or
   leaves a scheduler that cannot report. *)
LEMMA EndStep ==
    ASSUME ReportInv, EndInv, UNCHANGED clock,
           messages \subseteq messages', faults \subseteq faults', excused \subseteq excused',
           IsLast(clock) /\ phase' = "wait" /\ ~ticker' => Explained(Day(clock))' \/ ~Willing',
           InHand' /\ ~ticker' => today' = Day(clock)
    PROVE  EndInv'
<1>1. \A d \in Days : d < Day(clock) => Explained(d)'
  BY ExplainedStays DEF EndInv
<1>2. Day(clock)' = Day(clock) /\ IsLast(clock)' = IsLast(clock) /\ Day(clock') = Day(clock)
  BY DEF Day, IsLast, TickOf
<1> QED
  BY <1>1, <1>2 DEF EndInv

(* Every step keeps the days explained. *)
LEMMA EndNext ==
    ASSUME ReportInv, EndInv, [Next]_vars
    PROVE  EndInv'
<1>1. /\ Day(clock) \in Days /\ excused \subseteq Days /\ current \in Configs /\ Validate(current)
      /\ clock \in Nat
  BY DaysLaw DEF ReportInv, TypeOK
<1>2. CASE TimePasses
  BY <1>2, EndTime
<1>3. CASE Edit \/ Done \/ UNCHANGED vars
  <2>1. UNCHANGED <<clock, ticker, phase, today, messages, faults, current, enabled, excused>>
    BY <1>3 DEF Edit, Done, vars, world
  <2>2. Explained(Day(clock))' = Explained(Day(clock)) /\ Willing' = Willing /\ InHand' = InHand
    BY <2>1 DEF Explained, Reports, Willing, InHand, Day
  <2> QED
    BY <2>1, <2>2, EndStep DEF EndInv
<1>4. CASE Reload
  <2>1. /\ UNCHANGED <<clock, ticker, phase, today, messages, faults>>
        /\ excused' = IF Willing THEN excused ELSE Late
    BY <1>4 DEF Reload
  <2>2. excused \subseteq excused'
    BY <2>1 DEF Late
  <2>3. IsLast(clock) /\ ~Willing => Explained(Day(clock))'
    BY <2>1 DEF Late, Explained, Day
  <2>4. Explained(Day(clock)) => Explained(Day(clock))'
    BY <2>1, <2>2 DEF Explained, Reports, Day
  <2> QED
    BY <2>1, <2>2, <2>3, <2>4, EndStep DEF EndInv, InHand
<1>5. CASE Crash
  <2>1. phase' = "down" /\ UNCHANGED <<clock, messages, excused>> /\ faults \subseteq faults'
    BY <1>5 DEF Crash, Fault, world
  <2> QED
    BY <2>1, EndStep DEF InHand
<1>6. CASE Start
  <2>1. UNCHANGED <<clock, messages, faults>> /\ excused' = Late /\ phase' = "wait"
    BY <1>6 DEF Start
  <2>2. excused \subseteq excused'
    BY <2>1 DEF Late
  <2>3. IsLast(clock) => Explained(Day(clock))'
    BY <2>1 DEF Late, Explained, Day
  <2> QED
    BY <2>1, <2>2, <2>3, EndStep DEF InHand
<1>7. CASE Skip
  <2>1. /\ UNCHANGED <<clock, phase, today, messages, faults, current, enabled, excused>>
        /\ phase = "wait"
        /\ ~ReportDue(clock) \/ lastSentDate = Day(clock)
    BY <1>7 DEF Skip, world
  <2>2. CASE lastSentDate = Day(clock)
    <3>1. Reports(Day(clock)) # {}
      BY <1>1, <2>2, ReportAssumption DEF ReportInv, SentInv, NotedIsSent, Days, NoDay
    <3>2. Explained(Day(clock))'
      BY <2>1, <3>1 DEF Explained, Reports, Day
    <3> QED
      BY <2>1, <3>2, EndStep DEF InHand
  <2>3. CASE ~ReportDue(clock)
    <3>1. IsLast(clock) => current.time = NoTime
      <4>1. ASSUME current.time \in ReportTimes
            PROVE  current.time \in Int /\ current.time =< DayLen - 1
        <5>1. current.time \in 0 .. DayLen - 1
          BY <4>1, ReportAssumption DEF Ticks
        <5> QED
          BY <5>1, ReportAssumption
      <4>2. DayLen - 1 \in Int
        BY ReportAssumption
      <4> QED
        BY <1>1, <2>3, <4>1, <4>2 DEF ReportDue, IsLast, Configs
    <3>2. IsLast(clock) => ~Willing'
      BY <1>1, <2>1, <3>1 DEF Willing, Validate
    <3> QED
      BY <2>1, <3>2, EndStep DEF InHand
  <2> QED
    BY <2>1, <2>2, <2>3
<1>8. CASE Begin
  <2>1. UNCHANGED <<clock, messages, faults, excused>> /\ today' = Day(clock) /\ phase' = "stats"
    BY <1>8 DEF Begin, world
  <2> QED
    BY <2>1, EndStep
<1>9. CASE GetStats \/ Deliver
  <2>1. /\ UNCHANGED <<clock, ticker, today, faults, excused>> /\ phase' \in {"send", "answer"}
        /\ InHand /\ messages \subseteq messages'
    BY <1>9 DEF GetStats, Deliver, world, InHand
  <2> QED
    BY <2>1, EndStep DEF EndInv
<1>10. CASE StatsFail \/ SendFails \/ AnswerLost
  <2>1. /\ UNCHANGED <<clock, messages, excused>> /\ faults \subseteq faults' /\ phase' = "wait"
        /\ \E kind : Fault(kind)
    BY <1>10 DEF StatsFail, SendFails, AnswerLost, Idle, world, Fault
  <2>2. IsLast(clock) => Explained(Day(clock))'
    BY <2>1, FaultNow
  <2> QED
    BY <2>1, <2>2, EndStep DEF InHand
<1>11. CASE SendDisabled
  <2>1. /\ UNCHANGED <<clock, messages, faults, excused, enabled, current>>
        /\ ~enabled /\ phase' = "wait"
    BY <1>11 DEF SendDisabled, Idle, world
  <2>2. ~Willing'
    BY <2>1 DEF Willing
  <2> QED
    BY <2>1, <2>2, EndStep DEF InHand
<1>12. CASE Answered
  <2>1. /\ UNCHANGED <<clock, ticker, messages, faults, excused>>
        /\ phase = "answer" /\ phase' = "wait"
    BY <1>12 DEF Answered, Idle, world
  <2>2. ~ticker' => Explained(Day(clock))'
    <3> SUFFICES ASSUME ~ticker PROVE Explained(Day(clock))'
      BY <2>1
    <3>1. today = Day(clock) /\ Reports(today) # {}
      BY <2>1 DEF EndInv, InHand, ReportInv, SentInv
    <3> QED
      BY <2>1, <3>1 DEF Explained, Reports, Day
  <2> QED
    BY <2>1, <2>2, EndStep DEF InHand
<1> QED
  BY <1>2, <1>3, <1>4, <1>5, <1>6, <1>7, <1>8, <1>9, <1>10, <1>11, <1>12 DEF Next, Run

(* A day without a report had trouble at its last tick: whatever went wrong
   earlier was made up for.  The ticker ticks more than once a day (in the code
   every half minute); a process that started in the only tick of a day would
   have no tick to report at. *)
THEOREM MissedForCause ==
    ASSUME DayLen > 1
    PROVE  Spec => []MissedOnlyAtTheEnd
<1>1. Init => EndInv
  <2> SUFFICES ASSUME Init PROVE EndInv
    OBVIOUS
  <2>1. DayLen \in Nat /\ DayLen > 1 /\ clock = 0
    BY ReportAssumption DEF Init
  <2>2. Day(clock) = 0 /\ TickOf(clock) = 0
    BY <2>1 DEF Day, TickOf
  <2> QED
    BY <2>1, <2>2, ReportAssumption DEF Init, EndInv, IsLast, InHand, Days
<1>2. ReportInv /\ EndInv /\ [Next]_vars => EndInv'
  BY EndNext
<1>3. EndInv => MissedOnlyAtTheEnd
  BY DEF EndInv, Explained, MissedOnlyAtTheEnd
<1> QED
  BY <1>1, <1>2, <1>3, ReportInvariant, PTL DEF Spec

====
