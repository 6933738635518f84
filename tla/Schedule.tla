------------------------------ MODULE Schedule ------------------------------
(***************************************************************************)
(* Opening hours.  shared/src/schedule.ts decides whether a schedule node  *)
(* is open at an instant and calls itself the mirror of the dialplan that  *)
(* scheduleDialplan of asterisk/configGenerator.ts generates; the          *)
(* validator refuses schedules whose windows overlap.  The three are       *)
(* written down here side by side.                                         *)
(*                                                                         *)
(* An instant is what localParts makes of it in the node's time zone: a    *)
(* date, a weekday and a minute of the day.  The time zone database is the *)
(* same question for both sides and is left out.                           *)
(***************************************************************************)
EXTENDS Naturals, FiniteSets

CONSTANTS
    DayMinutes,   \* 24 * 60 in the code
    LastDay,      \* 7 in the code, a Sunday; 1 is a Monday
    WindowIds,    \* ids of time windows
    MaxDate       \* bound: days the clock runs for, from a Monday on

VARIABLES
    schedule,   \* the schedule node in the topology
    dialplan,   \* what was generated from it, NotDeployed before
    now         \* the local time

vars == <<schedule, dialplan, now>>

-----------------------------------------------------------------------------
Minutes == 0 .. DayMinutes - 1
Days == 1 .. LastDay
Dates == 1 .. MaxDate

Window == [id : WindowIds, start : Minutes, end : Minutes, weekdays : SUBSET Days]
ScheduleNode == [windows : SUBSET Window, holidays : SUBSET Dates]
Range == [from : Minutes, to : Minutes, days : SUBSET Days]
Dialplan == [holidays : SUBSET Dates, ranges : SUBSET Range]

NotDeployed == [holidays |-> {}, ranges |-> {}]

TypeOK ==
    /\ schedule \in ScheduleNode
    /\ dialplan \in Dialplan
    /\ now \in [date : Dates, weekday : Days, minute : Minutes]

\* The weekdays before and after, over the end of the week.
Following(day) == IF day = LastDay THEN 1 ELSE day + 1
Previous(day) == IF day = 1 THEN LastDay ELSE day - 1

-----------------------------------------------------------------------------
\* isScheduleOpen.
MirrorInWindow(w, weekday, minute) ==
    IF w.start < w.end
      THEN weekday \in w.weekdays /\ minute >= w.start /\ minute < w.end
      ELSE \/ weekday \in w.weekdays /\ minute >= w.start
           \/ Previous(weekday) \in w.weekdays /\ minute < w.end

IsScheduleOpen(s, t) ==
    /\ t.date \notin s.holidays
    /\ \E w \in s.windows : MirrorInWindow(w, t.weekday, t.minute)

-----------------------------------------------------------------------------
\* validateScheduleNode, on the segments a window has on single days.
\* Mutant: the part after midnight is forgotten.
SegmentsOfFirstDay(w) ==
    {[id |-> w.id, day |-> d, start |-> w.start,
      end |-> IF w.start < w.end THEN w.end ELSE DayMinutes] : d \in w.weekdays}
WindowSegments(w) ==
    IF w.start < w.end
      THEN {[id |-> w.id, day |-> d, start |-> w.start, end |-> w.end] : d \in w.weekdays}
      ELSE {[id |-> w.id, day |-> d, start |-> w.start, end |-> DayMinutes] : d \in w.weekdays}
           \cup {[id |-> w.id, day |-> Following(d), start |-> 0, end |-> w.end] : d \in w.weekdays}

Segments(s) == UNION {WindowSegments(w) : w \in s.windows}

Overlapping(s) ==
    \E a, b \in Segments(s) :
        a.id # b.id /\ a.day = b.day /\ a.start < b.end /\ b.start < a.end

ValidWindows(s) ==
    /\ \A v, w \in s.windows : v.id = w.id => v = w
    /\ \A w \in s.windows : w.start # w.end /\ w.weekdays # {}

\* No issue of severity error.
ScheduleAccepted(s) == s.windows # {} /\ ValidWindows(s) /\ ~Overlapping(s)

-----------------------------------------------------------------------------
\* scheduleDialplan.  Every GotoIfTime line goes to the open edge, so their
\* order does not matter; the holidays are tested before all of them.
\* Mutant: the window is generated up to and including its end.
PreviousMinuteInclusive(minute) == minute
PreviousMinute(minute) == IF minute = 0 THEN DayMinutes - 1 ELSE minute - 1

WindowRanges(w) ==
    IF w.start < w.end
      THEN {[from |-> w.start, to |-> PreviousMinute(w.end), days |-> w.weekdays]}
      ELSE {[from |-> w.start, to |-> DayMinutes - 1, days |-> w.weekdays],
            [from |-> 0, to |-> PreviousMinute(w.end),
             days |-> {Following(d) : d \in w.weekdays}]}

ScheduleDialplan(s) ==
    [holidays |-> s.holidays, ranges |-> UNION {WindowRanges(w) : w \in s.windows}]

\* GotoIf and GotoIfTime of Asterisk: a range includes its last minute.
GoesToOpen(dp, t) ==
    /\ t.date \notin dp.holidays
    /\ \E r \in dp.ranges : t.weekday \in r.days /\ t.minute >= r.from /\ t.minute <= r.to

-----------------------------------------------------------------------------
Init ==
    /\ schedule \in ScheduleNode
    /\ dialplan = NotDeployed
    /\ now = [date |-> 1, weekday |-> 1, minute |-> 0]

\* A deployment validates the topology before it generates anything.
Deploy ==
    /\ dialplan = NotDeployed
    /\ ScheduleAccepted(schedule)
    /\ dialplan' = ScheduleDialplan(schedule)
    /\ UNCHANGED <<schedule, now>>

NextMinute ==
    /\ now.minute < DayMinutes - 1
    /\ now' = [now EXCEPT !.minute = now.minute + 1]
    /\ UNCHANGED <<schedule, dialplan>>

NextDay ==
    /\ now.minute = DayMinutes - 1
    /\ now.date < MaxDate
    /\ now' = [date |-> now.date + 1, weekday |-> Following(now.weekday), minute |-> 0]
    /\ UNCHANGED <<schedule, dialplan>>

Next == Deploy \/ NextMinute \/ NextDay

Spec == Init /\ [][Next]_vars

-----------------------------------------------------------------------------
(* Properties *)

Deployed == dialplan # NotDeployed

\* shared/src/schedule.ts:41 calls isScheduleOpen the deterministic mirror of
\* the generated decision: whatever was deployed, both say the same.
MirrorAgrees == Deployed => (GoesToOpen(dialplan, now) <=> IsScheduleOpen(schedule, now))

\* The mirror is exact as long as no window ends at midnight, over the end of
\* a day, the end of the week and holidays (the editor's preview and the
\* telephone never disagree).
MirrorAgreesBeforeMidnight ==
    (\A w \in schedule.windows : w.end # 0) => MirrorAgrees

\* What the validator calls an overlap is one: windows with ids of their own
\* are refused exactly if some minute of the week belongs to two of them.
OverlapIsExact ==
    ValidWindows(schedule) =>
        (Overlapping(schedule) <=>
            \E v, w \in schedule.windows : v # w /\
                \E d \in Days, m \in Minutes : MirrorInWindow(v, d, m) /\ MirrorInWindow(w, d, m))
=============================================================================
