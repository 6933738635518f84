----------------------------- MODULE Calls_proofs -----------------------------
(***************************************************************************)
(* Calls, for any topology, any names and any opening hours.  What is      *)
(* generated from an accepted topology defines nothing twice and refers    *)
(* only to what it defines, so no call falls off the dialplan; the cycle   *)
(* check finds every loop, so no call goes round without a timeout or a    *)
(* wrong key; the preview of opening hours says what the dialplan does     *)
(* unless a window ends at midnight, and the validator's overlaps are the  *)
(* real ones.                                                              *)
(***************************************************************************)
EXTENDS MCCalls, FiniteSetTheorems, TLAPS

-----------------------------------------------------------------------------
(* Opening hours: Schedule *)

LEMMA DayNumbers ==
    /\ DayMinutes \in Nat /\ DayMinutes >= 1
    /\ LastDay \in Nat /\ LastDay >= 1
    /\ MaxDate \in Nat /\ MaxDate >= 1
BY HoursAssumption

\* The week is a circle.
LEMMA Week ==
    ASSUME NEW d \in Hours!Days
    PROVE  /\ Hours!Following(d) \in Hours!Days /\ Hours!Previous(d) \in Hours!Days
           /\ Hours!Following(Hours!Previous(d)) = d
           /\ Hours!Previous(Hours!Following(d)) = d
BY DayNumbers DEF Hours!Days, Hours!Following, Hours!Previous

LEMMA WindowTimes ==
    ASSUME NEW w \in Hours!Window
    PROVE  /\ w.start \in Nat /\ w.start < DayMinutes
           /\ w.end \in Nat /\ w.end < DayMinutes
           /\ w.weekdays \subseteq Hours!Days
BY DayNumbers DEF Hours!Window, Hours!Minutes

\* The ranges of one window, in the terms of the mirror.
LEMMA RangesAreTheWindow ==
    ASSUME NEW w \in Hours!Window, w.end # 0, NEW d \in Hours!Days, NEW m \in Hours!Minutes
    PROVE  (\E r \in Hours!WindowRanges(w) : d \in r.days /\ m >= r.from /\ m <= r.to)
             <=> Hours!MirrorInWindow(w, d, m)
<1>1. m \in Nat /\ m < DayMinutes
  BY DayNumbers DEF Hours!Minutes
<1>2. /\ Hours!PreviousMinute(w.end) = w.end - 1
      /\ m <= w.end - 1 <=> m < w.end
      /\ m >= 0 /\ m <= DayMinutes - 1
  BY <1>1, WindowTimes, DayNumbers DEF Hours!PreviousMinute
<1>3. CASE w.start < w.end
  <2>1. Hours!WindowRanges(w) = {[from |-> w.start, to |-> w.end - 1, days |-> w.weekdays]}
    BY <1>2, <1>3 DEF Hours!WindowRanges
  <2>2. QED
    BY <1>2, <1>3, <2>1 DEF Hours!MirrorInWindow
<1>4. CASE ~(w.start < w.end)
  <2> DEFINE after == {Hours!Following(x) : x \in w.weekdays}
  <2>1. Hours!WindowRanges(w) =
            {[from |-> w.start, to |-> DayMinutes - 1, days |-> w.weekdays],
             [from |-> 0, to |-> w.end - 1, days |-> after]}
    BY <1>2, <1>4 DEF Hours!WindowRanges
  <2>2. d \in after <=> Hours!Previous(d) \in w.weekdays
    BY Week, WindowTimes
  <2> HIDE DEF after
  <2>3. (\E r \in Hours!WindowRanges(w) : d \in r.days /\ m >= r.from /\ m <= r.to)
          <=> \/ d \in w.weekdays /\ m >= w.start
              \/ d \in after /\ m < w.end
    BY <1>2, <2>1
  <2>4. QED
    BY <1>4, <2>2, <2>3 DEF Hours!MirrorInWindow
<1>5. QED
  BY <1>3, <1>4

\* The dialplan of a schedule no window of which ends at midnight is open
\* exactly when the schedule is.
LEMMA DialplanIsTheSchedule ==
    ASSUME NEW s \in Hours!ScheduleNode, \A w \in s.windows : w.end # 0,
           NEW t \in [date : Hours!Dates, weekday : Hours!Days, minute : Hours!Minutes]
    PROVE  Hours!GoesToOpen(Hours!ScheduleDialplan(s), t) <=> Hours!IsScheduleOpen(s, t)
<1>1. /\ s.windows \subseteq Hours!Window
      /\ t.weekday \in Hours!Days /\ t.minute \in Hours!Minutes
  BY DEF Hours!ScheduleNode
<1>2. \A w \in s.windows :
          (\E r \in Hours!WindowRanges(w) : t.weekday \in r.days /\ t.minute >= r.from /\ t.minute <= r.to)
            <=> Hours!MirrorInWindow(w, t.weekday, t.minute)
  BY <1>1, RangesAreTheWindow
<1>3. (\E r \in UNION {Hours!WindowRanges(w) : w \in s.windows} :
           t.weekday \in r.days /\ t.minute >= r.from /\ t.minute <= r.to)
        <=> \E w \in s.windows : Hours!MirrorInWindow(w, t.weekday, t.minute)
  BY <1>2
<1>4. QED
  BY <1>3 DEF Hours!GoesToOpen, Hours!ScheduleDialplan, Hours!IsScheduleOpen

\* The segments with given times on a set of days.
Pieces(id, days, from, to) == {[id |-> id, day |-> x, start |-> from, end |-> to] : x \in days}

LEMMA PieceCovers ==
    ASSUME NEW id, NEW days, NEW from, NEW to, NEW d, NEW m
    PROVE  (\E a \in Pieces(id, days, from, to) : a.day = d /\ a.start <= m /\ m < a.end)
              <=> d \in days /\ from <= m /\ m < to
<1>1. ASSUME NEW a \in Pieces(id, days, from, to), a.day = d, a.start <= m, m < a.end
      PROVE  d \in days /\ from <= m /\ m < to
  BY <1>1 DEF Pieces
<1>2. ASSUME d \in days, from <= m, m < to
      PROVE  \E a \in Pieces(id, days, from, to) : a.day = d /\ a.start <= m /\ m < a.end
  <2> DEFINE a == [id |-> id, day |-> d, start |-> from, end |-> to]
  <2>1. a \in Pieces(id, days, from, to)
    BY <1>2 DEF Pieces
  <2>2. a.day = d /\ a.start <= m /\ m < a.end
    BY <1>2
  <2>3. QED
    BY <2>1, <2>2
<1>3. QED
  BY <1>1, <1>2

\* A segment of a window covers the minutes at which it is open.
LEMMA SegmentsAreTheWindow ==
    ASSUME NEW w \in Hours!Window, NEW d \in Hours!Days, NEW m \in Hours!Minutes
    PROVE  Hours!MirrorInWindow(w, d, m) <=>
               \E a \in Hours!WindowSegments(w) : a.day = d /\ a.start <= m /\ m < a.end
<1>1. m \in Nat /\ m < DayMinutes /\ 0 <= m
  BY DayNumbers DEF Hours!Minutes
<1>2. CASE w.start < w.end
  <2>1. Hours!WindowSegments(w) = Pieces(w.id, w.weekdays, w.start, w.end)
    BY <1>2 DEF Hours!WindowSegments, Pieces
  <2>2. (\E a \in Pieces(w.id, w.weekdays, w.start, w.end) : a.day = d /\ a.start <= m /\ m < a.end)
          <=> d \in w.weekdays /\ w.start <= m /\ m < w.end
    BY PieceCovers
  <2>3. w.start <= m <=> m >= w.start
    BY <1>1, WindowTimes
  <2>4. QED
    BY <1>2, <2>1, <2>2, <2>3 DEF Hours!MirrorInWindow
<1>3. CASE ~(w.start < w.end)
  <2> DEFINE after == {Hours!Following(x) : x \in w.weekdays}
             first == Pieces(w.id, w.weekdays, w.start, DayMinutes)
             rest == Pieces(w.id, after, 0, w.end)
  <2>1. Hours!WindowSegments(w) = first \cup rest
    BY <1>3 DEF Hours!WindowSegments, Pieces
  <2>2. d \in after <=> Hours!Previous(d) \in w.weekdays
    BY Week, WindowTimes
  <2> HIDE DEF after
  <2>3. (\E a \in first : a.day = d /\ a.start <= m /\ m < a.end)
          <=> d \in w.weekdays /\ m >= w.start
    <3>1. (\E a \in first : a.day = d /\ a.start <= m /\ m < a.end)
            <=> d \in w.weekdays /\ w.start <= m /\ m < DayMinutes
      BY PieceCovers
    <3>2. w.start <= m <=> m >= w.start
      BY <1>1, WindowTimes
    <3>3. QED
      BY <1>1, <3>1, <3>2
  <2>4. (\E a \in rest : a.day = d /\ a.start <= m /\ m < a.end)
          <=> Hours!Previous(d) \in w.weekdays /\ m < w.end
    BY <1>1, <2>2, PieceCovers
  <2> HIDE DEF first, rest
  <2>5. QED
    BY <1>3, <2>1, <2>3, <2>4 DEF Hours!MirrorInWindow
<1>4. QED
  BY <1>2, <1>3

LEMMA SegmentTimes ==
    ASSUME NEW w \in Hours!Window, w.start # w.end, NEW a \in Hours!WindowSegments(w)
    PROVE  /\ a.id = w.id /\ a.day \in Hours!Days
           /\ a.start \in Nat /\ a.end \in Nat /\ a.end <= DayMinutes
           /\ a.start < a.end \/ a.end = 0
<1>1. \A x \in w.weekdays : x \in Hours!Days /\ Hours!Following(x) \in Hours!Days
  BY Week, WindowTimes
<1>2. CASE w.start < w.end
  <2>1. PICK x \in w.weekdays : a = [id |-> w.id, day |-> x, start |-> w.start, end |-> w.end]
    BY <1>2 DEF Hours!WindowSegments
  <2>2. a.id = w.id /\ a.day = x /\ a.start = w.start /\ a.end = w.end
    BY <2>1
  <2>3. QED
    BY <1>1, <1>2, <2>2, WindowTimes, DayNumbers
<1>3. CASE ~(w.start < w.end)
  <2>1. PICK x \in w.weekdays :
            \/ a = [id |-> w.id, day |-> x, start |-> w.start, end |-> DayMinutes]
            \/ a = [id |-> w.id, day |-> Hours!Following(x), start |-> 0, end |-> w.end]
    BY <1>3 DEF Hours!WindowSegments
  <2>2. /\ a.id = w.id /\ a.day \in {x, Hours!Following(x)}
        /\ \/ a.start = w.start /\ a.end = DayMinutes
           \/ a.start = 0 /\ a.end = w.end
    BY <2>1
  <2>3. QED
    BY <1>1, <2>2, WindowTimes, DayNumbers
<1>4. QED
  BY <1>2, <1>3

\* Segments that overlap have a minute in common, and the other way round.
LEMMA OverlapsAreMinutes ==
    ASSUME NEW s \in Hours!ScheduleNode
    PROVE  Hours!ValidWindows(s) =>
               (Hours!Overlapping(s) <=>
                   \E v1, v2 \in s.windows : v1 # v2 /\
                       \E d \in Hours!Days, m \in Hours!Minutes :
                           Hours!MirrorInWindow(v1, d, m) /\ Hours!MirrorInWindow(v2, d, m))
<1> SUFFICES ASSUME Hours!ValidWindows(s)
             PROVE  Hours!Overlapping(s) <=>
                       \E v1, v2 \in s.windows : v1 # v2 /\
                           \E d \in Hours!Days, m \in Hours!Minutes :
                               Hours!MirrorInWindow(v1, d, m) /\ Hours!MirrorInWindow(v2, d, m)
  OBVIOUS
<1>1. /\ s.windows \subseteq Hours!Window
      /\ \A w1, w2 \in s.windows : w1.id = w2.id => w1 = w2
      /\ \A w1 \in s.windows : w1.start # w1.end
  BY DEF Hours!ScheduleNode, Hours!ValidWindows
<1>2. ASSUME Hours!Overlapping(s)
      PROVE  \E v1, v2 \in s.windows : v1 # v2 /\
                 \E d \in Hours!Days, m \in Hours!Minutes :
                     Hours!MirrorInWindow(v1, d, m) /\ Hours!MirrorInWindow(v2, d, m)
  <2>1. PICK a \in Hours!Segments(s), e \in Hours!Segments(s) :
            a.id # e.id /\ a.day = e.day /\ a.start < e.end /\ e.start < a.end
    BY <1>2 DEF Hours!Overlapping
  <2>2. PICK w1 \in s.windows, w2 \in s.windows :
            a \in Hours!WindowSegments(w1) /\ e \in Hours!WindowSegments(w2)
    BY DEF Hours!Segments
  <2>3. /\ a.id = w1.id /\ e.id = w2.id /\ a.day \in Hours!Days
        /\ a.start \in Nat /\ a.end \in Nat /\ a.end <= DayMinutes
        /\ e.start \in Nat /\ e.end \in Nat /\ e.end <= DayMinutes
        /\ a.start < a.end \/ a.end = 0
        /\ e.start < e.end \/ e.end = 0
    BY <1>1, <2>2, SegmentTimes
  <2> DEFINE m == IF a.start < e.start THEN e.start ELSE a.start
  <2>4. /\ a.start < a.end /\ e.start < e.end
    BY <2>1, <2>3
  <2>5. /\ m \in Hours!Minutes
        /\ a.start <= m /\ m < a.end /\ e.start <= m /\ m < e.end
    BY <2>1, <2>3, <2>4, DayNumbers DEF Hours!Minutes
  <2> HIDE DEF m
  <2>6. Hours!MirrorInWindow(w1, a.day, m)
    BY <1>1, <2>2, <2>3, <2>5, SegmentsAreTheWindow
  <2>7. Hours!MirrorInWindow(w2, a.day, m)
    BY <1>1, <2>1, <2>2, <2>3, <2>5, SegmentsAreTheWindow
  <2>8. QED
    BY <2>1, <2>3, <2>5, <2>6, <2>7
<1>3. ASSUME NEW v1 \in s.windows, NEW v2 \in s.windows, v1 # v2,
             NEW d \in Hours!Days, NEW m \in Hours!Minutes,
             Hours!MirrorInWindow(v1, d, m), Hours!MirrorInWindow(v2, d, m)
      PROVE  Hours!Overlapping(s)
  <2>1. PICK a \in Hours!WindowSegments(v1) : a.day = d /\ a.start <= m /\ m < a.end
    BY <1>1, <1>3, SegmentsAreTheWindow
  <2>2. PICK e \in Hours!WindowSegments(v2) : e.day = d /\ e.start <= m /\ m < e.end
    BY <1>1, <1>3, SegmentsAreTheWindow
  <2>3. /\ a.id = v1.id /\ e.id = v2.id
        /\ a.start \in Nat /\ a.end \in Nat /\ e.start \in Nat /\ e.end \in Nat
    BY <1>1, SegmentTimes
  <2>4. a.start < e.end /\ e.start < a.end
    BY <2>1, <2>2, <2>3, DayNumbers DEF Hours!Minutes
  <2>5. a \in Hours!Segments(s) /\ e \in Hours!Segments(s)
    BY DEF Hours!Segments
  <2>6. QED
    BY <1>1, <1>3, <2>1, <2>2, <2>3, <2>4, <2>5 DEF Hours!Overlapping
<1>4. QED
  BY <1>2, <1>3

\* What is deployed was generated from the schedule.
HoursInv ==
    /\ Hours!TypeOK
    /\ dialplan # Hours!NotDeployed => dialplan = Hours!ScheduleDialplan(schedule)

LEMMA GeneratedRanges ==
    ASSUME NEW s \in Hours!ScheduleNode
    PROVE  Hours!ScheduleDialplan(s) \in Hours!Dialplan
<1>1. \A w \in s.windows : Hours!WindowRanges(w) \subseteq Hours!Range
  <2>1. SUFFICES ASSUME NEW w \in Hours!Window
                 PROVE  Hours!WindowRanges(w) \subseteq Hours!Range
    BY DEF Hours!ScheduleNode
  <2>2. /\ w.start \in Hours!Minutes /\ Hours!PreviousMinute(w.end) \in Hours!Minutes
        /\ 0 \in Hours!Minutes /\ DayMinutes - 1 \in Hours!Minutes
    BY WindowTimes, DayNumbers DEF Hours!Minutes, Hours!PreviousMinute
  <2>3. /\ w.weekdays \in SUBSET Hours!Days
        /\ {Hours!Following(d) : d \in w.weekdays} \in SUBSET Hours!Days
    BY WindowTimes, Week
  <2>4. QED
    BY <2>2, <2>3 DEF Hours!WindowRanges, Hours!Range
<1>2. QED
  BY <1>1 DEF Hours!ScheduleDialplan, Hours!Dialplan, Hours!ScheduleNode

LEMMA HoursStart == Hours!Init => HoursInv
<1>1. 1 \in Hours!Dates /\ 1 \in Hours!Days /\ 0 \in Hours!Minutes
  BY DayNumbers DEF Hours!Dates, Hours!Days, Hours!Minutes
<1>2. QED
  BY <1>1 DEF Hours!Init, HoursInv, Hours!TypeOK, Hours!NotDeployed, Hours!Dialplan

LEMMA HoursStep == HoursInv /\ [Hours!Next]_hourVars => HoursInv'
<1> SUFFICES ASSUME HoursInv, [Hours!Next]_hourVars PROVE HoursInv'
  OBVIOUS
<1>1. CASE Hours!Deploy
  BY <1>1, GeneratedRanges DEF Hours!Deploy, HoursInv, Hours!TypeOK
<1>2. CASE Hours!NextMinute
  <2>1. now' \in [date : Hours!Dates, weekday : Hours!Days, minute : Hours!Minutes]
    BY <1>2, DayNumbers DEF Hours!NextMinute, HoursInv, Hours!TypeOK, Hours!Minutes
  <2>2. QED
    BY <1>2, <2>1 DEF Hours!NextMinute, HoursInv, Hours!TypeOK
<1>3. CASE Hours!NextDay
  <2>1. /\ now.date + 1 \in Hours!Dates /\ 0 \in Hours!Minutes
        /\ Hours!Following(now.weekday) \in Hours!Days
    BY <1>3, Week, DayNumbers DEF Hours!NextDay, HoursInv, Hours!TypeOK, Hours!Minutes, Hours!Dates
  <2>2. QED
    BY <1>3, <2>1 DEF Hours!NextDay, HoursInv, Hours!TypeOK
<1>4. CASE UNCHANGED hourVars
  BY <1>4 DEF hourVars, HoursInv, Hours!TypeOK
<1>5. QED
  BY <1>1, <1>2, <1>3, <1>4 DEF Hours!Next

LEMMA HoursAreExact ==
    HoursInv => Hours!MirrorAgreesBeforeMidnight /\ Hours!OverlapIsExact
<1> SUFFICES ASSUME HoursInv PROVE Hours!MirrorAgreesBeforeMidnight /\ Hours!OverlapIsExact
  OBVIOUS
<1>1. Hours!MirrorAgreesBeforeMidnight
  BY DialplanIsTheSchedule
  DEF HoursInv, Hours!TypeOK, Hours!MirrorAgreesBeforeMidnight, Hours!MirrorAgrees, Hours!Deployed
<1>2. Hours!OverlapIsExact
  BY OverlapsAreMinutes DEF HoursInv, Hours!TypeOK, Hours!OverlapIsExact
<1>3. QED
  BY <1>1, <1>2
-----------------------------------------------------------------------------
(* What an accepted topology is: Validator *)

\* What the editor can draw.
Drawn(t) ==
    t \in [nodes : Seq(Node \cup {Malformed}), edges : SUBSET Edge, memberships : SUBSET Membership]

Sound(t) == Drawn(t) /\ Accepted(t)

LEMMA SoundNodes ==
    ASSUME NEW t, Sound(t)
    PROVE  /\ Indices(t) = 1 .. Len(t.nodes) /\ Len(t.nodes) \in Nat
           /\ \A i \in Indices(t) : t.nodes[i] \in Node /\ t.nodes[i].type \notin DisabledTypes
<1>1. /\ t.nodes \in Seq(Node \cup {Malformed})
      /\ \A i \in Indices(t) : t.nodes[i] # Malformed
  BY DEF Sound, Drawn, Accepted, ShapeAccepted
<1>2. Indices(t) = 1 .. Len(t.nodes) /\ Len(t.nodes) \in Nat
  BY <1>1 DEF Indices
<1>3. \A i \in Indices(t) : t.nodes[i] \in Node
  BY <1>1, <1>2
<1>4. \A i \in Indices(t) : t.nodes[i].type \notin DisabledTypes
  BY DEF Sound, Accepted, NodesAccepted, OfType
<1>5. QED
  BY <1>2, <1>3, <1>4

\* No two nodes collide in what is generated from them.
LEMMA SoundNames ==
    ASSUME NEW t, Sound(t), NEW i \in Indices(t), NEW j \in Indices(t)
    PROVE  /\ t.nodes[i].id = t.nodes[j].id => i = j
           /\ Sanitize[t.nodes[i].id] = Sanitize[t.nodes[j].id] => i = j
BY DEF Sound, Accepted, NodesAccepted, NodeNamesDistinct, IsInjective

LEMMA SoundExtensions ==
    ASSUME NEW t, Sound(t), NEW i \in OfType(t, {"extension"}), NEW j \in OfType(t, {"extension"})
    PROVE  /\ t.nodes[i].number = t.nodes[j].number => i = j
           /\ Sanitize[t.nodes[i].user] = Sanitize[t.nodes[j].user] => i = j
BY DEF Sound, Accepted, NodesAccepted, ExtensionsAccepted, IsInjective

Boxes(t) ==
    OfType(t, {"voicemail"}) \cup {j \in OfType(t, {"extension"}) : t.nodes[j].mailbox # NoMailbox}

LEMMA SoundBoxes ==
    ASSUME NEW t, Sound(t), NEW i \in Boxes(t), NEW j \in Boxes(t)
    PROVE  t.nodes[i].mailbox = t.nodes[j].mailbox => i = j
BY DEF Sound, Accepted, NodesAccepted, MailboxesAccepted, IsInjective, Boxes

\* nodeById finds the node that has the id.
LEMMA FoundById ==
    ASSUME NEW t, Sound(t), NEW i \in Indices(t)
    PROVE  NodeById(t, t.nodes[i].id) = t.nodes[i]
<1> DEFINE P(k) == t.nodes[k].id = t.nodes[i].id
                   /\ \A j \in 1 .. k - 1 : t.nodes[j].id # t.nodes[i].id
<1>1. P(i)
  <2>1. ASSUME NEW j \in 1 .. i - 1 PROVE t.nodes[j].id # t.nodes[i].id
    <3>1. j \in Indices(t) /\ j # i
      BY SoundNodes
    <3>2. QED
      BY <3>1, SoundNames
  <2>2. QED
    BY <2>1
<1>2. (CHOOSE k \in Indices(t) : P(k)) = i
  BY <1>1, SoundNames
<1>3. QED
  BY <1>2 DEF NodeById

LEMMA SoundEdges ==
    ASSUME NEW t, Sound(t), NEW e \in t.edges
    PROVE  \E i \in Indices(t) : t.nodes[i].id = e.target
BY DEF Sound, Accepted, EdgesAccepted, EndsExist, IdsOf

\* A group has members, and all of them are extensions.
LEMMA SoundGroups ==
    ASSUME NEW t, Sound(t), NEW i \in OfType(t, {"ringgroup", "queue"})
    PROVE  /\ MembersOf(t, t.nodes[i].id) # {}
           /\ \A name \in MembersOf(t, t.nodes[i].id) :
                 \E j \in OfType(t, {"extension"}) : name = Sanitize[t.nodes[j].user]
<1> DEFINE In == {x \in t.memberships :
        x.group = t.nodes[i].id /\ x.member \in IdsOf(t) /\ NodeById(t, x.member).type = "extension"}
<1>1. MembersOf(t, t.nodes[i].id) = {Sanitize[NodeById(t, x.member).user] : x \in In}
  BY DEF MembersOf
<1>2. PICK x \in t.memberships : x.group = t.nodes[i].id
  BY DEF Sound, Accepted, GroupsHaveMembers
<1>3. x.member \in IdsOf(t) /\ NodeById(t, x.member).type = "extension"
  BY <1>2 DEF Sound, Accepted, MembershipsAccepted
<1>4. x \in In
  BY <1>2, <1>3
<1>5. ASSUME NEW y \in In
      PROVE  \E j \in OfType(t, {"extension"}) : Sanitize[NodeById(t, y.member).user] = Sanitize[t.nodes[j].user]
  <2>1. PICK j \in Indices(t) : t.nodes[j].id = y.member
    BY DEF IdsOf
  <2>2. NodeById(t, y.member) = t.nodes[j]
    BY <2>1, FoundById
  <2>3. QED
    BY <2>2 DEF OfType
<1>6. QED
  BY <1>1, <1>4, <1>5

-----------------------------------------------------------------------------
(* What is generated from it: Dialplan *)

Flow(t, i) == Definition(CallflowAt(t.nodes[i].id), CallflowSteps(t, t.nodes[i]))

\* The kinds of extension there are.
LEMMA Generated ==
    ASSUME NEW t, NEW d
    PROVE  d \in GenerateExtensions(t) <=>
              \/ \E i \in OfType(t, {"extension"}) : d = InternalEntry(t, t.nodes[i])
              \/ \E i \in Indices(t) : d = Entrypoint(t, i)
              \/ \E i \in Indices(t) : d = Flow(t, i)
              \/ \E i \in OfType(t, {"ivr"}) : d \in IvrContext(t, t.nodes[i])
BY DEF GenerateExtensions, Flow

LEMMA IvrExtensions ==
    ASSUME NEW t, NEW n, NEW d \in IvrContext(t, n)
    PROVE  \/ d = Definition(IvrAt(n.id, "s"), <<[app |-> "ResetRetries"], [app |-> "Menu"]>>)
           \/ d = Definition(IvrAt(n.id, "t"), GotoOr(EdgesWith(t, n.id, {"timeout"}), <<Hangup>>))
           \/ d = Definition(IvrAt(n.id, "i"), <<Retry(t, n)>>)
           \/ d = Definition(IvrAt(n.id, "giveup"), <<Hangup>>)
           \/ \E e \in EdgesWith(t, n.id, {"digit"}) : d = Definition(IvrAt(n.id, e.digit), <<Goto(e)>>)
BY DEF IvrContext

LEMMA DefinitionFields ==
    ASSUME NEW context, NEW exten, NEW steps
    PROVE  /\ Definition(At(context, exten), steps).at.context = context
           /\ Definition(At(context, exten), steps).at.exten = exten
           /\ Definition(At(context, exten), steps).at = At(context, exten)
           /\ Definition(At(context, exten), steps).steps = steps
BY DEF Definition, At

\* Within the context of an IVR.
LEMMA IvrUnique ==
    ASSUME NEW t, Sound(t), NEW n \in Node, NEW d \in IvrContext(t, n), NEW e \in IvrContext(t, n),
           d.at = e.at
    PROVE  d = e
<1>1. \A f \in EdgesWith(t, n.id, {"digit"}) :
          /\ f \in t.edges /\ f.source = n.id /\ f.condition = "digit"
          /\ f.digit \notin {"s", "t", "i", "giveup"}
  BY DialplanAssumption DEF EdgesWith, Outgoing, Sound, Drawn, Edge
<1>2. \A f, g \in EdgesWith(t, n.id, {"digit"}) : f.digit = g.digit => f = g
  BY <1>1 DEF Sound, Accepted, EdgesAccepted, Unambiguous
<1>3. d.at.exten = e.at.exten
  OBVIOUS
<1>4. \A exten, steps : Definition(IvrAt(n.id, exten), steps).at.exten = exten
  BY DefinitionFields DEF IvrAt
<1> DEFINE Fixed(x) == \/ x = Definition(IvrAt(n.id, "s"), <<[app |-> "ResetRetries"], [app |-> "Menu"]>>)
                       \/ x = Definition(IvrAt(n.id, "t"), GotoOr(EdgesWith(t, n.id, {"timeout"}), <<Hangup>>))
                       \/ x = Definition(IvrAt(n.id, "i"), <<Retry(t, n)>>)
                       \/ x = Definition(IvrAt(n.id, "giveup"), <<Hangup>>)
           Key(x, f) == x = Definition(IvrAt(n.id, f.digit), <<Goto(f)>>)
<1>5. \A x \in IvrContext(t, n) : Fixed(x) \/ \E f \in EdgesWith(t, n.id, {"digit"}) : Key(x, f)
  BY IvrExtensions, ZenonT(30)
<1>6. \A x : Fixed(x) => x.at.exten \in {"s", "t", "i", "giveup"}
  BY <1>4
<1>7. \A x, f : Key(x, f) => x.at.exten = f.digit
  BY <1>4
<1>8. Fixed(d) /\ Fixed(e) => d = e
  BY <1>3, <1>4
<1> HIDE DEF Fixed
<1>9. ASSUME NEW f \in EdgesWith(t, n.id, {"digit"}), Key(d, f) PROVE d = e
  <2>1. d.at.exten = f.digit /\ ~Fixed(e)
    BY <1>1, <1>3, <1>6, <1>7, <1>9
  <2>2. PICK g \in EdgesWith(t, n.id, {"digit"}) : Key(e, g)
    BY <1>5, <2>1
  <2>3. e.at.exten = g.digit
    BY <1>7, <2>2
  <2>4. f = g
    BY <1>2, <1>3, <2>1, <2>3
  <2>5. QED
    BY <1>9, <2>2, <2>4
<1>10. CASE Fixed(d)
  <2>1. \A f \in EdgesWith(t, n.id, {"digit"}) : ~Key(e, f)
    <3> HIDE DEF Key
    <3>1. QED
      BY <1>1, <1>3, <1>6, <1>7, <1>10
  <2>2. QED
    BY <1>5, <1>8, <1>10, <2>1
<1>11. QED
  BY <1>5, <1>9, <1>10

LEMMA Contexts ==
    ASSUME NEW t, Sound(t)
    PROVE  /\ \A i \in Indices(t) :
                 /\ InternalEntry(t, t.nodes[i]).at = At("internal", t.nodes[i].number)
                 /\ Entrypoint(t, i).at = At("entrypoints", EntrypointBase + i - 1)
                 /\ Flow(t, i).at = At("callflow", Sanitize[t.nodes[i].id])
           /\ \A i \in Indices(t) : \A d \in IvrContext(t, t.nodes[i]) :
                 /\ d.at.context = Sanitize[t.nodes[i].id]
                 /\ d.at.context \notin {"internal", "entrypoints", "callflow"}
<1>1. \A i \in Indices(t) :
          /\ InternalEntry(t, t.nodes[i]).at = At("internal", t.nodes[i].number)
          /\ Entrypoint(t, i).at = At("entrypoints", EntrypointBase + i - 1)
          /\ Flow(t, i).at = At("callflow", Sanitize[t.nodes[i].id])
  BY DefinitionFields DEF InternalEntry, Entrypoint, Flow, CallflowAt
<1>2. ASSUME NEW i \in Indices(t), NEW d \in IvrContext(t, t.nodes[i])
      PROVE  d.at.context = Sanitize[t.nodes[i].id]
  <2>1. \A exten, steps : Definition(IvrAt(t.nodes[i].id, exten), steps).at.context = Sanitize[t.nodes[i].id]
    BY DefinitionFields DEF IvrAt
  <2> DEFINE n == t.nodes[i]
             OfIvr(x) == x.at.context = Sanitize[n.id]
  <2>2. \A exten, steps : OfIvr(Definition(IvrAt(n.id, exten), steps))
    BY <2>1
  <2> HIDE DEF n, OfIvr
  <2>3. \A x \in IvrContext(t, n) : OfIvr(x)
    BY <2>2 DEF IvrContext
  <2>4. QED
    BY <2>3 DEF n, OfIvr
<1>3. \A i \in Indices(t) : t.nodes[i].id \in NodeIds
  BY SoundNodes DEF Node
<1>4. QED
  BY <1>1, <1>2, <1>3, DialplanAssumption

LEMMA ExtensionsUnique ==
    ASSUME NEW t, Sound(t), NEW d \in GenerateExtensions(t), NEW e \in GenerateExtensions(t), d.at = e.at
    PROVE  d = e
<1>1. \A x, y, x2, y2 : At(x, y) = At(x2, y2) => x = x2 /\ y = y2
  BY DEF At
<1>2. \A x, y : At(x, y).context = x
  BY DEF At
<1>3. ASSUME NEW i \in OfType(t, {"extension"}), NEW j \in OfType(t, {"extension"}),
             d = InternalEntry(t, t.nodes[i]), e = InternalEntry(t, t.nodes[j])
      PROVE  d = e
  BY <1>1, <1>3, Contexts, SoundExtensions DEF OfType
<1>4. ASSUME NEW i \in Indices(t), NEW j \in Indices(t), d = Entrypoint(t, i), e = Entrypoint(t, j)
      PROVE  d = e
  <2>1. EntrypointBase + i - 1 = EntrypointBase + j - 1
    BY <1>1, <1>4, Contexts
  <2>2. i = j
    BY <2>1, SoundNodes DEF EntrypointBase
  <2>3. QED
    BY <1>4, <2>2
<1>5. ASSUME NEW i \in Indices(t), NEW j \in Indices(t), d = Flow(t, i), e = Flow(t, j)
      PROVE  d = e
  BY <1>1, <1>5, Contexts, SoundNames
<1>6. ASSUME NEW i \in OfType(t, {"ivr"}), NEW j \in OfType(t, {"ivr"}),
             d \in IvrContext(t, t.nodes[i]), e \in IvrContext(t, t.nodes[j])
      PROVE  d = e
  <2>1. i \in Indices(t) /\ j \in Indices(t)
    BY DEF OfType
  <2>2. i = j /\ t.nodes[i] \in Node
    BY <1>6, <2>1, Contexts, SoundNames, SoundNodes
  <2>3. QED
    BY <1>6, <2>2, IvrUnique
<1>7. \A i \in OfType(t, {"extension", "ivr"}) : i \in Indices(t)
  BY DEF OfType
<1>8. OfType(t, {"extension"}) \subseteq Indices(t) /\ OfType(t, {"ivr"}) \subseteq Indices(t)
  BY DEF OfType
<1>9. QED
  BY <1>2, <1>3, <1>4, <1>5, <1>6, <1>8, Contexts, Generated

LEMMA FilesUnique ==
    ASSUME NEW t, Sound(t)
    PROVE  /\ \A p, q \in GeneratePjsip(t) : p[1] = q[1] => p = q
           /\ \A p, q \in GenerateQueues(t) : p.name = q.name => p = q
           /\ \A p, q \in GenerateVoicemail(t) : p[1] = q[1] => p = q
<1>1. \A p, q \in GeneratePjsip(t) : p[1] = q[1] => p = q
  BY SoundExtensions DEF GeneratePjsip
<1>2. \A p, q \in GenerateQueues(t) : p.name = q.name => p = q
  BY SoundNames DEF GenerateQueues, OfType
<1>3. GenerateVoicemail(t) = {<<t.nodes[i].mailbox, i>> : i \in Boxes(t)}
  BY DEF GenerateVoicemail, Boxes
<1>4. QED
  BY <1>1, <1>2, <1>3, SoundBoxes
-----------------------------------------------------------------------------
(* What a generated line refers to *)

\* The files of a deployment are those of an accepted topology.
Files(t) == Sound(t) /\ config = GenerateAll(t)

LEMMA FilesUniqueNames ==
    ASSUME NEW t, Files(t)
    PROVE  NamesUnique
<1>1. /\ config.extensions = GenerateExtensions(t) /\ config.pjsip = GeneratePjsip(t)
      /\ config.queues = GenerateQueues(t) /\ config.voicemail = GenerateVoicemail(t)
  BY DEF Files, GenerateAll
<1>2. QED
  BY <1>1, ExtensionsUnique, FilesUnique DEF Files, NamesUnique

LEMMA FlowsDefined ==
    ASSUME NEW t, Files(t)
    PROVE  /\ \A i \in Indices(t) : Defined(CallflowAt(t.nodes[i].id))
           /\ \A e \in t.edges : Defined(CallflowAt(e.target))
<1>1. config.extensions = GenerateExtensions(t)
  BY DEF Files, GenerateAll
<1>2. ASSUME NEW i \in Indices(t) PROVE Defined(CallflowAt(t.nodes[i].id))
  <2>1. Flow(t, i) \in config.extensions
    BY <1>1, Generated
  <2>2. Flow(t, i).at = CallflowAt(t.nodes[i].id)
    BY DefinitionFields DEF Flow, CallflowAt
  <2>3. QED
    BY <2>1, <2>2 DEF Defined
<1>3. ASSUME NEW e \in t.edges PROVE Defined(CallflowAt(e.target))
  BY <1>2, SoundEdges DEF Files
<1>4. QED
  BY <1>2, <1>3

\* The fixed extensions of an IVR's context, in the first of which a wrong key
\* comes back to the second step.
LEMMA IvrDefined ==
    ASSUME NEW t, Files(t), NEW i \in OfType(t, {"ivr"})
    PROVE  /\ \A exten \in {"s", "t", "i", "giveup"} : Defined(IvrAt(t.nodes[i].id, exten))
           /\ DOMAIN StepsAt(IvrAt(t.nodes[i].id, "s")) = {1, 2}
<1> DEFINE n == t.nodes[i]
           s1 == Definition(IvrAt(n.id, "s"), <<[app |-> "ResetRetries"], [app |-> "Menu"]>>)
           t1 == Definition(IvrAt(n.id, "t"), GotoOr(EdgesWith(t, n.id, {"timeout"}), <<Hangup>>))
           i1 == Definition(IvrAt(n.id, "i"), <<Retry(t, n)>>)
           g1 == Definition(IvrAt(n.id, "giveup"), <<Hangup>>)
<1>1. config.extensions = GenerateExtensions(t)
  BY DEF Files, GenerateAll
<1>2. {s1, t1, i1, g1} \subseteq IvrContext(t, n)
  BY DEF IvrContext
<1>3. {s1, t1, i1, g1} \subseteq config.extensions
  <2> HIDE DEF s1, t1, i1, g1
  <2>1. QED
    BY <1>1, <1>2, Generated
<1>4. /\ s1.at = IvrAt(n.id, "s") /\ t1.at = IvrAt(n.id, "t")
      /\ i1.at = IvrAt(n.id, "i") /\ g1.at = IvrAt(n.id, "giveup")
      /\ s1.steps = <<[app |-> "ResetRetries"], [app |-> "Menu"]>>
  BY DefinitionFields DEF IvrAt
<1>5. DOMAIN s1.steps = {1, 2}
  BY <1>4
<1> HIDE DEF n, s1, t1, i1, g1
<1>6. \A exten \in {"s", "t", "i", "giveup"} : Defined(IvrAt(n.id, exten))
  BY <1>3, <1>4 DEF Defined
<1>7. StepsAt(s1.at) = s1.steps
  BY <1>1, <1>3, ExtensionsUnique DEF StepsAt, Files
<1>8. QED
  BY <1>4, <1>5, <1>6, <1>7 DEF n

\* What can be said of a step: it refers to what is defined, nothing runs off
\* the end of the extension, and a menu is in the context of an IVR.
Continues(step) == step.app \in {"Dial", "Queue", "VoiceMail", "ResetRetries"}
InIvr(at, step) ==
    /\ step.app = "Menu" => Defined(At(at.context, "i"))
    /\ step.app = "Retry" =>
          /\ Defined(At(at.context, "giveup")) /\ Defined(At(at.context, "s"))
          /\ step.again \in DOMAIN StepsAt(At(at.context, "s"))
Fits(d) ==
    /\ 1 \in DOMAIN d.steps
    /\ \A k \in DOMAIN d.steps :
          /\ StepResolves(d.steps[k]) /\ InIvr(d.at, d.steps[k])
          /\ Continues(d.steps[k]) => k + 1 \in DOMAIN d.steps

\* The steps that need no more than a topology of their own.
Simple(step) == StepResolves(step) /\ step.app \notin {"Menu", "Retry"}

LEMMA Sequences ==
    ASSUME NEW x, NEW y, NEW z
    PROVE  /\ <<x>> \o <<y>> = <<x, y>> /\ <<>> \o <<y>> = <<y>>
           /\ <<x>> \o <<y, z>> = <<x, y, z>>
<1> DEFINE S == {x, y, z}
<1>1. x \in S /\ y \in S /\ z \in S
  OBVIOUS
<1> HIDE DEF S
<1>2. \A p, q \in Seq(S) : Len(p) = Len(q) /\ (\A k \in 1 .. Len(p) : p[k] = q[k]) => p = q
  OBVIOUS
<1>3. /\ <<>> \in Seq(S) /\ <<x>> \in Seq(S) /\ <<y>> \in Seq(S)
      /\ <<x, y>> \in Seq(S) /\ <<y, z>> \in Seq(S) /\ <<x, y, z>> \in Seq(S)
  BY <1>1
<1>4. <<x>> \o <<y>> = <<x, y>>
  <2> DEFINE p == <<x>> \o <<y>>
  <2>1. p \in Seq(S) /\ Len(p) = 2 /\ p[1] = x /\ p[2] = y
    BY <1>3
  <2> HIDE DEF p
  <2>2. p = <<x, y>>
    BY <1>2, <1>3, <2>1
  <2>3. QED
    BY <2>2 DEF p
<1>5. <<>> \o <<y>> = <<y>>
  BY <1>3
<1>6. <<x>> \o <<y, z>> = <<x, y, z>>
  <2> DEFINE p == <<x>> \o <<y, z>>
  <2>1. p \in Seq(S) /\ Len(p) = 3 /\ p[1] = x /\ p[2] = y /\ p[3] = z
    BY <1>3
  <2> HIDE DEF p
  <2>2. p = <<x, y, z>>
    BY <1>2, <1>3, <2>1
  <2>3. QED
    BY <2>2 DEF p
<1>7. QED
  BY <1>4, <1>5, <1>6

LEMMA SimpleSteps ==
    ASSUME NEW t, Files(t)
    PROVE  /\ Simple(Hangup) /\ ~Continues(Hangup)
           /\ \A e \in t.edges : Simple(Goto(e)) /\ ~Continues(Goto(e))
           /\ \A i \in Boxes(t) : Simple(VoiceMail(t.nodes[i].mailbox))
<1>1. Simple(Hangup) /\ ~Continues(Hangup)
  BY DEF Simple, StepResolves, TargetOf, Hangup, Continues
<1>2. ASSUME NEW e \in t.edges PROVE Simple(Goto(e)) /\ ~Continues(Goto(e))
  <2>1. TargetOf(Goto(e)) = {CallflowAt(e.target)} /\ Goto(e).app = "Goto"
    BY DEF TargetOf, Goto
  <2>2. QED
    BY <2>1, FlowsDefined DEF Simple, StepResolves, Continues
<1>3. ASSUME NEW i \in Boxes(t) PROVE Simple(VoiceMail(t.nodes[i].mailbox))
  <2>1. <<t.nodes[i].mailbox, i>> \in config.voicemail
    BY DEF Files, GenerateAll, GenerateVoicemail, Boxes
  <2>2. /\ TargetOf(VoiceMail(t.nodes[i].mailbox)) = {}
        /\ VoiceMail(t.nodes[i].mailbox).app = "VoiceMail"
        /\ VoiceMail(t.nodes[i].mailbox).mailbox = t.nodes[i].mailbox
    BY DEF TargetOf, VoiceMail
  <2>3. \E box \in config.voicemail : box[1] = t.nodes[i].mailbox
    BY <2>1
  <2>4. QED
    BY <2>2, <2>3 DEF Simple, StepResolves
<1>4. QED
  BY <1>1, <1>2, <1>3

LEMMA ChosenEdge ==
    ASSUME NEW t, NEW id, NEW conditions, NEW otherwise
    PROVE  \/ EdgesWith(t, id, conditions) = {} /\ GotoOr(EdgesWith(t, id, conditions), otherwise) = otherwise
           \/ \E e \in t.edges : GotoOr(EdgesWith(t, id, conditions), otherwise) = <<Goto(e)>>
<1>1. CASE EdgesWith(t, id, conditions) = {}
  BY <1>1 DEF GotoOr
<1>2. CASE EdgesWith(t, id, conditions) # {}
  <2> DEFINE e == CHOOSE f \in EdgesWith(t, id, conditions) : TRUE
  <2>1. e \in t.edges
    BY <1>2 DEF EdgesWith, Outgoing
  <2>2. GotoOr(EdgesWith(t, id, conditions), otherwise) = <<Goto(e)>>
    BY <1>2 DEF GotoOr
  <2>3. QED
    BY <2>1, <2>2
<1>3. QED
  BY <1>1, <1>2

\* A call that nobody takes is finished.
LEMMA FinishSteps ==
    ASSUME NEW t, Files(t), NEW i \in Indices(t)
    PROVE  \/ Finish(t, t.nodes[i]) = <<Hangup>>
           \/ \E step : Simple(step) /\ Finish(t, t.nodes[i]) = <<step, Hangup>>
<1> DEFINE n == t.nodes[i]
           own == IF n.type = "extension" /\ n.mailbox # NoMailbox THEN <<VoiceMail(n.mailbox)>> ELSE <<>>
           first == GotoOr(Fallback(t, n.id), own)
<1>1. Finish(t, n) = first \o <<Hangup>>
  BY DEF Finish
<1>2. first = own \/ \E e \in t.edges : first = <<Goto(e)>>
  BY ChosenEdge DEF Fallback
<1>3. own = <<>> \/ \E step : Simple(step) /\ own = <<step>>
  <2>1. CASE n.type = "extension" /\ n.mailbox # NoMailbox
    <3>1. i \in Boxes(t)
      BY <2>1 DEF Boxes, OfType
    <3>2. QED
      BY <2>1, <3>1, SimpleSteps
  <2>2. QED
    BY <2>1
<1> HIDE DEF own, first
<1>4. first = <<>> \/ \E step : Simple(step) /\ first = <<step>>
  BY <1>2, <1>3, SimpleSteps
<1>5. CASE first = <<>>
  BY <1>1, <1>5, Sequences
<1>6. CASE \E step : Simple(step) /\ first = <<step>>
  <2>1. PICK step : Simple(step) /\ first = <<step>>
    BY <1>6
  <2>2. Finish(t, n) = <<step, Hangup>>
    BY <1>1, <2>1, Sequences
  <2>3. QED
    BY <2>1, <2>2
<1>7. QED
  BY <1>4, <1>5, <1>6

\* The dial of an extension or a group, or a queue, and what comes after it.
LEMMA DialFits ==
    ASSUME NEW t, Files(t), NEW i \in Indices(t), NEW at, NEW step, Simple(step)
    PROVE  Fits(Definition(at, <<step>> \o Finish(t, t.nodes[i])))
<1> DEFINE d == Definition(at, <<step>> \o Finish(t, t.nodes[i]))
<1>1. d.steps = <<step>> \o Finish(t, t.nodes[i])
  BY DEF Definition
<1>2. /\ \A x : Simple(x) => StepResolves(x) /\ InIvr(d.at, x)
      /\ Simple(Hangup) /\ ~Continues(Hangup)
  BY SimpleSteps DEF Simple, InIvr
<1>3. \/ d.steps = <<step, Hangup>>
      \/ \E x : Simple(x) /\ d.steps = <<step, x, Hangup>>
  BY <1>1, FinishSteps, Sequences, SMTT(30)
<1> HIDE DEF d
<1>4. CASE d.steps = <<step, Hangup>>
  <2>1. DOMAIN d.steps = {1, 2} /\ d.steps[1] = step /\ d.steps[2] = Hangup
    BY <1>4
  <2>2. Fits(d)
    BY <1>2, <2>1 DEF Fits
  <2>3. QED
    BY <2>2 DEF d
<1>5. CASE \E x : Simple(x) /\ d.steps = <<step, x, Hangup>>
  <2>1. PICK x : Simple(x) /\ d.steps = <<step, x, Hangup>>
    BY <1>5
  <2>2. DOMAIN d.steps = {1, 2, 3} /\ d.steps[1] = step /\ d.steps[2] = x /\ d.steps[3] = Hangup
    BY <2>1
  <2>3. Fits(d)
    BY <1>2, <2>1, <2>2 DEF Fits
  <2>4. QED
    BY <2>3 DEF d
<1>6. QED
  BY <1>3, <1>4, <1>5
LEMMA OneStepFits ==
    ASSUME NEW at, NEW step, StepResolves(step), InIvr(at, step), ~Continues(step)
    PROVE  Fits(Definition(at, <<step>>))
<1> DEFINE d == Definition(at, <<step>>)
<1>1. DOMAIN d.steps = {1} /\ d.steps[1] = step /\ d.at = at
  BY DEF Definition
<1> HIDE DEF d
<1>2. Fits(d)
  BY <1>1 DEF Fits
<1>3. QED
  BY <1>2 DEF d

LEMMA TwoStepsFit ==
    ASSUME NEW at, NEW first, NEW second, StepResolves(first), StepResolves(second),
           InIvr(at, first), InIvr(at, second), ~Continues(second)
    PROVE  Fits(Definition(at, <<first, second>>))
<1> DEFINE d == Definition(at, <<first, second>>)
<1>1. DOMAIN d.steps = {1, 2} /\ d.steps[1] = first /\ d.steps[2] = second /\ d.at = at
  BY DEF Definition
<1> HIDE DEF d
<1>2. Fits(d)
  BY <1>1 DEF Fits
<1>3. QED
  BY <1>2 DEF d

LEMMA SimpleInIvr ==
    ASSUME NEW at, NEW step, Simple(step)
    PROVE  StepResolves(step) /\ InIvr(at, step)
BY DEF Simple, InIvr

LEMMA JumpFits ==
    ASSUME NEW at, NEW to, Defined(to)
    PROVE  Fits(Definition(at, <<Jump(to)>>))
<1>1. Jump(to).app = "Jump" /\ TargetOf(Jump(to)) = {to}
  BY DEF Jump, TargetOf
<1>2. Simple(Jump(to)) /\ ~Continues(Jump(to))
  BY <1>1 DEF Simple, StepResolves, Continues
<1>3. QED
  BY <1>2, SimpleInIvr, OneStepFits

\* Telephones, groups and queues that are dialled.
LEMMA DialsResolve ==
    ASSUME NEW t, Files(t)
    PROVE  /\ \A i \in OfType(t, {"extension"}) : Simple(Dial({Sanitize[t.nodes[i].user]}))
           /\ \A i \in OfType(t, {"ringgroup"}) : Simple(Dial(MembersOf(t, t.nodes[i].id)))
           /\ \A i \in OfType(t, {"queue"}) : Simple(Queue(t.nodes[i].id))
<1>1. config.pjsip = GeneratePjsip(t) /\ config.queues = GenerateQueues(t)
  BY DEF Files, GenerateAll
<1>2. \A i \in OfType(t, {"extension"}) : Sanitize[t.nodes[i].user] \in {p[1] : p \in config.pjsip}
  <2>1. ASSUME NEW i \in OfType(t, {"extension"})
        PROVE  Sanitize[t.nodes[i].user] \in {p[1] : p \in config.pjsip}
    <3>1. <<Sanitize[t.nodes[i].user], i>> \in config.pjsip
      BY <1>1 DEF GeneratePjsip
    <3>2. QED
      BY <3>1
  <2>2. QED
    BY <2>1
<1>3. \A users : Dial(users).app = "Dial" /\ Dial(users).users = users /\ TargetOf(Dial(users)) = {}
  BY DEF Dial, TargetOf
<1>4. \A users : users # {} /\ users \subseteq {p[1] : p \in config.pjsip} => Simple(Dial(users))
  BY <1>3 DEF Simple, StepResolves
<1>5. \A i \in OfType(t, {"extension"}) : Simple(Dial({Sanitize[t.nodes[i].user]}))
  BY <1>2, <1>4
<1>6. ASSUME NEW i \in OfType(t, {"ringgroup"}) PROVE Simple(Dial(MembersOf(t, t.nodes[i].id)))
  <2>1. i \in OfType(t, {"ringgroup", "queue"})
    BY DEF OfType
  <2>2. QED
    BY <1>2, <1>4, <2>1, SoundGroups DEF Files
<1>7. ASSUME NEW i \in OfType(t, {"queue"}) PROVE Simple(Queue(t.nodes[i].id))
  <2>1. i \in OfType(t, {"ringgroup", "queue"})
    BY DEF OfType
  <2>2. MembersOf(t, t.nodes[i].id) # {}
    BY <2>1, SoundGroups DEF Files
  <2> DEFINE q == [name |-> Sanitize[t.nodes[i].id], node |-> i, members |-> MembersOf(t, t.nodes[i].id)]
  <2>3. q \in config.queues
    BY <1>1 DEF GenerateQueues
  <2>4. q.name = Sanitize[t.nodes[i].id] /\ q.members # {}
    BY <2>2
  <2>5. /\ Queue(t.nodes[i].id).app = "Queue" /\ TargetOf(Queue(t.nodes[i].id)) = {}
        /\ Queue(t.nodes[i].id).queue = Sanitize[t.nodes[i].id]
    BY DEF Queue, TargetOf
  <2> HIDE DEF q
  <2>6. QED
    BY <2>3, <2>4, <2>5 DEF Simple, StepResolves
<1>8. QED
  BY <1>5, <1>6, <1>7

LEMMA ScheduleFits ==
    ASSUME NEW t, Files(t), NEW n, NEW at
    PROVE  Fits(Definition(at, ScheduleSteps(t, n)))
<1> DEFINE open == EdgesWith(t, n.id, {"open"})
           closed == EdgesWith(t, n.id, {"closed"})
<1>1. CASE open = {} \/ closed = {}
  <2>1. ScheduleSteps(t, n) = <<Hangup>>
    BY <1>1 DEF ScheduleSteps
  <2>2. QED
    BY <2>1, SimpleSteps, SimpleInIvr, OneStepFits
<1>2. CASE open # {} /\ closed # {}
  <2> DEFINE choices == {CHOOSE e \in open : TRUE, CHOOSE e \in closed : TRUE}
             step == [app |-> "GotoIfTime", edges |-> choices]
  <2>1. ScheduleSteps(t, n) = <<step>>
    BY <1>2 DEF ScheduleSteps
  <2>2. choices \subseteq t.edges
    BY <1>2 DEF EdgesWith, Outgoing
  <2> HIDE DEF choices
  <2>3. step.app = "GotoIfTime" /\ TargetOf(step) = {CallflowAt(e.target) : e \in choices}
    BY DEF TargetOf
  <2> HIDE DEF step
  <2>4. Simple(step) /\ ~Continues(step)
    BY <2>2, <2>3, FlowsDefined DEF Simple, StepResolves, Continues
  <2>5. QED
    BY <2>1, <2>4, SimpleInIvr, OneStepFits
<1>3. QED
  BY <1>1, <1>2

LEMMA FlowFits ==
    ASSUME NEW t, Files(t), NEW i \in Indices(t)
    PROVE  Fits(Flow(t, i))
<1> DEFINE n == t.nodes[i]
           at == CallflowAt(n.id)
<1>1. Flow(t, i) = Definition(at, CallflowSteps(t, n))
  BY DEF Flow
<1>2. n.type \in {"extension", "ivr", "ringgroup", "queue", "schedule", "voicemail"}
  BY SoundNodes DEF Files, Node, NodeTypes, DisabledTypes
<1>3. \A type : n.type = type => i \in OfType(t, {type})
  BY DEF OfType
<1>4. CASE n.type = "ivr"
  <2>1. CallflowSteps(t, n) = <<Jump(IvrAt(n.id, "s"))>>
    BY <1>4 DEF CallflowSteps
  <2>2. QED
    BY <1>1, <1>3, <1>4, <2>1, IvrDefined, JumpFits
<1>5. CASE n.type = "extension"
  <2>1. CallflowSteps(t, n) = <<Dial({Sanitize[n.user]})>> \o Finish(t, n)
    BY <1>5 DEF CallflowSteps
  <2>2. QED
    BY <1>1, <1>3, <1>5, <2>1, DialsResolve, DialFits
<1>6. CASE n.type = "ringgroup"
  <2>1. CallflowSteps(t, n) = <<Dial(MembersOf(t, n.id))>> \o Finish(t, n)
    BY <1>6 DEF CallflowSteps
  <2>2. QED
    BY <1>1, <1>3, <1>6, <2>1, DialsResolve, DialFits
<1>7. CASE n.type = "queue"
  <2>1. CallflowSteps(t, n) = <<Queue(n.id)>> \o Finish(t, n)
    BY <1>7 DEF CallflowSteps
  <2>2. QED
    BY <1>1, <1>3, <1>7, <2>1, DialsResolve, DialFits
<1>8. CASE n.type = "schedule"
  <2>1. CallflowSteps(t, n) = ScheduleSteps(t, n)
    BY <1>8 DEF CallflowSteps
  <2>2. QED
    BY <1>1, <2>1, ScheduleFits
<1>9. CASE n.type = "voicemail"
  <2>1. CallflowSteps(t, n) = <<VoiceMail(n.mailbox), Hangup>>
    BY <1>9 DEF CallflowSteps
  <2>2. i \in Boxes(t)
    BY <1>9 DEF Boxes, OfType
  <2>3. Simple(VoiceMail(n.mailbox)) /\ Simple(Hangup) /\ ~Continues(Hangup)
    BY <2>2, SimpleSteps
  <2>4. QED
    BY <1>1, <2>1, <2>3, SimpleInIvr, TwoStepsFit
<1>10. QED
  BY <1>2, <1>4, <1>5, <1>6, <1>7, <1>8, <1>9

LEMMA IvrFits ==
    ASSUME NEW t, Files(t), NEW i \in OfType(t, {"ivr"}), NEW d \in IvrContext(t, t.nodes[i])
    PROVE  Fits(d)
<1> DEFINE n == t.nodes[i]
<1>1. \A exten : IvrAt(n.id, exten).context = Sanitize[n.id]
      /\ \A other : IvrAt(n.id, other) = At(IvrAt(n.id, exten).context, other)
  BY DEF IvrAt, At
<1>2. /\ Simple(Hangup) /\ ~Continues(Hangup)
      /\ \A e \in t.edges : Simple(Goto(e)) /\ ~Continues(Goto(e))
  BY SimpleSteps
<1>3. /\ \A exten \in {"s", "t", "i", "giveup"} : Defined(IvrAt(n.id, exten))
      /\ DOMAIN StepsAt(IvrAt(n.id, "s")) = {1, 2}
  BY IvrDefined
<1>4. Fits(Definition(IvrAt(n.id, "s"), <<[app |-> "ResetRetries"], [app |-> "Menu"]>>))
  <2> DEFINE reset == [app |-> "ResetRetries"]
             menu == [app |-> "Menu"]
             at == IvrAt(n.id, "s")
  <2>1. reset.app = "ResetRetries" /\ menu.app = "Menu" /\ TargetOf(reset) = {} /\ TargetOf(menu) = {}
    BY DEF TargetOf
  <2>2. Defined(At(at.context, "i"))
    BY <1>1, <1>3
  <2> HIDE DEF reset, menu, at
  <2>3. /\ StepResolves(reset) /\ StepResolves(menu)
        /\ InIvr(at, reset) /\ InIvr(at, menu) /\ ~Continues(menu)
    BY <2>1, <2>2 DEF StepResolves, InIvr, Continues
  <2>4. QED
    BY <2>3, TwoStepsFit DEF reset, menu, at
<1>5. Fits(Definition(IvrAt(n.id, "i"), <<Retry(t, n)>>))
  <2> DEFINE step == Retry(t, n)
             at == IvrAt(n.id, "i")
  <2>1. /\ step.app = "Retry" /\ step.again = 2 /\ step.invalid = EdgesWith(t, n.id, {"invalid"})
    BY DEF Retry
  <2>2. TargetOf(step) = {CallflowAt(e.target) : e \in step.invalid}
    BY <2>1 DEF TargetOf
  <2>3. step.invalid \subseteq t.edges
    BY <2>1 DEF EdgesWith, Outgoing
  <2>4. /\ Defined(At(at.context, "giveup")) /\ Defined(At(at.context, "s"))
        /\ DOMAIN StepsAt(At(at.context, "s")) = {1, 2}
    BY <1>1, <1>3
  <2> HIDE DEF step, at
  <2>5. StepResolves(step) /\ InIvr(at, step) /\ ~Continues(step)
    BY <2>1, <2>2, <2>3, <2>4, FlowsDefined DEF StepResolves, InIvr, Continues
  <2>6. QED
    BY <2>5, OneStepFits DEF step, at
<1>6. \A at : Fits(Definition(at, <<Hangup>>))
  BY <1>2, SimpleInIvr, OneStepFits
<1>7. \A at : \A e \in t.edges : Fits(Definition(at, <<Goto(e)>>))
  BY <1>2, SimpleInIvr, OneStepFits
<1>8. Fits(Definition(IvrAt(n.id, "t"), GotoOr(EdgesWith(t, n.id, {"timeout"}), <<Hangup>>)))
  <2> DEFINE steps == GotoOr(EdgesWith(t, n.id, {"timeout"}), <<Hangup>>)
  <2>1. steps = <<Hangup>> \/ \E e \in t.edges : steps = <<Goto(e)>>
    BY ChosenEdge
  <2> HIDE DEF steps
  <2>2. \A at : Fits(Definition(at, steps))
    BY <1>6, <1>7, <2>1
  <2>3. QED
    BY <2>2 DEF steps
<1>9. EdgesWith(t, n.id, {"digit"}) \subseteq t.edges
  BY DEF EdgesWith, Outgoing
<1> HIDE DEF n
<1>10. d \in IvrContext(t, n)
  BY DEF n
<1>11. QED
  BY <1>4, <1>5, <1>6, <1>7, <1>8, <1>9, <1>10 DEF IvrContext

LEMMA AllFit ==
    ASSUME NEW t, Files(t), NEW d \in config.extensions
    PROVE  Fits(d)
<1>1. config.extensions = GenerateExtensions(t)
  BY DEF Files, GenerateAll
<1>2. ASSUME NEW i \in OfType(t, {"extension"}) PROVE Fits(InternalEntry(t, t.nodes[i]))
  <2>1. i \in Indices(t)
    BY DEF OfType
  <2>2. QED
    BY <2>1, DialsResolve, DialFits DEF InternalEntry
<1>3. ASSUME NEW i \in Indices(t) PROVE Fits(Entrypoint(t, i))
  BY FlowsDefined, JumpFits DEF Entrypoint
<1>4. QED
  BY <1>1, <1>2, <1>3, FlowFits, IvrFits, Generated

LEMMA FilesResolve ==
    ASSUME NEW t, Files(t)
    PROVE  ReferencesResolve
BY AllFit DEF ReferencesResolve, Fits
-----------------------------------------------------------------------------
(* The way of a call: CallFlow *)

\* A call waits at its first step or is at a step there is.
CallGood(x) ==
    /\ x = [pc |-> x.pc, at |-> x.at, step |-> x.step, retries |-> x.retries, hops |-> x.hops]
    /\ x.pc \in {"idle", "up", "over"} /\ x.retries \in Nat /\ x.hops \in Nat
    /\ x.pc = "idle" => x.step = 1
    /\ x.pc = "up" => Defined(x.at) /\ x.step \in DOMAIN StepsAt(x.at)

CallsInv ==
    /\ Drawn(draft)
    /\ config = NotDeployed \/ (Deployed /\ Files(draft))
    /\ CallGood(call)

LEMMA FilesOfExtension ==
    ASSUME NEW t, Files(t), NEW d \in config.extensions
    PROVE  Defined(d.at) /\ StepsAt(d.at) = d.steps
<1>1. config.extensions = GenerateExtensions(t)
  BY DEF Files, GenerateAll
<1>2. QED
  BY <1>1, ExtensionsUnique DEF Defined, StepsAt, Files

\* Where a call may go: to the first step of an extension there is.
LEMMA Landing ==
    ASSUME NEW t, Files(t), NEW at, Defined(at), NEW retries \in Nat, NEW hops \in Nat
    PROVE  CallGood([pc |-> "up", at |-> at, step |-> 1, retries |-> retries, hops |-> hops])
<1>1. PICK d \in config.extensions : d.at = at
  BY DEF Defined
<1>2. 1 \in DOMAIN StepsAt(at)
  BY <1>1, AllFit, FilesOfExtension DEF Fits
<1> DEFINE x == [pc |-> "up", at |-> at, step |-> 1, retries |-> retries, hops |-> hops]
<1>3. x.pc = "up" /\ x.at = at /\ x.step = 1 /\ x.retries = retries /\ x.hops = hops
  OBVIOUS
<1>4. x = [pc |-> x.pc, at |-> x.at, step |-> x.step, retries |-> x.retries, hops |-> x.hops]
  OBVIOUS
<1> HIDE DEF x
<1>5. CallGood(x)
  BY <1>2, <1>3, <1>4 DEF CallGood
<1>6. QED
  BY <1>5 DEF x

\* What the step of a call that is up has to say.
LEMMA AtStep ==
    ASSUME CallsInv, call.pc = "up"
    PROVE  /\ Files(draft)
           /\ StepResolves(Step) /\ InIvr(call.at, Step)
           /\ Continues(Step) => call.step + 1 \in DOMAIN StepsAt(call.at)
<1>1. Defined(call.at) /\ call.step \in DOMAIN StepsAt(call.at)
  BY DEF CallsInv, CallGood
<1>2. PICK d \in config.extensions : d.at = call.at
  BY <1>1 DEF Defined
<1>3. Files(draft)
  BY <1>2 DEF CallsInv, NotDeployed
<1>4. StepsAt(call.at) = d.steps /\ Fits(d)
  BY <1>2, <1>3, FilesOfExtension, AllFit
<1>5. QED
  BY <1>1, <1>2, <1>3, <1>4 DEF Fits, Step

\* Each way a step may change the call.
LEMMA Ways ==
    ASSUME CallsInv, call.pc = "up"
    PROVE  /\ CallGood(Ended)
           /\ Continues(Step) => CallGood(Proceed) /\ CallGood([Proceed EXCEPT !.retries = 0])
           /\ \A at : Defined(at) => CallGood(JumpTo(at))
           /\ \A e : Defined(CallflowAt(e.target)) => CallGood(Follow(e))
<1>1. /\ call = [pc |-> call.pc, at |-> call.at, step |-> call.step,
                 retries |-> call.retries, hops |-> call.hops]
      /\ call.retries \in Nat /\ call.hops \in Nat /\ call.hops + 1 \in Nat /\ 0 \in Nat /\ 1 \in Nat
      /\ Defined(call.at)
  BY DEF CallsInv, CallGood
<1>2. Files(draft)
  BY AtStep
<1> DEFINE As(pc, at, step, retries, hops) ==
        [pc |-> pc, at |-> at, step |-> step, retries |-> retries, hops |-> hops]
<1>3. \A pc, at, step, retries, hops :
          /\ As(pc, at, step, retries, hops).pc = pc /\ As(pc, at, step, retries, hops).at = at
          /\ As(pc, at, step, retries, hops).step = step
          /\ As(pc, at, step, retries, hops).retries = retries
          /\ As(pc, at, step, retries, hops).hops = hops
  OBVIOUS
<1>4. CallGood(Ended)
  <2>1. Ended = As("over", call.at, call.step, call.retries, call.hops)
    BY <1>1 DEF Ended
  <2>2. QED
    BY <1>1, <2>1 DEF CallGood
<1>5. ASSUME Continues(Step), NEW retries \in Nat
      PROVE  CallGood(As("up", call.at, call.step + 1, retries, call.hops))
  BY <1>1, <1>5, AtStep DEF CallGood
<1>6. /\ Proceed = As("up", call.at, call.step + 1, call.retries, call.hops)
      /\ [Proceed EXCEPT !.retries = 0] = As("up", call.at, call.step + 1, 0, call.hops)
  <2>1. Proceed = As("up", call.at, call.step + 1, call.retries, call.hops)
    BY <1>1 DEF Proceed
  <2>2. QED
    BY <2>1
<1>7. ASSUME NEW at PROVE JumpTo(at) = As("up", at, 1, call.retries, call.hops)
  <2>1. JumpTo(at) = [call EXCEPT !.at = at, !.step = 1]
    BY DEF JumpTo
  <2>2. QED
    BY <1>1, <2>1
<1>8. ASSUME NEW e
      PROVE  Follow(e) = As("up", CallflowAt(e.target), 1, call.retries,
                            IF IsExitCondition(e) THEN 1 ELSE call.hops + 1)
  <2> DEFINE hops == IF IsExitCondition(e) THEN 1 ELSE call.hops + 1
             at == CallflowAt(e.target)
  <2>1. Follow(e) = [call EXCEPT !.at = at, !.step = 1, !.hops = hops]
    BY DEF Follow
  <2> HIDE DEF hops, at
  <2>2. Follow(e) = As("up", at, 1, call.retries, hops)
    BY <1>1, <2>1
  <2>3. QED
    BY <2>2 DEF hops, at
<1>9. \A at : Defined(at) => CallGood(JumpTo(at))
  BY <1>1, <1>2, <1>7, Landing
<1>10. \A e : Defined(CallflowAt(e.target)) => CallGood(Follow(e))
  <2>1. ASSUME NEW e, Defined(CallflowAt(e.target)) PROVE CallGood(Follow(e))
    <3> DEFINE hops == IF IsExitCondition(e) THEN 1 ELSE call.hops + 1
    <3>1. hops \in Nat
      BY <1>1
    <3> HIDE DEF hops
    <3>2. CallGood([pc |-> "up", at |-> CallflowAt(e.target), step |-> 1,
                    retries |-> call.retries, hops |-> hops])
      BY <1>1, <1>2, <2>1, <3>1, Landing
    <3>3. QED
      BY <1>8, <3>2 DEF hops
  <2>2. QED
    BY <2>1
<1>11. Continues(Step) => CallGood(Proceed) /\ CallGood([Proceed EXCEPT !.retries = 0])
  BY <1>1, <1>5, <1>6
<1>12. QED
  BY <1>4, <1>9, <1>10, <1>11

LEMMA WalkIsGood ==
    ASSUME CallsInv, Walk
    PROVE  CallGood(call')
<1>1. call.pc = "up"
  BY DEF Walk
<1>2. CASE RunDial
  BY <1>1, <1>2, Ways DEF RunDial, Continues
<1>3. CASE RunEnd
  BY <1>1, <1>3, Ways DEF RunEnd, Continues
<1>4. CASE RunGoto
  <2>1. StepResolves(Step)
    BY <1>1, AtStep
  <2>2. CASE Step.app = "Jump" /\ call' = JumpTo(Step.to)
    <3>1. TargetOf(Step) = {Step.to}
      BY <2>2 DEF TargetOf
    <3>2. QED
      BY <1>1, <2>1, <2>2, <3>1, Ways DEF StepResolves
  <2>3. CASE Step.app = "Goto" /\ call' = Follow(Step.edge)
    <3>1. TargetOf(Step) = {CallflowAt(Step.edge.target)}
      BY <2>3 DEF TargetOf
    <3>2. QED
      BY <1>1, <2>1, <2>3, <3>1, Ways DEF StepResolves
  <2>4. CASE Step.app = "GotoIfTime" /\ \E e \in Step.edges : call' = Follow(e)
    <3>1. TargetOf(Step) = {CallflowAt(e.target) : e \in Step.edges}
      BY <2>4 DEF TargetOf
    <3>2. QED
      BY <1>1, <2>1, <2>4, <3>1, Ways DEF StepResolves
  <2>5. QED
    BY <1>4, <2>2, <2>3, <2>4 DEF RunGoto
<1>5. CASE RunMenu
  <2>1. StepResolves(Step) /\ InIvr(call.at, Step)
    BY <1>1, AtStep
  <2>2. CASE Step.app = "ResetRetries" /\ call' = [Proceed EXCEPT !.retries = 0]
    BY <1>1, <2>2, Ways DEF Continues
  <2>3. CASE Step.app = "Menu" /\ \E exten \in Digits \cup {"t", "i"} :
                LET there == At(call.at.context, exten)
                    dest == IF Defined(there) THEN there ELSE At(call.at.context, "i")
                IN  call' = JumpTo(dest)
    <3>1. PICK dest : Defined(dest) /\ call' = JumpTo(dest)
      BY <2>1, <2>3 DEF InIvr
    <3>2. QED
      BY <1>1, <3>1, Ways
  <2>4. CASE /\ Step.app = "Retry"
             /\ call' = IF Step.invalid = {} THEN JumpTo(At(call.at.context, "giveup"))
                        ELSE Follow(CHOOSE e \in Step.invalid : TRUE)
    <3>1. TargetOf(Step) = {CallflowAt(e.target) : e \in Step.invalid}
      BY <2>4 DEF TargetOf
    <3>2. CASE Step.invalid = {}
      BY <1>1, <2>1, <2>4, <3>2, Ways DEF InIvr
    <3>3. CASE Step.invalid # {}
      <4> DEFINE e == CHOOSE f \in Step.invalid : TRUE
      <4>1. e \in Step.invalid
        BY <3>3
      <4>2. Defined(CallflowAt(e.target)) /\ call' = Follow(e)
        BY <2>1, <2>4, <3>1, <3>3, <4>1 DEF StepResolves
      <4> HIDE DEF e
      <4>3. QED
        BY <1>1, <4>2, Ways
    <3>4. QED
      BY <3>2, <3>3
  <2>5. CASE /\ Step.app = "Retry"
             /\ call' = [call EXCEPT !.at = At(call.at.context, "s"), !.step = Step.again,
                                     !.retries = @ + 1]
    <3>1. /\ call = [pc |-> call.pc, at |-> call.at, step |-> call.step,
                     retries |-> call.retries, hops |-> call.hops]
          /\ call.retries + 1 \in Nat /\ call.hops \in Nat
      BY DEF CallsInv, CallGood
    <3>2. call' = [pc |-> "up", at |-> At(call.at.context, "s"), step |-> Step.again,
                   retries |-> call.retries + 1, hops |-> call.hops]
      BY <1>1, <2>5, <3>1
    <3>3. Defined(At(call.at.context, "s")) /\ Step.again \in DOMAIN StepsAt(At(call.at.context, "s"))
      BY <2>1, <2>5 DEF InIvr
    <3>4. QED
      BY <3>1, <3>2, <3>3 DEF CallGood
  <2>6. QED
    BY <1>5, <2>2, <2>3, <2>4, <2>5 DEF RunMenu
<1>6. QED
  BY <1>2, <1>3, <1>4, <1>5 DEF Walk

\* Nothing is deployed of an empty topology, and something of any other.
LEMMA SomethingGenerated ==
    ASSUME NEW t, Sound(t)
    PROVE  GenerateAll(t) = NotDeployed \/ GenerateAll(t).extensions # {}
<1>1. CASE Indices(t) = {}
  <2>1. \A types : OfType(t, types) = {}
    BY <1>1 DEF OfType
  <2>2. GenerateExtensions(t) = {} /\ GeneratePjsip(t) = {} /\ GenerateQueues(t) = {} /\ GenerateVoicemail(t) = {}
    BY <1>1, <2>1 DEF GenerateExtensions, GeneratePjsip, GenerateQueues, GenerateVoicemail
  <2>3. QED
    BY <2>2 DEF GenerateAll, NotDeployed
<1>2. CASE Indices(t) # {}
  <2>1. PICK i \in Indices(t) : TRUE
    BY <1>2
  <2>2. Entrypoint(t, i) \in GenerateExtensions(t)
    BY Generated
  <2>3. QED
    BY <2>2 DEF GenerateAll
<1>3. QED
  BY <1>1, <1>2

LEMMA CallsStart == Init => CallsInv
<1> SUFFICES ASSUME Init PROVE CallsInv
  OBVIOUS
<1>1. Drawn(draft)
  BY DEF Init, Drawn
<1>2. CallGood(call)
  BY DEF Init, NoCall, CallGood
<1>3. config = NotDeployed
  BY DEF Init
<1>4. QED
  BY <1>1, <1>2, <1>3 DEF CallsInv

LEMMA SameFiles ==
    ASSUME UNCHANGED config
    PROVE  CallGood(call)' <=> CallGood(call')
BY DEF CallGood, Defined, StepsAt

LEMMA CallsStep == CallsInv /\ [Next]_vars => CallsInv'
<1> SUFFICES ASSUME CallsInv, [Next]_vars PROVE CallsInv'
  OBVIOUS
<1>1. ASSUME ~Deployed, UNCHANGED <<config, call>>, Drawn(draft')
      PROVE  CallsInv'
  <2>1. config = NotDeployed
    BY <1>1 DEF CallsInv
  <2>2. config' = NotDeployed /\ CallGood(call)' /\ Drawn(draft)'
    BY <1>1, <2>1, SameFiles DEF CallsInv, Drawn
  <2>3. QED
    BY <2>2 DEF CallsInv
<1>2. ASSUME NEW n \in Node \cup {Malformed}, AddNode(n) PROVE CallsInv'
  <2>1. Append(draft.nodes, n) \in Seq(Node \cup {Malformed})
    BY DEF CallsInv, Drawn
  <2> DEFINE nodes == Append(draft.nodes, n)
  <2> HIDE DEF nodes
  <2>2. draft' = [draft EXCEPT !.nodes = nodes]
    BY <1>2 DEF AddNode, nodes
  <2>3. Drawn(draft')
    BY <2>1, <2>2 DEF CallsInv, Drawn, nodes
  <2>4. QED
    BY <1>1, <1>2, <2>3 DEF AddNode
<1>3. ASSUME NEW e \in Edge, AddEdge(e) PROVE CallsInv'
  <2>1. Drawn(draft')
    BY <1>3 DEF AddEdge, CallsInv, Drawn
  <2>2. QED
    BY <1>1, <1>3, <2>1 DEF AddEdge
<1>4. ASSUME NEW m \in Membership, AddMembership(m) PROVE CallsInv'
  <2>1. Drawn(draft')
    BY <1>4 DEF AddMembership, CallsInv, Drawn
  <2>2. QED
    BY <1>1, <1>4, <2>1 DEF AddMembership
<1>5. CASE Deploy
  <2>1. Sound(draft)
    BY <1>5 DEF Deploy, CallsInv, Sound
  <2>2. config' = NotDeployed \/ (Deployed' /\ Files(draft)')
    BY <1>5, <2>1, SomethingGenerated DEF Deploy, Deployed, Files, Sound, Drawn
  <2>3. call.pc # "up"
    BY <1>5 DEF Deploy, CallsInv, Deployed, NotDeployed, CallGood, Defined
  <2>4. CallGood(call)'
    BY <1>5, <2>3 DEF Deploy, CallsInv, CallGood
  <2>5. QED
    BY <1>5, <2>2, <2>4 DEF Deploy, CallsInv, Drawn
<1>6. ASSUME UNCHANGED <<draft, config>>, CallGood(call') PROVE CallsInv'
  <2>1. Drawn(draft)' /\ (config' = NotDeployed \/ (Deployed' /\ Files(draft)'))
    BY <1>6 DEF CallsInv, Drawn, Deployed, Files, Sound
  <2>2. QED
    BY <1>6, <2>1, SameFiles DEF CallsInv
<1>7. CASE DialNumber
  <2>1. PICK d \in config.extensions : call' = [call EXCEPT !.pc = "up", !.at = d.at, !.hops = 1]
    BY <1>7 DEF DialNumber
  <2>2. Files(draft)
    BY <1>7 DEF DialNumber, CallsInv, Deployed, NotDeployed
  <2>3. call' = [pc |-> "up", at |-> d.at, step |-> 1, retries |-> call.retries, hops |-> 1]
    BY <1>7, <2>1 DEF DialNumber, CallsInv, CallGood
  <2>4. CallGood(call')
    BY <2>2, <2>3, FilesOfExtension, Landing DEF CallsInv, CallGood
  <2>5. QED
    BY <1>6, <1>7, <2>4 DEF DialNumber
<1>8. CASE Walk
  BY <1>6, <1>8, WalkIsGood DEF Walk
<1>9. CASE Leave
  BY <1>6, <1>9, Ways DEF Leave
<1>10. CASE UNCHANGED vars
  BY <1>6, <1>10 DEF vars, CallsInv
<1>11. QED
  BY <1>2, <1>3, <1>4, <1>5, <1>7, <1>8, <1>9, <1>10 DEF Next

LEMMA CallsFacts == CallsInv => TypeOK /\ NamesUnique /\ ReferencesResolve
<1> SUFFICES ASSUME CallsInv PROVE TypeOK /\ NamesUnique /\ ReferencesResolve
  OBVIOUS
<1>1. TypeOK
  <2>1. \A i \in DOMAIN draft.nodes : draft.nodes[i] \in Node \cup {Malformed}
    BY DEF CallsInv, Drawn
  <2>2. QED
    BY <2>1 DEF CallsInv, Drawn, CallGood, TypeOK
<1>2. NamesUnique /\ ReferencesResolve
  <2>1. CASE config = NotDeployed
    BY <2>1 DEF NotDeployed, NamesUnique, ReferencesResolve
  <2>2. CASE Files(draft)
    BY <2>2, FilesUniqueNames, FilesResolve
  <2>3. QED
    BY <2>1, <2>2 DEF CallsInv
<1>3. QED
  BY <1>1, <1>2

-----------------------------------------------------------------------------
(* Induction over the numbers, from the library's order of finite sets *)

LEMMA LeastNumber ==
    ASSUME NEW T \in SUBSET Nat, T # {}
    PROVE  \E m \in T : \A n \in T : m <= n
<1> DEFINE Below(n) == 0 .. n
           R == StrictSubsetOrdering(Nat)
           Bs == {Below(n) : n \in T}
<1>1. Bs \subseteq FiniteSubsetsOf(Nat) /\ Bs # {}
  <2>1. ASSUME NEW n \in T PROVE Below(n) \in SUBSET Nat /\ IsFiniteSet(Below(n))
    BY FS_Interval
  <2> HIDE DEF Below
  <2>2. QED
    BY <2>1 DEF FiniteSubsetsOf
<1>2. PICK x \in Bs : \A y \in Bs : ~ (<<y, x>> \in R)
  <2> HIDE DEF Bs, R
  <2>1. QED
    BY <1>1, FS_StrictSubsetOrderingWellFounded, WFMin DEF R
<1>3. PICK m \in T : x = Below(m)
  OBVIOUS
<1>4. ASSUME NEW n \in T PROVE m <= n
  <2>1. <<Below(n), Below(m)>> \notin R
    BY <1>2, <1>3
  <2>2. ASSUME n < m PROVE FALSE
    <3>1. Below(n) \subseteq Below(m) /\ Below(n) # Below(m)
      BY <2>2
    <3>2. Below(n) \in SUBSET Nat /\ Below(m) \in SUBSET Nat
      OBVIOUS
    <3> HIDE DEF Below
    <3>3. <<Below(n), Below(m)>> \in R
      BY <3>1, <3>2 DEF StrictSubsetOrdering
    <3>4. QED
      BY <2>1, <3>3
  <2>3. QED
    BY <2>2
<1>5. QED
  BY <1>4

LEMMA Induction ==
    ASSUME NEW S, 0 \in S, \A n \in Nat : n \in S => n + 1 \in S
    PROVE  Nat \subseteq S
<1> DEFINE T == Nat \ S
<1>1. SUFFICES ASSUME T # {} PROVE FALSE
  OBVIOUS
<1>2. PICK m \in T : \A n \in T : m <= n
  BY <1>1, LeastNumber
<1>3. m # 0 /\ m - 1 \in Nat /\ m - 1 \notin T
  BY <1>2
<1>4. QED
  BY <1>3

-----------------------------------------------------------------------------
(* Routes over the edges of a topology, and loops *)

\* The nodes have different ids and every edge has both its ends.
Linked(t) ==
    /\ Drawn(t)
    /\ \A i, j \in Indices(t) : t.nodes[i].id = t.nodes[j].id => i = j
    /\ \A e \in t.edges : EndsExist(t, e)

\* Edges each of which starts where the one before it ends.
Route(t, p) ==
    /\ p \in Seq(t.edges)
    /\ \A j \in 1 .. Len(p) - 1 : p[j].target = p[j + 1].source

\* A route that comes back to its start, and one that passes no node twice.
Loop(t, r) == Route(t, r) /\ Len(r) > 0 /\ r[Len(r)].target = r[1].source
Round(t, r) ==
    Loop(t, r) /\ \A i, j \in 1 .. Len(r) : r[i].source = r[j].source => i = j

LEMMA NodesOfEdges ==
    ASSUME NEW t, Linked(t), NEW e \in t.edges
    PROVE  /\ Len(t.nodes) \in Nat /\ Indices(t) = 1 .. Len(t.nodes)
           /\ e.source \in IdsOf(t) /\ e.target \in IdsOf(t)
           /\ IndexOf(t, e.source) \in 1 .. Len(t.nodes) /\ t.nodes[IndexOf(t, e.source)].id = e.source
           /\ IndexOf(t, e.target) \in 1 .. Len(t.nodes) /\ t.nodes[IndexOf(t, e.target)].id = e.target
<1>1. Len(t.nodes) \in Nat /\ Indices(t) = 1 .. Len(t.nodes)
  <2>1. t.nodes \in Seq(Node \cup {Malformed})
    BY DEF Linked, Drawn
  <2>2. QED
    BY <2>1 DEF Indices
<1>2. e.source \in IdsOf(t) /\ e.target \in IdsOf(t)
  BY DEF Linked, EndsExist
<1>3. ASSUME NEW id \in IdsOf(t)
      PROVE  IndexOf(t, id) \in Indices(t) /\ t.nodes[IndexOf(t, id)].id = id
  <2>1. \E i \in Indices(t) : t.nodes[i].id = id
    BY DEF IdsOf
  <2>2. QED
    BY <2>1 DEF IndexOf
<1>4. QED
  BY <1>1, <1>2, <1>3

\* A part of a route is a route.
Part(p, x, d) == [j \in 1 .. d |-> p[x + j - 1]]

LEMMA PartIsRoute ==
    ASSUME NEW t, NEW p, Route(t, p), NEW x \in 1 .. Len(p), NEW d \in Nat, x + d - 1 <= Len(p)
    PROVE  /\ Route(t, Part(p, x, d)) /\ Len(Part(p, x, d)) = d
           /\ \A j \in 1 .. d : Part(p, x, d)[j] = p[x + j - 1]
<1> DEFINE q == Part(p, x, d)
<1>1. p \in Seq(t.edges) /\ Len(p) \in Nat
  BY DEF Route
<1>2. \A j \in 1 .. d : x + j - 1 \in 1 .. Len(p) /\ p[x + j - 1] \in t.edges
  BY <1>1
<1>3. q \in [1 .. d -> t.edges] /\ \A j \in 1 .. d : q[j] = p[x + j - 1]
  BY <1>2 DEF Part
<1> HIDE DEF q
<1>4. q \in Seq(t.edges) /\ Len(q) = d
  BY <1>3
<1>5. ASSUME NEW j \in 1 .. d - 1 PROVE q[j].target = q[j + 1].source
  <2>1. j \in 1 .. d /\ j + 1 \in 1 .. d /\ x + j - 1 \in 1 .. Len(p) - 1 /\ x + (j + 1) - 1 = (x + j - 1) + 1
    BY <1>1
  <2>2. p[x + j - 1].target = p[(x + j - 1) + 1].source
    BY <2>1 DEF Route
  <2>3. q[j] = p[x + j - 1] /\ q[j + 1] = p[x + (j + 1) - 1]
    BY <1>3, <2>1
  <2>4. QED
    BY <2>1, <2>2, <2>3
<1>6. QED
  BY <1>3, <1>4, <1>5 DEF Route, q

\* The nodes of a route in order.
NodeAt(p, j) == IF j <= Len(p) THEN p[j].source ELSE p[Len(p)].target

LEMMA NodesInOrder ==
    ASSUME NEW t, NEW p, Route(t, p), Len(p) > 0
    PROVE  \A j \in 1 .. Len(p) : p[j].source = NodeAt(p, j) /\ p[j].target = NodeAt(p, j + 1)
<1>1. Len(p) \in Nat
  BY DEF Route
<1>2. ASSUME NEW j \in 1 .. Len(p)
      PROVE  p[j].source = NodeAt(p, j) /\ p[j].target = NodeAt(p, j + 1)
  <2>1. p[j].source = NodeAt(p, j)
    BY <1>1 DEF NodeAt
  <2>2. CASE j = Len(p)
    BY <1>1, <2>1, <2>2 DEF NodeAt
  <2>3. CASE j # Len(p)
    <3>1. j \in 1 .. Len(p) - 1 /\ j + 1 <= Len(p)
      BY <1>1, <2>3
    <3>2. p[j].target = p[j + 1].source
      BY <3>1 DEF Route
    <3>3. QED
      BY <2>1, <3>1, <3>2 DEF NodeAt
  <2>4. QED
    BY <2>2, <2>3
<1>3. QED
  BY <1>2

\* Where a route comes back to a node soonest there is a round.
LEMMA TurningBack ==
    ASSUME NEW t, NEW p, Route(t, p), Len(p) > 0,
           NEW first \in 1 .. Len(p) + 1, NEW second \in 1 .. Len(p) + 1,
           first # second, NodeAt(p, first) = NodeAt(p, second)
    PROVE  \E x \in 1 .. Len(p), d \in Nat : x + d - 1 <= Len(p) /\ Round(t, Part(p, x, d))
<1> DEFINE L == Len(p)
           Back(x, d) == x + d <= L + 1 /\ NodeAt(p, x) = NodeAt(p, x + d)
           Lengths == {d \in Nat : d >= 1 /\ \E x \in 1 .. L : Back(x, d)}
<1>1. L \in Nat /\ L > 0
  BY DEF Route
<1>2. \A j \in 1 .. L : p[j].source = NodeAt(p, j) /\ p[j].target = NodeAt(p, j + 1)
  BY NodesInOrder
<1>3. Lengths # {}
  <2>1. CASE first < second
    <3>1. /\ second - first \in Nat /\ second - first >= 1 /\ first \in 1 .. L
          /\ first + (second - first) = second /\ second <= L + 1
      BY <1>1, <2>1
    <3>2. second - first \in Lengths
      BY <3>1
    <3>3. QED
      BY <3>2
  <2>2. CASE second < first
    <3>1. /\ first - second \in Nat /\ first - second >= 1 /\ second \in 1 .. L
          /\ second + (first - second) = first /\ first <= L + 1
      BY <1>1, <2>2
    <3>2. first - second \in Lengths
      BY <3>1
    <3>3. QED
      BY <3>2
  <2>3. QED
    BY <1>1, <2>1, <2>2
<1>4. PICK d \in Lengths : \A other \in Lengths : d <= other
  <2> HIDE DEF Lengths
  <2>1. Lengths \subseteq Nat
    BY DEF Lengths
  <2>2. QED
    BY <1>3, <2>1, LeastNumber
<1>5. PICK x \in 1 .. L : Back(x, d)
  OBVIOUS
<1>6. d \in Nat /\ d >= 1 /\ x + d - 1 <= L /\ x + d - 1 \in 1 .. L /\ x + d - 1 + 1 = x + d
  BY <1>1, <1>5
<1> DEFINE r == Part(p, x, d)
<1>7. Route(t, r) /\ Len(r) = d /\ \A j \in 1 .. d : r[j] = p[x + j - 1]
  BY <1>6, PartIsRoute
<1> HIDE DEF r
<1>8. r[Len(r)].target = r[1].source
  <2>1. 1 \in 1 .. d /\ d \in 1 .. d /\ x + 1 - 1 = x
    BY <1>1, <1>6
  <2>2. r[d] = p[x + d - 1] /\ r[1] = p[x]
    BY <1>7, <2>1
  <2>3. QED
    BY <1>2, <1>5, <1>6, <1>7, <2>2, SMTT(30)
<1>9. ASSUME NEW i \in 1 .. d, NEW j \in 1 .. d, r[i].source = r[j].source, i < j
       PROVE  FALSE
  <2>1. /\ x + i - 1 \in 1 .. L /\ x + j - 1 \in 1 .. L /\ x + j - 1 <= L + 1
        /\ j - i \in Nat /\ j - i >= 1 /\ j - i < d /\ (x + i - 1) + (j - i) = x + j - 1
    BY <1>1, <1>6, <1>9
  <2>2. NodeAt(p, x + i - 1) = NodeAt(p, x + j - 1)
    <3>1. p[x + i - 1].source = p[x + j - 1].source
      BY <1>7, <1>9
    <3>2. /\ p[x + i - 1].source = NodeAt(p, x + i - 1)
          /\ p[x + j - 1].source = NodeAt(p, x + j - 1)
      BY <1>2, <2>1
    <3>3. QED
      BY <3>1, <3>2
  <2>3. j - i \in Lengths
    BY <2>1, <2>2
  <2> HIDE DEF Lengths
  <2>4. d <= j - i
    BY <1>4, <2>3
  <2>5. QED
    BY <1>6, <2>1, <2>4
<1>10. Round(t, r)
  <2>1. \A i, j \in 1 .. d : r[i].source = r[j].source => i = j
    <3> SUFFICES ASSUME NEW i \in 1 .. d, NEW j \in 1 .. d, r[i].source = r[j].source, i # j
                 PROVE  FALSE
      OBVIOUS
    <3>1. i < j \/ j < i
      BY <1>6
    <3>2. QED
      BY <1>9, <3>1
  <2>2. QED
    BY <1>6, <1>7, <1>8, <2>1 DEF Round, Loop
<1>11. QED
  BY <1>6, <1>10 DEF r

\* A function from more numbers to fewer takes a value twice.
LEMMA Twice ==
    ASSUME NEW k \in Nat, NEW n \in Nat, n < k, NEW f \in [1 .. k -> 1 .. n]
    PROVE  \E x, y \in 1 .. k : x # y /\ f[x] = f[y]
<1>1. /\ 1 \in Int /\ k \in Int /\ n \in Int /\ ~(1 > k) /\ k - 1 + 1 = k
      /\ (IF 1 > n THEN 0 ELSE n - 1 + 1) = n
  OBVIOUS
<1>2. /\ IsFiniteSet(1 .. k) /\ Cardinality(1 .. k) = k
      /\ IsFiniteSet(1 .. n) /\ Cardinality(1 .. n) = n
  BY <1>1, FS_Interval
<1>3. QED
  BY <1>2, FS_PigeonHole

\* On a route with as many edges as there are nodes some node is passed twice.
LEMMA LongRoutesTurnBack ==
    ASSUME NEW t, Linked(t), NEW p, Route(t, p), Len(p) > 0, Len(p) >= Len(t.nodes)
    PROVE  \E x, y \in 1 .. Len(p) + 1 : x # y /\ NodeAt(p, x) = NodeAt(p, y)
<1> DEFINE f == [j \in 1 .. Len(p) + 1 |-> IndexOf(t, NodeAt(p, j))]
<1>1. Len(p) \in Nat /\ \A j \in 1 .. Len(p) : p[j] \in t.edges
  BY DEF Route
<1>2. Len(t.nodes) \in Nat
  BY <1>1, NodesOfEdges
<1>3. ASSUME NEW j \in 1 .. Len(p) + 1
      PROVE  /\ IndexOf(t, NodeAt(p, j)) \in 1 .. Len(t.nodes)
             /\ t.nodes[IndexOf(t, NodeAt(p, j))].id = NodeAt(p, j)
  <2>1. CASE j <= Len(p)
    <3>1. j \in 1 .. Len(p) /\ NodeAt(p, j) = p[j].source
      BY <1>1, <2>1 DEF NodeAt
    <3>2. QED
      BY <1>1, <3>1, NodesOfEdges
  <2>2. CASE ~(j <= Len(p))
    <3>1. Len(p) \in 1 .. Len(p) /\ NodeAt(p, j) = p[Len(p)].target
      BY <1>1, <2>2 DEF NodeAt
    <3>2. QED
      BY <1>1, <3>1, NodesOfEdges
  <2>3. QED
    BY <2>1, <2>2
<1>4. f \in [1 .. Len(p) + 1 -> 1 .. Len(t.nodes)]
  BY <1>3
<1>5. PICK x \in 1 .. Len(p) + 1, y \in 1 .. Len(p) + 1 : x # y /\ f[x] = f[y]
  <2>1. Len(p) + 1 \in Nat /\ Len(t.nodes) < Len(p) + 1
    BY <1>1, <1>2
  <2> HIDE DEF f
  <2>2. QED
    BY <1>2, <1>4, <2>1, Twice
<1>6. QED
  BY <1>3, <1>5

\* A round can be started at any of its nodes.
Turned(r, m) ==
    [j \in 1 .. Len(r) |-> IF j + m - 1 <= Len(r) THEN r[j + m - 1] ELSE r[j + m - 1 - Len(r)]]

LEMMA TurnedIsRound ==
    ASSUME NEW t, NEW r, Round(t, r), NEW m \in 1 .. Len(r)
    PROVE  /\ Round(t, Turned(r, m)) /\ Len(Turned(r, m)) = Len(r)
           /\ Turned(r, m)[1] = r[m]
           /\ \A j \in 1 .. Len(r) : \E i \in 1 .. Len(r) : Turned(r, m)[j] = r[i]
<1> DEFINE L == Len(r)
           q == Turned(r, m)
           From(j) == IF j + m - 1 <= L THEN j + m - 1 ELSE j + m - 1 - L
<1>1. L \in Nat /\ L > 0 /\ \A j \in 1 .. L : r[j] \in t.edges
  BY DEF Round, Loop, Route
<1>2. /\ \A j \in 1 .. L : From(j) \in 1 .. L
      /\ \A i, j \in 1 .. L : From(i) = From(j) => i = j
      /\ From(1) = m
  BY <1>1
<1>3. /\ \A j \in 1 .. L - 1 : From(j) = L => From(j + 1) = 1
      /\ \A j \in 1 .. L - 1 : From(j) # L => From(j) \in 1 .. L - 1 /\ From(j + 1) = From(j) + 1
      /\ m = 1 => From(L) = L
      /\ m # 1 => From(L) \in 1 .. L - 1 /\ m = From(L) + 1
  BY <1>1, SMTT(30)
<1>4. \A j \in 1 .. L : q[j] = r[From(j)]
  BY DEF Turned
<1>5. q \in [1 .. L -> t.edges]
  <2>1. q = [j \in 1 .. L |-> r[From(j)]]
    <3>1. \A j \in 1 .. L : (IF j + m - 1 <= L THEN r[j + m - 1] ELSE r[j + m - 1 - L]) = r[From(j)]
      OBVIOUS
    <3>2. QED
      BY <3>1 DEF Turned
  <2> HIDE DEF From, q
  <2>2. \A j \in 1 .. L : r[From(j)] \in t.edges
    BY <1>1, <1>2
  <2>3. QED
    BY <2>1, <2>2
<1>6. \A i \in 1 .. L - 1 : r[i].target = r[i + 1].source
  BY DEF Round, Loop, Route
<1>7. r[L].target = r[1].source
  BY DEF Round, Loop
<1>8. \A i, j \in 1 .. L : r[i].source = r[j].source => i = j
  BY DEF Round
<1> HIDE DEF From, q
<1>9. q \in Seq(t.edges) /\ Len(q) = L
  BY <1>1, <1>5
<1>10. ASSUME NEW j \in 1 .. L - 1 PROVE q[j].target = q[j + 1].source
  <2>1. j \in 1 .. L /\ j + 1 \in 1 .. L
    BY <1>1
  <2>2. q[j] = r[From(j)] /\ q[j + 1] = r[From(j + 1)]
    BY <1>4, <2>1
  <2>3. CASE From(j) = L
    BY <1>3, <1>7, <2>2, <2>3
  <2>4. CASE From(j) # L
    <3>1. r[From(j)].target = r[From(j) + 1].source
      BY <1>3, <1>6, <2>4
    <3>2. QED
      BY <1>3, <2>2, <2>4, <3>1
  <2>5. QED
    BY <2>3, <2>4
<1>11. q[L].target = q[1].source
  <2>1. 1 \in 1 .. L /\ L \in 1 .. L
    BY <1>1
  <2>2. q[L] = r[From(L)] /\ q[1] = r[m]
    BY <1>2, <1>4, <2>1
  <2>3. CASE m = 1
    BY <1>3, <1>7, <2>2, <2>3
  <2>4. CASE m # 1
    <3>1. r[From(L)].target = r[From(L) + 1].source
      BY <1>3, <1>6, <2>4
    <3>2. QED
      BY <1>3, <2>2, <2>4, <3>1
  <2>5. QED
    BY <2>3, <2>4
<1>12. ASSUME NEW i \in 1 .. L, NEW j \in 1 .. L, q[i].source = q[j].source PROVE i = j
  <2>1. q[i] = r[From(i)] /\ q[j] = r[From(j)]
    BY <1>4
  <2>2. From(i) \in 1 .. L /\ From(j) \in 1 .. L
    BY <1>2
  <2>3. From(i) = From(j)
    BY <1>8, <1>12, <2>1, <2>2
  <2>4. QED
    BY <1>2, <2>3
<1>13. Round(t, q)
  BY <1>1, <1>9, <1>10, <1>11, <1>12 DEF Round, Loop, Route
<1>14. q[1] = r[m]
  BY <1>1, <1>2, <1>4
<1>15. QED
  BY <1>2, <1>4, <1>9, <1>13, <1>14 DEF q

\* A round with the same edges that starts at the first of its nodes.
LowestFirst(t, r) == \A j \in 1 .. Len(r) : IndexOf(t, r[j].target) >= IndexOf(t, r[1].source)

LEMMA RoundFromLowest ==
    ASSUME NEW t, Linked(t), NEW r, Round(t, r)
    PROVE  \E m \in 1 .. Len(r) : LowestFirst(t, Turned(r, m))
<1> DEFINE T == {IndexOf(t, r[j].target) : j \in 1 .. Len(r)}
<1>1. Len(r) \in Nat /\ Len(r) > 0 /\ \A j \in 1 .. Len(r) : r[j] \in t.edges
  BY DEF Round, Loop, Route
<1>2. \A j \in 1 .. Len(r) : IndexOf(t, r[j].target) \in Nat
  BY <1>1, NodesOfEdges
<1>3. PICK low \in T : \A other \in T : low <= other
  <2>1. T \subseteq Nat /\ T # {}
    BY <1>1, <1>2
  <2> HIDE DEF T
  <2>2. QED
    BY <2>1, LeastNumber
<1>4. PICK k \in 1 .. Len(r) : low = IndexOf(t, r[k].target)
  OBVIOUS
<1>5. \A j \in 1 .. Len(r) : IndexOf(t, r[k].target) <= IndexOf(t, r[j].target)
  BY <1>3, <1>4
<1>6. PICK m \in 1 .. Len(r) : r[k].target = r[m].source
  <2>1. CASE k = Len(r)
    <3>1. r[k].target = r[1].source /\ 1 \in 1 .. Len(r)
      BY <1>1, <2>1 DEF Round, Loop
    <3>2. QED
      BY <3>1
  <2>2. CASE k # Len(r)
    <3>1. k \in 1 .. Len(r) - 1 /\ k + 1 \in 1 .. Len(r)
      BY <1>1, <2>2
    <3>2. r[k].target = r[k + 1].source
      BY <3>1 DEF Round, Loop, Route
    <3>3. QED
      BY <3>1, <3>2
  <2>3. QED
    BY <2>1, <2>2
<1> HIDE DEF T
<1>7. /\ Len(Turned(r, m)) = Len(r) /\ Turned(r, m)[1] = r[m]
      /\ \A j \in 1 .. Len(r) : \E i \in 1 .. Len(r) : Turned(r, m)[j] = r[i]
  <2>1. Round(t, r)
    OBVIOUS
  <2>2. QED
    BY <2>1, TurnedIsRound
<1>8. ASSUME NEW j \in 1 .. Len(r)
      PROVE  IndexOf(t, Turned(r, m)[j].target) >= IndexOf(t, Turned(r, m)[1].source)
  <2>1. PICK i \in 1 .. Len(r) : Turned(r, m)[j] = r[i]
    BY <1>7
  <2>2. IndexOf(t, r[k].target) <= IndexOf(t, r[i].target)
    BY <1>5
  <2>3. IndexOf(t, r[k].target) \in Nat /\ IndexOf(t, r[i].target) \in Nat
    BY <1>2
  <2>4. QED
    BY <1>6, <1>7, <2>1, <2>2, <2>3
<1>9. QED
  BY <1>7, <1>8 DEF LowestFirst

-----------------------------------------------------------------------------
(* The walk of findUnsafeCycles from one start node *)

\* The edges it follows, the paths of one edge, and those of one edge more.
Followed(t, start) ==
    {e \in t.edges : EndsExist(t, e) /\ IndexOf(t, e.target) >= IndexOf(t, start)}
OneEdge(t, start) == {<<e>> : e \in {f \in Followed(t, start) : f.source = start}}
OneMore(t, start, paths, k) ==
    UNION {{Append(p, e) : e \in {f \in Followed(t, start) :
                /\ p[k - 1].target = f.source
                /\ f.source # start
                /\ \A j \in 1 .. k - 2 : p[j].target # f.source}} : p \in paths}

\* The paths by their length.
Extends(t, start, n, g) ==
    g = [k \in 1 .. n |-> IF k = 1 THEN OneEdge(t, start) ELSE OneMore(t, start, g[k - 1], k)]

LEMMA ExtendsExists ==
    ASSUME NEW t, NEW start, NEW n \in Nat
    PROVE  \E g : Extends(t, start, n, g)
<1> DEFINE S == {m \in Nat : \E g : Extends(t, start, m, g)}
<1>1. 0 \in S
  <2> DEFINE g == [k \in 1 .. 0 |-> {}]
  <2>1. Extends(t, start, 0, g)
    BY DEF Extends
  <2>2. QED
    BY <2>1
<1>2. ASSUME NEW m \in Nat, m \in S PROVE m + 1 \in S
  <2>1. PICK g : Extends(t, start, m, g)
    BY <1>2
  <2> DEFINE h == [k \in 1 .. m + 1 |-> IF k = 1 THEN OneEdge(t, start) ELSE OneMore(t, start, g[k - 1], k)]
  <2>2. ASSUME NEW k \in 1 .. m PROVE h[k] = g[k]
    <3>1. k \in 1 .. m + 1
      OBVIOUS
    <3>2. QED
      BY <2>1, <3>1 DEF Extends
  <2>3. ASSUME NEW k \in 1 .. m + 1
        PROVE  h[k] = IF k = 1 THEN OneEdge(t, start) ELSE OneMore(t, start, h[k - 1], k)
    <3>1. CASE k = 1
      BY <3>1
    <3>2. CASE k # 1
      <4>1. k - 1 \in 1 .. m
        BY <3>2
      <4>2. h[k - 1] = g[k - 1]
        BY <2>2, <4>1
      <4>3. h[k] = OneMore(t, start, g[k - 1], k)
        BY <3>2
      <4> HIDE DEF h
      <4>4. QED
        BY <3>2, <4>2, <4>3
    <3>3. QED
      BY <3>1, <3>2
  <2>4. h = [k \in 1 .. m + 1 |-> h[k]]
    OBVIOUS
  <2> HIDE DEF h
  <2>5. Extends(t, start, m + 1, h)
    BY <2>3, <2>4 DEF Extends
  <2>6. QED
    BY <2>5
<1> HIDE DEF S
<1>3. n \in S
  BY <1>1, <1>2, Induction
<1>4. QED
  BY <1>3 DEF S

\* What PathsFrom finds.
LEMMA PathsByLength ==
    ASSUME NEW t, NEW start, Len(t.nodes) \in Nat
    PROVE  \E g : /\ Extends(t, start, Len(t.nodes), g)
                  /\ PathsFrom(t, start) = UNION {g[k] : k \in 1 .. Len(t.nodes)}
<1> DEFINE n == Len(t.nodes)
           g == CHOOSE h : Extends(t, start, n, h)
<1>1. Extends(t, start, n, g)
  <2>1. \E h : Extends(t, start, n, h)
    BY ExtendsExists
  <2>2. QED
    BY <2>1, Zenon
<1>2. PathsFrom(t, start) = UNION {g[k] : k \in 1 .. n}
  BY DEF PathsFrom, Extends, Followed, OneEdge, OneMore
<1> HIDE DEF g
<1>3. QED
  BY <1>1, <1>2

\* The first edges of a route.
First(r, k) == [j \in 1 .. k |-> r[j]]

LEMMA OneEdgeMore ==
    ASSUME NEW S, NEW r \in Seq(S), NEW k \in Nat, k + 1 <= Len(r)
    PROVE  /\ First(r, k) \in Seq(S) /\ Len(First(r, k)) = k
           /\ First(r, k + 1) = Append(First(r, k), r[k + 1])
           /\ First(r, 1) = <<r[1]>> /\ First(r, Len(r)) = r
<1>1. \A j \in 1 .. Len(r) : r[j] \in S
  OBVIOUS
<1>2. First(r, k) \in [1 .. k -> S] /\ \A j \in 1 .. k : First(r, k)[j] = r[j]
  BY <1>1 DEF First
<1>3. First(r, k) \in Seq(S) /\ Len(First(r, k)) = k
  BY <1>2
<1>4. First(r, k + 1) = Append(First(r, k), r[k + 1])
  <2> DEFINE appended == Append(First(r, k), r[k + 1])
             longer == First(r, k + 1)
  <2>1. appended \in Seq(S) /\ Len(appended) = k + 1 /\ \A j \in 1 .. k : appended[j] = r[j]
    BY <1>1, <1>2, <1>3
  <2>2. appended[k + 1] = r[k + 1]
    BY <1>3
  <2>3. longer \in [1 .. k + 1 -> S] /\ \A j \in 1 .. k + 1 : longer[j] = r[j]
    BY <1>1 DEF First
  <2> HIDE DEF appended, longer
  <2>4. \A j \in 1 .. k + 1 : appended[j] = longer[j]
    <3>1. \A j \in 1 .. k + 1 : j \in 1 .. k \/ j = k + 1
      OBVIOUS
    <3>2. QED
      BY <2>1, <2>2, <2>3, <3>1
  <2>5. appended \in [1 .. k + 1 -> S]
    BY <2>1
  <2>6. appended = longer
    BY <2>3, <2>4, <2>5
  <2>7. QED
    BY <2>6 DEF appended, longer
<1>5. First(r, 1) = <<r[1]>>
  BY DEF First
<1>6. First(r, Len(r)) = r
  BY DEF First
<1>7. QED
  BY <1>3, <1>4, <1>5, <1>6

\* The walk finds every round from the first of its nodes ...
LEMMA RoundsAreFound ==
    ASSUME NEW t, Linked(t), NEW r, Round(t, r), LowestFirst(t, r)
    PROVE  r \in Cycles(t)
<1> DEFINE L == Len(r)
           n == Len(t.nodes)
           start == r[1].source
<1>1. r \in Seq(t.edges) /\ L \in Nat /\ L > 0 /\ \A j \in 1 .. L : r[j] \in t.edges
  BY DEF Round, Loop, Route
<1>2. n \in Nat
  BY <1>1, NodesOfEdges
<1>3. L <= n
  <2> DEFINE f == [j \in 1 .. L |-> IndexOf(t, r[j].source)]
  <2>1. \A j \in 1 .. L : IndexOf(t, r[j].source) \in 1 .. n /\ t.nodes[IndexOf(t, r[j].source)].id = r[j].source
    BY <1>1, NodesOfEdges
  <2>2. f \in [1 .. L -> 1 .. n]
    BY <2>1
  <2>3. ASSUME n < L PROVE FALSE
    <3>1. PICK x \in 1 .. L, y \in 1 .. L : x # y /\ f[x] = f[y]
      <4> HIDE DEF f
      <4>1. QED
        BY <1>1, <1>2, <2>2, <2>3, Twice
    <3>2. r[x].source = r[y].source
      BY <2>1, <3>1
    <3>3. QED
      BY <3>1, <3>2 DEF Round
  <2>4. QED
    BY <1>1, <1>2, <2>3
<1>4. PICK g : /\ Extends(t, start, n, g)
               /\ PathsFrom(t, start) = UNION {g[k] : k \in 1 .. n}
  BY <1>2, PathsByLength
<1>5. \A j \in 1 .. L : r[j] \in Followed(t, start)
  BY <1>1 DEF Followed, Linked, LowestFirst
<1> DEFINE S == {m \in Nat : m \in 1 .. L => First(r, m) \in g[m]}
<1>6. 0 \in S
  OBVIOUS
<1>7. ASSUME NEW m \in Nat, m \in S PROVE m + 1 \in S
  <2> SUFFICES ASSUME m + 1 \in 1 .. L PROVE First(r, m + 1) \in g[m + 1]
    OBVIOUS
  <2>1. m + 1 \in 1 .. n
    BY <1>1, <1>2, <1>3
  <2>2. g[m + 1] = IF m + 1 = 1 THEN OneEdge(t, start) ELSE OneMore(t, start, g[(m + 1) - 1], m + 1)
    BY <1>4, <2>1 DEF Extends
  <2>3. CASE m = 0
    <3>1. First(r, 1) = <<r[1]>>
      BY <1>1, <2>3, OneEdgeMore
    <3>2. <<r[1]>> \in OneEdge(t, start)
      BY <1>1, <1>5 DEF OneEdge
    <3>3. QED
      BY <2>2, <2>3, <3>1, <3>2
  <2>4. CASE m # 0
    <3> DEFINE p == First(r, m)
               e == r[m + 1]
    <3>1. m \in 1 .. L - 1 /\ m \in 1 .. L /\ (m + 1) - 1 = m /\ (m + 1) - 2 = m - 1 /\ m + 1 <= L
      BY <1>1, <2>4
    <3>2. p \in g[m] /\ e \in Followed(t, start)
      BY <1>5, <1>7, <3>1
    <3>3. First(r, m + 1) = Append(p, e)
      BY <1>1, <3>1, OneEdgeMore
    <3>4. \A j \in 1 .. m : p[j] = r[j]
      BY DEF First
    <3>5. p[m].target = e.source
      BY <3>1, <3>4 DEF Round, Loop, Route
    <3>6. e.source # start
      <4>1. 1 \in 1 .. L /\ 1 # m + 1
        BY <1>1, <3>1
      <4>2. QED
        BY <4>1 DEF Round
    <3>7. ASSUME NEW j \in 1 .. m - 1 PROVE p[j].target # e.source
      <4>1. j \in 1 .. m /\ j \in 1 .. L - 1 /\ j + 1 \in 1 .. L /\ j + 1 # m + 1
        BY <1>1, <3>1
      <4>2. p[j].target = r[j + 1].source
        BY <3>4, <4>1 DEF Round, Loop, Route
      <4>3. QED
        BY <4>1, <4>2 DEF Round
    <3> HIDE DEF p, e, start
    <3>8. Append(p, e) \in OneMore(t, start, g[m], m + 1)
      BY <3>1, <3>2, <3>5, <3>6, <3>7 DEF OneMore
    <3>9. g[m + 1] = OneMore(t, start, g[m], m + 1)
      BY <2>2, <2>4, <3>1
    <3>10. QED
      BY <3>3, <3>8, <3>9
  <2>5. QED
    BY <2>3, <2>4
<1> HIDE DEF S
<1>8. L \in S
  BY <1>1, <1>6, <1>7, Induction
<1>9. r \in g[L]
  <2>1. First(r, L) \in g[L]
    BY <1>1, <1>8 DEF S
  <2>2. First(r, L) = r
    BY <1>1 DEF First
  <2>3. QED
    BY <2>1, <2>2
<1>10. r \in PathsFrom(t, start)
  BY <1>1, <1>2, <1>3, <1>4, <1>9
<1>11. start \in IdsOf(t)
  BY <1>1, NodesOfEdges
<1>12. r[Len(r)].target = start
  BY DEF Round, Loop
<1> HIDE DEF start
<1>13. QED
  BY <1>10, <1>11, <1>12 DEF Cycles

\* ... and what it finds are rounds.
Walked(t, start, p, k) ==
    /\ Route(t, p) /\ Len(p) = k /\ p[1].source = start
    /\ \A i, j \in 1 .. Len(p) : p[i].source = p[j].source => i = j

LEMMA Singleton ==
    ASSUME NEW S, NEW x \in S
    PROVE  <<x>> \in Seq(S) /\ Len(<<x>>) = 1 /\ <<x>>[1] = x
OBVIOUS

LEMMA FoundAreRounds ==
    ASSUME NEW t, Linked(t), NEW r \in Cycles(t)
    PROVE  Round(t, r)
<1>1. PICK start \in IdsOf(t) : r \in PathsFrom(t, start) /\ r[Len(r)].target = start
  BY DEF Cycles
<1> DEFINE n == Len(t.nodes)
<1>2. n \in Nat
  <2>1. t.nodes \in Seq(Node \cup {Malformed})
    BY DEF Linked, Drawn
  <2>2. QED
    BY <2>1
<1>3. PICK g : /\ Extends(t, start, n, g)
               /\ PathsFrom(t, start) = UNION {g[k] : k \in 1 .. n}
  BY <1>2, PathsByLength
<1> DEFINE S == {m \in Nat : m \in 1 .. n => \A p \in g[m] : Walked(t, start, p, m)}
<1>4. 0 \in S
  OBVIOUS
<1>5. ASSUME NEW m \in Nat, m \in S PROVE m + 1 \in S
  <2> SUFFICES ASSUME m + 1 \in 1 .. n, NEW p \in g[m + 1] PROVE Walked(t, start, p, m + 1)
    OBVIOUS
  <2>1. g[m + 1] = IF m + 1 = 1 THEN OneEdge(t, start) ELSE OneMore(t, start, g[(m + 1) - 1], m + 1)
    BY <1>3 DEF Extends
  <2>2. CASE m = 0
    <3>1. p \in OneEdge(t, start)
      BY <2>1, <2>2
    <3>2. PICK e \in t.edges : e.source = start /\ p = <<e>>
      BY <3>1 DEF OneEdge, Followed
    <3>3. p \in Seq(t.edges) /\ Len(p) = 1 /\ p[1] = e
      BY <3>2, Singleton
    <3>4. QED
      BY <2>2, <3>2, <3>3 DEF Walked, Route
  <2>3. CASE m # 0
    <3>1. p \in OneMore(t, start, g[m], m + 1)
      <4>1. m + 1 # 1 /\ (m + 1) - 1 = m
        BY <2>3
      <4>2. QED
        BY <2>1, <4>1
    <3>2. PICK q \in g[m], e \in t.edges :
             /\ q[(m + 1) - 1].target = e.source /\ e.source # start
             /\ \A j \in 1 .. (m + 1) - 2 : q[j].target # e.source
             /\ p = Append(q, e)
      BY <3>1 DEF OneMore, Followed
    <3>3. m \in 1 .. n /\ m > 0 /\ (m + 1) - 1 = m /\ (m + 1) - 2 = m - 1
      BY <1>2, <2>3
    <3>4. Walked(t, start, q, m)
      BY <1>5, <3>3
    <3>5. /\ q \in Seq(t.edges) /\ Len(q) = m /\ q[1].source = start
          /\ \A j \in 1 .. m - 1 : q[j].target = q[j + 1].source
          /\ \A i, j \in 1 .. m : q[i].source = q[j].source => i = j
      BY <3>4 DEF Walked, Route
    <3>6. /\ p \in Seq(t.edges) /\ Len(p) = m + 1 /\ p[m + 1] = e
          /\ \A j \in 1 .. m : p[j] = q[j]
      BY <3>2, <3>5
    <3>7. ASSUME NEW j \in 1 .. m PROVE q[j].source # e.source
      <4>1. CASE j = 1
        BY <3>2, <3>5, <4>1
      <4>2. CASE j # 1
        <5>1. j - 1 \in 1 .. m - 1 /\ (j - 1) + 1 = j
          BY <4>2
        <5>2. q[j - 1].target = q[j].source
          BY <3>5, <5>1
        <5>3. QED
          BY <3>2, <3>3, <5>1, <5>2
      <4>3. QED
        BY <4>1, <4>2
    <3>8. ASSUME NEW j \in 1 .. m PROVE p[j].target = p[j + 1].source
      <4>1. CASE j = m
        BY <3>2, <3>3, <3>6, <4>1
      <4>2. CASE j # m
        <5>1. j \in 1 .. m - 1 /\ j + 1 \in 1 .. m
          BY <4>2
        <5>2. QED
          BY <3>5, <3>6, <5>1
      <4>3. QED
        BY <4>1, <4>2
    <3>9. ASSUME NEW i \in 1 .. m + 1, NEW j \in 1 .. m + 1, p[i].source = p[j].source
          PROVE  i = j
      <4>1. (i \in 1 .. m \/ i = m + 1) /\ (j \in 1 .. m \/ j = m + 1)
        OBVIOUS
      <4>2. QED
        BY <3>5, <3>6, <3>7, <3>9, <4>1
    <3>10. Route(t, p)
      BY <3>6, <3>8 DEF Route
    <3>11. p[1].source = start
      BY <3>3, <3>5, <3>6
    <3>12. QED
      BY <3>6, <3>9, <3>10, <3>11 DEF Walked
  <2>4. QED
    BY <2>2, <2>3
<1> HIDE DEF S
<1>6. Nat \subseteq S
  BY <1>4, <1>5, Induction
<1>7. PICK k \in 1 .. n : r \in g[k]
  BY <1>1, <1>3
<1>8. Walked(t, start, r, k)
  BY <1>2, <1>6, <1>7 DEF S
<1>9. k > 0
  BY <1>2, <1>7
<1>10. QED
  BY <1>1, <1>8, <1>9 DEF Walked, Round, Loop

-----------------------------------------------------------------------------
(* What the cycle check says of a topology *)

LEMMA LoopHasRound ==
    ASSUME NEW t, NEW r, Loop(t, r)
    PROVE  \E x \in 1 .. Len(r), d \in Nat : x + d - 1 <= Len(r) /\ Round(t, Part(r, x, d))
<1>1. Route(t, r) /\ Len(r) \in Nat /\ Len(r) > 0 /\ r[Len(r)].target = r[1].source
  BY DEF Loop, Route
<1>2. 1 \in 1 .. Len(r) + 1 /\ Len(r) + 1 \in 1 .. Len(r) + 1 /\ 1 # Len(r) + 1
  BY <1>1
<1>3. NodeAt(r, 1) = NodeAt(r, Len(r) + 1)
  BY <1>1 DEF NodeAt
<1>4. QED
  BY <1>1, <1>2, <1>3, TurningBack

\* A part of a route and a turned round have no other edges.
LEMMA RoundWithoutExit ==
    ASSUME NEW t, Linked(t), NEW p, Route(t, p), ~HasExit(p),
           NEW x \in 1 .. Len(p), NEW d \in Nat, x + d - 1 <= Len(p), Round(t, Part(p, x, d))
    PROVE  \E r \in Cycles(t) : ~HasExit(r)
<1> DEFINE q == Part(p, x, d)
<1>1. p \in Seq(t.edges) /\ Len(p) \in Nat /\ DOMAIN p = 1 .. Len(p)
  BY DEF Route
<1>2. Len(q) = d /\ \A j \in 1 .. d : q[j] = p[x + j - 1] /\ x + j - 1 \in 1 .. Len(p)
  <2>1. \A j \in 1 .. d : x + j - 1 \in 1 .. Len(p)
    BY <1>1
  <2>2. QED
    BY <2>1, PartIsRoute
<1>3. \A j \in 1 .. Len(q) : ~IsExitCondition(q[j])
  BY <1>1, <1>2 DEF HasExit
<1> HIDE DEF q
<1>4. Round(t, q)
  BY DEF q
<1>5. PICK m \in 1 .. Len(q) : LowestFirst(t, Turned(q, m))
  BY <1>4, RoundFromLowest
<1> DEFINE r == Turned(q, m)
<1>6. /\ Round(t, r) /\ Len(r) = Len(q)
      /\ \A j \in 1 .. Len(q) : \E i \in 1 .. Len(q) : r[j] = q[i]
  BY <1>4, TurnedIsRound
<1>7. LowestFirst(t, r)
  BY <1>5
<1> HIDE DEF r
<1>8. r \in Cycles(t)
  BY <1>6, <1>7, RoundsAreFound
<1>9. DOMAIN r = 1 .. Len(q)
  BY <1>6 DEF Round, Loop, Route
<1>10. ~HasExit(r)
  BY <1>3, <1>6, <1>9 DEF HasExit
<1>11. QED
  BY <1>8, <1>10

\* The cycle check, unless it is cut off, finds a cycle without a timeout and
\* without a wrong key exactly if there is one, however long it is and whatever
\* nodes it passes more than once (findUnsafeCycles).
THEOREM CycleCheckIsExact ==
    ASSUME NEW t, Linked(t)
    PROVE  (\A r \in Cycles(t) : HasExit(r)) <=> (\A r : Loop(t, r) => HasExit(r))
<1>1. ASSUME NEW r, Loop(t, r), ~HasExit(r)
      PROVE  \E s \in Cycles(t) : ~HasExit(s)
  <2>1. Route(t, r)
    BY <1>1 DEF Loop
  <2>2. QED
    BY <1>1, <2>1, LoopHasRound, RoundWithoutExit
<1>2. ASSUME NEW r \in Cycles(t) PROVE Loop(t, r)
  BY FoundAreRounds DEF Round
<1>3. QED
  BY <1>1, <1>2

\* A route without exit is then shorter than the topology has nodes.
LEMMA RoutesAreShort ==
    ASSUME NEW t, Linked(t), \A r \in Cycles(t) : HasExit(r),
           NEW p, Route(t, p), ~HasExit(p), Len(p) > 0
    PROVE  Len(p) < Len(t.nodes)
<1>1. Len(p) \in Nat /\ Len(t.nodes) \in Nat
  <2>1. t.nodes \in Seq(Node \cup {Malformed})
    BY DEF Linked, Drawn
  <2>2. QED
    BY <2>1 DEF Route
<1>2. ASSUME Len(p) >= Len(t.nodes) PROVE FALSE
  <2>1. \E x, y \in 1 .. Len(p) + 1 : x # y /\ NodeAt(p, x) = NodeAt(p, y)
    BY <1>2, LongRoutesTurnBack
  <2>2. \E x \in 1 .. Len(p), d \in Nat : x + d - 1 <= Len(p) /\ Round(t, Part(p, x, d))
    BY <2>1, TurningBack
  <2>3. QED
    BY <2>2, RoundWithoutExit
<1>3. QED
  BY <1>1, <1>2

-----------------------------------------------------------------------------
(* The hops of a call are a route: CallFlow over Validator *)

\* The edges a step may follow, and where the extensions of a node are.
Ahead(step) ==
    CASE step.app = "Goto" -> {step.edge}
      [] step.app = "GotoIfTime" -> step.edges
      [] step.app = "Retry" -> step.invalid
      [] OTHER -> {}
Belongs(at, id) == at = CallflowAt(id) \/ at.context = Sanitize[id]
Outside(at) == at.context \in {"internal", "entrypoints"}

\* An extension belongs to a node or leads into the call flow; its steps follow
\* edges of its node and jump within it, and a menu stands in its context.
StepOf(t, at, id, step) ==
    /\ Ahead(step) \subseteq Outgoing(t, id)
    /\ step.app = "Jump" => at.context = "entrypoints" \/ (Belongs(at, id) /\ Belongs(step.to, id))
    /\ step.app \in {"Menu", "Retry"} => at.context = Sanitize[id]
OwnedBy(t, d, id) ==
    /\ Belongs(d.at, id) \/ Outside(d.at)
    /\ \A k \in DOMAIN d.steps : StepOf(t, d.at, id, d.steps[k])

\* Most steps need no context.
Local(t, id, step) ==
    Ahead(step) \subseteq Outgoing(t, id) /\ step.app \notin {"Jump", "Menu", "Retry"}

LEMMA LocalSteps ==
    ASSUME NEW t, NEW id
    PROVE  /\ Local(t, id, Hangup)
           /\ \A e \in Outgoing(t, id) : Local(t, id, Goto(e))
           /\ \A users : Local(t, id, Dial(users))
           /\ \A group : Local(t, id, Queue(group))
           /\ \A box : Local(t, id, VoiceMail(box))
           /\ \A at, step : Local(t, id, step) => StepOf(t, at, id, step)
<1>1. Local(t, id, Hangup)
  BY DEF Local, Ahead, Hangup
<1>2. ASSUME NEW e \in Outgoing(t, id) PROVE Local(t, id, Goto(e))
  <2>1. Goto(e).app = "Goto" /\ Goto(e).edge = e
    BY DEF Goto
  <2>2. QED
    BY <2>1 DEF Local, Ahead
<1>3. ASSUME NEW x
      PROVE  Local(t, id, Dial(x)) /\ Local(t, id, Queue(x)) /\ Local(t, id, VoiceMail(x))
  <2>1. Dial(x).app = "Dial" /\ Queue(x).app = "Queue" /\ VoiceMail(x).app = "VoiceMail"
    BY DEF Dial, Queue, VoiceMail
  <2>2. QED
    BY <2>1 DEF Local, Ahead
<1>4. \A at, step : Local(t, id, step) => StepOf(t, at, id, step)
  BY DEF Local, StepOf
<1>5. QED
  BY <1>1, <1>2, <1>3, <1>4

LEMMA ChosenAhead ==
    ASSUME NEW t, NEW id, NEW conditions, NEW otherwise
    PROVE  \/ GotoOr(EdgesWith(t, id, conditions), otherwise) = otherwise
           \/ \E e \in Outgoing(t, id) : GotoOr(EdgesWith(t, id, conditions), otherwise) = <<Goto(e)>>
<1>1. CASE EdgesWith(t, id, conditions) = {}
  BY <1>1 DEF GotoOr
<1>2. CASE EdgesWith(t, id, conditions) # {}
  <2> DEFINE e == CHOOSE f \in EdgesWith(t, id, conditions) : TRUE
  <2>1. e \in Outgoing(t, id)
    BY <1>2 DEF EdgesWith
  <2>2. GotoOr(EdgesWith(t, id, conditions), otherwise) = <<Goto(e)>>
    BY <1>2 DEF GotoOr
  <2>3. QED
    BY <2>1, <2>2
<1>3. QED
  BY <1>1, <1>2

LEMMA FinishLocal ==
    ASSUME NEW t, NEW n
    PROVE  \/ Finish(t, n) = <<Hangup>>
           \/ \E step : Local(t, n.id, step) /\ Finish(t, n) = <<step, Hangup>>
<1> DEFINE own == IF n.type = "extension" /\ n.mailbox # NoMailbox THEN <<VoiceMail(n.mailbox)>> ELSE <<>>
           first == GotoOr(Fallback(t, n.id), own)
<1>1. Finish(t, n) = first \o <<Hangup>>
  BY DEF Finish
<1>2. first = own \/ \E e \in Outgoing(t, n.id) : first = <<Goto(e)>>
  BY ChosenAhead DEF Fallback
<1>3. own = <<>> \/ own = <<VoiceMail(n.mailbox)>>
  OBVIOUS
<1> HIDE DEF own, first
<1>4. first = <<>> \/ \E step : Local(t, n.id, step) /\ first = <<step>>
  BY <1>2, <1>3, LocalSteps
<1>5. CASE first = <<>>
  BY <1>1, <1>5, Sequences
<1>6. CASE \E step : Local(t, n.id, step) /\ first = <<step>>
  <2>1. PICK step : Local(t, n.id, step) /\ first = <<step>>
    BY <1>6
  <2>2. Finish(t, n) = <<step, Hangup>>
    BY <1>1, <2>1, Sequences
  <2>3. QED
    BY <2>1, <2>2
<1>7. QED
  BY <1>4, <1>5, <1>6

\* A definition of local steps belongs to any node whose extension it is.
LEMMA OwnedIfLocal ==
    ASSUME NEW t, NEW id, NEW at, Belongs(at, id) \/ Outside(at), NEW steps,
           \/ \E x : Local(t, id, x) /\ steps = <<x>>
           \/ \E x, y : Local(t, id, x) /\ Local(t, id, y) /\ steps = <<x, y>>
           \/ \E x, y, z : Local(t, id, x) /\ Local(t, id, y) /\ Local(t, id, z) /\ steps = <<x, y, z>>
    PROVE  OwnedBy(t, Definition(at, steps), id)
<1>1. \A k \in DOMAIN steps : Local(t, id, steps[k])
  <2>1. ASSUME NEW x, Local(t, id, x), steps = <<x>> PROVE \A k \in DOMAIN steps : Local(t, id, steps[k])
    <3>1. DOMAIN steps = {1} /\ steps[1] = x
      BY <2>1
    <3>2. QED
      BY <2>1, <3>1
  <2>2. ASSUME NEW x, NEW y, Local(t, id, x), Local(t, id, y), steps = <<x, y>>
        PROVE  \A k \in DOMAIN steps : Local(t, id, steps[k])
    <3>1. DOMAIN steps = {1, 2} /\ steps[1] = x /\ steps[2] = y
      BY <2>2
    <3>2. QED
      BY <2>2, <3>1
  <2>3. ASSUME NEW x, NEW y, NEW z, Local(t, id, x), Local(t, id, y), Local(t, id, z), steps = <<x, y, z>>
        PROVE  \A k \in DOMAIN steps : Local(t, id, steps[k])
    <3>1. DOMAIN steps = {1, 2, 3} /\ steps[1] = x /\ steps[2] = y /\ steps[3] = z
      BY <2>3
    <3>2. QED
      BY <2>3, <3>1
  <2>4. QED
    BY <2>1, <2>2, <2>3
<1>2. Definition(at, steps).at = at /\ Definition(at, steps).steps = steps
  BY DEF Definition
<1>3. QED
  BY <1>1, <1>2, LocalSteps DEF OwnedBy

LEMMA DialOwned ==
    ASSUME NEW t, NEW n, NEW at, Belongs(at, n.id) \/ Outside(at), NEW step, Local(t, n.id, step)
    PROVE  OwnedBy(t, Definition(at, <<step>> \o Finish(t, n)), n.id)
<1> DEFINE steps == <<step>> \o Finish(t, n)
<1>1. \/ steps = <<step, Hangup>>
      \/ \E x : Local(t, n.id, x) /\ steps = <<step, x, Hangup>>
  <2>1. CASE Finish(t, n) = <<Hangup>>
    BY <2>1, Sequences
  <2>2. ASSUME NEW x, Local(t, n.id, x), Finish(t, n) = <<x, Hangup>>
        PROVE  steps = <<step, x, Hangup>>
    <3>1. <<step>> \o <<x, Hangup>> = <<step, x, Hangup>>
      BY Sequences
    <3>2. QED
      BY <2>2, <3>1
  <2>3. QED
    BY <2>1, <2>2, FinishLocal
<1>2. Local(t, n.id, Hangup)
  BY LocalSteps
<1> HIDE DEF steps
<1>3. OwnedBy(t, Definition(at, steps), n.id)
  BY <1>1, <1>2, OwnedIfLocal
<1>4. QED
  BY <1>3 DEF steps

LEMMA FlowOwned ==
    ASSUME NEW t, Sound(t), NEW i \in Indices(t)
    PROVE  OwnedBy(t, Flow(t, i), t.nodes[i].id)
<1> DEFINE n == t.nodes[i]
           at == CallflowAt(n.id)
<1>1. Flow(t, i) = Definition(at, CallflowSteps(t, n)) /\ Belongs(at, n.id)
  BY DEF Flow, Belongs
<1>2. n.type \in {"extension", "ivr", "ringgroup", "queue", "schedule", "voicemail"}
  BY SoundNodes DEF Node, NodeTypes, DisabledTypes
<1> HIDE DEF at, n
<1>3. CASE n.type = "ivr"
  <2> DEFINE to == IvrAt(n.id, "s")
             d == Definition(at, <<Jump(to)>>)
  <2>1. CallflowSteps(t, n) = <<Jump(to)>>
    BY <1>3 DEF CallflowSteps
  <2>2. Belongs(to, n.id)
    BY DEF Belongs, IvrAt, At
  <2>3. Jump(to).app = "Jump" /\ Jump(to).to = to /\ Ahead(Jump(to)) = {}
    BY DEF Jump, Ahead
  <2>4. d.at = at /\ DOMAIN d.steps = {1} /\ d.steps[1] = Jump(to)
    BY DEF Definition
  <2> HIDE DEF to, d
  <2>5. OwnedBy(t, d, n.id)
    BY <1>1, <2>2, <2>3, <2>4 DEF OwnedBy, StepOf
  <2>6. QED
    BY <1>1, <2>1, <2>5 DEF d, n
<1>4. CASE n.type \in {"extension", "ringgroup", "queue"}
  <2>1. PICK step : Local(t, n.id, step) /\ CallflowSteps(t, n) = <<step>> \o Finish(t, n)
    BY <1>4, LocalSteps DEF CallflowSteps
  <2>2. QED
    BY <1>1, <2>1, DialOwned DEF n
<1>5. CASE n.type = "schedule"
  <2> DEFINE open == EdgesWith(t, n.id, {"open"})
             closed == EdgesWith(t, n.id, {"closed"})
  <2>1. CallflowSteps(t, n) = ScheduleSteps(t, n)
    BY <1>5 DEF CallflowSteps
  <2>2. \E x : Local(t, n.id, x) /\ ScheduleSteps(t, n) = <<x>>
    <3>1. CASE open = {} \/ closed = {}
      BY <3>1, LocalSteps DEF ScheduleSteps
    <3>2. CASE open # {} /\ closed # {}
      <4> DEFINE choices == {CHOOSE e \in open : TRUE, CHOOSE e \in closed : TRUE}
                 step == [app |-> "GotoIfTime", edges |-> choices]
      <4>1. ScheduleSteps(t, n) = <<step>>
        BY <3>2 DEF ScheduleSteps
      <4>2. choices \subseteq Outgoing(t, n.id)
        BY <3>2 DEF EdgesWith
      <4> HIDE DEF choices
      <4>3. step.app = "GotoIfTime" /\ step.edges = choices
        OBVIOUS
      <4> HIDE DEF step
      <4>4. Local(t, n.id, step)
        BY <4>2, <4>3 DEF Local, Ahead
      <4>5. QED
        BY <4>1, <4>4
    <3>3. QED
      BY <3>1, <3>2
  <2>3. QED
    BY <1>1, <2>1, <2>2, OwnedIfLocal DEF n
<1>6. CASE n.type = "voicemail"
  <2>1. CallflowSteps(t, n) = <<VoiceMail(n.mailbox), Hangup>>
    BY <1>6 DEF CallflowSteps
  <2>2. \E x, y : Local(t, n.id, x) /\ Local(t, n.id, y) /\ CallflowSteps(t, n) = <<x, y>>
    BY <2>1, LocalSteps
  <2>3. QED
    BY <1>1, <2>2, OwnedIfLocal DEF n
<1>7. QED
  BY <1>2, <1>3, <1>4, <1>5, <1>6

LEMMA IvrOwned ==
    ASSUME NEW t, NEW n, NEW d \in IvrContext(t, n)
    PROVE  OwnedBy(t, d, n.id)
<1>1. \A exten : IvrAt(n.id, exten).context = Sanitize[n.id] /\ Belongs(IvrAt(n.id, exten), n.id)
  BY DEF IvrAt, At, Belongs
<1>2. OwnedBy(t, Definition(IvrAt(n.id, "s"), <<[app |-> "ResetRetries"], [app |-> "Menu"]>>), n.id)
  <2> DEFINE reset == [app |-> "ResetRetries"]
             menu == [app |-> "Menu"]
             at == IvrAt(n.id, "s")
             x == Definition(at, <<reset, menu>>)
  <2>1. reset.app = "ResetRetries" /\ menu.app = "Menu" /\ Ahead(reset) = {} /\ Ahead(menu) = {}
    BY DEF Ahead
  <2>2. x.at = at /\ DOMAIN x.steps = {1, 2} /\ x.steps[1] = reset /\ x.steps[2] = menu
    BY DEF Definition
  <2>3. at.context = Sanitize[n.id] /\ Belongs(at, n.id)
    BY <1>1
  <2> HIDE DEF reset, menu, at, x
  <2>4. OwnedBy(t, x, n.id)
    BY <2>1, <2>2, <2>3 DEF OwnedBy, StepOf
  <2>5. QED
    BY <2>4 DEF x, at, reset, menu
<1>3. OwnedBy(t, Definition(IvrAt(n.id, "i"), <<Retry(t, n)>>), n.id)
  <2> DEFINE step == Retry(t, n)
             at == IvrAt(n.id, "i")
             x == Definition(at, <<step>>)
  <2>1. step.app = "Retry" /\ step.invalid = EdgesWith(t, n.id, {"invalid"})
    BY DEF Retry
  <2>2. x.at = at /\ DOMAIN x.steps = {1} /\ x.steps[1] = step
    BY DEF Definition
  <2>3. at.context = Sanitize[n.id] /\ Belongs(at, n.id)
    BY <1>1
  <2> HIDE DEF step, at, x
  <2>4. Ahead(step) \subseteq Outgoing(t, n.id)
    BY <2>1 DEF Ahead, EdgesWith
  <2>5. OwnedBy(t, x, n.id)
    BY <2>1, <2>2, <2>3, <2>4 DEF OwnedBy, StepOf
  <2>6. QED
    BY <2>5 DEF x, at, step
<1>4. \A exten, x : Local(t, n.id, x) => OwnedBy(t, Definition(IvrAt(n.id, exten), <<x>>), n.id)
  BY <1>1, OwnedIfLocal
<1>5. OwnedBy(t, Definition(IvrAt(n.id, "t"), GotoOr(EdgesWith(t, n.id, {"timeout"}), <<Hangup>>)), n.id)
  <2> DEFINE steps == GotoOr(EdgesWith(t, n.id, {"timeout"}), <<Hangup>>)
  <2>1. steps = <<Hangup>> \/ \E e \in Outgoing(t, n.id) : steps = <<Goto(e)>>
    BY ChosenAhead
  <2> HIDE DEF steps
  <2>2. \E x : Local(t, n.id, x) /\ steps = <<x>>
    BY <2>1, LocalSteps
  <2>3. OwnedBy(t, Definition(IvrAt(n.id, "t"), steps), n.id)
    BY <1>4, <2>2
  <2>4. QED
    BY <2>3 DEF steps
<1>6. OwnedBy(t, Definition(IvrAt(n.id, "giveup"), <<Hangup>>), n.id)
  BY <1>4, LocalSteps
<1>7. ASSUME NEW e \in EdgesWith(t, n.id, {"digit"})
      PROVE  OwnedBy(t, Definition(IvrAt(n.id, e.digit), <<Goto(e)>>), n.id)
  <2>1. e \in Outgoing(t, n.id)
    BY DEF EdgesWith
  <2>2. QED
    BY <1>4, <2>1, LocalSteps
<1> DEFINE Owned(x) == OwnedBy(t, x, n.id)
<1>8. /\ Owned(Definition(IvrAt(n.id, "s"), <<[app |-> "ResetRetries"], [app |-> "Menu"]>>))
      /\ Owned(Definition(IvrAt(n.id, "t"), GotoOr(EdgesWith(t, n.id, {"timeout"}), <<Hangup>>)))
      /\ Owned(Definition(IvrAt(n.id, "i"), <<Retry(t, n)>>))
      /\ Owned(Definition(IvrAt(n.id, "giveup"), <<Hangup>>))
      /\ \A e \in EdgesWith(t, n.id, {"digit"}) : Owned(Definition(IvrAt(n.id, e.digit), <<Goto(e)>>))
  BY <1>2, <1>3, <1>5, <1>6, <1>7
<1> HIDE DEF Owned
<1>9. \A x \in IvrContext(t, n) : Owned(x)
  BY <1>8 DEF IvrContext
<1>10. QED
  BY <1>9 DEF Owned

LEMMA AllOwned ==
    ASSUME NEW t, Files(t), NEW d \in config.extensions
    PROVE  \E i \in Indices(t) : OwnedBy(t, d, t.nodes[i].id)
<1>1. config.extensions = GenerateExtensions(t) /\ Sound(t)
  BY DEF Files, GenerateAll
<1>2. ASSUME NEW i \in OfType(t, {"extension"}) PROVE OwnedBy(t, InternalEntry(t, t.nodes[i]), t.nodes[i].id)
  <2>1. Outside(At("internal", t.nodes[i].number))
    BY DEF Outside, At
  <2>2. QED
    BY <2>1, LocalSteps, DialOwned DEF InternalEntry
<1>3. ASSUME NEW i \in Indices(t) PROVE OwnedBy(t, Entrypoint(t, i), t.nodes[i].id)
  <2> DEFINE at == At("entrypoints", EntrypointBase + i - 1)
             step == Jump(CallflowAt(t.nodes[i].id))
             x == Definition(at, <<step>>)
  <2>1. at.context = "entrypoints"
    BY DEF At
  <2>2. step.app = "Jump" /\ Ahead(step) = {}
    BY DEF Jump, Ahead
  <2>3. x.at = at /\ DOMAIN x.steps = {1} /\ x.steps[1] = step
    BY DEF Definition
  <2> HIDE DEF at, step, x
  <2>4. OwnedBy(t, x, t.nodes[i].id)
    BY <2>1, <2>2, <2>3 DEF OwnedBy, StepOf, Outside
  <2>5. QED
    BY <2>4 DEF Entrypoint, x, at, step
<1>4. OfType(t, {"extension"}) \subseteq Indices(t) /\ OfType(t, {"ivr"}) \subseteq Indices(t)
  BY DEF OfType
<1>5. QED
  BY <1>1, <1>2, <1>3, <1>4, FlowOwned, IvrOwned, Generated

\* Since the last timeout or wrong key a call has taken a route of edges
\* without either, one less than its hops, to the node it is at.
Traced(t, x) ==
    /\ x.pc = "idle" => x.hops = 0
    /\ x.pc # "idle" =>
          \E p : /\ Route(t, p) /\ ~HasExit(p) /\ Len(p) = x.hops - 1
                 /\ Len(p) > 0 => Belongs(x.at, p[Len(p)].target)
HopsInv == Traced(draft, call) /\ (call.pc # "idle" => Deployed)

LEMMA NodeOfEdge ==
    ASSUME NEW t, Sound(t), NEW e \in t.edges
    PROVE  /\ \E i \in Indices(t) : t.nodes[i].id = e.source
           /\ \E i \in Indices(t) : t.nodes[i].id = e.target
BY DEF Sound, Accepted, EdgesAccepted, EndsExist, IdsOf

\* An extension belongs to one node at most, and none from outside to any.
LEMMA OneOwner ==
    ASSUME NEW t, Sound(t), NEW at, NEW i \in Indices(t), Belongs(at, t.nodes[i].id)
    PROVE  /\ ~Outside(at)
           /\ \A j \in Indices(t) : Belongs(at, t.nodes[j].id) => i = j
<1>1. \A j \in Indices(t) : Sanitize[t.nodes[j].id] \notin {"internal", "entrypoints", "callflow"}
  <2>1. \A j \in Indices(t) : t.nodes[j].id \in NodeIds
    BY SoundNodes DEF Node
  <2>2. QED
    BY <2>1, DialplanAssumption
<1>2. \A j \in Indices(t) : CallflowAt(t.nodes[j].id).context = "callflow"
                           /\ CallflowAt(t.nodes[j].id).exten = Sanitize[t.nodes[j].id]
  BY DEF CallflowAt, At
<1>3. ~Outside(at)
  BY <1>1, <1>2 DEF Belongs, Outside
<1>4. ASSUME NEW j \in Indices(t), Belongs(at, t.nodes[j].id) PROVE i = j
  <2>1. Sanitize[t.nodes[i].id] = Sanitize[t.nodes[j].id]
    BY <1>1, <1>2, <1>4 DEF Belongs
  <2>2. QED
    BY <2>1, SoundNames
<1>5. QED
  BY <1>3, <1>4

LEMMA SoundIsLinked ==
    ASSUME NEW t, Sound(t)
    PROVE  Linked(t)
<1>1. \A i, j \in Indices(t) : t.nodes[i].id = t.nodes[j].id => i = j
  BY SoundNames
<1>2. \A e \in t.edges : EndsExist(t, e)
  BY DEF Sound, Accepted, EdgesAccepted
<1>3. QED
  BY <1>1, <1>2 DEF Linked, Sound

LEMMA NoEdges ==
    ASSUME NEW t
    PROVE  Route(t, <<>>) /\ ~HasExit(<<>>) /\ Len(<<>>) = 0
<1>1. <<>> \in Seq(t.edges) /\ Len(<<>>) = 0 /\ DOMAIN <<>> = {}
  OBVIOUS
<1>2. QED
  BY <1>1 DEF Route, HasExit

LEMMA BeforeTheLast ==
    ASSUME NEW n \in Nat, NEW j \in 1 .. n, j # n
    PROVE  j \in 1 .. n - 1 /\ j + 1 \in 1 .. n
OBVIOUS

LEMMA RouteGoesOn ==
    ASSUME NEW t, NEW p, Route(t, p), ~HasExit(p), NEW e \in t.edges, ~IsExitCondition(e),
           Len(p) > 0 => p[Len(p)].target = e.source
    PROVE  /\ Route(t, Append(p, e)) /\ ~HasExit(Append(p, e))
           /\ Len(Append(p, e)) = Len(p) + 1 /\ Append(p, e)[Len(p) + 1] = e
<1> DEFINE q == Append(p, e)
           l == Len(p)
<1>1. p \in Seq(t.edges) /\ l \in Nat /\ DOMAIN p = 1 .. l
  BY DEF Route
<1>2. q \in Seq(t.edges) /\ Len(q) = l + 1 /\ q[l + 1] = e
  BY <1>1
<1>3. \A j \in 1 .. l : q[j] = p[j]
  BY <1>1
<1>4. DOMAIN q = 1 .. l + 1
  BY <1>1, <1>2
<1> HIDE DEF q
<1>5. ASSUME NEW j \in 1 .. l PROVE q[j].target = q[j + 1].source
  <2>1. CASE j = l
    BY <1>1, <1>2, <1>3, <2>1
  <2>2. CASE j # l
    <3>1. j \in 1 .. l - 1 /\ j + 1 \in 1 .. l
      BY <1>1, <2>2, BeforeTheLast
    <3>2. p[j].target = p[j + 1].source
      BY <3>1 DEF Route
    <3>3. q[j] = p[j]
      BY <1>3
    <3>4. q[j + 1] = p[j + 1]
      BY <1>3, <3>1
    <3> HIDE DEF l
    <3>5. QED
      BY <3>2, <3>3, <3>4
  <2>3. QED
    BY <2>1, <2>2
<1>6. Route(t, q)
  BY <1>1, <1>2, <1>5 DEF Route
<1>7. ~HasExit(q)
  <2>1. \A j \in 1 .. l : ~IsExitCondition(q[j])
    BY <1>1, <1>3 DEF HasExit
  <2>2. \A j \in 1 .. l + 1 : j \in 1 .. l \/ j = l + 1
    BY <1>1
  <2>3. QED
    BY <1>2, <1>4, <2>1, <2>2 DEF HasExit
<1>8. QED
  BY <1>2, <1>6, <1>7 DEF q

\* A call that follows an edge of the node it is at ...
LEMMA TracedFollowing ==
    ASSUME NEW t, Sound(t), NEW x, Traced(t, x), x.pc = "up", x.hops \in Nat,
           NEW i \in Indices(t), Belongs(x.at, t.nodes[i].id) \/ Outside(x.at),
           NEW e \in Outgoing(t, t.nodes[i].id), NEW y, y.pc # "idle", y.at = CallflowAt(e.target),
           y.hops = IF IsExitCondition(e) THEN 1 ELSE x.hops + 1
    PROVE  Traced(t, y)
<1>1. e \in t.edges /\ e.source = t.nodes[i].id
  BY DEF Outgoing
<1>2. CASE IsExitCondition(e)
  <2> DEFINE none == <<>>
  <2>1. Len(none) = 0 /\ Route(t, none) /\ ~HasExit(none)
    BY NoEdges
  <2> HIDE DEF none
  <2>2. Len(none) = y.hops - 1 /\ (Len(none) > 0 => Belongs(y.at, none[Len(none)].target))
    BY <1>2, <2>1
  <2>3. QED
    BY <2>1, <2>2 DEF Traced
<1>3. CASE ~IsExitCondition(e)
  <2>1. PICK p : /\ Route(t, p) /\ ~HasExit(p) /\ Len(p) = x.hops - 1
                 /\ Len(p) > 0 => Belongs(x.at, p[Len(p)].target)
    BY DEF Traced
  <2>2. Len(p) \in Nat /\ \A j \in 1 .. Len(p) : p[j] \in t.edges
    BY <2>1 DEF Route
  <2>3. ASSUME Len(p) > 0 PROVE p[Len(p)].target = e.source
    <3>1. p[Len(p)] \in t.edges
      BY <2>2, <2>3
    <3>2. PICK j \in Indices(t) : t.nodes[j].id = p[Len(p)].target
      BY <3>1, NodeOfEdge
    <3>3. Belongs(x.at, t.nodes[j].id)
      BY <2>1, <2>3, <3>2
    <3>4. i = j
      BY <3>3, OneOwner
    <3>5. QED
      BY <1>1, <3>2, <3>4
  <2> DEFINE q == Append(p, e)
  <2>4. /\ Route(t, q) /\ ~HasExit(q) /\ Len(q) = Len(p) + 1 /\ q[Len(p) + 1] = e
    BY <1>1, <1>3, <2>1, <2>3, RouteGoesOn
  <2> HIDE DEF q
  <2>5. Len(q) = y.hops - 1
    BY <1>3, <2>1, <2>2, <2>4
  <2>6. Belongs(y.at, q[Len(q)].target)
    BY <2>4 DEF Belongs
  <2>7. QED
    BY <2>4, <2>5, <2>6 DEF Traced
<1>4. QED
  BY <1>2, <1>3

\* ... or stays at it.
LEMMA TracedStaying ==
    ASSUME NEW t, Sound(t), NEW x, Traced(t, x), x.pc # "idle",
           NEW y, y.pc # "idle", y.hops = x.hops,
           \/ y.at = x.at
           \/ Outside(x.at)
           \/ \E i \in Indices(t) : Belongs(x.at, t.nodes[i].id) /\ Belongs(y.at, t.nodes[i].id)
    PROVE  Traced(t, y)
<1>1. PICK p : /\ Route(t, p) /\ ~HasExit(p) /\ Len(p) = x.hops - 1
               /\ Len(p) > 0 => Belongs(x.at, p[Len(p)].target)
  BY DEF Traced
<1>2. ASSUME Len(p) > 0 PROVE Belongs(y.at, p[Len(p)].target)
  <2>1. p[Len(p)] \in t.edges
    <3>1. Len(p) \in Nat /\ \A j \in 1 .. Len(p) : p[j] \in t.edges
      BY <1>1 DEF Route
    <3>2. QED
      BY <1>2, <3>1
  <2>2. PICK j \in Indices(t) : t.nodes[j].id = p[Len(p)].target
    BY <2>1, NodeOfEdge
  <2>3. Belongs(x.at, t.nodes[j].id)
    BY <1>1, <1>2, <2>2
  <2>4. ~Outside(x.at)
    BY <2>3, OneOwner
  <2>5. ASSUME NEW i \in Indices(t), Belongs(x.at, t.nodes[i].id), Belongs(y.at, t.nodes[i].id)
        PROVE  Belongs(y.at, t.nodes[j].id)
    BY <2>3, <2>5, OneOwner
  <2>6. QED
    BY <2>2, <2>3, <2>4, <2>5
<1>3. QED
  BY <1>1, <1>2 DEF Traced

\* The step of a call is one of the node it is at, or leads into the call flow.
LEMMA StepHere ==
    ASSUME CallsInv, call.pc = "up"
    PROVE  \E i \in Indices(draft) :
              /\ Belongs(call.at, draft.nodes[i].id) \/ Outside(call.at)
              /\ StepOf(draft, call.at, draft.nodes[i].id, Step)
<1>1. Defined(call.at) /\ call.step \in DOMAIN StepsAt(call.at) /\ Files(draft)
  BY AtStep DEF CallsInv, CallGood
<1>2. PICK d \in config.extensions : d.at = call.at
  BY <1>1 DEF Defined
<1>3. StepsAt(call.at) = d.steps
  BY <1>1, <1>2, FilesOfExtension
<1>4. PICK i \in Indices(draft) : OwnedBy(draft, d, draft.nodes[i].id)
  BY <1>1, AllOwned
<1>5. QED
  BY <1>1, <1>2, <1>3, <1>4 DEF OwnedBy, Step

LEMMA HopsStart == Init => HopsInv
BY DEF Init, NoCall, HopsInv, Traced

LEMMA DialIsTraced ==
    ASSUME CallsInv, HopsInv, DialNumber
    PROVE  Traced(draft, call')
<1>1. call'.pc # "idle" /\ call'.hops = 1
  <2>1. /\ call = [pc |-> call.pc, at |-> call.at, step |-> call.step,
                   retries |-> call.retries, hops |-> call.hops]
    BY DEF CallsInv, CallGood
  <2>2. PICK d \in config.extensions : call' = [call EXCEPT !.pc = "up", !.at = d.at, !.hops = 1]
    BY DEF DialNumber
  <2>3. call' = [pc |-> "up", at |-> d.at, step |-> call.step, retries |-> call.retries, hops |-> 1]
    BY <2>1, <2>2
  <2>4. QED
    BY <2>3
<1> DEFINE none == <<>>
<1>2. Len(none) = 0 /\ Route(draft, none) /\ ~HasExit(none)
  BY NoEdges
<1> HIDE DEF none
<1>3. Len(none) = call'.hops - 1 /\ (Len(none) > 0 => Belongs(call'.at, none[Len(none)].target))
  BY <1>1, <1>2
<1>4. QED
  BY <1>1, <1>2, <1>3 DEF Traced

\* Where a call is and how many hops it took, each way a step may change it.
LEMMA Moves ==
    ASSUME CallsInv, call.pc = "up"
    PROVE  /\ Ended.pc # "idle" /\ Ended.at = call.at /\ Ended.hops = call.hops
           /\ Proceed.pc # "idle" /\ Proceed.at = call.at /\ Proceed.hops = call.hops
           /\ LET x == [Proceed EXCEPT !.retries = 0]
              IN  x.pc # "idle" /\ x.at = call.at /\ x.hops = call.hops
           /\ \A at : JumpTo(at).pc # "idle" /\ JumpTo(at).at = at /\ JumpTo(at).hops = call.hops
           /\ \A e : /\ Follow(e).pc # "idle" /\ Follow(e).at = CallflowAt(e.target)
                    /\ Follow(e).hops = IF IsExitCondition(e) THEN 1 ELSE call.hops + 1
<1>1. call = [pc |-> call.pc, at |-> call.at, step |-> call.step,
              retries |-> call.retries, hops |-> call.hops]
  BY DEF CallsInv, CallGood
<1> DEFINE As(pc, at, step, retries, hops) ==
        [pc |-> pc, at |-> at, step |-> step, retries |-> retries, hops |-> hops]
<1>2. \A pc, at, step, retries, hops :
          /\ As(pc, at, step, retries, hops).pc = pc /\ As(pc, at, step, retries, hops).at = at
          /\ As(pc, at, step, retries, hops).hops = hops
  OBVIOUS
<1>3. Ended = As("over", call.at, call.step, call.retries, call.hops)
  BY <1>1 DEF Ended
<1>4. Proceed = As("up", call.at, call.step + 1, call.retries, call.hops)
  BY <1>1 DEF Proceed
<1>5. [Proceed EXCEPT !.retries = 0] = As("up", call.at, call.step + 1, 0, call.hops)
  BY <1>4
<1>6. ASSUME NEW at PROVE JumpTo(at) = As("up", at, 1, call.retries, call.hops)
  <2>1. JumpTo(at) = [call EXCEPT !.at = at, !.step = 1]
    BY DEF JumpTo
  <2>2. QED
    BY <1>1, <2>1
<1>7. ASSUME NEW e
      PROVE  Follow(e) = As("up", CallflowAt(e.target), 1, call.retries,
                            IF IsExitCondition(e) THEN 1 ELSE call.hops + 1)
  <2> DEFINE hops == IF IsExitCondition(e) THEN 1 ELSE call.hops + 1
             at == CallflowAt(e.target)
  <2>1. Follow(e) = [call EXCEPT !.at = at, !.step = 1, !.hops = hops]
    BY DEF Follow
  <2> HIDE DEF hops, at
  <2>2. Follow(e) = As("up", at, 1, call.retries, hops)
    BY <1>1, <2>1
  <2>3. QED
    BY <2>2 DEF hops, at
<1> HIDE DEF As
<1>8. QED
  BY <1>2, <1>3, <1>4, <1>5, <1>6, <1>7

LEMMA WalkIsTraced ==
    ASSUME CallsInv, HopsInv, Walk
    PROVE  Traced(draft, call')
<1>1. call.pc = "up" /\ Traced(draft, call) /\ call.hops \in Nat
  BY DEF Walk, HopsInv, CallsInv, CallGood
<1>2. Sound(draft)
  BY <1>1, AtStep DEF Files
<1>3. PICK i \in Indices(draft) :
          /\ Belongs(call.at, draft.nodes[i].id) \/ Outside(call.at)
          /\ StepOf(draft, call.at, draft.nodes[i].id, Step)
  BY <1>1, StepHere
<1> DEFINE id == draft.nodes[i].id
<1>4. ASSUME call'.pc # "idle", call'.at = call.at, call'.hops = call.hops
      PROVE  Traced(draft, call')
  BY <1>1, <1>2, <1>4, TracedStaying
<1>5. ASSUME NEW at, call' = JumpTo(at), Outside(call.at) \/ (Belongs(call.at, id) /\ Belongs(at, id))
      PROVE  Traced(draft, call')
  <2>1. call'.pc # "idle" /\ call'.at = at /\ call'.hops = call.hops
    BY <1>1, <1>5, Moves
  <2>2. QED
    BY <1>1, <1>2, <1>5, <2>1, TracedStaying
<1>6. ASSUME NEW e \in Ahead(Step), call' = Follow(e)
      PROVE  Traced(draft, call')
  <2>1. /\ call'.pc # "idle" /\ call'.at = CallflowAt(e.target)
        /\ call'.hops = IF IsExitCondition(e) THEN 1 ELSE call.hops + 1
    BY <1>1, <1>6, Moves
  <2>2. e \in Outgoing(draft, id)
    BY <1>3, <1>6 DEF StepOf
  <2>3. QED
    BY <1>1, <1>2, <1>3, <2>1, <2>2, TracedFollowing
<1>7. ASSUME Step.app \in {"Menu", "Retry"}, NEW exten
      PROVE  Belongs(call.at, id) /\ Belongs(At(call.at.context, exten), id)
  <2>1. At(call.at.context, exten).context = call.at.context
    BY DEF At
  <2>2. QED
    BY <1>3, <1>7, <2>1 DEF StepOf, Belongs
<1> HIDE DEF id
<1>8. CASE RunDial \/ RunEnd
  BY <1>1, <1>4, <1>8, Moves DEF RunDial, RunEnd
<1>9. CASE RunGoto
  <2>1. CASE Step.app = "Jump" /\ call' = JumpTo(Step.to)
    <3>1. Outside(call.at) \/ (Belongs(call.at, id) /\ Belongs(Step.to, id))
      BY <1>3, <2>1 DEF StepOf, Outside, id
    <3>2. QED
      BY <1>5, <2>1, <3>1
  <2>2. CASE Step.app = "Goto" /\ call' = Follow(Step.edge)
    <3>1. Step.edge \in Ahead(Step)
      BY <2>2 DEF Ahead
    <3>2. QED
      BY <1>6, <2>2, <3>1
  <2>3. CASE Step.app = "GotoIfTime" /\ \E e \in Step.edges : call' = Follow(e)
    <3>1. Ahead(Step) = Step.edges
      BY <2>3 DEF Ahead
    <3>2. QED
      BY <1>6, <2>3, <3>1
  <2>4. QED
    BY <1>9, <2>1, <2>2, <2>3 DEF RunGoto
<1>10. CASE RunMenu
  <2>1. CASE Step.app = "ResetRetries" /\ call' = [Proceed EXCEPT !.retries = 0]
    <3>1. call'.pc # "idle" /\ call'.at = call.at /\ call'.hops = call.hops
      BY <1>1, <2>1, Moves
    <3>2. QED
      BY <1>4, <3>1
  <2>2. CASE Step.app = "Menu" /\ \E exten : call' = JumpTo(At(call.at.context, exten))
    <3>1. PICK exten : call' = JumpTo(At(call.at.context, exten))
      BY <2>2
    <3>2. Belongs(call.at, id) /\ Belongs(At(call.at.context, exten), id)
      BY <1>7, <2>2
    <3>3. QED
      BY <1>5, <3>1, <3>2
  <2>3. CASE /\ Step.app = "Retry"
             /\ call' = IF Step.invalid = {} THEN JumpTo(At(call.at.context, "giveup"))
                        ELSE Follow(CHOOSE e \in Step.invalid : TRUE)
    <3>1. Ahead(Step) = Step.invalid
      BY <2>3 DEF Ahead
    <3>2. CASE Step.invalid = {}
      BY <1>5, <1>7, <2>3, <3>2
    <3>3. CASE Step.invalid # {}
      <4> DEFINE e == CHOOSE f \in Step.invalid : TRUE
      <4>1. e \in Step.invalid /\ call' = Follow(e)
        BY <2>3, <3>3
      <4> HIDE DEF e
      <4>2. QED
        BY <1>6, <3>1, <4>1
    <3>4. QED
      BY <3>2, <3>3
  <2>4. CASE /\ Step.app = "Retry"
             /\ call' = [call EXCEPT !.at = At(call.at.context, "s"), !.step = Step.again,
                                     !.retries = @ + 1]
    <3>1. call = [pc |-> call.pc, at |-> call.at, step |-> call.step,
                  retries |-> call.retries, hops |-> call.hops]
      BY DEF CallsInv, CallGood
    <3>2. call' = [pc |-> "up", at |-> At(call.at.context, "s"), step |-> Step.again,
                   retries |-> call.retries + 1, hops |-> call.hops]
      BY <1>1, <2>4, <3>1
    <3>3. call'.pc # "idle" /\ call'.at = At(call.at.context, "s") /\ call'.hops = call.hops
      BY <3>2
    <3>4. Belongs(call.at, id) /\ Belongs(At(call.at.context, "s"), id)
      BY <1>7, <2>4
    <3>5. QED
      BY <1>1, <1>2, <3>3, <3>4, TracedStaying DEF id
  <2>5. QED
    BY <1>10, <2>1, <2>2, <2>3, <2>4 DEF RunMenu
<1>11. QED
  BY <1>8, <1>9, <1>10 DEF Walk

LEMMA HopsStep == CallsInv /\ HopsInv /\ [Next]_vars => HopsInv'
<1> SUFFICES ASSUME CallsInv, HopsInv, [Next]_vars PROVE HopsInv'
  OBVIOUS
<1>1. ASSUME ~Deployed, UNCHANGED call PROVE HopsInv'
  <2>1. call'.pc = "idle" /\ call'.hops = 0
    BY <1>1 DEF HopsInv, Traced
  <2>2. QED
    BY <2>1 DEF HopsInv, Traced
<1>2. CASE \E n \in Node \cup {Malformed} : AddNode(n)
  BY <1>1, <1>2 DEF AddNode
<1>3. CASE \E e \in Edge : AddEdge(e)
  BY <1>1, <1>3 DEF AddEdge
<1>4. CASE \E m \in Membership : AddMembership(m)
  BY <1>1, <1>4 DEF AddMembership
<1>5. CASE Deploy
  BY <1>1, <1>5 DEF Deploy
<1>6. ASSUME Deployed, UNCHANGED <<draft, config>>, Traced(draft, call') PROVE HopsInv'
  BY <1>6 DEF HopsInv, Traced, Deployed
<1>7. CASE DialNumber
  BY <1>6, <1>7, DialIsTraced DEF DialNumber
<1>8. CASE Walk
  BY <1>6, <1>8, WalkIsTraced DEF Walk, HopsInv
<1>9. CASE Leave
  <2>1. call.pc = "up" /\ call' = Ended
    BY <1>9 DEF Leave
  <2>2. Traced(draft, call')
    <3>1. Sound(draft) /\ Traced(draft, call)
      BY <2>1, AtStep DEF Files, HopsInv
    <3>2. QED
      BY <2>1, <3>1, Moves, TracedStaying
  <2>3. QED
    BY <1>6, <1>9, <2>1, <2>2 DEF Leave, HopsInv
<1>10. CASE UNCHANGED vars
  BY <1>10 DEF vars, HopsInv, Traced, Deployed
<1>11. QED
  BY <1>2, <1>3, <1>4, <1>5, <1>7, <1>8, <1>9, <1>10 DEF Next

LEMMA HopsFacts == CallsInv /\ HopsInv => NoLoopWithoutExit
<1> SUFFICES ASSUME CallsInv, HopsInv, Deployed, ~CheckTruncated(draft)
             PROVE  call.hops <= Len(draft.nodes)
  BY DEF NoLoopWithoutExit
<1>1. Files(draft) /\ Sound(draft)
  BY DEF CallsInv, Deployed, NotDeployed, Files
<1>2. \A r \in Cycles(draft) : HasExit(r)
  BY <1>1 DEF Sound, Accepted, Explored
<1>3. Len(draft.nodes) \in Nat /\ Len(draft.nodes) > 0
  <2>1. PICK d \in config.extensions : TRUE
    BY DEF Deployed
  <2>2. PICK i \in Indices(draft) : OwnedBy(draft, d, draft.nodes[i].id)
    BY <1>1, AllOwned
  <2>3. draft.nodes \in Seq(Node \cup {Malformed})
    BY DEF CallsInv, Drawn
  <2>4. i \in 1 .. Len(draft.nodes)
    BY <2>2, <2>3 DEF Indices
  <2>5. QED
    BY <2>3, <2>4
<1>4. CASE call.pc = "idle"
  BY <1>3, <1>4 DEF HopsInv, Traced
<1>5. CASE call.pc # "idle"
  <2>1. PICK p : Route(draft, p) /\ ~HasExit(p) /\ Len(p) = call.hops - 1
    BY <1>5 DEF HopsInv, Traced
  <2>2. Len(p) \in Nat /\ call.hops \in Nat
    BY <2>1 DEF Route, CallsInv, CallGood
  <2>3. Len(p) > 0 => Len(p) < Len(draft.nodes)
    BY <1>1, <1>2, <2>1, SoundIsLinked, RoutesAreShort
  <2>4. QED
    BY <1>3, <2>1, <2>2, <2>3
<1>6. QED
  BY <1>4, <1>5

-----------------------------------------------------------------------------
\* A topology that is drawn in any order and accepted, a call through what was
\* generated from it and a clock over opening hours have their types; a call
\* never runs off the end of an extension (generateCallflowEntry, finish).
THEOREM CallsTypeCorrect == Spec /\ Hours!Spec => []CallsTypesOK
<1>1. CallsInv /\ HoursInv => CallsTypesOK
  BY CallsFacts DEF HoursInv, CallsTypesOK
<1>2. [Hours!Next]_(Hours!vars) => [Hours!Next]_hourVars
  BY DEF hourVars, Hours!vars
<1>3. QED
  BY <1>1, <1>2, CallsStart, CallsStep, HoursStart, HoursStep, PTL DEF Spec, Hours!Spec

\* No name is defined twice in what is generated, whatever ids, SIP users,
\* numbers and mailboxes were drawn (configGenerator.ts, sanitize).
THEOREM NamesAlwaysUnique == Spec => []NamesUnique
BY CallsStart, CallsStep, CallsFacts, PTL DEF Spec

\* No generated line refers to what is not generated (configGenerator.ts).
THEOREM ReferencesAlwaysResolve == Spec => []ReferencesResolve
BY CallsStart, CallsStep, CallsFacts, PTL DEF Spec

\* Without a timeout or a wrong key no call passes more nodes than there are,
\* unless the cycle check was cut off: an accepted call flow has no other loop
\* (validator.ts, findUnsafeCycles; configGenerator.ts follows only its edges).
THEOREM NoEndlessLoop == Spec => []NoLoopWithoutExit
BY CallsStart, CallsStep, HopsStart, HopsStep, HopsFacts, PTL DEF Spec

\* The preview of opening hours and the dialplan agree at every minute of any
\* calendar, for any number of windows none of which ends at midnight
\* (shared/src/schedule.ts, scheduleDialplan).
THEOREM PreviewIsTheDialplan == Hours!Spec => []MirrorAgreesBeforeMidnight
<1>1. HoursInv => MirrorAgreesBeforeMidnight
  BY HoursAreExact DEF MirrorAgreesBeforeMidnight
<1>2. [Hours!Next]_(Hours!vars) => [Hours!Next]_hourVars
  BY DEF hourVars, Hours!vars
<1>3. QED
  BY <1>1, <1>2, HoursStart, HoursStep, PTL DEF Hours!Spec

\* The validator refuses exactly the windows that have a minute in common
\* (validateScheduleNode).
THEOREM OverlapIsAlwaysExact == Hours!Spec => []OverlapIsExact
<1>1. HoursInv => OverlapIsExact
  BY HoursAreExact DEF OverlapIsExact
<1>2. [Hours!Next]_(Hours!vars) => [Hours!Next]_hourVars
  BY DEF hourVars, Hours!vars
<1>3. QED
  BY <1>1, <1>2, HoursStart, HoursStep, PTL DEF Hours!Spec
=============================================================================
