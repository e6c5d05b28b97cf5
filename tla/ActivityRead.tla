---------------------------- MODULE ActivityRead ----------------------------
(***************************************************************************)
(* backend/pompa/activity_history.py and report.py over the rules of       *)
(* activity.py: what /api/v1/activity and /api/v1/report say of a range,   *)
(* while minutes close, hours are rolled and raw minutes purged.           *)
(*                                                                         *)
(* rows holds every minute recorded under this release, purged ones        *)
(* included; of the legacy hours only the rollup is left.  A query is an   *)
(* operator of one state (its snapshot): history variables would add       *)
(* nothing.  The recorder's own interleavings are in Recorder and          *)
(* HistoryRead; here every step of it is whole, and what is in question is *)
(* the evidence that a query examines and what it concludes from it.       *)
(***************************************************************************)
EXTENDS Activity

CONSTANTS
    MinuteValues,     \* what a recorded minute may hold
    MaxMinute,        \* bound: minutes 0 .. MaxMinute - 1 close
    LegacyHours,      \* bound: hours rolled and purged by an earlier release
    MaxWideningHours, \* MAX_WIDENING_STEP in hours
    MaxStepBack       \* bound: minutes the frontier falls behind what has been closed

ASSUME ActivityReadAssumption ==
    /\ MinuteValues \subseteq Values
    /\ MaxMinute \in Nat
    /\ LegacyHours \in Nat
    /\ MaxWideningHours \in Nat \ {0}
    /\ MaxStepBack \in Nat

VARIABLES
    rows,        \* minute -> values of every recorded minute
    lostHours,   \* hours whose rollup alone is left
    activity,    \* activity_segment_1h: hour -> its segments, for every rolled hour
    purged,      \* hours whose raw minutes are deleted
    horizon,     \* minutes below it have been closed once
    closedUntil  \* the frontier a request observes

vars == <<rows, lostHours, activity, purged, horizon, closedUntil>>

Only(minutes) == [m \in DOMAIN rows \cap minutes |-> rows[m]]
Minutes(h) == (h * MinutesPerHour) .. ((h + 1) * MinutesPerHour - 1)

-----------------------------------------------------------------------------
(* The recorder.                                                           *)

Init ==
    /\ rows = [m \in {} |-> 0]
    /\ lostHours \in {0 .. (n - 1) : n \in 0 .. LegacyHours}
    /\ activity = [h \in {} |-> {}]
    /\ purged = {}
    /\ horizon = Cardinality(lostHours) * MinutesPerHour
    /\ closedUntil = horizon

\* A minute closes with a row, or without one.
Close ==
    /\ horizon < MaxMinute /\ closedUntil = horizon
    /\ \/ \E v \in MinuteValues : rows' = [m \in DOMAIN rows \cup {horizon} |->
                                             IF m = horizon THEN v ELSE rows[m]]
       \/ UNCHANGED rows
    /\ horizon' = horizon + 1 /\ closedUntil' = horizon'
    /\ UNCHANGED <<lostHours, activity, purged>>

\* rebuild_hour of the next closed hour with rows: segments, written with the rollup.
Roll ==
    /\ \E h \in {HourOf(m) : m \in DOMAIN rows} \ DOMAIN activity :
          /\ (h + 1) * MinutesPerHour <= closedUntil
          /\ \A m \in DOMAIN rows : HourOf(m) < h => HourOf(m) \in DOMAIN activity
          /\ activity' = [k \in DOMAIN activity \cup {h} |->
                            IF k = h THEN BuildSegments(Only(Minutes(h))) ELSE activity[k]]
    /\ UNCHANGED <<rows, lostHours, purged, horizon, closedUntil>>

\* purge_hour, lowest hour first.
Purge ==
    /\ \E h \in DOMAIN activity \ purged :
          /\ \A k \in DOMAIN activity : k < h => k \in purged
          /\ purged' = purged \cup {h}
    /\ UNCHANGED <<rows, lostHours, activity, horizon, closedUntil>>

\* A process starts on an earlier clock; the minutes it closes again have their rows.
StepBack ==
    /\ closedUntil' \in Greater(0, horizon - MaxStepBack) .. (closedUntil - 1)
    /\ UNCHANGED <<rows, lostHours, activity, purged, horizon>>

CatchUp ==
    /\ closedUntil < horizon
    /\ closedUntil' = closedUntil + 1
    /\ UNCHANGED <<rows, lostHours, activity, purged, horizon>>

Next == Close \/ Roll \/ Purge \/ StepBack \/ CatchUp

Spec == Init /\ [][Next]_vars

-----------------------------------------------------------------------------
(* _Evidence: the hours [lo, hi) and the source of each.                   *)

NoEdge == {}
RawEdge(rawEdge) ==
    IF rawEdge /\ closedUntil # FloorHour(closedUntil) THEN {HourOf(closedUntil)} ELSE NoEdge

HoursIn(lo, hi) == {h \in HourOf(lo) .. HourOf(hi) : lo <= h * MinutesPerHour /\ h * MinutesPerHour < hi}

Durable(h, edge) == h \in DOMAIN activity /\ \A e \in edge : h < e
RawRows(h) == Only({m \in Minutes(h) : h \notin purged /\ m < closedUntil})

HourSegments(h, edge) ==
    IF Durable(h, edge) THEN activity[h] ELSE BuildSegments(RawRows(h))

\* Hours whose activity is unavailable; purged at the edge means a rollup without raw minutes.
Lost(h, edge) ==
    IF h \in edge
    THEN h \in lostHours \cup purged
    ELSE ~Durable(h, edge) /\ DOMAIN RawRows(h) = {} /\ h \in lostHours \cup DOMAIN activity

LostIn(lo, hi, edge) == {h \in HoursIn(lo, hi) : Lost(h, edge)}

EvidenceSegments(lo, hi, edge) ==
    Clipped(UNION {HourSegments(h, edge) : h \in HoursIn(lo, hi)}, lo, closedUntil)

EvidenceTimeline(lo, hi, end, edge) ==
    Timeline(EvidenceSegments(lo, hi, edge), lo, Greater(hi, end), closedUntil,
             LostIn(lo, hi, edge))

-----------------------------------------------------------------------------
(* load_timeline.  NoFloor is left_floor=None.                             *)

NoFloor == -MinutesPerHour * (MaxMinute + 1)
Cap == CeilHour(closedUntil)

FirstLo(a, floor) == FloorHour(Greater(floor, a - 1))
FirstHi(a, b, floor) == Greater(FirstLo(a, floor), Lesser(CeilHour(b + 1), Cap))

\* A slip: only compressor runs and off intervals are followed beyond the evidence.
UndecidedCompressor(tl, a, b) ==
    LET spans == Intersecting(Spans(tl, "run") \cup Spans(tl, "off"), a, b)
    IN  [left  |-> \E s \in spans : s.before = "outside",
         right |-> \E s \in spans : s.after = "outside"]

Undecided(tl, a, b) ==
    LET spans == Intersecting(AllSpans(tl), a, b)
    IN  [left  |-> \E s \in spans : s.before = "outside",
         right |-> \E s \in spans : s.after = "outside"]

\* One round of the loop: done, unless a span of the range ends where the evidence does;
\* then the evidence grows on the side(s) where it does, by steps that double.
Round(a, b, floor, edge, w) ==
    LET open  == Undecided(EvidenceTimeline(w.lo, w.hi, b, edge), a, b)
        left  == open.left /\ w.lo > floor
        right == open.right /\ w.hi < Cap
        width == w.step * MinutesPerHour
    IN  [lo   |-> IF left THEN Greater(floor, w.lo - width) ELSE w.lo,
         hi   |-> IF right THEN Lesser(Cap, w.hi + width) ELSE w.hi,
         step |-> Lesser(2 * w.step, MaxWideningHours),
         done |-> ~left /\ ~right]

\* Rounds until one is done; each of the others moves lo or hi.
Widened(a, b, floor, edge) ==
    LET first  == [lo |-> FirstLo(a, floor), hi |-> FirstHi(a, b, floor), step |-> 1, done |-> FALSE]
        rounds == (first.lo - floor) + (Greater(Cap, first.hi) - first.hi) + 1
        after[k \in 0 .. rounds] ==
            IF k = 0 THEN first
            ELSE LET w == after[k - 1] IN IF w.done THEN w ELSE Round(a, b, floor, edge, w)
    IN  after[rounds]

LoadTimeline(a, b, floor, edge) ==
    LET w == Widened(a, b, floor, edge) IN EvidenceTimeline(w.lo, w.hi, b, edge)

\* ActivityUnavailable, or Unrepresentable at a raw edge.
Refused(a, b, edge) ==
    \E h \in HoursIn(FloorHour(a), Lesser(b, closedUntil)) : Lost(h, edge)

\* The public resource: no evidence below minute 0.
ActivityTimeline(a, b) == LoadTimeline(a, b, 0, NoEdge)

-----------------------------------------------------------------------------
(* compose_report of a period of whole hours, for its bucket edges.        *)

EffectiveTo(start, end) == Lesser(end, Greater(start, closedUntil))
ReportTimeline(start, end) ==
    LoadTimeline(start, EffectiveTo(start, end), NoFloor, RawEdge(TRUE))

\* bisect_right(starts, t) - 1, as the bucket itself; t is inside the period.
BucketOf(edges, t) ==
    CHOOSE e \in edges : e[1] <= t /\ \A k \in edges : k[1] <= t => k[1] <= e[1]

\* A slip: a stop is attributed with the start of its run.
BucketFactsStopAtStart(tl, edges, bucket, limit) ==
    LET runs == Spans(tl, "run")
        here(t) == \E e \in edges : e[1] <= t /\ t < e[2] /\ t < limit /\ BucketOf(edges, t) = bucket
    IN  [minutes   |-> MinutesOf([tl EXCEPT !.items = {i \in @ : here(i.start)}], tl.start, tl.end),
         starts    |-> Places({r \in runs : here(r.start) /\ r.before = "observed"}),
         stops     |-> Places({r \in runs : here(r.start) /\ r.after = "observed"}),
         complete  |-> Places({r \in runs : here(r.start) /\ Exact(r)}),
         exact_off |-> Places({o \in Spans(tl, "off") : here(o.start) /\ Exact(o)})]

\* One bucket of the report: segments by their start, stops by the last minute of the run.
BucketFacts(tl, edges, bucket, limit) ==
    LET runs == Spans(tl, "run")
        here(t) == \E e \in edges : e[1] <= t /\ t < e[2] /\ t < limit /\ BucketOf(edges, t) = bucket
    IN  [minutes   |-> MinutesOf([tl EXCEPT !.items = {i \in @ : here(i.start)}], tl.start, tl.end),
         starts    |-> Places({r \in runs : here(r.start) /\ r.before = "observed"}),
         stops     |-> Places({r \in runs : here(r.end - 1) /\ r.after = "observed"}),
         complete  |-> Places({r \in runs : here(r.start) /\ Exact(r)}),
         exact_off |-> Places({o \in Spans(tl, "off") : here(o.start) /\ Exact(o)})]

\* ReportInvariantError while composing: a segment that a bucket, the limit or a clip cuts,
\* or a span that ends where the evidence does.
ReportRaises(tl, edges, start, limit) ==
    \/ tl.start > start \/ tl.end < limit
    \/ \E i \in tl.items :
          /\ i.kind = "segment" /\ i.end > start /\ i.start < limit
          /\ \/ i.start < start \/ i.end > limit \/ ~i.energy
             \/ i.end > BucketOf(edges, i.start)[2]
    \/ \E s \in Intersecting(AllSpans(tl), start, limit) : "outside" \in {s.before, s.after}

\* The partition of _facts and _technical: classes and compressor states account for the
\* recorded minutes of the bucket, on and off for those with a compressor frequency.
FactsAccount(facts, bucket, limit) ==
    LET recorded == {m \in DOMAIN rows : bucket[1] <= m /\ m < Lesser(bucket[2], limit)}
    IN  /\ Cardinality(facts.minutes) = Cardinality(recorded)
        /\ Cardinality({f \in facts.minutes : f[3] # "unknown"}) =
              Cardinality({m \in recorded : rows[m].compressor_freq # NULL})

-----------------------------------------------------------------------------
(* Reference: the spans of everything ever recorded, minute by minute.     *)

\* What is known of minute m by whoever looks no further back than floor.
Evidence(m, floor) ==
    IF m < floor THEN "outside"
    ELSE IF m >= closedUntil THEN "open"
    ELSE IF HourOf(m) \in lostHours THEN "unavailable"
    ELSE IF m \in DOMAIN rows THEN "recorded" ELSE "gap"

Segment(m) == [activity |-> Classify(rows[m]), compressor |-> Compressor(rows[m]),
               fraction |-> rows[m].defrosting_state]

EdgeAt(m, family, floor) ==
    IF Evidence(m, floor) # "recorded" THEN Evidence(m, floor)
    ELSE IF Unproven(family, Segment(m)) THEN "unknown" ELSE "observed"

TrueSpans(family, floor) ==
    LET in(m, state) ==
            Evidence(m, floor) = "recorded" /\ StateOf(family, Segment(m)) = state
        last(m, state) == Least({k \in m .. closedUntil : ~in(k + 1, state)})
        firsts == {m \in 0 .. (closedUntil - 1) :
                      /\ Evidence(m, floor) = "recorded"
                      /\ StateOf(family, Segment(m)) \in Wanted(family)
                      /\ ~in(m - 1, StateOf(family, Segment(m)))}
    IN  {LET state == StateOf(family, Segment(m))
             end == last(m, state) + 1
         IN  [family |-> family, state |-> state, start |-> m, end |-> end,
              before |-> EdgeAt(m - 1, family, floor), after |-> EdgeAt(end, family, floor)] :
            m \in firsts}

AllTrueSpans(floor) == UNION {TrueSpans(family, floor) : family \in Families}

Ranges == {r \in (0 .. MaxMinute) \X (1 .. (MaxMinute + 1)) : r[1] < r[2]}
Periods == {r \in Ranges : FloorHour(r[1]) = r[1] /\ FloorHour(r[2]) = r[2]}
HourEdges(start, end) ==
    {<<h * MinutesPerHour, (h + 1) * MinutesPerHour>> : h \in HoursIn(start, end)}

-----------------------------------------------------------------------------
(* Safety.                                                                 *)

\* Facts of the rules alone say nothing of a state: one state is enough to check them in.
AtStart == horizon = 0

\* "None is an unknown metric, never zero" (classify): not knowing one of the columns but
\* the valve, which only outranks the powers, may make a minute unknown and nothing else.
NullNeverInvents ==
    AtStart => \A v \in Values : \A column \in DOMAIN v \ {"three_way_valve"} :
        Classify([v EXCEPT ![column] = NULL]) \in {Classify(v), "unknown"}

\* Whatever values a minute holds, the segment of it can be read back: rebuild_hour never
\* fails because decode_segment finds its place or its interpretation invalid.
MinuteSegmentDecodes == AtStart => \A v \in Values : AllDecode(BuildSegments([m \in {0} |-> v]))

\* So can the segments of an hour, and they count exactly its recorded minutes.
StoredSegmentsDecode ==
    /\ MinuteSegmentDecodes
    /\ \A h \in DOMAIN activity :
          /\ AllDecode(activity[h])
          /\ Covered(activity[h]) = DOMAIN Only(Minutes(h))

\* A range is refused only if one of its hours is lost.  Otherwise every span that reaches
\* into the range is the span of all evidence there is, with the same proof of both edges:
\* hours answered from segments or from raw minutes, segments cut by hours and by the
\* frontier, and the evidence left unexamined make no difference.  No evidence makes
\* Timeline raise.
WidenedIsComplete ==
    LET truth == AllTrueSpans(0)
    IN  /\ ~TimelineRejects(EvidenceSegments(0, Cap, NoEdge), closedUntil, LostIn(0, Cap, NoEdge))
        /\ \A r \in Ranges :
            IF Refused(r[1], r[2], NoEdge)
            THEN \E m \in r[1] .. (r[2] - 1) : HourOf(m) \in lostHours
            ELSE Intersecting(AllSpans(ActivityTimeline(r[1], r[2])), r[1], r[2])
                    = Intersecting(truth, r[1], r[2])

\* "Observed starts/stops are [additive]" (ActivitySummary): a range, with evidence of its
\* own, counts what its minutes count when each is asked for alone, and no two minutes
\* count the same start, stop, complete run or exact off interval.
SummariesAdd ==
    LET answers == {[from |-> r[1], to |-> r[2], facts |-> Summary(ActivityTimeline(r[1], r[2]), r[1], r[2])] :
                      r \in {q \in Ranges : ~Refused(q[1], q[2], NoEdge)}}
        units == {u \in answers : u.to = u.from + 1}
        within(q) == {u \in units : q.from <= u.from /\ u.to <= q.to}
    IN  /\ \A u, w \in units : \A fact \in DOMAIN u.facts : u = w \/ u.facts[fact] \cap w.facts[fact] = {}
        /\ \A q \in answers : \A fact \in DOMAIN q.facts :
              q.facts[fact] = UNION {u.facts[fact] : u \in within(q)}

\* A report of whole hours never fails on its own facts, and each of its buckets counts
\* what /activity says of the bucket's settled part.  (A frontier inside an hour that is
\* already purged is another matter: the report does not use that hour's segments.)
ReportMatchesActivity ==
    HourOf(closedUntil) \notin purged =>
        \A p \in Periods :
            LET limit == EffectiveTo(p[1], p[2])
                tl    == ReportTimeline(p[1], p[2])
                edges == HourEdges(p[1], p[2])
            IN  p[1] < limit /\ ~Refused(p[1], limit, RawEdge(TRUE)) =>
                    /\ ~ReportRaises(tl, edges, p[1], limit)
                    /\ \A e \in {k \in edges : k[1] < limit} :
                          LET facts == BucketFacts(tl, edges, e, limit)
                              end   == Lesser(e[2], limit)
                          IN  /\ FactsAccount(facts, e, limit)
                              /\ facts = Summary(ActivityTimeline(e[1], end), e[1], end)
=============================================================================
