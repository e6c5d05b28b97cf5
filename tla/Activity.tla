------------------------------ MODULE Activity ------------------------------
(***************************************************************************)
(* backend/pompa/activity.py: what recorded minutes say about the heat     *)
(* pump.  A minute is classified, equal consecutive minutes of an hour     *)
(* form a segment, segments and gaps a timeline, and the timeline spans    *)
(* whose edges are judged by the minute beside them.                       *)
(*                                                                         *)
(* A minute's values are minute means.  Only what the rules compare is     *)
(* kept: a state is 0, 1 (between) or 2 (one for the whole minute), a      *)
(* power is 1 above the threshold and 0 below.  Segments, items and spans  *)
(* are sets: they carry their place.  The energy ingredients of a segment  *)
(* are the fold of its minutes, lost when a piece is clipped out of it.    *)
(***************************************************************************)
EXTENDS Integers, FiniteSets

CONSTANT MinutesPerHour

ASSUME ActivityAssumption == MinutesPerHour \in Nat \ {0}

NULL == -1
HourOf(t) == t \div MinutesPerHour
FloorHour(t) == HourOf(t) * MinutesPerHour
CeilHour(t) == FloorHour(t + MinutesPerHour - 1)
Lesser(a, b) == IF a <= b THEN a ELSE b
Greater(a, b) == IF a <= b THEN b ELSE a

Activities == {"off", "idle", "co", "dhw", "transition", "defrost", "unknown"}
CompressorStates == {"off", "on", "unknown"}
Values == [compressor_freq : {NULL, 0, 1}, defrosting_state : {NULL, 0, 1, 2},
           heatpump_state : {NULL, 0, 1, 2}, three_way_valve : {NULL, 0, 1, 2},
           co_power_consumption : {NULL, 0, 1}, co_power_production : {NULL, 0, 1},
           dhw_power_consumption : {NULL, 0, 1}, dhw_power_production : {NULL, 0, 1}]

-----------------------------------------------------------------------------
(* Classification of one minute.                                           *)

Compressor(v) ==
    CASE v.compressor_freq = NULL -> "unknown"
      [] v.compressor_freq > 0    -> "on"
      [] OTHER                    -> "off"

\* A slip: an unknown channel counts as one below the threshold.
PowerSideNullIsZero(channels) == IF 1 \in channels THEN "active" ELSE "inactive"

\* True, False and None of _power_side.
PowerSide(channels) ==
    IF 1 \in channels THEN "active" ELSE IF NULL \in channels THEN "unknown" ELSE "inactive"

PowerActivity(v) ==
    LET co  == PowerSide({v.co_power_consumption, v.co_power_production})
        dhw == PowerSide({v.dhw_power_consumption, v.dhw_power_production})
    IN  CASE co = "active" /\ dhw = "active"   -> "transition"
          [] co = "active" /\ dhw = "inactive" -> "co"
          [] dhw = "active" /\ co = "inactive" -> "dhw"
          [] OTHER                             -> "unknown"

StoppedActivity(v) ==
    CASE v.heatpump_state = NULL -> "unknown"
      [] v.heatpump_state = 0    -> "off"
      [] OTHER                   -> "idle"

RunningActivity(v) ==
    CASE v.three_way_valve = NULL -> PowerActivity(v)
      [] v.three_way_valve = 0    -> "co"
      [] v.three_way_valve = 2    -> "dhw"
      [] OTHER                    -> "transition"

\* A slip: the compressor is looked at before the defrost.
ClassifyCompressorFirst(v) ==
    CASE Compressor(v) = "unknown"  -> "unknown"
      [] Compressor(v) = "off"      -> StoppedActivity(v)
      [] v.defrosting_state > 0     -> "defrost"
      [] OTHER                      -> RunningActivity(v)

\* classify: an unknown defrost cannot be excluded, a defrost needs no compressor.
Classify(v) ==
    CASE v.defrosting_state = NULL -> "unknown"
      [] v.defrosting_state > 0    -> "defrost"
      [] v.defrosting_state = 0 /\ Compressor(v) = "unknown" -> "unknown"
      [] v.defrosting_state = 0 /\ Compressor(v) = "off"     -> StoppedActivity(v)
      [] v.defrosting_state = 0 /\ Compressor(v) = "on"      -> RunningActivity(v)

-----------------------------------------------------------------------------
(* Segments.                                                               *)

Interpretation(v) == <<Classify(v), Compressor(v), v.defrosting_state>>

\* The minute m carries on the group of the minute before it.
Continues(rows, m) ==
    /\ m - 1 \in DOMAIN rows
    /\ HourOf(m) = HourOf(m - 1)
    /\ Interpretation(rows[m]) = Interpretation(rows[m - 1])

Least(S) == CHOOSE x \in S : \A y \in S : x <= y

SegmentOf(rows, a) ==
    [kind |-> "segment", start |-> a,
     end |-> Least({m \in {k + 1 : k \in DOMAIN rows} :
                       m > a /\ (m \notin DOMAIN rows \/ ~Continues(rows, m))}),
     activity |-> Classify(rows[a]), compressor |-> Compressor(rows[a]),
     fraction |-> rows[a].defrosting_state, energy |-> TRUE]

BuildSegments(rows) == {SegmentOf(rows, a) : a \in {m \in DOMAIN rows : ~Continues(rows, m)}}

\* ActivitySegment.clip of every segment; a piece of one carries no energy.
Clipped(segments, a, b) ==
    {[s EXCEPT !.start = Greater(@, a), !.end = Lesser(@, b),
               !.energy = @ /\ a <= s.start /\ s.end <= b] :
        s \in {k \in segments : k.start < b /\ a < k.end}}

\* decode_segment's checks of the place and the interpretation of a persisted segment, in
\* canonical form; its checks of numbers are left out.
ActivitiesWith(compressor) ==
    CASE compressor = "off"     -> {"off", "idle", "defrost", "unknown"}
      [] compressor = "on"      -> {"co", "dhw", "transition", "defrost", "unknown"}
      [] compressor = "unknown" -> {"defrost", "unknown"}

Decodes(s) ==
    /\ s.energy
    /\ s.start >= 0 /\ s.start < s.end /\ s.end <= FloorHour(s.start) + MinutesPerHour
    /\ s.activity \in ActivitiesWith(s.compressor)
    /\ s.activity = "defrost" <=> s.fraction > 0
    /\ s.fraction = NULL => s.activity = "unknown"

\* decode_segments: also ascending without overlap.
AllDecode(segments) ==
    /\ \A s \in segments : Decodes(s)
    /\ \A s, t \in segments : s = t \/ s.end <= t.start \/ t.end <= s.start

-----------------------------------------------------------------------------
(* The timeline of [start, end): segments, gaps and unavailable hours.     *)

Covered(segments) == UNION {s.start .. (s.end - 1) : s \in segments}

\* The maximal intervals of a set of minutes.
Intervals(minutes) ==
    {<<a, Least({m \in {k + 1 : k \in minutes} : m > a /\ m \notin minutes})>> :
        a \in {m \in minutes : m - 1 \notin minutes}}

\* ValueError: impossible evidence.
TimelineRejects(segments, closed, lost) ==
    \/ \E s \in segments : s.end > closed
    \/ \E s, t \in segments : s # t /\ s.start < t.end /\ t.start < s.end
    \/ \E s \in segments, h \in lost : HourOf(s.start) <= h /\ h <= HourOf(s.end - 1)

Timeline(segments, start, end, closed, lost) ==
    LET limit  == Greater(start, Lesser(end, closed))
        pieces == Clipped(segments, start, end)
        open   == (start .. (limit - 1)) \ Covered(pieces)
        gone   == {m \in open : HourOf(m) \in lost}
    IN  [start |-> start, end |-> end, closed |-> closed,
         items |-> pieces
            \cup {[kind |-> "gap", start |-> g[1], end |-> g[2]] : g \in Intervals(open \ gone)}
            \cup UNION {{[kind |-> "unavailable", start |-> g[1], end |-> g[2]] :
                           g \in Intervals({m \in gone : HourOf(m) = h})} : h \in lost}]

-----------------------------------------------------------------------------
(* Spans: activity_events, defrosts, compressor_runs and                   *)
(* compressor_off_intervals are four families of one shape.                *)

Families == {"activity", "defrost", "run", "off"}
StateOf(family, s) == IF family \in {"activity", "defrost"} THEN s.activity ELSE s.compressor
Wanted(family) ==
    CASE family = "activity" -> Activities
      [] family = "defrost"  -> {"defrost"}
      [] family = "run"      -> {"on"}
      [] family = "off"      -> {"off"}

\* What cannot prove an edge beside it.  A defrost is judged by the defrost signal alone.
Unproven(family, s) ==
    IF family = "defrost" THEN s.fraction = NULL ELSE StateOf(family, s) = "unknown"

\* _boundary: what stands beside an edge; nothing does at the end of the evidence.
Boundary(tl, family, edge, after) ==
    LET near == {i \in tl.items : IF after THEN i.start = edge ELSE i.end = edge}
        item == CHOOSE i \in near : TRUE
    IN  IF near = {}
        THEN IF after /\ edge >= tl.closed THEN "open" ELSE "outside"
        ELSE IF item.kind # "segment" THEN item.kind
        ELSE IF Unproven(family, item) THEN "unknown" ELSE "observed"

Spans(tl, family) ==
    LET segments == {i \in tl.items : i.kind = "segment" /\ StateOf(family, i) \in Wanted(family)}
        joined(i, j) == i.end = j.start /\ StateOf(family, i) = StateOf(family, j)
        firsts == {j \in segments : \A i \in segments : ~joined(i, j)}
        ends == {i.end : i \in {k \in segments : \A j \in segments : ~joined(k, j)}}
    IN  {LET end == Least({e \in ends : e >= s.end})
         IN  [family |-> family, state |-> StateOf(family, s), start |-> s.start, end |-> end,
              before |-> Boundary(tl, family, s.start, FALSE),
              after |-> Boundary(tl, family, end, TRUE)] : s \in firsts}

AllSpans(tl) == UNION {Spans(tl, family) : family \in Families}
Intersecting(spans, a, b) == {s \in spans : s.start < b /\ a < s.end}
Exact(s) == s.before = "observed" /\ s.after = "observed"
Places(spans) == {<<s.start, s.end>> : s \in spans}

-----------------------------------------------------------------------------
(* summarize, with sets of minutes and spans for their counts.             *)

MinutesOf(tl, a, b) ==
    UNION {{<<m, s.activity, s.compressor, s.fraction>> : m \in s.start .. (s.end - 1)} :
              s \in Clipped({i \in tl.items : i.kind = "segment"}, a, b)}

\* A slip: a stop belongs to the range that holds the minute after the run.
SummaryStopsAfter(tl, a, b) ==
    LET runs == Spans(tl, "run")
        within(t) == a <= t /\ t < b
    IN  [minutes     |-> MinutesOf(tl, a, b),
         starts      |-> Places({r \in runs : r.before = "observed" /\ within(r.start)}),
         stops       |-> Places({r \in runs : r.after = "observed" /\ within(r.end)}),
         complete    |-> Places({r \in runs : Exact(r) /\ within(r.start)}),
         exact_off   |-> Places({o \in Spans(tl, "off") : Exact(o) /\ within(o.start)})]

\* A range that holds an unavailable hour has none (ValueError).
Summary(tl, a, b) ==
    LET runs == Spans(tl, "run")
        within(t) == a <= t /\ t < b
    IN  [minutes     |-> MinutesOf(tl, a, b),
         starts      |-> Places({r \in runs : r.before = "observed" /\ within(r.start)}),
         stops       |-> Places({r \in runs : r.after = "observed" /\ within(r.end - 1)}),
         complete    |-> Places({r \in runs : Exact(r) /\ within(r.start)}),
         exact_off   |-> Places({o \in Spans(tl, "off") : Exact(o) /\ within(o.start)})]
=============================================================================
