----------------------------- MODULE HistoryRead -----------------------------
(***************************************************************************)
(* The read paths of Pompa Next beside the recorder: backend/pompa/        *)
(* history.py, activity_history.py and report_read.py.  A request observes *)
(* the settled frontier under the recorder's lock and opens its database   *)
(* snapshot afterwards; in between, and before it looks again, the         *)
(* recorder writes, rolls, backfills and purges.                           *)
(*                                                                         *)
(* A snapshot is one state of db, so what a reader answers is an operator  *)
(* of db, the frontier and the range, and the invariants say it of every   *)
(* state and every range.  A range is [start, end) in minutes; rows stand  *)
(* for their folds and segments as in HistoryStore.                        *)
(***************************************************************************)
EXTENDS Recorder

VARIABLE closedUntil  \* the frontier the request under way has observed

readVars == <<vars, closedUntil>>

HourStart(h) == h * MinutesPerHour
FloorHour(t) == HourStart(HourOf(t))
CeilHour(t) == FloorHour(t + MinutesPerHour - 1)
Lesser(a, b) == IF a <= b THEN a ELSE b
Greater(a, b) == IF a <= b THEN b ELSE a

EndOfTime == HourStart(HourOf(MaxMinute) + 1)
Ranges == {r \in (0 .. EndOfTime) \X (0 .. EndOfTime) : r[1] < r[2]}
HourlyRanges == {r \in Ranges : r[1] = FloorHour(r[1]) /\ r[2] = FloorHour(r[2])}

Within(rows, a, b) == [m \in {k \in DOMAIN rows : a <= k /\ k < b} |-> rows[m]]

-----------------------------------------------------------------------------
(* history.py.                                                             *)

\* rolled_until, for a store with a rollup.
IsRolledUntil(s, t) ==
    \E h \in DOMAIN s.rollup : t = HourStart(h + 1) /\ \A k \in DOMAIN s.rollup : k <= h

\* A slip: the rollup is believed to reach as far as the range.
RolledSpanUnbounded(s, a, b, hourly) ==
    LET lo == CeilHour(a)
    IN  IF hourly /\ DOMAIN s.rollup # {} THEN <<lo, Greater(lo, FloorHour(b))>> ELSE <<lo, lo>>

\* The part of [a, b) answered from the rollup, as <<roll_lo, roll_hi>>; none of it
\* for a bucket shorter than an hour.
RolledSpan(s, a, b, hourly) ==
    LET lo == CeilHour(a)
    IN  IF hourly /\ DOMAIN s.rollup # {}
        THEN LET until == CHOOSE t \in 0 .. EndOfTime : IsRolledUntil(s, t)
             IN  <<lo, Greater(lo, Lesser(FloorHour(b), until))>>
        ELSE <<lo, lo>>

\* The minutes read from sample_1m: the rest of the range.
RawPart(s, a, b, hourly) ==
    LET rolled == RolledSpan(s, a, b, hourly)
    IN  {m \in a .. (b - 1) : m < rolled[1] \/ rolled[2] <= m}

\* A slip: every purged hour of the range refuses it, rolled up or not.
RefusedAnyPurged(s, a, b, hourly) == HoursOf(a .. (b - 1)) \cap PurgedHours(s) # {}

\* Unrepresentable: a raw minute is needed of an hour whose raw minutes are gone.
HistoryRefused(s, a, b, hourly) == HoursOf(RawPart(s, a, b, hourly)) \cap PurgedHours(s) # {}

\* CanonicalPartials, as the rows its folds stand for.
HistoryRows(s, a, b, hourly) ==
    LET rolled == RolledSpan(s, a, b, hourly)
        hours == {h \in DOMAIN s.rollup : rolled[1] <= HourStart(h) /\ HourStart(h + 1) <= rolled[2]}
        raw == RawPart(s, a, b, hourly) \cap DOMAIN s.raw
    IN  [m \in raw \cup UNION {DOMAIN s.rollup[h] : h \in hours} |->
            IF m \in raw THEN s.raw[m] ELSE s.rollup[HourOf(m)][m]]

\* bucket=auto: minute buckets of a short range become hours if a raw hour is gone.
AutoHourly(s, a, b) == HoursOf(a .. (b - 1)) \cap PurgedHours(s) # {}

-----------------------------------------------------------------------------
(* activity_history.py.                                                    *)

NoEdge == {}

\* A slip: a report takes the segments of the hour the frontier is in, if there are some.
RawEdgeNever(rawEdge) == NoEdge

\* A report reads the hour of a frontier inside an hour from raw minutes.
RawEdge(rawEdge) ==
    IF rawEdge /\ closedUntil # FloorHour(closedUntil) THEN {HourOf(closedUntil)} ELSE NoEdge

\* _Evidence.load of one hour: its segments, or segments built from its raw minutes.
Durable(s, h, edge) == h \in DOMAIN s.activity /\ \A e \in edge : h < e
RawBelow(s, h) == Within(HourRows(s, h), 0, closedUntil)

\* A slip: raw minutes stand in for the segments of unrolled hours only.
HourEvidenceUnrolled(s, h, edge) ==
    IF Durable(s, h, edge) THEN s.activity[h]
    ELSE IF h \in DOMAIN s.rollup THEN [m \in {} |-> 0] ELSE RawBelow(s, h)

HourEvidence(s, h, edge) ==
    IF Durable(s, h, edge) THEN s.activity[h] ELSE RawBelow(s, h)

\* The hours it marks as unavailable: rolled, without segments, without raw minutes.
Lost(s, h, edge) ==
    IF h \in edge
    THEN h \in PurgedHours(s)
    ELSE ~Durable(s, h, edge) /\ DOMAIN RawBelow(s, h) = {} /\ h \in DOMAIN s.rollup

\* ActivityRecordInvalid: segments and rollup of an hour count different minutes.
RecordInvalid(s, h, edge) ==
    Durable(s, h, edge) /\ ~(h \in DOMAIN s.rollup /\
        Cardinality(DOMAIN s.activity[h]) = Cardinality(DOMAIN s.rollup[h]))

\* ActivityUnavailable, or a purged raw edge: an hour of the closed range is lost.
ActivityRefused(s, a, b, edge) ==
    \E h \in HoursOf(a .. (Lesser(b, closedUntil) - 1)) : Lost(s, h, edge)

\* The rows of [a, b) the timeline is built from, clipped at the frontier.
ActivityRows(s, a, b, edge) ==
    LET hours == HoursOf(a .. (b - 1)) \cap Hour
        rows == [m \in UNION {DOMAIN HourEvidence(s, h, edge) : h \in hours} |->
                    HourEvidence(s, HourOf(m), edge)[m]]
    IN  Within(rows, a, Lesser(b, closedUntil))

-----------------------------------------------------------------------------
(* The request.                                                            *)

\* A slip: the frontier of a request looks at the open minute only.
ObserveOpenMinute ==
    /\ closedUntil' = minuteStart
    /\ UNCHANGED vars

\* settled_before: no later than the clock, the open minute and every queued row.
Observe ==
    /\ \E now \in Minute :
          LET marks == {now, minuteStart} \cup waiting \cup protected
          IN  closedUntil' = CHOOSE m \in marks : \A k \in marks : m <= k
    /\ UNCHANGED vars

ReadInit == Init /\ closedUntil = 0

\* A restart ends the requests of the process.
ReadNext ==
    \/ (MqttEvent \/ RecorderStep \/ Resolve) /\ UNCHANGED closedUntil
    \/ Restart /\ closedUntil' = 0
    \/ Observe

ReadSpec == ReadInit /\ [][ReadNext]_readVars

-----------------------------------------------------------------------------
(* Safety.                                                                 *)

\* Whichever of rollup and raw minutes a range is answered from, the answer holds
\* exactly the recorded minutes of the range.
HistoryExact ==
    \A r \in Ranges, hourly \in BOOLEAN :
        HistoryRefused(db, r[1], r[2], hourly) \/
        HistoryRows(db, r[1], r[2], hourly) = Within(Ledger(db), r[1], r[2])

\* An hourly answer is refused only where the range cuts a purged hour: in particular
\* bucket=auto answers every range of whole hours.
RefusedOnlyAtCutHours ==
    \A r \in Ranges :
        /\ HistoryRefused(db, r[1], r[2], TRUE) <=>
            \E h \in PurgedHours(db) :
                /\ HourStart(h) < r[2] /\ r[1] < HourStart(h + 1)
                /\ ~(r[1] <= HourStart(h) /\ HourStart(h + 1) <= r[2])
        /\ r \in HourlyRanges => ~HistoryRefused(db, r[1], r[2], AutoHourly(db, r[1], r[2]))

\* Once the backfill of the running process is complete, an hour that is refused as
\* unavailable has lost its raw minutes: they are not merely ahead of the frontier,
\* however far a restart or a clock reading put it back.
UnavailableMeansPurged ==
    backfilled => \A r \in Ranges, edge \in {NoEdge, RawEdge(TRUE)} :
        \A h \in HoursOf(r[1] .. (Lesser(r[2], closedUntil) - 1)) :
            Lost(db, h, edge) => h \in PurgedHours(db)

\* Activity that is answered rests on exactly the recorded minutes below the frontier,
\* with durable segments, raw minutes of hours without them, or a raw edge; and it is not
\* refused for an hour that still has its minutes.
ActivityExact ==
    /\ \A r \in Ranges, edge \in {NoEdge, RawEdge(TRUE)} :
          /\ \A h \in HoursOf(r[1] .. (r[2] - 1)) : ~RecordInvalid(db, h, edge)
          /\ ActivityRefused(db, r[1], r[2], edge) \/
             ActivityRows(db, r[1], r[2], edge) = Within(Ledger(db), r[1], Lesser(r[2], closedUntil))
    /\ UnavailableMeansPurged

\* A report never finds history and activity of its snapshot in disagreement
\* (ReportHistoryInconsistent), whatever was rolled, backfilled or purged after it
\* observed the frontier, and uses no durable hour that the frontier cuts: a clipped
\* segment would have lost its energy.
ReportAgrees ==
    \A r \in HourlyRanges :
        LET limit == Lesser(r[2], closedUntil)
            edge == RawEdge(TRUE)
        IN  r[1] < limit =>
              \/ HistoryRefused(db, r[1], limit, TRUE)
              \/ ActivityRefused(db, r[1], limit, edge)
              \/ \A h \in HoursOf(r[1] .. (limit - 1)) :
                     /\ Cardinality({m \in DOMAIN HistoryRows(db, r[1], limit, TRUE) : HourOf(m) = h})
                          = Cardinality({m \in DOMAIN ActivityRows(db, r[1], limit, edge) : HourOf(m) = h})
                     /\ Durable(db, h, edge) => HourStart(h + 1) <= limit

-----------------------------------------------------------------------------
(* Action properties.                                                      *)

\* No write of the running process reaches below a frontier a request has observed,
\* however long ago, and once its backfill is complete no write of an earlier one does.
ObservedIsFinal ==
    [][\A m \in Minute, p \in Process :
          m < closedUntil /\ closedUntil' = closedUntil /\ (p = proc \/ backfilled)
              => (StoredBy(db', m, p) => StoredBy(db, m, p))]_readVars
=============================================================================
