---------------------------- MODULE HistoryStore ----------------------------
(***************************************************************************)
(* The durable history of Pompa Next, as values: the raw minutes           *)
(* (sample_1m with its optional documents), the hourly rollup (rollup_1h   *)
(* with optional_rollup_1h) and the activity segments                      *)
(* (activity_segment_1h), and what each writing transaction of             *)
(* backend/pompa/recorder.py makes of them.  A store is a record           *)
(*                                                                         *)
(*    raw       minute -> the process that recorded it                     *)
(*    rollup    hour   -> the rows its rollup was folded from              *)
(*    activity  hour   -> the rows its segments were built from            *)
(*                                                                         *)
(* Folding and segment building are deterministic functions of the rows of *)
(* one hour, so the rows themselves stand for their result: two derived    *)
(* values are equal here only if they come from the same rows, which is at *)
(* least as strict as comparing the folds.  A canonical minute and its     *)
(* optional document are always written, rebuilt and deleted together and  *)
(* are one entry of raw; likewise the two rollup tables.                   *)
(*                                                                         *)
(* rolled_until is MAX(hour_ts) + 1 h over rollup.  "h is below            *)
(* rolled_until" is written BelowRolled(s, h); without any rollup nothing  *)
(* is below it, which is what every caller does with its None.             *)
(***************************************************************************)
EXTENDS Naturals, FiniteSets

CONSTANTS
    MinutesPerHour,   \* HOUR / MINUTE (60 in the code)
    MaxMinute,        \* bound: the last minute the model's clock can show
    MaxProcesses      \* bound: processes started over the database

ASSUME StoreAssumption ==
    /\ MinutesPerHour \in Nat \ {0}
    /\ MaxMinute \in Nat
    /\ MaxProcesses \in Nat \ {0}

Minute == 0 .. MaxMinute
HourOf(m) == m \div MinutesPerHour
Hour == 0 .. HourOf(MaxMinute)
HoursOf(minutes) == {HourOf(m) : m \in minutes}

\* Processes record rows; 0 stands for those that ran before the model starts.
Process == 0 .. MaxProcesses

IsRows(f) == DOMAIN f \subseteq Minute /\ f \in [DOMAIN f -> Process]
IsHourTable(f) ==
    /\ DOMAIN f \subseteq Hour
    /\ f = [h \in DOMAIN f |-> f[h]]
    /\ \A h \in DOMAIN f : IsRows(f[h])
IsStore(s) ==
    /\ s = [raw |-> s.raw, rollup |-> s.rollup, activity |-> s.activity]
    /\ IsRows(s.raw)
    /\ IsHourTable(s.rollup)
    /\ IsHourTable(s.activity)

-----------------------------------------------------------------------------
(* Reading a store.                                                        *)

RawHours(s) == HoursOf(DOMAIN s.raw)
RawMinutes(s, h) == {m \in DOMAIN s.raw : HourOf(m) = h}

\* The rows rebuild_hour, the purge proof and the readers see for one hour.
HourRows(s, h) == [m \in RawMinutes(s, h) |-> s.raw[m]]

\* h < rolled_until, also for an h past the clock's bound.
BelowRolled(s, h) == \E r \in DOMAIN s.rollup : h <= r

\* first_purged_hour's fact: a rollup row and no raw minute.
PurgedHours(s) == DOMAIN s.rollup \ RawHours(s)

\* h is the hour of the first raw minute at or above hour "from".
IsFirstRawHour(s, from, h) ==
    /\ h \in RawHours(s)
    /\ from <= h
    /\ \A k \in RawHours(s) : from <= k => h <= k

-----------------------------------------------------------------------------
(* Writing a store: one operator per transaction body.                     *)

\* The entries of "new" replace or join those of "old" (REPLACE, ON DUPLICATE KEY UPDATE).
Over(new, old) ==
    [x \in DOMAIN new \cup DOMAIN old |-> IF x \in DOMAIN new THEN new[x] ELSE old[x]]

\* rebuild_hour for every hour of a set.
RebuildHours(s, hours) ==
    LET rebuilt == [h \in hours |-> HourRows(s, h)]
    IN  [raw      |-> s.raw,
         rollup   |-> Over(rebuilt, s.rollup),
         activity |-> Over(rebuilt, s.activity)]

\* persist: the hours its rows touch, those it must refuse, and its effect.
TouchedHours(s, rows) == {h \in HoursOf(rows) : BelowRolled(s, h)}
RefusedNone(s, rows) == {}  \* a slip: a late write is never refused
RefusedHours(s, rows) == TouchedHours(s, rows) \cap PurgedHours(s)
Upserted(s, rows, p) ==
    [raw |-> Over([m \in rows |-> p], s.raw), rollup |-> s.rollup, activity |-> s.activity]
UpsertedOnly(s, rows, p) == Upserted(s, rows, p)  \* a slip: rolled hours are not rebuilt
Persisted(s, rows, p) ==
    RebuildHours(Upserted(s, rows, p), TouchedHours(s, rows))

\* roll_next_hour: the next hour it may roll.
IsRollable(s, h, closedBefore) ==
    /\ h \in RawHours(s)
    /\ ~BelowRolled(s, h)
    /\ \A k \in RawHours(s) : BelowRolled(s, k) \/ h <= k
    /\ h < closedBefore

\* A slip: the join with sample_1m is left out.
UnmaterializedOrPurged(seen, s, start, span) ==
    {h \in DOMAIN seen.rollup \ DOMAIN seen.activity :
        start <= h /\ h < start + span /\ BelowRolled(s, h)}

\* backfill_activity_step: rolled raw hours of [start, start + span) without segments
\* in the (possibly older) store "seen", with rolled_until read from the current one.
Unmaterialized(seen, s, start, span) ==
    {h \in (RawHours(seen) \cap DOMAIN seen.rollup) \ DOMAIN seen.activity :
        start <= h /\ h < start + span /\ BelowRolled(s, h)}
Lowest(n, hours) == {h \in hours : Cardinality({k \in hours : k < h}) < n}

\* purge_step: an hour whose derived rows equal what its raw minutes give.
HourProven(s, h) ==
    /\ h \in RawHours(s) =>
          /\ h \in DOMAIN s.rollup
          /\ Cardinality(DOMAIN s.rollup[h]) = Cardinality(RawMinutes(s, h))
    /\ IF h \in RawHours(s)
       THEN h \in DOMAIN s.activity /\ s.activity[h] = HourRows(s, h)
       ELSE h \notin DOMAIN s.activity

\* delete_optional_minutes and delete_minutes_before for the hours in a set.
RawDeleted(s, hours) ==
    [raw      |-> [m \in {k \in DOMAIN s.raw : HourOf(k) \notin hours} |-> s.raw[m]],
     rollup   |-> s.rollup,
     activity |-> s.activity]

-----------------------------------------------------------------------------
(* What a reader can know of a minute, from whichever table still holds it.*)

RecordedMinutes(s) ==
    DOMAIN s.raw \cup UNION {DOMAIN s.rollup[h] : h \in PurgedHours(s)}
RecordedBy(s, m) ==
    IF m \in DOMAIN s.raw THEN s.raw[m] ELSE s.rollup[HourOf(m)][m]
Ledger(s) == [m \in RecordedMinutes(s) |-> RecordedBy(s, m)]

-----------------------------------------------------------------------------
(* Facts every committed store satisfies.                                  *)

\* A derived hour that still has its raw minutes says exactly what they say.
DerivedMatchesRaw(s) ==
    \A h \in RawHours(s) :
        /\ h \in DOMAIN s.rollup => s.rollup[h] = HourRows(s, h)
        /\ h \in DOMAIN s.activity => s.activity[h] = HourRows(s, h)

\* The rolled range has no hole: a raw hour below rolled_until has its rollup.
RolledContiguous(s) ==
    \A h \in RawHours(s) : BelowRolled(s, h) => h \in DOMAIN s.rollup

\* A purged hour's rollup and segments were built from the same, non-empty rows of that hour.
PurgedEvidenceWhole(s) ==
    \A h \in PurgedHours(s) :
        /\ DOMAIN s.rollup[h] # {}
        /\ \A m \in DOMAIN s.rollup[h] : HourOf(m) = h
        /\ h \in DOMAIN s.activity => s.activity[h] = s.rollup[h]

\* No segment exists for an hour without a rollup.
SegmentsAreRolled(s) == DOMAIN s.activity \subseteq DOMAIN s.rollup

StoreConsistent(s) ==
    /\ DerivedMatchesRaw(s)
    /\ RolledContiguous(s)
    /\ PurgedEvidenceWhole(s)
    /\ SegmentsAreRolled(s)
=============================================================================
