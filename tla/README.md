# Pompa Next in TLA+

Pompa Next records a heat pump: MQTT messages become minutes, minutes become
hours, and an HTTP API reads them back.  This directory models the parts of
`backend/pompa` whose correctness depends on order, time, failure or restart,
checks them with TLC on small instances and proves the central facts with
TLAPS for every value of the constants.

## 1. Inventory

| Component | State it keeps | Operations | Interacts with |
|---|---|---|---|
| Ingest (`ingest.py`) | connection, LWT, per-source value and receipt time, `last_live_at`, `alive_since` | `connect`, `disconnect`, `lwt_message`, `message`, `clock_stepped_back`, queries | called by the recorder under its lock; read by the accumulators |
| Minute accumulators (`minute.py`, `optional_minute.py`) | cursor, open minute, sums, `_valid` | `advance`, `discard_open` | `Recorder._advance` |
| Recorder queue (`recorder.py`) | `_waiting`, `_protected`, counters, `schema_ready` | `on_*`, `tick`, `_flush`, `_write`, `_refuse`, `settled_before` | MQTT thread, recorder thread and API threads share it under one lock; `persist` |
| Recorder maintenance (`recorder.py`) | `_roll_done_key`, `_activity_scan_from`, `_activity_backfilled`, retry times | `roll_next_hour`, `backfill_activity_step`, `purge_step` | storage transactions after a complete flush |
| Storage (`storage.py`) | `sample_1m`, `sample_optional_1m`, `rollup_1h`, `optional_rollup_1h`, `activity_segment_1h`, policy tables | one `Session` per transaction; policy-head lock; snapshot and locking reads | everything durable |
| Optional policy (`optional_policy.py`) | revisions, head | `replace_selection`, `read_selection`, `locked_timeline` | PUT from API threads against `persist` |
| Read paths (`history.py`, `activity_history.py`, `report.py`, `report_read.py`) | none; one snapshot per request | history, activity, report | `settled_before`, then a snapshot |
| Activity (`activity.py`), aggregation (`aggregation.py`) | none | segments, runs, folds | `rebuild_hour`, read paths |
| Time grid (`timegrid.py`) | none | hours, local days, `purge_cutoff` | all |
| Catalog, capabilities, history profiles | immutable tables | parsing, drift | ingest, persist |
| MQTT adapter, API, config, main | threads, client | callbacks, routes, one tick per second | recorder, storage |

What is hard here: three kinds of thread over one lock, with all database I/O
outside it; a COMMIT whose acknowledgement is lost, and which may still be
running when its rows are retried; a queue that may overflow while a batch is
in that state; wall clocks that step back, within a process and across a
restart; derived tables that must agree with raw minutes that are later
deleted; and copies of in-memory state used after the lock is released.

What makes each part correct:

* queue - every closed row is accounted for exactly once; what is counted as
  written is stored for good; what is counted as dropped or refused is not;
* storage - derived hours agree with raw minutes while those exist, and a
  purged hour leaves its whole evidence behind;
* maintenance - closed hours are rolled in order and without holes, backfill
  finds every hour that lacks segments, purge overtakes nothing;
* ingest and minutes - a row exists only for a minute observed alive from end
  to end on one side of every clock correction;
* policy - a selection applies from a minute no one has yet recorded, and
  concurrent PUTs do not overwrite each other;
* readers - a minute below the settled frontier never changes.

## 2. Plan

Modules, in order:

1. `HistoryStore` - the durable state as values and every writing transaction
   as an operator on it.  *Done.*
2. `Recorder` - queue, flush, maintenance, lost answers, restarts. *Done.*
3. `HistoryLedger` - the abstract history, implemented by `Recorder`
   (`MCRecorder!ImplementsLedger`). *Done.*
4. `HistoryStoreProofs`, `RecorderProofs`, `RecorderRowsProofs` - theorems:
   every safety and action property of `Recorder`, and the refinement. *Done.*
5. `SourceLife` - `Ingest` with `MinuteAccumulator` and `OptionalAccumulator`
   over a wall clock that steps: which minutes become rows and what they hold,
   against a reading of the log of events. *Done*; `SourceLifeProofs`: types, life
   evidence and order of the rows; `SourceLifeRowProofs`: which minutes have a row
   and what it holds. *Done.*
6. `OptionalPolicy` - concurrent `replace_selection` transactions against
   `persist` and restarts with other code. *Done*; `OptionalPolicyProofs`: every
   property. *Done.*
7. `HistoryRead` - composes `Recorder` with its readers: settled frontier, then
   a snapshot, then raw, rolled and purged parts. *Done*; `HistoryReadProofs`: every
   property. *Done.*
8. `Activity`, `ActivityRead` - classes, segments, timeline, spans, summaries;
   widening of evidence and reports over them. *Done*; `ActivityReadProofs`: every
   property. *Done.*
9. Next: the live display of `Ingest` (retained fallback, physical readings),
   the fold algebra of `aggregation.py`, and `timegrid.py`'s local days.

Every safety and action property of the passing runs, and the refinement, is a
theorem; only the liveness properties rest on TLC alone.

## 3. How the modules correspond to the code

**`HistoryStore`.** A store is a record of three functions: `raw` from minutes
to the process that recorded them, `rollup` and `activity` from hours to the
rows they were computed from.  Which process wrote a row stands for its
content: two processes may record the same minute differently, one process
never does.  Folding and segment building are deterministic in the rows of one
hour, so the rows stand for their result; "equal" is then at least as strict as
in the code.  A canonical minute and its optional document, and a canonical
rollup and its optional one, are written, rebuilt and deleted together and are
one entry each.  One operator stands for each transaction body: `RebuildHours`
(`rebuild_hour`), `Persisted` (`persist`), `IsRollable` (`roll_next_hour`),
`Unmaterialized` (backfill discovery), `HourProven` and `RawDeleted`
(`purge_step`).

**`Recorder`.** Each action is one lock section or one transaction of
`recorder.py`:

| Code | Actions |
|---|---|
| `on_*`, the lock section of `tick` (`_advance`) | `MqttEvent`, `Tick` |
| `_flush`: claim; `_write`; clear and count | `Claim`; `Persist`, `Refuse`, `WriteFails`; `Acknowledge` |
| `_maintain`'s lock section | `Maintain` |
| `_roll` with `roll_next_hour` | `Roll`, `RollDone`, `RollFails` |
| `_backfill_activity` with `backfill_activity_step` | `BackfillSkip`, `BackfillBegin` (snapshot), `Backfill`, `BackfillFails` |
| `_purge` with `purge_step` | `Purge`, `PurgeNothing` |
| the server | `Resolve` |
| crash or shutdown, `__init__` | `Restart` |

A writing transaction takes the policy-head lock and decides with locking
reads, so it is one step, except backfill, whose discovery reads the older
snapshot.  A call may fail without effect (`Unavailable`) or lose its
acknowledgement (`AckLost`): then the server has committed, or holds the lock
with the outcome open until `Resolve`.  Other writers wait for it or time out.

`AdvanceTo` lets a clock reading close any run of consecutive minutes that
starts at the open minute or the one after it; `ingest.py` and `minute.py`
decide which, and that is the subject of `SourceLife`, whose
`ClosedMinutesStayClosed` is the reason `Recorder` may assume ascending minutes.
A restart may start on any clock, earlier ones included.

**`HistoryLedger`.** A ledger from minutes to the process that recorded them,
and a set of sealed hours.  Two steps: rows of one process are recorded outside
the sealed hours, or hours are sealed; nothing disappears.  The refinement reads
the ledger off the store: raw minutes, and for a purged hour what its rollup was
folded from.

**`SourceLife`.** Every entry point of the recorder is one action: it runs
`_advance` with a raw clock reading, then applies its event, under one lock.

| Code | Definitions |
|---|---|
| `Ingest` queries: `alive_at`, `alive_through`, `historical`, `optional_historical`, `next_expiry_after` | `AliveAt`, `AliveThrough`, `Historical`, `Confirmed`, `Expiries` |
| `_invalidate`, `_refresh_alive`, the live half of `message` with `_expire` | `Invalidate`, `RefreshAlive`, `Heard` |
| `MinuteAccumulator.advance`: loop body, `_open`, `_integrate`, `_close`, `discard_open` | `Turn`, `Opened`, `Integrate`, `Closed`, `DiscardOpen`; the loop is the fold `Advanced` |
| `OptionalAccumulator.advance` | `OptionalTurn`, `OptionalOpened`, `OptionalAdvanced` |
| `Recorder._advance` | `SteppedBack`, `Detected`, `Poisoned`, `Clamped`, `Paired`, `Advance` |
| `on_connect`, `on_disconnect`, `on_lwt`, `on_message`, `tick` | `Connect`, `Disconnect`, `Lwt`, `Message`, `OptionalMessage`, `Tick` |

One metric stands for the catalog: its sources in priority order, and in each
row both what a mean and what a last metric would hold.  `NONE` is the code's
`None`; LWT payloads other than `Offline` are alike; a sentinel or rejected
payload is a live message with value `NONE`; a retained delivery changes nothing
here.  A reading is at most `ClockStepBack` below the latest one (two threads
read the clock before they take the lock), or the clock was set back.  The MQTT
thread's own readings (`mqttLatest`) fall only when the clock is set back:
corrections below the threshold are not modelled inside one thread.

`log` records each event that has an effect, its raw reading and the position of
the cursor it was applied at.  It decides nothing but the two bounds; the
properties read it to say, without the walk, what was observed: `RowDue` for a
minute, `CoreAt` and `OptionalAt` for a moment.

**`OptionalPolicy`.** The policy tables and the optional documents beside a
recorder reduced to open minute, queue and one write per minute.  One action per
lock section or transaction:

| Code | Definitions |
|---|---|
| `replace_selection` before its transaction: body, `drift_reason` of the request, `safe_future_minute` | `Ask`, `Fail`, `Enter` |
| its transaction: head lock, base check, `resolve_series_id`, `resolve_effective_from_minute`, insert | `MayReplace`, `Conflicting`, `SeriesOf`, `EffectiveFrom`, `Replaced`, `Replace` |
| a stale base that is the client's own committed attempt | `Replays`, `Replay` |
| `locked_timeline` and the document of `persist` | `GoverningRevision`, `Governing`, `Document`, `Recorded`, `Persist` |
| `_fold_optional_hour`, `replace_optional_rollup_hour` | `OptionalHour`, `Rebuilt`, `RollHour` |
| `drift_reason` | `Selectable`, `Drifted` |
| the server; a deployment | `Resolve`; `Restart` |

What a PUT knew before it held the lock (its base, the code's profiles, the safe
minute) is kept per client and may be old when the transaction decides.  A
document maps a series to the meaning of the code that computed the value; the
number itself does not matter.  A restart may run any of `Deployments`.

**`HistoryRead`.** `Recorder`, and one variable: the frontier a request observed
under the recorder's lock (`Observe`, `settled_before`).  The snapshot is taken
later, so it is any later state of `db`; the answer to a range is an operator of
`db`, frontier and range, and the invariants quantify over all ranges in all
states.  `RolledSpan`, `RawPart`, `HistoryRefused`, `HistoryRows` are
`canonical_partials` with `CanonicalPartials.fold`; `Durable`, `HourEvidence`,
`Lost`, `RecordInvalid`, `ActivityRows` are `_Evidence`; `RawEdge` is the hour a
report reads raw although it has segments.  What an answer should be is read off
`Ledger`, the abstract history.  A restart ends the requests of the process.

**`Activity`.** The rules of `activity.py` as operators: `Classify`,
`BuildSegments`, `Clipped`, `Decodes` (what `decode_segments` asks of a segment's
place and interpretation; its checks of numbers, `_decode_energy` among them, are
left out), `Timeline`, the four families of `Spans` with the proof of their edges, and
`Summary`.  Values keep what the rules compare: a state mean is 0, between, or
full; a power is below or above its threshold; `NULL` is `None`.  Segments, gaps
and spans are sets, since each carries its place; counts are sets of minutes and
places, so that "twice" and "never" both show.

**`ActivityRead`.** `activity_history.py` and `report.py` over these rules.  The
recorder appears with whole steps only: `Close`, `Roll`, `Purge`, and `StepBack`,
`CatchUp` for a frontier that a restart on an earlier clock puts behind what is
stored (its interleavings are the subject of `HistoryRead`).  `LoadTimeline` is
`load_timeline` with its widening loop (`Round` is one turn of it, `Widened` runs
them until one is done), `ReportTimeline` the report's call of it,
`BucketFacts`, `ReportRaises` and `FactsAccount` are `compose_report`.  The
reference is `TrueSpans`: spans found minute by minute in everything ever
recorded, without segments, hours or a window.  Buckets of a report are whole
hours; local days are unions of them.

Definitions commented "a slip" are wrong variants of the definition that follows
them; they are used by no action and serve to confirm that the runs notice them.

## 4. The runs

| Run | Instance | Shows |
|---|---|---|
| `safety` (`RecorderSafety.cfg`) | 3 hours of 2 minutes, queue 1, 2 processes, 1 fault | `StoresConsistent`, `SettledIsFinal`, `PurgeSparesUnwritten`, `TypeOK` |
| `queue` (`RecorderQueue.cfg`) | 4 one-minute hours, 2 of them possibly legacy, queue 1, 2 processes, 2 faults | `RowsAccounted`, `BufferBounded`, `AcknowledgedIsStored`, `LostNeverStored`, `BackfilledMeansMaterialized`, `BackfillTargetsStored` |
| `liveness` (`RecorderLiveness.cfg`) | 4 one-minute hours, 1 process, 1 fault, fairness | `QueueDrains`, `ClosedHoursRolled`, `BackfillCompletes` |
| `purge_proof` (`PurgeProof.cfg`) | 4 one-minute hours, 2 processes, no fault | a violation of `PurgeNeverRefused`, see section 6 |
| `rows` (`SourceLifeRows.cfg`) | 1 source, 5 events, readings 0-4, falls of one tick | `RowsMatchLife` |
| `clock` (`SourceLifeClock.cfg`) | 1 source, 4 log entries, readings 0-5, one clock step | `RowsMatchLife`, `ClosedMinutesStayClosed` |
| `values` (`SourceLifeValues.cfg`) | 2 sources, 2 values, 1 optional profile, 4 events, readings 0-4 | `MeansMatchEvidence`, `OptionalMatchEvidence`, `LifeHasEvidence`, `TypeOK` |
| `life_evidence` (`LifeEvidence.cfg`) | 1 source | a violation of `LifeEvidenceNotOffline`, see section 6 |
| `policy_chain` (`PolicyChain.cfg`) | 2 clients, 3 revisions, 1 lost answer, 1 clock step, one code | `ChainLinear`, `AcknowledgedIsOwn`, `StoredSelectionFixed`, `TypeOK` |
| `policy_upgrade` (`PolicyUpgrade.cfg`) | 1 client, 3 revisions, 4 minutes in 2 hours, 2 processes over 5 deployments | `DocumentsSelected`, `MeaningPreserved`, `OneMeaningPerVersion`, `RollupMatchesTimeline`, `EffectiveIsFuture` |
| `read_legacy` (`ReadLegacy.cfg`) | 2 hours of 2 minutes, one possibly legacy, 2 processes | `HistoryExact`, `RefusedOnlyAtCutHours`, `ActivityExact`, `ReportAgrees`, `ObservedIsFinal`, `ImplementsLedger` |
| `activity` (`ActivityRead.cfg`) | 5 minutes in hours of 2, one hour possibly legacy, 3 values; all values for the rules | `NullNeverInvents`, `StoredSegmentsDecode`, `WidenedIsComplete`, `SummariesAdd`, `ReportMatchesActivity` |

Bounds.  Four or five minutes are enough for an hour to be closed, rolled,
given segments and purged (retention one hour, reprocess margin one hour) while
a later one is open; two minutes per hour let an hour be partly recorded, and a
late minute join it.  Two processes let one write over what the other rolled or
purged, on an earlier clock.  A queue of one row overflows with the second.
Roll, backfill, scan and purge sizes of one or two make every step stop short of
its work at least once.  `MaxMinute`, `MaxProcesses` and `MaxFaults` are bounds
of the model, all other constants are the program's.  Deadlock checking is on:
a tick is always possible.

In `SourceLife` a minute has two ticks, so that an event or an expiry can fall
inside it, and evidence stays fresh for two or three: the least `config.py`
allows is a minute, and with these a source can expire at the edge of a minute,
inside it, or in the next one.  Two whole minutes and the start of a third fit
into the readings (in `values` exactly two).  Five events hold a reconnect between two recorded minutes
(connect, message, disconnect, connect, message), or Offline, a message and
Online; four hold a step with evidence on both sides.  `MaxTime`, `MaxEvents`
and `MaxSteps` are bounds of the model.

In `policy_chain` hours do not matter and two clients do: two PUTs from one base,
a lost answer and its replay, a third revision on top.  In `policy_upgrade` one
client is enough, since what is in question is a restart between a selection and
the minutes it governs; the deployments move, redefine, raise and drop one
profile.  `EffectiveIsFuture` holds only while the clock never steps back, hence
`MaxBackSteps` 0 there.  `Clients`, `MaxRevisions`, `MaxFaults` and
`MaxBackSteps` are bounds of the model.

`read_legacy` has no lost answers: they change what is stored, which `safety` and
`queue` examine, not what a snapshot of it answers.  A legacy hour holds any of
its minutes and may be purged already.  What `ObservedIsFinal` says of an earlier
process's transaction needs a lost answer: `SettledIsFinal` exercises it in `safety`,
where the frontier is the one a request would be given now, and the theorem proves
it for a frontier observed at any time.

In `activity` five minutes in hours of two give a range with two hours before
the frontier's hour, so that widening has somewhere to go on both sides and
doubles its step once (`MAX_WIDENING_STEP` of two hours).  The values are a
stopped and a running compressor, and a defrost whose compressor is unknown,
about which the families of spans disagree.  The rules themselves are checked
for all 15,552 combinations of `Values`; they are the same in every state, so
this happens in the initial one (`AtStart`).  Deadlock checking is off in this
run: it stops when every minute is closed, rolled and purged.

Fairness.  `FairSpec` asks for weak fairness of the recorder thread as a whole
(`main.py` ticks once a second, catches every exception, and each database call
has a connect and an I/O timeout) and of `Resolve` (the server ends a
transaction whose client is gone).  It does not ask that MQTT events happen, nor
that the clock advances; and faults are finitely many.

## 5. What is proved

The only assumptions are those the model's modules state of their constants.
`HistoryStoreProofs` holds the lemmas about the transactions; it also proves that
a set of naturals has a least element (`LeastNat`, by well-foundedness of the
subset order).  That lemma takes the place of induction throughout: to show a
fact of every number, take the least that fails it.

**The recorder** (`RecorderProofs`, `RecorderRowsProofs`).  Every safety and
action property the runs check is a theorem.

* `TypeCorrect`: `Spec => []TypeOK`.  `TypeOK` is not inductive: `rolls` stays
  in bounds only because the loop is left when its budget is spent, which
  `RollBudget` adds.
* `StoresStayConsistent`: `Spec => []StoresConsistent`, and
  `BackfillNeverEmpty`: `Spec => []BackfillTargetsStored`.  The argument has two
  halves.  First, each transaction keeps a store consistent
  (`RollConsistent`, `PersistConsistent`, `BackfillConsistent`,
  `PurgeConsistent`; the first three through `RebuildRestores`).  Backfill does so
  only if the hours it picked still store raw minutes; it picked them in a
  snapshot older than its lock.  So, second, the inductive invariant `StoreInv`
  adds `SnapshotSafe`: since the snapshot was taken at most one transaction can
  have committed, one of this recorder that was in doubt, and no transaction
  deletes the raw minutes of an hour without segments, because the purge proof
  fails on it.
* `RowsStayAccounted`: `Spec => []RowsAccounted`, inductive with `TypeOK`.
* `WrittenStaysStored`: `Spec => []AcknowledgedIsStored`; `LostIsNotStored`:
  `Spec => []LostNeverStored`; `SettledStaysFinal`: `Spec => SettledIsFinal`.
  They share `RowsInv`, which speaks of the committed store and of the one in
  doubt alike.  A lost answer may come true at any time, so both must hold what
  was counted as written (`WrittenInv`), and neither may hold a minute in the
  name of the running process that is not written or protected
  (`SubmittedInv`); a batch that is retried finds either nothing or itself.
  `SettledIsFinal` speaks of earlier processes too, once this one has completed its
  backfill.  It did so holding the lock, with nothing in doubt, so what is in doubt
  afterwards is its own (`OwnDoubt`).
* `QueueStaysBounded`: `Spec => []BufferBounded`.
* `BackfillIsComplete`: `Spec => []BackfilledMeansMaterialized`.  `ScanInv`: no
  transaction adds an hour without segments, so what lacks them under the lock
  lacked them in the snapshot, and below the scan position there is none.
* `PurgeIsSafe`: `Spec => PurgeSparesUnwritten`.  A purge works with copies of
  clock and queue and may commit after its process has moved on.  The property
  speaks of every commit that deletes minutes once this process has finished its
  backfill, at whatever `pc` it comes (before that, it is the previous process's
  transaction).  `PassInv` keeps the copies on the safe side of what is queued
  now; `DoubtInv` says of a purge in doubt which hours it would delete.

**The ledger** (`RecorderRowsProofs`).  `RecorderImplementsLedger`:
`Spec => ImplementsLedger`, the refinement step by step.  Each transaction is one
ledger step or a stutter; one in doubt shows nothing until `Resolve`, so the
invariant `DoubtIsStep` keeps that its store is one ledger step from the committed
one whenever it commits.

**The readers** (`HistoryReadProofs`).  Every property of `HistoryRead` is a
theorem of `ReadSpec`: `HistoryIsExact`, `RefusalIsJustified`, `ActivityIsExact`
and `ReportIsConsistent` follow from `StoresConsistent` of the snapshot, hour by
hour; `ObservedStaysFinal` needs `FrontierInv`: an observed frontier stays at or
below the open minute and every queued row, however far both have moved.  Of an
earlier process's transaction it uses `OwnDoubt`.  The part of `ActivityExact` about
refusals (`UnavailableIsPurged`) follows from `BackfillIsComplete`: an hour that has
raw minutes then has segments, and only the raw edge is read without them.

**Source life** (`SourceLifeProofs`, `SourceLifeRowProofs`).  Every property of
`SourceLife` is a theorem.

* `LifeRestsOnEvidence`: `Spec => []LifeHasEvidence`.  The inductive invariant
  `Sound` adds the type of the ingest state.  Every handler is built from
  `Invalidate`, `RefreshAlive` and `Heard`, and one lemma says of each that it
  leaves a sound state; the walk reads the ingest state and never changes it.
* `TypesHold`: `Spec => []TypeOK`, and `ClosedStaysClosed`:
  `Spec => ClosedMinutesStayClosed`, from the invariant `WalkInv`.  A walk is a
  recursive function of the number of turns.  `Iteration` shows that such a
  function exists (without that the `CHOOSE` behind it says nothing); `Turn` and
  `OptionalTurn` move the cursor on, never past `t`, and close at most the minute
  they leave (`TurnAdvances`, `OptionalTurnAdvances`); so within as many turns as
  there are ticks a walk stands at `t` (`WalkArrives`), in whatever different
  places the canonical and the optional walk stopped in between.
* `RowsFollowLife`: `Spec => []RowsMatchLife`; `MeansFollowEvidence`:
  `Spec => []MeansMatchEvidence`; `OptionalFollowsEvidence`:
  `Spec => []OptionalMatchEvidence`.  The properties read the log, the program
  reads only `ingest` and its tallies, and neither mentions the other; the
  invariant `RowsInv` ties them together.  It has four parts.
  `Summary`: the ingest state is what the log leaves - connection, LWT, the
  freshest message of each topic since the last break - and `alive_since` bounds
  an interval that the log shows alive tick by tick and that could not be longer
  (`Interval`); one lemma per entry point keeps it, from `ConnectSummary` to
  `OptionalSummary`.
  `Books`: no entry was applied ahead of the cursor, and the open minute is
  poisoned exactly if a clock step lies in it.
  `Open` and `RowsAreTold`: tallies and rows hold what the log says of the ticks
  behind the cursor (`Tells`, `Gathered`).
  `RowsAreDue`: rows and due minutes behind the cursor are the same.
  A step is then three arguments.  What is behind the cursor does not change,
  since entries are only added at or ahead of it (`UnitStays`, `DueStays`).  The
  ticks a walk passes have the value and the life that the summary gives them
  (`UnitsPassed`, `ClosingIsDue`).  And a walk gathers just that: between two
  expiries nothing changes (`HistoricalRests`, `ConfirmedRests`), a source that is
  dead stays dead, so that skipping leaves nothing out (`DeadStaysDead`), and
  `CoreWalks` and `OptionalWalks` are closed under turns (`TurnTells`,
  `OptionalTurnTells`).  `PairedTold` is the point of the pairing: a minute the
  canonical walk gives a row has its optional minute in the same call, or no
  profile had a value in it.

**The policy** (`OptionalPolicyProofs`).  Every property of `OptionalPolicy` is a
theorem.

* `ChainIsLinear`: `Spec => []ChainLinear`; `VersionsMeanOneThing`:
  `Spec => []OneMeaningPerVersion`; `AnswersAreOwn`:
  `Spec => []AcknowledgedIsOwn`.  They share one inductive invariant, `IInv`.
  Each committed or in-doubt store is `Sound` - linear chain, members among the
  series, one meaning per version - and the store in doubt keeps every answer
  that was given from the committed one, so that its late commit takes nothing
  back.  Without that an answer of a replay could be lost to `Resolve`.
* `EffectiveAfterTheOpenMinute`: `Spec => EffectiveIsFuture` under the assumption
  `MaxBackSteps = 0`: the clock never falls behind the open minute, and
  `EffectiveFrom` reads it under the lock.
* `DocumentsAreSelected`, `StoredMeaningHolds`, `RollupsStayRight`:
  `Spec => []` of `DocumentsSelected`, `MeaningPreserved`,
  `RollupMatchesTimeline`; and `StoredSelectionStays`:
  `Spec => StoredSelectionFixed`.  Which revision governs a minute is found by
  walking the chain from its head; the lemmas from `ChainIds` to `GoverningStops`
  show that on a linear chain the walk stops, at exactly one revision.
  `ReplacedSpares` is the point of `EffectiveFrom`: a new revision governs no
  minute that is stored.  `KInv` keeps documents and rollups right in the
  committed store and in the one in doubt, and says that the latter governs what
  is stored as the former does.
* `TypesHold`: `Spec => []TypeOK`.

**Activity** (`ActivityReadProofs`).

* `NullStaysUnknown`: `Spec => []NullNeverInvents`, a case analysis of the rules
  over all values.
* `StoredSegmentsHold`: `Spec => []StoredSegmentsDecode`.  The point is
  `HourDecodes`, about `BuildSegments` of any minutes of one hour: a segment runs
  to the next minute that does not continue it (`SegmentRuns`), so segments do not
  overlap, leave no recorded minute out and stay inside the hour.  `SegmentInv`
  adds that an hour that is rolled is closed: no later minute joins it.
* `WidenedHolds`: `Spec => []WidenedIsComplete`; `SummariesAddHolds`:
  `Spec => []SummariesAdd`; `ReportHolds`: `Spec => []ReportMatchesActivity`.  The
  invariant `ReadInv` adds to `SegmentInv` that a lost hour has neither rows nor
  segments and that a purged hour has segments.  In any state of it:
  - the evidence of a query, stored segments clipped at the frontier here and
    segments built from raw minutes there, holds each recorded minute of the hours
    examined in exactly one segment (`EvidenceTiles`);
  - so its timeline is `Laid`: each minute is in one item, and the item tells what
    is known of it (`TimelineLaid`);
  - so its spans are the runs of minutes in one state inside those hours, edges
    included (`SpansAreRuns`), as the true spans are the runs before the frontier
    (`TrueSpansAreRuns`).  Where segments begin and end has dropped out;
  - a run that reaches into the range and does not end where the evidence does is
    a run with or without the rest (`DecidedIsComplete`), and the rounds of
    `load_timeline` end with no other: each moves one end, up to the floor or the
    rounded frontier (`RoundsDecide`, `WidenedDecides`).

  The other two follow.  `SummaryCounts` reads a summary as what is counted at
  each minute of its range, whatever evidence it was made from, so ranges add
  (`FactsWhole`) and minutes do not share (`FactsApart`).  A bucket counts the same
  facts (`BucketCounts`), seen from below minute 0, which moves no fact of the
  range (`FactsShift`).  `ReportNeverRaises` needs that no segment of the report
  leaves its hour and none is cut, which holds while it may read the frontier's
  hour raw; hence the exception for a frontier in a purged hour.

Model-checked only: liveness (`QueueDrains`, `ClosedHoursRolled`,
`BackfillCompletes`); fairness and ENABLED are out of the prover's reach.

## 6. Findings

`purge_step` examines every hour from the oldest raw minute to its cutoff and
`_prove_activity` expects an hour without raw minutes to have no segments.  If a
process starts on an earlier clock and records a minute in an hour nobody
recorded before, below hours that are already purged, the range then reaches
over a purged hour: its segments are stored, its raw minutes are gone, the proof
refuses, and every later attempt meets the same rows.  `persist` accepts such a
minute (`backend/tests/test_rollup.py`,
`test_never_rolled_empty_hour_is_not_treated_as_purged`), and
`docs/ARCHITECTURE.md` says that application-written rows always pass the
proof.  The run `purge_proof` shows it.  No evidence is lost - purge only stops -
which is why the other properties hold.

`Ingest.message` takes every non-retained core message for life evidence, also
while the LWT says `Offline`.  The comment where `last_live_at` is declared
(`ingest.py:135`) excludes that: "life evidence: non-retained, current epoch, not
Offline".  While Offline nothing is alive and no value is historical, so nothing
wrong is recorded then; but the evidence counts from the moment of the next
`Online`, before any message of its own.  The run `life_evidence` shows it.
`RowsMatchLife` and `MeansMatchEvidence` follow the code and section 4 of
`docs/ARCHITECTURE.md`, whose definition of source life has no such exclusion.

Observations made while modelling, without a run of their own:

* `settled_before` knows the queue of its own process.  A batch whose COMMIT the
  previous process never saw answered can still commit rows below a frontier the
  new process already called settled, where a reader saw gaps;
  `docs/ARCHITECTURE.md` says that a restart needs no persistent frontier, since
  "earlier DB history is settled".  It takes a server still busy with the COMMIT
  when the next process answers its first request.  `SettledIsFinal` and
  `ObservedIsFinal` bound the time: the new process completes its backfill under
  the policy-head lock, so the transaction has ended by then.
* `_Evidence.load` takes a rolled hour without segments, of which it read no raw
  minute, for a purged one; it reads raw minutes only below the frontier.  A
  legacy hour whose minutes all lie at or after a frontier that fell back over a
  restart is refused as purged although it is stored.  Nothing wrong is answered,
  and `ActivityExact` bounds the refusal to the time before the backfill is complete
  (`UnavailableMeansPurged`), when every such hour has its segments.
* A PUT takes the latest of the recorder's safe minute, read before its
  transaction waits for the lock, the clock under the lock, the newest stored
  minute and the head.  If the wall clock is set back while it waits, minutes
  closed meanwhile are in none of these, and its revision governs a closed minute
  that still waits in the queue.  `StoredSelectionFixed` holds, the sentence "a
  policy change affects only future complete minutes" (`docs/ARCHITECTURE.md`)
  does not; `EffectiveIsFuture` is therefore stated for a clock that does not
  step back.
* A report whose frontier lies inside an hour that is already purged, which needs
  a clock set back by more than the retention, is refused by the code;
  `ReportMatchesActivity` leaves that frontier out.

## 7. Not modelled

* `aggregation.py`'s numbers: a fold is represented by the rows it is a function
  of.  Whether raw and rolled reads add in the same floating-point order is
  therefore not examined.
* Ranges below a minute, response documents, energy figures and local days of the
  read paths.
* Numbers beyond small sums: rounding, parsing, finiteness.  `segment_record` also
  fails on a number that `encode_energy` or `_decode_energy` rejects, an infinite
  sum for one; `StoredSegmentsDecode` does not reach that.  In `Recorder` also
  the content of rows, series and optional documents.
* The live display and measurement side of `Ingest`: retained fallback, physical
  readings, message counters and gap statistics.
* The inside of a writing transaction: it is one step that happens whole or not at
  all, and reads under its lock what is committed then.  That the database rolls
  back what is unfinished, and that each locking read is current although the
  snapshot is older, is assumed.
* `OptionalHistoryInconsistent` and other refusals of a damaged database: the
  stores of the model are those the application writes.
* The hourly schedule of purge (`_purge_next_at`) and the minute of
  `_activity_retry_at`: purge may run or not run at any tick, a failed backfill
  sits out one tick.
* The tick at shutdown that may overlap a running one: it closes minutes and
  returns, as `MqttEvent` does.
* Catalog, capabilities, profile tables, configuration and the rest of the API: no
  state of their own beyond what is above, or pure I/O.  Of the MQTT adapter only the callbacks.
