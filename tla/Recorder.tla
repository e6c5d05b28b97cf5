------------------------------ MODULE Recorder ------------------------------
(***************************************************************************)
(* backend/pompa/recorder.py over backend/pompa/storage.py: closed minutes *)
(* are queued in memory, flushed to the database in batches, rolled into   *)
(* hours, given activity segments and finally purged.                      *)
(*                                                                         *)
(* Three kinds of step interleave.  Clock readings (any MQTT event, and    *)
(* every tick) close minutes under the in-memory lock.  The recorder       *)
(* thread runs one tick after another; pc is where it is between two lock  *)
(* sections or database transactions.  The database completes or discards  *)
(* a transaction whose client stopped waiting for the answer.  The process *)
(* may stop anywhere and start again with its clock elsewhere; only the    *)
(* database survives.                                                      *)
(*                                                                         *)
(* Every writing transaction takes the policy-head lock first and reads    *)
(* with current (locking) reads after it, so it is one step on db, except  *)
(* that its snapshot is older than the lock: snap keeps the one that       *)
(* backfill discovery reads from.  A transaction whose outcome the client  *)
(* lost may have committed, been discarded, or still be committing; in the *)
(* last case it holds the lock and inDoubt holds the store it will commit. *)
(*                                                                         *)
(* Minutes enter the queue in ascending order and one process never closes *)
(* the same minute twice, so the FIFO waiting queue, the protected batch   *)
(* and the counters of rows are sets of minutes.                           *)
(***************************************************************************)
EXTENDS HistoryStore

CONSTANTS
    BufferRows,            \* WRITE_BUFFER_ROWS
    RetentionHours,        \* 24 * RETENTION_1M_DAYS; 0 disables purge
    ReprocessMargin,       \* RAW_REPROCESS_MARGIN in hours (2 in the code)
    RollHoursPerTick,      \* ROLL_HOURS_PER_TICK
    BackfillHoursPerStep,  \* ACTIVITY_BACKFILL_HOURS_PER_STEP
    BackfillScanHours,     \* ACTIVITY_BACKFILL_SCAN_SECONDS in hours
    PurgeHoursPerStep,     \* PURGE_HOURS_PER_STEP
    LegacyHours,           \* hours below this one may predate activity segments
    MaxFaults              \* bound: lost or failed database calls

ASSUME RecorderAssumption ==
    /\ BufferRows \in Nat \ {0}
    /\ RetentionHours \in Nat
    /\ ReprocessMargin \in Nat
    /\ RollHoursPerTick \in Nat \ {0}
    /\ BackfillHoursPerStep \in Nat \ {0}
    /\ BackfillScanHours \in Nat \ {0}
    /\ PurgeHoursPerStep \in Nat \ {0}
    /\ LegacyHours \in Nat
    /\ MaxFaults \in Nat

VARIABLES
    db,            \* the committed store
    inDoubt,       \* {} or the store an unanswered transaction may still commit
    proc,          \* the running process; 0 marks rows older than the model
    minuteStart,   \* accumulator.minute_start, the open minute
    closed,        \* rows_closed
    waiting,       \* _waiting
    protected,     \* _protected
    written,       \* rows_written
    dropped,       \* dropped_rows
    refused,       \* refused_rows
    schemaReady,   \* schema_ready
    pc,            \* where the recorder thread is
    nowHour,       \* hour of the clock reading the running tick was given
    closedBefore,  \* _maintain's copy of floor_hour(minute_start)
    pending,       \* _maintain's copy of the minutes not yet written
    rolls,         \* hours rolled by the running tick
    rollDoneKey,   \* {} or the _roll_done_key
    snap,          \* {} or the snapshot of the running backfill transaction
    scanFrom,      \* _activity_scan_from
    backfilled,    \* _activity_backfilled
    backfillHeld,  \* now < _activity_retry_at
    faults         \* lost or failed database calls so far

storeVars == <<db, inDoubt>>
minuteVars == <<minuteStart, closed>>
queueVars == <<waiting, protected, written, dropped, refused>>
passVars == <<nowHour, closedBefore, pending, rolls>>
backfillVars == <<snap, scanFrom, backfilled, backfillHeld>>
vars == <<storeVars, proc, minuteVars, queueVars, schemaReady, pc, passVars,
          rollDoneKey, backfillVars, faults>>

PC == {"idle", "flush", "write", "ack", "maintain", "roll", "backfill", "rebuild", "purge"}

-----------------------------------------------------------------------------
(* The process: what a start sets and what a crash loses.                  *)

\* A store left by an earlier release: recorded minutes of rolled hours, of which
\* some prefix is purged, without any segments.  Without legacy hours it is empty.
LegacyStore(recorded, oldest) ==
    LET rows == [h \in HoursOf(recorded) |-> [m \in {k \in recorded : HourOf(k) = h} |-> 0]]
    IN  [raw      |-> [m \in {k \in recorded : oldest <= HourOf(k)} |-> 0],
         rollup   |-> rows,
         activity |-> [h \in {} |-> {}]]

Init ==
    /\ \E recorded \in SUBSET {m \in Minute : HourOf(m) < LegacyHours}, oldest \in Hour :
          db = LegacyStore(recorded, oldest)
    /\ inDoubt = {}
    /\ proc = 1
    /\ minuteStart \in Minute
    /\ closed = {} /\ waiting = {} /\ protected = {}
    /\ written = {} /\ dropped = {} /\ refused = {}
    /\ schemaReady = FALSE
    /\ pc = "idle"
    /\ nowHour = 0 /\ closedBefore = 0 /\ pending = {} /\ rolls = 0
    /\ rollDoneKey = {}
    /\ snap = {} /\ scanFrom = 0 /\ backfilled = FALSE /\ backfillHeld = FALSE
    /\ faults = 0

\* A crash or a shutdown, then Recorder.__init__ and main again: nothing of the
\* earlier process is left in memory, and the new clock may show any time.
Restart ==
    /\ proc < MaxProcesses
    /\ proc' = proc + 1
    /\ minuteStart' \in Minute
    /\ closed' = {} /\ waiting' = {} /\ protected' = {}
    /\ written' = {} /\ dropped' = {} /\ refused' = {}
    /\ schemaReady' = FALSE
    /\ pc' = "idle"
    /\ nowHour' = 0 /\ closedBefore' = 0 /\ pending' = {} /\ rolls' = 0
    /\ rollDoneKey' = {}
    /\ snap' = {} /\ scanFrom' = 0 /\ backfilled' = FALSE /\ backfillHeld' = FALSE
    /\ UNCHANGED <<storeVars, faults>>

-----------------------------------------------------------------------------
(* _advance: a clock reading closes the minutes before it.  The rows it    *)
(* yields are consecutive: source life is one interval, and the open       *)
(* minute may be unusable (entered late or poisoned by a clock step).      *)

ClosableRows(t) ==
    {first .. last : first \in {minuteStart, minuteStart + 1}, last \in minuteStart .. (t - 1)} \cup {{}}

\* A slip the runs must notice: one row more than the capacity is let in.
OverflowOneMore(queue) ==
    {m \in queue : Cardinality({k \in queue : m < k}) > BufferRows}

\* popleft while the waiting queue is longer than BufferRows.
Overflow(queue) ==
    {m \in queue : Cardinality({k \in queue : m < k}) >= BufferRows}

\* A reading at or before the open minute closes nothing (the clamp).
AdvanceTo(t) ==
    \/ /\ t <= minuteStart
       /\ UNCHANGED <<minuteVars, waiting, dropped>>
    \/ /\ minuteStart < t
       /\ minuteStart' = t
       /\ \E rows \in ClosableRows(t) :
             LET queue == waiting \cup rows
             IN  /\ closed' = closed \cup rows
                 /\ waiting' = queue \ Overflow(queue)
                 /\ dropped' = dropped \cup Overflow(queue)

\* on_connect, on_disconnect, on_lwt, on_message: the part that concerns the queue.
MqttEvent ==
    /\ \E t \in Minute : minuteStart < t /\ AdvanceTo(t)
    /\ UNCHANGED <<storeVars, proc, protected, written, refused, schemaReady, pc, passVars,
                   rollDoneKey, backfillVars, faults>>

\* tick: the reading may be older than the cursor, or newer than every event.
Tick ==
    /\ pc = "idle"
    /\ \E now \in Minute : AdvanceTo(now) /\ nowHour' = HourOf(now)
    /\ pc' = "flush"
    /\ UNCHANGED <<storeVars, proc, protected, written, refused, schemaReady,
                   closedBefore, pending, rolls, rollDoneKey, backfillVars, faults>>

-----------------------------------------------------------------------------
(* Transactions.                                                           *)

\* The policy-head lock is free.
Unlocked == inDoubt = {}

\* The transaction that makes the store "new" commits and says so.
Commits(new) ==
    /\ Unlocked
    /\ db' = new
    /\ UNCHANGED <<inDoubt, faults>>

\* StorageUnavailable without effect: not reached, rolled back, lock wait timeout.
Unavailable ==
    /\ faults < MaxFaults
    /\ faults' = faults + 1
    /\ UNCHANGED storeVars

\* StorageUnavailable after the commit was sent: the acknowledgement is lost,
\* and the server has committed or has yet to decide.
AckLost(new) ==
    /\ faults < MaxFaults
    /\ faults' = faults + 1
    /\ Unlocked
    /\ \/ db' = new /\ UNCHANGED inDoubt
       \/ inDoubt' = {new} /\ UNCHANGED db

\* The server finishes an unanswered transaction, or discards it.
Resolve ==
    /\ \E new \in inDoubt : db' \in {db, new}
    /\ inDoubt' = {}
    /\ UNCHANGED <<proc, minuteVars, queueVars, schemaReady, pc, passVars, rollDoneKey,
                   backfillVars, faults>>

\* The tick returns: its local copies are gone.
TickEnds ==
    /\ pc' = "idle"
    /\ nowHour' = 0 /\ closedBefore' = 0 /\ pending' = {} /\ rolls' = 0

-----------------------------------------------------------------------------
(* _flush and _write.                                                      *)

\* A slip: _waiting.clear() is forgotten.
ClaimKeepsWaiting ==
    /\ pc = "flush"
    /\ protected' = IF protected = {} THEN waiting ELSE protected
    /\ pc' = IF schemaReady /\ protected' = {} THEN "maintain" ELSE "write"
    /\ UNCHANGED <<storeVars, proc, minuteVars, waiting, written, dropped, refused, schemaReady,
                   passVars, rollDoneKey, backfillVars, faults>>

\* The loop's lock section: keep a protected batch, else claim the whole queue.
Claim ==
    /\ pc = "flush"
    /\ IF protected = {}
       THEN protected' = waiting /\ waiting' = {}
       ELSE UNCHANGED <<protected, waiting>>
    /\ pc' = IF schemaReady /\ protected' = {} THEN "maintain" ELSE "write"
    /\ UNCHANGED <<storeVars, proc, minuteVars, written, dropped, refused, schemaReady,
                   passVars, rollDoneKey, backfillVars, faults>>

\* persist commits; with nothing to write only the schema is created.
Persist ==
    /\ pc = "write"
    /\ RefusedHours(db, protected) = {}
    /\ IF protected = {}
       THEN UNCHANGED <<storeVars, faults>>
       ELSE Commits(Persisted(db, protected, proc))
    /\ schemaReady' = TRUE
    /\ pc' = "ack"
    /\ UNCHANGED <<proc, minuteVars, queueVars, passVars, rollDoneKey, backfillVars>>

\* A slip: the guard runs after the upsert, and its transaction commits.
RefuseAfterUpsert ==
    /\ pc = "write"
    /\ LET rows == {m \in protected : HourOf(m) \in RefusedHours(db, protected)}
       IN  /\ rows # {}
           /\ protected' = protected \ rows
           /\ refused' = refused \cup rows
    /\ Commits(Upserted(db, protected, proc))
    /\ schemaReady' = TRUE
    /\ pc' = "flush"
    /\ UNCHANGED <<proc, minuteVars, waiting, written, dropped, passVars, rollDoneKey, backfillVars>>

\* A slip: the refused rows stay in the batch.
RefuseKeepsBatch ==
    /\ pc = "write"
    /\ Unlocked
    /\ RefusedHours(db, protected) # {}
    /\ schemaReady' = TRUE
    /\ pc' = "flush"
    /\ UNCHANGED <<storeVars, proc, minuteVars, queueVars, passVars, rollDoneKey, backfillVars, faults>>

\* RebuildRefused and _refuse: nothing was upserted, the rows of the refused
\* hours leave the batch and the loop goes on with the rest.
Refuse ==
    /\ pc = "write"
    /\ Unlocked
    /\ LET hours == RefusedHours(db, protected)
           rows  == {m \in protected : HourOf(m) \in hours}
       IN  /\ hours # {}
           /\ protected' = protected \ rows
           /\ refused' = refused \cup rows
    /\ schemaReady' = TRUE
    /\ pc' = "flush"
    /\ UNCHANGED <<storeVars, proc, minuteVars, waiting, written, dropped, passVars,
                   rollDoneKey, backfillVars, faults>>

\* A slip: an unanswered write counts as a successful one.
WriteFailsAsSuccess ==
    /\ pc = "write"
    /\ RefusedHours(db, protected) = {}
    /\ Unavailable \/ AckLost(Persisted(db, protected, proc))
    /\ schemaReady' = TRUE
    /\ pc' = "ack"
    /\ UNCHANGED <<proc, minuteVars, queueVars, passVars, rollDoneKey, backfillVars>>

\* AMBIGUOUS: the batch stays protected and the tick ends.  ensure_schema may
\* have been the call that failed; persist fails only after it.
WriteFails ==
    /\ pc = "write"
    /\ \/ /\ Unavailable
          /\ schemaReady' \in {schemaReady, schemaReady \/ protected # {}}
       \/ /\ protected # {}
          /\ RefusedHours(db, protected) = {}
          /\ AckLost(Persisted(db, protected, proc))
          /\ schemaReady' = TRUE
    /\ TickEnds
    /\ UNCHANGED <<proc, minuteVars, queueVars, rollDoneKey, backfillVars>>

\* SUCCESS: the lock section that clears the batch and counts its rows.
Acknowledge ==
    /\ pc = "ack"
    /\ written' = written \cup protected
    /\ protected' = {}
    /\ pc' = IF protected = {} THEN "maintain" ELSE "flush"
    /\ UNCHANGED <<storeVars, proc, minuteVars, waiting, dropped, refused, schemaReady,
                   passVars, rollDoneKey, backfillVars, faults>>

-----------------------------------------------------------------------------
(* _maintain: its lock section, then _roll, _backfill_activity and _purge. *)

\* A slip: the open hour is taken for a closed one.
MaintainOpenHour ==
    /\ pc = "maintain"
    /\ closedBefore' = HourOf(minuteStart) + 1
    /\ pending' = protected \cup waiting
    /\ rolls' = 0
    /\ pc' = "roll"
    /\ UNCHANGED <<storeVars, proc, minuteVars, queueVars, schemaReady, nowHour,
                   rollDoneKey, backfillVars, faults>>

\* The lock section that copies what the pass may rely on.
Maintain ==
    /\ pc = "maintain"
    /\ closedBefore' = HourOf(minuteStart)
    /\ pending' = protected \cup waiting
    /\ rolls' = 0
    /\ pc' = "roll"
    /\ UNCHANGED <<storeVars, proc, minuteVars, queueVars, schemaReady, nowHour,
                   rollDoneKey, backfillVars, faults>>

\* A slip: the key of a complete pass forgets the rows written since.
RollKeyOfHour == <<closedBefore, {}>>

\* Nothing writes a row during maintenance, so "written" is still _maintain's copy.
RollKey == <<closedBefore, written>>

\* No pass is needed, or roll_next_hour finds no hour it may roll: the pass is complete.
RollDone ==
    /\ pc = "roll"
    /\ \/ RollKey \in rollDoneKey
       \/ Unlocked /\ \A h \in Hour : ~IsRollable(db, h, closedBefore)
    /\ rollDoneKey' = {RollKey}
    /\ pc' = "backfill"
    /\ UNCHANGED <<storeVars, proc, minuteVars, queueVars, schemaReady, passVars,
                   backfillVars, faults>>

\* roll_next_hour rolls one hour; the loop ends after RollHoursPerTick of them.
Roll ==
    /\ pc = "roll"
    /\ RollKey \notin rollDoneKey
    /\ \E h \in Hour :
          /\ IsRollable(db, h, closedBefore)
          /\ Commits(RebuildHours(db, {h}))
    /\ rolls' = rolls + 1
    /\ pc' = IF rolls' = RollHoursPerTick THEN "backfill" ELSE "roll"
    /\ UNCHANGED <<proc, minuteVars, queueVars, schemaReady, nowHour, closedBefore, pending,
                   rollDoneKey, backfillVars>>

\* The first failure ends the pass; backfill and purge still get their turn.
RollFails ==
    /\ pc = "roll"
    /\ RollKey \notin rollDoneKey
    /\ \/ Unavailable
       \/ \E h \in Hour :
             /\ IsRollable(db, h, closedBefore)
             /\ AckLost(RebuildHours(db, {h}))
    /\ pc' = "backfill"
    /\ UNCHANGED <<proc, minuteVars, queueVars, schemaReady, passVars, rollDoneKey, backfillVars>>

\* A slip: the retry time of a failed step never passes.
BackfillSkipForGood ==
    /\ pc = "backfill"
    /\ backfilled \/ backfillHeld
    /\ IF backfilled THEN pc' = "purge" /\ UNCHANGED passVars ELSE TickEnds
    /\ UNCHANGED <<storeVars, proc, minuteVars, queueVars, schemaReady, rollDoneKey,
                   backfillVars, faults>>

\* Already complete in this process, or held back after a failure (one tick here).
BackfillSkip ==
    /\ pc = "backfill"
    /\ backfilled \/ backfillHeld
    /\ backfillHeld' = FALSE
    /\ IF backfilled THEN pc' = "purge" /\ UNCHANGED passVars ELSE TickEnds
    /\ UNCHANGED <<storeVars, proc, minuteVars, queueVars, schemaReady, rollDoneKey,
                   snap, scanFrom, backfilled, faults>>

\* The step's transaction takes its snapshot, before the policy-head lock.
BackfillBegin ==
    /\ pc = "backfill"
    /\ ~backfilled /\ ~backfillHeld
    /\ snap' = {db}
    /\ pc' = "rebuild"
    /\ UNCHANGED <<storeVars, proc, minuteVars, queueVars, schemaReady, passVars, rollDoneKey,
                   scanFrom, backfilled, backfillHeld, faults>>

\* The hours one step rebuilds, from its first raw hour "start".
BackfillHours(seen, start) ==
    Lowest(BackfillHoursPerStep, Unmaterialized(seen, db, start, BackfillScanHours))

\* The first raw hour of the scan, if any, is not rolled: done.
NothingToBackfill == \A h \in RawHours(db) : scanFrom <= h => ~BelowRolled(db, h)

\* A slip: a step cut short by its size reports the whole range as done.
ScanDoneAtEnd(full, end) == ~BelowRolled(db, end)

\* What the step reports as done: it was not cut short, and no rolled hour is left above it.
ScanDone(full, end) == ~full /\ ~BelowRolled(db, end)

\* backfill_activity_step with the lock held.  scanFrom is not read once backfilled.
Backfill ==
    /\ pc = "rebuild"
    /\ \/ /\ Unlocked
          /\ NothingToBackfill
          /\ backfilled' = TRUE
          /\ UNCHANGED <<storeVars, faults, scanFrom>>
       \/ \E seen \in snap, start \in Hour :
             LET hours == BackfillHours(seen, start)
                 full  == Cardinality(hours) = BackfillHoursPerStep
             IN  /\ IsFirstRawHour(db, scanFrom, start)
                 /\ BelowRolled(db, start)
                 /\ Commits(RebuildHours(db, hours))
                 /\ IF full
                    THEN \E last \in hours : (\A h \in hours : h <= last) /\ scanFrom' = last + 1
                    ELSE scanFrom' = start + BackfillScanHours
                 /\ backfilled' = ScanDone(full, start + BackfillScanHours)
    /\ snap' = {}
    /\ IF backfilled' THEN pc' = "purge" /\ UNCHANGED passVars ELSE TickEnds
    /\ UNCHANGED <<proc, minuteVars, queueVars, schemaReady, rollDoneKey, backfillHeld>>

BackfillFails ==
    /\ pc = "rebuild"
    /\ \/ Unavailable
       \/ \E seen \in snap, start \in Hour :
             /\ IsFirstRawHour(db, scanFrom, start)
             /\ BelowRolled(db, start)
             /\ AckLost(RebuildHours(db, BackfillHours(seen, start)))
    /\ snap' = {}
    /\ backfillHeld' = TRUE
    /\ TickEnds
    /\ UNCHANGED <<proc, minuteVars, queueVars, schemaReady, rollDoneKey,
                   scanFrom, backfilled>>

\* A slip: the cutoff follows rolled_until alone, whatever the clock says.
BelowRolledCutoff(h) ==
    /\ RetentionHours > 0
    /\ BelowRolled(db, h + ReprocessMargin)
    /\ \A m \in pending : h < HourOf(m)

\* purge_step's cutoff: hour h lies below it.
BelowCutoff(h) ==
    /\ RetentionHours > 0
    /\ h + RetentionHours < nowHour
    /\ BelowRolled(db, h + ReprocessMargin)
    /\ \A m \in pending : h < HourOf(m)

\* The hours one step examines: from the oldest raw hour, up to the cutoff and the step's size.
PurgeRange ==
    {h \in Hour : \E first \in Hour :
        /\ IsFirstRawHour(db, 0, first)
        /\ first <= h /\ h < first + PurgeHoursPerStep
        /\ BelowCutoff(h)}

PurgeProven == \A h \in PurgeRange : HourProven(db, h)

\* Not due yet (hourly), or nothing may be purged, or PurgeRefused: nothing is deleted.
PurgeNothing ==
    /\ pc = "purge"
    /\ TickEnds
    /\ UNCHANGED <<storeVars, proc, minuteVars, queueVars, schemaReady, rollDoneKey,
                   backfillVars, faults>>

Purge ==
    /\ pc = "purge"
    /\ PurgeRange # {}
    /\ PurgeProven
    /\ \/ Commits(RawDeleted(db, PurgeRange))
       \/ AckLost(RawDeleted(db, PurgeRange))
    /\ TickEnds
    /\ UNCHANGED <<proc, minuteVars, queueVars, schemaReady, rollDoneKey, backfillVars>>

-----------------------------------------------------------------------------
RecorderStep ==
    \/ Tick \/ Claim \/ Persist \/ Refuse \/ WriteFails \/ Acknowledge
    \/ Maintain \/ RollDone \/ Roll \/ RollFails
    \/ BackfillSkip \/ BackfillBegin \/ Backfill \/ BackfillFails
    \/ PurgeNothing \/ Purge

Next == MqttEvent \/ RecorderStep \/ Resolve \/ Restart

Spec == Init /\ [][Next]_vars

\* The recorder thread ticks every second and its calls return or time out;
\* the server ends every transaction it still runs.
FairSpec == Spec /\ WF_vars(RecorderStep) /\ WF_vars(Resolve)

-----------------------------------------------------------------------------
(* Types.                                                                  *)

\* Every variable stays in its type; in particular at most one transaction is in
\* doubt and a batch is only written, acknowledged or refused when there is one.
TypeOK ==
    /\ IsStore(db)
    /\ \A s \in inDoubt : IsStore(s)
    /\ \A s, t \in inDoubt : s = t
    /\ proc \in Process /\ proc > 0
    /\ minuteStart \in Minute
    /\ closed \subseteq Minute /\ waiting \subseteq Minute /\ protected \subseteq Minute
    /\ written \subseteq Minute /\ dropped \subseteq Minute /\ refused \subseteq Minute
    /\ schemaReady \in BOOLEAN
    /\ pc \in PC
    /\ nowHour \in Hour /\ closedBefore \in Hour /\ pending \subseteq Minute
    /\ rolls \in 0 .. RollHoursPerTick
    /\ \A key \in rollDoneKey : key \in Hour \X SUBSET Minute
    /\ \A s \in snap : IsStore(s)
    /\ scanFrom \in Nat
    /\ backfilled \in BOOLEAN /\ backfillHeld \in BOOLEAN
    /\ faults \in 0 .. MaxFaults

-----------------------------------------------------------------------------
(* Safety.                                                                 *)

\* Whatever is committed, or may still be by an unanswered transaction, is
\* consistent: rollup and segments agree with the raw minutes that remain, the
\* rolled range has no hole, and a purged hour left whole evidence behind.
StoresConsistent == \A s \in {db} \cup inDoubt : StoreConsistent(s)

\* Every row the process closed is in exactly one place: waiting, protected,
\* or counted as written, dropped or refused (recorder.py's two-part buffer).
RowsAccounted ==
    /\ closed = waiting \cup protected \cup written \cup dropped \cup refused
    /\ waiting \cap (protected \cup written \cup dropped \cup refused) = {}
    /\ protected \cap (written \cup dropped \cup refused) = {}
    /\ written \cap (dropped \cup refused) = {}
    /\ dropped \cap refused = {}
    /\ \A m \in closed : m < minuteStart

\* At most BufferRows rows wait and at most BufferRows are protected.
BufferBounded ==
    /\ Cardinality(waiting) <= BufferRows
    /\ Cardinality(protected) <= BufferRows

\* m is known, from raw or from a purged hour's rollup, as recorded by process p.
StoredBy(s, m, p) == m \in RecordedMinutes(s) /\ RecordedBy(s, m) = p

\* A row counted as written is in the database for good: no lost acknowledgement,
\* late commit, rebuild or purge of this or an earlier process takes it away.
AcknowledgedIsStored == \A m \in written : StoredBy(db, m, proc)

\* A row counted as lost is in no table and in no open transaction: overflow drops only
\* what was never submitted, and a refused batch leaves nothing behind although it may
\* have been tried before.
LostNeverStored ==
    \A m \in dropped \cup refused, s \in {db} \cup inDoubt : ~StoredBy(s, m, proc)

\* Once the backfill reported completion, every rolled hour that stores raw minutes has
\* segments: no later roll, repair or late commit makes one without them.
BackfilledMeansMaterialized ==
    backfilled => \A s \in {db} \cup inDoubt :
                      RawHours(s) \cap DOMAIN s.rollup \subseteq DOMAIN s.activity

\* The hours backfill picked from a snapshot older than its lock still store raw
\* minutes when it rebuilds them, although a purge may have committed in between.
BackfillTargetsStored ==
    pc = "rebuild" /\ Unlocked =>
        \A seen \in snap, start \in Hour :
            IsFirstRawHour(db, scanFrom, start) /\ BelowRolled(db, start) =>
                BackfillHours(seen, start) \subseteq RawHours(db)

\* The purge proof never refuses: rows the application wrote always pass it.
PurgeNeverRefused == pc = "purge" /\ Unlocked => PurgeProven

-----------------------------------------------------------------------------
(* Action properties.                                                      *)

\* A slip: the frontier looks at the waiting queue only.
SettledBeforeWaiting == {m \in Minute : m < minuteStart /\ \A k \in waiting : m < k}

\* Minutes below settled_before: neither open nor queued, whatever the clock reads.
Settled == {m \in Minute : m < minuteStart /\ \A k \in waiting \cup protected : m < k}

\* No write of the running process adds a minute a reader was told is settled.  A
\* transaction of an earlier process may, until this one's backfill is complete.
SettledIsFinal ==
    [][\A m \in Settled, p \in Process :
          (p = proc \/ backfilled) /\ StoredBy(db', m, p) => StoredBy(db, m, p)]_vars

\* A purge deletes no hour that a queued row or a minute still to be closed can enter,
\* although it works with older copies of both, and although it may commit only ticks after
\* its process stopped waiting for it.  A process purges only once its backfill is complete:
\* what is purged before that, its predecessor began.
PurgeSparesUnwritten ==
    [][\A h \in (PurgedHours(db') \ PurgedHours(db)) :
          backfilled => /\ h < HourOf(minuteStart)
                        /\ \A m \in waiting \cup protected : h # HourOf(m)]_vars

-----------------------------------------------------------------------------
(* Liveness, under FairSpec and with finitely many faults and restarts.    *)

\* A queued row does not stay queued: it is written, dropped, refused or lost to a restart.
QueueDrains ==
    \A m \in Minute : m \in waiting \cup protected ~> m \notin waiting \cup protected

\* A stored minute of a closed hour is eventually rolled: no completed pass is remembered
\* too long.  A process started on an earlier clock rolls it when that clock catches up.
ClosedHoursRolled ==
    \A m \in Minute :
        (m \in DOMAIN db.raw /\ HourOf(m) < HourOf(minuteStart)) ~>
            (HourOf(m) \in DOMAIN db.rollup \/ HourOf(m) >= HourOf(minuteStart))

\* The backfill of a running process completes, so purge is not held back for ever.
BackfillCompletes == <>[]backfilled

=============================================================================
