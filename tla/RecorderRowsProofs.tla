------------------------- MODULE RecorderRowsProofs -------------------------
(***************************************************************************)
(* What becomes of the rows a process closes, for every value of the       *)
(* constants: what is counted as written is stored for good, what is       *)
(* counted as lost is stored nowhere, no write reaches a settled minute,   *)
(* the queue is bounded, purge spares what is not yet written, and a       *)
(* completed backfill has found every hour that lacked segments.  Last,    *)
(* the recorder implements the history ledger.                             *)
(***************************************************************************)
EXTENDS MCRecorder, RecorderProofs

Stores == {db} \cup inDoubt

-----------------------------------------------------------------------------
(* The invariants.                                                         *)

Maintaining == {"maintain", "roll", "backfill", "rebuild", "purge"}

\* Maintenance starts only after a complete flush.
MaintainsFlushed == pc \in Maintaining => protected = {}

\* What is counted as written, or is about to be, is stored, whatever the server decides
\* about a transaction in doubt.
HoldsWritten(s) ==
    /\ \A m \in written : StoredBy(s, m, proc)
    /\ pc = "ack" => \A m \in protected : StoredBy(s, m, proc)
WrittenInv == \A s \in Stores : HoldsWritten(s)

\* Only what the running process submitted is stored in its name, and a row that is still
\* protected has not been purged.
HoldsSubmitted(s) ==
    \A m \in RecordedMinutes(s) :
        /\ RecordedBy(s, m) <= proc
        /\ RecordedBy(s, m) = proc => m \in written \/ (m \in protected /\ m \in DOMAIN s.raw)
SubmittedInv == \A s \in Stores : HoldsSubmitted(s)

RowsInv == StoreInv /\ RowsAccounted /\ MaintainsFlushed /\ WrittenInv /\ SubmittedInv

\* Below the scan position of backfill every rolled hour with raw minutes has segments,
\* and a transaction in doubt cannot change that.
ScanInv ==
    /\ \A s \in inDoubt : Lacking(s) \subseteq Lacking(db)
    /\ pc = "rebuild" => \A seen \in snap : Lacking(db) \subseteq Lacking(seen)
    /\ \A h \in Lacking(db) : scanFrom <= h
    /\ backfilled => Lacking(db) = {}

\* Maintenance has taken its copies.
Passing == {"roll", "backfill", "rebuild", "purge"}

\* The copies a tick works with stay on the safe side of the clock and of the queue.
PassInv ==
    /\ nowHour <= HourOf(minuteStart)
    /\ pc \in Passing =>
          \A m \in waiting \cup protected : m \in pending \/ nowHour <= HourOf(m)
    /\ pc = "purge" => backfilled

\* No row that is queued or still to be closed lies in hour h.
Spares(h) == h < HourOf(minuteStart) /\ \A m \in waiting \cup protected : h # HourOf(m)

\* Hours a transaction in doubt would purge: since this process has completed its backfill,
\* the transaction is its own.
DoubtInv ==
    backfilled => \A s \in inDoubt : \A h \in PurgedHours(s) \ PurgedHours(db) : Spares(h)

\* Store s holds no row of another process that the committed store does not.
OthersKept(s) ==
    \A m \in Minute, p \in Process : p # proc /\ StoredBy(s, m, p) => StoredBy(db, m, p)

\* Since this process has completed its backfill, a transaction in doubt is its own.
OwnDoubt == backfilled => \A s \in inDoubt : OthersKept(s)

-----------------------------------------------------------------------------
(* The steps, as the database sees them.                                   *)

\* A transaction is sent while no other is in doubt, and is committed or left in doubt.
Submits(new) ==
    /\ inDoubt = {}
    /\ \/ db' = new /\ inDoubt' = {}
       \/ db' = db /\ inDoubt' = {new}

QueueKept == UNCHANGED <<proc, minuteVars, queueVars>>

\* persist was sent; it was acknowledged, or its answer was lost.
Writes ==
    /\ pc = "write"
    /\ RefusedHours(db, protected) = {}
    /\ Submits(Persisted(db, protected, proc))
    /\ pc' = "ack" => db' = Persisted(db, protected, proc) /\ inDoubt' = {}
    /\ pc' \notin Maintaining
    /\ QueueKept

\* Hours that store raw minutes were rolled or given segments.
Rebuilds ==
    /\ pc \in {"roll", "rebuild"} /\ pc' # "ack"
    /\ \E hours \in SUBSET RawHours(db) : Submits(RebuildHours(db, hours))
    /\ QueueKept

\* Proven hours were purged.
Purges ==
    /\ pc = "purge" /\ pc' = "idle"
    /\ PurgeProven
    /\ Submits(RawDeleted(db, PurgeRange))
    /\ QueueKept

\* A commit, acknowledged or not, submits its store or changes none.
LEMMA CommitSubmits ==
  ASSUME NEW new, Commits(new) \/ AckLost(new)
  PROVE  Submits(new)
  BY DEF Commits, AckLost, Unlocked, Submits

\* Every step leaves the stores alone, sends one of the three kinds of transaction, or
\* settles one that was in doubt.
LEMMA StoreSteps ==
  StoreInv /\ [Next]_vars => UNCHANGED storeVars \/ Writes \/ Rebuilds \/ Purges \/ Resolve
  <1>. SUFFICES ASSUME StoreInv, [Next]_vars
                PROVE  UNCHANGED storeVars \/ Writes \/ Rebuilds \/ Purges \/ Resolve
    OBVIOUS
  <1>1. CASE Persist
    <2>1. CASE UNCHANGED storeVars
      BY <2>1
    <2>2. CASE Commits(Persisted(db, protected, proc))
      BY <1>1, <2>2, CommitSubmits
         DEF Persist, Writes, Maintaining, QueueKept, Commits, Unlocked
    <2>. QED
      BY <1>1, <2>1, <2>2 DEF Persist
  <1>2. CASE WriteFails
    <2>1. CASE Unavailable
      BY <2>1 DEF Unavailable
    <2>2. CASE RefusedHours(db, protected) = {} /\ AckLost(Persisted(db, protected, proc))
      BY <1>2, <2>2, CommitSubmits DEF WriteFails, TickEnds, Writes, Maintaining, QueueKept
    <2>. QED
      BY <1>2, <2>1, <2>2 DEF WriteFails
  <1>3. CASE Roll
    <2>1. PICK h \in Hour : IsRollable(db, h, closedBefore) /\ Commits(RebuildHours(db, {h}))
      BY <1>3 DEF Roll
    <2>2. {h} \in SUBSET RawHours(db)
      BY <2>1 DEF IsRollable
    <2>. QED
      BY <1>3, <2>1, <2>2, CommitSubmits DEF Roll, Rebuilds, QueueKept
  <1>4. CASE RollFails
    <2>1. CASE Unavailable
      BY <2>1 DEF Unavailable
    <2>2. CASE \E h \in Hour : IsRollable(db, h, closedBefore) /\ AckLost(RebuildHours(db, {h}))
      <3>1. PICK h \in Hour : IsRollable(db, h, closedBefore) /\ AckLost(RebuildHours(db, {h}))
        BY <2>2
      <3>2. {h} \in SUBSET RawHours(db)
        BY <3>1 DEF IsRollable
      <3>. QED
        BY <1>4, <3>1, <3>2, CommitSubmits DEF RollFails, Rebuilds, QueueKept
    <2>. QED
      BY <1>4, <2>1, <2>2 DEF RollFails
  <1>5. CASE Backfill
    <2>1. CASE UNCHANGED storeVars
      BY <2>1
    <2>2. CASE \E seen \in snap, start \in Hour : Commits(RebuildHours(db, BackfillHours(seen, start)))
      <3>1. PICK seen \in snap, start \in Hour : Commits(RebuildHours(db, BackfillHours(seen, start)))
        BY <2>2
      <3>2. BackfillHours(seen, start) \in SUBSET RawHours(db)
        BY <1>5, BackfillTargets DEF Backfill
      <3>3. pc' # "ack"
        BY <1>5 DEF Backfill, TickEnds
      <3>. QED
        BY <1>5, <3>1, <3>2, <3>3, CommitSubmits DEF Backfill, Rebuilds, QueueKept
    <2>. QED
      BY <1>5, <2>1, <2>2 DEF Backfill
  <1>6. CASE BackfillFails
    <2>1. CASE Unavailable
      BY <2>1 DEF Unavailable
    <2>2. CASE \E seen \in snap, start \in Hour : AckLost(RebuildHours(db, BackfillHours(seen, start)))
      <3>1. PICK seen \in snap, start \in Hour : AckLost(RebuildHours(db, BackfillHours(seen, start)))
        BY <2>2
      <3>2. BackfillHours(seen, start) \in SUBSET RawHours(db)
        BY <1>6, BackfillTargets DEF BackfillFails
      <3>. QED
        BY <1>6, <3>1, <3>2, CommitSubmits DEF BackfillFails, TickEnds, Rebuilds, QueueKept
    <2>. QED
      BY <1>6, <2>1, <2>2 DEF BackfillFails
  <1>7. CASE Purge
    BY <1>7, CommitSubmits DEF Purge, TickEnds, Purges, QueueKept
  <1>8. CASE \/ MqttEvent \/ Tick \/ Claim \/ Refuse \/ Acknowledge \/ Maintain \/ RollDone
             \/ BackfillSkip \/ BackfillBegin \/ PurgeNothing \/ Restart \/ UNCHANGED vars
    BY <1>8 DEF MqttEvent, Tick, Claim, Refuse, Acknowledge, Maintain, RollDone, BackfillSkip,
                BackfillBegin, PurgeNothing, Restart, vars
  <1>. QED
    BY <1>1, <1>2, <1>3, <1>4, <1>5, <1>6, <1>7, <1>8 DEF Next, RecorderStep

\* Only a start and a step of backfill itself move the scan; the snapshot is the store as
\* the step began.
LEMMA ScanSteps ==
  [Next]_vars =>
    /\ UNCHANGED <<scanFrom, backfilled>> \/ Backfill \/ Restart
    /\ pc' = "rebuild" => (snap' = {db} /\ UNCHANGED db) \/ UNCHANGED <<pc, snap>>
  <1>. SUFFICES ASSUME [Next]_vars
                PROVE  /\ UNCHANGED <<scanFrom, backfilled>> \/ Backfill \/ Restart
                       /\ pc' = "rebuild" => (snap' = {db} /\ UNCHANGED db) \/ UNCHANGED <<pc, snap>>
    OBVIOUS
  <1>1. CASE MqttEvent \/ Tick \/ Resolve \/ UNCHANGED vars
    BY <1>1 DEF MqttEvent, Tick, Resolve, vars, backfillVars
  <1>2. CASE Claim \/ Persist \/ Refuse \/ WriteFails \/ Acknowledge
    BY <1>2 DEF Claim, Persist, Refuse, WriteFails, Acknowledge, TickEnds, backfillVars
  <1>3. CASE Maintain \/ RollDone \/ Roll \/ RollFails \/ PurgeNothing \/ Purge
    BY <1>3 DEF Maintain, RollDone, Roll, RollFails, PurgeNothing, Purge, TickEnds, backfillVars
  <1>4. CASE BackfillSkip \/ BackfillBegin \/ BackfillFails
    BY <1>4 DEF BackfillSkip, BackfillBegin, BackfillFails, TickEnds, storeVars
  <1>5. CASE Backfill \/ Restart
    BY <1>5 DEF Backfill, Restart, TickEnds
  <1>. QED
    BY <1>1, <1>2, <1>3, <1>4, <1>5 DEF Next, RecorderStep

\* Only a restart changes the running process.
LEMMA OnlyRestarts == [Next]_vars => proc' = proc \/ Restart
  <1>1. CASE MqttEvent \/ RecorderStep \/ Resolve
    BY <1>1 DEF MqttEvent, RecorderStep, Resolve, Tick, Claim, Persist, Refuse, WriteFails,
                Acknowledge, Maintain, RollDone, Roll, RollFails, BackfillSkip, BackfillBegin,
                Backfill, BackfillFails, PurgeNothing, Purge
  <1>. QED
    BY <1>1 DEF Next, vars

\* t knows what s knows, and the rows of process p.
Records(s, t, rows, p) == Ledger(t) = Over([m \in rows |-> p], Ledger(s))

\* What a reader knows after a step that sends a transaction.
LEMMA LedgerSteps ==
  ASSUME StoreInv
  PROVE  /\ Writes =>
              LET new == Persisted(db, protected, proc)
              IN  /\ Submits(new) /\ PurgedHours(new) = PurgedHours(db)
                  /\ Records(db, new, protected, proc)
                  /\ DOMAIN new.raw = protected \cup DOMAIN db.raw
         /\ Rebuilds =>
              \E new : /\ Submits(new) /\ PurgedHours(new) = PurgedHours(db)
                       /\ Ledger(new) = Ledger(db)
         /\ Purges =>
              LET new == RawDeleted(db, PurgeRange)
              IN  /\ Submits(new) /\ PurgedHours(db) \subseteq PurgedHours(new)
                  /\ PurgedHours(new) \subseteq PurgedHours(db) \cup (PurgeRange \cap RawHours(db))
                  /\ Ledger(new) = Ledger(db)
  <1>0. IsStore(db) /\ StoreConsistent(db) /\ protected \subseteq Minute /\ proc \in Process
    BY DEF StoreInv, TypeOK, StoresConsistent
  <1>1. ASSUME Writes
        PROVE  LET new == Persisted(db, protected, proc)
               IN  /\ Submits(new) /\ PurgedHours(new) = PurgedHours(db)
                   /\ Records(db, new, protected, proc)
                   /\ DOMAIN new.raw = protected \cup DOMAIN db.raw
    BY <1>0, <1>1, PersistLedger DEF Writes, Records
  <1>2. ASSUME Rebuilds
        PROVE  \E new : /\ Submits(new) /\ PurgedHours(new) = PurgedHours(db)
                        /\ Ledger(new) = Ledger(db)
    <2>1. PICK hours \in SUBSET RawHours(db) : Submits(RebuildHours(db, hours))
      BY <1>2 DEF Rebuilds
    <2>. QED
      BY <1>0, <2>1, RebuildLedger
  <1>3. ASSUME Purges
        PROVE  LET new == RawDeleted(db, PurgeRange)
               IN  /\ Submits(new) /\ PurgedHours(db) \subseteq PurgedHours(new)
                   /\ PurgedHours(new) \subseteq PurgedHours(db) \cup (PurgeRange \cap RawHours(db))
                   /\ Ledger(new) = Ledger(db)
    BY <1>0, <1>3, PurgeLedger DEF Purges, PurgeProven
  <1>. QED
    BY <1>1, <1>2, <1>3

-----------------------------------------------------------------------------
(* Written is stored, lost is not.                                         *)

\* Maintenance of an unflushed queue does not start.
LEMMA NextFlushed == MaintainsFlushed /\ [Next]_vars => MaintainsFlushed'
  <1>. SUFFICES ASSUME MaintainsFlushed, [Next]_vars PROVE MaintainsFlushed'
    OBVIOUS
  <1>. USE DEF MaintainsFlushed, Maintaining
  <1>1. CASE MqttEvent \/ Tick
    BY <1>1 DEF MqttEvent, Tick
  <1>2. CASE Claim \/ Persist \/ Refuse \/ WriteFails \/ Acknowledge
    BY <1>2 DEF Claim, Persist, Refuse, WriteFails, Acknowledge, TickEnds, queueVars
  <1>3. CASE \/ Maintain \/ RollDone \/ Roll \/ RollFails \/ BackfillSkip \/ BackfillBegin
             \/ Backfill \/ BackfillFails \/ PurgeNothing \/ Purge \/ Resolve \/ UNCHANGED vars
    BY <1>3 DEF Maintain, RollDone, Roll, RollFails, BackfillSkip, BackfillBegin, Backfill,
                BackfillFails, PurgeNothing, Purge, Resolve, vars, queueVars
  <1>4. CASE Restart
    BY <1>4 DEF Restart
  <1>. QED
    BY <1>1, <1>2, <1>3, <1>4 DEF Next, RecorderStep

\* How a step that leaves the stores alone moves the rows of the running process.
LEMMA QueueSteps ==
  [Next]_vars /\ UNCHANGED storeVars =>
    \/ /\ UNCHANGED <<proc, protected, written>>
       /\ pc' = "ack" => pc = "ack" \/ protected = {}
    \/ Claim \/ Refuse \/ Acknowledge \/ Restart \/ Writes
  <1>. SUFFICES ASSUME [Next]_vars, ~(Claim \/ Refuse \/ Acknowledge \/ Restart \/ Writes)
                PROVE  /\ UNCHANGED <<proc, protected, written>>
                       /\ pc' = "ack" => pc = "ack" \/ protected = {}
    OBVIOUS
  <1>1. CASE MqttEvent \/ Tick
    BY <1>1 DEF MqttEvent, Tick
  <1>2. CASE Persist
    <2>1. CASE protected = {}
      BY <1>2, <2>1 DEF Persist, queueVars
    <2>2. CASE protected # {}
      BY <1>2, <2>2, CommitSubmits
         DEF Persist, Writes, Maintaining, QueueKept, Commits, Unlocked
    <2>. QED
      BY <2>1, <2>2
  <1>3. CASE \/ WriteFails \/ Maintain \/ RollDone \/ Roll \/ RollFails \/ BackfillSkip
             \/ BackfillBegin \/ Backfill \/ BackfillFails \/ PurgeNothing \/ Purge \/ Resolve
    BY <1>3 DEF WriteFails, Maintain, RollDone, Roll, RollFails, BackfillSkip, BackfillBegin,
                Backfill, BackfillFails, PurgeNothing, Purge, Resolve, TickEnds, queueVars
  <1>4. CASE UNCHANGED vars
    BY <1>4 DEF vars, queueVars
  <1>. QED
    BY <1>1, <1>2, <1>3, <1>4 DEF Next, RecorderStep

\* Two stores with one ledger hold the same rows for the same processes.
LEMMA SameRows ==
  ASSUME NEW s, NEW t, Ledger(t) = Ledger(s)
  PROVE  /\ RecordedMinutes(t) = RecordedMinutes(s)
         /\ \A m \in RecordedMinutes(s) : RecordedBy(t, m) = RecordedBy(s, m)
         /\ \A m, p : StoredBy(t, m, p) <=> StoredBy(s, m, p)
  <1>1. RecordedMinutes(t) = RecordedMinutes(s)
    <2>1. DOMAIN Ledger(t) = RecordedMinutes(t) /\ DOMAIN Ledger(s) = RecordedMinutes(s)
      BY DEF Ledger
    <2>. QED
      BY <2>1
  <1>2. ASSUME NEW m \in RecordedMinutes(s)
        PROVE  RecordedBy(t, m) = RecordedBy(s, m)
    <2>1. Ledger(t)[m] = RecordedBy(t, m) /\ Ledger(s)[m] = RecordedBy(s, m)
      BY <1>1 DEF Ledger
    <2>. QED
      BY <2>1
  <1>. QED
    BY <1>1, <1>2 DEF StoredBy

\* What a store holds once rows have been recorded over it.
LEMMA RecordedRows ==
  ASSUME NEW s, NEW t, NEW rows, NEW p, Records(s, t, rows, p)
  PROVE  /\ RecordedMinutes(t) = rows \cup RecordedMinutes(s)
         /\ \A m \in rows : RecordedBy(t, m) = p
         /\ \A m \in RecordedMinutes(s) \ rows : RecordedBy(t, m) = RecordedBy(s, m)
  <1>1. RecordedMinutes(t) = rows \cup RecordedMinutes(s)
    <2>1. DOMAIN Ledger(t) = RecordedMinutes(t) /\ DOMAIN Ledger(s) = RecordedMinutes(s)
      BY DEF Ledger
    <2>. QED
      BY <2>1 DEF Over, Records
  <1>2. \A m \in RecordedMinutes(t) : RecordedBy(t, m) = Ledger(t)[m]
    BY DEF Ledger
  <1>3. \A m \in RecordedMinutes(s) : RecordedBy(s, m) = Ledger(s)[m]
    BY DEF Ledger
  <1>4. DOMAIN Ledger(s) = RecordedMinutes(s)
    BY DEF Ledger
  <1>. QED
    BY <1>1, <1>2, <1>3, <1>4 DEF Over, Records

\* Every step keeps what is written stored, and what is stored submitted.
LEMMA NextRows == RowsInv /\ [Next]_vars => WrittenInv' /\ SubmittedInv'
  <1>. SUFFICES ASSUME RowsInv, [Next]_vars PROVE WrittenInv' /\ SubmittedInv'
    OBVIOUS
  <1>0. StoreInv /\ proc \in Nat /\ db \in Stores /\ \A s \in Stores : HoldsWritten(s) /\ HoldsSubmitted(s)
    BY DEF RowsInv, StoreInv, TypeOK, Process, WrittenInv, SubmittedInv, Stores
  <1>1. ASSUME NEW new, Submits(new), QueueKept, Ledger(new) = Ledger(db),
               pc \in Maintaining, pc' # "ack"
        PROVE  WrittenInv' /\ SubmittedInv'
    <2>1. protected = {}
      BY <1>1 DEF RowsInv, MaintainsFlushed
    <2>2. \A s \in Stores' : s = db \/ s = new
      BY <1>1 DEF Submits, Stores
    <2>3. /\ RecordedMinutes(new) = RecordedMinutes(db)
          /\ \A m \in RecordedMinutes(db) : RecordedBy(new, m) = RecordedBy(db, m)
          /\ \A m : StoredBy(new, m, proc) <=> StoredBy(db, m, proc)
      BY <1>1, SameRows
    <2>. QED
      BY <1>0, <1>1, <2>1, <2>2, <2>3
         DEF QueueKept, queueVars, WrittenInv, SubmittedInv, HoldsWritten, HoldsSubmitted
  <1>2. CASE Writes
    <2>0. PICK new : new = Persisted(db, protected, proc)
      OBVIOUS
    <2>1. /\ Submits(new)
          /\ Records(db, new, protected, proc)
          /\ DOMAIN new.raw = protected \cup DOMAIN db.raw
      BY <1>0, <1>2, <2>0, LedgerSteps
    <2>2. pc' = "ack" => Stores' = {new}
      BY <1>2, <2>0 DEF Writes, Stores
    <2>3. UNCHANGED <<proc, protected, written>>
      BY <1>2 DEF Writes, QueueKept, queueVars
    <2>4. pc # "ack"
      BY <1>2 DEF Writes
    <2>5. \A s \in Stores' : s = db \/ s = new
      BY <2>1 DEF Submits, Stores
    <2>6. /\ RecordedMinutes(new) = protected \cup RecordedMinutes(db)
          /\ \A m \in protected : RecordedBy(new, m) = proc
          /\ \A m \in RecordedMinutes(db) \ protected : RecordedBy(new, m) = RecordedBy(db, m)
      BY <2>1, RecordedRows
    <2>7. \A m \in written \cup protected :
             StoredBy(new, m, proc) <=> (m \in protected \/ StoredBy(db, m, proc))
      BY <2>6 DEF StoredBy
    <2>8. ASSUME NEW s \in Stores' PROVE HoldsWritten(s)' /\ HoldsSubmitted(s)'
      <3>1. CASE s = new
        BY <1>0, <2>1, <2>3, <2>6, <2>7, <3>1 DEF HoldsWritten, HoldsSubmitted
      <3>2. CASE s = db /\ pc' # "ack"
        BY <1>0, <2>3, <3>2 DEF HoldsWritten, HoldsSubmitted
      <3>. QED
        BY <2>2, <2>5, <2>8, <3>1, <3>2
    <2>. QED
      BY <2>8 DEF WrittenInv, SubmittedInv
  <1>3. CASE Rebuilds
    BY <1>0, <1>1, <1>3, LedgerSteps DEF Rebuilds, Maintaining
  <1>4. CASE Purges
    BY <1>0, <1>1, <1>4, LedgerSteps DEF Purges, Maintaining
  <1>5. CASE Resolve
    <2>1. \A s \in Stores' : s \in Stores
      BY <1>5 DEF Resolve, Stores
    <2>2. UNCHANGED <<proc, protected, written, pc>>
      BY <1>5 DEF Resolve, queueVars
    <2>. QED
      BY <1>0, <2>1, <2>2 DEF WrittenInv, SubmittedInv, HoldsWritten, HoldsSubmitted
  <1>6. CASE UNCHANGED storeVars
    <2>0. Stores' = Stores
      BY <1>6 DEF storeVars, Stores
    <2>1. CASE UNCHANGED <<proc, protected, written>> /\ (pc' = "ack" => pc = "ack" \/ protected = {})
      BY <1>0, <2>0, <2>1 DEF WrittenInv, SubmittedInv, HoldsWritten, HoldsSubmitted
    <2>2. CASE Claim
      <3>1. UNCHANGED <<proc, written>> /\ pc' # "ack" /\ protected \subseteq protected'
        BY <2>2 DEF Claim
      <3>. QED
        BY <1>0, <2>0, <3>1 DEF WrittenInv, SubmittedInv, HoldsWritten, HoldsSubmitted
    <2>3. CASE Refuse
      <3>1. UNCHANGED <<proc, written>> /\ pc' # "ack" /\ Stores' = {db}
        BY <1>6, <2>3 DEF Refuse, Unlocked, storeVars, Stores
      <3>2. \A m \in protected \ protected' : HourOf(m) \in PurgedHours(db)
        BY <2>3 DEF Refuse, RefusedHours
      <3>3. \A m \in protected \ protected' : m \notin DOMAIN db.raw
        BY <3>2 DEF PurgedHours, RawHours, HoursOf
      <3>. QED
        BY <1>0, <3>1, <3>3 DEF WrittenInv, SubmittedInv, HoldsWritten, HoldsSubmitted
    <2>4. CASE Acknowledge
      <3>1. UNCHANGED proc /\ pc = "ack" /\ pc' # "ack" /\ written' = written \cup protected
        BY <2>4 DEF Acknowledge
      <3>. QED
        BY <1>0, <2>0, <3>1 DEF WrittenInv, SubmittedInv, HoldsWritten, HoldsSubmitted
    <2>5. CASE Restart
      <3>1. proc' = proc + 1 /\ written' = {} /\ pc' # "ack"
        BY <2>5 DEF Restart
      <3>2. \A s \in Stores : \A m \in RecordedMinutes(s) : RecordedBy(s, m) \in Nat /\ RecordedBy(s, m) <= proc
        <4>1. ASSUME NEW s \in Stores, NEW m \in RecordedMinutes(s)
              PROVE  RecordedBy(s, m) \in Process
          BY <1>0, RecordedType DEF Stores, StoreInv, TypeOK, StoresConsistent
        <4>. QED
          BY <1>0, <4>1 DEF HoldsSubmitted, Process
      <3>. QED
        BY <1>0, <2>0, <3>1, <3>2 DEF WrittenInv, SubmittedInv, HoldsWritten, HoldsSubmitted
    <2>. QED
      BY <1>2, <1>6, <2>1, <2>2, <2>3, <2>4, <2>5, QueueSteps
  <1>. QED
    BY <1>0, <1>2, <1>3, <1>4, <1>5, <1>6, StoreSteps

\* A store of an earlier release holds nothing of the first process.
LEMMA InitRows == Init => MaintainsFlushed /\ WrittenInv /\ SubmittedInv
  <1>. SUFFICES ASSUME Init PROVE MaintainsFlushed /\ WrittenInv /\ SubmittedInv
    OBVIOUS
  <1>1. PICK recorded \in SUBSET {m \in Minute : HourOf(m) < LegacyHours}, oldest \in Hour :
           db = LegacyStore(recorded, oldest)
    BY DEF Init
  <1>2. /\ DOMAIN db.raw = {k \in recorded : oldest <= HourOf(k)}
        /\ \A m \in DOMAIN db.raw : db.raw[m] = 0
        /\ db.rollup = [h \in HoursOf(recorded) |-> [m \in {k \in recorded : HourOf(k) = h} |-> 0]]
    BY <1>1 DEF LegacyStore
  <1>3. StoreConsistent(db)
    BY <1>1, LegacyStoreConsistent
  <1>4. ASSUME NEW m \in RecordedMinutes(db) PROVE RecordedBy(db, m) = 0
    <2>1. CASE m \in DOMAIN db.raw
      BY <1>2, <2>1 DEF RecordedBy
    <2>2. CASE m \notin DOMAIN db.raw
      <3>1. HourOf(m) \in HoursOf(recorded) /\ m \in DOMAIN db.rollup[HourOf(m)]
        BY <1>2, <1>3, <2>2, RecordedPurged DEF PurgedHours
      <3>. QED
        BY <1>2, <2>2, <3>1 DEF RecordedBy
    <2>. QED
      BY <2>1, <2>2
  <1>. QED
    BY <1>4 DEF Init, MaintainsFlushed, Maintaining, WrittenInv, HoldsWritten, SubmittedInv,
                HoldsSubmitted, Stores

\* The invariant of a process's rows holds in every behaviour.
LEMMA RowsInvariant == Spec => []RowsInv
  <1>1. Spec => []StoreInv
    BY StoreInvariant
  <1>2. Spec => []RowsAccounted
    BY RowsStayAccounted
  <1>3. Init => MaintainsFlushed /\ WrittenInv /\ SubmittedInv
    BY InitRows
  <1>4. /\ StoreInv /\ RowsAccounted /\ MaintainsFlushed /\ WrittenInv /\ SubmittedInv
        /\ [Next]_vars
        => MaintainsFlushed' /\ WrittenInv' /\ SubmittedInv'
    BY NextRows, NextFlushed DEF RowsInv
  <1>5. Spec => [](StoreInv /\ RowsAccounted /\ MaintainsFlushed /\ WrittenInv /\ SubmittedInv)
    BY <1>1, <1>2, <1>3, <1>4, PTL DEF Spec
  <1>. QED
    BY <1>5, PTL DEF RowsInv

\* A row counted as written is in the database for good: no lost acknowledgement, late
\* commit, rebuild or purge takes it away while the process runs.
THEOREM WrittenStaysStored == Spec => []AcknowledgedIsStored
  <1>1. RowsInv => AcknowledgedIsStored
    BY DEF RowsInv, WrittenInv, HoldsWritten, Stores, AcknowledgedIsStored
  <1>. QED
    BY <1>1, RowsInvariant, PTL

\* A row counted as dropped or refused is in no table and in no open transaction, although
\* a refused batch may have been tried before.
THEOREM LostIsNotStored == Spec => []LostNeverStored
  <1>1. RowsInv => LostNeverStored
    BY DEF RowsInv, RowsAccounted, SubmittedInv, HoldsSubmitted, Stores, StoredBy, LostNeverStored
  <1>. QED
    BY <1>1, RowsInvariant, PTL

-----------------------------------------------------------------------------
(* The settled frontier.                                                   *)

\* What a step stores anew in the name of the running process is protected now.
LEMMA OnlyProtectedIsNew ==
  ASSUME RowsInv, [Next]_vars, NEW m, StoredBy(db', m, proc), ~StoredBy(db, m, proc)
  PROVE  m \in protected
  <1>0. StoreInv /\ \A s \in Stores : HoldsWritten(s) /\ HoldsSubmitted(s)
    BY DEF RowsInv, WrittenInv, SubmittedInv
  <1>1. CASE Writes
    <2>0. PICK new : new = Persisted(db, protected, proc)
      OBVIOUS
    <2>1. Submits(new) /\ Records(db, new, protected, proc)
      BY <1>0, <1>1, <2>0, LedgerSteps
    <2>2. db' = new
      BY <2>1 DEF Submits
    <2>3. /\ RecordedMinutes(new) = protected \cup RecordedMinutes(db)
          /\ \A k \in RecordedMinutes(db) \ protected : RecordedBy(new, k) = RecordedBy(db, k)
      BY <2>1, RecordedRows
    <2>. QED
      BY <2>2, <2>3 DEF StoredBy
  <1>2. ASSUME NEW new, Submits(new), Ledger(new) = Ledger(db) PROVE FALSE
    BY <1>2, SameRows DEF Submits
  <1>3. CASE Rebuilds \/ Purges
    BY <1>0, <1>2, <1>3, LedgerSteps
  <1>4. CASE Resolve
    <2>1. db' \in Stores
      BY <1>4 DEF Resolve, Stores
    <2>2. m \in written \/ m \in protected
      BY <1>0, <2>1 DEF HoldsSubmitted, StoredBy
    <2>3. m \notin written
      BY <1>0 DEF HoldsWritten, Stores
    <2>. QED
      BY <2>2, <2>3
  <1>5. CASE UNCHANGED storeVars
    BY <1>5 DEF storeVars
  <1>. QED
    BY <1>0, <1>1, <1>3, <1>4, <1>5, StoreSteps

\* A transaction the recorder sends adds rows in its own name only.
LEMMA SendsOwn ==
  ASSUME StoreInv, Writes \/ Rebuilds \/ Purges
  PROVE  \E new : Submits(new) /\ OthersKept(new)
  <1>1. CASE Writes
    <2>0. PICK new : new = Persisted(db, protected, proc)
      OBVIOUS
    <2>1. Submits(new) /\ Records(db, new, protected, proc)
      BY <1>1, <2>0, LedgerSteps
    <2>2. OthersKept(new)
      BY <2>1, RecordedRows DEF OthersKept, StoredBy
    <2>. QED
      BY <2>1, <2>2
  <1>2. CASE Rebuilds \/ Purges
    <2>1. PICK new : Submits(new) /\ Ledger(new) = Ledger(db)
      BY <1>2, LedgerSteps
    <2>2. OthersKept(new)
      BY <2>1, SameRows DEF OthersKept
    <2>. QED
      BY <2>1, <2>2
  <1>. QED
    BY <1>1, <1>2

\* Backfill completes under the lock, when nothing is in doubt; what is in doubt later was
\* sent by this process.
LEMMA NextOwn == StoreInv /\ OwnDoubt /\ [Next]_vars => OwnDoubt'
  <1>. SUFFICES ASSUME StoreInv, OwnDoubt, [Next]_vars, backfilled', NEW s \in inDoubt',
                       NEW m \in Minute, NEW p \in Process, p # proc', StoredBy(s, m, p)
                PROVE  StoredBy(db', m, p)
    BY DEF OwnDoubt, OthersKept
  <1>1. CASE Writes \/ Rebuilds \/ Purges
    <2>1. PICK new : Submits(new) /\ OthersKept(new)
      BY <1>1, SendsOwn
    <2>2. s = new /\ db' = db /\ proc' = proc
      BY <1>1, <2>1 DEF Submits, Writes, Rebuilds, Purges, QueueKept
    <2>. QED
      BY <2>1, <2>2 DEF OthersKept
  <1>2. CASE Resolve
    BY <1>2 DEF Resolve
  <1>3. CASE UNCHANGED storeVars
    <2>1. CASE Backfill
      BY <1>3, <2>1 DEF Backfill, Unlocked, Commits, storeVars
    <2>2. CASE ~Backfill
      <3>1. ~Restart
        BY DEF Restart
      <3>2. backfilled /\ s \in inDoubt /\ db' = db /\ proc' = proc
        BY <1>3, <2>2, <3>1, ScanSteps, OnlyRestarts DEF storeVars
      <3>. QED
        BY <3>2 DEF OwnDoubt, OthersKept
    <2>. QED
      BY <2>1, <2>2
  <1>. QED
    BY <1>1, <1>2, <1>3, StoreSteps

\* In every behaviour what is in doubt after the backfill is the running process's.
LEMMA OwnInvariant == Spec => []OwnDoubt
  <1>1. Init => OwnDoubt
    BY DEF Init, OwnDoubt
  <1>. QED
    BY <1>1, NextOwn, StoreInvariant, PTL DEF Spec

\* Once the backfill is complete no step stores a row in the name of another process.
LEMMA OthersAreKept ==
  ASSUME StoreInv, OwnDoubt, backfilled, [Next]_vars,
         NEW m \in Minute, NEW p \in Process, p # proc, StoredBy(db', m, p)
  PROVE  StoredBy(db, m, p)
  <1>1. CASE Writes \/ Rebuilds \/ Purges
    <2>1. PICK new : Submits(new) /\ OthersKept(new)
      BY <1>1, SendsOwn
    <2>. QED
      BY <2>1 DEF Submits, OthersKept
  <1>2. CASE Resolve
    BY <1>2 DEF Resolve, OwnDoubt, OthersKept
  <1>3. CASE UNCHANGED storeVars
    BY <1>3 DEF storeVars
  <1>. QED
    BY <1>1, <1>2, <1>3, StoreSteps

\* No write of the running process, and no late commit of one, adds a minute below the
\* frontier a reader was given; nor does one of an earlier process, once the backfill of
\* this one is complete.
THEOREM SettledStaysFinal == Spec => SettledIsFinal
  <1>1. RowsInv /\ OwnDoubt /\ [Next]_vars =>
           [\A m \in Settled, p \in Process :
               (p = proc \/ backfilled) /\ StoredBy(db', m, p) => StoredBy(db, m, p)]_vars
    <2>. SUFFICES ASSUME RowsInv, OwnDoubt, [Next]_vars, NEW m \in Settled, NEW p \in Process,
                         p = proc \/ backfilled, StoredBy(db', m, p), ~StoredBy(db, m, p)
                  PROVE  FALSE
      OBVIOUS
    <2>1. m \in Minute
      BY DEF Settled
    <2>2. p = proc
      BY <2>1, OthersAreKept DEF RowsInv
    <2>3. m \in protected
      BY <2>2, OnlyProtectedIsNew
    <2>4. m \in Nat /\ m < m
      BY <2>3, StoreAssumption DEF Settled, Minute
    <2>. QED
      BY <2>4
  <1>. QED
    BY <1>1, RowsInvariant, OwnInvariant, PTL DEF Spec, SettledIsFinal

-----------------------------------------------------------------------------
(* The queue is bounded.                                                   *)

\* What popleft leaves of a queue is its newest BufferRows rows.
LEMMA OverflowLeaves ==
  ASSUME NEW queue, queue \subseteq Minute
  PROVE  Cardinality(queue \ Overflow(queue)) <= BufferRows
  <1>0. MaxMinute \in Nat /\ BufferRows \in Nat /\ queue \subseteq 0 .. MaxMinute
    BY StoreAssumption, RecorderAssumption DEF Minute
  <1>1. ASSUME NEW m \in queue PROVE Cardinality({k \in queue : m < k}) \in Nat
    <2>1. {k \in queue : m < k} \subseteq 0 .. MaxMinute
      BY <1>0
    <2>. QED
      BY <1>0, <2>1, BoundedFinite
  <1>2. queue \ Overflow(queue) = Newest(BufferRows, queue)
    <2>1. \A m \in queue : m \in Overflow(queue) <=> ~(m \in Newest(BufferRows, queue))
      BY <1>0, <1>1 DEF Overflow, Newest
    <2>2. Newest(BufferRows, queue) \subseteq queue
      BY DEF Newest
    <2>. QED
      BY <2>1, <2>2
  <1>. QED
    BY <1>0, <1>2, NewestBounded

\* Some of the rows are no more than all of them.
LEMMA FewerRows ==
  ASSUME NEW rows, rows \subseteq Minute, NEW part, part \subseteq rows,
         Cardinality(rows) <= BufferRows
  PROVE  Cardinality(part) <= BufferRows
  <1>1. MaxMinute \in Nat /\ BufferRows \in Nat /\ rows \subseteq 0 .. MaxMinute
    BY StoreAssumption, RecorderAssumption DEF Minute
  <1>2. /\ Cardinality(rows) \in Nat /\ Cardinality(part) \in Nat
        /\ Cardinality(part) <= Cardinality(rows)
    BY <1>1, BoundedFinite
  <1>. QED
    BY <1>1, <1>2

\* A clock reading leaves the waiting queue within its capacity.
LEMMA AdvanceBounded ==
  ASSUME TypeOK, BufferBounded, NEW t \in Minute, AdvanceTo(t), UNCHANGED protected
  PROVE  BufferBounded'
  <1>1. CASE minuteStart < t /\ minuteStart' = t /\ \E rows \in ClosableRows(t) :
               LET queue == waiting \cup rows
               IN  /\ closed' = closed \cup rows
                   /\ waiting' = queue \ Overflow(queue)
                   /\ dropped' = dropped \cup Overflow(queue)
    <2>1. PICK rows \in ClosableRows(t) :
             waiting' = (waiting \cup rows) \ Overflow(waiting \cup rows)
      BY <1>1
    <2>2. rows \subseteq Minute
      BY StoreAssumption DEF ClosableRows, Minute, TypeOK
    <2>3. waiting \cup rows \subseteq Minute
      BY <2>2 DEF TypeOK
    <2>. QED
      BY <2>1, <2>3, OverflowLeaves DEF BufferBounded
  <1>2. CASE UNCHANGED <<minuteVars, waiting, dropped>>
    BY <1>2 DEF BufferBounded
  <1>. QED
    BY <1>1, <1>2 DEF AdvanceTo

\* Every step keeps the waiting queue and the protected batch within their capacity.
LEMMA NextBounded == TypeOK /\ BufferBounded /\ [Next]_vars => BufferBounded'
  <1>. SUFFICES ASSUME TypeOK, BufferBounded, [Next]_vars PROVE BufferBounded'
    OBVIOUS
  <1>0. waiting \subseteq Minute /\ protected \subseteq Minute /\ {} \subseteq waiting
    BY DEF TypeOK
  <1>1. Cardinality({}) <= BufferRows
    BY <1>0, FewerRows DEF BufferBounded
  <1>2. CASE MqttEvent
    BY <1>2, AdvanceBounded DEF MqttEvent
  <1>3. CASE Tick
    BY <1>3, AdvanceBounded DEF Tick
  <1>4. CASE Claim
    BY <1>1, <1>4 DEF Claim, BufferBounded
  <1>5. CASE Refuse
    <2>1. waiting' = waiting /\ protected' \subseteq protected
      BY <1>5 DEF Refuse
    <2>. QED
      BY <1>0, <2>1, FewerRows DEF BufferBounded
  <1>6. CASE Acknowledge
    BY <1>1, <1>6 DEF Acknowledge, BufferBounded
  <1>7. CASE Restart
    BY <1>1, <1>7 DEF Restart, BufferBounded
  <1>8. CASE \/ Persist \/ WriteFails \/ Maintain \/ RollDone \/ Roll \/ RollFails \/ BackfillSkip
             \/ BackfillBegin \/ Backfill \/ BackfillFails \/ PurgeNothing \/ Purge \/ Resolve
             \/ UNCHANGED vars
    BY <1>8 DEF Persist, WriteFails, Maintain, RollDone, Roll, RollFails, BackfillSkip, BackfillBegin,
                Backfill, BackfillFails, PurgeNothing, Purge, Resolve, vars, queueVars, BufferBounded
  <1>. QED
    BY <1>2, <1>3, <1>4, <1>5, <1>6, <1>7, <1>8 DEF Next, RecorderStep

\* Whatever the clock closes and however long the database is away, at most BufferRows rows
\* wait and at most BufferRows are protected.
THEOREM QueueStaysBounded == Spec => []BufferBounded
  <1>1. Init => BufferBounded
    BY FS_EmptySet, RecorderAssumption DEF Init, BufferBounded
  <1>2. Spec => []TypeOK
    BY TypeCorrect
  <1>. QED
    BY <1>1, <1>2, NextBounded, PTL DEF Spec

-----------------------------------------------------------------------------
(* A completed backfill is complete.                                       *)

\* No transaction makes an hour lack its segments, whatever becomes of its answer.
LEMMA LackingShrinks ==
  ASSUME StoreInv, ScanInv, [Next]_vars
  PROVE  /\ Lacking(db') \subseteq Lacking(db)
         /\ \A s \in inDoubt' : Lacking(s) \subseteq Lacking(db')
  <1>0. IsStore(db) /\ \A s \in inDoubt : Lacking(s) \subseteq Lacking(db)
    BY DEF StoreInv, TypeOK, ScanInv
  <1>1. ASSUME NEW new, Submits(new), Lacking(new) \subseteq Lacking(db)
        PROVE  /\ Lacking(db') \subseteq Lacking(db)
               /\ \A s \in inDoubt' : Lacking(s) \subseteq Lacking(db')
    BY <1>1 DEF Submits
  <1>2. CASE Writes
    BY <1>0, <1>1, <1>2, PersistLacking DEF Writes
  <1>3. CASE Rebuilds
    BY <1>1, <1>3, RebuildLacking DEF Rebuilds
  <1>4. CASE Purges
    BY <1>1, <1>4, PurgeLacking DEF Purges
  <1>5. CASE Resolve
    BY <1>0, <1>5 DEF Resolve
  <1>6. CASE UNCHANGED storeVars
    BY <1>0, <1>6 DEF storeVars
  <1>. QED
    BY <1>2, <1>3, <1>4, <1>5, <1>6, StoreSteps

\* A step of backfill leaves nothing behind it, and reports completion only when nothing
\* is left above it either.
LEMMA BackfillScans ==
  ASSUME StoreInv, ScanInv, Backfill
  PROVE  /\ \A h \in Lacking(db') : scanFrom' <= h
         /\ backfilled' => Lacking(db') = {}
  <1>0. /\ pc = "rebuild" /\ IsStore(db) /\ scanFrom \in Nat
        /\ \A seen \in snap : IsStore(seen) /\ Lacking(db) \subseteq Lacking(seen)
        /\ \A h \in Lacking(db) : scanFrom <= h
    BY DEF Backfill, StoreInv, TypeOK, ScanInv
  <1>1. \A h \in Lacking(db) : h \in Nat /\ h \in RawHours(db) /\ h \in DOMAIN db.rollup /\ BelowRolled(db, h)
    <2>1. \A h \in DOMAIN db.rollup : h \in Nat
      BY <1>0, StoreHours
    <2>. QED
      BY <2>1 DEF Lacking, BelowRolled
  <1>2. CASE NothingToBackfill /\ UNCHANGED <<storeVars, faults, scanFrom>>
    <2>1. Lacking(db) = {}
      BY <1>0, <1>1, <1>2 DEF NothingToBackfill
    <2>. QED
      BY <1>2, <2>1 DEF storeVars
  <1>3. CASE \E seen \in snap, start \in Hour :
             LET hours == BackfillHours(seen, start)
                 full  == Cardinality(hours) = BackfillHoursPerStep
             IN  /\ IsFirstRawHour(db, scanFrom, start)
                 /\ BelowRolled(db, start)
                 /\ Commits(RebuildHours(db, hours))
                 /\ IF full
                    THEN \E last \in hours : (\A h \in hours : h <= last) /\ scanFrom' = last + 1
                    ELSE scanFrom' = start + BackfillScanHours
                 /\ backfilled' = ScanDone(full, start + BackfillScanHours)
    <2>1. PICK seen \in snap, start \in Hour :
             LET hours == BackfillHours(seen, start)
                 full  == Cardinality(hours) = BackfillHoursPerStep
             IN  /\ IsFirstRawHour(db, scanFrom, start)
                 /\ BelowRolled(db, start)
                 /\ Commits(RebuildHours(db, hours))
                 /\ IF full
                    THEN \E last \in hours : (\A h \in hours : h <= last) /\ scanFrom' = last + 1
                    ELSE scanFrom' = start + BackfillScanHours
                 /\ backfilled' = ScanDone(full, start + BackfillScanHours)
      BY <1>3
    <2>. DEFINE found == Unmaterialized(seen, db, start, BackfillScanHours)
                hours == Lowest(BackfillHoursPerStep, found)
                end   == start + BackfillScanHours
    <2>2. BackfillHours(seen, start) = hours
      BY DEF BackfillHours
    <2>3. HourOf(MaxMinute) \in Nat /\ BackfillHoursPerStep \in Nat /\ start \in Nat /\ end \in Nat
      BY StoreAssumption, RecorderAssumption, HourOfNat DEF Hour
    <2>4. found \subseteq 0 .. HourOf(MaxMinute) /\ hours \subseteq found
      BY <1>0 DEF Unmaterialized, IsStore, IsHourTable, Hour, Lowest
    <2>5. Lacking(db') \subseteq Lacking(db) \ hours
      BY <2>1, <2>2, RebuildLacking DEF Commits
    <2>6. ASSUME NEW h \in Lacking(db) PROVE h < end <=> h \in found
      <3>1. start <= h
        BY <1>0, <1>1, <2>1 DEF IsFirstRawHour
      <3>2. h \in (RawHours(seen) \cap DOMAIN seen.rollup) \ DOMAIN seen.activity
        BY <1>0 DEF Lacking
      <3>. QED
        BY <1>1, <3>1, <3>2 DEF Unmaterialized
    <2>7. \A l \in found : l \in Nat /\ l < end
      BY <2>3, <2>4 DEF Unmaterialized
    <2>8. CASE Cardinality(hours) = BackfillHoursPerStep
      <3>1. PICK last \in hours : scanFrom' = last + 1
        BY <2>1, <2>2, <2>8
      <3>2. ~backfilled'
        BY <2>1, <2>2, <2>8 DEF ScanDone
      <3>3. ASSUME NEW h \in Lacking(db') PROVE last < h
        <4>1. h \in Lacking(db) /\ h \notin hours /\ h \in Nat
          BY <1>1, <2>5
        <4>2. CASE h \in found
          <5>. HIDE DEF found
          <5>. QED
            BY <2>3, <2>4, <4>1, <4>2, LowestBelowRest
        <4>3. CASE ~(h < end)
          BY <2>3, <2>4, <2>7, <4>1, <4>3
        <4>. QED
          BY <2>6, <4>1, <4>2, <4>3
      <3>4. last \in Nat
        BY <2>4, <2>7
      <3>5. \A h \in Lacking(db') : h \in Nat
        BY <1>1, <2>5
      <3>. QED
        BY <3>1, <3>2, <3>3, <3>4, <3>5
    <2>9. CASE Cardinality(hours) # BackfillHoursPerStep
      <3>1. hours = found
        <4>. HIDE DEF found
        <4>. QED
          BY <2>3, <2>4, <2>9, LowestShort
      <3>2. scanFrom' = end /\ (backfilled' => ~BelowRolled(db, end))
        BY <2>1, <2>2, <2>9 DEF ScanDone
      <3>3. \A h \in Lacking(db') : h \in Lacking(db) /\ h \in Nat /\ end <= h
        BY <1>1, <2>3, <2>5, <2>6, <3>1
      <3>4. ASSUME NEW h \in Lacking(db') PROVE BelowRolled(db, end)
        BY <1>1, <3>3 DEF BelowRolled
      <3>. QED
        BY <3>2, <3>3, <3>4
    <2>. QED
      BY <2>8, <2>9
  <1>. QED
    BY <1>2, <1>3 DEF Backfill

\* Every step keeps the scan ahead of nothing that lacks segments.
LEMMA NextScan == StoreInv /\ ScanInv /\ [Next]_vars => ScanInv'
  <1>. SUFFICES ASSUME StoreInv, ScanInv, [Next]_vars PROVE ScanInv'
    OBVIOUS
  <1>1. /\ Lacking(db') \subseteq Lacking(db)
        /\ \A s \in inDoubt' : Lacking(s) \subseteq Lacking(db')
    BY LackingShrinks
  <1>2. pc' = "rebuild" => \A seen \in snap' : Lacking(db') \subseteq Lacking(seen)
    BY <1>1, ScanSteps DEF ScanInv
  <1>3. /\ \A h \in Lacking(db') : scanFrom' <= h
        /\ backfilled' => Lacking(db') = {}
    <2>1. CASE UNCHANGED <<scanFrom, backfilled>>
      BY <1>1, <2>1 DEF ScanInv
    <2>2. CASE Backfill
      BY <2>2, BackfillScans
    <2>3. CASE Restart
      <3>1. scanFrom' = 0 /\ ~backfilled' /\ db' = db
        BY <2>3 DEF Restart, storeVars
      <3>2. \A h \in Lacking(db) : h \in Nat
        BY StoreHours DEF Lacking, StoreInv, TypeOK
      <3>. QED
        BY <3>1, <3>2
    <2>. QED
      BY <2>1, <2>2, <2>3, ScanSteps
  <1>. QED
    BY <1>1, <1>2, <1>3 DEF ScanInv

\* The invariant of the scan holds in every behaviour.
LEMMA ScanInvariant == Spec => []ScanInv
  <1>1. Init => ScanInv
    <2>. SUFFICES ASSUME Init PROVE ScanInv
      OBVIOUS
    <2>1. TypeOK
      BY InitType DEF TypeInv
    <2>2. \A h \in Lacking(db) : h \in Nat
      BY <2>1, StoreHours DEF Lacking, TypeOK
    <2>. QED
      BY <2>2 DEF Init, ScanInv
  <1>2. Spec => []StoreInv
    BY StoreInvariant
  <1>. QED
    BY <1>1, <1>2, NextScan, PTL DEF Spec

\* Once the backfill of a process has reported completion, every rolled hour that stores
\* raw minutes has segments, and no later roll, repair or late commit makes one without.
THEOREM BackfillIsComplete == Spec => []BackfilledMeansMaterialized
  <1>1. ScanInv => BackfilledMeansMaterialized
    BY DEF ScanInv, Lacking, BackfilledMeansMaterialized
  <1>. QED
    BY <1>1, ScanInvariant, PTL

-----------------------------------------------------------------------------
(* Purge spares what is not yet written.                                   *)

\* What a clock reading does to the clock and the queue.
LEMMA AdvanceQueue ==
  ASSUME TypeOK, NEW t \in Minute, AdvanceTo(t), UNCHANGED protected
  PROVE  /\ minuteStart <= minuteStart' /\ t <= minuteStart'
         /\ \A m \in waiting' \cup protected' : m \in waiting \cup protected \/ minuteStart <= m
  <1>0. minuteStart \in Nat /\ t \in Nat
    BY StoreAssumption DEF TypeOK, Minute
  <1>1. CASE minuteStart < t /\ minuteStart' = t /\ \E rows \in ClosableRows(t) :
               LET queue == waiting \cup rows
               IN  /\ closed' = closed \cup rows
                   /\ waiting' = queue \ Overflow(queue)
                   /\ dropped' = dropped \cup Overflow(queue)
    <2>1. PICK rows \in ClosableRows(t) :
             waiting' = (waiting \cup rows) \ Overflow(waiting \cup rows)
      BY <1>1
    <2>2. \A m \in rows : minuteStart <= m
      BY <1>0 DEF ClosableRows
    <2>. QED
      BY <1>0, <1>1, <2>1, <2>2
  <1>2. CASE t <= minuteStart /\ UNCHANGED <<minuteVars, waiting, dropped>>
    BY <1>0, <1>2 DEF minuteVars
  <1>. QED
    BY <1>1, <1>2 DEF AdvanceTo

\* Within one process the clock never goes back, and a row joins the queue only from the
\* open minute on.
LEMMA ClockSteps ==
  ASSUME TypeOK, [Next]_vars, ~Restart
  PROVE  /\ minuteStart <= minuteStart'
         /\ \A m \in waiting' \cup protected' : m \in waiting \cup protected \/ minuteStart <= m
  <1>0. minuteStart \in Nat
    BY StoreAssumption DEF TypeOK, Minute
  <1>1. CASE MqttEvent \/ Tick
    BY <1>1, AdvanceQueue DEF MqttEvent, Tick
  <1>2. CASE Claim \/ Refuse \/ Acknowledge
    BY <1>0, <1>2 DEF Claim, Refuse, Acknowledge, minuteVars
  <1>3. CASE \/ Persist \/ WriteFails \/ Maintain \/ RollDone \/ Roll \/ RollFails \/ BackfillSkip
             \/ BackfillBegin \/ Backfill \/ BackfillFails \/ PurgeNothing \/ Purge \/ Resolve
             \/ UNCHANGED vars
    BY <1>0, <1>3 DEF Persist, WriteFails, Maintain, RollDone, Roll, RollFails, BackfillSkip,
                BackfillBegin, Backfill, BackfillFails, PurgeNothing, Purge, Resolve, vars,
                queueVars, minuteVars
  <1>. QED
    BY <1>1, <1>2, <1>3 DEF Next, RecorderStep

\* An hour that was spared by the queue stays spared.
LEMMA SparedForGood ==
  ASSUME TypeOK, TypeOK', [Next]_vars, ~Restart, NEW h \in Hour, Spares(h)
  PROVE  Spares(h)'
  <1>1. /\ minuteStart \in Nat /\ minuteStart' \in Nat /\ minuteStart <= minuteStart'
        /\ h \in Nat /\ \A m \in waiting' \cup protected' : m \in Nat
    BY StoreAssumption, ClockSteps DEF TypeOK, Minute, Hour
  <1>2. /\ HourOf(minuteStart) \in Nat /\ HourOf(minuteStart') \in Nat
        /\ HourOf(minuteStart) <= HourOf(minuteStart')
    BY <1>1, HourOfNat, HourOfMonotone
  <1>3. ASSUME NEW m \in waiting' \cup protected' PROVE h # HourOf(m)
    <2>1. CASE m \in waiting \cup protected
      BY <2>1 DEF Spares
    <2>2. CASE m \notin waiting \cup protected
      <3>1. m \in Nat /\ minuteStart <= m
        BY <1>1, <2>2, ClockSteps
      <3>2. HourOf(m) \in Nat /\ HourOf(minuteStart) <= HourOf(m)
        BY <1>1, <3>1, HourOfNat, HourOfMonotone
      <3>. QED
        BY <1>1, <1>2, <3>2 DEF Spares
    <2>. QED
      BY <2>1, <2>2
  <1>. QED
    BY <1>1, <1>2, <1>3 DEF Spares

\* What the running tick does to its copies.
LEMMA PassSteps ==
  [Next]_vars /\ ~Restart =>
    /\ nowHour' \in {nowHour, 0} \/ Tick
    /\ pc' \in Passing => Maintain \/ (pc \in Passing /\ UNCHANGED <<pending, nowHour>>)
    /\ pc' = "purge" => backfilled' \/ (pc = "purge" /\ UNCHANGED backfilled)
  <1>. SUFFICES ASSUME [Next]_vars, ~Restart
                PROVE  /\ nowHour' \in {nowHour, 0} \/ Tick
                       /\ pc' \in Passing =>
                             Maintain \/ (pc \in Passing /\ UNCHANGED <<pending, nowHour>>)
                       /\ pc' = "purge" => backfilled' \/ (pc = "purge" /\ UNCHANGED backfilled)
    OBVIOUS
  <1>. USE DEF Passing
  <1>1. CASE MqttEvent \/ Tick \/ Resolve \/ UNCHANGED vars
    BY <1>1 DEF MqttEvent, Tick, Resolve, vars, passVars, backfillVars
  <1>2. CASE Claim \/ Persist \/ Refuse \/ WriteFails \/ Acknowledge
    BY <1>2 DEF Claim, Persist, Refuse, WriteFails, Acknowledge, TickEnds, passVars
  <1>3. CASE Maintain \/ RollDone \/ Roll \/ RollFails \/ PurgeNothing \/ Purge
    BY <1>3 DEF Maintain, RollDone, Roll, RollFails, PurgeNothing, Purge, TickEnds, passVars
  <1>4. CASE BackfillSkip \/ BackfillBegin
    BY <1>4 DEF BackfillSkip, BackfillBegin, TickEnds, passVars
  <1>5. CASE Backfill \/ BackfillFails
    BY <1>5 DEF Backfill, BackfillFails, TickEnds, passVars
  <1>. QED
    BY <1>1, <1>2, <1>3, <1>4, <1>5 DEF Next, RecorderStep

\* Every step keeps the copies of the tick on the safe side.
LEMMA NextPass == TypeOK /\ TypeOK' /\ PassInv /\ [Next]_vars => PassInv'
  <1>. SUFFICES ASSUME TypeOK, TypeOK', PassInv, [Next]_vars PROVE PassInv'
    OBVIOUS
  <1>0. /\ minuteStart \in Nat /\ minuteStart' \in Nat /\ nowHour \in Nat
        /\ HourOf(minuteStart) \in Nat /\ HourOf(minuteStart') \in Nat
        /\ \A m \in waiting' \cup protected' : m \in Nat /\ HourOf(m) \in Nat
    <2>1. minuteStart \in Nat /\ minuteStart' \in Nat /\ nowHour \in Nat
      BY StoreAssumption DEF TypeOK, Minute, Hour
    <2>2. \A m \in waiting' \cup protected' : m \in Nat
      BY StoreAssumption DEF TypeOK, Minute
    <2>. QED
      BY <2>1, <2>2, HourOfNat
  <1>1. CASE Restart
    BY <1>0, <1>1 DEF Restart, PassInv, Passing
  <1>2. CASE ~Restart
    <2>1. HourOf(minuteStart) <= HourOf(minuteStart')
      BY <1>0, <1>2, ClockSteps, HourOfMonotone
    <2>2. nowHour' <= HourOf(minuteStart')
      <3>1. CASE nowHour' \in {nowHour, 0}
        BY <1>0, <2>1, <3>1 DEF PassInv
      <3>2. CASE Tick
        <4>1. PICK now \in Minute : AdvanceTo(now) /\ nowHour' = HourOf(now)
          BY <3>2 DEF Tick
        <4>2. now \in Nat /\ now <= minuteStart'
          BY <3>2, <4>1, StoreAssumption, AdvanceQueue DEF Tick, Minute
        <4>. QED
          BY <1>0, <4>1, <4>2, HourOfMonotone
      <3>. QED
        BY <1>2, <3>1, <3>2, PassSteps
    <2>3. ASSUME pc' \in Passing, NEW m \in waiting' \cup protected'
          PROVE  m \in pending' \/ nowHour' <= HourOf(m)
      <3>1. CASE Maintain
        BY <2>3, <3>1 DEF Maintain, queueVars
      <3>2. CASE pc \in Passing /\ UNCHANGED <<pending, nowHour>>
        <4>1. CASE m \in waiting \cup protected
          BY <3>2, <4>1 DEF PassInv
        <4>2. CASE m \notin waiting \cup protected
          <5>1. HourOf(minuteStart) <= HourOf(m)
            BY <1>0, <1>2, <2>3, <4>2, ClockSteps, HourOfMonotone
          <5>. QED
            BY <1>0, <2>3, <3>2, <5>1 DEF PassInv
        <4>. QED
          BY <4>1, <4>2
      <3>. QED
        BY <1>2, <2>3, <3>1, <3>2, PassSteps
    <2>4. pc' = "purge" => backfilled'
      BY <1>2, PassSteps DEF PassInv
    <2>. QED
      BY <2>2, <2>3, <2>4 DEF PassInv
  <1>. QED
    BY <1>1, <1>2

\* The invariant of the tick's copies holds in every behaviour.
LEMMA PassInvariant == Spec => []PassInv
  <1>1. Init => PassInv
    <2>. SUFFICES ASSUME Init PROVE PassInv
      OBVIOUS
    <2>1. HourOf(minuteStart) \in Nat
      BY HourOfNat, StoreAssumption DEF Init, Minute
    <2>. QED
      BY <2>1 DEF Init, PassInv, Passing
  <1>2. Spec => []TypeOK
    BY TypeCorrect
  <1>. QED
    BY <1>1, <1>2, NextPass, PTL DEF Spec

\* What a purge step would delete now is spared by the queue and by the clock.
LEMMA PurgeSpares ==
  ASSUME TypeOK, PassInv, pc = "purge", NEW h \in PurgeRange
  PROVE  Spares(h)
  <1>1. /\ h \in Nat /\ nowHour \in Nat /\ HourOf(minuteStart) \in Nat
        /\ \A m \in waiting \cup protected : HourOf(m) \in Nat
    <2>1. /\ h \in Nat /\ nowHour \in Nat /\ minuteStart \in Nat
          /\ \A m \in waiting \cup protected : m \in Nat
      BY StoreAssumption DEF TypeOK, Minute, Hour, PurgeRange
    <2>. QED
      BY <2>1, HourOfNat
  <1>2. h < nowHour /\ \A m \in pending : h < HourOf(m)
    BY <1>1, RecorderAssumption DEF PurgeRange, BelowCutoff
  <1>3. ASSUME NEW m \in waiting \cup protected PROVE h # HourOf(m)
    BY <1>1, <1>2 DEF PassInv, Passing
  <1>. QED
    BY <1>1, <1>2, <1>3 DEF PassInv, Spares

\* Every step keeps what a transaction in doubt would purge spared.
LEMMA NextDoubt ==
  StoreInv /\ TypeOK' /\ PassInv /\ DoubtInv /\ [Next]_vars => DoubtInv'
  <1>. SUFFICES ASSUME StoreInv, TypeOK', PassInv, DoubtInv, [Next]_vars,
                       backfilled', NEW s \in inDoubt', NEW h \in PurgedHours(s) \ PurgedHours(db')
                PROVE  Spares(h)'
    BY DEF DoubtInv
  <1>0. TypeOK /\ ~Restart
    BY DEF StoreInv, Restart
  <1>1. CASE Writes \/ Rebuilds
    <2>1. PICK new : Submits(new) /\ PurgedHours(new) = PurgedHours(db)
      BY <1>1, LedgerSteps
    <2>. QED
      BY <2>1 DEF Submits
  <1>2. CASE Purges
    <2>1. PICK new : /\ Submits(new)
                     /\ PurgedHours(new) \subseteq PurgedHours(db) \cup (PurgeRange \cap RawHours(db))
      BY <1>2, LedgerSteps
    <2>2. h \in PurgeRange /\ pc = "purge"
      BY <1>2, <2>1 DEF Submits, Purges
    <2>3. h \in Hour /\ Spares(h)
      BY <1>0, <2>2, PurgeSpares DEF PurgeRange
    <2>. QED
      BY <1>0, <2>3, SparedForGood
  <1>3. CASE Resolve
    BY <1>3 DEF Resolve
  <1>4. CASE UNCHANGED storeVars
    <2>1. CASE Backfill
      BY <1>4, <2>1 DEF Backfill, Unlocked, Commits, storeVars
    <2>2. CASE ~Backfill
      <3>1. backfilled /\ s \in inDoubt /\ h \in PurgedHours(s) \ PurgedHours(db)
        BY <1>0, <1>4, <2>2, ScanSteps DEF storeVars
      <3>2. h \in Hour
        BY <1>0, <3>1, StoreHours DEF TypeOK, PurgedHours
      <3>. QED
        BY <1>0, <3>1, <3>2, SparedForGood DEF DoubtInv
    <2>. QED
      BY <2>1, <2>2
  <1>. QED
    BY <1>1, <1>2, <1>3, <1>4, StoreSteps

\* No purge of a process, also one that commits after the process stopped waiting for it
\* and has closed and queued more minutes, deletes an hour that a queued row or a minute
\* still to be closed can enter (purge_step with _maintain's copies, Storage.session).
THEOREM PurgeIsSafe == Spec => PurgeSparesUnwritten
  <1>1. Init => DoubtInv
    BY DEF Init, DoubtInv
  <1>2. Spec => [](StoreInv /\ TypeOK /\ PassInv)
    BY StoreInvariant, TypeCorrect, PassInvariant, PTL
  <1>3. Spec => [](StoreInv /\ PassInv /\ DoubtInv)
    BY <1>1, <1>2, NextDoubt, PTL DEF Spec
  <1>4. StoreInv /\ PassInv /\ DoubtInv /\ [Next]_vars =>
          [\A h \in (PurgedHours(db') \ PurgedHours(db)) :
              backfilled => /\ h < HourOf(minuteStart)
                            /\ \A m \in waiting \cup protected : h # HourOf(m)]_vars
    <2>. SUFFICES ASSUME StoreInv, PassInv, DoubtInv, [Next]_vars, backfilled,
                         NEW h \in PurgedHours(db') \ PurgedHours(db)
                  PROVE  Spares(h)
      BY DEF Spares
    <2>1. CASE Writes \/ Rebuilds
      <3>1. PICK new : Submits(new) /\ PurgedHours(new) = PurgedHours(db)
        BY <2>1, LedgerSteps
      <3>. QED
        BY <3>1 DEF Submits
    <2>2. CASE Purges
      <3>1. h \in PurgeRange
        BY <2>2, LedgerSteps DEF Submits
      <3>. QED
        BY <2>2, <3>1, PurgeSpares DEF StoreInv, Purges
    <2>3. CASE Resolve
      BY <2>3 DEF Resolve, DoubtInv
    <2>4. CASE UNCHANGED storeVars
      BY <2>4 DEF storeVars
    <2>. QED
      BY <2>1, <2>2, <2>3, <2>4, StoreSteps
  <1>. QED
    BY <1>3, <1>4, PTL DEF Spec, PurgeSparesUnwritten

-----------------------------------------------------------------------------
(* The recorder implements the history ledger: its tables, transactions,   *)
(* lost answers and restarts show a reader nothing but rows being recorded *)
(* outside sealed hours and hours being sealed.                            *)

\* A reader who saw store s and then t has seen rows being recorded.
Recording(s, t) ==
    \E rows \in SUBSET Minute, p \in Process :
        /\ Records(s, t, rows, p)
        /\ HoursOf(rows) \cap PurgedHours(s) = {}
        /\ PurgedHours(t) = PurgedHours(s)

\* A reader who saw store s and then t has seen hours being sealed, possibly none.
Sealing(s, t) ==
    /\ Ledger(t) = Ledger(s)
    /\ PurgedHours(s) \subseteq PurgedHours(t)
    /\ PurgedHours(t) \subseteq PurgedHours(s) \cup RawHours(s)

LedgerStep(s, t) == Recording(s, t) \/ Sealing(s, t)

\* Whatever the server decides about a transaction in doubt, a reader sees one ledger step.
DoubtIsStep == \A s \in inDoubt : LedgerStep(db, s)

\* Every transaction is one ledger step.
LEMMA TransactionIsStep ==
  ASSUME StoreInv, Writes \/ Rebuilds \/ Purges
  PROVE  \E new : Submits(new) /\ LedgerStep(db, new)
  <1>1. CASE Writes
    <2>1. PICK new : /\ Submits(new) /\ PurgedHours(new) = PurgedHours(db)
                     /\ Records(db, new, protected, proc)
      BY <1>1, LedgerSteps
    <2>2. protected \in SUBSET Minute /\ proc \in Process /\ IsStore(db)
      BY DEF StoreInv, TypeOK
    <2>3. HoursOf(protected) \cap PurgedHours(db) = {}
      BY <1>1, <2>2, PersistOutside DEF Writes
    <2>. QED
      BY <2>1, <2>2, <2>3 DEF LedgerStep, Recording
  <1>2. CASE Rebuilds
    BY <1>2, LedgerSteps DEF LedgerStep, Sealing
  <1>3. CASE Purges
    BY <1>3, LedgerSteps DEF LedgerStep, Sealing
  <1>. QED
    BY <1>1, <1>2, <1>3

\* Every step of the recorder is a ledger step on db, and keeps what is in doubt one.
LEMMA StoreTakesLedgerSteps ==
  ASSUME StoreInv, DoubtIsStep, [Next]_vars
  PROVE  (db' = db \/ LedgerStep(db, db')) /\ DoubtIsStep'
  <1>1. CASE Writes \/ Rebuilds \/ Purges
    <2>1. PICK new : Submits(new) /\ LedgerStep(db, new)
      BY <1>1, TransactionIsStep
    <2>2. CASE db' = new /\ inDoubt' = {}
      BY <2>1, <2>2 DEF DoubtIsStep
    <2>3. CASE db' = db /\ inDoubt' = {new}
      BY <2>1, <2>3 DEF DoubtIsStep
    <2>. QED
      BY <2>1, <2>2, <2>3 DEF Submits
  <1>2. CASE Resolve
    BY <1>2 DEF Resolve, DoubtIsStep
  <1>3. CASE UNCHANGED storeVars
    BY <1>3 DEF storeVars, DoubtIsStep
  <1>. QED
    BY <1>1, <1>2, <1>3, StoreSteps

\* What the ledger of a store holds.
LEMMA LedgerType ==
  ASSUME NEW s, IsStore(s), StoreConsistent(s)
  PROVE  /\ DOMAIN Ledger(s) = RecordedMinutes(s)
         /\ DOMAIN Ledger(s) \subseteq Minute
         /\ \A m \in DOMAIN Ledger(s) : Ledger(s)[m] \in Process
         /\ PurgedHours(s) \cup RawHours(s) \subseteq {HourOf(m) : m \in DOMAIN Ledger(s)}
  <1>1. DOMAIN Ledger(s) = RecordedMinutes(s)
    BY DEF Ledger
  <1>2. \A m \in DOMAIN Ledger(s) : m \in Minute /\ Ledger(s)[m] \in Process
    BY <1>1, RecordedType DEF Ledger
  <1>3. ASSUME NEW h \in PurgedHours(s) \cup RawHours(s)
        PROVE  \E m \in RecordedMinutes(s) : h = HourOf(m)
    <2>1. CASE h \in RawHours(s)
      BY <2>1 DEF RawHours, HoursOf, RecordedMinutes
    <2>2. CASE h \in PurgedHours(s)
      <3>1. PICK m \in DOMAIN s.rollup[h] : HourOf(m) = h
        BY <2>2 DEF StoreConsistent, PurgedEvidenceWhole
      <3>. QED
        BY <2>2, <3>1 DEF RecordedMinutes
    <2>. QED
      BY <1>3, <2>1, <2>2
  <1>. QED
    BY <1>1, <1>2, <1>3

\* An initial store shows an initial ledger.
LEMMA InitIsLedgerInit == Init => History!Init
  <1>. SUFFICES ASSUME Init PROVE History!Init
    OBVIOUS
  <1>1. IsStore(db) /\ StoreConsistent(db)
    BY InitType, InitStores DEF TypeInv, TypeOK, StoresConsistent
  <1>. QED
    BY <1>1, LedgerType DEF History!Init, History!RecordedHours

\* A ledger step on db is a step of the ledger.
LEMMA StepIsLedgerNext ==
  ASSUME StoreInv, StoreInv', LedgerStep(db, db')
  PROVE  History!Next
  <1>0. /\ IsStore(db) /\ StoreConsistent(db)
        /\ IsStore(db') /\ StoreConsistent(db')
    BY DEF StoreInv, TypeOK, StoresConsistent
  <1>1. CASE Recording(db, db')
    <2>1. PICK rows \in SUBSET Minute, p \in Process :
             /\ Records(db, db', rows, p)
             /\ HoursOf(rows) \cap PurgedHours(db) = {}
             /\ PurgedHours(db') = PurgedHours(db)
      BY <1>1 DEF Recording
    <2>2. /\ DOMAIN Ledger(db') = rows \cup DOMAIN Ledger(db)
          /\ \A m \in rows : Ledger(db')[m] = p
          /\ \A m \in DOMAIN Ledger(db) \ rows : Ledger(db')[m] = Ledger(db)[m]
      BY <2>1 DEF Records, Over
    <2>3. \A m \in rows : HourOf(m) \notin PurgedHours(db)
      BY <2>1 DEF HoursOf
    <2>4. \A m \in History!Changed : m \in rows
      BY <2>2 DEF History!Changed
    <2>5. DOMAIN Ledger(db') \subseteq Minute
      BY <1>0, LedgerType
    <2>. QED
      BY <2>1, <2>2, <2>3, <2>4, <2>5 DEF History!Next, History!Record
  <1>2. CASE Sealing(db, db')
    BY <1>0, <1>2, LedgerType DEF Sealing, History!Next, History!Seal, History!RecordedHours
  <1>. QED
    BY <1>1, <1>2 DEF LedgerStep

\* The recorder implements the ledger: nothing recorded is lost by a rebuild, a purge, a
\* lost answer or a restart, an hour counts as purged only once its evidence is whole, and
\* from then on nothing is recorded in it.
THEOREM RecorderImplementsLedger == Spec => ImplementsLedger
  <1>1. Init => DoubtIsStep
    BY DEF Init, DoubtIsStep
  <1>2. Spec => []StoreInv
    BY StoreInvariant
  <1>3. StoreInv /\ DoubtIsStep /\ [Next]_vars => DoubtIsStep'
    BY StoreTakesLedgerSteps
  <1>4. Spec => [](StoreInv /\ DoubtIsStep)
    BY <1>1, <1>2, <1>3, PTL DEF Spec
  <1>5. StoreInv /\ StoreInv' /\ DoubtIsStep /\ [Next]_vars => [History!Next]_History!ledgerVars
    <2>. SUFFICES ASSUME StoreInv, StoreInv', DoubtIsStep, [Next]_vars
                  PROVE  [History!Next]_History!ledgerVars
      OBVIOUS
    <2>1. CASE db' = db
      BY <2>1 DEF History!ledgerVars
    <2>2. CASE LedgerStep(db, db')
      BY <2>2, StepIsLedgerNext
    <2>. QED
      BY <2>1, <2>2, StoreTakesLedgerSteps
  <1>6. Spec => History!Init
    BY InitIsLedgerInit DEF Spec
  <1>7. Spec => [][History!Next]_History!ledgerVars
    BY <1>4, <1>5, PTL DEF Spec
  <1>. QED
    BY <1>6, <1>7 DEF ImplementsLedger, History!Spec
=============================================================================
