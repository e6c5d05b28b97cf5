--------------------------- MODULE RecorderProofs ---------------------------
(***************************************************************************)
(* Theorems about the recorder for every value of its constants.           *)
(***************************************************************************)
EXTENDS Recorder, HistoryStoreProofs

-----------------------------------------------------------------------------
(* Type correctness.                                                       *)

\* The loop over closed hours has budget left while it runs: what makes TypeOK inductive.
RollBudget == pc = "roll" => rolls < RollHoursPerTick
TypeInv == TypeOK /\ RollBudget

\* An earlier release's store is a store.
LEMMA LegacyStoreType ==
  ASSUME NEW recorded, recorded \subseteq Minute, NEW oldest
  PROVE  IsStore(LegacyStore(recorded, oldest))
  <1>1. HoursOf(recorded) \subseteq Hour
    BY HoursOfMinutes
  <1> QED BY <1>1, StoreAssumption DEF LegacyStore, IsStore, IsHourTable, IsRows, Process

\* Type correctness holds initially.
LEMMA InitType == Init => TypeInv
  <1>. SUFFICES ASSUME Init PROVE TypeInv
    OBVIOUS
  <1>1. PICK recorded \in SUBSET {m \in Minute : HourOf(m) < LegacyHours}, oldest \in Hour :
           db = LegacyStore(recorded, oldest)
    BY DEF Init
  <1>3. IsStore(db)
    BY <1>1, LegacyStoreType
  <1>2. 0 \in Hour
    BY StoreAssumption, HourOfNat DEF Hour
  <1>4. schemaReady \in BOOLEAN /\ backfilled \in BOOLEAN /\ backfillHeld \in BOOLEAN
    BY Zenon DEF Init
  <1>. QED
    BY <1>2, <1>3, <1>4, StoreAssumption, RecorderAssumption DEF Init, TypeInv, TypeOK, RollBudget, Process, PC

\* A step that only closes minutes.
LEMMA AdvanceType ==
  ASSUME TypeOK, NEW t \in Minute, AdvanceTo(t)
  PROVE  /\ minuteStart' \in Minute
         /\ closed' \subseteq Minute /\ waiting' \subseteq Minute /\ dropped' \subseteq Minute
  <1>1. CASE minuteStart < t /\ minuteStart' = t /\ \E rows \in ClosableRows(t) :
               LET queue == waiting \cup rows
               IN  /\ closed' = closed \cup rows
                   /\ waiting' = queue \ Overflow(queue)
                   /\ dropped' = dropped \cup Overflow(queue)
    <2>1. PICK rows \in ClosableRows(t) :
             /\ closed' = closed \cup rows
             /\ waiting' = (waiting \cup rows) \ Overflow(waiting \cup rows)
             /\ dropped' = dropped \cup Overflow(waiting \cup rows)
      BY <1>1
    <2>2. rows \subseteq Minute
      BY StoreAssumption DEF ClosableRows, Minute, TypeOK
    <2>3. Overflow(waiting \cup rows) \subseteq waiting \cup rows
      BY DEF Overflow
    <2>. QED
      BY <1>1, <2>1, <2>2, <2>3 DEF TypeOK
  <1>2. CASE UNCHANGED <<minuteVars, waiting, dropped>>
    BY <1>2 DEF TypeOK, minuteVars
  <1>. QED
    BY <1>1, <1>2 DEF AdvanceTo

\* A transaction, acknowledged or not, leaves stores in db and inDoubt.
LEMMA CommitsType ==
  ASSUME TypeOK, NEW new, IsStore(new), Commits(new) \/ AckLost(new) \/ Unavailable
  PROVE  /\ IsStore(db')
         /\ \A s \in inDoubt' : IsStore(s)
         /\ \A s, t \in inDoubt' : s = t
         /\ faults' \in 0 .. MaxFaults
  BY RecorderAssumption DEF TypeOK, Commits, AckLost, Unavailable, Unlocked, storeVars

\* What backfill picks are rolled hours of its snapshot.
LEMMA BackfillHoursInHour ==
  ASSUME NEW seen, IsStore(seen), NEW start
  PROVE  BackfillHours(seen, start) \subseteq Hour
  BY DEF BackfillHours, Lowest, Unmaterialized, IsStore, IsHourTable

\* Every step keeps type correctness.
LEMMA NextType == TypeInv /\ [Next]_vars => TypeInv'
  <1>. SUFFICES ASSUME TypeOK, RollBudget, [Next]_vars PROVE TypeOK' /\ RollBudget'
    BY DEF TypeInv
  <1>. USE DEF PC
  <1>0. 0 \in Hour
    BY StoreAssumption, HourOfNat DEF Hour
  <1>1. CASE MqttEvent
    BY <1>1, AdvanceType DEF MqttEvent, TypeOK, RollBudget, storeVars, minuteVars, passVars, backfillVars
  <1>2. CASE Tick
    BY <1>2, AdvanceType, HourOfMinute DEF Tick, TypeOK, RollBudget, storeVars, minuteVars, backfillVars
  <1>3. CASE Claim
    BY <1>3 DEF Claim, TypeOK, RollBudget, storeVars, minuteVars, passVars, backfillVars
  <1>4. CASE Persist
    <2>1. IsStore(Persisted(db, protected, proc))
      BY PersistedType DEF TypeOK
    <2>2. /\ IsStore(db')
          /\ \A s \in inDoubt' : IsStore(s)
          /\ \A s, t \in inDoubt' : s = t
          /\ faults' \in 0 .. MaxFaults
      BY <1>4, <2>1, CommitsType DEF Persist, TypeOK, storeVars
    <2>. QED
      BY <1>4, <2>2 DEF Persist, TypeOK, RollBudget, minuteVars, queueVars, passVars, backfillVars
  <1>5. CASE Refuse
    BY <1>5 DEF Refuse, TypeOK, RollBudget, storeVars, minuteVars, passVars, backfillVars
  <1>6. CASE WriteFails
    <2>1. IsStore(Persisted(db, protected, proc))
      BY PersistedType DEF TypeOK
    <2>2. /\ IsStore(db')
          /\ \A s \in inDoubt' : IsStore(s)
          /\ \A s, t \in inDoubt' : s = t
          /\ faults' \in 0 .. MaxFaults
      BY <1>6, <2>1, CommitsType DEF WriteFails
    <2>3. schemaReady' \in BOOLEAN
      BY <1>6 DEF WriteFails, TypeOK
    <2>. QED
      BY <1>0, <1>6, <2>2, <2>3, RecorderAssumption
         DEF WriteFails, TickEnds, TypeOK, RollBudget, minuteVars, queueVars, backfillVars
  <1>7. CASE Acknowledge
    BY <1>7 DEF Acknowledge, TypeOK, RollBudget, storeVars, minuteVars, passVars, backfillVars
  <1>8. CASE Maintain
    BY <1>8, HourOfMinute, RecorderAssumption
       DEF Maintain, TypeOK, RollBudget, storeVars, minuteVars, queueVars, backfillVars
  <1>9. CASE RollDone
    BY <1>9 DEF RollDone, RollKey, TypeOK, RollBudget, storeVars, minuteVars, queueVars, passVars, backfillVars
  <1>10. CASE Roll
    <2>1. PICK h \in Hour : Commits(RebuildHours(db, {h}))
      BY <1>10 DEF Roll
    <2>2. IsStore(RebuildHours(db, {h}))
      BY RebuildType DEF TypeOK
    <2>3. /\ IsStore(db')
          /\ \A s \in inDoubt' : IsStore(s)
          /\ \A s, t \in inDoubt' : s = t
          /\ faults' \in 0 .. MaxFaults
      BY <2>1, <2>2, CommitsType
    <2>4. rolls' \in 0 .. RollHoursPerTick /\ (pc' = "roll" => rolls' < RollHoursPerTick)
      BY <1>10, RecorderAssumption DEF Roll, TypeOK, RollBudget
    <2>. QED
      BY <1>10, <2>3, <2>4 DEF Roll, TypeOK, RollBudget, minuteVars, queueVars, backfillVars
  <1>11. CASE RollFails
    <2>1. PICK h \in Hour : AckLost(RebuildHours(db, {h})) \/ Unavailable
      BY <1>0, <1>11 DEF RollFails
    <2>3. IsStore(RebuildHours(db, {h}))
      BY RebuildType DEF TypeOK
    <2>2. /\ IsStore(db')
          /\ \A s \in inDoubt' : IsStore(s)
          /\ \A s, t \in inDoubt' : s = t
          /\ faults' \in 0 .. MaxFaults
      BY <2>1, <2>3, CommitsType
    <2>. QED
      BY <1>11, <2>2 DEF RollFails, TypeOK, RollBudget, minuteVars, queueVars, passVars, backfillVars
  <1>12. CASE BackfillSkip
    <2>1. backfillHeld' \in BOOLEAN
      BY <1>12, Zenon DEF BackfillSkip
    <2>2. CASE backfilled
      BY <1>12, <2>1, <2>2
         DEF BackfillSkip, TypeOK, RollBudget, storeVars, minuteVars, queueVars, passVars
    <2>3. CASE ~backfilled
      BY <1>0, <1>12, <2>1, <2>3, RecorderAssumption
         DEF BackfillSkip, TickEnds, TypeOK, RollBudget, storeVars, minuteVars, queueVars
    <2>. QED
      BY <2>2, <2>3
  <1>13. CASE BackfillBegin
    BY <1>13 DEF BackfillBegin, TypeOK, RollBudget, storeVars, minuteVars, queueVars, passVars
  <1>14. CASE Backfill
    <2>1. CASE Unlocked /\ NothingToBackfill /\ backfilled' = TRUE /\ UNCHANGED <<storeVars, faults, scanFrom>>
      BY <1>0, <1>14, <2>1, RecorderAssumption
         DEF Backfill, TickEnds, TypeOK, RollBudget, storeVars, minuteVars, queueVars, passVars
    <2>2. CASE \E seen \in snap, start \in Hour :
                 LET hours == BackfillHours(seen, start)
                     full  == Cardinality(hours) = BackfillHoursPerStep
                 IN  /\ IsFirstRawHour(db, scanFrom, start)
                     /\ BelowRolled(db, start)
                     /\ Commits(RebuildHours(db, hours))
                     /\ IF full
                        THEN \E last \in hours : (\A h \in hours : h <= last) /\ scanFrom' = last + 1
                        ELSE scanFrom' = start + BackfillScanHours
                     /\ backfilled' = ScanDone(full, start + BackfillScanHours)
      <3>1. PICK seen \in snap, start \in Hour :
               /\ Commits(RebuildHours(db, BackfillHours(seen, start)))
               /\ \/ \E last \in BackfillHours(seen, start) : scanFrom' = last + 1
                  \/ scanFrom' = start + BackfillScanHours
               /\ backfilled' \in BOOLEAN
        BY <2>2 DEF ScanDone
      <3>2. BackfillHours(seen, start) \subseteq Hour
        BY BackfillHoursInHour DEF TypeOK
      <3>3. /\ IsStore(db')
            /\ \A s \in inDoubt' : IsStore(s)
            /\ \A s, t \in inDoubt' : s = t
            /\ faults' \in 0 .. MaxFaults
        BY <3>1, <3>2, CommitsType, RebuildType DEF TypeOK
      <3>4. scanFrom' \in Nat
        BY <3>1, <3>2, StoreAssumption, RecorderAssumption, HourOfNat DEF Hour
      <3>. QED
        BY <1>0, <1>14, <3>1, <3>3, <3>4, RecorderAssumption
           DEF Backfill, TickEnds, TypeOK, RollBudget, minuteVars, queueVars, passVars
    <2>. QED
      BY <1>14, <2>1, <2>2 DEF Backfill
  <1>15. CASE BackfillFails
    <2>1. PICK hours \in SUBSET Hour : AckLost(RebuildHours(db, hours)) \/ Unavailable
      BY <1>15, BackfillHoursInHour DEF BackfillFails, TypeOK
    <2>2. /\ IsStore(db')
          /\ \A s \in inDoubt' : IsStore(s)
          /\ \A s, t \in inDoubt' : s = t
          /\ faults' \in 0 .. MaxFaults
      BY <2>1, CommitsType, RebuildType DEF TypeOK
    <2>. QED
      BY <1>0, <1>15, <2>2, RecorderAssumption
         DEF BackfillFails, TickEnds, TypeOK, RollBudget, minuteVars, queueVars
  <1>16. CASE PurgeNothing
    BY <1>0, <1>16, RecorderAssumption
       DEF PurgeNothing, TickEnds, TypeOK, RollBudget, storeVars, minuteVars, queueVars, backfillVars
  <1>17. CASE Purge
    <2>1. /\ IsStore(db')
          /\ \A s \in inDoubt' : IsStore(s)
          /\ \A s, t \in inDoubt' : s = t
          /\ faults' \in 0 .. MaxFaults
      BY <1>17, CommitsType, RawDeletedType DEF Purge, TypeOK
    <2>. QED
      BY <1>0, <1>17, <2>1, RecorderAssumption
         DEF Purge, TickEnds, TypeOK, RollBudget, minuteVars, queueVars, backfillVars
  <1>18. CASE Resolve
    BY <1>18 DEF Resolve, TypeOK, RollBudget, minuteVars, queueVars, passVars, backfillVars
  <1>19. CASE Restart
    <2>1. schemaReady' \in BOOLEAN /\ backfilled' \in BOOLEAN /\ backfillHeld' \in BOOLEAN
      BY <1>19, Zenon DEF Restart
    <2>. QED
      BY <1>0, <1>19, <2>1, StoreAssumption, RecorderAssumption DEF Restart, TypeOK, RollBudget, storeVars, Process
  <1>20. CASE UNCHANGED vars
    BY <1>20 DEF vars, TypeOK, RollBudget, storeVars, minuteVars, queueVars, passVars, backfillVars
  <1>. QED
    BY <1>1, <1>2, <1>3, <1>4, <1>5, <1>6, <1>7, <1>8, <1>9, <1>10, <1>11, <1>12, <1>13, <1>14,
       <1>15, <1>16, <1>17, <1>18, <1>19, <1>20 DEF Next, RecorderStep

\* Type correctness of the recorder, for every value of the constants.
THEOREM TypeCorrect == Spec => []TypeOK
  <1>1. Spec => []TypeInv
    BY InitType, NextType, PTL DEF Spec
  <1>2. TypeInv => TypeOK
    BY DEF TypeInv
  <1>. QED
    BY <1>1, <1>2, PTL

-----------------------------------------------------------------------------
(* Consistency of the stores.                                              *)

\* "to" still stores the raw minutes of every hour of "from" that has no segments: what
\* the purge proof guarantees of the one transaction that deletes.
KeepsUnproven(from, to) ==
    \A h \in RawHours(from) \ DOMAIN from.activity : h \in RawHours(to)

\* What a backfill step may rely on when it uses a snapshot older than its lock: only an
\* unanswered transaction of this recorder can have committed since, and at most one.
SnapshotSafe ==
    /\ \A s \in inDoubt : KeepsUnproven(db, s)
    /\ pc = "rebuild" =>
          \A seen \in snap : (inDoubt = {} \/ seen = db) /\ KeepsUnproven(seen, db)
StoreInv == TypeOK /\ StoresConsistent /\ SnapshotSafe

\* Rebuilding and upserting delete no raw minute.
LEMMA RebuildKeeps ==
  ASSUME NEW s, NEW hours
  PROVE  KeepsUnproven(s, RebuildHours(s, hours))
  BY DEF KeepsUnproven, RebuildHours, RawHours

\* persist deletes no raw minute.
LEMMA PersistKeeps ==
  ASSUME NEW s, NEW rows, NEW p
  PROVE  KeepsUnproven(s, Persisted(s, rows, p))
  BY DEF KeepsUnproven, Persisted, RebuildHours, Upserted, Over, RawHours, HoursOf

\* purge_step keeps every raw hour without segments: it cannot prove it.
LEMMA PurgeKeeps ==
  ASSUME NEW s, NEW hours, \A h \in hours : HourProven(s, h)
  PROVE  KeepsUnproven(s, RawDeleted(s, hours))
  BY DEF KeepsUnproven, HourProven, RawDeleted, RawHours, HoursOf

\* The hours a backfill step picks store raw minutes and are below rolled_until.
LEMMA BackfillTargets ==
  ASSUME StoreInv, pc = "rebuild", NEW seen \in snap, NEW start
  PROVE  /\ BackfillHours(seen, start) \subseteq RawHours(db)
         /\ \A h \in BackfillHours(seen, start) : BelowRolled(db, h)
  BY DEF StoreInv, SnapshotSafe, KeepsUnproven, BackfillHours, Lowest, Unmaterialized

\* A store of an earlier release is consistent: it has no segments, and its raw minutes
\* are a suffix of the rolled hours.
LEMMA LegacyStoreConsistent ==
  ASSUME NEW recorded, recorded \subseteq Minute, NEW oldest
  PROVE  StoreConsistent(LegacyStore(recorded, oldest))
  <1>. DEFINE s == LegacyStore(recorded, oldest)
              hours == HoursOf(recorded)
  <1>1. /\ DOMAIN s.raw = {k \in recorded : oldest <= HourOf(k)}
        /\ \A m \in DOMAIN s.raw : s.raw[m] = 0
        /\ s.rollup = [h \in hours |-> [m \in {k \in recorded : HourOf(k) = h} |-> 0]]
        /\ DOMAIN s.activity = {}
    BY DEF LegacyStore
  <1>. HIDE DEF s
  <1>2. RawHours(s) \subseteq hours
    BY <1>1 DEF RawHours, HoursOf
  <1>3. ASSUME NEW h \in RawHours(s) PROVE s.rollup[h] = HourRows(s, h)
    <2>1. oldest <= h
      BY <1>1 DEF RawHours, HoursOf
    <2>2. RawMinutes(s, h) = {k \in recorded : HourOf(k) = h}
      BY <1>1, <2>1 DEF RawMinutes
    <2>3. HourRows(s, h) = [m \in {k \in recorded : HourOf(k) = h} |-> 0]
      BY <1>1, <2>2 DEF HourRows, RawMinutes
    <2>. QED
      BY <1>1, <1>2, <2>3
  <1>4. DerivedMatchesRaw(s)
    BY <1>1, <1>3 DEF DerivedMatchesRaw
  <1>5. RolledContiguous(s)
    BY <1>1, <1>2 DEF RolledContiguous
  <1>6. PurgedEvidenceWhole(s)
    <2>. SUFFICES ASSUME NEW h \in hours
                  PROVE  DOMAIN s.rollup[h] # {} /\ \A m \in DOMAIN s.rollup[h] : HourOf(m) = h
      BY <1>1 DEF PurgedEvidenceWhole, PurgedHours
    <2>1. DOMAIN s.rollup[h] = {k \in recorded : HourOf(k) = h}
      BY <1>1
    <2>. QED
      BY <2>1 DEF hours, HoursOf
  <1>7. SegmentsAreRolled(s)
    BY <1>1 DEF SegmentsAreRolled
  <1>. QED
    BY <1>4, <1>5, <1>6, <1>7 DEF StoreConsistent, s

\* The stores are consistent initially.
LEMMA InitStores == Init => StoresConsistent /\ SnapshotSafe
  <1>. SUFFICES ASSUME Init PROVE StoresConsistent /\ SnapshotSafe
    OBVIOUS
  <1>1. PICK recorded \in SUBSET {m \in Minute : HourOf(m) < LegacyHours}, oldest \in Hour :
           db = LegacyStore(recorded, oldest)
    BY DEF Init
  <1>2. StoreConsistent(db)
    BY <1>1, LegacyStoreConsistent
  <1>. QED
    BY <1>2 DEF Init, StoresConsistent, SnapshotSafe

\* A transaction that keeps the store consistent and deletes only what it proved, whatever
\* becomes of its acknowledgement.
LEMMA CommitKeepsStores ==
  ASSUME StoreInv, NEW new, StoreConsistent(new), KeepsUnproven(db, new),
         Commits(new) \/ AckLost(new) \/ Unavailable
  PROVE  StoresConsistent' /\ \A s \in inDoubt' : KeepsUnproven(db', s)
  <1>1. CASE Commits(new)
    BY <1>1 DEF Commits, Unlocked, StoreInv, StoresConsistent
  <1>2. CASE AckLost(new)
    <2>1. CASE db' = new /\ inDoubt' = {}
      BY <2>1 DEF StoresConsistent
    <2>2. CASE db' = db /\ inDoubt' = {new}
      BY <2>2 DEF StoreInv, StoresConsistent
    <2>. QED
      BY <1>2, <2>1, <2>2 DEF AckLost, Unlocked
  <1>3. CASE Unavailable
    BY <1>3 DEF Unavailable, storeVars, StoreInv, StoresConsistent, SnapshotSafe
  <1>. QED
    BY <1>1, <1>2, <1>3

\* Every step keeps the stores consistent.
LEMMA NextStores == StoreInv /\ [Next]_vars => StoresConsistent' /\ SnapshotSafe'
  <1>. SUFFICES ASSUME StoreInv, [Next]_vars PROVE StoresConsistent' /\ SnapshotSafe'
    OBVIOUS
  <1>0. IsStore(db) /\ StoreConsistent(db) /\ protected \subseteq Minute /\ proc \in Process
    BY DEF StoreInv, TypeOK, StoresConsistent
  <1>1. ASSUME UNCHANGED storeVars, pc' # "rebuild"
        PROVE  StoresConsistent' /\ SnapshotSafe'
    BY <1>1 DEF StoreInv, storeVars, StoresConsistent, SnapshotSafe
  <1>2. ASSUME NEW new, StoreConsistent(new), KeepsUnproven(db, new),
               Commits(new) \/ AckLost(new) \/ Unavailable, pc' # "rebuild"
        PROVE  StoresConsistent' /\ SnapshotSafe'
    BY <1>2, CommitKeepsStores DEF SnapshotSafe
  <1>3. ASSUME UNCHANGED storeVars, UNCHANGED <<pc, snap>>
        PROVE  StoresConsistent' /\ SnapshotSafe'
    BY <1>3 DEF StoreInv, storeVars, StoresConsistent, SnapshotSafe
  <1>4. CASE MqttEvent
    BY <1>3, <1>4 DEF MqttEvent, backfillVars
  <1>5. CASE Tick
    BY <1>1, <1>5 DEF Tick
  <1>6. CASE Claim
    BY <1>1, <1>6 DEF Claim
  <1>7. CASE Persist
    <2>1. CASE UNCHANGED storeVars
      BY <1>1, <1>7, <2>1 DEF Persist
    <2>2. CASE Commits(Persisted(db, protected, proc))
      BY <1>0, <1>2, <1>7, <2>2, PersistConsistent, PersistKeeps DEF Persist
    <2>. QED
      BY <1>7, <2>1, <2>2 DEF Persist
  <1>8. CASE Refuse
    BY <1>1, <1>8 DEF Refuse
  <1>9. CASE WriteFails
    BY <1>0, <1>2, <1>9, PersistConsistent, PersistKeeps DEF WriteFails, TickEnds
  <1>10. CASE Acknowledge
    BY <1>1, <1>10 DEF Acknowledge
  <1>11. CASE Maintain
    BY <1>1, <1>11 DEF Maintain
  <1>12. CASE RollDone
    BY <1>1, <1>12 DEF RollDone
  <1>13. CASE Roll
    <2>1. PICK h \in Hour : IsRollable(db, h, closedBefore) /\ Commits(RebuildHours(db, {h}))
      BY <1>13 DEF Roll
    <2>2. StoreConsistent(RebuildHours(db, {h}))
      BY <1>0, <2>1, RollConsistent
    <2>3. pc' # "rebuild"
      BY <1>13 DEF Roll
    <2>. QED
      BY <1>2, <2>1, <2>2, <2>3, RebuildKeeps
  <1>14. CASE RollFails
    <2>1. pc' # "rebuild"
      BY <1>14 DEF RollFails
    <2>2. CASE Unavailable
      BY <1>1, <2>1, <2>2 DEF Unavailable
    <2>3. CASE \E h \in Hour : IsRollable(db, h, closedBefore) /\ AckLost(RebuildHours(db, {h}))
      <3>1. PICK h \in Hour : IsRollable(db, h, closedBefore) /\ AckLost(RebuildHours(db, {h}))
        BY <2>3
      <3>2. StoreConsistent(RebuildHours(db, {h}))
        BY <1>0, <3>1, RollConsistent
      <3>. QED
        BY <1>2, <2>1, <3>1, <3>2, RebuildKeeps
    <2>. QED
      BY <1>14, <2>2, <2>3 DEF RollFails
  <1>15. CASE BackfillSkip
    <2>1. pc' # "rebuild"
      BY <1>15 DEF BackfillSkip, TickEnds
    <2>. QED
      BY <1>1, <1>15, <2>1 DEF BackfillSkip
  <1>16. CASE BackfillBegin
    BY <1>16 DEF BackfillBegin, StoreInv, storeVars, StoresConsistent, SnapshotSafe, KeepsUnproven
  <1>17. CASE Backfill
    <2>1. pc' # "rebuild"
      BY <1>17 DEF Backfill, TickEnds
    <2>2. CASE UNCHANGED storeVars
      BY <1>1, <2>1, <2>2
    <2>3. CASE \E seen \in snap, start \in Hour : Commits(RebuildHours(db, BackfillHours(seen, start)))
      <3>1. PICK seen \in snap, start \in Hour : Commits(RebuildHours(db, BackfillHours(seen, start)))
        BY <2>3
      <3>2. StoreConsistent(RebuildHours(db, BackfillHours(seen, start)))
        BY <1>0, <1>17, BackfillTargets, BackfillConsistent DEF Backfill
      <3>. QED
        BY <1>2, <2>1, <3>1, <3>2, RebuildKeeps
    <2>. QED
      BY <1>17, <2>2, <2>3 DEF Backfill
  <1>18. CASE BackfillFails
    <2>1. pc' # "rebuild"
      BY <1>18 DEF BackfillFails, TickEnds
    <2>2. CASE Unavailable
      BY <1>1, <2>1, <2>2 DEF Unavailable
    <2>3. CASE \E seen \in snap, start \in Hour : AckLost(RebuildHours(db, BackfillHours(seen, start)))
      <3>1. PICK seen \in snap, start \in Hour : AckLost(RebuildHours(db, BackfillHours(seen, start)))
        BY <2>3
      <3>2. StoreConsistent(RebuildHours(db, BackfillHours(seen, start)))
        BY <1>0, <1>18, BackfillTargets, BackfillConsistent DEF BackfillFails
      <3>. QED
        BY <1>2, <2>1, <3>1, <3>2, RebuildKeeps
    <2>. QED
      BY <1>18, <2>2, <2>3 DEF BackfillFails
  <1>19. CASE PurgeNothing
    BY <1>1, <1>19 DEF PurgeNothing, TickEnds
  <1>20. CASE Purge
    BY <1>0, <1>2, <1>20, PurgeConsistent, PurgeKeeps DEF Purge, PurgeProven, TickEnds
  <1>21. CASE Resolve
    <2>1. PICK new \in inDoubt : db' \in {db, new}
      BY <1>21 DEF Resolve
    <2>2. StoresConsistent'
      BY <1>21, <2>1 DEF Resolve, StoreInv, StoresConsistent
    <2>3. ASSUME pc = "rebuild", NEW seen \in snap
          PROVE  KeepsUnproven(seen, db')
      <3>1. seen = db
        BY <2>1, <2>3 DEF StoreInv, SnapshotSafe
      <3>2. KeepsUnproven(db, db) /\ KeepsUnproven(db, new)
        BY <2>1 DEF StoreInv, SnapshotSafe, KeepsUnproven
      <3>. QED
        BY <2>1, <3>1, <3>2
    <2>. QED
      BY <1>21, <2>2, <2>3 DEF Resolve, SnapshotSafe, KeepsUnproven, backfillVars
  <1>22. CASE Restart
    BY <1>1, <1>22 DEF Restart
  <1>23. CASE UNCHANGED vars
    BY <1>3, <1>23 DEF vars, backfillVars
  <1>. QED
    BY <1>4, <1>5, <1>6, <1>7, <1>8, <1>9, <1>10, <1>11, <1>12, <1>13, <1>14, <1>15, <1>16, <1>17,
       <1>18, <1>19, <1>20, <1>21, <1>22, <1>23 DEF Next, RecorderStep

\* The stores are consistent and the snapshot of a backfill step is safe in every behaviour.
LEMMA StoreInvariant == Spec => []StoreInv
  <1>1. Spec => []TypeOK
    BY TypeCorrect
  <1>2. Init => StoresConsistent /\ SnapshotSafe
    BY InitStores
  <1>3. TypeOK /\ StoresConsistent /\ SnapshotSafe /\ [Next]_vars => StoresConsistent' /\ SnapshotSafe'
    BY NextStores DEF StoreInv
  <1>4. Spec => [](TypeOK /\ StoresConsistent /\ SnapshotSafe)
    BY <1>1, <1>2, <1>3, PTL DEF Spec
  <1>. QED
    BY <1>4, PTL DEF StoreInv

\* Whatever interleaving of events, ticks, lost answers and restarts: rollup and segments
\* agree with the raw minutes that remain, the rolled range has no hole and what was purged
\* left whole evidence, also in the store a transaction in doubt may still commit.
THEOREM StoresStayConsistent == Spec => []StoresConsistent
  <1>1. StoreInv => StoresConsistent
    BY DEF StoreInv
  <1>. QED
    BY <1>1, StoreInvariant, PTL

\* The hours backfill discovers in a snapshot older than its lock still store raw minutes
\* under the lock, so rebuild_hour never folds an empty hour.
THEOREM BackfillNeverEmpty == Spec => []BackfillTargetsStored
  <1>1. StoreInv => BackfillTargetsStored
    BY BackfillTargets DEF BackfillTargetsStored
  <1>. QED
    BY <1>1, StoreInvariant, PTL

-----------------------------------------------------------------------------
(* Accounting of the rows one process closes.                              *)

\* A clock reading puts the rows it closes into the queue or counts them as dropped.
LEMMA AdvanceAccounts ==
  ASSUME TypeOK, RowsAccounted, NEW t \in Minute, AdvanceTo(t),
         UNCHANGED <<protected, written, refused>>
  PROVE  RowsAccounted'
  <1>1. CASE minuteStart < t /\ minuteStart' = t /\ \E rows \in ClosableRows(t) :
               LET queue == waiting \cup rows
               IN  /\ closed' = closed \cup rows
                   /\ waiting' = queue \ Overflow(queue)
                   /\ dropped' = dropped \cup Overflow(queue)
    <2>1. PICK rows \in ClosableRows(t) :
             /\ closed' = closed \cup rows
             /\ waiting' = (waiting \cup rows) \ Overflow(waiting \cup rows)
             /\ dropped' = dropped \cup Overflow(waiting \cup rows)
      BY <1>1
    <2>2. minuteStart \in Nat /\ t \in Nat /\ \A m \in closed : m \in Nat
      BY StoreAssumption DEF TypeOK, Minute
    <2>3. \A m \in rows : m \in Nat /\ minuteStart <= m /\ m < t
      BY <2>2 DEF ClosableRows
    <2>4. rows \cap closed = {}
      BY <2>2, <2>3 DEF RowsAccounted
    <2>5. Overflow(waiting \cup rows) \subseteq waiting \cup rows
      BY DEF Overflow
    <2>6. \A m \in closed' : m < minuteStart'
      BY <1>1, <2>1, <2>2, <2>3 DEF RowsAccounted
    <2>. QED
      BY <2>1, <2>4, <2>5, <2>6 DEF RowsAccounted
  <1>2. CASE UNCHANGED <<minuteVars, waiting, dropped>>
    BY <1>2 DEF RowsAccounted, minuteVars
  <1>. QED
    BY <1>1, <1>2 DEF AdvanceTo

\* Every step keeps the rows accounted.
LEMMA NextAccounts == TypeOK /\ RowsAccounted /\ [Next]_vars => RowsAccounted'
  <1>. SUFFICES ASSUME TypeOK, RowsAccounted, [Next]_vars PROVE RowsAccounted'
    OBVIOUS
  <1>1. ASSUME UNCHANGED minuteVars, UNCHANGED queueVars PROVE RowsAccounted'
    BY <1>1 DEF RowsAccounted, minuteVars, queueVars
  <1>2. CASE MqttEvent
    BY <1>2, AdvanceAccounts DEF MqttEvent
  <1>3. CASE Tick
    BY <1>3, AdvanceAccounts DEF Tick
  <1>4. CASE Claim
    BY <1>4 DEF Claim, RowsAccounted, minuteVars
  <1>5. CASE Refuse
    BY <1>5 DEF Refuse, RowsAccounted, minuteVars
  <1>6. CASE Acknowledge
    BY <1>6 DEF Acknowledge, RowsAccounted, minuteVars
  <1>7. CASE Restart
    BY <1>7 DEF Restart, RowsAccounted
  <1>8. CASE UNCHANGED vars
    BY <1>1, <1>8 DEF vars
  <1>9. CASE \/ Persist \/ WriteFails \/ Maintain \/ RollDone \/ Roll \/ RollFails \/ BackfillSkip
             \/ BackfillBegin \/ Backfill \/ BackfillFails \/ PurgeNothing \/ Purge \/ Resolve
    BY <1>1, <1>9 DEF Persist, WriteFails, Maintain, RollDone, Roll, RollFails, BackfillSkip,
                      BackfillBegin, Backfill, BackfillFails, PurgeNothing, Purge, Resolve
  <1>. QED
    BY <1>2, <1>3, <1>4, <1>5, <1>6, <1>7, <1>8, <1>9 DEF Next, RecorderStep

\* Every row a process closes is waiting, protected, written, dropped or refused, and only
\* one of these: no retry, refusal, overflow or lost answer loses it or counts it twice.
THEOREM RowsStayAccounted == Spec => []RowsAccounted
  <1>1. Init => RowsAccounted
    BY DEF Init, RowsAccounted
  <1>2. Spec => []TypeOK
    BY TypeCorrect
  <1>. QED
    BY <1>1, <1>2, NextAccounts, PTL DEF Spec

=============================================================================
