------------------------- MODULE HistoryStoreProofs -------------------------
(***************************************************************************)
(* Lemmas about the store and its transactions, for every value of the     *)
(* constants: what they keep of its shape and of its consistency.          *)
(***************************************************************************)
EXTENDS HistoryStore, FiniteSetTheorems, WellFoundedInduction, TLAPS

-----------------------------------------------------------------------------
(* Minutes and hours.                                                      *)

\* The hour of a minute is a natural number.
LEMMA HourOfNat == \A m \in Nat : HourOf(m) \in Nat
  BY StoreAssumption, SMT DEF HourOf

\* Hours follow the order of their minutes.
LEMMA HourOfMonotone == \A m, n \in Nat : m <= n => HourOf(m) <= HourOf(n)
  BY StoreAssumption, SMT DEF HourOf

\* Minutes of the clock lie in hours of the clock.
LEMMA HourOfMinute == \A m \in Minute : HourOf(m) \in Hour
  <1>. TAKE m \in Minute
  <1>1. m \in Nat /\ MaxMinute \in Nat /\ m <= MaxMinute
    BY StoreAssumption DEF Minute
  <1>2. HourOf(m) \in Nat /\ HourOf(MaxMinute) \in Nat /\ HourOf(m) <= HourOf(MaxMinute)
    BY <1>1, HourOfNat, HourOfMonotone
  <1>. QED
    BY <1>2 DEF Hour

\* The hours of a set of minutes are hours of the clock.
LEMMA HoursOfMinutes ==
  ASSUME NEW rows, rows \subseteq Minute
  PROVE  HoursOf(rows) \subseteq Hour
  BY HourOfMinute DEF HoursOf

-----------------------------------------------------------------------------
(* The least elements of a set of naturals.                                *)

\* Every non-empty set of naturals has a least element: the finite segments below its
\* elements are well founded by strict inclusion.
LEMMA LeastNat ==
  ASSUME NEW T, T \subseteq Nat, T # {}
  PROVE  \E x \in T : \A y \in T : x <= y
  <1>. DEFINE Segments == {0 .. x : x \in T}
              Inside == StrictSubsetOrdering(Nat)
  <1>1. IsWellFoundedOn(Inside, FiniteSubsetsOf(Nat))
    BY FS_StrictSubsetOrderingWellFounded, Zenon
  <1>2. Segments \subseteq FiniteSubsetsOf(Nat) /\ Segments # {}
    <2>1. ASSUME NEW x \in T PROVE IsFiniteSet(0 .. x) /\ 0 .. x \in SUBSET Nat
      <3>1. 0 \in Int /\ x \in Int
        OBVIOUS
      <3>. QED BY <3>1, FS_Interval
    <2>. QED BY <2>1 DEF FiniteSubsetsOf
  <1>3. \E s \in Segments : \A t \in Segments : ~(<<t, s>> \in Inside)
    <2>. HIDE DEF Segments, Inside
    <2>. QED BY <1>1, <1>2, WFMin, Zenon
  <1>4. PICK x \in T : \A y \in T : ~(<<0 .. y, 0 .. x>> \in Inside)
    BY <1>3
  <1>5. ASSUME NEW y \in T PROVE x <= y
    <2>1. x \in Nat /\ y \in Nat
      OBVIOUS
    <2>. SUFFICES ASSUME y < x PROVE FALSE
      BY <2>1
    <2>2. 0 .. y \subseteq 0 .. x /\ x \in 0 .. x /\ x \notin 0 .. y
      BY <2>1
    <2>3. <<0 .. y, 0 .. x>> \in Inside
      BY <2>1, <2>2 DEF StrictSubsetOrdering
    <2>. QED
      BY <1>4, <2>3
  <1>. QED
    BY <1>5

\* A non-empty set of naturals with a bound has a greatest element.
LEMMA GreatestNat ==
  ASSUME NEW n \in Nat, NEW T, T \subseteq 0 .. n, T # {}
  PROVE  \E x \in T : \A y \in T : y <= x
  <1>. DEFINE Gap == {n - x : x \in T}
  <1>0. \A x \in T : n - x \in Nat
    OBVIOUS
  <1>1. Gap \subseteq Nat /\ Gap # {}
    BY <1>0
  <1>2. PICK d \in Gap : \A e \in Gap : d <= e
    BY <1>1, LeastNat
  <1>3. PICK x \in T : d = n - x
    OBVIOUS
  <1>4. ASSUME NEW y \in T PROVE y <= x
    <2>1. n - y \in Gap /\ x \in Nat /\ y \in Nat
      OBVIOUS
    <2>. QED
      BY <1>2, <1>3, <2>1
  <1>. QED
    BY <1>4

\* Bounded sets of naturals are finite, and a part of one is no larger than the whole.
LEMMA BoundedFinite ==
  ASSUME NEW n \in Nat, NEW T, T \subseteq 0 .. n
  PROVE  /\ IsFiniteSet(T) /\ Cardinality(T) \in Nat
         /\ \A S \in SUBSET T : Cardinality(S) \in Nat /\ Cardinality(S) <= Cardinality(T)
  <1>1. IsFiniteSet(0 .. n)
    BY FS_Interval
  <1>2. IsFiniteSet(T)
    BY <1>1, FS_Subset
  <1>. QED
    BY <1>2, FS_Subset, FS_CardinalityType

\* Those with fewer than "size" greater ones: what is left of a full queue.
Newest(size, minutes) == {m \in minutes : Cardinality({k \in minutes : m < k}) < size}

\* Dropping the oldest leaves at most "size" of them.
LEMMA NewestBounded ==
  ASSUME NEW n \in Nat, NEW minutes, minutes \subseteq 0 .. n, NEW size \in Nat
  PROVE  Cardinality(Newest(size, minutes)) <= size
  <1>. DEFINE T == Newest(size, minutes)
  <1>0. T \subseteq minutes /\ \A m \in minutes : m \in Nat
    BY DEF Newest
  <1>1. CASE T = {}
    BY <1>1, FS_EmptySet
  <1>2. CASE T # {}
    <2>1. PICK x \in T : \A y \in T : x <= y
      <3>1. T \subseteq Nat
        BY <1>0
      <3>. HIDE DEF T
      <3>. QED BY <1>2, <3>1, LeastNat
    <2>. DEFINE above == {k \in minutes : x < k}
    <2>2. Cardinality(above) < size
      BY <2>1 DEF Newest
    <2>3. IsFiniteSet(above) /\ Cardinality(above) \in Nat
      BY BoundedFinite
    <2>4. IsFiniteSet(above \cup {x}) /\ Cardinality(above \cup {x}) <= Cardinality(above) + 1
      <3>. HIDE DEF above
      <3>. QED BY <2>3, FS_AddElement
    <2>5. T \subseteq above \cup {x}
      <3>1. ASSUME NEW y \in T, y # x PROVE y \in minutes /\ x < y
        <4>1. y \in minutes /\ y \in Nat /\ x \in Nat /\ x <= y
          BY <1>0, <2>1
        <4>. QED BY <3>1, <4>1
      <3>. QED BY <3>1
    <2>6. Cardinality(T) <= Cardinality(above \cup {x}) /\ Cardinality(T) \in Nat
      <3>. HIDE DEF T, above
      <3>. QED BY <2>4, <2>5, FS_Subset, FS_CardinalityType
    <2>7. Cardinality(above \cup {x}) \in Nat
      BY <2>4, FS_CardinalityType
    <2>8. Cardinality(T) <= size
      <3>. HIDE DEF T, above
      <3>. QED BY <2>2, <2>3, <2>4, <2>6, <2>7
    <2>. QED
      BY <2>8
  <1>. QED
    BY <1>1, <1>2 DEF T

\* What Lowest leaves out is above everything it takes.
LEMMA LowestBelowRest ==
  ASSUME NEW n \in Nat, NEW hours, hours \subseteq 0 .. n, NEW size \in Nat,
         NEW l \in Lowest(size, hours), NEW h \in hours \ Lowest(size, hours)
  PROVE  l < h
  <1>. DEFINE Below(x) == {k \in hours : k < x}
  <1>1. l \in Nat /\ h \in Nat
    BY DEF Lowest
  <1>. SUFFICES ASSUME h <= l PROVE FALSE
    BY <1>1
  <1>2. Cardinality(Below(l)) < size /\ ~(Cardinality(Below(h)) < size)
    BY DEF Lowest
  <1>3. Below(h) \in SUBSET Below(l) /\ Below(l) \subseteq 0 .. n
    <2>1. \A k \in hours : k \in Nat /\ k \in 0 .. n
      OBVIOUS
    <2>2. ASSUME NEW k \in hours, k < h PROVE k < l
      BY <1>1, <2>1, <2>2
    <2>. QED BY <2>1, <2>2
  <1>4. Cardinality(Below(h)) <= Cardinality(Below(l)) /\ Cardinality(Below(h)) \in Nat
        /\ Cardinality(Below(l)) \in Nat
    <2>. HIDE DEF Below
    <2>. QED BY <1>3, BoundedFinite
  <1>. QED
    BY <1>2, <1>4

\* Unless it takes "size" of them, Lowest takes all.
LEMMA LowestShort ==
  ASSUME NEW n \in Nat, NEW hours, hours \subseteq 0 .. n, NEW size \in Nat,
         Cardinality(Lowest(size, hours)) # size
  PROVE  Lowest(size, hours) = hours
  <1>. DEFINE L == Lowest(size, hours)
  <1>0. L \subseteq hours /\ \A k \in hours : k \in Nat
    BY DEF Lowest
  <1>. SUFFICES ASSUME hours \ L # {} PROVE FALSE
    BY <1>0
  <1>1. PICK h \in hours \ L : \A y \in hours \ L : h <= y
    <2>0. \A k \in hours : k \in Nat
      OBVIOUS
    <2>1. hours \ L \subseteq Nat
      BY <2>0
    <2>. HIDE DEF L
    <2>. QED BY <2>1, LeastNat
  <1>2. {k \in hours : k < h} = L
    <2>1. ASSUME NEW k \in hours, k < h PROVE k \in L
      BY <1>1, <2>1
    <2>2. \A k \in L : k < h
      BY LowestBelowRest
    <2>. QED
      BY <1>0, <2>1, <2>2
  <1>3. Cardinality(L) \in Nat
    BY <1>0, BoundedFinite
  <1>4. size < Cardinality(L)
    <2>1. ~(Cardinality({k \in hours : k < h}) < size)
      BY <1>1 DEF Lowest
    <2>. QED BY <1>2, <1>3, <2>1
  <1>5. L # {}
    BY <1>4, FS_EmptySet
  <1>6. PICK g \in L : \A y \in L : y <= g
    BY <1>0, <1>5, GreatestNat
  <1>. DEFINE below == {k \in hours : k < g}
  <1>7. Cardinality(below) < size
    BY <1>6 DEF Lowest
  <1>8. IsFiniteSet(below) /\ Cardinality(below) \in Nat
    BY BoundedFinite
  <1>9. L \subseteq below \cup {g}
    <2>1. ASSUME NEW y \in L, y # g PROVE y \in hours /\ y < g
      <3>1. y \in hours /\ y \in Nat /\ g \in Nat /\ y <= g
        BY <1>0, <1>6
      <3>. QED BY <2>1, <3>1
    <2>. QED BY <2>1
  <1>10. /\ IsFiniteSet(below \cup {g}) /\ Cardinality(below \cup {g}) \in Nat
         /\ Cardinality(below \cup {g}) <= Cardinality(below) + 1
    <2>1. /\ IsFiniteSet(below \cup {g})
          /\ Cardinality(below \cup {g}) =
                IF g \in below THEN Cardinality(below) ELSE Cardinality(below) + 1
      <3>. HIDE DEF below
      <3>. QED BY <1>8, FS_AddElement
    <2>. HIDE DEF below
    <2>. QED BY <1>8, <2>1
  <1>11. Cardinality(L) <= Cardinality(below \cup {g})
    <2>. HIDE DEF L, below
    <2>. QED BY <1>9, <1>10, FS_Subset
  <1>. HIDE DEF L, below
  <1>. QED
    BY <1>3, <1>4, <1>7, <1>8, <1>10, <1>11

-----------------------------------------------------------------------------
(* The transactions keep the shape of the store.                           *)

\* The rows of one hour are rows.
LEMMA HourRowsType ==
  ASSUME NEW s, IsStore(s), NEW h
  PROVE  IsRows(HourRows(s, h))
  BY DEF IsStore, IsRows, HourRows, RawMinutes

\* Replacing entries of an hour table by rows gives an hour table.
LEMMA OverlayType ==
  ASSUME NEW s, IsStore(s), NEW hours, hours \subseteq Hour, NEW table, IsHourTable(table)
  PROVE  IsHourTable(Over([h \in hours |-> HourRows(s, h)], table))
  BY HourRowsType DEF IsHourTable, Over

\* Rebuilding hours leaves a store.
LEMMA RebuildType ==
  ASSUME NEW s, IsStore(s), NEW hours, hours \subseteq Hour
  PROVE  IsStore(RebuildHours(s, hours))
  <1>. DEFINE new == RebuildHours(s, hours)
  <1>1. /\ new.raw = s.raw
        /\ new.rollup = Over([h \in hours |-> HourRows(s, h)], s.rollup)
        /\ new.activity = Over([h \in hours |-> HourRows(s, h)], s.activity)
        /\ new = [raw |-> new.raw, rollup |-> new.rollup, activity |-> new.activity]
    BY DEF IsStore, RebuildHours
  <1>2. IsHourTable(new.rollup) /\ IsHourTable(new.activity)
    BY <1>1, OverlayType DEF IsStore
  <1>. QED
    BY <1>1, <1>2 DEF IsStore

\* Upserting rows leaves a store.
LEMMA UpsertedType ==
  ASSUME NEW s, IsStore(s), NEW rows, rows \subseteq Minute, NEW p \in Process
  PROVE  IsStore(Upserted(s, rows, p))
  <1>. DEFINE new == Upserted(s, rows, p)
  <1>1. /\ new.raw = Over([m \in rows |-> p], s.raw)
        /\ new.rollup = s.rollup
        /\ new.activity = s.activity
        /\ new = [raw |-> new.raw, rollup |-> new.rollup, activity |-> new.activity]
    BY DEF IsStore, Upserted
  <1>2. IsRows(Over([m \in rows |-> p], s.raw))
    BY DEF IsStore, IsRows, Over
  <1>. QED
    BY <1>1, <1>2 DEF IsStore

\* persist as a whole leaves a store.
LEMMA PersistedType ==
  ASSUME NEW s, IsStore(s), NEW rows, rows \subseteq Minute, NEW p \in Process
  PROVE  IsStore(Persisted(s, rows, p))
  <1>1. TouchedHours(s, rows) \subseteq Hour
    BY HoursOfMinutes DEF TouchedHours
  <1>. QED
    BY <1>1, UpsertedType, RebuildType DEF Persisted

\* Deleting the raw minutes of some hours leaves a store.
LEMMA RawDeletedType ==
  ASSUME NEW s, IsStore(s), NEW hours
  PROVE  IsStore(RawDeleted(s, hours))
  <1>. DEFINE new == RawDeleted(s, hours)
  <1>1. /\ new.raw = [m \in {k \in DOMAIN s.raw : HourOf(k) \notin hours} |-> s.raw[m]]
        /\ new.rollup = s.rollup
        /\ new.activity = s.activity
        /\ new = [raw |-> new.raw, rollup |-> new.rollup, activity |-> new.activity]
    BY DEF IsStore, RawDeleted
  <1>2. IsRows(new.raw)
    BY <1>1 DEF IsStore, IsRows
  <1>. QED
    BY <1>1, <1>2 DEF IsStore

-----------------------------------------------------------------------------
(* The transactions keep the store consistent.                             *)

\* A raw hour of a store is an hour of the clock, and so is a rolled one.
LEMMA StoreHours ==
  ASSUME NEW s, IsStore(s)
  PROVE  RawHours(s) \subseteq Hour /\ DOMAIN s.rollup \subseteq Hour /\ Hour \subseteq Nat
  BY HoursOfMinutes DEF RawHours, IsStore, IsRows, IsHourTable, Hour

\* Rebuilding repairs every hour it rebuilds: a store that is consistent outside "hours",
\* all of which store minutes, is consistent once they are rebuilt.  This is the one step
\* that a roll, a backfill and a late write share.
LEMMA RebuildRestores ==
  ASSUME NEW s, IsStore(s), NEW hours, hours \subseteq RawHours(s),
         \A h \in RawHours(s) \ hours :
            /\ h \in DOMAIN s.rollup => s.rollup[h] = HourRows(s, h)
            /\ h \in DOMAIN s.activity => s.activity[h] = HourRows(s, h),
         \A h \in RawHours(s) :
            (\E r \in hours \cup DOMAIN s.rollup : h <= r) => h \in hours \cup DOMAIN s.rollup,
         PurgedEvidenceWhole(s), SegmentsAreRolled(s)
  PROVE  StoreConsistent(RebuildHours(s, hours))
  <1>. DEFINE new == RebuildHours(s, hours)
  <1>1. /\ new.raw = s.raw
        /\ new.rollup = Over([h \in hours |-> HourRows(s, h)], s.rollup)
        /\ new.activity = Over([h \in hours |-> HourRows(s, h)], s.activity)
    BY DEF RebuildHours
  <1>2. /\ DOMAIN new.rollup = hours \cup DOMAIN s.rollup
        /\ DOMAIN new.activity = hours \cup DOMAIN s.activity
        /\ \A h \in hours : new.rollup[h] = HourRows(s, h) /\ new.activity[h] = HourRows(s, h)
        /\ \A h \in DOMAIN s.rollup \ hours : new.rollup[h] = s.rollup[h]
        /\ \A h \in DOMAIN s.activity \ hours : new.activity[h] = s.activity[h]
    BY <1>1 DEF Over
  <1>3. RawHours(new) = RawHours(s) /\ \A h : HourRows(new, h) = HourRows(s, h)
    BY <1>1 DEF RawHours, HourRows, RawMinutes
  <1>. HIDE DEF new
  <1>4. DerivedMatchesRaw(new)
    BY <1>2, <1>3 DEF DerivedMatchesRaw
  <1>5. RolledContiguous(new)
    BY <1>2, <1>3 DEF RolledContiguous, BelowRolled
  <1>6. PurgedHours(new) = PurgedHours(s) /\ PurgedHours(s) \cap hours = {}
    BY <1>2, <1>3 DEF PurgedHours
  <1>7. PurgedEvidenceWhole(new)
    <2>. SUFFICES ASSUME NEW h \in PurgedHours(s)
                  PROVE  /\ DOMAIN new.rollup[h] # {}
                         /\ \A m \in DOMAIN new.rollup[h] : HourOf(m) = h
                         /\ h \in DOMAIN new.activity => new.activity[h] = new.rollup[h]
      BY <1>6 DEF PurgedEvidenceWhole
    <2>1. h \notin hours /\ h \in DOMAIN s.rollup
      BY <1>6 DEF PurgedHours
    <2>. QED
      BY <1>2, <2>1 DEF PurgedEvidenceWhole
  <1>8. SegmentsAreRolled(new)
    BY <1>2 DEF SegmentsAreRolled
  <1>. QED
    BY <1>4, <1>5, <1>7, <1>8 DEF StoreConsistent, new

\* roll_next_hour: the first raw hour that is not below rolled_until leaves no hole behind it.
LEMMA RollConsistent ==
  ASSUME NEW s, IsStore(s), StoreConsistent(s), NEW h, NEW closedBefore,
         IsRollable(s, h, closedBefore)
  PROVE  StoreConsistent(RebuildHours(s, {h}))
  <1>1. {h} \subseteq RawHours(s) /\ h \in Nat
    BY StoreHours DEF IsRollable
  <1>2. ASSUME NEW k \in RawHours(s), NEW r \in {h} \cup DOMAIN s.rollup, k <= r
        PROVE  k \in {h} \cup DOMAIN s.rollup
    <2>0. k \in Nat /\ r \in Nat
      BY <1>1, StoreHours
    <2>1. CASE BelowRolled(s, k)
      BY <2>1 DEF StoreConsistent, RolledContiguous
    <2>2. CASE ~BelowRolled(s, k)
      <3>1. r = h
        BY <1>2, <2>2 DEF BelowRolled
      <3>2. h <= k
        BY <2>2 DEF IsRollable
      <3>. QED
        BY <1>1, <1>2, <2>0, <3>1, <3>2
    <2>. QED
      BY <2>1, <2>2
  <1>. QED
    BY <1>1, <1>2, RebuildRestores DEF StoreConsistent, DerivedMatchesRaw

\* Rebuilding raw hours that are below rolled_until, as backfill does, changes no frontier.
LEMMA BackfillConsistent ==
  ASSUME NEW s, IsStore(s), StoreConsistent(s), NEW hours, hours \subseteq RawHours(s),
         \A h \in hours : BelowRolled(s, h)
  PROVE  StoreConsistent(RebuildHours(s, hours))
  <1>1. hours \subseteq DOMAIN s.rollup
    BY DEF StoreConsistent, RolledContiguous
  <1>2. \A h \in RawHours(s) :
           (\E r \in hours \cup DOMAIN s.rollup : h <= r) => h \in hours \cup DOMAIN s.rollup
    BY <1>1 DEF StoreConsistent, RolledContiguous, BelowRolled
  <1>. QED
    BY <1>2, RebuildRestores DEF StoreConsistent, DerivedMatchesRaw

\* persist: rows above rolled_until touch no derived value, and every hour they touch
\* below it is rebuilt with them.
LEMMA PersistConsistent ==
  ASSUME NEW s, IsStore(s), StoreConsistent(s), NEW rows, rows \subseteq Minute, NEW p \in Process
  PROVE  StoreConsistent(Persisted(s, rows, p))
  <1>. DEFINE up == Upserted(s, rows, p)
              touched == TouchedHours(s, rows)
  <1>1. /\ up.raw = Over([m \in rows |-> p], s.raw)
        /\ up.rollup = s.rollup
        /\ up.activity = s.activity
    BY DEF Upserted
  <1>2. IsStore(up)
    BY UpsertedType
  <1>3. RawHours(up) = HoursOf(rows) \cup RawHours(s)
    BY <1>1 DEF Over, RawHours, HoursOf
  <1>4. touched \subseteq RawHours(up)
    BY <1>3 DEF TouchedHours
  <1>5. ASSUME NEW h, h \notin HoursOf(rows)
        PROVE  HourRows(up, h) = HourRows(s, h)
    <2>1. RawMinutes(up, h) = RawMinutes(s, h)
      BY <1>1, <1>5 DEF Over, RawMinutes, HoursOf
    <2>2. \A m \in RawMinutes(s, h) : up.raw[m] = s.raw[m]
      BY <1>1, <1>5 DEF Over, RawMinutes, HoursOf
    <2>. QED
      BY <2>1, <2>2 DEF HourRows
  <1>6. ASSUME NEW h \in HoursOf(rows) \ touched
        PROVE  h \notin DOMAIN s.rollup /\ h \notin DOMAIN s.activity
    <2>1. ~BelowRolled(s, h) /\ h \in Nat
      BY HoursOfMinutes, StoreHours DEF TouchedHours
    <2>. QED
      BY <2>1 DEF BelowRolled, StoreConsistent, SegmentsAreRolled
  <1>7. \A h \in RawHours(up) \ touched :
           /\ h \in DOMAIN up.rollup => up.rollup[h] = HourRows(up, h)
           /\ h \in DOMAIN up.activity => up.activity[h] = HourRows(up, h)
    BY <1>1, <1>3, <1>5, <1>6 DEF StoreConsistent, DerivedMatchesRaw
  <1>8. \A h \in touched : BelowRolled(s, h)
    BY DEF TouchedHours
  <1>9. ASSUME NEW h \in RawHours(up), NEW r \in touched \cup DOMAIN up.rollup, h <= r
        PROVE  h \in touched \cup DOMAIN up.rollup
    <2>1. BelowRolled(s, h)
      <3>1. CASE r \in DOMAIN s.rollup
        BY <1>9, <3>1 DEF BelowRolled
      <3>2. CASE r \in touched
        <4>1. PICK q \in DOMAIN s.rollup : r <= q
          BY <1>8, <3>2 DEF BelowRolled
        <4>2. h \in Nat /\ r \in Nat /\ q \in Nat
          BY <1>2, <1>4, <3>2, StoreHours
        <4>. QED
          BY <1>9, <4>1, <4>2 DEF BelowRolled
      <3>. QED
        BY <1>1, <3>1, <3>2
    <2>2. CASE h \in HoursOf(rows)
      BY <2>1, <2>2 DEF TouchedHours
    <2>3. CASE h \in RawHours(s)
      BY <1>1, <2>1, <2>3 DEF StoreConsistent, RolledContiguous
    <2>. QED
      BY <1>3, <2>2, <2>3
  <1>10. PurgedHours(up) \subseteq PurgedHours(s)
    BY <1>1, <1>3 DEF PurgedHours
  <1>11. PurgedEvidenceWhole(up) /\ SegmentsAreRolled(up)
    BY <1>1, <1>10 DEF StoreConsistent, PurgedEvidenceWhole, SegmentsAreRolled
  <1>. HIDE DEF up, touched
  <1>12. StoreConsistent(RebuildHours(up, touched))
    BY <1>2, <1>4, <1>7, <1>9, <1>11, RebuildRestores
  <1>. QED
    BY <1>12 DEF Persisted, up, touched

\* purge_step: deleting the raw minutes of proven hours leaves their whole evidence behind.
LEMMA PurgeConsistent ==
  ASSUME NEW s, IsStore(s), StoreConsistent(s), NEW hours, \A h \in hours : HourProven(s, h)
  PROVE  StoreConsistent(RawDeleted(s, hours))
  <1>. DEFINE new == RawDeleted(s, hours)
  <1>1. /\ new.raw = [m \in {k \in DOMAIN s.raw : HourOf(k) \notin hours} |-> s.raw[m]]
        /\ new.rollup = s.rollup
        /\ new.activity = s.activity
    BY DEF RawDeleted
  <1>. HIDE DEF new
  <1>2. RawHours(new) = RawHours(s) \ hours
    BY <1>1 DEF RawHours, HoursOf
  <1>3. ASSUME NEW h, h \notin hours
        PROVE  HourRows(new, h) = HourRows(s, h)
    <2>1. RawMinutes(new, h) = RawMinutes(s, h)
      BY <1>1, <1>3 DEF RawMinutes
    <2>2. \A m \in RawMinutes(s, h) : new.raw[m] = s.raw[m]
      BY <1>1, <1>3 DEF RawMinutes
    <2>. QED
      BY <2>1, <2>2 DEF HourRows
  <1>4. DerivedMatchesRaw(new)
    BY <1>1, <1>2, <1>3 DEF StoreConsistent, DerivedMatchesRaw
  <1>5. RolledContiguous(new)
    BY <1>1, <1>2 DEF StoreConsistent, RolledContiguous, BelowRolled
  <1>6. PurgedEvidenceWhole(new)
    <2>. SUFFICES ASSUME NEW h \in PurgedHours(new)
                  PROVE  /\ DOMAIN s.rollup[h] # {}
                         /\ \A m \in DOMAIN s.rollup[h] : HourOf(m) = h
                         /\ h \in DOMAIN s.activity => s.activity[h] = s.rollup[h]
      BY <1>1 DEF PurgedEvidenceWhole
    <2>1. CASE h \in RawHours(s)
      <3>1. HourProven(s, h)
        BY <1>2, <2>1 DEF PurgedHours
      <3>2. s.rollup[h] = HourRows(s, h) /\ s.activity[h] = HourRows(s, h)
        BY <2>1, <3>1 DEF HourProven, StoreConsistent, DerivedMatchesRaw
      <3>3. DOMAIN HourRows(s, h) = {m \in DOMAIN s.raw : HourOf(m) = h}
        BY DEF HourRows, RawMinutes
      <3>4. \E m \in DOMAIN s.raw : HourOf(m) = h
        BY <2>1 DEF RawHours, HoursOf
      <3>. QED
        BY <3>2, <3>3, <3>4
    <2>2. CASE h \notin RawHours(s)
      BY <1>1, <2>2 DEF PurgedHours, StoreConsistent, PurgedEvidenceWhole
    <2>. QED
      BY <2>1, <2>2
  <1>7. SegmentsAreRolled(new)
    BY <1>1 DEF StoreConsistent, SegmentsAreRolled
  <1>. QED
    BY <1>4, <1>5, <1>6, <1>7 DEF StoreConsistent, new

-----------------------------------------------------------------------------
(* What the transactions make of the ledger.                               *)

\* The ledger is determined by what is recorded and by whom.
LEMMA SameLedger ==
  ASSUME NEW s, NEW t, RecordedMinutes(t) = RecordedMinutes(s),
         \A m \in RecordedMinutes(s) : RecordedBy(t, m) = RecordedBy(s, m)
  PROVE  Ledger(t) = Ledger(s)
  BY DEF Ledger

\* Only what the rollup of a purged hour was folded from is known without its raw minute.
LEMMA RecordedPurged ==
  ASSUME NEW s, StoreConsistent(s), NEW m \in RecordedMinutes(s), m \notin DOMAIN s.raw
  PROVE  HourOf(m) \in PurgedHours(s) /\ m \in DOMAIN s.rollup[HourOf(m)]
  BY DEF StoreConsistent, PurgedEvidenceWhole, RecordedMinutes

\* Every recorded minute is a minute of the clock, in a process that exists.
LEMMA RecordedType ==
  ASSUME NEW s, IsStore(s), StoreConsistent(s), NEW m \in RecordedMinutes(s)
  PROVE  m \in Minute /\ RecordedBy(s, m) \in Process
  <1>1. CASE m \in DOMAIN s.raw
    BY <1>1 DEF IsStore, IsRows, RecordedBy
  <1>2. CASE m \notin DOMAIN s.raw
    <2>1. HourOf(m) \in DOMAIN s.rollup /\ m \in DOMAIN s.rollup[HourOf(m)]
      BY <1>2, RecordedPurged DEF PurgedHours
    <2>2. IsRows(s.rollup[HourOf(m)])
      BY <2>1 DEF IsStore, IsHourTable
    <2>. QED
      BY <1>2, <2>1, <2>2 DEF IsRows, RecordedBy
  <1>. QED
    BY <1>1, <1>2

\* Rolling and backfilling hours that store raw minutes tell a reader nothing new.
LEMMA RebuildLedger ==
  ASSUME NEW s, IsStore(s), StoreConsistent(s), NEW hours, hours \subseteq RawHours(s)
  PROVE  /\ PurgedHours(RebuildHours(s, hours)) = PurgedHours(s)
         /\ Ledger(RebuildHours(s, hours)) = Ledger(s)
  <1>. DEFINE new == RebuildHours(s, hours)
  <1>1. /\ new.raw = s.raw
        /\ new.rollup = Over([h \in hours |-> HourRows(s, h)], s.rollup)
    BY DEF RebuildHours
  <1>2. /\ DOMAIN new.rollup = hours \cup DOMAIN s.rollup
        /\ \A h \in DOMAIN s.rollup \ hours : new.rollup[h] = s.rollup[h]
    BY <1>1 DEF Over
  <1>. HIDE DEF new
  <1>3. RawHours(new) = RawHours(s)
    BY <1>1 DEF RawHours
  <1>4. PurgedHours(new) = PurgedHours(s)
    BY <1>2, <1>3 DEF PurgedHours
  <1>5. \A h \in PurgedHours(s) : new.rollup[h] = s.rollup[h]
    BY <1>2 DEF PurgedHours
  <1>6. RecordedMinutes(new) = RecordedMinutes(s)
    BY <1>1, <1>4, <1>5 DEF RecordedMinutes
  <1>7. ASSUME NEW m \in RecordedMinutes(s)
        PROVE  RecordedBy(new, m) = RecordedBy(s, m)
    BY <1>1, <1>5, RecordedPurged DEF RecordedBy
  <1>8. Ledger(new) = Ledger(s)
    BY <1>6, <1>7, SameLedger
  <1>. QED
    BY <1>4, <1>8 DEF new

\* A write that is not refused reaches no purged hour.
LEMMA PersistOutside ==
  ASSUME NEW s, IsStore(s), NEW rows, RefusedHours(s, rows) = {}
  PROVE  HoursOf(rows) \cap PurgedHours(s) = {}
  BY StoreHours DEF RefusedHours, TouchedHours, PurgedHours, BelowRolled

\* persist records its rows and nothing else, in hours that are not purged.
LEMMA PersistLedger ==
  ASSUME NEW s, IsStore(s), StoreConsistent(s), NEW rows, rows \subseteq Minute,
         NEW p \in Process, RefusedHours(s, rows) = {}
  PROVE  /\ PurgedHours(Persisted(s, rows, p)) = PurgedHours(s)
         /\ Ledger(Persisted(s, rows, p)) = Over([m \in rows |-> p], Ledger(s))
         /\ DOMAIN Persisted(s, rows, p).raw = rows \cup DOMAIN s.raw
  <1>. DEFINE new == Persisted(s, rows, p)
              touched == TouchedHours(s, rows)
  <1>1. /\ new.raw = Over([m \in rows |-> p], s.raw)
        /\ DOMAIN new.rollup = touched \cup DOMAIN s.rollup
        /\ \A h \in DOMAIN s.rollup \ touched : new.rollup[h] = s.rollup[h]
    BY DEF Persisted, RebuildHours, Upserted, Over
  <1>2. touched \subseteq HoursOf(rows)
    BY DEF TouchedHours
  <1>. HIDE DEF new, touched
  <1>3. DOMAIN new.raw = rows \cup DOMAIN s.raw
    BY <1>1 DEF Over
  <1>4. RawHours(new) = HoursOf(rows) \cup RawHours(s)
    BY <1>3 DEF RawHours, HoursOf
  <1>5. HoursOf(rows) \cap PurgedHours(s) = {}
    BY PersistOutside
  <1>6. PurgedHours(new) = PurgedHours(s)
    BY <1>1, <1>2, <1>4, <1>5 DEF PurgedHours
  <1>7. \A h \in PurgedHours(s) : new.rollup[h] = s.rollup[h]
    BY <1>1, <1>2, <1>5 DEF PurgedHours
  <1>8. RecordedMinutes(new) = rows \cup RecordedMinutes(s)
    BY <1>3, <1>6, <1>7 DEF RecordedMinutes
  <1>9. ASSUME NEW m \in rows
        PROVE  RecordedBy(new, m) = p
    BY <1>1, <1>3 DEF RecordedBy, Over
  <1>10. ASSUME NEW m \in RecordedMinutes(s), m \notin rows
         PROVE  RecordedBy(new, m) = RecordedBy(s, m)
    <2>1. CASE m \in DOMAIN s.raw
      BY <1>1, <1>3, <1>10, <2>1 DEF RecordedBy, Over
    <2>2. CASE m \notin DOMAIN s.raw
      BY <1>3, <1>7, <1>10, <2>2, RecordedPurged DEF RecordedBy
    <2>. QED
      BY <2>1, <2>2
  <1>11. Ledger(new) = [m \in rows \cup RecordedMinutes(s) |-> IF m \in rows THEN p ELSE RecordedBy(s, m)]
    BY <1>8, <1>9, <1>10 DEF Ledger
  <1>12. Over([m \in rows |-> p], Ledger(s)) =
            [m \in rows \cup RecordedMinutes(s) |-> IF m \in rows THEN p ELSE RecordedBy(s, m)]
    BY DEF Over, Ledger
  <1>. QED
    BY <1>3, <1>6, <1>11, <1>12 DEF new

\* purge_step seals the hours it proved; what is known of their minutes stays.
LEMMA PurgeLedger ==
  ASSUME NEW s, IsStore(s), StoreConsistent(s), NEW hours, \A h \in hours : HourProven(s, h)
  PROVE  /\ PurgedHours(s) \subseteq PurgedHours(RawDeleted(s, hours))
         /\ PurgedHours(RawDeleted(s, hours)) \subseteq PurgedHours(s) \cup (hours \cap RawHours(s))
         /\ Ledger(RawDeleted(s, hours)) = Ledger(s)
  <1>. DEFINE new == RawDeleted(s, hours)
  <1>1. /\ DOMAIN new.raw = {k \in DOMAIN s.raw : HourOf(k) \notin hours}
        /\ \A m \in DOMAIN new.raw : new.raw[m] = s.raw[m]
        /\ new.rollup = s.rollup
    BY DEF RawDeleted
  <1>. HIDE DEF new
  <1>2. RawHours(new) = RawHours(s) \ hours
    BY <1>1 DEF RawHours, HoursOf
  <1>3. \A h \in hours \cap RawHours(s) : h \in DOMAIN s.rollup /\ s.rollup[h] = HourRows(s, h)
    BY DEF HourProven, StoreConsistent, DerivedMatchesRaw
  <1>4. PurgedHours(new) = PurgedHours(s) \cup (hours \cap RawHours(s))
    BY <1>1, <1>2, <1>3 DEF PurgedHours
  <1>5. ASSUME NEW h \in hours \cap RawHours(s)
        PROVE  /\ DOMAIN s.rollup[h] = {m \in DOMAIN s.raw : HourOf(m) = h}
               /\ \A m \in DOMAIN s.rollup[h] : s.rollup[h][m] = s.raw[m]
    BY <1>3 DEF HourRows, RawMinutes
  <1>6. ASSUME NEW m \in DOMAIN s.raw \ DOMAIN new.raw
        PROVE  HourOf(m) \in hours \cap RawHours(s)
    BY <1>1 DEF RawHours, HoursOf
  <1>7. RecordedMinutes(new) = RecordedMinutes(s)
    <2>1. ASSUME NEW m \in RecordedMinutes(new) PROVE m \in RecordedMinutes(s)
      <3>1. CASE m \in DOMAIN new.raw
        BY <1>1, <3>1 DEF RecordedMinutes
      <3>2. CASE \E h \in PurgedHours(new) : m \in DOMAIN s.rollup[h]
        BY <1>4, <1>5, <3>2 DEF RecordedMinutes
      <3>. QED
        BY <1>1, <2>1, <3>1, <3>2 DEF RecordedMinutes
    <2>2. ASSUME NEW m \in RecordedMinutes(s) PROVE m \in RecordedMinutes(new)
      <3>1. CASE m \in DOMAIN new.raw
        BY <3>1 DEF RecordedMinutes
      <3>2. CASE m \in DOMAIN s.raw \ DOMAIN new.raw
        <4>1. HourOf(m) \in PurgedHours(new) /\ m \in DOMAIN s.rollup[HourOf(m)]
          BY <1>4, <1>5, <1>6, <3>2
        <4>. QED
          BY <1>1, <4>1 DEF RecordedMinutes
      <3>3. CASE m \notin DOMAIN s.raw
        BY <1>1, <1>4, <3>3, RecordedPurged DEF RecordedMinutes
      <3>. QED
        BY <3>1, <3>2, <3>3
    <2>. QED
      BY <2>1, <2>2
  <1>8. ASSUME NEW m \in RecordedMinutes(s)
        PROVE  RecordedBy(new, m) = RecordedBy(s, m)
    <2>1. CASE m \in DOMAIN new.raw \/ m \notin DOMAIN s.raw
      BY <1>1, <2>1 DEF RecordedBy
    <2>2. CASE m \in DOMAIN s.raw \ DOMAIN new.raw
      <3>1. m \in DOMAIN s.rollup[HourOf(m)] /\ s.rollup[HourOf(m)][m] = s.raw[m]
        BY <1>5, <1>6, <2>2
      <3>. QED
        BY <1>1, <2>2, <3>1 DEF RecordedBy
    <2>. QED
      BY <2>1, <2>2
  <1>9. Ledger(new) = Ledger(s)
    BY <1>7, <1>8, SameLedger
  <1>. QED
    BY <1>4, <1>9 DEF new

-----------------------------------------------------------------------------
(* What the transactions make of the hours that lack segments.             *)

\* Rolled hours with raw minutes and without segments: what backfill is there for.
Lacking(s) == (RawHours(s) \cap DOMAIN s.rollup) \ DOMAIN s.activity

\* Rebuilding gives segments to every hour it rebuilds.
LEMMA RebuildLacking ==
  ASSUME NEW s, NEW hours
  PROVE  Lacking(RebuildHours(s, hours)) \subseteq Lacking(s) \ hours
  BY DEF Lacking, RebuildHours, Over, RawHours

\* A write that is not refused makes no rolled hour without segments.
LEMMA PersistLacking ==
  ASSUME NEW s, IsStore(s), NEW rows, RefusedHours(s, rows) = {}, NEW p
  PROVE  Lacking(Persisted(s, rows, p)) \subseteq Lacking(s)
  <1>. DEFINE up == Upserted(s, rows, p)
  <1>1. RawHours(up) = HoursOf(rows) \cup RawHours(s) /\ up.rollup = s.rollup /\ up.activity = s.activity
    BY DEF Upserted, Over, RawHours, HoursOf
  <1>2. Lacking(up) \subseteq Lacking(s)
    BY <1>1, PersistOutside DEF Lacking, PurgedHours
  <1>3. Lacking(RebuildHours(up, TouchedHours(s, rows))) \subseteq Lacking(up)
    BY RebuildLacking
  <1>. QED
    BY <1>2, <1>3 DEF Persisted

\* Deleting raw minutes makes none either.
LEMMA PurgeLacking ==
  ASSUME NEW s, NEW hours
  PROVE  Lacking(RawDeleted(s, hours)) \subseteq Lacking(s)
  BY DEF Lacking, RawDeleted, RawHours, HoursOf
=============================================================================
