------------------------- MODULE HistoryReadProofs -------------------------
(***************************************************************************)
(* Theorems about the read paths for every value of the constants: what a  *)
(* reader answers is exactly what is recorded, whichever tables it takes   *)
(* the answer from, it is refused only where evidence is missing, and a    *)
(* frontier once observed stays final.                                     *)
(***************************************************************************)
EXTENDS HistoryRead, RecorderRowsProofs

-----------------------------------------------------------------------------
(* Hours of the grid.                                                      *)

\* Hours follow one another without overlap.
LEMMA HourStartOrder ==
  /\ \A h \in Nat : HourStart(h) \in Nat /\ HourStart(h + 1) = HourStart(h) + MinutesPerHour
  /\ \A h, k \in Nat : h <= k <=> HourStart(h) <= HourStart(k)
  <1>0. MinutesPerHour \in Nat /\ MinutesPerHour >= 1
    BY StoreAssumption
  <1>1. ASSUME NEW h \in Nat
        PROVE  HourStart(h) \in Nat /\ HourStart(h + 1) = HourStart(h) + MinutesPerHour
    BY <1>0, SMT DEF HourStart
  <1>2. ASSUME NEW h \in Nat, NEW k \in Nat, h <= k
        PROVE  HourStart(h) <= HourStart(k)
    BY <1>0, <1>2, SMT DEF HourStart
  <1>3. ASSUME NEW h \in Nat, NEW k \in Nat, h < k
        PROVE  HourStart(h) < HourStart(k)
    <2>1. HourStart(h + 1) <= HourStart(k)
      BY <1>2, <1>3
    <2>. QED
      BY <1>0, <1>1, <2>1
  <1>4. ASSUME NEW h \in Nat, NEW k \in Nat
        PROVE  h <= k <=> HourStart(h) <= HourStart(k)
    BY <1>1, <1>2, <1>3
  <1>. QED
    BY <1>1, <1>4

\* A minute lies within its hour.
LEMMA MinuteInHour ==
  \A m \in Nat : /\ HourOf(m) \in Nat
                 /\ HourStart(HourOf(m)) <= m
                 /\ m < HourStart(HourOf(m) + 1)
  <1>. SUFFICES ASSUME NEW m \in Nat
                PROVE  /\ HourOf(m) \in Nat
                       /\ HourStart(HourOf(m)) <= m
                       /\ m < HourStart(HourOf(m) + 1)
    OBVIOUS
  <1>0. MinutesPerHour \in Nat /\ MinutesPerHour >= 1
    BY StoreAssumption
  <1>1. HourOf(m) \in Nat
    BY HourOfNat
  <1>2. HourOf(m) * MinutesPerHour <= m /\ m < HourOf(m) * MinutesPerHour + MinutesPerHour
    BY <1>0, SMT DEF HourOf
  <1>. QED
    BY <1>0, <1>1, <1>2, HourStartOrder DEF HourStart

\* Only the minutes within an hour are of that hour.
LEMMA HourOfWithin ==
  \A m, h \in Nat : /\ HourOf(m) < h <=> m < HourStart(h)
                    /\ HourOf(m) = h <=> HourStart(h) <= m /\ m < HourStart(h + 1)
  <1>1. ASSUME NEW m \in Nat, NEW h \in Nat
        PROVE  HourOf(m) < h <=> m < HourStart(h)
    <2>1. /\ HourOf(m) \in Nat /\ HourOf(m) + 1 \in Nat
          /\ HourStart(HourOf(m)) <= m /\ m < HourStart(HourOf(m) + 1)
      BY MinuteInHour
    <2>2. HourStart(HourOf(m)) \in Nat /\ HourStart(HourOf(m) + 1) \in Nat /\ HourStart(h) \in Nat
      BY <2>1, HourStartOrder
    <2>3. HourOf(m) + 1 <= h <=> HourStart(HourOf(m) + 1) <= HourStart(h)
      BY <2>1, HourStartOrder
    <2>4. h <= HourOf(m) <=> HourStart(h) <= HourStart(HourOf(m))
      BY <2>1, HourStartOrder
    <2>. QED
      BY <2>1, <2>2, <2>3, <2>4
  <1>2. ASSUME NEW m \in Nat, NEW h \in Nat
        PROVE  HourOf(m) = h <=> HourStart(h) <= m /\ m < HourStart(h + 1)
    <2>1. /\ HourOf(m) < h <=> m < HourStart(h)
          /\ HourOf(m) < h + 1 <=> m < HourStart(h + 1)
      BY <1>1
    <2>2. HourOf(m) \in Nat /\ HourStart(h) \in Nat
      BY MinuteInHour, HourStartOrder
    <2>. QED
      BY <2>1, <2>2
  <1>. QED
    BY <1>1, <1>2

\* Rounding down gives the start of the hour, rounding up the first hour start not before.
LEMMA Rounding ==
  \A t \in Nat :
    /\ FloorHour(t) = HourStart(HourOf(t)) /\ HourOf(t) \in Nat /\ FloorHour(t) <= t
    /\ \E c \in Nat : /\ CeilHour(t) = HourStart(c) /\ t <= HourStart(c)
                      /\ \A h \in Nat : t <= HourStart(h) <=> c <= h
  <1>. SUFFICES ASSUME NEW t \in Nat
                PROVE  \E c \in Nat : /\ CeilHour(t) = HourStart(c) /\ t <= HourStart(c)
                                      /\ \A h \in Nat : t <= HourStart(h) <=> c <= h
    BY MinuteInHour DEF FloorHour
  <1>. DEFINE up == t + MinutesPerHour - 1
              c  == HourOf(up)
  <1>0. up \in Nat /\ MinutesPerHour \in Nat /\ MinutesPerHour >= 1
    BY StoreAssumption
  <1>1. CeilHour(t) = HourStart(c)
    BY DEF CeilHour, FloorHour
  <1>2. c \in Nat /\ HourStart(c) <= up /\ up < HourStart(c + 1)
    BY <1>0, MinuteInHour
  <1>3. HourStart(c) \in Nat /\ HourStart(c + 1) = HourStart(c) + MinutesPerHour
    BY <1>2, HourStartOrder
  <1>4. t <= HourStart(c)
    BY <1>0, <1>2, <1>3
  <1>5. ASSUME NEW h \in Nat PROVE t <= HourStart(h) <=> c <= h
    <2>1. c <= h <=> HourStart(c) <= HourStart(h)
      BY <1>2, HourStartOrder
    <2>2. HourStart(h) \in Nat /\ HourStart(h + 1) = HourStart(h) + MinutesPerHour
      BY HourStartOrder
    <2>3. c < h + 1 <=> up < HourStart(h + 1)
      BY <1>0, HourOfWithin
    <2>. QED
      BY <1>0, <1>2, <1>3, <1>4, <2>1, <2>2, <2>3
  <1>. QED
    BY <1>1, <1>2, <1>4, <1>5

-----------------------------------------------------------------------------
(* What the derived tables of a consistent store hold.                     *)

\* A rollup row, and the segments if there are any, stand for exactly the recorded minutes
\* of their hour, whether its raw minutes are still there or not.
LEMMA DerivedHour ==
  ASSUME NEW s, IsStore(s), StoreConsistent(s), NEW h \in DOMAIN s.rollup
  PROVE  /\ DOMAIN s.rollup[h] = {m \in RecordedMinutes(s) : HourOf(m) = h}
         /\ \A m \in DOMAIN s.rollup[h] : s.rollup[h][m] = RecordedBy(s, m)
         /\ h \in DOMAIN s.activity => s.activity[h] = s.rollup[h]
  <1>1. CASE h \in RawHours(s)
    <2>1. s.rollup[h] = HourRows(s, h) /\ (h \in DOMAIN s.activity => s.activity[h] = s.rollup[h])
      BY <1>1 DEF StoreConsistent, DerivedMatchesRaw
    <2>2. /\ DOMAIN s.rollup[h] = {m \in DOMAIN s.raw : HourOf(m) = h}
          /\ \A m \in DOMAIN s.rollup[h] : s.rollup[h][m] = s.raw[m]
      BY <2>1 DEF HourRows, RawMinutes
    <2>3. ASSUME NEW m \in RecordedMinutes(s), HourOf(m) = h PROVE m \in DOMAIN s.raw
      BY <1>1, <2>3, RecordedPurged DEF PurgedHours
    <2>. QED
      BY <2>1, <2>2, <2>3 DEF RecordedMinutes, RecordedBy
  <1>2. CASE h \notin RawHours(s)
    <2>1. /\ h \in PurgedHours(s)
          /\ \A m \in DOMAIN s.rollup[h] : HourOf(m) = h /\ m \in RecordedMinutes(s)
          /\ h \in DOMAIN s.activity => s.activity[h] = s.rollup[h]
      BY <1>2 DEF PurgedHours, StoreConsistent, PurgedEvidenceWhole, RecordedMinutes
    <2>2. ASSUME NEW m, HourOf(m) = h PROVE m \notin DOMAIN s.raw
      BY <1>2, <2>2 DEF RawHours, HoursOf
    <2>3. ASSUME NEW m \in RecordedMinutes(s), HourOf(m) = h PROVE m \in DOMAIN s.rollup[h]
      BY <2>2, <2>3, RecordedPurged
    <2>. QED
      BY <2>1, <2>2, <2>3 DEF RecordedBy
  <1>. QED
    BY <1>1, <1>2

-----------------------------------------------------------------------------
(* The part of a range that is answered from the rollup.                   *)

\* Where the rollup ends, in hours.
LEMMA RolledUntil ==
  ASSUME NEW s, IsStore(s), DOMAIN s.rollup # {}
  PROVE  \E top \in DOMAIN s.rollup :
            /\ top \in Nat /\ \A k \in DOMAIN s.rollup : k \in Nat /\ k <= top
            /\ (CHOOSE t \in 0 .. EndOfTime : IsRolledUntil(s, t)) = HourStart(top + 1)
  <1>1. HourOf(MaxMinute) \in Nat /\ DOMAIN s.rollup \subseteq 0 .. HourOf(MaxMinute)
    BY StoreAssumption, HourOfNat, StoreHours DEF Hour
  <1>2. PICK top \in DOMAIN s.rollup : \A k \in DOMAIN s.rollup : k <= top
    BY <1>1, GreatestNat
  <1>3. top \in Nat /\ \A k \in DOMAIN s.rollup : k \in Nat
    BY <1>1
  <1>4. HourStart(top + 1) \in 0 .. EndOfTime
    <2>1. top + 1 \in Nat /\ HourOf(MaxMinute) + 1 \in Nat /\ top + 1 <= HourOf(MaxMinute) + 1
      BY <1>1, <1>3
    <2>2. /\ HourStart(top + 1) \in Nat /\ HourStart(HourOf(MaxMinute) + 1) \in Nat
          /\ HourStart(top + 1) <= HourStart(HourOf(MaxMinute) + 1)
      BY <2>1, HourStartOrder
    <2>. QED
      BY <2>2 DEF EndOfTime
  <1>5. IsRolledUntil(s, HourStart(top + 1))
    BY <1>2 DEF IsRolledUntil
  <1>. DEFINE until == CHOOSE t \in 0 .. EndOfTime : IsRolledUntil(s, t)
  <1>6. IsRolledUntil(s, until)
    BY <1>4, <1>5
  <1>. HIDE DEF until
  <1>7. PICK h \in DOMAIN s.rollup : until = HourStart(h + 1) /\ \A k \in DOMAIN s.rollup : k <= h
    BY <1>6 DEF IsRolledUntil
  <1>8. h = top
    BY <1>2, <1>3, <1>7
  <1>. QED
    BY <1>2, <1>3, <1>7, <1>8 DEF until

\* An answer takes from the rollup the hours from c to before d: those, if any, are hours
\* of the range below rolled_until, and every rolled hour within the range is among them.
LEMMA RolledSpanHours ==
  ASSUME NEW s, IsStore(s), NEW a \in Nat, NEW b \in Nat, NEW hourly \in BOOLEAN
  PROVE  \E c, d \in Nat :
            /\ RolledSpan(s, a, b, hourly) = <<HourStart(c), HourStart(d)>>
            /\ c <= d /\ a <= HourStart(c)
            /\ \A h \in Nat : a <= HourStart(h) <=> c <= h
            /\ c < d => HourStart(d) <= b /\ hourly /\ \E r \in DOMAIN s.rollup : r \in Nat /\ d <= r + 1
            /\ hourly => \A h \in DOMAIN s.rollup :
                            a <= HourStart(h) /\ HourStart(h + 1) <= b => c <= h /\ h < d
  <1>1. PICK c \in Nat : /\ CeilHour(a) = HourStart(c) /\ a <= HourStart(c)
                         /\ \A h \in Nat : a <= HourStart(h) <=> c <= h
    BY Rounding
  <1>2. CASE ~(hourly /\ DOMAIN s.rollup # {})
    <2>1. RolledSpan(s, a, b, hourly) = <<HourStart(c), HourStart(c)>>
      BY <1>1, <1>2 DEF RolledSpan
    <2>. QED
      BY <1>1, <1>2, <2>1
  <1>3. CASE hourly /\ DOMAIN s.rollup # {}
    <2>1. PICK top \in DOMAIN s.rollup :
            /\ top \in Nat /\ \A k \in DOMAIN s.rollup : k \in Nat /\ k <= top
            /\ (CHOOSE t \in 0 .. EndOfTime : IsRolledUntil(s, t)) = HourStart(top + 1)
      BY <1>3, RolledUntil
    <2>2. FloorHour(b) = HourStart(HourOf(b)) /\ HourOf(b) \in Nat /\ HourStart(HourOf(b)) <= b
      BY Rounding, MinuteInHour
    <2>. DEFINE e == IF HourOf(b) <= top + 1 THEN HourOf(b) ELSE top + 1
                d == IF c <= e THEN e ELSE c
    <2>3. e \in Nat /\ d \in Nat /\ top + 1 \in Nat
      BY <2>1, <2>2
    <2>4. Lesser(FloorHour(b), HourStart(top + 1)) = HourStart(e)
      <3>1. HourOf(b) <= top + 1 <=> HourStart(HourOf(b)) <= HourStart(top + 1)
        BY <2>2, <2>3, HourStartOrder
      <3>. QED
        BY <2>2, <3>1 DEF Lesser
    <2>5. Greater(HourStart(c), HourStart(e)) = HourStart(d)
      <3>1. c <= e <=> HourStart(c) <= HourStart(e)
        BY <2>3, HourStartOrder
      <3>. QED
        BY <3>1 DEF Greater
    <2>6. RolledSpan(s, a, b, hourly) = <<HourStart(c), HourStart(d)>>
      BY <1>1, <1>3, <2>1, <2>4, <2>5 DEF RolledSpan
    <2>7. c < d => HourStart(d) <= b /\ d <= top + 1
      <3>. SUFFICES ASSUME c < d PROVE HourStart(d) <= b /\ d <= top + 1
        OBVIOUS
      <3>1. d = e /\ d <= HourOf(b) /\ d <= top + 1
        BY <2>1, <2>2, <2>3
      <3>2. HourStart(d) \in Nat /\ HourStart(HourOf(b)) \in Nat /\ HourStart(d) <= HourStart(HourOf(b))
        BY <2>2, <2>3, <3>1, HourStartOrder
      <3>. QED
        BY <2>2, <3>1, <3>2
    <2>8. ASSUME NEW h \in DOMAIN s.rollup, a <= HourStart(h), HourStart(h + 1) <= b
          PROVE  c <= h /\ h < d
      <3>1. h \in Nat /\ h + 1 \in Nat /\ h <= top /\ c <= h
        BY <1>1, <2>1, <2>8
      <3>2. h + 1 <= HourOf(b)
        <4>1. ~(HourOf(b) < h + 1)
          <5>1. HourOf(b) < h + 1 <=> b < HourStart(h + 1)
            BY <3>1, HourOfWithin
          <5>2. HourStart(h + 1) \in Nat
            BY <3>1, HourStartOrder
          <5>. QED
            BY <2>8, <5>1, <5>2
        <4>. QED
          BY <2>2, <3>1, <4>1
      <3>3. h + 1 <= e
        BY <2>1, <2>2, <3>1, <3>2
      <3>. QED
        BY <2>3, <3>1, <3>3
    <2>9. c <= d
      BY <2>3
    <2>. HIDE DEF d
    <2>. QED
      BY <1>1, <1>3, <2>1, <2>3, <2>6, <2>7, <2>8, <2>9
  <1>. QED
    BY <1>2, <1>3

-----------------------------------------------------------------------------
(* history.py.                                                             *)

\* The minutes of a range that are read raw are those of the hours not taken from the rollup.
LEMMA RawPartHours ==
  ASSUME NEW s, NEW a \in Nat, NEW b \in Nat, NEW hourly, NEW c \in Nat, NEW d \in Nat,
         RolledSpan(s, a, b, hourly) = <<HourStart(c), HourStart(d)>>
  PROVE  /\ RawPart(s, a, b, hourly) \subseteq a .. (b - 1)
         /\ \A m \in a .. (b - 1) :
               m \in RawPart(s, a, b, hourly) <=> HourOf(m) < c \/ d <= HourOf(m)
  <1>1. RawPart(s, a, b, hourly) = {m \in a .. (b - 1) : m < HourStart(c) \/ HourStart(d) <= m}
    BY DEF RawPart
  <1>2. ASSUME NEW m \in a .. (b - 1)
        PROVE  m < HourStart(c) \/ HourStart(d) <= m <=> HourOf(m) < c \/ d <= HourOf(m)
    <2>1. m \in Nat
      OBVIOUS
    <2>2. /\ HourOf(m) < c <=> m < HourStart(c)
          /\ HourOf(m) < d <=> m < HourStart(d)
          /\ HourOf(m) \in Nat /\ HourStart(d) \in Nat
      BY <2>1, HourOfWithin, HourOfNat, HourStartOrder
    <2>. QED
      BY <2>1, <2>2
  <1>. QED
    BY <1>1, <1>2

\* An answer that is not refused holds exactly the recorded minutes of its range.
LEMMA HistoryAnswer ==
  ASSUME NEW s, IsStore(s), StoreConsistent(s), NEW a \in Nat, NEW b \in Nat,
         NEW hourly \in BOOLEAN, ~HistoryRefused(s, a, b, hourly)
  PROVE  HistoryRows(s, a, b, hourly) = Within(Ledger(s), a, b)
  <1>1. PICK c \in Nat, d \in Nat :
            /\ RolledSpan(s, a, b, hourly) = <<HourStart(c), HourStart(d)>>
            /\ c <= d /\ a <= HourStart(c)
            /\ c < d => HourStart(d) <= b /\ hourly /\ \E r \in DOMAIN s.rollup : r \in Nat /\ d <= r + 1
    BY RolledSpanHours
  <1>. DEFINE raw   == RawPart(s, a, b, hourly) \cap DOMAIN s.raw
              hours == {h \in DOMAIN s.rollup : HourStart(c) <= HourStart(h) /\ HourStart(h + 1) <= HourStart(d)}
              rows  == raw \cup UNION {DOMAIN s.rollup[h] : h \in hours}
              known == {m \in RecordedMinutes(s) : a <= m /\ m < b}
  <1>2. HistoryRows(s, a, b, hourly) =
           [m \in rows |-> IF m \in raw THEN s.raw[m] ELSE s.rollup[HourOf(m)][m]]
    BY <1>1 DEF HistoryRows
  <1>3. Within(Ledger(s), a, b) = [m \in known |-> RecordedBy(s, m)]
    BY DEF Within, Ledger
  <1>4. /\ DOMAIN s.rollup \subseteq Nat
        /\ \A m \in RecordedMinutes(s) : m \in Nat /\ HourOf(m) \in Nat
    <2>1. \A m \in RecordedMinutes(s) : m \in Nat
      BY RecordedType, StoreAssumption DEF Minute
    <2>. QED
      BY <2>1, StoreHours, HourOfNat
  <1>5. hours = {h \in DOMAIN s.rollup : c <= h /\ h < d}
    <2>1. ASSUME NEW h \in DOMAIN s.rollup
          PROVE  HourStart(c) <= HourStart(h) /\ HourStart(h + 1) <= HourStart(d) <=> c <= h /\ h < d
      <3>1. h \in Nat /\ h + 1 \in Nat
        BY <1>4
      <3>2. /\ HourStart(c) <= HourStart(h) <=> c <= h
            /\ HourStart(h + 1) <= HourStart(d) <=> h + 1 <= d
        BY <3>1, HourStartOrder
      <3>. QED
        BY <3>1, <3>2
    <2>. QED
      BY <2>1
  <1>6. \A m \in RecordedMinutes(s) : m \notin DOMAIN s.raw =>
           HourOf(m) \in PurgedHours(s) /\ HourOf(m) \in DOMAIN s.rollup
    BY RecordedPurged DEF PurgedHours
  <1>7. /\ RawPart(s, a, b, hourly) \subseteq a .. (b - 1)
        /\ \A m \in a .. (b - 1) :
              m \in RawPart(s, a, b, hourly) <=> HourOf(m) < c \/ d <= HourOf(m)
    BY <1>1, RawPartHours
  <1>8. \A m \in RawPart(s, a, b, hourly) : HourOf(m) \notin PurgedHours(s)
    BY DEF HistoryRefused, HoursOf
  <1>. HIDE DEF hours
  <1>9. ASSUME NEW m \in raw
        PROVE  m \in known /\ s.raw[m] = RecordedBy(s, m)
    BY <1>7 DEF RecordedMinutes, RecordedBy
  <1>10. ASSUME NEW h \in hours, NEW m \in DOMAIN s.rollup[h]
         PROVE  m \in known /\ m \notin raw /\ HourOf(m) = h /\ s.rollup[h][m] = RecordedBy(s, m)
    <2>1. h \in DOMAIN s.rollup /\ h \in Nat /\ c <= h /\ h < d
      BY <1>4, <1>5
    <2>2. m \in RecordedMinutes(s) /\ m \in Nat /\ HourOf(m) = h /\ s.rollup[h][m] = RecordedBy(s, m)
      BY <1>4, <2>1, DerivedHour
    <2>3. a <= m /\ m < b
      <3>1. /\ ~(m < HourStart(c)) /\ m < HourStart(d)
        BY <2>1, <2>2, HourOfWithin
      <3>2. HourStart(c) \in Nat /\ HourStart(d) \in Nat /\ HourStart(d) <= b
        BY <1>1, <2>1, HourStartOrder
      <3>. QED
        BY <1>1, <2>2, <3>1, <3>2
    <2>4. m \notin RawPart(s, a, b, hourly)
      BY <1>7, <2>1, <2>2, <2>3
    <2>. QED
      BY <2>2, <2>3, <2>4
  <1>11. ASSUME NEW m \in known
         PROVE  m \in rows
    <2>1. m \in a .. (b - 1) /\ m \in RecordedMinutes(s) /\ HourOf(m) \in Nat
      BY <1>4
    <2>2. CASE m \in RawPart(s, a, b, hourly)
      BY <1>6, <1>8, <2>1, <2>2
    <2>3. CASE m \notin RawPart(s, a, b, hourly)
      <3>1. c <= HourOf(m) /\ HourOf(m) < d
        BY <1>7, <2>1, <2>3
      <3>2. BelowRolled(s, HourOf(m))
        BY <1>1, <2>1, <3>1 DEF BelowRolled
      <3>3. HourOf(m) \in DOMAIN s.rollup
        <4>1. CASE m \in DOMAIN s.raw
          BY <3>2, <4>1 DEF StoreConsistent, RolledContiguous, RawHours, HoursOf
        <4>. QED
          BY <1>6, <2>1, <4>1
      <3>4. HourOf(m) \in hours /\ m \in DOMAIN s.rollup[HourOf(m)]
        BY <1>5, <2>1, <3>1, <3>3, DerivedHour
      <3>. QED
        BY <3>4
    <2>. QED
      BY <2>2, <2>3
  <1>12. rows = known
    BY <1>9, <1>10, <1>11
  <1>13. ASSUME NEW m \in rows
         PROVE  (IF m \in raw THEN s.raw[m] ELSE s.rollup[HourOf(m)][m]) = RecordedBy(s, m)
    BY <1>9, <1>10
  <1>. HIDE DEF rows, raw, known
  <1>. QED
    BY <1>2, <1>3, <1>12, <1>13

\* An hourly answer is refused only where the range cuts a purged hour.
LEMMA HistoryRefusal ==
  ASSUME NEW s, IsStore(s), NEW a \in Nat, NEW b \in Nat, a < b
  PROVE  HistoryRefused(s, a, b, TRUE) <=>
            \E h \in PurgedHours(s) :
                /\ HourStart(h) < b /\ a < HourStart(h + 1)
                /\ ~(a <= HourStart(h) /\ HourStart(h + 1) <= b)
  <1>1. PICK c \in Nat, d \in Nat :
            /\ RolledSpan(s, a, b, TRUE) = <<HourStart(c), HourStart(d)>>
            /\ c <= d
            /\ \A h \in Nat : a <= HourStart(h) <=> c <= h
            /\ c < d => HourStart(d) <= b
            /\ \A h \in DOMAIN s.rollup :
                  a <= HourStart(h) /\ HourStart(h + 1) <= b => c <= h /\ h < d
    BY RolledSpanHours
  <1>2. /\ RawPart(s, a, b, TRUE) \subseteq a .. (b - 1)
        /\ \A m \in a .. (b - 1) :
              m \in RawPart(s, a, b, TRUE) <=> HourOf(m) < c \/ d <= HourOf(m)
    BY <1>1, RawPartHours
  <1>3. \A h \in PurgedHours(s) : h \in DOMAIN s.rollup /\ h \in Nat /\ h + 1 \in Nat
    <2>1. \A h \in PurgedHours(s) : h \in DOMAIN s.rollup /\ h \in Nat
      BY StoreHours DEF PurgedHours
    <2>. QED
      BY <2>1
  <1>4. ASSUME HistoryRefused(s, a, b, TRUE)
        PROVE  \E h \in PurgedHours(s) :
                /\ HourStart(h) < b /\ a < HourStart(h + 1)
                /\ ~(a <= HourStart(h) /\ HourStart(h + 1) <= b)
    <2>1. PICK m \in RawPart(s, a, b, TRUE) : HourOf(m) \in PurgedHours(s)
      BY <1>4 DEF HistoryRefused, HoursOf
    <2>2. m \in Nat /\ a <= m /\ m < b /\ (HourOf(m) < c \/ d <= HourOf(m))
      <3>1. m \in a .. (b - 1)
        BY <1>2
      <3>2. m \in RawPart(s, a, b, TRUE)
        BY <2>1
      <3>3. HourOf(m) < c \/ d <= HourOf(m)
        BY <1>2, <3>1, <3>2, Zenon
      <3>4. m \in Nat /\ a <= m /\ m < b
        BY <3>1
      <3>. QED
        BY <3>3, <3>4
    <2>. DEFINE h == HourOf(m)
    <2>3. h \in Nat /\ h \in DOMAIN s.rollup /\ HourStart(h) <= m /\ m < HourStart(h + 1)
      BY <1>3, <2>1, <2>2, MinuteInHour
    <2>4. HourStart(h) \in Nat /\ HourStart(h + 1) \in Nat
      BY <1>3, <2>1, HourStartOrder
    <2>5. HourStart(h) < b /\ a < HourStart(h + 1)
      BY <2>2, <2>3, <2>4
    <2>6. ~(a <= HourStart(h) /\ HourStart(h + 1) <= b)
      BY <1>1, <2>2, <2>3
    <2>. QED
      BY <2>1, <2>5, <2>6
  <1>5. ASSUME NEW h \in PurgedHours(s), HourStart(h) < b, a < HourStart(h + 1),
               ~(a <= HourStart(h) /\ HourStart(h + 1) <= b)
        PROVE  HistoryRefused(s, a, b, TRUE)
    <2>. DEFINE m == IF a <= HourStart(h) THEN HourStart(h) ELSE a
    <2>1. /\ h \in Nat /\ HourStart(h) \in Nat /\ HourStart(h + 1) \in Nat
          /\ HourStart(h) < HourStart(h + 1)
      BY <1>3, HourStartOrder, StoreAssumption
    <2>2. m \in a .. (b - 1) /\ m \in Nat /\ HourStart(h) <= m /\ m < HourStart(h + 1)
      BY <1>5, <2>1
    <2>3. HourOf(m) = h
      BY <2>1, <2>2, HourOfWithin
    <2>4. h < c \/ d <= h
      <3>. SUFFICES ASSUME c <= h, h < d PROVE FALSE
        BY <2>1
      <3>1. a <= HourStart(h) /\ HourStart(d) <= b
        BY <1>1, <2>1
      <3>2. HourStart(h + 1) <= HourStart(d) /\ HourStart(d) \in Nat
        BY <1>3, <2>1, HourStartOrder
      <3>. QED
        BY <1>5, <2>1, <3>1, <3>2
    <2>5. m \in RawPart(s, a, b, TRUE)
      BY <1>2, <2>2, <2>3, <2>4
    <2>. QED
      BY <2>3, <2>5 DEF HistoryRefused, HoursOf
  <1>. QED
    BY <1>4, <1>5

-----------------------------------------------------------------------------
(* A process that only reads is a recorder, with an observed frontier.     *)

\* Observing a frontier is no step of the recorder.
LEMMA ReadSpecIsSpec == ReadSpec => Spec
  <1>1. ReadInit => Init
    BY DEF ReadInit
  <1>2. [ReadNext]_readVars => [Next]_vars
    BY DEF ReadNext, Observe, Next, readVars
  <1>. QED
    BY <1>1, <1>2, PTL DEF ReadSpec, Spec

\* Whatever a reader sees is a consistent store.
LEMMA ReadStores == ReadSpec => []StoreInv
  BY ReadSpecIsSpec, StoreInvariant, PTL

\* A range is a range of naturals.
LEMMA RangesAreNat ==
  \A r \in Ranges : r[1] \in Nat /\ r[2] \in Nat /\ r[1] < r[2]
  BY DEF Ranges

\* Whichever of rollup and raw minutes a range is answered from, at whatever moment
\* between a write, a roll, a backfill and a purge: history.py answers with exactly the
\* recorded minutes of the range, or refuses.
THEOREM HistoryIsExact == ReadSpec => []HistoryExact
  <1>1. StoreInv => HistoryExact
    <2>. SUFFICES ASSUME StoreInv, NEW r \in Ranges, NEW hourly \in BOOLEAN,
                         ~HistoryRefused(db, r[1], r[2], hourly)
                  PROVE  HistoryRows(db, r[1], r[2], hourly) = Within(Ledger(db), r[1], r[2])
      BY DEF HistoryExact
    <2>. QED
      BY RangesAreNat, HistoryAnswer DEF StoreInv, TypeOK, StoresConsistent
  <1>. QED
    BY <1>1, ReadStores, PTL

\* Starts of hours are the minutes that rounding down leaves alone.
LEMMA HourlyRange ==
  ASSUME NEW r \in HourlyRanges
  PROVE  \E c, d \in Nat : r[1] = HourStart(c) /\ r[2] = HourStart(d)
  <1>1. r \in Ranges /\ r[1] = FloorHour(r[1]) /\ r[2] = FloorHour(r[2])
    BY DEF HourlyRanges
  <1>2. r[1] \in Nat /\ r[2] \in Nat
    BY <1>1, RangesAreNat
  <1>3. /\ FloorHour(r[1]) = HourStart(HourOf(r[1])) /\ HourOf(r[1]) \in Nat
        /\ FloorHour(r[2]) = HourStart(HourOf(r[2])) /\ HourOf(r[2]) \in Nat
    BY <1>2, Rounding
  <1>. QED
    BY <1>1, <1>3

\* An hourly answer is refused exactly where the range cuts a purged hour; a range of whole
\* hours, which bucket=auto widens to hours as soon as a raw hour is gone, is never refused.
THEOREM RefusalIsJustified == ReadSpec => []RefusedOnlyAtCutHours
  <1>1. StoreInv => RefusedOnlyAtCutHours
    <2>. SUFFICES ASSUME StoreInv, NEW r \in Ranges
                  PROVE  /\ HistoryRefused(db, r[1], r[2], TRUE) <=>
                              \E h \in PurgedHours(db) :
                                  /\ HourStart(h) < r[2] /\ r[1] < HourStart(h + 1)
                                  /\ ~(r[1] <= HourStart(h) /\ HourStart(h + 1) <= r[2])
                         /\ r \in HourlyRanges =>
                              ~HistoryRefused(db, r[1], r[2], AutoHourly(db, r[1], r[2]))
      BY DEF RefusedOnlyAtCutHours
    <2>1. HistoryRefused(db, r[1], r[2], TRUE) <=>
             \E h \in PurgedHours(db) :
                 /\ HourStart(h) < r[2] /\ r[1] < HourStart(h + 1)
                 /\ ~(r[1] <= HourStart(h) /\ HourStart(h + 1) <= r[2])
      BY RangesAreNat, HistoryRefusal DEF StoreInv, TypeOK
    <2>2. ASSUME r \in HourlyRanges
          PROVE  ~HistoryRefused(db, r[1], r[2], TRUE)
      <3>1. PICK c \in Nat, d \in Nat : r[1] = HourStart(c) /\ r[2] = HourStart(d)
        BY <2>2, HourlyRange
      <3>2. ASSUME NEW h \in PurgedHours(db), HourStart(h) < r[2], r[1] < HourStart(h + 1)
            PROVE  r[1] <= HourStart(h) /\ HourStart(h + 1) <= r[2]
        <4>1. h \in Nat /\ h + 1 \in Nat
          <5>1. h \in Nat
            BY StoreHours DEF StoreInv, TypeOK, PurgedHours
          <5>. QED
            BY <5>1
        <4>2. /\ HourStart(h) \in Nat /\ HourStart(h + 1) \in Nat
              /\ HourStart(c) \in Nat /\ HourStart(d) \in Nat
              /\ d <= h <=> HourStart(d) <= HourStart(h)
              /\ h + 1 <= c <=> HourStart(h + 1) <= HourStart(c)
              /\ c <= h <=> HourStart(c) <= HourStart(h)
              /\ h + 1 <= d <=> HourStart(h + 1) <= HourStart(d)
          BY <4>1, HourStartOrder
        <4>. QED
          BY <3>1, <3>2, <4>1, <4>2
      <3>. QED
        BY <2>1, <3>2
    <2>3. ASSUME ~AutoHourly(db, r[1], r[2])
          PROVE  ~HistoryRefused(db, r[1], r[2], AutoHourly(db, r[1], r[2]))
      BY <2>3 DEF AutoHourly, HistoryRefused, RawPart, HoursOf
    <2>4. AutoHourly(db, r[1], r[2]) \in BOOLEAN
      BY DEF AutoHourly
    <2>. QED
      BY <2>1, <2>2, <2>3, <2>4
  <1>. QED
    BY <1>1, ReadStores, PTL

-----------------------------------------------------------------------------
(* The observed frontier.                                                  *)

\* The frontier of a request is at or below the open minute and every queued row, however
\* far both have moved since it was observed.
FrontierInv ==
    /\ closedUntil \in Minute
    /\ closedUntil <= minuteStart
    /\ \A k \in waiting \cup protected : closedUntil <= k

\* Observing takes the least of the clock, the open minute and the queued rows.
LEMMA ObservedLeast ==
  ASSUME TypeOK, Observe
  PROVE  FrontierInv'
  <1>1. PICK now \in Minute :
           closedUntil' = CHOOSE m \in {now, minuteStart} \cup waiting \cup protected :
                             \A k \in {now, minuteStart} \cup waiting \cup protected : m <= k
    BY DEF Observe
  <1>. DEFINE marks == {now, minuteStart} \cup waiting \cup protected
  <1>2. marks \subseteq Minute /\ minuteStart \in marks
    BY DEF TypeOK
  <1>. HIDE DEF marks
  <1>3. marks \subseteq Nat /\ marks # {}
    BY <1>2, StoreAssumption DEF Minute
  <1>4. \E m \in marks : \A k \in marks : m <= k
    BY <1>3, LeastNat
  <1>5. closedUntil' \in marks /\ \A k \in marks : closedUntil' <= k
    BY <1>1, <1>4 DEF marks
  <1>6. UNCHANGED <<minuteStart, waiting, protected>>
    BY DEF Observe, vars, minuteVars, queueVars
  <1>. QED
    BY <1>2, <1>5, <1>6 DEF FrontierInv, marks

\* Only a start begins a process.
LEMMA SameProcess ==
  ASSUME TypeOK, MqttEvent \/ RecorderStep \/ Resolve
  PROVE  ~Restart
  <1>1. proc' = proc
    BY DEF MqttEvent, RecorderStep, Resolve, Tick, Claim, Persist, Refuse, WriteFails, Acknowledge,
           Maintain, RollDone, Roll, RollFails, BackfillSkip, BackfillBegin, Backfill,
           BackfillFails, PurgeNothing, Purge
  <1>2. proc \in Nat
    BY DEF TypeOK, Process
  <1>. QED
    BY <1>1, <1>2 DEF Restart

\* Every step keeps the frontier.
LEMMA NextFrontier == TypeOK /\ TypeOK' /\ FrontierInv /\ [ReadNext]_readVars => FrontierInv'
  <1>. SUFFICES ASSUME TypeOK, TypeOK', FrontierInv, [ReadNext]_readVars PROVE FrontierInv'
    OBVIOUS
  <1>0. /\ minuteStart \in Nat /\ minuteStart' \in Nat /\ closedUntil \in Nat
        /\ \A m \in waiting' \cup protected' : m \in Nat
    BY StoreAssumption DEF TypeOK, FrontierInv, Minute
  <1>1. CASE (MqttEvent \/ RecorderStep \/ Resolve) /\ UNCHANGED closedUntil
    <2>1. /\ minuteStart <= minuteStart'
          /\ \A m \in waiting' \cup protected' : m \in waiting \cup protected \/ minuteStart <= m
      BY <1>1, SameProcess, ClockSteps DEF Next
    <2>. QED
      BY <1>0, <1>1, <2>1 DEF FrontierInv
  <1>2. CASE Restart /\ closedUntil' = 0
    BY <1>0, <1>2, StoreAssumption DEF Restart, FrontierInv, Minute
  <1>3. CASE Observe
    BY <1>3, ObservedLeast
  <1>4. CASE UNCHANGED readVars
    BY <1>4 DEF FrontierInv, readVars, vars, minuteVars, queueVars
  <1>. QED
    BY <1>1, <1>2, <1>3, <1>4 DEF ReadNext

\* The invariant of the frontier holds in every behaviour.
LEMMA FrontierInvariant == ReadSpec => []FrontierInv
  <1>1. ReadInit => FrontierInv
    BY StoreAssumption DEF ReadInit, Init, FrontierInv, Minute
  <1>2. ReadSpec => []TypeOK
    BY ReadSpecIsSpec, TypeCorrect, PTL
  <1>. QED
    BY <1>1, <1>2, NextFrontier, PTL DEF ReadSpec

\* However long ago a request observed its frontier, no write of the running process, and
\* no late commit of one, reaches below it; nor does one of an earlier process, once the
\* backfill of this one is complete.
THEOREM ObservedStaysFinal == ReadSpec => ObservedIsFinal
  <1>1. RowsInv /\ OwnDoubt /\ FrontierInv /\ [ReadNext]_readVars =>
          [\A m \in Minute, p \in Process :
              m < closedUntil /\ closedUntil' = closedUntil /\ (p = proc \/ backfilled)
                  => (StoredBy(db', m, p) => StoredBy(db, m, p))]_readVars
    <2>. SUFFICES ASSUME RowsInv, OwnDoubt, FrontierInv, [ReadNext]_readVars,
                         NEW m \in Minute, NEW p \in Process, m < closedUntil,
                         p = proc \/ backfilled, StoredBy(db', m, p), ~StoredBy(db, m, p)
                  PROVE  FALSE
      OBVIOUS
    <2>1. [Next]_vars
      BY DEF ReadNext, Observe, Next, readVars
    <2>2. p = proc
      BY <2>1, OthersAreKept DEF RowsInv
    <2>3. m \in protected
      BY <2>1, <2>2, OnlyProtectedIsNew
    <2>4. m \in Nat /\ closedUntil \in Nat /\ closedUntil <= m
      BY <2>3, StoreAssumption DEF FrontierInv, Minute
    <2>. QED
      BY <2>4
  <1>2. ReadSpec => [](RowsInv /\ OwnDoubt)
    BY ReadSpecIsSpec, RowsInvariant, OwnInvariant, PTL
  <1>. QED
    BY <1>1, <1>2, FrontierInvariant, PTL DEF ReadSpec, ObservedIsFinal

-----------------------------------------------------------------------------
(* activity_history.py.                                                    *)

\* No hour's segments contradict its rollup.
LEMMA RecordIsValid ==
  ASSUME NEW s, IsStore(s), StoreConsistent(s), NEW h, NEW edge
  PROVE  ~RecordInvalid(s, h, edge)
  <1>1. ASSUME Durable(s, h, edge)
        PROVE  h \in DOMAIN s.rollup /\ s.activity[h] = s.rollup[h]
    BY <1>1, DerivedHour DEF Durable, StoreConsistent, SegmentsAreRolled
  <1>. QED
    BY <1>1 DEF RecordInvalid

\* The evidence of an hour that is not missing is what is recorded of it, below the
\* frontier if it comes from raw minutes.
LEMMA HourEvidenceExact ==
  ASSUME NEW s, IsStore(s), StoreConsistent(s), closedUntil \in Nat, NEW h \in Nat, NEW edge
  PROVE  /\ \A m \in DOMAIN HourEvidence(s, h, edge) :
               /\ m \in RecordedMinutes(s) /\ HourOf(m) = h
               /\ HourEvidence(s, h, edge)[m] = RecordedBy(s, m)
         /\ ~Lost(s, h, edge) =>
               \A m \in RecordedMinutes(s) :
                  HourOf(m) = h /\ m < closedUntil => m \in DOMAIN HourEvidence(s, h, edge)
  <1>0. \A m \in RecordedMinutes(s) : m \in Nat
    BY RecordedType, StoreAssumption DEF Minute
  <1>1. CASE Durable(s, h, edge)
    <2>1. h \in DOMAIN s.rollup /\ s.activity[h] = s.rollup[h]
      BY <1>1, DerivedHour DEF Durable, StoreConsistent, SegmentsAreRolled
    <2>2. HourEvidence(s, h, edge) = s.rollup[h]
      BY <1>1, <2>1 DEF HourEvidence
    <2>. QED
      BY <2>1, <2>2, DerivedHour
  <1>2. CASE ~Durable(s, h, edge)
    <2>1. /\ DOMAIN HourEvidence(s, h, edge) =
                {m \in DOMAIN s.raw : HourOf(m) = h /\ 0 <= m /\ m < closedUntil}
          /\ \A m \in DOMAIN HourEvidence(s, h, edge) : HourEvidence(s, h, edge)[m] = s.raw[m]
      BY <1>2 DEF HourEvidence, RawBelow, Within, HourRows, RawMinutes
    <2>2. ASSUME ~Lost(s, h, edge), NEW m \in RecordedMinutes(s), HourOf(m) = h, m < closedUntil
          PROVE  m \in DOMAIN s.raw
      <3>. SUFFICES ASSUME m \notin DOMAIN s.raw PROVE Lost(s, h, edge)
        BY <2>2
      <3>1. h \in PurgedHours(s)
        BY <2>2, RecordedPurged
      <3>2. DOMAIN RawBelow(s, h) = {}
        BY <3>1 DEF PurgedHours, RawHours, HoursOf, RawBelow, Within, HourRows, RawMinutes
      <3>. QED
        BY <1>2, <3>1, <3>2 DEF Lost, PurgedHours
    <2>. QED
      BY <1>0, <2>1, <2>2 DEF RecordedMinutes, RecordedBy
  <1>. QED
    BY <1>1, <1>2

\* Activity that is answered rests on exactly the recorded minutes below the frontier.
LEMMA ActivityAnswer ==
  ASSUME NEW s, IsStore(s), StoreConsistent(s), closedUntil \in Nat,
         NEW a \in Nat, NEW b \in Nat, NEW edge, ~ActivityRefused(s, a, b, edge)
  PROVE  ActivityRows(s, a, b, edge) = Within(Ledger(s), a, Lesser(b, closedUntil))
  <1>. DEFINE limit == Lesser(b, closedUntil)
              hours == HoursOf(a .. (b - 1)) \cap Hour
              held  == UNION {DOMAIN HourEvidence(s, h, edge) : h \in hours}
              known == {m \in RecordedMinutes(s) : a <= m /\ m < limit}
  <1>0. limit \in Nat /\ limit <= b /\ limit <= closedUntil
    BY DEF Lesser
  <1>1. \A m \in RecordedMinutes(s) : m \in Nat /\ m \in Minute /\ HourOf(m) \in Hour
    BY RecordedType, StoreAssumption, HourOfMinute DEF Minute
  <1>2. \A h \in hours : h \in Nat
    BY DEF Hour
  <1>3. \A h \in hours : \A m \in DOMAIN HourEvidence(s, h, edge) :
           /\ m \in RecordedMinutes(s) /\ HourOf(m) = h
           /\ HourEvidence(s, h, edge)[m] = RecordedBy(s, m)
    BY <1>2, HourEvidenceExact
  <1>4. ASSUME NEW m \in known
        PROVE  m \in held
    <2>1. m \in Nat /\ a <= m /\ m < limit /\ m \in RecordedMinutes(s)
      BY <1>1
    <2>2. m \in a .. (b - 1) /\ m \in a .. (limit - 1) /\ m < closedUntil
      BY <1>0, <2>1
    <2>3. HourOf(m) \in hours
      BY <1>1, <2>1, <2>2 DEF HoursOf
    <2>4. ~Lost(s, HourOf(m), edge)
      BY <2>2 DEF ActivityRefused, HoursOf
    <2>5. m \in DOMAIN HourEvidence(s, HourOf(m), edge)
      BY <1>2, <2>1, <2>2, <2>3, <2>4, HourEvidenceExact
    <2>. QED
      BY <2>3, <2>5
  <1>5. ActivityRows(s, a, b, edge) =
           [m \in {k \in held : a <= k /\ k < limit} |-> HourEvidence(s, HourOf(m), edge)[m]]
    BY DEF ActivityRows, Within
  <1>6. Within(Ledger(s), a, limit) = [m \in known |-> RecordedBy(s, m)]
    BY DEF Within, Ledger
  <1>. HIDE DEF hours, limit
  <1>7. {k \in held : a <= k /\ k < limit} = known
    BY <1>3, <1>4
  <1>8. \A m \in known : HourEvidence(s, HourOf(m), edge)[m] = RecordedBy(s, m)
    BY <1>3, <1>4
  <1>. HIDE DEF known, held
  <1>. QED
    BY <1>5, <1>6, <1>7, <1>8 DEF limit

\* Once the backfill is complete an hour is refused only when its raw minutes are gone: one
\* that has them has segments, whatever the frontier, and an hour with segments is lost only
\* as the raw edge.
LEMMA UnavailableIsPurged == ReadSpec => []UnavailableMeansPurged
  <1>1. BackfilledMeansMaterialized /\ FrontierInv => UnavailableMeansPurged
    <2>. SUFFICES ASSUME BackfilledMeansMaterialized, FrontierInv, backfilled,
                         NEW r \in Ranges, NEW edge \in {NoEdge, RawEdge(TRUE)},
                         NEW h \in HoursOf(r[1] .. (Lesser(r[2], closedUntil) - 1)),
                         Lost(db, h, edge), h \notin edge
                  PROVE  h \notin RawHours(db)
      BY DEF UnavailableMeansPurged, Lost, PurgedHours
    <2>0. SUFFICES ASSUME h \in RawHours(db) PROVE FALSE
      OBVIOUS
    <2>1. h \in DOMAIN db.activity
      BY <2>0 DEF BackfilledMeansMaterialized, Lost
    <2>2. PICK e \in edge : ~(h < e)
      BY <2>1 DEF Lost, Durable
    <2>3. e = HourOf(closedUntil)
      BY <2>2 DEF NoEdge, RawEdge
    <2>4. closedUntil \in Nat /\ r[1] \in Nat /\ r[2] \in Nat
      BY RangesAreNat, StoreAssumption DEF FrontierInv, Minute
    <2>5. PICK m \in r[1] .. (Lesser(r[2], closedUntil) - 1) : h = HourOf(m)
      BY DEF HoursOf
    <2>6. m \in Nat /\ m < closedUntil
      BY <2>4, <2>5 DEF Lesser
    <2>7. h \in Nat /\ e \in Nat /\ e + 1 \in Nat
      <3>1. HourOf(m) \in Nat /\ HourOf(closedUntil) \in Nat
        BY <2>4, <2>6, MinuteInHour
      <3>. QED
        BY <2>3, <2>5, <3>1
    <2>8. m < HourStart(e + 1)
      <3>1. closedUntil < HourStart(e + 1) /\ HourStart(e + 1) \in Nat
        BY <2>3, <2>4, <2>7, MinuteInHour, HourStartOrder
      <3>. QED
        BY <2>4, <2>6, <3>1
    <2>9. h < e + 1
      BY <2>5, <2>6, <2>7, <2>8, HourOfWithin
    <2>. QED
      BY <2>2, <2>7, <2>9
  <1>2. ReadSpec => []BackfilledMeansMaterialized
    BY ReadSpecIsSpec, BackfillIsComplete, PTL
  <1>. QED
    BY <1>1, <1>2, FrontierInvariant, PTL

\* Activity is answered from durable segments, raw minutes of hours without them or a raw
\* edge, and rests on exactly the recorded minutes below the frontier or is refused; no
\* hour's segments contradict its rollup, and after the backfill only a purged hour refuses.
THEOREM ActivityIsExact == ReadSpec => []ActivityExact
  <1>1. StoreInv /\ FrontierInv /\ UnavailableMeansPurged => ActivityExact
    <2>. SUFFICES ASSUME StoreInv, FrontierInv, NEW r \in Ranges, NEW edge
                  PROVE  /\ \A h \in HoursOf(r[1] .. (r[2] - 1)) : ~RecordInvalid(db, h, edge)
                         /\ \/ ActivityRefused(db, r[1], r[2], edge)
                            \/ ActivityRows(db, r[1], r[2], edge) =
                                  Within(Ledger(db), r[1], Lesser(r[2], closedUntil))
      BY DEF ActivityExact
    <2>1. IsStore(db) /\ StoreConsistent(db) /\ closedUntil \in Nat
      BY StoreAssumption DEF StoreInv, TypeOK, StoresConsistent, FrontierInv, Minute
    <2>. QED
      BY <2>1, RecordIsValid, ActivityAnswer, RangesAreNat
  <1>. QED
    BY <1>1, ReadStores, FrontierInvariant, UnavailableIsPurged, PTL

-----------------------------------------------------------------------------
(* report_read.py.                                                         *)

\* With a raw edge no durable hour that the frontier cuts is used.
LEMMA DurableIsWhole ==
  ASSUME closedUntil \in Nat, NEW s, NEW d \in Nat, NEW m \in Nat,
         m < Lesser(HourStart(d), closedUntil), Durable(s, HourOf(m), RawEdge(TRUE))
  PROVE  HourStart(HourOf(m) + 1) <= Lesser(HourStart(d), closedUntil)
  <1>. DEFINE h == HourOf(m)
              k == HourOf(closedUntil)
  <1>1. /\ h \in Nat /\ k \in Nat /\ h + 1 \in Nat
        /\ HourStart(h) <= m /\ HourStart(k) <= closedUntil
        /\ FloorHour(closedUntil) = HourStart(k)
    <2>1. h \in Nat /\ HourStart(h) <= m
      BY MinuteInHour
    <2>2. k \in Nat /\ HourStart(k) <= closedUntil
      BY MinuteInHour
    <2>3. FloorHour(closedUntil) = HourStart(k)
      BY Rounding
    <2>. QED
      BY <2>1, <2>2, <2>3
  <1>2. /\ HourStart(h) \in Nat /\ HourStart(d) \in Nat /\ HourStart(k) \in Nat
        /\ HourStart(h + 1) \in Nat
        /\ h + 1 <= d <=> HourStart(h + 1) <= HourStart(d)
        /\ h + 1 <= k <=> HourStart(h + 1) <= HourStart(k)
    BY <1>1, HourStartOrder
  <1>3. m < HourStart(d) /\ m < closedUntil
    BY <1>2 DEF Lesser
  <1>4. HourStart(h + 1) <= HourStart(d)
    <2>1. HourOf(m) < d <=> m < HourStart(d)
      BY HourOfWithin
    <2>. QED
      BY <1>1, <1>2, <1>3, <2>1
  <1>5. HourStart(h + 1) <= closedUntil
    <2>1. h < k
      <3>1. CASE closedUntil = FloorHour(closedUntil)
        <4>1. m < HourStart(k)
          BY <1>1, <1>3, <3>1
        <4>2. HourOf(m) < k <=> m < HourStart(k)
          BY <1>1, HourOfWithin
        <4>. QED
          BY <4>1, <4>2
      <3>2. CASE closedUntil # FloorHour(closedUntil)
        BY <3>2 DEF Durable, RawEdge
      <3>. QED
        BY <3>1, <3>2
    <2>. QED
      BY <1>1, <1>2, <2>1
  <1>. QED
    BY <1>4, <1>5 DEF Lesser

\* Whatever was rolled, backfilled or purged since the report observed the frontier, its
\* history and its activity hold the same minutes of every hour, and no durable hour that
\* the frontier cuts is used.
THEOREM ReportIsConsistent == ReadSpec => []ReportAgrees
  <1>1. StoreInv /\ FrontierInv => ReportAgrees
    <2>. SUFFICES ASSUME StoreInv, FrontierInv, NEW r \in HourlyRanges
                  PROVE  LET limit == Lesser(r[2], closedUntil)
                             edge == RawEdge(TRUE)
                         IN  r[1] < limit =>
                               \/ HistoryRefused(db, r[1], limit, TRUE)
                               \/ ActivityRefused(db, r[1], limit, edge)
                               \/ \A h \in HoursOf(r[1] .. (limit - 1)) :
                                      /\ Cardinality({m \in DOMAIN HistoryRows(db, r[1], limit, TRUE) : HourOf(m) = h})
                                           = Cardinality({m \in DOMAIN ActivityRows(db, r[1], limit, edge) : HourOf(m) = h})
                                      /\ Durable(db, h, edge) => HourStart(h + 1) <= limit
      BY DEF ReportAgrees
    <2>. DEFINE limit == Lesser(r[2], closedUntil)
                edge  == RawEdge(TRUE)
    <2>. SUFFICES ASSUME r[1] < limit,
                         ~HistoryRefused(db, r[1], limit, TRUE),
                         ~ActivityRefused(db, r[1], limit, edge),
                         NEW h \in HoursOf(r[1] .. (limit - 1))
                  PROVE  /\ HistoryRows(db, r[1], limit, TRUE) = ActivityRows(db, r[1], limit, edge)
                         /\ Durable(db, h, edge) => HourStart(h + 1) <= limit
      OBVIOUS
    <2>1. IsStore(db) /\ StoreConsistent(db) /\ closedUntil \in Nat
      BY StoreAssumption DEF StoreInv, TypeOK, StoresConsistent, FrontierInv, Minute
    <2>2. r \in Ranges /\ r[1] \in Nat /\ r[2] \in Nat
      BY RangesAreNat DEF HourlyRanges
    <2>3. limit \in Nat /\ Lesser(limit, closedUntil) = limit
      BY <2>1, <2>2 DEF Lesser
    <2>4. HistoryRows(db, r[1], limit, TRUE) = ActivityRows(db, r[1], limit, edge)
      <3>. HIDE DEF limit, edge
      <3>1. HistoryRows(db, r[1], limit, TRUE) = Within(Ledger(db), r[1], limit)
        BY <2>1, <2>2, <2>3, HistoryAnswer
      <3>2. ActivityRows(db, r[1], limit, edge) = Within(Ledger(db), r[1], Lesser(limit, closedUntil))
        BY <2>1, <2>2, <2>3, ActivityAnswer
      <3>. QED
        BY <2>3, <3>1, <3>2
    <2>5. ASSUME Durable(db, h, edge)
          PROVE  HourStart(h + 1) <= limit
      <3>1. PICK m \in r[1] .. (limit - 1) : h = HourOf(m)
        BY DEF HoursOf
      <3>2. m \in Nat /\ m < limit
        BY <2>2, <2>3, <3>1
      <3>3. PICK d \in Nat : r[2] = HourStart(d)
        BY HourlyRange
      <3>. QED
        BY <2>1, <2>5, <3>1, <3>2, <3>3, DurableIsWhole
    <2>. QED
      BY <2>4, <2>5
  <1>. QED
    BY <1>1, ReadStores, FrontierInvariant, PTL
=============================================================================
