------------------------- MODULE ActivityReadProofs -------------------------
(***************************************************************************)
(* Theorems about activity for every hour length, every history of minutes *)
(* and every value they may hold: what the rules make of an unknown        *)
(* column; that the segments stored for an hour can be read back and count *)
(* exactly its recorded minutes; that a widened query tells of its range   *)
(* what all the evidence does; that its counts add up; and that a report   *)
(* never contradicts itself or /activity.                                  *)
(*                                                                         *)
(* The second half is one argument.  Of the evidence of a query, from      *)
(* segments or raw minutes, each recorded minute is in one segment         *)
(* (Tiles); the timeline of it is Laid, every minute in one item that      *)
(* tells what is known of it; its spans are the runs of equal minutes      *)
(* inside the hours examined, as the true spans are the runs before the    *)
(* frontier (SpansAreRuns, TrueSpansAreRuns); and the rounds of            *)
(* load_timeline end when no run of the range is cut (WidenedDecides).     *)
(***************************************************************************)
EXTENDS ActivityRead, FiniteSetTheorems, TLAPS

-----------------------------------------------------------------------------
(* Classification.                                                         *)

LEMMA CompressorCases ==
  ASSUME NEW v \in Values
  PROVE  /\ v.compressor_freq = NULL => Compressor(v) = "unknown"
         /\ v.compressor_freq = 0 => Compressor(v) = "off"
         /\ v.compressor_freq = 1 => Compressor(v) = "on"
         /\ v.compressor_freq \in {NULL, 0, 1}
  BY DEF Values, Compressor, NULL

LEMMA ClassifyCases ==
  ASSUME NEW v \in Values
  PROVE  /\ v.defrosting_state \in {NULL, 0, 1, 2}
         /\ v.defrosting_state = NULL => Classify(v) = "unknown"
         /\ v.defrosting_state \in {1, 2} => Classify(v) = "defrost"
         /\ v.defrosting_state = 0 =>
               /\ Compressor(v) = "unknown" => Classify(v) = "unknown"
               /\ Compressor(v) = "off" => Classify(v) = StoppedActivity(v)
               /\ Compressor(v) = "on" => Classify(v) = RunningActivity(v)
  <1>1. v.defrosting_state \in {NULL, 0, 1, 2}
    BY DEF Values
  <1>2. Compressor(v) \in {"unknown", "off", "on"}
    BY CompressorCases
  <1> QED BY <1>1, <1>2 DEF Classify, NULL

\* The three families of answers.
LEMMA SideTypes ==
  /\ \A v : StoppedActivity(v) \in {"unknown", "off", "idle"}
  /\ \A channels : PowerSide(channels) \in {"active", "unknown", "inactive"}
  /\ \A v : PowerActivity(v) \in {"transition", "co", "dhw", "unknown"}
  /\ \A v : RunningActivity(v) \in {"transition", "co", "dhw", "unknown"}
  <1>1. \A v : StoppedActivity(v) \in {"unknown", "off", "idle"}
    BY DEF StoppedActivity
  <1>2. \A channels : PowerSide(channels) \in {"active", "unknown", "inactive"}
    BY DEF PowerSide
  <1>3. \A v : PowerActivity(v) \in {"transition", "co", "dhw", "unknown"}
    BY DEF PowerActivity
  <1>4. \A v : RunningActivity(v) \in {"transition", "co", "dhw", "unknown"}
    BY <1>3 DEF RunningActivity
  <1> QED BY <1>1, <1>2, <1>3, <1>4

\* What a segment of such a minute must satisfy to be read back.
LEMMA ClassDecodes ==
  ASSUME NEW v \in Values
  PROVE  /\ Classify(v) \in ActivitiesWith(Compressor(v))
         /\ Classify(v) = "defrost" <=> v.defrosting_state > 0
         /\ v.defrosting_state = NULL => Classify(v) = "unknown"
  <1>1. Compressor(v) \in {"unknown", "off", "on"}
    BY CompressorCases
  <1>2. v.defrosting_state \in {NULL, 0, 1, 2}
    BY ClassifyCases
  <1>3. CASE v.defrosting_state = NULL
    <2>1. Classify(v) = "unknown"
      BY <1>3, ClassifyCases
    <2> QED BY <1>1, <1>3, <2>1 DEF ActivitiesWith, NULL
  <1>4. CASE v.defrosting_state \in {1, 2}
    <2>1. Classify(v) = "defrost"
      BY <1>4, ClassifyCases
    <2> QED BY <1>1, <1>4, <2>1 DEF ActivitiesWith, NULL
  <1>5. CASE v.defrosting_state = 0
    <2>1. CASE Compressor(v) = "unknown"
      BY <1>5, <2>1, ClassifyCases DEF ActivitiesWith, NULL
    <2>2. CASE Compressor(v) = "off"
      BY <1>5, <2>2, ClassifyCases, SideTypes DEF ActivitiesWith, NULL
    <2>3. CASE Compressor(v) = "on"
      BY <1>5, <2>3, ClassifyCases, SideTypes DEF ActivitiesWith, NULL
    <2> QED BY <1>1, <2>1, <2>2, <2>3
  <1> QED BY <1>2, <1>3, <1>4, <1>5

\* Not knowing a channel leaves a side active only if it was, and never makes it inactive.
LEMMA SideWithNull ==
  ASSUME NEW c \in {NULL, 0, 1}, NEW d \in {NULL, 0, 1}
  PROVE  /\ PowerSide({NULL, d}) \in {PowerSide({c, d}), "unknown"}
         /\ PowerSide({c, NULL}) \in {PowerSide({c, d}), "unknown"}
  BY DEF PowerSide, NULL

\* Not knowing a side leaves the activity or makes it unknown.
LEMMA PowerWithNull ==
  ASSUME NEW v, NEW w,
         PowerSide({w.co_power_consumption, w.co_power_production})
            \in {PowerSide({v.co_power_consumption, v.co_power_production}), "unknown"},
         PowerSide({w.dhw_power_consumption, w.dhw_power_production})
            \in {PowerSide({v.dhw_power_consumption, v.dhw_power_production}), "unknown"}
  PROVE  PowerActivity(w) \in {PowerActivity(v), "unknown"}
  BY SideTypes DEF PowerActivity

Columns == {"compressor_freq", "defrosting_state", "heatpump_state", "three_way_valve",
            "co_power_consumption", "co_power_production",
            "dhw_power_consumption", "dhw_power_production"}

\* Two minutes that differ in nothing the running rules read, or in one power channel.
LEMMA RunningWithNull ==
  ASSUME NEW v, NEW w, w.three_way_valve = v.three_way_valve,
         PowerActivity(w) \in {PowerActivity(v), "unknown"}
  PROVE  RunningActivity(w) \in {RunningActivity(v), "unknown"}
  BY DEF RunningActivity

\* A minute without one of the columns is known as it was, or unknown.
LEMMA NullColumn ==
  ASSUME NEW v \in Values, NEW column \in Columns \ {"three_way_valve"}
  PROVE  Classify([v EXCEPT ![column] = NULL]) \in {Classify(v), "unknown"}
  <1> DEFINE w == [v EXCEPT ![column] = NULL]
  <1>1. /\ w \in Values
        /\ w[column] = NULL
        /\ \A other \in Columns : other # column => w[other] = v[other]
    BY DEF Columns, Values, NULL
  <1> HIDE DEF w
  <1>2. /\ Compressor(v) \in {"unknown", "off", "on"}
        /\ v.compressor_freq = w.compressor_freq => Compressor(w) = Compressor(v)
    BY CompressorCases DEF Compressor
  <1>3. v.defrosting_state \in {NULL, 0, 1, 2}
    BY ClassifyCases
  <1>4. CASE column = "defrosting_state"
    <2>1. Classify(w) = "unknown"
      BY <1>1, <1>4, ClassifyCases
    <2> QED BY <2>1 DEF w
  <1>5. CASE column # "defrosting_state"
    <2>1. w.defrosting_state = v.defrosting_state
      BY <1>1, <1>5 DEF Columns
    <2>2. CASE v.defrosting_state = NULL
      BY <1>1, <2>1, <2>2, ClassifyCases DEF w
    <2>3. CASE v.defrosting_state \in {1, 2}
      BY <1>1, <2>1, <2>3, ClassifyCases DEF w
    <2>4. CASE v.defrosting_state = 0
      <3>1. CASE column = "compressor_freq"
        <4>1. Compressor(w) = "unknown"
          BY <1>1, <3>1, CompressorCases
        <4>2. Classify(w) = "unknown"
          BY <1>1, <2>1, <2>4, <4>1, ClassifyCases
        <4> QED BY <4>2 DEF w
      <3>2. CASE column # "compressor_freq"
        <4>1. Compressor(w) = Compressor(v)
          BY <1>1, <1>2, <3>2 DEF Columns
        <4>2. StoppedActivity(w) \in {StoppedActivity(v), "unknown"}
          <5>1. CASE column = "heatpump_state"
            <6>1. w.heatpump_state = NULL
              BY <1>1, <5>1
            <6> QED BY <6>1 DEF StoppedActivity, NULL
          <5>2. CASE column # "heatpump_state"
            <6>1. w.heatpump_state = v.heatpump_state
              BY <1>1, <5>2 DEF Columns
            <6> QED BY <6>1 DEF StoppedActivity, NULL
          <5> QED BY <5>1, <5>2
        <4>3. PowerActivity(w) \in {PowerActivity(v), "unknown"}
          <5>1. /\ w.co_power_consumption \in {v.co_power_consumption, NULL}
                /\ w.co_power_production \in {v.co_power_production, NULL}
                /\ \/ w.co_power_consumption = v.co_power_consumption
                   \/ w.co_power_production = v.co_power_production
                /\ w.dhw_power_consumption \in {v.dhw_power_consumption, NULL}
                /\ w.dhw_power_production \in {v.dhw_power_production, NULL}
                /\ \/ w.dhw_power_consumption = v.dhw_power_consumption
                   \/ w.dhw_power_production = v.dhw_power_production
            BY <1>1 DEF Columns
          <5>2. /\ v.co_power_consumption \in {NULL, 0, 1} /\ v.co_power_production \in {NULL, 0, 1}
                /\ v.dhw_power_consumption \in {NULL, 0, 1} /\ v.dhw_power_production \in {NULL, 0, 1}
            BY DEF Values
          <5>3. PowerSide({w.co_power_consumption, w.co_power_production})
                   \in {PowerSide({v.co_power_consumption, v.co_power_production}), "unknown"}
            BY <5>1, <5>2, SideWithNull
          <5>4. PowerSide({w.dhw_power_consumption, w.dhw_power_production})
                   \in {PowerSide({v.dhw_power_consumption, v.dhw_power_production}), "unknown"}
            BY <5>1, <5>2, SideWithNull
          <5> QED BY <5>3, <5>4, PowerWithNull
        <4>4. RunningActivity(w) \in {RunningActivity(v), "unknown"}
          <5>1. w.three_way_valve = v.three_way_valve
            BY <1>1 DEF Columns
          <5> QED BY <4>3, <5>1, RunningWithNull
        <4>5. CASE Compressor(v) = "unknown"
          BY <1>1, <2>1, <2>4, <4>1, <4>5, ClassifyCases DEF w
        <4>6. CASE Compressor(v) = "off"
          <5>1. Classify(w) = StoppedActivity(w) /\ Classify(v) = StoppedActivity(v)
            BY <1>1, <2>1, <2>4, <4>1, <4>6, ClassifyCases
          <5> QED BY <4>2, <5>1 DEF w
        <4>7. CASE Compressor(v) = "on"
          <5>1. Classify(w) = RunningActivity(w) /\ Classify(v) = RunningActivity(v)
            BY <1>1, <2>1, <2>4, <4>1, <4>7, ClassifyCases
          <5> QED BY <4>4, <5>1 DEF w
        <4> QED BY <1>2, <4>5, <4>6, <4>7
      <3> QED BY <3>1, <3>2
    <2> QED BY <1>3, <2>2, <2>3, <2>4
  <1> QED BY <1>4, <1>5

\* Whatever a minute holds, not knowing a column never turns one activity into another.
LEMMA NullInvents == NullNeverInvents
  <1> SUFFICES ASSUME NEW v \in Values, NEW column \in DOMAIN v \ {"three_way_valve"}
               PROVE  Classify([v EXCEPT ![column] = NULL]) \in {Classify(v), "unknown"}
    BY DEF NullNeverInvents
  <1>1. DOMAIN v = Columns
    BY DEF Values, Columns
  <1> QED BY <1>1, NullColumn

\* "None is an unknown metric, never zero" (classify), for every combination of values.
THEOREM NullStaysUnknown == Spec => []NullNeverInvents
  BY NullInvents, PTL

-----------------------------------------------------------------------------
(* Hours, and the least element of a set of minutes.                       *)

Grid == INSTANCE HistoryStoreProofs WITH MaxProcesses <- 1

LEMMA GridAssumption == Grid!StoreAssumption
  BY ActivityAssumption, ActivityReadAssumption DEF Grid!StoreAssumption

LEMMA LeastElement ==
  ASSUME NEW T, T \subseteq Nat, T # {}
  PROVE  Least(T) \in T /\ \A y \in T : Least(T) <= y
  <1>1. \E x \in T : \A y \in T : x <= y
    BY GridAssumption, Grid!LeastNat
  <1> QED BY <1>1 DEF Least

\* An hour holds MinutesPerHour minutes, and each of them lies in no other hour.
LEMMA HourMinutes ==
  ASSUME NEW h \in Nat
  PROVE  /\ MinutesPerHour \in Nat /\ MinutesPerHour >= 1
         /\ h * MinutesPerHour \in Nat
         /\ Minutes(h) = (h * MinutesPerHour) .. (h * MinutesPerHour + MinutesPerHour - 1)
         /\ \A m \in Minutes(h) : m \in Nat /\ HourOf(m) = h /\ FloorHour(m) = h * MinutesPerHour
  <1>1. MinutesPerHour \in Nat /\ MinutesPerHour >= 1
    BY ActivityAssumption
  <1>2. h * MinutesPerHour \in Nat /\ (h + 1) * MinutesPerHour = h * MinutesPerHour + MinutesPerHour
    BY <1>1, SMT
  <1>3. ASSUME NEW k \in Nat, NEW n \in Nat, k < n
        PROVE  k * MinutesPerHour + MinutesPerHour <= n * MinutesPerHour
    BY <1>1, <1>3, SMT
  <1>4. ASSUME NEW m \in Nat, h * MinutesPerHour <= m, m < h * MinutesPerHour + MinutesPerHour
        PROVE  m \div MinutesPerHour = h
    <2> DEFINE q == m \div MinutesPerHour
               x == q * MinutesPerHour
               y == h * MinutesPerHour
    <2>1. q \in Nat /\ x \in Nat /\ y \in Nat /\ x <= m /\ m < x + MinutesPerHour
      BY <1>1, SMT
    <2>2. y <= m /\ m < y + MinutesPerHour
      BY <1>4
    <2>3. q < h => x + MinutesPerHour <= y
      BY <1>3, <2>1
    <2>4. h < q => y + MinutesPerHour <= x
      BY <1>3, <2>1
    <2> HIDE DEF q, x, y
    <2>5. q = h
      BY <1>1, <2>1, <2>2, <2>3, <2>4
    <2> QED BY <2>5 DEF q
  <1>5. Minutes(h) = (h * MinutesPerHour) .. (h * MinutesPerHour + MinutesPerHour - 1)
    <2> DEFINE y == h * MinutesPerHour
               z == (h + 1) * MinutesPerHour
    <2>1. Minutes(h) = y .. (z - 1)
      BY DEF Minutes
    <2>2. z = y + MinutesPerHour /\ y \in Nat
      BY <1>2
    <2> HIDE DEF y, z
    <2>3. z - 1 = y + MinutesPerHour - 1
      BY <1>1, <2>2
    <2>4. Minutes(h) = y .. (y + MinutesPerHour - 1)
      BY <2>1, <2>3, Zenon
    <2> QED BY <2>4 DEF y
  <1>6. ASSUME NEW m \in Minutes(h)
        PROVE  m \in Nat /\ HourOf(m) = h
    <2> DEFINE y == h * MinutesPerHour
    <2>1. m \in y .. (y + MinutesPerHour - 1) /\ y \in Nat
      BY <1>2, <1>5
    <2> HIDE DEF y
    <2>2. m \in Nat /\ y <= m /\ m < y + MinutesPerHour
      BY <1>1, <2>1
    <2> QED BY <1>4, <2>2 DEF y, HourOf
  <1> QED BY <1>1, <1>2, <1>5, <1>6 DEF FloorHour

-----------------------------------------------------------------------------
(* The segments of one hour.                                               *)

\* Recorded minutes of hour h.
HourRows(rs, h) == DOMAIN rs \subseteq Minutes(h) /\ \A m \in DOMAIN rs : rs[m] \in Values

Firsts(rs) == {m \in DOMAIN rs : ~Continues(rs, m)}

\* A segment runs from its first minute to the next that does not continue it.
LEMMA SegmentRuns ==
  ASSUME NEW h \in Nat, NEW rs, HourRows(rs, h), NEW a \in Firsts(rs)
  PROVE  LET end == SegmentOf(rs, a).end
         IN  /\ end \in Nat /\ a \in Nat /\ a < end
             /\ end <= h * MinutesPerHour + MinutesPerHour
             /\ end \in DOMAIN rs => ~Continues(rs, end)
             /\ \A k \in Nat : a < k /\ k < end => k \in DOMAIN rs /\ Continues(rs, k)
  <1> DEFINE T == {m \in {k + 1 : k \in DOMAIN rs} : m > a /\ (m \notin DOMAIN rs \/ ~Continues(rs, m))}
             top == h * MinutesPerHour + MinutesPerHour - 1
             end == SegmentOf(rs, a).end
  <1>1. /\ MinutesPerHour \in Nat /\ top \in Nat
        /\ \A m \in DOMAIN rs : m \in Nat /\ m <= top
        /\ a \in DOMAIN rs /\ a \in Nat
    <2> DEFINE y == h * MinutesPerHour
    <2>1. /\ MinutesPerHour \in Nat /\ MinutesPerHour >= 1 /\ y \in Nat
          /\ Minutes(h) = y .. (y + MinutesPerHour - 1) /\ top = y + MinutesPerHour - 1
      BY HourMinutes
    <2> HIDE DEF y, top
    <2>2. DOMAIN rs \subseteq Minutes(h) /\ a \in DOMAIN rs
      BY DEF HourRows, Firsts
    <2>3. \A m \in DOMAIN rs : m \in Nat /\ m <= top
      BY <2>1, <2>2
    <2> QED BY <2>1, <2>2, <2>3
  <1> HIDE DEF top
  <1>2. end = Least(T)
    BY DEF SegmentOf
  <1>3. T \subseteq Nat
    BY <1>1
  <1>4. T # {}
    <2>1. DOMAIN rs \subseteq 0 .. top
      BY <1>1
    <2>2. PICK x \in DOMAIN rs : \A y \in DOMAIN rs : y <= x
      BY <1>1, <2>1, GridAssumption, Grid!GreatestNat
    <2>3. x \in Nat /\ a <= x
      BY <1>1, <2>2
    <2>4. x + 1 \notin DOMAIN rs
      <3>1. ~(x + 1 <= x)
        BY <2>3
      <3> QED BY <2>2, <3>1
    <2>5. x + 1 \in T
      BY <1>1, <2>3, <2>4
    <2> QED BY <2>5
  <1>5. end \in T /\ \A y \in T : end <= y
    <2> HIDE DEF T, end
    <2> QED BY <1>2, <1>3, <1>4, LeastElement
  <1> HIDE DEF end
  <1>6. PICK last \in DOMAIN rs : end = last + 1
    BY <1>5
  <1>7. end \in Nat /\ a < end /\ end <= top + 1 /\ (end \in DOMAIN rs => ~Continues(rs, end))
    BY <1>1, <1>5, <1>6
  <1>8. \A k \in Nat : a < k /\ k < end => k \in DOMAIN rs /\ Continues(rs, k)
    <2> DEFINE Broken == {k \in Nat : a < k /\ k < end /\ ~(k \in DOMAIN rs /\ Continues(rs, k))}
    <2> SUFFICES ASSUME Broken # {}
                 PROVE  FALSE
      OBVIOUS
    <2>1. Broken \subseteq Nat
      OBVIOUS
    <2>2. PICK k \in Broken : \A y \in Broken : k <= y
      <3> HIDE DEF Broken
      <3> QED BY <2>1, GridAssumption, Grid!LeastNat
    <2>3. k \in Nat /\ a < k /\ k < end /\ ~(k \in DOMAIN rs /\ Continues(rs, k))
      OBVIOUS
    <2>4. k - 1 \in DOMAIN rs
      <3>1. CASE k - 1 = a
        BY <1>1, <3>1
      <3>2. CASE k - 1 # a
        <4>1. k - 1 \in Nat /\ a < k - 1 /\ k - 1 < end /\ ~(k <= k - 1)
          BY <1>1, <1>7, <2>3, <3>2
        <4>2. k - 1 \notin Broken
          <5> HIDE DEF Broken
          <5> QED BY <2>2, <4>1
        <4> QED BY <4>1, <4>2
      <3> QED BY <3>1, <3>2
    <2>5. k \in T
      <3>1. k = (k - 1) + 1
        BY <2>3
      <3>2. k \in {j + 1 : j \in DOMAIN rs}
        BY <2>4, <3>1
      <3>3. k > a
        BY <1>1, <2>3
      <3> QED BY <2>3, <3>2, <3>3
    <2>6. end <= k
      BY <1>5, <2>5
    <2> QED BY <1>7, <2>3, <2>6
  <1> QED BY <1>1, <1>7, <1>8 DEF end, top

\* Whatever the minutes of an hour hold, the segments built of them can be read back, and
\* they count exactly these minutes (build_segments as rebuild_hour stores it).
LEMMA HourDecodes ==
  ASSUME NEW h \in Nat, NEW rs, HourRows(rs, h)
  PROVE  AllDecode(BuildSegments(rs)) /\ Covered(BuildSegments(rs)) = DOMAIN rs
  <1> DEFINE End(a) == SegmentOf(rs, a).end
             All == BuildSegments(rs)
  <1>0. /\ MinutesPerHour \in Nat
        /\ \A m \in DOMAIN rs : m \in Nat /\ FloorHour(m) = h * MinutesPerHour /\ rs[m] \in Values
    BY HourMinutes DEF HourRows
  <1>1. ASSUME NEW a \in Firsts(rs)
        PROVE  /\ a \in Nat /\ a \in DOMAIN rs /\ ~Continues(rs, a)
               /\ End(a) \in Nat /\ a < End(a) /\ End(a) <= h * MinutesPerHour + MinutesPerHour
               /\ End(a) \in DOMAIN rs => ~Continues(rs, End(a))
               /\ \A k \in Nat : a < k /\ k < End(a) => k \in DOMAIN rs /\ Continues(rs, k)
    BY SegmentRuns DEF Firsts
  <1>2. \A s \in All : \E a \in Firsts(rs) : s = SegmentOf(rs, a)
    BY DEF BuildSegments, Firsts
  <1>3. \A a : SegmentOf(rs, a) = [kind |-> "segment", start |-> a, end |-> End(a),
                                  activity |-> Classify(rs[a]), compressor |-> Compressor(rs[a]),
                                  fraction |-> rs[a].defrosting_state, energy |-> TRUE]
    BY DEF SegmentOf
  <1>4. \A a : SegmentOf(rs, a).start = a
    BY <1>3
  <1> HIDE DEF End
  <1>5. ASSUME NEW a \in Firsts(rs)
        PROVE  Decodes(SegmentOf(rs, a))
    <2> DEFINE s == SegmentOf(rs, a)
    <2>1. /\ s.start = a /\ s.end = End(a) /\ s.activity = Classify(rs[a])
          /\ s.compressor = Compressor(rs[a]) /\ s.fraction = rs[a].defrosting_state /\ s.energy
      BY <1>3
    <2> HIDE DEF s
    <2>2. rs[a] \in Values /\ FloorHour(a) = h * MinutesPerHour
      BY <1>0, <1>1
    <2>3. s.start >= 0 /\ s.start < s.end /\ s.end <= FloorHour(s.start) + MinutesPerHour
      BY <1>1, <2>1, <2>2
    <2>4. /\ s.activity \in ActivitiesWith(s.compressor)
          /\ s.activity = "defrost" <=> s.fraction > 0
          /\ s.fraction = NULL => s.activity = "unknown"
      BY <2>1, <2>2, ClassDecodes
    <2> QED BY <2>1, <2>3, <2>4 DEF s, Decodes
  <1>6. ASSUME NEW a \in Firsts(rs), NEW b \in Firsts(rs), a < b
        PROVE  End(a) <= b
    <2>1. ~(b < End(a))
      BY <1>1, <1>6
    <2> QED BY <1>1, <2>1
  <1>7. AllDecode(All)
    <2>1. \A s \in All : Decodes(s)
      BY <1>2, <1>5
    <2>2. ASSUME NEW s \in All, NEW t \in All
          PROVE  s = t \/ s.end <= t.start \/ t.end <= s.start
      <3>1. PICK a \in Firsts(rs) : s = SegmentOf(rs, a)
        BY <1>2
      <3>2. PICK b \in Firsts(rs) : t = SegmentOf(rs, b)
        BY <1>2
      <3>3. s.start = a /\ s.end = End(a) /\ t.start = b /\ t.end = End(b)
        BY <1>3, <3>1, <3>2
      <3>4. a = b \/ a < b \/ b < a
        BY <1>1
      <3>5. a = b => s = t
        BY <3>1, <3>2
      <3> QED BY <1>6, <3>3, <3>4, <3>5
    <2> QED BY <2>1, <2>2 DEF AllDecode
  <1>8. ASSUME NEW a \in Firsts(rs), NEW m \in a .. (End(a) - 1)
        PROVE  m \in DOMAIN rs
    <2>1. m \in Nat /\ (m = a \/ (a < m /\ m < End(a)))
      BY <1>1
    <2> QED BY <1>1, <2>1
  <1>9. ASSUME NEW m \in DOMAIN rs
        PROVE  \E a \in Firsts(rs) : m \in a .. (End(a) - 1)
    <2> DEFINE Back == {k \in DOMAIN rs : k <= m /\ \A i \in (k + 1) .. m : i \in DOMAIN rs /\ Continues(rs, i)}
    <2>1. m \in Nat /\ m \in Back /\ Back \subseteq Nat
      BY <1>0
    <2>2. PICK a \in Back : \A y \in Back : a <= y
      <3> HIDE DEF Back
      <3> QED BY <2>1, GridAssumption, Grid!LeastNat
    <2>3. /\ a \in DOMAIN rs /\ a \in Nat /\ a <= m
          /\ \A i \in (a + 1) .. m : i \in DOMAIN rs /\ Continues(rs, i)
      BY <1>0
    <2>4. ~Continues(rs, a)
      <3> SUFFICES ASSUME Continues(rs, a)
                   PROVE  FALSE
        OBVIOUS
      <3>1. a - 1 \in DOMAIN rs
        BY DEF Continues
      <3>2. a - 1 <= m /\ \A i \in ((a - 1) + 1) .. m : i = a \/ i \in (a + 1) .. m
        BY <2>1, <2>3
      <3>3. a - 1 \in Back
        BY <2>3, <3>1, <3>2
      <3>4. a <= a - 1
        <4> HIDE DEF Back
        <4> QED BY <2>2, <3>3
      <3> QED BY <2>3, <3>4
    <2>5. a \in Firsts(rs)
      BY <2>3, <2>4 DEF Firsts
    <2>6. m < End(a)
      <3> SUFFICES ASSUME End(a) <= m
                   PROVE  FALSE
        BY <1>1, <2>1, <2>5
      <3>1. End(a) \in (a + 1) .. m
        BY <1>1, <2>1, <2>5
      <3>2. End(a) \in DOMAIN rs /\ Continues(rs, End(a))
        <4> HIDE DEF Back
        <4> QED BY <2>3, <3>1
      <3> QED BY <1>1, <2>5, <3>2
    <2>7. m \in a .. (End(a) - 1)
      BY <1>1, <2>1, <2>3, <2>5, <2>6
    <2> QED BY <2>5, <2>7
  <1>10. Covered(All) = UNION {a .. (End(a) - 1) : a \in Firsts(rs)}
    <2>1. All = {SegmentOf(rs, a) : a \in Firsts(rs)}
      BY DEF BuildSegments, Firsts
    <2>2. \A a : SegmentOf(rs, a).start = a /\ SegmentOf(rs, a).end = End(a)
      BY <1>3
    <2>3. {s.start .. (s.end - 1) : s \in All} = {a .. (End(a) - 1) : a \in Firsts(rs)}
      <3> HIDE DEF All
      <3> QED BY <2>1, <2>2
    <2> QED BY <2>3 DEF Covered
  <1>11. UNION {a .. (End(a) - 1) : a \in Firsts(rs)} = DOMAIN rs
    BY <1>8, <1>9
  <1> QED BY <1>7, <1>10, <1>11

\* So does the segment of a single minute.
LEMMA MinuteDecodes == MinuteSegmentDecodes
  <1> SUFFICES ASSUME NEW v \in Values
               PROVE  AllDecode(BuildSegments([m \in {0} |-> v]))
    BY DEF MinuteSegmentDecodes
  <1> DEFINE rs == [m \in {0} |-> v]
  <1>1. 0 * MinutesPerHour = 0
    BY ActivityAssumption
  <1>2. 0 \in Minutes(0)
    <2>1. Minutes(0) = 0 .. (0 + MinutesPerHour - 1) /\ MinutesPerHour \in Nat /\ MinutesPerHour >= 1
      BY <1>1, HourMinutes
    <2> QED BY <2>1
  <1>3. HourRows(rs, 0)
    BY <1>2 DEF HourRows
  <1> HIDE DEF rs
  <1>4. AllDecode(BuildSegments(rs))
    BY <1>3, HourDecodes
  <1> QED BY <1>4 DEF rs

-----------------------------------------------------------------------------
(* The stored segments.                                                    *)

\* Rows of closed minutes, and of every rolled hour, which is closed, the segments of its rows.
SegmentInv ==
    /\ horizon \in Nat /\ closedUntil \in Int /\ closedUntil <= horizon
    /\ DOMAIN rows \subseteq Nat /\ \A m \in DOMAIN rows : rows[m] \in Values
    /\ \A h \in DOMAIN activity :
          /\ h \in Nat /\ (h + 1) * MinutesPerHour <= horizon
          /\ activity[h] = BuildSegments(Only(Minutes(h)))

LEMMA SegmentInit ==
  ASSUME Init
  PROVE  SegmentInv
  <1>1. \E n \in 0 .. LegacyHours : lostHours = 0 .. (n - 1)
    BY DEF Init
  <1>2. Cardinality(lostHours) \in Nat
    <2>1. PICK n \in 0 .. LegacyHours : lostHours = 0 .. (n - 1)
      BY <1>1
    <2>2. n \in Int /\ n - 1 \in Int /\ 0 \in Int
      BY ActivityReadAssumption
    <2>3. IsFiniteSet(0 .. (n - 1))
      BY <2>2, FS_Interval
    <2> QED BY <2>1, <2>3, FS_CardinalityType
  <1>3. Cardinality(lostHours) * MinutesPerHour \in Nat
    BY <1>2, ActivityAssumption
  <1>4. DOMAIN rows = {} /\ DOMAIN activity = {}
    BY DEF Init
  <1>5. horizon \in Nat /\ closedUntil = horizon
    BY <1>3 DEF Init
  <1> QED BY <1>4, <1>5 DEF SegmentInv

\* A minute that closes lies in no rolled hour.
LEMMA SegmentStep ==
  ASSUME SegmentInv, [Next]_vars
  PROVE  SegmentInv'
  <1>0. MinutesPerHour \in Nat /\ MinutesPerHour >= 1
    BY ActivityAssumption
  <1>1. CASE UNCHANGED vars
    BY <1>1 DEF vars, SegmentInv, Only
  <1>2. CASE Close
    <2>1. horizon' = horizon + 1 /\ closedUntil' = horizon' /\ activity' = activity
      BY <1>2 DEF Close
    <2>2. CASE rows' = rows
      <3>1. \A h \in DOMAIN activity : (h + 1) * MinutesPerHour \in Int
        BY <1>0 DEF SegmentInv
      <3>2. \A h \in DOMAIN activity : (h + 1) * MinutesPerHour <= horizon + 1
        <4> SUFFICES ASSUME NEW h \in DOMAIN activity
                     PROVE  (h + 1) * MinutesPerHour <= horizon + 1
          OBVIOUS
        <4> DEFINE x == (h + 1) * MinutesPerHour
        <4>1. x \in Int /\ x <= horizon /\ horizon \in Nat
          BY <3>1 DEF SegmentInv
        <4> HIDE DEF x
        <4>2. x <= horizon + 1
          BY <4>1
        <4> QED BY <4>2 DEF x
      <3>3. \A h : Only(Minutes(h))' = Only(Minutes(h))
        BY <2>2 DEF Only
      <3>4. horizon + 1 \in Nat /\ horizon + 1 \in Int /\ horizon + 1 <= horizon + 1
        BY DEF SegmentInv
      <3> QED BY <2>1, <2>2, <3>2, <3>3, <3>4 DEF SegmentInv
    <2>3. ASSUME NEW v \in MinuteValues,
                 rows' = [m \in DOMAIN rows \cup {horizon} |-> IF m = horizon THEN v ELSE rows[m]]
          PROVE  SegmentInv'
      <3>1. v \in Values /\ horizon \in Nat
        BY ActivityReadAssumption DEF SegmentInv
      <3>2. DOMAIN rows' \subseteq Nat /\ \A m \in DOMAIN rows' : rows'[m] \in Values
        BY <2>3, <3>1 DEF SegmentInv
      <3>3. ASSUME NEW h \in DOMAIN activity
            PROVE  /\ h \in Nat /\ (h + 1) * MinutesPerHour <= horizon + 1
                   /\ Only(Minutes(h))' = Only(Minutes(h))
        <4> DEFINE x == (h + 1) * MinutesPerHour
        <4>1. h \in Nat /\ x \in Int /\ x <= horizon
          BY <1>0 DEF SegmentInv
        <4>2. \A m \in Minutes(h) : m <= x - 1 /\ m \in Int
          BY <4>1 DEF Minutes
        <4> HIDE DEF x
        <4>3. x <= horizon + 1 /\ horizon \notin Minutes(h)
          BY <3>1, <4>1, <4>2
        <4>4. DOMAIN rows' \cap Minutes(h) = DOMAIN rows \cap Minutes(h)
          BY <2>3, <4>3
        <4>5. \A m \in DOMAIN rows \cap Minutes(h) : rows'[m] = rows[m]
          BY <2>3, <4>3
        <4>6. Only(Minutes(h))' = Only(Minutes(h))
          BY <4>4, <4>5 DEF Only
        <4> QED BY <4>1, <4>3, <4>6 DEF x
      <3>4. horizon + 1 \in Nat /\ horizon + 1 \in Int /\ horizon + 1 <= horizon + 1
        BY <3>1
      <3> QED BY <2>1, <3>2, <3>3, <3>4 DEF SegmentInv
    <2> QED BY <1>2, <2>2, <2>3 DEF Close
  <1>3. CASE Roll
    <2>1. PICK h \in {HourOf(m) : m \in DOMAIN rows} \ DOMAIN activity :
             /\ (h + 1) * MinutesPerHour <= closedUntil
             /\ activity' = [k \in DOMAIN activity \cup {h} |->
                               IF k = h THEN BuildSegments(Only(Minutes(h))) ELSE activity[k]]
      BY <1>3 DEF Roll
    <2>2. UNCHANGED <<rows, horizon, closedUntil>>
      BY <1>3 DEF Roll
    <2>3. h \in Nat
      <3>1. \A m \in Nat : HourOf(m) \in Nat
        BY <1>0, SMT DEF HourOf
      <3> QED BY <2>1, <3>1 DEF SegmentInv
    <2>4. (h + 1) * MinutesPerHour <= horizon
      <3> DEFINE x == (h + 1) * MinutesPerHour
      <3>1. x \in Int /\ x <= closedUntil /\ closedUntil \in Int /\ horizon \in Nat /\ closedUntil <= horizon
        BY <1>0, <2>1, <2>3 DEF SegmentInv
      <3> HIDE DEF x
      <3>2. x <= horizon
        BY <3>1
      <3> QED BY <3>2 DEF x
    <2>5. \A k : Only(Minutes(k))' = Only(Minutes(k))
      BY <2>2 DEF Only
    <2> QED BY <2>1, <2>2, <2>3, <2>4, <2>5 DEF SegmentInv
  <1>4. CASE Purge
    <2>1. UNCHANGED <<rows, activity, horizon, closedUntil>>
      BY <1>4 DEF Purge
    <2> QED BY <2>1 DEF SegmentInv, Only
  <1>5. CASE StepBack \/ CatchUp
    <2>1. UNCHANGED <<rows, activity, horizon>>
      BY <1>5 DEF StepBack, CatchUp
    <2>2. closedUntil' \in Int /\ closedUntil' <= horizon
      <3>1. closedUntil \in Int /\ horizon \in Nat /\ closedUntil <= horizon
        BY DEF SegmentInv
      <3>2. CASE StepBack
        <4>1. Greater(0, horizon - MaxStepBack) \in Int
          BY <3>1, ActivityReadAssumption DEF Greater
        <4> QED BY <3>1, <3>2, <4>1 DEF StepBack
      <3>3. CASE CatchUp
        BY <3>1, <3>3 DEF CatchUp
      <3> QED BY <1>5, <3>2, <3>3
    <2> QED BY <2>1, <2>2 DEF SegmentInv, Only
  <1> QED BY <1>1, <1>2, <1>3, <1>4, <1>5 DEF Next

LEMMA SegmentsDecode ==
  ASSUME SegmentInv
  PROVE  StoredSegmentsDecode
  <1> SUFFICES ASSUME NEW h \in DOMAIN activity
               PROVE  /\ AllDecode(activity[h])
                      /\ Covered(activity[h]) = DOMAIN Only(Minutes(h))
    BY MinuteDecodes DEF StoredSegmentsDecode
  <1>1. h \in Nat /\ activity[h] = BuildSegments(Only(Minutes(h)))
    BY DEF SegmentInv
  <1>2. HourRows(Only(Minutes(h)), h)
    BY DEF SegmentInv, HourRows, Only
  <1> QED BY <1>1, <1>2, HourDecodes

\* What rebuild_hour stores has a valid place and interpretation when it is read back, for
\* every length of an hour and all values of its minutes, and counts every recorded minute
\* once (build_segments, decode_segments).
THEOREM StoredSegmentsHold == Spec => []StoredSegmentsDecode
  <1>1. Init => SegmentInv
    BY SegmentInit
  <1>2. SegmentInv /\ [Next]_vars => SegmentInv'
    BY SegmentStep
  <1>3. SegmentInv => StoredSegmentsDecode
    BY SegmentsDecode
  <1> QED BY <1>1, <1>2, <1>3, PTL DEF Spec

-----------------------------------------------------------------------------
(* Hours and minutes on both sides of minute 0.                            *)

\* Hour h begins at minute h * MinutesPerHour.
Whole(x) == \E h \in Int : x = h * MinutesPerHour

LEMMA HourLength == MinutesPerHour \in Nat /\ MinutesPerHour >= 1
  BY ActivityAssumption

LEMMA HoursApart ==
  ASSUME NEW h \in Int, NEW k \in Int
  PROVE  /\ h * MinutesPerHour \in Int
         /\ (h + 1) * MinutesPerHour = h * MinutesPerHour + MinutesPerHour
         /\ (h - 1) * MinutesPerHour = h * MinutesPerHour - MinutesPerHour
         /\ h < k => h * MinutesPerHour + MinutesPerHour <= k * MinutesPerHour
         /\ h * MinutesPerHour < k * MinutesPerHour => h < k
  <1>1. h * MinutesPerHour \in Int
    BY HourLength, SMT
  <1>2. (h + 1) * MinutesPerHour = h * MinutesPerHour + MinutesPerHour
    BY HourLength, SMT
  <1>3. (h - 1) * MinutesPerHour = h * MinutesPerHour - MinutesPerHour
    BY HourLength, SMT
  <1>4. h < k => h * MinutesPerHour + MinutesPerHour <= k * MinutesPerHour
    BY HourLength, SMT
  <1>5. h * MinutesPerHour < k * MinutesPerHour => h < k
    BY HourLength, SMT
  <1> QED BY <1>1, <1>2, <1>3, <1>4, <1>5

LEMMA HourHolds ==
  ASSUME NEW m \in Int
  PROVE  /\ HourOf(m) \in Int /\ FloorHour(m) = HourOf(m) * MinutesPerHour /\ FloorHour(m) \in Int
         /\ FloorHour(m) <= m /\ m < FloorHour(m) + MinutesPerHour
  <1>1. MinutesPerHour \in Nat /\ MinutesPerHour >= 1
    BY HourLength
  <1> DEFINE q == m \div MinutesPerHour
  <1>2. q \in Int /\ q * MinutesPerHour <= m /\ m < q * MinutesPerHour + MinutesPerHour
    BY <1>1, SMT
  <1>3. q * MinutesPerHour \in Int
    BY <1>1, <1>2, HoursApart
  <1> HIDE DEF q
  <1>4. HourOf(m) = q /\ FloorHour(m) = q * MinutesPerHour
    BY DEF HourOf, FloorHour, q
  <1> QED BY <1>2, <1>3, <1>4

\* The hour of a minute is the one whose minutes hold it.
LEMMA HourIs ==
  ASSUME NEW m \in Int, NEW h \in Int
  PROVE  /\ HourOf(m) = h <=> h * MinutesPerHour <= m /\ m < h * MinutesPerHour + MinutesPerHour
         /\ m \in Minutes(h) <=> HourOf(m) = h
         /\ Minutes(h) \subseteq Int
  <1> DEFINE q == HourOf(m)
             x == q * MinutesPerHour
             y == h * MinutesPerHour
  <1>1. q \in Int /\ x \in Int /\ x <= m /\ m < x + MinutesPerHour /\ y \in Int
    BY HourHolds, HoursApart
  <1>2. /\ q < h => x + MinutesPerHour <= y
        /\ h < q => y + MinutesPerHour <= x
    BY <1>1, HoursApart
  <1>3. (h + 1) * MinutesPerHour = y + MinutesPerHour
    BY HoursApart
  <1>4. q = h => x = y
    OBVIOUS
  <1>5. Minutes(h) = y .. (y + MinutesPerHour - 1)
    <2> DEFINE z == (h + 1) * MinutesPerHour
    <2>1. Minutes(h) = y .. (z - 1)
      BY DEF Minutes
    <2>2. z = y + MinutesPerHour
      BY <1>3
    <2> HIDE DEF y, z
    <2>3. z - 1 = y + MinutesPerHour - 1
      BY <1>1, <2>2, HourLength
    <2> QED BY <2>1, <2>3
  <1>6. MinutesPerHour \in Nat
    BY HourLength
  <1> HIDE DEF q, x, y
  <1>7. q = h <=> y <= m /\ m < y + MinutesPerHour
    BY <1>1, <1>2, <1>4, <1>6
  <1>8. m \in Minutes(h) <=> y <= m /\ m < y + MinutesPerHour
    BY <1>1, <1>5, <1>6
  <1>9. Minutes(h) \subseteq Int
    BY <1>1, <1>5, <1>6
  <1> QED BY <1>7, <1>8, <1>9 DEF q, y

LEMMA CeilHolds ==
  ASSUME NEW m \in Int
  PROVE  /\ CeilHour(m) \in Int /\ Whole(CeilHour(m)) /\ m <= CeilHour(m) /\ CeilHour(m) < m + MinutesPerHour
         /\ Whole(FloorHour(m))
  <1> DEFINE n == m + MinutesPerHour - 1
             f == FloorHour(n)
  <1>1. n \in Int
    BY HourLength
  <1>2. f \in Int /\ f <= n /\ n < f + MinutesPerHour /\ f = HourOf(n) * MinutesPerHour /\ HourOf(n) \in Int
    BY <1>1, HourHolds
  <1>3. CeilHour(m) = f
    BY DEF CeilHour
  <1>4. Whole(f)
    BY <1>2 DEF Whole
  <1>5. Whole(FloorHour(m))
    BY HourHolds DEF Whole
  <1>6. m <= n - (MinutesPerHour - 1) /\ n = m + (MinutesPerHour - 1) /\ MinutesPerHour \in Nat
    BY HourLength
  <1> HIDE DEF f, n
  <1>7. m <= f /\ f < m + MinutesPerHour
    BY <1>1, <1>2, <1>6
  <1> QED BY <1>2, <1>3, <1>4, <1>5, <1>7

\* Whole hours order like their numbers.
LEMMA WholeHours ==
  ASSUME NEW x, Whole(x), NEW m \in Int
  PROVE  /\ x \in Int
         /\ x <= m => x <= FloorHour(m)
         /\ m < x => FloorHour(m) + MinutesPerHour <= x
         /\ m <= x => CeilHour(m) <= x
  <1>1. PICK h \in Int : x = h * MinutesPerHour
    BY DEF Whole
  <1>2. x \in Int
    BY <1>1, HoursApart
  <1> DEFINE q == HourOf(m)
             f == FloorHour(m)
             c == CeilHour(m)
  <1>3. q \in Int /\ f = q * MinutesPerHour /\ f \in Int /\ f <= m /\ m < f + MinutesPerHour
    BY HourHolds
  <1>4. PICK k \in Int : c = k * MinutesPerHour
    BY CeilHolds DEF Whole
  <1>5. c \in Int /\ m <= c /\ c < m + MinutesPerHour
    BY CeilHolds
  <1>6. /\ q < h => f + MinutesPerHour <= x
        /\ h < q => x + MinutesPerHour <= f
        /\ h < k => x + MinutesPerHour <= c
        /\ q = h => f = x
    BY <1>1, <1>3, <1>4, HoursApart
  <1>7. MinutesPerHour \in Nat
    BY HourLength
  <1>8. k <= h => c <= x
    <2>1. k < h => c + MinutesPerHour <= x
      BY <1>1, <1>4, HoursApart
    <2>2. k = h => c = x
      BY <1>1, <1>4
    <2> QED BY <1>2, <1>5, <1>7, <2>1, <2>2
  <1> HIDE DEF q, f, c
  <1>9. x <= m => x <= f
    BY <1>2, <1>3, <1>6, <1>7
  <1>10. m < x => f + MinutesPerHour <= x
    BY <1>2, <1>3, <1>6, <1>7
  <1>11. m <= x => c <= x
    BY <1>2, <1>5, <1>6, <1>7, <1>8
  <1> QED BY <1>2, <1>9, <1>10, <1>11 DEF f, c

\* The least of a set of integers that is bounded below.
LEMMA LeastInt ==
  ASSUME NEW T, T \subseteq Int, T # {}, NEW b \in Int, \A x \in T : b <= x
  PROVE  Least(T) \in T /\ \A y \in T : Least(T) <= y
  <1> DEFINE U == {x - b : x \in T}
  <1>1. U \subseteq Nat /\ U # {}
    OBVIOUS
  <1>2. PICK u \in U : \A y \in U : u <= y
    <2> HIDE DEF U
    <2> QED BY <1>1, GridAssumption, Grid!LeastNat
  <1>3. PICK x \in T : u = x - b
    OBVIOUS
  <1>4. \A y \in T : x <= y
    <2> SUFFICES ASSUME NEW y \in T
                 PROVE  x <= y
      OBVIOUS
    <2>1. x - b <= y - b
      BY <1>2, <1>3
    <2>2. x \in Int /\ y \in Int
      OBVIOUS
    <2> QED BY <2>1, <2>2
  <1> QED BY <1>4 DEF Least

\* Around a minute of M lies an interval of M that ends on both sides.
LEMMA IntervalAround ==
  ASSUME NEW lo \in Int, NEW hi \in Int, NEW M, M \subseteq lo .. (hi - 1), NEW m \in M
  PROVE  \E a \in M, z \in Int :
            /\ a <= m /\ m < z /\ lo <= a /\ z <= hi
            /\ a - 1 \notin M /\ z \notin M
            /\ \A k \in a .. (z - 1) : k \in M
  <1>1. /\ M \subseteq Int /\ m \in Int /\ lo <= m /\ m < hi
        /\ \A x \in M : x \in Int /\ lo <= x /\ x < hi
    OBVIOUS
  <1> DEFINE Back == {k \in M : k <= m /\ \A i \in k .. m : i \in M}
             Ahead == {k \in Int : m < k /\ k \notin M}
             a == Least(Back)
             z == Least(Ahead)
  <1>2. a \in Back /\ \A y \in Back : a <= y
    <2>1. Back \subseteq M /\ Back \subseteq Int /\ \A x \in Back : lo <= x
      BY <1>1
    <2>2. \A i \in m .. m : i = m
      BY <1>1
    <2>3. m \in Back
      BY <1>1, <2>2
    <2> HIDE DEF Back
    <2> QED BY <2>1, <2>3, LeastInt
  <1>3. z \in Ahead /\ \A y \in Ahead : z <= y
    <2>1. Ahead \subseteq Int /\ hi \in Ahead /\ \A x \in Ahead : m <= x
      BY <1>1
    <2> HIDE DEF Ahead
    <2> QED BY <1>1, <2>1, LeastInt
  <1> HIDE DEF a, z
  <1>4. a \in M /\ a \in Int /\ a <= m /\ lo <= a /\ \A i \in a .. m : i \in M
    BY <1>1, <1>2
  <1>5. z \in Int /\ m < z /\ z \notin M /\ z <= hi
    <2>1. hi \in Ahead
      BY <1>1
    <2> QED BY <1>3, <2>1
  <1>6. a - 1 \notin M
    <2> SUFFICES ASSUME a - 1 \in M
                 PROVE  FALSE
      OBVIOUS
    <2>1. \A i \in (a - 1) .. m : i = a - 1 \/ i \in a .. m
      BY <1>1, <1>4
    <2>2. a - 1 \in Back
      BY <1>1, <1>4, <2>1
    <2>3. a <= a - 1
      <3> HIDE DEF Back
      <3> QED BY <1>2, <2>2
    <2> QED BY <1>4, <2>3
  <1>7. \A k \in a .. (z - 1) : k \in M
    <2> SUFFICES ASSUME NEW k \in a .. (z - 1)
                 PROVE  k \in M
      OBVIOUS
    <2>1. CASE k <= m
      BY <1>1, <1>4, <1>5, <2>1
    <2>2. CASE m < k
      <3>1. k \in Int /\ k < z
        BY <1>4, <1>5
      <3>2. k \notin Ahead
        <4> HIDE DEF Ahead
        <4> QED BY <1>3, <1>5, <3>1
      <3> QED BY <2>2, <3>1, <3>2
    <2> QED BY <1>1, <1>4, <1>5, <2>1, <2>2
  <1> QED BY <1>4, <1>5, <1>6, <1>7

-----------------------------------------------------------------------------
(* The evidence of a range: which minutes its segments hold.               *)

\* Beside SegmentInv: minutes close behind the horizon, lost hours have no minute, and what is
\* purged is rolled.
ReadInv ==
    /\ SegmentInv
    /\ \A m \in DOMAIN rows : m < horizon /\ HourOf(m) \notin lostHours
    /\ \A h \in lostHours : h \in Nat /\ (h + 1) * MinutesPerHour <= horizon /\ h \notin DOMAIN activity
    /\ purged \subseteq DOMAIN activity

LEMMA ReadInit ==
  ASSUME Init
  PROVE  ReadInv
  <1>1. PICK n \in 0 .. LegacyHours : lostHours = 0 .. (n - 1)
    BY DEF Init
  <1>2. n \in Nat
    BY <1>1, ActivityReadAssumption
  <1>3. Cardinality(lostHours) = n
    <2>1. Cardinality(0 .. (n - 1)) = IF 0 > n - 1 THEN 0 ELSE (n - 1) - 0 + 1
      BY <1>2, FS_Interval
    <2> QED BY <1>1, <1>2, <2>1
  <1>4. horizon = n * MinutesPerHour
    BY <1>3 DEF Init
  <1>5. DOMAIN rows = {} /\ DOMAIN activity = {} /\ purged = {}
    BY DEF Init
  <1>6. ASSUME NEW h \in lostHours
        PROVE  h \in Nat /\ (h + 1) * MinutesPerHour <= horizon
    <2>1. h \in Nat /\ h < n
      BY <1>1, <1>2
    <2>2. h * MinutesPerHour + MinutesPerHour <= n * MinutesPerHour
      BY <1>2, <2>1, HoursApart
    <2>3. (h + 1) * MinutesPerHour = h * MinutesPerHour + MinutesPerHour
      BY <2>1, HoursApart
    <2> QED BY <1>4, <2>1, <2>2, <2>3
  <1> QED BY <1>5, <1>6, SegmentInit DEF ReadInv

LEMMA ReadStep ==
  ASSUME ReadInv, [Next]_vars
  PROVE  ReadInv'
  <1>0. SegmentInv /\ SegmentInv'
    BY SegmentStep DEF ReadInv
  <1>1. horizon \in Nat /\ DOMAIN rows \subseteq Nat
    BY <1>0 DEF SegmentInv
  <1>2. CASE UNCHANGED vars
    BY <1>0, <1>2 DEF ReadInv, vars
  <1>3. CASE Close
    <2>1. UNCHANGED <<lostHours, activity, purged>> /\ horizon' = horizon + 1
      BY <1>3 DEF Close
    <2>2. DOMAIN rows' \subseteq DOMAIN rows \cup {horizon}
      BY <1>3 DEF Close
    <2>3. HourOf(horizon) \notin lostHours
      <3> SUFFICES ASSUME HourOf(horizon) \in lostHours
                   PROVE  FALSE
        OBVIOUS
      <3> DEFINE h == HourOf(horizon)
      <3>1. h \in Int /\ horizon < h * MinutesPerHour + MinutesPerHour
        BY <1>1, HourHolds
      <3>2. (h + 1) * MinutesPerHour <= horizon
        BY DEF ReadInv
      <3>3. (h + 1) * MinutesPerHour = h * MinutesPerHour + MinutesPerHour /\ h * MinutesPerHour \in Int
        BY <3>1, HoursApart
      <3> HIDE DEF h
      <3> QED BY <1>1, <3>1, <3>2, <3>3, HourLength
    <2>4. \A m \in DOMAIN rows' : m < horizon + 1 /\ HourOf(m) \notin lostHours
      BY <1>1, <2>2, <2>3 DEF ReadInv
    <2>5. ASSUME NEW h \in lostHours
          PROVE  h \in Nat /\ (h + 1) * MinutesPerHour <= horizon + 1
      <3> DEFINE x == (h + 1) * MinutesPerHour
      <3>1. h \in Nat /\ x <= horizon
        BY DEF ReadInv
      <3>2. x \in Int
        BY <3>1, HoursApart
      <3> HIDE DEF x
      <3>3. x <= horizon + 1
        BY <1>1, <3>1, <3>2
      <3> QED BY <3>1, <3>3 DEF x
    <2> QED BY <1>0, <2>1, <2>4, <2>5 DEF ReadInv
  <1>4. CASE Roll
    <2>1. PICK h \in {HourOf(m) : m \in DOMAIN rows} : DOMAIN activity' = DOMAIN activity \cup {h}
      BY <1>4 DEF Roll
    <2>2. UNCHANGED <<rows, lostHours, purged, horizon>>
      BY <1>4 DEF Roll
    <2> QED BY <1>0, <2>1, <2>2 DEF ReadInv
  <1>5. CASE Purge
    <2>1. PICK h \in DOMAIN activity : purged' = purged \cup {h}
      BY <1>5 DEF Purge
    <2>2. UNCHANGED <<rows, lostHours, activity, horizon>>
      BY <1>5 DEF Purge
    <2> QED BY <1>0, <2>1, <2>2 DEF ReadInv
  <1>6. CASE StepBack \/ CatchUp
    <2>1. UNCHANGED <<rows, lostHours, activity, purged, horizon>>
      BY <1>6 DEF StepBack, CatchUp
    <2> QED BY <1>0, <2>1 DEF ReadInv
  <1> QED BY <1>2, <1>3, <1>4, <1>5, <1>6 DEF Next

\* A segment that says of its minutes what the values v say.
Says(s, v) ==
    s.activity = Classify(v) /\ s.compressor = Compressor(v) /\ s.fraction = v.defrosting_state

Piece == [kind : {"segment"}, start : Int, end : Int, activity : Activities,
          compressor : CompressorStates, fraction : {NULL, 0, 1, 2}, energy : BOOLEAN]

\* The segments S hold the minutes M of the rows rs, each in exactly one segment.
Tiles(S, rs, M) ==
    /\ \A s \in S : /\ s \in Piece /\ s.start < s.end
                    /\ \A m \in s.start .. (s.end - 1) : m \in M /\ Says(s, rs[m])
    /\ \A m \in M : m \in Int /\ \E s \in S : s.start <= m /\ m < s.end
    /\ \A s, t \in S : \A m \in Int :
           s.start <= m /\ m < s.end /\ t.start <= m /\ m < t.end => s = t

\* The segments built of an hour's minutes hold just these.
LEMMA BuildTiles ==
  ASSUME NEW h \in Nat, NEW rs, HourRows(rs, h)
  PROVE  Tiles(BuildSegments(rs), rs, DOMAIN rs)
  <1> DEFINE All == BuildSegments(rs)
             End(a) == SegmentOf(rs, a).end
  <1>1. /\ AllDecode(All) /\ Covered(All) = DOMAIN rs
        /\ \A m \in DOMAIN rs : m \in Nat
    BY HourDecodes, HourMinutes DEF HourRows
  <1>2. \A s \in All : \E a \in Firsts(rs) : s = SegmentOf(rs, a)
    BY DEF BuildSegments, Firsts
  <1>3. \A a : SegmentOf(rs, a) = [kind |-> "segment", start |-> a, end |-> End(a),
                                  activity |-> Classify(rs[a]), compressor |-> Compressor(rs[a]),
                                  fraction |-> rs[a].defrosting_state, energy |-> TRUE]
    BY DEF SegmentOf
  <1>4. ASSUME NEW a \in Firsts(rs)
        PROVE  /\ a \in Nat /\ End(a) \in Nat /\ a < End(a)
               /\ \A k \in Nat : a < k /\ k < End(a) => k \in DOMAIN rs /\ Continues(rs, k)
    BY SegmentRuns
  <1> HIDE DEF End, All
  <1>5. ASSUME NEW s \in All
        PROVE  /\ s \in Piece /\ s.start \in Int /\ s.end \in Int /\ s.start < s.end
               /\ \A m \in s.start .. (s.end - 1) : m \in DOMAIN rs /\ Says(s, rs[m])
    <2>1. PICK a \in Firsts(rs) : s = SegmentOf(rs, a)
      BY <1>2
    <2>2. /\ s.kind = "segment" /\ s.start = a /\ s.end = End(a) /\ s.activity = Classify(rs[a])
          /\ s.compressor = Compressor(rs[a]) /\ s.fraction = rs[a].defrosting_state
      BY <1>3, <2>1
    <2>3. a \in Nat /\ End(a) \in Nat /\ a < End(a) /\ a \in DOMAIN rs
      BY <1>4 DEF Firsts
    <2>9. s \in Piece
      <3>1. rs[a] \in Values
        BY <2>3 DEF HourRows
      <3>2. Classify(rs[a]) \in Activities
        <4>1. Compressor(rs[a]) \in {"off", "on", "unknown"} /\ Classify(rs[a]) \in ActivitiesWith(Compressor(rs[a]))
          BY <3>1, CompressorCases, ClassDecodes
        <4> QED BY <4>1 DEF ActivitiesWith, Activities
      <3>3. Compressor(rs[a]) \in CompressorStates /\ rs[a].defrosting_state \in {NULL, 0, 1, 2}
        BY <3>1, CompressorCases, ClassifyCases DEF CompressorStates
      <3>4. s = [kind |-> "segment", start |-> a, end |-> End(a), activity |-> Classify(rs[a]),
                 compressor |-> Compressor(rs[a]), fraction |-> rs[a].defrosting_state, energy |-> TRUE]
        BY <1>3, <2>1
      <3>5. a \in Int /\ End(a) \in Int /\ "segment" \in {"segment"} /\ TRUE \in BOOLEAN
        BY <2>3
      <3> QED BY <3>2, <3>3, <3>4, <3>5 DEF Piece
    <2> DEFINE Other == {m \in Nat : a <= m /\ m < End(a) /\ ~Says(s, rs[m])}
    <2>4. Other = {}
      <3> SUFFICES ASSUME Other # {}
                   PROVE  FALSE
        OBVIOUS
      <3>1. PICK m \in Other : \A y \in Other : m <= y
        <4>1. Other \subseteq Nat
          OBVIOUS
        <4> HIDE DEF Other
        <4> QED BY <4>1, GridAssumption, Grid!LeastNat
      <3>2. m \in Nat /\ a <= m /\ m < End(a) /\ ~Says(s, rs[m])
        OBVIOUS
      <3>3. m # a
        BY <2>2, <3>2 DEF Says
      <3>4. Continues(rs, m) /\ m - 1 \in Nat /\ a <= m - 1 /\ m - 1 < End(a) /\ ~(m <= m - 1)
        BY <1>4, <2>3, <3>2, <3>3
      <3>5. m - 1 \notin Other
        <4> HIDE DEF Other
        <4> QED BY <3>1, <3>4
      <3>6. Says(s, rs[m - 1])
        BY <3>4, <3>5
      <3>7. Interpretation(rs[m]) = Interpretation(rs[m - 1])
        BY <3>4 DEF Continues
      <3>8. /\ Classify(rs[m]) = Classify(rs[m - 1]) /\ Compressor(rs[m]) = Compressor(rs[m - 1])
            /\ rs[m].defrosting_state = rs[m - 1].defrosting_state
        BY <3>7 DEF Interpretation
      <3> QED BY <3>2, <3>6, <3>8 DEF Says
    <2>5. ASSUME NEW m \in s.start .. (s.end - 1)
          PROVE  m \in DOMAIN rs /\ Says(s, rs[m])
      <3>1. m \in Nat /\ a <= m /\ m < End(a)
        BY <2>2, <2>3
      <3>2. m \notin Other
        BY <2>4
      <3>3. m = a \/ a < m
        BY <2>3, <3>1
      <3> QED BY <1>4, <2>3, <3>1, <3>2, <3>3
    <2> QED BY <2>2, <2>3, <2>5, <2>9
  <1>6. ASSUME NEW m \in DOMAIN rs
        PROVE  m \in Int /\ \E s \in All : s.start <= m /\ m < s.end
    <2>1. PICK s \in All : m \in s.start .. (s.end - 1)
      BY <1>1 DEF Covered
    <2> QED BY <1>1, <1>5, <2>1
  <1>7. ASSUME NEW s \in All, NEW t \in All, NEW m \in Int,
               s.start <= m /\ m < s.end /\ t.start <= m /\ m < t.end
        PROVE  s = t
    <2>1. s = t \/ s.end <= t.start \/ t.end <= s.start
      BY <1>1 DEF AllDecode
    <2>2. s.start \in Int /\ s.end \in Int /\ t.start \in Int /\ t.end \in Int
      BY <1>5
    <2> QED BY <1>7, <2>1, <2>2
  <1> QED BY <1>5, <1>6, <1>7 DEF Tiles, All


\* What ActivitySegment.clip makes of one segment.
CutOf(s, a, b) ==
    [s EXCEPT !.start = Greater(@, a), !.end = Lesser(@, b), !.energy = @ /\ a <= s.start /\ s.end <= b]

\* A cut keeps the minutes inside.
LEMMA CutFacts ==
  ASSUME NEW s \in Piece, NEW a \in Int, NEW b \in Int, s.start < b, a < s.end, s.start < s.end,
         a < b \/ a <= s.start
  PROVE  LET r == CutOf(s, a, b)
         IN  /\ r \in Piece /\ r.start < r.end /\ r.start = Greater(s.start, a) /\ r.end = Lesser(s.end, b)
             /\ r.activity = s.activity /\ r.compressor = s.compressor /\ r.fraction = s.fraction
             /\ r.energy <=> s.energy /\ a <= s.start /\ s.end <= b
             /\ \A m \in Int : r.start <= m /\ m < r.end
                                <=> s.start <= m /\ m < s.end /\ a <= m /\ m < b
  <1> DEFINE r == CutOf(s, a, b)
  <1>4. r = [kind |-> "segment", start |-> Greater(s.start, a), end |-> Lesser(s.end, b),
             activity |-> s.activity, compressor |-> s.compressor, fraction |-> s.fraction,
             energy |-> s.energy /\ a <= s.start /\ s.end <= b]
    <2>1. s = [kind |-> s.kind, start |-> s.start, end |-> s.end, activity |-> s.activity,
               compressor |-> s.compressor, fraction |-> s.fraction, energy |-> s.energy]
      BY DEF Piece
    <2>2. s.kind = "segment"
      BY DEF Piece
    <2> DEFINE x == Greater(s.start, a)
               y == Lesser(s.end, b)
               e == s.energy /\ a <= s.start /\ s.end <= b
    <2>3. r = [s EXCEPT !.start = x, !.end = y, !.energy = e]
      BY DEF CutOf
    <2> HIDE DEF r, x, y, e
    <2>4. r = [kind |-> "segment", start |-> x, end |-> y, activity |-> s.activity,
               compressor |-> s.compressor, fraction |-> s.fraction, energy |-> e]
      BY <2>1, <2>2, <2>3
    <2> QED BY <2>4 DEF r, x, y, e
  <1>1. /\ r.start = Greater(s.start, a) /\ r.end = Lesser(s.end, b)
        /\ r.activity = s.activity /\ r.compressor = s.compressor /\ r.fraction = s.fraction
    <2> HIDE DEF r
    <2> QED BY <1>4
  <1>2. s.start \in Int /\ s.end \in Int
    BY DEF Piece
  <1>3. Greater(s.start, a) \in Int /\ Lesser(s.end, b) \in Int /\ Greater(s.start, a) < Lesser(s.end, b)
    BY <1>2 DEF Greater, Lesser
  <1>6. r \in Piece
    <2>1. s.activity \in Activities /\ s.compressor \in CompressorStates /\ s.fraction \in {NULL, 0, 1, 2}
      BY DEF Piece
    <2>2. (s.energy /\ a <= s.start /\ s.end <= b) \in BOOLEAN
      OBVIOUS
    <2> QED BY <1>3, <1>4, <2>1, <2>2 DEF Piece
  <1>5. \A m \in Int : Greater(s.start, a) <= m /\ m < Lesser(s.end, b)
                         <=> s.start <= m /\ m < s.end /\ a <= m /\ m < b
    BY <1>2 DEF Greater, Lesser
  <1> HIDE DEF r
  <1>7. r.energy <=> s.energy /\ a <= s.start /\ s.end <= b
    <2> DEFINE e == s.energy /\ a <= s.start /\ s.end <= b
    <2>1. r = [kind |-> "segment", start |-> Greater(s.start, a), end |-> Lesser(s.end, b),
               activity |-> s.activity, compressor |-> s.compressor, fraction |-> s.fraction,
               energy |-> e]
      BY <1>4
    <2> HIDE DEF e
    <2>2. r.energy = e
      BY <2>1
    <2> QED BY <2>2 DEF e
  <1>8. r.start < r.end /\ \A m \in Int : r.start <= m /\ m < r.end
                                <=> s.start <= m /\ m < s.end /\ a <= m /\ m < b
    BY <1>1, <1>3, <1>5
  <1> QED BY <1>1, <1>6, <1>7, <1>8 DEF r

\* The pieces clipped out of tiles tile what lies inside.
LEMMA ClippedTiles ==
  ASSUME NEW S, NEW rs, NEW M, Tiles(S, rs, M), NEW a \in Int, NEW b \in Int,
         a < b \/ \A s \in S : a <= s.start
  PROVE  /\ Tiles(Clipped(S, a, b), rs, {m \in M : a <= m /\ m < b})
         /\ \A r \in Clipped(S, a, b) : \E s \in S :
               /\ r.start = Greater(s.start, a) /\ r.end = Lesser(s.end, b)
               /\ r.energy <=> s.energy /\ a <= s.start /\ s.end <= b
  <1> DEFINE C == Clipped(S, a, b)
             N == {m \in M : a <= m /\ m < b}
  <1>1. \A s \in S : /\ s \in Piece /\ s.start \in Int /\ s.end \in Int /\ s.start < s.end
                     /\ \A m \in s.start .. (s.end - 1) : m \in M /\ Says(s, rs[m])
    BY DEF Tiles, Piece
  <1>2. C = {CutOf(s, a, b) : s \in {k \in S : k.start < b /\ a < k.end}}
    BY DEF Clipped, CutOf
  <1> HIDE DEF C
  <1>3. ASSUME NEW s \in S, s.start < b, a < s.end
        PROVE  LET r == CutOf(s, a, b)
               IN  /\ r \in C
                   /\ r \in Piece /\ r.start < r.end /\ r.start = Greater(s.start, a) /\ r.end = Lesser(s.end, b)
                   /\ r.activity = s.activity /\ r.compressor = s.compressor /\ r.fraction = s.fraction
                   /\ r.energy <=> s.energy /\ a <= s.start /\ s.end <= b
                   /\ \A m \in Int : r.start <= m /\ m < r.end
                                      <=> s.start <= m /\ m < s.end /\ a <= m /\ m < b
    <2>1. CutOf(s, a, b) \in C
      BY <1>2, <1>3
    <2>2. s \in Piece /\ s.start < s.end /\ (a < b \/ a <= s.start)
      BY <1>1
    <2> QED BY <1>3, <2>1, <2>2, CutFacts
  <1>4. \A r \in C : \E s \in S : s.start < b /\ a < s.end /\ r = CutOf(s, a, b)
    BY <1>2
  <1>5. ASSUME NEW r \in C
        PROVE  /\ r \in Piece /\ r.start < r.end
               /\ \A m \in r.start .. (r.end - 1) : m \in N /\ Says(r, rs[m])
    <2>1. PICK s \in S : s.start < b /\ a < s.end /\ r = CutOf(s, a, b)
      BY <1>4
    <2>2. /\ r \in Piece /\ r.start < r.end
          /\ r.activity = s.activity /\ r.compressor = s.compressor /\ r.fraction = s.fraction
          /\ \A m \in Int : r.start <= m /\ m < r.end
                              <=> s.start <= m /\ m < s.end /\ a <= m /\ m < b
      BY <1>3, <2>1
    <2>3. r.start \in Int /\ r.end \in Int
      BY <2>2 DEF Piece
    <2>4. ASSUME NEW m \in r.start .. (r.end - 1)
          PROVE  m \in N /\ Says(r, rs[m])
      <3>1. m \in Int /\ r.start <= m /\ m < r.end
        BY <2>3
      <3>2. s.start <= m /\ m < s.end /\ a <= m /\ m < b
        BY <2>2, <3>1
      <3>3. m \in s.start .. (s.end - 1)
        BY <1>1, <3>1, <3>2
      <3>4. m \in M /\ Says(s, rs[m])
        BY <1>1, <3>3
      <3> QED BY <2>2, <3>2, <3>4 DEF Says
    <2> QED BY <2>2, <2>4
  <1>6. ASSUME NEW m \in N
        PROVE  m \in Int /\ \E r \in C : r.start <= m /\ m < r.end
    <2>1. m \in Int /\ a <= m /\ m < b /\ \E s \in S : s.start <= m /\ m < s.end
      BY DEF Tiles
    <2>2. PICK s \in S : s.start <= m /\ m < s.end
      BY <2>1
    <2>3. s.start < b /\ a < s.end
      BY <1>1, <2>1, <2>2
    <2>4. CutOf(s, a, b) \in C /\ CutOf(s, a, b).start <= m /\ m < CutOf(s, a, b).end
      BY <1>3, <2>1, <2>2, <2>3
    <2> QED BY <2>1, <2>4
  <1>7. ASSUME NEW q \in C, NEW r \in C, NEW m \in Int,
               q.start <= m /\ m < q.end /\ r.start <= m /\ m < r.end
        PROVE  q = r
    <2>1. PICK s \in S : s.start < b /\ a < s.end /\ q = CutOf(s, a, b)
      BY <1>4
    <2>2. PICK t \in S : t.start < b /\ a < t.end /\ r = CutOf(t, a, b)
      BY <1>4
    <2>3. s.start <= m /\ m < s.end
      BY <1>3, <1>7, <2>1
    <2>4. t.start <= m /\ m < t.end
      BY <1>3, <1>7, <2>2
    <2>5. s = t
      BY <2>3, <2>4 DEF Tiles
    <2> QED BY <2>1, <2>2, <2>5
  <1>8. Tiles(C, rs, N)
    <2> HIDE DEF N
    <2> QED BY <1>5, <1>6, <1>7 DEF Tiles
  <1>9. ASSUME NEW r \in C
        PROVE  \E s \in S : /\ r.start = Greater(s.start, a) /\ r.end = Lesser(s.end, b)
                            /\ r.energy <=> s.energy /\ a <= s.start /\ s.end <= b
    <2>1. PICK s \in S : s.start < b /\ a < s.end /\ r = CutOf(s, a, b)
      BY <1>4
    <2> QED BY <1>3, <2>1
  <1> QED BY <1>8, <1>9 DEF C, N

LEMMA TilesMove ==
  ASSUME NEW S, NEW rs, NEW qs, NEW M, Tiles(S, rs, M), \A m \in M : rs[m] = qs[m]
  PROVE  Tiles(S, qs, M)
  <1>1. \A s \in S : \A m \in s.start .. (s.end - 1) : m \in M /\ Says(s, qs[m])
    <2> SUFFICES ASSUME NEW s \in S, NEW m \in s.start .. (s.end - 1)
                 PROVE  m \in M /\ Says(s, qs[m])
      OBVIOUS
    <2>1. m \in M /\ Says(s, rs[m])
      BY DEF Tiles
    <2> QED BY <2>1
  <1> QED BY <1>1 DEF Tiles

\* The hours of an evidence are the whole hours inside it.
LEMMA HoursInIs ==
  ASSUME NEW lo \in Int, NEW hi \in Int, NEW h
  PROVE  h \in HoursIn(lo, hi) <=> h \in Int /\ lo <= h * MinutesPerHour /\ h * MinutesPerHour < hi
  <1> DEFINE x == h * MinutesPerHour
             p == HourOf(lo)
             q == HourOf(hi)
  <1>1. /\ p \in Int /\ q \in Int /\ p * MinutesPerHour \in Int /\ q * MinutesPerHour \in Int
        /\ p * MinutesPerHour <= lo /\ lo < p * MinutesPerHour + MinutesPerHour
        /\ q * MinutesPerHour <= hi /\ hi < q * MinutesPerHour + MinutesPerHour
    BY HourHolds
  <1>2. h \in HoursIn(lo, hi) <=> h \in p .. q /\ lo <= x /\ x < hi
    BY DEF HoursIn
  <1>3. ASSUME h \in Int, lo <= x, x < hi
        PROVE  p <= h /\ h <= q
    <2>1. x \in Int /\ MinutesPerHour \in Nat
      BY <1>3, HoursApart, HourLength
    <2>2. h < p => x + MinutesPerHour <= p * MinutesPerHour
      BY <1>1, <1>3, HoursApart
    <2>3. q < h => q * MinutesPerHour + MinutesPerHour <= x
      BY <1>1, <1>3, HoursApart
    <2> DEFINE P == p * MinutesPerHour
               Q == q * MinutesPerHour
    <2>4. P \in Int /\ Q \in Int /\ P <= lo /\ hi < Q + MinutesPerHour
      BY <1>1
    <2>5. h < p => x + MinutesPerHour <= P
      BY <2>2
    <2>6. q < h => Q + MinutesPerHour <= x
      BY <2>3
    <2>7. MinutesPerHour >= 1
      BY HourLength
    <2> HIDE DEF P, Q, x, p, q
    <2> QED BY <1>1, <1>3, <2>1, <2>4, <2>5, <2>6, <2>7
  <1>4. h \in p .. q => h \in Int
    BY <1>1
  <1> HIDE DEF x, p, q
  <1>5. h \in Int /\ lo <= x /\ x < hi => h \in p .. q
    BY <1>1, <1>3
  <1> QED BY <1>2, <1>4, <1>5 DEF x

\* An edge that a query may look at: none, or the open hour with its raw minutes.
EdgeUsable(edge) ==
    \/ edge = {}
    \/ /\ edge = {HourOf(closedUntil)} /\ closedUntil # FloorHour(closedUntil)
       /\ HourOf(closedUntil) \notin purged

\* Hours that begin before the frontier lie at or before its hour.
LEMMA BeforeFrontier ==
  ASSUME ReadInv, NEW h \in Int, h * MinutesPerHour < closedUntil
  PROVE  h <= HourOf(closedUntil)
  <1> DEFINE x == h * MinutesPerHour
             q == HourOf(closedUntil)
             y == q * MinutesPerHour
  <1>1. closedUntil \in Int
    BY DEF ReadInv, SegmentInv
  <1>2. q \in Int /\ y \in Int /\ closedUntil < y + MinutesPerHour /\ x \in Int
    BY <1>1, HourHolds, HoursApart
  <1>3. q < h => y + MinutesPerHour <= x
    BY <1>2, HoursApart
  <1>4. x < closedUntil /\ MinutesPerHour \in Nat
    BY HourLength
  <1> HIDE DEF x, y, q
  <1>5. h <= q
    BY <1>1, <1>2, <1>3, <1>4
  <1> QED BY <1>5 DEF q

\* Only a lost hour is unavailable.
LEMMA LostIs ==
  ASSUME ReadInv, NEW edge, EdgeUsable(edge), NEW h \in Int, h * MinutesPerHour < closedUntil
  PROVE  Lost(h, edge) <=> h \in lostHours
  <1>1. h <= HourOf(closedUntil) /\ HourOf(closedUntil) \in Int
    <2>1. closedUntil \in Int
      BY DEF ReadInv, SegmentInv
    <2> QED BY <2>1, BeforeFrontier, HourHolds
  <1>2. CASE h \in edge
    <2>1. h \notin purged
      BY <1>2 DEF EdgeUsable
    <2> QED BY <1>2, <2>1 DEF Lost
  <1>3. CASE h \notin edge
    <2>1. \A e \in edge : h < e
      BY <1>1, <1>3 DEF EdgeUsable
    <2>2. Lost(h, edge) <=> h \notin DOMAIN activity /\ DOMAIN RawRows(h) = {} /\ h \in lostHours \cup DOMAIN activity
      BY <1>3, <2>1 DEF Lost, Durable
    <2>3. h \in lostHours => h \notin DOMAIN activity
      BY DEF ReadInv
    <2>4. h \in lostHours => DOMAIN RawRows(h) = {}
      <3> SUFFICES ASSUME h \in lostHours, NEW m \in DOMAIN RawRows(h)
                   PROVE  FALSE
        OBVIOUS
      <3>1. m \in DOMAIN rows /\ m \in Minutes(h)
        BY DEF RawRows, Only
      <3>2. m \in Int
        BY <3>1 DEF ReadInv, SegmentInv
      <3>3. HourOf(m) = h
        BY <3>1, <3>2, HourIs
      <3> QED BY <3>1, <3>3 DEF ReadInv
    <2> QED BY <2>2, <2>3, <2>4
  <1> QED BY <1>2, <1>3

\* The minutes that the source of an hour holds.
Held(h, edge) ==
    IF Durable(h, edge) THEN DOMAIN rows \cap Minutes(h)
    ELSE {m \in DOMAIN rows \cap Minutes(h) : m < closedUntil}

\* An hour's segments, stored or built on the spot, hold them; only a stored hour may reach
\* beyond the frontier.
LEMMA HourTiles ==
  ASSUME ReadInv, NEW edge, EdgeUsable(edge), NEW h \in Int, h * MinutesPerHour < closedUntil
  PROVE  Tiles(HourSegments(h, edge), rows, Held(h, edge)) /\ \A s \in HourSegments(h, edge) : s.energy
  <1> DEFINE S == HourSegments(h, edge)
             raw == {m \in Minutes(h) : h \notin purged /\ m < closedUntil}
             from == IF Durable(h, edge) THEN Minutes(h) ELSE raw
             rs == Only(from)
  <1>1. S = BuildSegments(rs)
    BY DEF HourSegments, Durable, RawRows, ReadInv, SegmentInv
  <1>2. DOMAIN rs = DOMAIN rows \cap from /\ \A m \in DOMAIN rs : rs[m] = rows[m]
    BY DEF Only
  <1>3. Held(h, edge) = DOMAIN rs
    <2>1. CASE Durable(h, edge)
      BY <1>2, <2>1 DEF Held
    <2>2. CASE ~Durable(h, edge)
      <3>1. h \notin purged
        <4>1. h \notin DOMAIN activity => h \notin purged
          BY DEF ReadInv
        <4>2. h <= HourOf(closedUntil) /\ HourOf(closedUntil) \in Int
          <5>1. closedUntil \in Int
            BY DEF ReadInv, SegmentInv
          <5> QED BY <5>1, BeforeFrontier, HourHolds
        <4>3. (\E e \in edge : ~(h < e)) => h = HourOf(closedUntil) /\ h \notin purged
          BY <4>2 DEF EdgeUsable
        <4> QED BY <2>2, <4>1, <4>3 DEF Durable
      <3> QED BY <1>2, <2>2, <3>1 DEF Held
    <2> QED BY <2>1, <2>2
  <1>4. \A s \in S : s.energy
    <2> HIDE DEF rs, S
    <2>1. \A a : SegmentOf(rs, a).energy = TRUE
      BY DEF SegmentOf
    <2>2. \A s \in S : s.energy = TRUE
      BY <1>1, <2>1 DEF BuildSegments
    <2> QED BY <2>2
  <1>5. \A m \in DOMAIN rs : m \in Nat /\ m \in Minutes(h) /\ rs[m] \in Values
    BY <1>2 DEF ReadInv, SegmentInv
  <1> HIDE DEF rs
  <1>6. CASE h \in Nat
    <2>1. HourRows(rs, h)
      BY <1>5 DEF HourRows
    <2>2. Tiles(S, rs, DOMAIN rs)
      BY <1>1, <1>6, <2>1, BuildTiles
    <2>3. Tiles(S, rows, DOMAIN rs)
      <3> HIDE DEF S
      <3> QED BY <1>2, <2>2, TilesMove
    <2> QED BY <1>3, <1>4, <2>3
  <1>7. CASE h \notin Nat
    <2>1. DOMAIN rs = {}
      <3> SUFFICES ASSUME NEW m \in DOMAIN rs
                   PROVE  FALSE
        OBVIOUS
      <3> DEFINE x == h * MinutesPerHour
      <3>1. m \in Nat /\ m < x + MinutesPerHour /\ x \in Int
        BY <1>5, HourIs, HoursApart
      <3>2. x + MinutesPerHour <= 0 * MinutesPerHour
        BY <1>7, HoursApart
      <3>3. 0 * MinutesPerHour = 0
        BY HourLength
      <3> HIDE DEF x
      <3> QED BY <3>1, <3>2, <3>3, HourLength
    <2>2. S = {}
      BY <1>1, <2>1 DEF BuildSegments
    <2> QED BY <1>3, <2>1, <2>2 DEF Tiles
  <1> QED BY <1>6, <1>7


\* The minutes that a query may see of [lo, hi).
Seen(lo, hi) == {m \in DOMAIN rows : lo <= m /\ m < hi /\ m < closedUntil}

\* The evidence of whole hours holds every recorded minute of them that is closed, in
\* segments that lie inside their hour and have their energy unless the frontier cuts them.
LEMMA EvidenceTiles ==
  ASSUME ReadInv, NEW edge, EdgeUsable(edge), NEW lo, Whole(lo), NEW hi, Whole(hi),
         hi <= Cap \/ hi = lo
  PROVE  /\ Tiles(EvidenceSegments(lo, hi, edge), rows, Seen(lo, hi))
         /\ \A s \in EvidenceSegments(lo, hi, edge) :
               /\ s.end <= FloorHour(s.start) + MinutesPerHour
               /\ s.energy \/ FloorHour(s.start) + MinutesPerHour > closedUntil
         /\ edge = RawEdge(TRUE) => \A s \in EvidenceSegments(lo, hi, edge) : s.energy
  <1> DEFINE H == HoursIn(lo, hi)
             S == UNION {HourSegments(h, edge) : h \in H}
             M == UNION {Held(h, edge) : h \in H}
             E == EvidenceSegments(lo, hi, edge)
  <1>1. /\ lo \in Int /\ hi \in Int /\ closedUntil \in Int
        /\ MinutesPerHour \in Nat /\ MinutesPerHour >= 1
        /\ \A m \in DOMAIN rows : m \in Int
    BY WholeHours, HourLength DEF ReadInv, SegmentInv
  <1>2. ASSUME NEW h \in H
        PROVE  h \in Int /\ lo <= h * MinutesPerHour /\ h * MinutesPerHour < hi
    BY <1>1, HoursInIs
  <1>3. ASSUME NEW h \in H
        PROVE  /\ h \in Int /\ h * MinutesPerHour < closedUntil /\ h * MinutesPerHour \in Int
               /\ h * MinutesPerHour + MinutesPerHour <= hi
    <2> DEFINE x == h * MinutesPerHour
    <2>1. h \in Int /\ lo <= x /\ x < hi /\ x \in Int
      BY <1>2, HoursApart
    <2>2. Whole(x)
      BY <2>1 DEF Whole
    <2>3. closedUntil <= x => Cap <= x
      BY <1>1, <2>2, WholeHours DEF Cap
    <2>4. Cap \in Int
      BY <1>1, CeilHolds DEF Cap
    <2>5. PICK k \in Int : hi = k * MinutesPerHour
      BY DEF Whole
    <2>6. x + MinutesPerHour <= hi
      BY <2>1, <2>5, HoursApart
    <2> HIDE DEF x
    <2>7. x < closedUntil
      BY <1>1, <2>1, <2>3, <2>4
    <2> QED BY <2>1, <2>6, <2>7 DEF x
  <1>4. ASSUME NEW h \in H
        PROVE  /\ Tiles(HourSegments(h, edge), rows, Held(h, edge))
               /\ \A s \in HourSegments(h, edge) : s.energy
               /\ \A m \in Held(h, edge) : m \in DOMAIN rows /\ HourOf(m) = h
    <2>1. \A m \in Held(h, edge) : m \in DOMAIN rows /\ m \in Minutes(h)
      BY DEF Held
    <2>2. \A m \in Held(h, edge) : HourOf(m) = h
      BY <1>1, <1>3, <2>1, HourIs
    <2> QED BY <1>3, <2>1, <2>2, HourTiles
  <1>5. ASSUME NEW h \in H, NEW s \in HourSegments(h, edge)
        PROVE  /\ s \in Piece /\ s.start \in Int /\ s.end \in Int /\ s.start < s.end
               /\ s.energy
               /\ \A m \in s.start .. (s.end - 1) : m \in Held(h, edge) /\ Says(s, rows[m])
               /\ h * MinutesPerHour <= s.start /\ s.end <= h * MinutesPerHour + MinutesPerHour
    <2>1. /\ s \in Piece /\ s.start < s.end /\ s.energy
          /\ \A m \in s.start .. (s.end - 1) : m \in Held(h, edge) /\ Says(s, rows[m])
      BY <1>4 DEF Tiles
    <2>2. s.start \in Int /\ s.end \in Int
      BY <2>1 DEF Piece
    <2>3. s.start \in s.start .. (s.end - 1) /\ s.end - 1 \in s.start .. (s.end - 1)
      BY <2>1, <2>2
    <2>4. HourOf(s.start) = h /\ HourOf(s.end - 1) = h
      BY <1>4, <2>1, <2>3
    <2> DEFINE x == h * MinutesPerHour
    <2>5. x <= s.start /\ s.end - 1 < x + MinutesPerHour /\ x \in Int
      BY <1>3, <2>2, <2>4, HourIs
    <2> HIDE DEF x
    <2>6. s.end <= x + MinutesPerHour
      BY <1>1, <2>2, <2>5
    <2> QED BY <2>1, <2>2, <2>5, <2>6 DEF x
  <1> HIDE DEF H
  <1>6. Tiles(S, rows, M)
    <2>1. ASSUME NEW s \in S
          PROVE  /\ s \in Piece /\ s.start < s.end
                 /\ \A m \in s.start .. (s.end - 1) : m \in M /\ Says(s, rows[m])
      <3>1. PICK h \in H : s \in HourSegments(h, edge)
        OBVIOUS
      <3>2. \A m \in Held(h, edge) : m \in M
        OBVIOUS
      <3> HIDE DEF M, S
      <3> QED BY <1>5, <3>1, <3>2
    <2>2. ASSUME NEW m \in M
          PROVE  m \in Int /\ \E s \in S : s.start <= m /\ m < s.end
      <3>1. PICK h \in H : m \in Held(h, edge)
        OBVIOUS
      <3>2. m \in Int /\ \E s \in HourSegments(h, edge) : s.start <= m /\ m < s.end
        BY <1>4, <3>1 DEF Tiles
      <3> QED BY <3>2
    <2>3. ASSUME NEW s \in S, NEW t \in S, NEW m \in Int,
                 s.start <= m /\ m < s.end /\ t.start <= m /\ m < t.end
          PROVE  s = t
      <3>1. PICK h \in H : s \in HourSegments(h, edge)
        OBVIOUS
      <3>2. PICK k \in H : t \in HourSegments(k, edge)
        OBVIOUS
      <3> HIDE DEF M, S
      <3>3. m \in s.start .. (s.end - 1)
        BY <1>5, <2>3, <3>1
      <3>4. m \in t.start .. (t.end - 1)
        BY <1>5, <2>3, <3>2
      <3>5. m \in Held(h, edge)
        BY <1>5, <3>1, <3>3
      <3>6. m \in Held(k, edge)
        BY <1>5, <3>2, <3>4
      <3>7. h = k
        BY <1>4, <3>5, <3>6
      <3>8. Tiles(HourSegments(h, edge), rows, Held(h, edge))
        BY <1>4
      <3> QED BY <2>3, <3>1, <3>2, <3>7, <3>8 DEF Tiles
    <2> HIDE DEF S, M
    <2> QED BY <2>1, <2>2, <2>3 DEF Tiles
  <1>7. ASSUME NEW s \in S
        PROVE  \E h \in H : s \in HourSegments(h, edge)
    OBVIOUS
  <1>8. \A s \in S : lo <= s.start
    <2> SUFFICES ASSUME NEW s \in S
                 PROVE  lo <= s.start
      OBVIOUS
    <2>1. PICK h \in H : s \in HourSegments(h, edge)
      BY <1>7
    <2> DEFINE x == h * MinutesPerHour
    <2>2. lo <= x /\ x \in Int /\ x <= s.start /\ s.start \in Int
      BY <1>2, <1>3, <1>5, <2>1
    <2> HIDE DEF x, S
    <2> QED BY <1>1, <2>2
  <1>9. /\ Tiles(E, rows, {m \in M : lo <= m /\ m < closedUntil})
        /\ \A r \in E : \E s \in S :
               /\ r.start = Greater(s.start, lo) /\ r.end = Lesser(s.end, closedUntil)
               /\ r.energy <=> s.energy /\ lo <= s.start /\ s.end <= closedUntil
    <2>1. E = Clipped(S, lo, closedUntil)
      BY DEF EvidenceSegments, H
    <2> HIDE DEF S, M, E
    <2> QED BY <1>1, <1>6, <1>8, <2>1, ClippedTiles
  <1>10. {m \in M : lo <= m /\ m < closedUntil} = Seen(lo, hi)
    <2>1. ASSUME NEW m \in M, lo <= m, m < closedUntil
          PROVE  m \in Seen(lo, hi)
      <3>1. PICK h \in H : m \in Held(h, edge)
        OBVIOUS
      <3> DEFINE x == h * MinutesPerHour
      <3>2. m \in DOMAIN rows /\ m \in Int /\ HourOf(m) = h /\ h \in Int /\ x \in Int /\ x + MinutesPerHour <= hi
        BY <1>1, <1>3, <1>4, <3>1
      <3>3. m < x + MinutesPerHour
        BY <3>2, HourIs
      <3> HIDE DEF x
      <3>4. m < hi
        BY <1>1, <3>2, <3>3
      <3> QED BY <2>1, <3>2, <3>4 DEF Seen
    <2>2. ASSUME NEW m \in Seen(lo, hi)
          PROVE  m \in M /\ lo <= m /\ m < closedUntil
      <3>1. m \in DOMAIN rows /\ m \in Int /\ lo <= m /\ m < hi /\ m < closedUntil
        BY <1>1 DEF Seen
      <3> DEFINE h == HourOf(m)
                 x == FloorHour(m)
      <3>2. h \in Int /\ x = h * MinutesPerHour /\ x \in Int /\ x <= m
        BY <3>1, HourHolds
      <3>3. lo <= x
        BY <3>1, WholeHours
      <3>4. x < hi
        <4> HIDE DEF h, x
        <4> QED BY <1>1, <3>1, <3>2
      <3>5. h \in H
        BY <1>1, <3>2, <3>3, <3>4, HoursInIs DEF H
      <3>6. m \in Minutes(h)
        BY <3>1, <3>2, HourIs
      <3>7. m \in Held(h, edge)
        BY <3>1, <3>6 DEF Held
      <3> QED BY <3>1, <3>5, <3>7
    <2> HIDE DEF M
    <2> QED BY <2>1, <2>2 DEF Seen
  <1>11. ASSUME NEW r \in E
         PROVE  /\ r.end <= FloorHour(r.start) + MinutesPerHour
                /\ r.energy \/ FloorHour(r.start) + MinutesPerHour > closedUntil
                /\ edge = RawEdge(TRUE) => r.energy
    <2>1. PICK s \in S : /\ r.start = Greater(s.start, lo) /\ r.end = Lesser(s.end, closedUntil)
                         /\ r.energy <=> s.energy /\ lo <= s.start /\ s.end <= closedUntil
      BY <1>9
    <2>2. PICK h \in H : s \in HourSegments(h, edge)
      BY <1>7
    <2> DEFINE x == h * MinutesPerHour
    <2>3. /\ h \in Int /\ x \in Int /\ s.start \in Int /\ s.end \in Int /\ s.start < s.end /\ s.energy
          /\ x <= s.start /\ s.end <= x + MinutesPerHour /\ lo <= s.start /\ x < closedUntil
      BY <1>3, <1>5, <1>8, <2>2
    <2>4. r.start = s.start
      BY <1>1, <2>1, <2>3 DEF Greater
    <2>5. x <= s.start /\ s.start < x + MinutesPerHour
      <3> HIDE DEF x
      <3> QED BY <1>1, <2>3
    <2>6. FloorHour(r.start) = x
      <3>1. HourOf(s.start) = h
        BY <2>3, <2>5, HourIs
      <3> QED BY <2>3, <2>4, <3>1, HourHolds
    <2>7. r.energy <=> s.end <= closedUntil
      BY <2>1, <2>3
    <2>8. r.end <= x + MinutesPerHour
      <3> HIDE DEF x
      <3> QED BY <1>1, <2>1, <2>3 DEF Lesser
    <2>9. r.energy \/ x + MinutesPerHour > closedUntil
      <3> HIDE DEF x
      <3> QED BY <1>1, <2>3, <2>7
    <2>10. ASSUME edge = RawEdge(TRUE)
           PROVE  s.end <= closedUntil
      <3> DEFINE q == HourOf(closedUntil)
                 y == q * MinutesPerHour
      <3>1. q \in Int /\ y \in Int /\ FloorHour(closedUntil) = y /\ y <= closedUntil
        BY <1>1, HourHolds
      <3>2. h < q => x + MinutesPerHour <= y
        BY <2>3, <3>1, HoursApart
      <3>3. CASE h < q
        <4> HIDE DEF x, y, q
        <4> QED BY <1>1, <2>3, <3>1, <3>2, <3>3
      <3>4. CASE ~(h < q)
        <4>1. h = q
          <5>1. h <= q
            BY <2>3, BeforeFrontier
          <5> QED BY <2>3, <3>1, <3>4, <5>1
        <4>2. closedUntil # FloorHour(closedUntil)
          <5> HIDE DEF x
          <5>1. x = y
            BY <4>1 DEF x
          <5>2. x < closedUntil
            BY <2>3
          <5> QED BY <3>1, <5>1, <5>2
        <4>3. edge = {q}
          BY <2>10, <4>2 DEF RawEdge
        <4>4. ~Durable(h, edge)
          BY <2>3, <4>1, <4>3 DEF Durable
        <4>5. s.end - 1 \in s.start .. (s.end - 1)
          BY <2>3
        <4>6. s.end - 1 \in Held(h, edge)
          BY <1>5, <2>2, <4>5
        <4>7. s.end - 1 < closedUntil
          BY <4>4, <4>6 DEF Held
        <4> QED BY <1>1, <2>3, <4>7
      <3> QED BY <3>3, <3>4
    <2> QED BY <2>6, <2>7, <2>8, <2>9, <2>10
  <1> HIDE DEF E, M
  <1> QED BY <1>9, <1>10, <1>11 DEF E

-----------------------------------------------------------------------------
(* The timeline: what its items say is what is known of their minutes.     *)

\* From its first minute an interval runs to the next minute that is not in the set.
NextOut(T, a) == Least({m \in {k + 1 : k \in T} : m > a /\ m \notin T})

LEMMA IntervalRuns ==
  ASSUME NEW lo \in Int, NEW hi \in Int, NEW T, T \subseteq lo .. (hi - 1),
         NEW a \in T, a - 1 \notin T
  PROVE  LET e == NextOut(T, a)
         IN  /\ a \in Int /\ e \in Int /\ a < e /\ e \notin T /\ lo <= a /\ e <= hi
             /\ \A m \in a .. (e - 1) : m \in T
  <1> DEFINE U == {m \in {k + 1 : k \in T} : m > a /\ m \notin T}
             e == Least(U)
  <1>1. \A x \in T : x \in Int /\ lo <= x /\ x < hi
    OBVIOUS
  <1>2. PICK b \in T, z \in Int : /\ b <= a /\ a < z /\ lo <= b /\ z <= hi
                                  /\ b - 1 \notin T /\ z \notin T
                                  /\ \A k \in b .. (z - 1) : k \in T
    BY IntervalAround
  <1>3. a \in Int /\ b \in Int /\ lo <= a
    BY <1>1
  <1>4. z - 1 \in T
    BY <1>2, <1>3
  <1>5. z \in U
    <2>1. z = (z - 1) + 1
      BY <1>2
    <2>2. z \in {k + 1 : k \in T}
      BY <1>4, <2>1
    <2> QED BY <1>2, <1>3, <2>2
  <1>6. U \subseteq Int /\ \A x \in U : a <= x
    BY <1>1, <1>3
  <1>7. e \in U /\ \A x \in U : e <= x
    <2> HIDE DEF U
    <2> QED BY <1>3, <1>5, <1>6, LeastInt
  <1>8. e \in Int /\ a < e /\ e \notin T /\ e <= z
    BY <1>3, <1>5, <1>6, <1>7
  <1> HIDE DEF e, U
  <1>9. \A m \in a .. (e - 1) : m \in T
    <2> SUFFICES ASSUME NEW m \in a .. (e - 1)
                 PROVE  m \in T
      OBVIOUS
    <2>1. m \in b .. (z - 1)
      BY <1>2, <1>3, <1>8
    <2> QED BY <1>2, <2>1
  <1> QED BY <1>2, <1>3, <1>8, <1>9 DEF e, U, NextOut

\* Each minute of T lies in one of its intervals.
Divided(T, lo, hi) ==
    /\ \A g \in Intervals(T) :
          /\ g = <<g[1], g[2]>> /\ g[1] \in Int /\ g[2] \in Int /\ g[1] < g[2] /\ lo <= g[1] /\ g[2] <= hi
          /\ \A m \in g[1] .. (g[2] - 1) : m \in T
    /\ \A m \in T : \E g \in Intervals(T) : g[1] <= m /\ m < g[2]
    /\ \A g, f \in Intervals(T) : \A m \in Int :
          g[1] <= m /\ m < g[2] /\ f[1] <= m /\ m < f[2] => g = f

LEMMA IntervalsTile ==
  ASSUME NEW lo \in Int, NEW hi \in Int, NEW T, T \subseteq lo .. (hi - 1)
  PROVE  Divided(T, lo, hi)
  <1> DEFINE End(a) == NextOut(T, a)
             F == {m \in T : m - 1 \notin T}
             I == Intervals(T)
  <1>1. I = {<<a, End(a)>> : a \in F}
    BY DEF Intervals, NextOut
  <1>2. ASSUME NEW a \in F
        PROVE  /\ a \in Int /\ End(a) \in Int /\ a < End(a) /\ End(a) \notin T /\ lo <= a /\ End(a) <= hi
               /\ \A m \in a .. (End(a) - 1) : m \in T
               /\ a - 1 \notin T /\ a \in T
    <2>1. a \in T /\ a - 1 \notin T
      OBVIOUS
    <2> QED BY <2>1, IntervalRuns
  <1> HIDE DEF End
  <1>3. \A x \in T : x \in Int /\ lo <= x /\ x < hi
    OBVIOUS
  <1>4. ASSUME NEW m \in T
        PROVE  \E a \in F : a <= m /\ m < End(a)
    <2>1. PICK a \in T, z \in Int : /\ a <= m /\ m < z /\ lo <= a /\ z <= hi
                                    /\ a - 1 \notin T /\ z \notin T
                                    /\ \A k \in a .. (z - 1) : k \in T
      BY IntervalAround
    <2>2. a \in F
      BY <2>1
    <2>3. a \in Int /\ End(a) \in Int /\ a < End(a) /\ End(a) \notin T
      BY <1>2, <2>2
    <2>4. ~(End(a) <= m)
      <3> SUFFICES ASSUME End(a) <= m
                   PROVE  FALSE
        OBVIOUS
      <3>1. End(a) \in a .. (z - 1)
        BY <1>3, <2>1, <2>3
      <3> QED BY <2>1, <2>3, <3>1
    <2>5. m < End(a)
      BY <1>3, <2>3, <2>4
    <2> QED BY <2>1, <2>2, <2>5
  <1> HIDE DEF I
  <1>5. \A g \in I : \E a \in F : g = <<a, End(a)>> /\ g[1] = a /\ g[2] = End(a)
    BY <1>1
  <1>6. ASSUME NEW g \in I
        PROVE  /\ g = <<g[1], g[2]>> /\ g[1] \in Int /\ g[2] \in Int /\ g[1] < g[2] /\ lo <= g[1] /\ g[2] <= hi
               /\ \A m \in g[1] .. (g[2] - 1) : m \in T
               /\ g[1] \in F /\ g[2] = End(g[1])
    <2>1. PICK a \in F : g = <<a, End(a)>> /\ g[1] = a /\ g[2] = End(a)
      BY <1>5
    <2> HIDE DEF F
    <2> QED BY <1>2, <2>1
  <1>7. ASSUME NEW g \in I, NEW f \in I, NEW m \in Int, g[1] <= m /\ m < g[2] /\ f[1] <= m /\ m < f[2]
        PROVE  ~(g[1] < f[1])
    <2> SUFFICES ASSUME g[1] < f[1]
                 PROVE  FALSE
      OBVIOUS
    <2>1. f[1] \in Int /\ f[1] - 1 \notin T /\ g[1] \in Int /\ g[2] \in Int
      BY <1>6
    <2>2. f[1] - 1 \in g[1] .. (g[2] - 1)
      BY <1>7, <2>1
    <2> QED BY <1>6, <2>1, <2>2
  <1>8. ASSUME NEW g \in I, NEW f \in I, NEW m \in Int, g[1] <= m /\ m < g[2] /\ f[1] <= m /\ m < f[2]
        PROVE  g = f
    <2>1. ~(g[1] < f[1]) /\ ~(f[1] < g[1])
      BY <1>7, <1>8
    <2>2. g[1] = f[1]
      BY <1>6, <2>1
    <2> QED BY <1>6, <2>2
  <1>9. \A m \in T : \E g \in I : g[1] <= m /\ m < g[2]
    <2> SUFFICES ASSUME NEW m \in T
                 PROVE  \E g \in I : g[1] <= m /\ m < g[2]
      OBVIOUS
    <2>1. PICK a \in F : a <= m /\ m < End(a)
      BY <1>4
    <2>2. <<a, End(a)>> \in I
      BY <1>1
    <2> QED BY <2>1, <2>2
  <1> QED BY <1>6, <1>8, <1>9 DEF I, Divided

\* Items that lie beside each other from lo to limit, and say of their minutes what is known.
Tells(i, floor) ==
    \A m \in i.start .. (i.end - 1) :
        IF i.kind = "segment" THEN Evidence(m, floor) = "recorded" /\ m \in DOMAIN rows /\ Says(i, rows[m])
        ELSE i.kind \in {"gap", "unavailable"} /\ Evidence(m, floor) = i.kind

Laid(items, lo, limit, floor) ==
    /\ \A i \in items : /\ i.start \in Int /\ i.end \in Int /\ i.start < i.end
                        /\ lo <= i.start /\ i.end <= limit
                        /\ Tells(i, floor)
    /\ \A m \in Int : lo <= m /\ m < limit => \E i \in items : i.start <= m /\ m < i.end
    /\ \A i, j \in items : \A m \in Int :
           i.start <= m /\ m < i.end /\ j.start <= m /\ m < j.end => i = j

\* What is known of a minute that has closed and may be looked at.
LEMMA KnownEvidence ==
  ASSUME ReadInv, NEW m \in Int, NEW floor \in Int, floor <= m, m < closedUntil
  PROVE  /\ m \in DOMAIN rows => Evidence(m, floor) = "recorded"
         /\ m \notin DOMAIN rows /\ HourOf(m) \in lostHours => Evidence(m, floor) = "unavailable"
         /\ m \notin DOMAIN rows /\ HourOf(m) \notin lostHours => Evidence(m, floor) = "gap"
         /\ Evidence(m, floor) = "recorded" => m \in DOMAIN rows
  <1>1. closedUntil \in Int /\ (m \in DOMAIN rows => HourOf(m) \notin lostHours)
    BY DEF ReadInv, SegmentInv
  <1>2. ~(m < floor) /\ ~(m >= closedUntil)
    BY <1>1
  <1>3. HourOf(m) \in lostHours => Evidence(m, floor) = "unavailable"
    BY <1>2, ZenonT(30) DEF Evidence
  <1>4. HourOf(m) \notin lostHours /\ m \notin DOMAIN rows => Evidence(m, floor) = "gap"
    BY <1>2, Zenon DEF Evidence
  <1>5. HourOf(m) \notin lostHours /\ m \in DOMAIN rows => Evidence(m, floor) = "recorded"
    BY <1>2, Zenon DEF Evidence
  <1> QED BY <1>1, <1>3, <1>4, <1>5

\* The frontier or the evidence, whichever comes first.
LimitOf(lo, hi, end) == Greater(lo, Lesser(Greater(hi, end), closedUntil))

\* The hours a query examines.
Examined(lo, hi, end, floor) ==
    /\ Whole(lo) /\ Whole(hi) /\ floor \in Int /\ end \in Int /\ floor <= lo
    /\ hi <= Cap \/ hi = lo
    /\ end <= hi \/ closedUntil <= hi

LEMMA LimitHolds ==
  ASSUME ReadInv, NEW lo, NEW hi, NEW end, NEW floor, Examined(lo, hi, end, floor)
  PROVE  /\ lo \in Int /\ hi \in Int /\ end \in Int /\ closedUntil \in Int /\ LimitOf(lo, hi, end) \in Int
         /\ lo <= LimitOf(lo, hi, end)
         /\ \A m \in Int : lo <= m => (m < LimitOf(lo, hi, end) <=> m < hi /\ m < closedUntil)
  <1>1. lo \in Int /\ hi \in Int /\ end \in Int /\ closedUntil \in Int
    BY WholeHours, HourLength DEF Examined, ReadInv, SegmentInv
  <1>2. end <= hi \/ closedUntil <= hi
    BY DEF Examined
  <1> QED BY <1>1, <1>2 DEF LimitOf, Greater, Lesser

LEMMA TimelineLaid ==
  ASSUME ReadInv, NEW edge, EdgeUsable(edge), NEW lo, NEW hi, NEW end, NEW floor,
         Examined(lo, hi, end, floor)
  PROVE  LET items == EvidenceTimeline(lo, hi, end, edge).items
         IN  /\ Laid(items, lo, LimitOf(lo, hi, end), floor)
             /\ \A i \in items : i.kind = "segment" =>
                   /\ i \in Piece /\ i.end <= FloorHour(i.start) + MinutesPerHour
                   /\ edge = RawEdge(TRUE) => i.energy
  <1> DEFINE E == EvidenceSegments(lo, hi, edge)
             top == Greater(hi, end)
             limit == LimitOf(lo, hi, end)
             P == Clipped(E, lo, top)
             lost == LostIn(lo, hi, edge)
             open == (lo .. (limit - 1)) \ Covered(P)
             gone == {m \in open : HourOf(m) \in lost}
             here(h) == {m \in gone : HourOf(m) = h}
             Gap(g) == [kind |-> "gap", start |-> g[1], end |-> g[2]]
             Void(g) == [kind |-> "unavailable", start |-> g[1], end |-> g[2]]
             Gaps == {Gap(g) : g \in Intervals(open \ gone)}
             Voids == UNION {{Void(g) : g \in Intervals(here(h))} : h \in lost}
             items == EvidenceTimeline(lo, hi, end, edge).items
  <1>1. items = P \cup Gaps \cup Voids
    BY DEF EvidenceTimeline, Timeline, LimitOf
  <1>2. /\ Whole(lo) /\ Whole(hi) /\ (hi <= Cap \/ hi = lo) /\ floor \in Int /\ floor <= lo
        /\ lo \in Int /\ hi \in Int /\ end \in Int /\ closedUntil \in Int /\ limit \in Int /\ lo <= limit
        /\ \A m \in Int : lo <= m => (m < limit <=> m < hi /\ m < closedUntil)
    BY LimitHolds DEF Examined
  <1>3. /\ Tiles(E, rows, Seen(lo, hi))
        /\ \A s \in E : /\ s.end <= FloorHour(s.start) + MinutesPerHour
                        /\ edge = RawEdge(TRUE) => s.energy
    BY <1>2, EvidenceTiles
  <1>4. top \in Int /\ hi <= top
    BY <1>2 DEF Greater
  <1>5. \A m \in Seen(lo, hi) : m \in DOMAIN rows /\ m \in Int /\ lo <= m /\ m < hi /\ m < closedUntil /\ m < limit
    BY <1>2 DEF Seen, ReadInv, SegmentInv
  <1> HIDE DEF E, top, limit, items
  <1>6. ASSUME NEW s \in E
        PROVE  /\ s \in Piece /\ s.start \in Int /\ s.end \in Int /\ s.start < s.end
               /\ lo <= s.start /\ s.end <= hi /\ s.end <= limit
               /\ \A m \in s.start .. (s.end - 1) : m \in Seen(lo, hi) /\ Says(s, rows[m])
    <2>1. /\ s \in Piece /\ s.start < s.end
          /\ \A m \in s.start .. (s.end - 1) : m \in Seen(lo, hi) /\ Says(s, rows[m])
      BY <1>3 DEF Tiles
    <2>2. s.start \in Int /\ s.end \in Int
      BY <2>1 DEF Piece
    <2>3. s.start \in s.start .. (s.end - 1) /\ s.end - 1 \in s.start .. (s.end - 1)
      BY <2>1, <2>2
    <2>4. lo <= s.start /\ s.end - 1 < hi /\ s.end - 1 < limit
      BY <1>5, <2>1, <2>3
    <2> QED BY <1>2, <2>1, <2>2, <2>4
  <1>7. /\ Tiles(P, rows, {m \in Seen(lo, hi) : lo <= m /\ m < top})
        /\ \A r \in P : \E s \in E :
               /\ r.start = Greater(s.start, lo) /\ r.end = Lesser(s.end, top)
               /\ r.energy <=> s.energy /\ lo <= s.start /\ s.end <= top
    BY <1>2, <1>3, <1>4, <1>6, ClippedTiles
  <1>8. {m \in Seen(lo, hi) : lo <= m /\ m < top} = Seen(lo, hi)
    BY <1>2, <1>4, <1>5
  <1>9. Tiles(P, rows, Seen(lo, hi))
    BY <1>7, <1>8
  <1>10. ASSUME NEW r \in P
         PROVE  /\ r.end <= FloorHour(r.start) + MinutesPerHour
                /\ edge = RawEdge(TRUE) => r.energy
    <2>1. PICK s \in E : /\ r.start = Greater(s.start, lo) /\ r.end = Lesser(s.end, top)
                         /\ r.energy <=> s.energy /\ lo <= s.start /\ s.end <= top
      BY <1>7
    <2>2. s.start \in Int /\ s.end \in Int /\ lo <= s.start /\ s.end <= top
      BY <1>2, <1>4, <1>6
    <2>3. r.start = s.start /\ r.end = s.end /\ (r.energy <=> s.energy)
      BY <1>2, <1>4, <2>1, <2>2 DEF Greater, Lesser
    <2> QED BY <1>3, <2>3
  <1> HIDE DEF P
  <1>11. ASSUME NEW r \in P
         PROVE  /\ r \in Piece /\ r.start \in Int /\ r.end \in Int /\ r.start < r.end
                /\ r.kind = "segment" /\ lo <= r.start /\ r.end <= limit
                /\ \A m \in r.start .. (r.end - 1) : m \in Seen(lo, hi) /\ Says(r, rows[m])
    <2>1. /\ r \in Piece /\ r.start < r.end
          /\ \A m \in r.start .. (r.end - 1) : m \in Seen(lo, hi) /\ Says(r, rows[m])
      BY <1>9 DEF Tiles
    <2>2. r.start \in Int /\ r.end \in Int /\ r.kind = "segment"
      BY <2>1 DEF Piece
    <2>3. r.start \in r.start .. (r.end - 1) /\ r.end - 1 \in r.start .. (r.end - 1)
      BY <2>1, <2>2
    <2>4. lo <= r.start /\ r.end - 1 < limit
      BY <1>5, <2>1, <2>3
    <2> QED BY <1>2, <2>1, <2>2, <2>4
  <1>12. Covered(P) = Seen(lo, hi)
    <2>1. \A m \in Covered(P) : m \in Seen(lo, hi)
      BY <1>11 DEF Covered
    <2>2. ASSUME NEW m \in Seen(lo, hi)
          PROVE  m \in Covered(P)
      <3>1. PICK r \in P : r.start <= m /\ m < r.end
        BY <1>9 DEF Tiles
      <3>2. m \in r.start .. (r.end - 1)
        BY <1>5, <1>11, <3>1
      <3> QED BY <3>2 DEF Covered
    <2> QED BY <2>1, <2>2
  <1>13. \A m : m \in open <=> m \in Int /\ lo <= m /\ m < limit /\ m \notin Seen(lo, hi)
    BY <1>2, <1>12
  <1>14. ASSUME NEW m \in open
         PROVE  /\ m \in Int /\ lo <= m /\ m < limit /\ floor <= m /\ m < closedUntil
                /\ m \notin DOMAIN rows
                /\ HourOf(m) \in lost <=> HourOf(m) \in lostHours
    <2>1. m \in Int /\ lo <= m /\ m < limit /\ m \notin Seen(lo, hi)
      BY <1>13
    <2>2. m < hi /\ m < closedUntil /\ floor <= m
      BY <1>2, <2>1
    <2>3. m \notin DOMAIN rows
      BY <2>1, <2>2 DEF Seen
    <2> DEFINE h == HourOf(m)
               x == FloorHour(m)
    <2>4. h \in Int /\ x = h * MinutesPerHour /\ x \in Int /\ x <= m /\ lo <= x
      BY <1>2, <2>1, HourHolds, WholeHours
    <2>5. x < hi /\ x < closedUntil
      <3> HIDE DEF x
      <3> QED BY <1>2, <2>1, <2>2, <2>4
    <2>6. h \in HoursIn(lo, hi)
      BY <1>2, <2>4, <2>5, HoursInIs
    <2>7. Lost(h, edge) <=> h \in lostHours
      BY <2>4, <2>5, LostIs
    <2> QED BY <2>1, <2>2, <2>3, <2>6, <2>7 DEF LostIn
  <1> HIDE DEF lost, open
  <1>15. \A m \in gone : m \in open /\ HourOf(m) \in lost
    OBVIOUS
  <1>16. /\ open \ gone \subseteq lo .. (limit - 1)
         /\ \A h \in lost : here(h) \subseteq lo .. (limit - 1)
    BY <1>2, <1>14
  <1> DEFINE A == open \ gone
  <1>17. Divided(A, lo, limit)
    <2>1. A \subseteq lo .. (limit - 1)
      BY <1>16
    <2> HIDE DEF A
    <2> QED BY <1>2, <2>1, IntervalsTile
  <1>18. ASSUME NEW h \in lost
         PROVE  Divided(here(h), lo, limit)
    <2>1. here(h) \subseteq lo .. (limit - 1)
      BY <1>16
    <2> HIDE DEF here
    <2> QED BY <1>2, <2>1, IntervalsTile
  <1>19. \A m \in A : m \in open /\ HourOf(m) \notin lost
    OBVIOUS
  <1>20. \A h : \A m \in here(h) : m \in open /\ HourOf(m) = h /\ HourOf(m) \in lost
    BY <1>15
  <1>21. \A i \in Gaps : \E g \in Intervals(A) : i = Gap(g)
    OBVIOUS
  <1>22. \A i \in Voids : \E h \in lost : \E g \in Intervals(here(h)) : i = Void(g)
    OBVIOUS
  <1>23. \A g : /\ Gap(g).kind = "gap" /\ Gap(g).start = g[1] /\ Gap(g).end = g[2]
                /\ Void(g).kind = "unavailable" /\ Void(g).start = g[1] /\ Void(g).end = g[2]
    OBVIOUS
  <1>24. /\ \A g \in Intervals(A) : Gap(g) \in Gaps
         /\ \A h \in lost : \A g \in Intervals(here(h)) : Void(g) \in Voids
    <2> HIDE DEF Gap, Void, here
    <2>1. \A g \in Intervals(A) : Gap(g) \in Gaps
      OBVIOUS
    <2>2. \A h \in lost : \A g \in Intervals(here(h)) : Void(g) \in Voids
      OBVIOUS
    <2> QED BY <2>1, <2>2
  <1>25. \A m \in open : HourOf(m) \notin lost => m \in A
    OBVIOUS
  <1>26. \A m \in open : HourOf(m) \in lost => m \in here(HourOf(m))
    OBVIOUS
  <1> HIDE DEF Gap, Void, Gaps, Voids, here, A, gone
  <1>27. ASSUME NEW i \in Gaps
         PROVE  /\ i.kind = "gap" /\ i.start \in Int /\ i.end \in Int /\ i.start < i.end
                /\ lo <= i.start /\ i.end <= limit
                /\ \A m \in i.start .. (i.end - 1) : m \in open /\ HourOf(m) \notin lost
    <2>1. PICK g \in Intervals(A) : i = Gap(g)
      BY <1>21
    <2> QED BY <1>17, <1>19, <1>23, <2>1 DEF Divided
  <1>28. ASSUME NEW i \in Voids
         PROVE  /\ i.kind = "unavailable" /\ i.start \in Int /\ i.end \in Int /\ i.start < i.end
                /\ lo <= i.start /\ i.end <= limit
                /\ \A m \in i.start .. (i.end - 1) : m \in open /\ HourOf(m) \in lost
    <2>1. PICK h \in lost : \E g \in Intervals(here(h)) : i = Void(g)
      BY <1>22
    <2>2. PICK g \in Intervals(here(h)) : i = Void(g)
      BY <2>1
    <2>3. g \in Intervals(here(h)) /\ Divided(here(h), lo, limit)
      BY <1>18, <2>2
    <2>4. /\ g[1] \in Int /\ g[2] \in Int /\ g[1] < g[2] /\ lo <= g[1] /\ g[2] <= limit
          /\ \A m \in g[1] .. (g[2] - 1) : m \in here(h)
      BY <2>3 DEF Divided
    <2>5. i.kind = "unavailable" /\ i.start = g[1] /\ i.end = g[2]
      BY <1>23, <2>2
    <2> QED BY <1>20, <2>4, <2>5
  <1>29. ASSUME NEW i \in items
         PROVE  /\ i.start \in Int /\ i.end \in Int /\ i.start < i.end /\ lo <= i.start /\ i.end <= limit
                /\ Tells(i, floor)
    <2>1. CASE i \in P
      <3>1. ASSUME NEW m \in i.start .. (i.end - 1)
            PROVE  Evidence(m, floor) = "recorded" /\ m \in DOMAIN rows /\ Says(i, rows[m])
        <4>1. m \in Seen(lo, hi) /\ Says(i, rows[m])
          BY <1>11, <2>1
        <4>2. m \in DOMAIN rows /\ m \in Int /\ floor <= m /\ m < closedUntil
          BY <1>2, <1>5, <4>1
        <4> QED BY <1>2, <4>1, <4>2, KnownEvidence
      <3> QED BY <1>11, <2>1, <3>1 DEF Tells
    <2>2. CASE i \in Gaps
      <3>1. ASSUME NEW m \in i.start .. (i.end - 1)
            PROVE  Evidence(m, floor) = "gap"
        <4>1. m \in open /\ HourOf(m) \notin lost
          BY <1>27, <2>2
        <4> QED BY <1>2, <1>14, <4>1, KnownEvidence
      <3> QED BY <1>27, <2>2, <3>1 DEF Tells
    <2>3. CASE i \in Voids
      <3>1. ASSUME NEW m \in i.start .. (i.end - 1)
            PROVE  Evidence(m, floor) = "unavailable"
        <4>1. m \in open /\ HourOf(m) \in lost
          BY <1>28, <2>3
        <4> QED BY <1>2, <1>14, <4>1, KnownEvidence
      <3> QED BY <1>28, <2>3, <3>1 DEF Tells
    <2> QED BY <1>1, <2>1, <2>2, <2>3
  <1>30. ASSUME NEW m \in Int, lo <= m, m < limit
         PROVE  \E i \in items : i.start <= m /\ m < i.end
    <2>1. CASE m \in Seen(lo, hi)
      <3>1. PICK r \in P : r.start <= m /\ m < r.end
        BY <1>9, <2>1 DEF Tiles
      <3> QED BY <1>1, <3>1
    <2>2. CASE m \notin Seen(lo, hi) /\ HourOf(m) \notin lost
      <3>1. m \in A
        BY <1>13, <1>25, <1>30, <2>2
      <3>2. PICK g \in Intervals(A) : g[1] <= m /\ m < g[2]
        BY <1>17, <3>1 DEF Divided
      <3> QED BY <1>1, <1>23, <1>24, <3>2
    <2>3. CASE m \notin Seen(lo, hi) /\ HourOf(m) \in lost
      <3>1. m \in here(HourOf(m))
        BY <1>13, <1>26, <1>30, <2>3
      <3>2. PICK g \in Intervals(here(HourOf(m))) : g[1] <= m /\ m < g[2]
        BY <1>18, <2>3, <3>1 DEF Divided
      <3>3. Void(g) \in items
        BY <1>1, <1>24, <2>3
      <3> QED BY <1>23, <3>2, <3>3
    <2> QED BY <2>1, <2>2, <2>3
  <1>31. ASSUME NEW i \in items, NEW j \in items, NEW m \in Int,
                i.start <= m /\ m < i.end /\ j.start <= m /\ m < j.end
         PROVE  i = j
    <2>1. m \in i.start .. (i.end - 1) /\ m \in j.start .. (j.end - 1)
      BY <1>29, <1>31
    <2>2. m \in open => m \notin Seen(lo, hi)
      BY <1>13
    <2>3. CASE i \in P
      <3>1. m \in Seen(lo, hi)
        BY <1>11, <2>1, <2>3
      <3>2. j \in P
        BY <1>1, <1>27, <1>28, <2>1, <2>2, <3>1
      <3> QED BY <1>9, <1>31, <2>3, <3>2 DEF Tiles
    <2>4. CASE i \in Gaps
      <3>1. m \in open /\ HourOf(m) \notin lost
        BY <1>27, <2>1, <2>4
      <3>2. j \in Gaps
        BY <1>1, <1>11, <1>28, <2>1, <2>2, <3>1
      <3>3. PICK g \in Intervals(A) : i = Gap(g)
        BY <1>21, <2>4
      <3>4. PICK f \in Intervals(A) : j = Gap(f)
        BY <1>21, <3>2
      <3>5. g = f
        BY <1>17, <1>23, <1>31, <3>3, <3>4 DEF Divided
      <3> QED BY <3>3, <3>4, <3>5
    <2>5. CASE i \in Voids
      <3>1. m \in open /\ HourOf(m) \in lost
        BY <1>28, <2>1, <2>5
      <3>2. j \in Voids
        BY <1>1, <1>11, <1>27, <2>1, <2>2, <3>1
      <3>3. PICK h \in lost : \E g \in Intervals(here(h)) : i = Void(g)
        BY <1>22, <2>5
      <3>4. PICK g \in Intervals(here(h)) : i = Void(g)
        BY <3>3
      <3>5. PICK k \in lost : \E f \in Intervals(here(k)) : j = Void(f)
        BY <1>22, <3>2
      <3>6. PICK f \in Intervals(here(k)) : j = Void(f)
        BY <3>5
      <3>7. g[1] <= m /\ m < g[2] /\ f[1] <= m /\ m < f[2]
        BY <1>23, <1>31, <3>4, <3>6
      <3>8. m \in g[1] .. (g[2] - 1) /\ m \in f[1] .. (f[2] - 1)
        BY <1>18, <3>3, <3>4, <3>5, <3>6, <3>7 DEF Divided
      <3>9. h = k
        <4>1. m \in here(h) /\ m \in here(k)
          BY <1>18, <3>3, <3>4, <3>5, <3>6, <3>8 DEF Divided
        <4> QED BY <1>20, <4>1
      <3>10. g = f
        BY <1>18, <3>3, <3>4, <3>6, <3>7, <3>9 DEF Divided
      <3> QED BY <3>4, <3>6, <3>10
    <2> QED BY <1>1, <2>3, <2>4, <2>5
  <1>32. \A i \in items : i.kind = "segment" => i \in P
    BY <1>1, <1>27, <1>28
  <1>33. Laid(items, lo, limit, floor)
    BY <1>29, <1>30, <1>31 DEF Laid
  <1>34. \A i \in items : i.kind = "segment" =>
                   /\ i \in Piece /\ i.end <= FloorHour(i.start) + MinutesPerHour
                   /\ edge = RawEdge(TRUE) => i.energy
    BY <1>10, <1>11, <1>32
  <1> QED BY <1>33, <1>34 DEF items, limit

-----------------------------------------------------------------------------
(* Spans: the maximal runs of minutes of one state.                        *)

\* Minute m is known to be in a state of a family.
IsIn(m, family, state, floor) ==
    Evidence(m, floor) = "recorded" /\ StateOf(family, Segment(m)) = state

\* [a, z) is a longest run of such minutes inside [lo, limit).
IsRun(a, z, state, family, floor, lo, limit) ==
    /\ lo <= a /\ a < z /\ z <= limit
    /\ \A m \in a .. (z - 1) : IsIn(m, family, state, floor)
    /\ a = lo \/ ~IsIn(a - 1, family, state, floor)
    /\ z = limit \/ ~IsIn(z, family, state, floor)

\* The span of it, when nothing is known outside [lo, limit).
RunSpan(a, z, state, family, floor, lo, limit) ==
    [family |-> family, state |-> state, start |-> a, end |-> z,
     before |-> IF lo < a THEN EdgeAt(a - 1, family, floor) ELSE "outside",
     after |-> IF z < limit THEN EdgeAt(z, family, floor)
               ELSE IF z >= closedUntil THEN "open" ELSE "outside"]

SpansOfRuns(family, floor, lo, limit) ==
    {RunSpan(r[1], r[2], r[3], family, floor, lo, limit) :
        r \in {q \in Int \X Int \X Wanted(family) : IsRun(q[1], q[2], q[3], family, floor, lo, limit)}}

LEMMA SpansOfRunsIs ==
  ASSUME NEW family, NEW floor, NEW lo, NEW limit, NEW p
  PROVE  p \in SpansOfRuns(family, floor, lo, limit) <=>
            \E a \in Int, z \in Int, state \in Wanted(family) :
                /\ IsRun(a, z, state, family, floor, lo, limit)
                /\ p = RunSpan(a, z, state, family, floor, lo, limit)
  <1> DEFINE Q == {q \in Int \X Int \X Wanted(family) : IsRun(q[1], q[2], q[3], family, floor, lo, limit)}
             Sp(r) == RunSpan(r[1], r[2], r[3], family, floor, lo, limit)
  <1>1. SpansOfRuns(family, floor, lo, limit) = {Sp(r) : r \in Q}
    BY DEF SpansOfRuns
  <1>2. ASSUME NEW a \in Int, NEW z \in Int, NEW state \in Wanted(family),
               IsRun(a, z, state, family, floor, lo, limit),
               p = RunSpan(a, z, state, family, floor, lo, limit)
        PROVE  p \in {Sp(r) : r \in Q}
    <2> DEFINE r == <<a, z, state>>
    <2>1. r \in Int \X Int \X Wanted(family) /\ r[1] = a /\ r[2] = z /\ r[3] = state
      OBVIOUS
    <2> HIDE DEF r
    <2>2. r \in Q /\ p = Sp(r)
      BY <1>2, <2>1
    <2> HIDE DEF Q, Sp
    <2> QED BY <2>2
  <1>3. ASSUME p \in {Sp(r) : r \in Q}
        PROVE  \E a \in Int, z \in Int, state \in Wanted(family) :
                  /\ IsRun(a, z, state, family, floor, lo, limit)
                  /\ p = RunSpan(a, z, state, family, floor, lo, limit)
    <2>1. PICK r \in Q : p = Sp(r)
      BY <1>3
    <2>2. r[1] \in Int /\ r[2] \in Int /\ r[3] \in Wanted(family)
      OBVIOUS
    <2> QED BY <2>1, <2>2
  <1> QED BY <1>1, <1>2, <1>3

\* The parts of Spans.
Wanting(tl, family) == {i \in tl.items : i.kind = "segment" /\ StateOf(family, i) \in Wanted(family)}
Joined(family, i, j) == i.end = j.start /\ StateOf(family, i) = StateOf(family, j)
Heads(tl, family) == {j \in Wanting(tl, family) : \A i \in Wanting(tl, family) : ~Joined(family, i, j)}
Tails(tl, family) == {k \in Wanting(tl, family) : \A j \in Wanting(tl, family) : ~Joined(family, k, j)}
TailFrom(tl, family, s) == Least({e \in {i.end : i \in Tails(tl, family)} : e >= s.end})
SpanOf(tl, family, s) ==
    [family |-> family, state |-> StateOf(family, s), start |-> s.start, end |-> TailFrom(tl, family, s),
     before |-> Boundary(tl, family, s.start, FALSE),
     after |-> Boundary(tl, family, TailFrom(tl, family, s), TRUE)]

LEMMA SpansParts ==
  ASSUME NEW tl, NEW family
  PROVE  Spans(tl, family) = {SpanOf(tl, family, s) : s \in Heads(tl, family)}
  BY DEF Spans, SpanOf, TailFrom, Heads, Tails, Wanting, Joined

\* A timeline of [lo, limit).
Told(tl, lo, limit, floor) ==
    Laid(tl.items, lo, limit, floor) /\ tl.closed = closedUntil /\ lo \in Int /\ limit \in Int

LEMMA SaysState ==
  ASSUME NEW i, NEW m, Says(i, rows[m]), NEW family \in Families
  PROVE  /\ StateOf(family, i) = StateOf(family, Segment(m))
         /\ Unproven(family, i) <=> Unproven(family, Segment(m))
  <1>1. /\ Segment(m).activity = i.activity /\ Segment(m).compressor = i.compressor
        /\ Segment(m).fraction = i.fraction
    BY DEF Says, Segment
  <1>2. StateOf(family, i) = StateOf(family, Segment(m))
    BY <1>1 DEF StateOf
  <1> QED BY <1>1, <1>2 DEF Unproven

\* An item and a minute of it.
LEMMA ItemTells ==
  ASSUME NEW tl, NEW lo, NEW limit, NEW floor, Told(tl, lo, limit, floor),
         NEW i \in tl.items, NEW m \in Int, i.start <= m, m < i.end, NEW family \in Families
  PROVE  /\ lo <= m /\ m < limit
         /\ i.kind = "segment" <=> Evidence(m, floor) = "recorded"
         /\ i.kind # "segment" => Evidence(m, floor) = i.kind
         /\ i.kind = "segment" =>
               /\ StateOf(family, i) = StateOf(family, Segment(m))
               /\ Unproven(family, i) <=> Unproven(family, Segment(m))
         /\ \A state : IsIn(m, family, state, floor) <=> i.kind = "segment" /\ StateOf(family, i) = state
  <1>1. /\ i.start \in Int /\ i.end \in Int /\ lo <= i.start /\ i.end <= limit /\ Tells(i, floor)
        /\ lo \in Int /\ limit \in Int
    BY DEF Told, Laid
  <1>2. m \in i.start .. (i.end - 1)
    BY <1>1
  <1>3. lo <= m /\ m < limit
    BY <1>1
  <1>4. CASE i.kind = "segment"
    <2>1. Evidence(m, floor) = "recorded" /\ Says(i, rows[m])
      BY <1>1, <1>2, <1>4 DEF Tells
    <2>2. /\ StateOf(family, i) = StateOf(family, Segment(m))
          /\ Unproven(family, i) <=> Unproven(family, Segment(m))
      BY <2>1, SaysState
    <2> QED BY <1>3, <1>4, <2>1, <2>2 DEF IsIn
  <1>5. CASE i.kind # "segment"
    <2>1. i.kind \in {"gap", "unavailable"} /\ Evidence(m, floor) = i.kind
      BY <1>1, <1>2, <1>5 DEF Tells
    <2> QED BY <1>3, <1>5, <2>1 DEF IsIn
  <1> QED BY <1>4, <1>5

\* Items meet.
LEMMA ItemsMeet ==
  ASSUME NEW tl, NEW lo, NEW limit, NEW floor, Told(tl, lo, limit, floor), NEW s \in tl.items
  PROVE  /\ s.start \in Int /\ s.end \in Int /\ s.start < s.end /\ lo <= s.start /\ s.end <= limit
         /\ lo < s.start => \E i \in tl.items : i.end = s.start
         /\ s.end < limit => \E j \in tl.items : j.start = s.end
  <1>1. \A i \in tl.items : i.start \in Int /\ i.end \in Int /\ i.start < i.end /\ lo <= i.start /\ i.end <= limit
    BY DEF Told, Laid
  <1>2. /\ \A m \in Int : lo <= m /\ m < limit => \E i \in tl.items : i.start <= m /\ m < i.end
        /\ \A i, j \in tl.items : \A m \in Int :
             i.start <= m /\ m < i.end /\ j.start <= m /\ m < j.end => i = j
        /\ lo \in Int /\ limit \in Int
    BY DEF Told, Laid
  <1>3. ASSUME lo < s.start
        PROVE  \E i \in tl.items : i.end = s.start
    <2>1. PICK i \in tl.items : i.start <= s.start - 1 /\ s.start - 1 < i.end
      <3>1. s.start - 1 \in Int /\ lo <= s.start - 1 /\ s.start - 1 < limit
        BY <1>1, <1>2, <1>3
      <3> QED BY <1>2, <3>1
    <2>2. ~(s.start < i.end)
      <3> SUFFICES ASSUME s.start < i.end
                   PROVE  FALSE
        OBVIOUS
      <3>1. i = s
        BY <1>1, <1>2, <2>1
      <3> QED BY <1>1, <2>1, <3>1
    <2> QED BY <1>1, <2>1, <2>2
  <1>4. ASSUME s.end < limit
        PROVE  \E j \in tl.items : j.start = s.end
    <2>1. PICK j \in tl.items : j.start <= s.end /\ s.end < j.end
      BY <1>1, <1>2, <1>4
    <2>2. ~(j.start < s.end)
      <3> SUFFICES ASSUME j.start < s.end
                   PROVE  FALSE
        OBVIOUS
      <3>1. /\ s.end - 1 \in Int /\ s.start <= s.end - 1 /\ s.end - 1 < s.end
            /\ j.start <= s.end - 1 /\ s.end - 1 < j.end
        BY <1>1, <2>1
      <3>2. j = s
        BY <1>2, <3>1
      <3> QED BY <1>1, <2>1, <3>2
    <2> QED BY <1>1, <2>1, <2>2
  <1> QED BY <1>1, <1>3, <1>4

\* An edge is judged by what is known of the minute beside it.
LEMMA EdgeBefore ==
  ASSUME NEW tl, NEW lo, NEW limit, NEW floor, Told(tl, lo, limit, floor),
         NEW s \in tl.items, NEW family \in Families
  PROVE  Boundary(tl, family, s.start, FALSE) =
            IF lo < s.start THEN EdgeAt(s.start - 1, family, floor) ELSE "outside"
  <1> DEFINE near == {i \in tl.items : i.end = s.start}
             item == CHOOSE i \in near : TRUE
             m == s.start - 1
  <1>1. Boundary(tl, family, s.start, FALSE) =
           IF near = {} THEN "outside"
           ELSE IF item.kind # "segment" THEN item.kind
           ELSE IF Unproven(family, item) THEN "unknown" ELSE "observed"
    BY DEF Boundary
  <1>2. \A i \in tl.items : i.start \in Int /\ i.end \in Int /\ i.start < i.end /\ lo <= i.start
    BY ItemsMeet
  <1>3. near = {} <=> ~(lo < s.start)
    <2>1. lo < s.start => near # {}
      BY ItemsMeet
    <2>2. ASSUME NEW i \in near
          PROVE  lo < s.start
      <3>1. i.end = s.start /\ lo <= i.start /\ i.start < i.end /\ i.start \in Int /\ i.end \in Int /\ lo \in Int
        BY <1>2 DEF Told
      <3> QED BY <3>1
    <2> QED BY <2>1, <2>2
  <1>4. CASE near = {}
    BY <1>1, <1>3, <1>4
  <1>5. CASE near # {}
    <2>1. item \in tl.items /\ item.end = s.start
      BY <1>5
    <2> HIDE DEF item, near
    <2>2. m \in Int /\ item.start <= m /\ m < item.end
      BY <1>2, <2>1
    <2> HIDE DEF m
    <2>3. /\ item.kind = "segment" <=> Evidence(m, floor) = "recorded"
          /\ item.kind # "segment" => Evidence(m, floor) = item.kind
          /\ item.kind = "segment" => (Unproven(family, item) <=> Unproven(family, Segment(m)))
      BY <2>1, <2>2, ItemTells
    <2>4. Boundary(tl, family, s.start, FALSE) = EdgeAt(m, family, floor)
      BY <1>1, <1>5, <2>3 DEF EdgeAt
    <2> QED BY <1>3, <1>5, <2>4 DEF m
  <1> QED BY <1>4, <1>5

LEMMA EdgeAfter ==
  ASSUME NEW tl, NEW lo, NEW limit, NEW floor, Told(tl, lo, limit, floor),
         NEW s \in tl.items, NEW family \in Families
  PROVE  Boundary(tl, family, s.end, TRUE) =
            IF s.end < limit THEN EdgeAt(s.end, family, floor)
            ELSE IF s.end >= closedUntil THEN "open" ELSE "outside"
  <1> DEFINE near == {i \in tl.items : i.start = s.end}
             item == CHOOSE i \in near : TRUE
             m == s.end
  <1>0. tl.closed = closedUntil
    BY DEF Told
  <1>1. Boundary(tl, family, s.end, TRUE) =
           IF near = {} THEN IF s.end >= closedUntil THEN "open" ELSE "outside"
           ELSE IF item.kind # "segment" THEN item.kind
           ELSE IF Unproven(family, item) THEN "unknown" ELSE "observed"
    BY <1>0 DEF Boundary
  <1>2. \A i \in tl.items : i.start \in Int /\ i.end \in Int /\ i.start < i.end /\ i.end <= limit
    BY ItemsMeet
  <1>3. near = {} <=> ~(s.end < limit)
    <2>1. s.end < limit => near # {}
      BY ItemsMeet
    <2>2. ASSUME NEW i \in near
          PROVE  s.end < limit
      <3>1. i.start = s.end /\ i.end <= limit /\ i.start < i.end /\ i.start \in Int /\ i.end \in Int /\ limit \in Int
        BY <1>2 DEF Told
      <3> QED BY <3>1
    <2> QED BY <2>1, <2>2
  <1>4. CASE near = {}
    BY <1>1, <1>3, <1>4
  <1>5. CASE near # {}
    <2>1. item \in tl.items /\ item.start = s.end
      BY <1>5
    <2> HIDE DEF item, near
    <2>2. m \in Int /\ item.start <= m /\ m < item.end
      BY <1>2, <2>1
    <2> HIDE DEF m
    <2>3. /\ item.kind = "segment" <=> Evidence(m, floor) = "recorded"
          /\ item.kind # "segment" => Evidence(m, floor) = item.kind
          /\ item.kind = "segment" => (Unproven(family, item) <=> Unproven(family, Segment(m)))
      BY <2>1, <2>2, ItemTells
    <2>4. Boundary(tl, family, s.end, TRUE) = EdgeAt(m, family, floor)
      BY <1>1, <1>5, <2>3 DEF EdgeAt
    <2> QED BY <1>3, <1>5, <2>4 DEF m
  <1> QED BY <1>4, <1>5

\* A segment that joins none before it begins a run.
LEMMA HeadRuns ==
  ASSUME NEW tl, NEW lo, NEW limit, NEW floor, Told(tl, lo, limit, floor),
         NEW family \in Families, NEW s \in Heads(tl, family)
  PROVE  \E z \in Int : IsRun(s.start, z, StateOf(family, s), family, floor, lo, limit)
  <1> DEFINE state == StateOf(family, s)
             M == {m \in Int : lo <= m /\ m < limit /\ IsIn(m, family, state, floor)}
             b == s.start
  <1>1. s \in tl.items /\ s.kind = "segment" /\ state \in Wanted(family)
    BY DEF Heads, Wanting
  <1>2. /\ b \in Int /\ s.end \in Int /\ b < s.end /\ lo <= b /\ s.end <= limit
        /\ lo \in Int /\ limit \in Int
    BY <1>1, ItemsMeet DEF Told
  <1>3. b \in M
    <2>1. IsIn(b, family, state, floor)
      BY <1>1, <1>2, ItemTells
    <2> QED BY <1>2, <2>1
  <1>4. \A m : m \in M <=> m \in Int /\ lo <= m /\ m < limit /\ IsIn(m, family, state, floor)
    OBVIOUS
  <1> HIDE DEF M, b, state
  <1>5. M \subseteq lo .. (limit - 1)
    BY <1>2, <1>4
  <1>6. PICK a \in M, z \in Int : /\ a <= b /\ b < z /\ lo <= a /\ z <= limit
                                  /\ a - 1 \notin M /\ z \notin M
                                  /\ \A k \in a .. (z - 1) : k \in M
    <2>1. lo \in Int /\ limit \in Int
      BY <1>2
    <2> QED BY <1>3, <1>5, <2>1, IntervalAround, Zenon
  <1>7. a = b
    <2> SUFFICES ASSUME a # b
                 PROVE  FALSE
      OBVIOUS
    <2>1. a \in Int /\ lo <= b - 1 /\ b - 1 \in a .. (z - 1) /\ lo < b
      BY <1>2, <1>4, <1>6
    <2>2. PICK i \in tl.items : i.end = b
      BY <1>1, <2>1, ItemsMeet DEF b
    <2>3. i.start \in Int /\ i.start <= b - 1 /\ b - 1 < i.end
      <3>1. i.start \in Int /\ i.end \in Int /\ i.start < i.end
        BY ItemsMeet
      <3> QED BY <2>2, <3>1
    <2>4. IsIn(b - 1, family, state, floor)
      BY <1>4, <1>6, <2>1
    <2>5. i.kind = "segment" /\ StateOf(family, i) = state
      BY <1>2, <2>3, <2>4, ItemTells
    <2>6. i \in Wanting(tl, family) /\ Joined(family, i, s)
      BY <1>1, <2>2, <2>5 DEF Wanting, Joined, b, state
    <2> QED BY <2>6 DEF Heads
  <1>8. IsRun(b, z, state, family, floor, lo, limit)
    <2>1. b = lo \/ ~IsIn(b - 1, family, state, floor)
      BY <1>2, <1>4, <1>6, <1>7
    <2>2. z = limit \/ ~IsIn(z, family, state, floor)
      BY <1>2, <1>4, <1>6
    <2>3. \A m \in b .. (z - 1) : IsIn(m, family, state, floor)
      BY <1>4, <1>6, <1>7
    <2> QED BY <1>2, <1>6, <2>1, <2>2, <2>3 DEF IsRun
  <1> QED BY <1>8 DEF b, state

\* A run begins with such a segment, and the next segment that joins none after it ends it.
LEMMA RunHeads ==
  ASSUME NEW tl, NEW lo, NEW limit, NEW floor, Told(tl, lo, limit, floor),
         NEW family \in Families, NEW a \in Int, NEW z \in Int, NEW state \in Wanted(family),
         IsRun(a, z, state, family, floor, lo, limit)
  PROVE  \E s \in Heads(tl, family), t \in tl.items :
            /\ s.start = a /\ StateOf(family, s) = state
            /\ TailFrom(tl, family, s) = z /\ t.end = z
  <1> DEFINE W == Wanting(tl, family)
             In(m) == IsIn(m, family, state, floor)
  <1>1. /\ lo <= a /\ a < z /\ z <= limit /\ lo \in Int /\ limit \in Int
        /\ \A m \in a .. (z - 1) : In(m)
        /\ a = lo \/ ~In(a - 1)
        /\ z = limit \/ ~In(z)
    BY DEF IsRun, Told
  <1>2. /\ \A m \in Int : lo <= m /\ m < limit => \E i \in tl.items : i.start <= m /\ m < i.end
        /\ \A i, j \in tl.items : \A m \in Int :
             i.start <= m /\ m < i.end /\ j.start <= m /\ m < j.end => i = j
    BY DEF Told, Laid
  <1>3. ASSUME NEW i \in tl.items
        PROVE  i.start \in Int /\ i.end \in Int /\ i.start < i.end /\ lo <= i.start /\ i.end <= limit
    BY ItemsMeet
  <1>4. ASSUME NEW i \in tl.items, NEW m \in Int, i.start <= m, m < i.end
        PROVE  In(m) <=> i \in W /\ StateOf(family, i) = state
    <2>1. In(m) <=> i.kind = "segment" /\ StateOf(family, i) = state
      BY <1>4, ItemTells
    <2> QED BY <2>1 DEF Wanting
  <1>5. W \subseteq tl.items
    BY DEF Wanting
  <1> HIDE DEF W, In
  <1>6. PICK s \in tl.items : s.start <= a /\ a < s.end
    BY <1>1, <1>2
  <1>7. PICK t \in tl.items : t.start <= z - 1 /\ z - 1 < t.end
    <2>1. z - 1 \in Int /\ lo <= z - 1 /\ z - 1 < limit
      BY <1>1
    <2> QED BY <1>2, <2>1
  <1>8. In(a) /\ In(z - 1)
    BY <1>1
  <1>9. s \in W /\ StateOf(family, s) = state /\ t \in W /\ StateOf(family, t) = state
    BY <1>4, <1>6, <1>7, <1>8
  <1>10. ASSUME NEW i \in tl.items, i \in W, StateOf(family, i) = state, i.start < a
         PROVE  ~(a <= i.end)
    <2> SUFFICES ASSUME a <= i.end
                 PROVE  FALSE
      OBVIOUS
    <2>1. i.start <= a - 1 /\ a - 1 < i.end /\ a - 1 \in Int /\ a # lo
      BY <1>1, <1>3, <1>10
    <2>2. In(a - 1)
      BY <1>4, <1>10, <2>1
    <2> QED BY <1>1, <2>1, <2>2
  <1>11. ASSUME NEW i \in tl.items, i \in W, StateOf(family, i) = state, i.start <= z
         PROVE  ~(z < i.end)
    <2> SUFFICES ASSUME z < i.end
                 PROVE  FALSE
      OBVIOUS
    <2>1. In(z)
      BY <1>4, <1>11
    <2>2. z # limit
      BY <1>1, <1>3
    <2> QED BY <1>1, <2>1, <2>2
  <1>12. s.start = a
    <2>1. ~(s.start < a)
      <3>1. a <= s.end
        BY <1>3, <1>6
      <3> QED BY <1>9, <1>10, <3>1
    <2> QED BY <1>3, <1>6, <2>1
  <1>13. t.end = z
    <2>1. t.start <= z
      BY <1>3, <1>7
    <2>2. ~(z < t.end)
      BY <1>9, <1>11, <2>1
    <2> QED BY <1>3, <1>7, <2>2
  <1>14. s.end <= z
    <2>1. ~(z < s.end)
      BY <1>1, <1>9, <1>11, <1>12
    <2> QED BY <1>3, <2>1
  <1>15. s \in Heads(tl, family)
    <2> SUFFICES ASSUME NEW i \in W, Joined(family, i, s)
                 PROVE  FALSE
      BY <1>9 DEF Heads, W
    <2>1. i.end = a /\ StateOf(family, i) = state /\ i \in tl.items
      BY <1>5, <1>9, <1>12 DEF Joined
    <2>2. i.start < a /\ a <= i.end
      BY <1>3, <2>1
    <2> QED BY <1>10, <2>1, <2>2
  <1>16. t \in Tails(tl, family)
    <2> SUFFICES ASSUME NEW j \in W, Joined(family, t, j)
                 PROVE  FALSE
      BY <1>9 DEF Tails, W
    <2>1. j.start = z /\ StateOf(family, j) = state /\ j \in tl.items
      BY <1>5, <1>9, <1>13 DEF Joined
    <2>2. j.start <= z /\ z < j.end
      BY <1>3, <2>1
    <2> QED BY <1>11, <2>1, <2>2
  <1>17. ASSUME NEW k \in Tails(tl, family), s.end <= k.end
         PROVE  ~(k.end < z)
    <2> SUFFICES ASSUME k.end < z
                 PROVE  FALSE
      OBVIOUS
    <2>1. k \in W /\ k \in tl.items
      BY <1>5 DEF Tails, W
    <2>2. /\ k.start \in Int /\ k.end \in Int /\ k.start < k.end /\ s.end \in Int /\ a < s.end
      BY <1>3, <1>6, <2>1
    <2>3. k.end - 1 \in a .. (z - 1) /\ k.end \in a .. (z - 1) /\ k.end - 1 \in Int
      BY <1>17, <2>2
    <2>4. In(k.end - 1) /\ In(k.end)
      BY <1>1, <2>3
    <2>5. k.start <= k.end - 1 /\ k.end - 1 < k.end
      BY <2>2
    <2>6. StateOf(family, k) = state
      BY <1>4, <2>1, <2>3, <2>4, <2>5
    <2>7. k.end < limit
      BY <1>1, <2>2
    <2>8. PICK j \in tl.items : j.start = k.end
      BY <2>1, <2>7, ItemsMeet
    <2>9. j.start <= k.end /\ k.end < j.end
      BY <1>3, <2>8
    <2>10. j \in W /\ StateOf(family, j) = state
      BY <1>4, <2>2, <2>4, <2>9
    <2>11. Joined(family, k, j)
      BY <2>6, <2>8, <2>10 DEF Joined
    <2> QED BY <2>10, <2>11 DEF Tails, W
  <1>18. TailFrom(tl, family, s) = z
    <2> DEFINE T == {e \in {i.end : i \in Tails(tl, family)} : e >= s.end}
    <2>1. z \in T
      BY <1>3, <1>13, <1>14, <1>16
    <2>2. ASSUME NEW e \in T
          PROVE  e \in Int /\ z <= e /\ s.end <= e
      <3>1. PICK k \in Tails(tl, family) : e = k.end /\ e >= s.end
        OBVIOUS
      <3>2. k \in tl.items
        BY <1>5 DEF Tails, W
      <3>3. k.end \in Int /\ s.end \in Int
        BY <1>3, <3>2
      <3>4. s.end <= k.end
        BY <3>1, <3>3
      <3>5. ~(k.end < z)
        BY <1>17, <3>4
      <3> QED BY <3>1, <3>3, <3>4, <3>5
    <2>3. TailFrom(tl, family, s) = Least(T)
      BY DEF TailFrom
    <2> HIDE DEF T
    <2>4. T \subseteq Int /\ T # {} /\ \A e \in T : z <= e
      BY <2>1, <2>2
    <2>5. Least(T) \in T /\ \A y \in T : Least(T) <= y
      BY <2>4, LeastInt
    <2>6. Least(T) \in Int /\ Least(T) <= z /\ z <= Least(T)
      BY <2>1, <2>2, <2>5
    <2> QED BY <2>3, <2>6
  <1> QED BY <1>9, <1>12, <1>13, <1>15, <1>18

\* The spans of a timeline are those of the runs inside it.
LEMMA SpansAreRuns ==
  ASSUME NEW tl, NEW lo, NEW limit, NEW floor, Told(tl, lo, limit, floor), NEW family \in Families
  PROVE  Spans(tl, family) = SpansOfRuns(family, floor, lo, limit)
  <1>1. ASSUME NEW s \in Heads(tl, family), NEW t \in tl.items, NEW a \in Int, NEW z \in Int,
               NEW state \in Wanted(family),
               s.start = a, StateOf(family, s) = state, TailFrom(tl, family, s) = z, t.end = z
        PROVE  SpanOf(tl, family, s) = RunSpan(a, z, state, family, floor, lo, limit)
    <2>1. s \in tl.items
      BY DEF Heads, Wanting
    <2>2. Boundary(tl, family, a, FALSE) = IF lo < a THEN EdgeAt(a - 1, family, floor) ELSE "outside"
      BY <1>1, <2>1, EdgeBefore
    <2>3. Boundary(tl, family, z, TRUE) = IF z < limit THEN EdgeAt(z, family, floor)
                                          ELSE IF z >= closedUntil THEN "open" ELSE "outside"
      <3>1. Boundary(tl, family, t.end, TRUE) = IF t.end < limit THEN EdgeAt(t.end, family, floor)
                                                ELSE IF t.end >= closedUntil THEN "open" ELSE "outside"
        BY EdgeAfter
      <3> QED BY <1>1, <3>1
    <2> QED BY <1>1, <2>2, <2>3 DEF SpanOf, RunSpan
  <1>2. ASSUME NEW p \in Spans(tl, family)
        PROVE  p \in SpansOfRuns(family, floor, lo, limit)
    <2>1. PICK s \in Heads(tl, family) : p = SpanOf(tl, family, s)
      BY SpansParts
    <2> DEFINE state == StateOf(family, s)
               a == s.start
    <2>2. s \in tl.items /\ state \in Wanted(family)
      BY DEF Heads, Wanting
    <2>3. a \in Int
      BY <2>2, ItemsMeet
    <2>4. PICK z \in Int : IsRun(a, z, state, family, floor, lo, limit)
      BY HeadRuns
    <2> HIDE DEF state, a
    <2>5. PICK r \in Heads(tl, family), t \in tl.items :
             r.start = a /\ StateOf(family, r) = state /\ TailFrom(tl, family, r) = z /\ t.end = z
      BY <2>2, <2>3, <2>4, RunHeads
    <2>6. r = s
      <3>1. r \in tl.items
        BY DEF Heads, Wanting
      <3>2. /\ r.start \in Int /\ r.end \in Int /\ r.start < r.end
            /\ s.start \in Int /\ s.end \in Int /\ s.start < s.end
        BY <2>2, <3>1, ItemsMeet
      <3>3. r.start <= a /\ a < r.end /\ s.start <= a /\ a < s.end
        BY <2>5, <3>2 DEF a
      <3> QED BY <2>2, <2>3, <3>1, <3>3 DEF Told, Laid
    <2>7. p = RunSpan(a, z, state, family, floor, lo, limit)
      BY <1>1, <2>1, <2>2, <2>3, <2>5, <2>6 DEF a, state
    <2> QED BY <2>2, <2>3, <2>4, <2>7, SpansOfRunsIs
  <1>3. ASSUME NEW a \in Int, NEW z \in Int, NEW state \in Wanted(family),
               IsRun(a, z, state, family, floor, lo, limit)
        PROVE  RunSpan(a, z, state, family, floor, lo, limit) \in Spans(tl, family)
    <2>1. \E s \in Heads(tl, family), t \in tl.items :
             s.start = a /\ StateOf(family, s) = state /\ TailFrom(tl, family, s) = z /\ t.end = z
      BY <1>3, RunHeads
    <2>2. PICK s \in Heads(tl, family), t \in tl.items :
             s.start = a /\ StateOf(family, s) = state /\ TailFrom(tl, family, s) = z /\ t.end = z
      BY <2>1
    <2>3. RunSpan(a, z, state, family, floor, lo, limit) = SpanOf(tl, family, s)
      BY <1>1, <2>2
    <2> QED BY <2>3, SpansParts
  <1>4. ASSUME NEW p \in SpansOfRuns(family, floor, lo, limit)
        PROVE  p \in Spans(tl, family)
    <2>1. PICK a \in Int, z \in Int, state \in Wanted(family) :
             /\ IsRun(a, z, state, family, floor, lo, limit)
             /\ p = RunSpan(a, z, state, family, floor, lo, limit)
      BY SpansOfRunsIs
    <2> QED BY <1>3, <2>1
  <1> QED BY <1>2, <1>4

\* So are the spans of everything ever recorded, of the runs before the frontier.
LEMMA TrueSpansAreRuns ==
  ASSUME ReadInv, NEW family \in Families, NEW floor \in Int, floor <= 0
  PROVE  TrueSpans(family, floor) = SpansOfRuns(family, floor, floor, closedUntil)
  <1> DEFINE in(m, state) == IsIn(m, family, state, floor)
             state(m) == StateOf(family, Segment(m))
             Out(m, st) == {k \in m .. closedUntil : ~in(k + 1, st)}
             last(m, st) == Least(Out(m, st))
             firsts == {m \in 0 .. (closedUntil - 1) :
                          /\ Evidence(m, floor) = "recorded"
                          /\ state(m) \in Wanted(family)
                          /\ ~in(m - 1, state(m))}
             Sp(m) == [family |-> family, state |-> state(m), start |-> m, end |-> last(m, state(m)) + 1,
                       before |-> EdgeAt(m - 1, family, floor),
                       after |-> EdgeAt(last(m, state(m)) + 1, family, floor)]
  <1>1. TrueSpans(family, floor) = {Sp(m) : m \in firsts}
    BY DEF TrueSpans, IsIn
  <1>2. closedUntil \in Int /\ \A m \in DOMAIN rows : m \in Nat
    BY DEF ReadInv, SegmentInv
  <1>3. ASSUME NEW m \in Int, NEW st, in(m, st)
        PROVE  m \in DOMAIN rows /\ m \in Nat /\ floor <= m /\ m < closedUntil /\ st = state(m)
               /\ Evidence(m, floor) = "recorded"
    <2>1. Evidence(m, floor) = "recorded" /\ st = state(m)
      BY <1>3 DEF IsIn
    <2>2. ~(m < floor) /\ ~(m >= closedUntil)
      BY <2>1 DEF Evidence
    <2>3. floor <= m /\ m < closedUntil
      BY <1>2, <2>2
    <2>4. m \in DOMAIN rows
      BY <2>1, <2>3, KnownEvidence
    <2> QED BY <1>2, <2>1, <2>3, <2>4
  <1>4. /\ \A m \in Int : m < floor => Evidence(m, floor) = "outside"
        /\ \A m \in Int : m >= closedUntil /\ ~(m < floor) => Evidence(m, floor) = "open"
    BY DEF Evidence
  \* where a run that begins at a first minute ends
  <1>5. ASSUME NEW m \in firsts
        PROVE  /\ m \in Int /\ last(m, state(m)) \in Int
               /\ IsRun(m, last(m, state(m)) + 1, state(m), family, floor, floor, closedUntil)
    <2> DEFINE st == state(m)
               D == Out(m, st)
               e == last(m, st)
    <2>1. m \in Int /\ 0 <= m /\ m < closedUntil /\ in(m, st) /\ ~in(m - 1, st)
      BY <1>2 DEF IsIn
    <2>2. D \subseteq Int /\ \A x \in D : m <= x /\ x <= closedUntil /\ ~in(x + 1, st)
      BY <1>2, <2>1
    <2>3. closedUntil - 1 \in D
      <3>1. ~in(closedUntil, st)
        BY <1>2, <1>3
      <3>2. closedUntil - 1 \in m .. closedUntil /\ (closedUntil - 1) + 1 = closedUntil
        BY <1>2, <2>1
      <3> QED BY <3>1, <3>2
    <2>4. e \in D /\ \A x \in D : e <= x
      <3> HIDE DEF D
      <3>1. Least(D) \in D /\ \A x \in D : Least(D) <= x
        BY <2>1, <2>2, <2>3, LeastInt
      <3> QED BY <3>1 DEF D
    <2>5. e \in Int /\ m <= e /\ e <= closedUntil - 1 /\ ~in(e + 1, st)
      BY <1>2, <2>2, <2>3, <2>4
    <2>6. \A x : x \in D <=> x \in m .. closedUntil /\ ~in(x + 1, st)
      OBVIOUS
    <2> HIDE DEF e, D, st, in
    <2>7. ASSUME NEW k \in m .. ((e + 1) - 1)
          PROVE  in(k, st)
      <3>1. k \in Int /\ m <= k /\ k <= e
        BY <2>1, <2>5
      <3>2. CASE k = m
        BY <2>1, <3>2
      <3>3. CASE k # m
        <4>1. k - 1 \in m .. closedUntil /\ ~(e <= k - 1) /\ (k - 1) + 1 = k
          BY <1>2, <2>1, <2>5, <3>1, <3>3
        <4>2. k - 1 \notin D
          BY <2>4, <4>1
        <4> QED BY <2>6, <4>1, <4>2
      <3> QED BY <3>2, <3>3
    <2>8. floor <= m /\ m < e + 1 /\ e + 1 <= closedUntil
      BY <1>2, <2>1, <2>5
    <2>9. IsRun(m, e + 1, st, family, floor, floor, closedUntil)
      BY <2>1, <2>5, <2>7, <2>8 DEF IsRun, in
    <2> QED BY <2>1, <2>5, <2>9 DEF e, st
  <1> HIDE DEF last
  <1>6. ASSUME NEW m \in firsts
        PROVE  Sp(m) = RunSpan(m, last(m, state(m)) + 1, state(m), family, floor, floor, closedUntil)
    <2> DEFINE z == last(m, state(m)) + 1
    <2>1. m \in Int /\ z \in Int /\ floor <= m /\ z <= closedUntil /\ m < z
      BY <1>5 DEF IsRun
    <2>2. ~(floor < m) => EdgeAt(m - 1, family, floor) = "outside"
      BY <1>4, <2>1 DEF EdgeAt
    <2>3. ~(z < closedUntil) => z >= closedUntil /\ EdgeAt(z, family, floor) = "open"
      BY <1>2, <1>4, <2>1 DEF EdgeAt
    <2> HIDE DEF z
    <2>4. EdgeAt(m - 1, family, floor) = IF floor < m THEN EdgeAt(m - 1, family, floor) ELSE "outside"
      BY <2>2
    <2>5. EdgeAt(z, family, floor) = IF z < closedUntil THEN EdgeAt(z, family, floor)
                                     ELSE IF z >= closedUntil THEN "open" ELSE "outside"
      BY <2>3
    <2> QED BY <2>4, <2>5 DEF RunSpan, z
  <1>7. ASSUME NEW p \in TrueSpans(family, floor)
        PROVE  p \in SpansOfRuns(family, floor, floor, closedUntil)
    <2>1. PICK m \in firsts : p = Sp(m)
      BY <1>1
    <2>2. state(m) \in Wanted(family)
      BY <2>1
    <2>3. last(m, state(m)) + 1 \in Int
      BY <1>5
    <2> HIDE DEF firsts, Sp
    <2> QED BY <1>5, <1>6, <2>1, <2>2, <2>3, SpansOfRunsIs
  <1>8. ASSUME NEW p \in SpansOfRuns(family, floor, floor, closedUntil)
        PROVE  p \in TrueSpans(family, floor)
    <2>1. PICK a \in Int, z \in Int, st \in Wanted(family) :
             /\ IsRun(a, z, st, family, floor, floor, closedUntil)
             /\ p = RunSpan(a, z, st, family, floor, floor, closedUntil)
      BY SpansOfRunsIs
    <2>2. /\ floor <= a /\ a < z /\ z <= closedUntil
          /\ \A m \in a .. (z - 1) : in(m, st)
          /\ a = floor \/ ~in(a - 1, st)
          /\ z = closedUntil \/ ~in(z, st)
      BY <2>1 DEF IsRun
    <2>3. in(a, st)
      BY <2>2
    <2>4. a \in Nat /\ a < closedUntil /\ st = state(a) /\ Evidence(a, floor) = "recorded"
      BY <1>3, <2>3
    <2>5. ~in(a - 1, st)
      <3>1. CASE a = floor
        <4>1. ~(floor <= a - 1)
          BY <2>4, <3>1
        <4>2. a - 1 \in Int
          BY <2>4
        <4> HIDE DEF in
        <4> QED BY <1>3, <4>1, <4>2
      <3> QED BY <2>2, <3>1
    <2>6. a \in firsts
      BY <1>2, <2>4, <2>5
    <2> DEFINE e == last(a, st)
    <2>7. e \in Int /\ IsRun(a, e + 1, st, family, floor, floor, closedUntil)
      BY <1>5, <2>4, <2>6
    <2>8. /\ a < e + 1 /\ e + 1 <= closedUntil
          /\ \A m \in a .. ((e + 1) - 1) : in(m, st)
          /\ e + 1 = closedUntil \/ ~in(e + 1, st)
      BY <2>7 DEF IsRun
    <2> HIDE DEF e, in, firsts, Sp
    <2>9. ~(e + 1 < z)
      <3> SUFFICES ASSUME e + 1 < z
                   PROVE  FALSE
        OBVIOUS
      <3>1. e + 1 \in a .. (z - 1) /\ e + 1 # closedUntil
        BY <1>2, <2>2, <2>7, <2>8
      <3> QED BY <2>2, <2>8, <3>1
    <2>10. ~(z < e + 1)
      <3> SUFFICES ASSUME z < e + 1
                   PROVE  FALSE
        OBVIOUS
      <3>1. z \in a .. ((e + 1) - 1) /\ z # closedUntil
        BY <1>2, <2>2, <2>7, <2>8
      <3> QED BY <2>2, <2>8, <3>1
    <2>11. z = e + 1
      BY <2>7, <2>9, <2>10
    <2>12. p = Sp(a)
      BY <1>6, <2>1, <2>4, <2>6, <2>11 DEF e
    <2> QED BY <1>1, <2>6, <2>12
  <1> QED BY <1>7, <1>8

-----------------------------------------------------------------------------
(* The evidence a query ends with is enough for its range.                 *)

\* Evidence of whole hours around the range [a, b): a minute more on each side, where there is one.
Window(lo, hi, a, b, floor) ==
    /\ Examined(lo, hi, b, floor) /\ a \in Int /\ a < b /\ floor <= 0
    /\ lo <= Greater(floor, a - 1)
    /\ b + 1 <= hi \/ Cap <= hi

\* No span of the range ends where the evidence does and could have been extended.
Decided(lo, hi, a, b, floor, edge) ==
    LET open == Undecided(EvidenceTimeline(lo, hi, b, edge), a, b)
    IN  (open.left => lo <= floor) /\ (open.right => Cap <= hi)

\* The evidence of a query tells all runs inside it.
LEMMA QuerySpans ==
  ASSUME ReadInv, NEW edge, EdgeUsable(edge), NEW lo, NEW hi, NEW b, NEW floor,
         Examined(lo, hi, b, floor), NEW family \in Families
  PROVE  Spans(EvidenceTimeline(lo, hi, b, edge), family) = SpansOfRuns(family, floor, lo, LimitOf(lo, hi, b))
  <1> DEFINE tl == EvidenceTimeline(lo, hi, b, edge)
             limit == LimitOf(lo, hi, b)
  <1>1. Laid(tl.items, lo, limit, floor)
    BY TimelineLaid
  <1>2. lo \in Int /\ limit \in Int
    BY LimitHolds
  <1>3. tl.closed = closedUntil
    BY DEF EvidenceTimeline, Timeline
  <1> HIDE DEF tl, limit
  <1>4. Told(tl, lo, limit, floor)
    BY <1>1, <1>2, <1>3 DEF Told
  <1>5. Spans(tl, family) = SpansOfRuns(family, floor, lo, limit)
    BY <1>4, SpansAreRuns
  <1> QED BY <1>5 DEF tl, limit

LEMMA AllSpansHas ==
  ASSUME NEW tl, NEW family \in Families, NEW p \in Spans(tl, family)
  PROVE  p \in AllSpans(tl)
  BY DEF AllSpans

\* In the words of runs: what the spans of the range must not do.
LEMMA DecidedRuns ==
  ASSUME ReadInv, NEW edge, EdgeUsable(edge), NEW lo, NEW hi, NEW a, NEW b, NEW floor,
         Window(lo, hi, a, b, floor), Decided(lo, hi, a, b, floor, edge), NEW family \in Families,
         NEW x \in Int, NEW z \in Int, NEW state \in Wanted(family),
         IsRun(x, z, state, family, floor, lo, LimitOf(lo, hi, b)), x < b, a < z
  PROVE  /\ x = lo => lo <= floor
         /\ z = LimitOf(lo, hi, b) /\ z < closedUntil => Cap <= hi
  <1> DEFINE tl == EvidenceTimeline(lo, hi, b, edge)
             limit == LimitOf(lo, hi, b)
             p == RunSpan(x, z, state, family, floor, lo, limit)
             open == Undecided(tl, a, b)
  <1>1. Examined(lo, hi, b, floor)
    BY DEF Window
  <1>2. lo \in Int /\ limit \in Int /\ closedUntil \in Int
    BY <1>1, LimitHolds
  <1>3. p \in Spans(tl, family)
    BY <1>1, QuerySpans, SpansOfRunsIs
  <1>4. /\ p.start = x /\ p.end = z
        /\ x = lo => p.before = "outside"
        /\ z = limit /\ z < closedUntil => p.after = "outside"
    BY <1>2 DEF RunSpan
  <1> HIDE DEF p
  <1>5. p \in Intersecting(AllSpans(tl), a, b)
    BY <1>3, <1>4, AllSpansHas DEF Intersecting
  <1>6. /\ open.left <=> \E s \in Intersecting(AllSpans(tl), a, b) : s.before = "outside"
        /\ open.right <=> \E s \in Intersecting(AllSpans(tl), a, b) : s.after = "outside"
    BY DEF Undecided
  <1>7. (open.left => lo <= floor) /\ (open.right => Cap <= hi)
    BY DEF Decided
  <1> HIDE DEF open, tl
  <1> QED BY <1>4, <1>5, <1>6, <1>7

\* A run of the range in decided evidence is a run of everything ever recorded.
LEMMA RunKept ==
  ASSUME ReadInv, NEW edge, EdgeUsable(edge), NEW lo, NEW hi, NEW a, NEW b, NEW floor,
         Window(lo, hi, a, b, floor), Decided(lo, hi, a, b, floor, edge), NEW family \in Families,
         NEW x \in Int, NEW z \in Int, NEW state \in Wanted(family),
         IsRun(x, z, state, family, floor, lo, LimitOf(lo, hi, b)), x < b, a < z
  PROVE  /\ IsRun(x, z, state, family, floor, floor, closedUntil)
         /\ RunSpan(x, z, state, family, floor, lo, LimitOf(lo, hi, b))
              = RunSpan(x, z, state, family, floor, floor, closedUntil)
  <1> DEFINE limit == LimitOf(lo, hi, b)
             in(m) == IsIn(m, family, state, floor)
  <1>1. Examined(lo, hi, b, floor) /\ floor \in Int /\ floor <= lo
    BY DEF Window, Examined
  <1>2. /\ lo \in Int /\ hi \in Int /\ limit \in Int /\ closedUntil \in Int
        /\ \A m \in Int : lo <= m => (m < limit <=> m < hi /\ m < closedUntil)
    BY <1>1, LimitHolds
  <1>3. /\ lo <= x /\ x < z /\ z <= limit
        /\ \A m \in x .. (z - 1) : in(m)
        /\ x = lo \/ ~in(x - 1)
        /\ z = limit \/ ~in(z)
    BY DEF IsRun
  <1>4. /\ x = lo => lo <= floor
        /\ z = limit /\ z < closedUntil => Cap <= hi
    BY DecidedRuns
  <1>5. Cap \in Int /\ closedUntil <= Cap
    BY <1>2, CeilHolds DEF Cap
  <1> HIDE DEF limit, in
  <1>6. z <= closedUntil
    <2>1. z - 1 < limit /\ lo <= z - 1 /\ z - 1 \in Int
      BY <1>2, <1>3
    <2> QED BY <1>2, <2>1
  <1>7. z = limit => z = closedUntil
    <2> SUFFICES ASSUME z = limit, z < closedUntil
                 PROVE  FALSE
      BY <1>2, <1>6
    <2>1. Cap <= hi
      BY <1>4
    <2>2. z < hi /\ lo <= z
      BY <1>2, <1>3, <1>5, <2>1
    <2>3. z < limit
      BY <1>2, <2>2
    <2> QED BY <1>2, <2>3
  <1>8. x = lo => x = floor
    BY <1>1, <1>2, <1>4
  <1>9. z < limit => z < closedUntil
    BY <1>2, <1>3
  <1>10. IsRun(x, z, state, family, floor, floor, closedUntil)
    <2>1. floor <= x
      BY <1>1, <1>2, <1>3
    <2> QED BY <1>3, <1>6, <1>7, <1>8, <2>1 DEF IsRun, in
  <1>11. /\ lo < x <=> floor < x
         /\ z < limit <=> z < closedUntil
    BY <1>1, <1>2, <1>3, <1>7, <1>8, <1>9
  <1>12. RunSpan(x, z, state, family, floor, lo, limit) = RunSpan(x, z, state, family, floor, floor, closedUntil)
    BY <1>11 DEF RunSpan
  <1> QED BY <1>10, <1>12 DEF limit

\* And it misses none of the range.
LEMMA RunFound ==
  ASSUME ReadInv, NEW edge, EdgeUsable(edge), NEW lo, NEW hi, NEW a, NEW b, NEW floor,
         Window(lo, hi, a, b, floor), Decided(lo, hi, a, b, floor, edge), NEW family \in Families,
         NEW x \in Int, NEW z \in Int, NEW state \in Wanted(family),
         IsRun(x, z, state, family, floor, floor, closedUntil), x < b, a < z
  PROVE  IsRun(x, z, state, family, floor, lo, LimitOf(lo, hi, b))
  <1> DEFINE limit == LimitOf(lo, hi, b)
             in(m) == IsIn(m, family, state, floor)
             y == Greater(x, lo)
             v == Lesser(z, limit)
  <1>1. /\ Examined(lo, hi, b, floor) /\ floor \in Int /\ floor <= lo /\ a \in Int /\ a < b /\ b \in Int
        /\ lo <= Greater(floor, a - 1)
        /\ b + 1 <= hi \/ Cap <= hi
    BY DEF Window, Examined
  <1>2. /\ lo \in Int /\ hi \in Int /\ limit \in Int /\ closedUntil \in Int /\ lo <= limit
        /\ \A m \in Int : lo <= m => (m < limit <=> m < hi /\ m < closedUntil)
    BY <1>1, LimitHolds
  <1>3. /\ floor <= x /\ x < z /\ z <= closedUntil
        /\ \A m \in x .. (z - 1) : in(m)
        /\ x = floor \/ ~in(x - 1)
        /\ z = closedUntil \/ ~in(z)
    BY DEF IsRun
  <1>4. Cap \in Int /\ closedUntil <= Cap
    BY <1>2, CeilHolds DEF Cap
  <1>5. x < lo => lo < a
    BY <1>1, <1>2, <1>3 DEF Greater
  <1>6. y \in Int /\ lo <= y /\ x <= y /\ (y = x \/ y = lo) /\ (x < lo => y = lo) /\ (lo <= x => y = x)
    BY <1>2 DEF Greater
  <1> HIDE DEF limit, in, y
  <1>7. y < b /\ y < z /\ y < closedUntil
    BY <1>1, <1>2, <1>3, <1>5, <1>6
  <1>8. y < hi
    BY <1>1, <1>2, <1>4, <1>6, <1>7
  <1>9. y < limit
    BY <1>2, <1>6, <1>7, <1>8
  <1>10. /\ v \in Int /\ v <= limit /\ v <= z /\ (v = limit \/ v = z)
         /\ v # z => v = limit /\ v < z
         /\ v # limit => v = z /\ v < limit
    BY <1>2 DEF Lesser
  <1> HIDE DEF v
  <1>11. y < v
    BY <1>7, <1>9, <1>10
  <1>12. a < v
    <2>1. a < limit
      <3>1. CASE lo <= a
        <4>1. a < closedUntil /\ a < hi
          BY <1>1, <1>2, <1>3, <1>4
        <4> QED BY <1>1, <1>2, <3>1, <4>1
      <3>2. CASE ~(lo <= a)
        BY <1>1, <1>2, <3>2
      <3> QED BY <3>1, <3>2
    <2> QED BY <1>10, <2>1
  <1>13. IsRun(y, v, state, family, floor, lo, limit)
    <2>1. \A m \in y .. (v - 1) : in(m)
      <3> SUFFICES ASSUME NEW m \in y .. (v - 1)
                   PROVE  in(m)
        OBVIOUS
      <3>1. m \in x .. (z - 1)
        BY <1>6, <1>10
      <3> QED BY <1>3, <3>1
    <2>2. y = lo \/ ~in(y - 1)
      <3>1. y # lo => y = x /\ x # floor
        BY <1>1, <1>2, <1>6
      <3> QED BY <1>3, <3>1
    <2>3. v = limit \/ ~in(v)
      <3>1. v # limit => v = z /\ z < limit /\ lo <= z
        BY <1>2, <1>6, <1>7, <1>10
      <3>2. v # limit => z # closedUntil
        BY <1>2, <3>1
      <3> QED BY <1>3, <3>1, <3>2
    <2> QED BY <1>6, <1>10, <1>11, <2>1, <2>2, <2>3 DEF IsRun, in
  <1>14. IsRun(y, v, state, family, floor, floor, closedUntil)
    BY <1>6, <1>7, <1>10, <1>12, <1>13, RunKept DEF limit
  <1>15. /\ y = floor \/ ~in(y - 1)
         /\ v = closedUntil \/ ~in(v)
    BY <1>14 DEF IsRun, in
  <1>16. y = x
    <2> SUFFICES ASSUME y # x
                 PROVE  FALSE
      OBVIOUS
    <2>1. x < y
      BY <1>6
    <2>2. y - 1 \in x .. (z - 1) /\ y # floor
      BY <1>1, <1>3, <1>6, <1>7, <2>1
    <2> QED BY <1>3, <1>15, <2>2
  <1>17. v = z
    <2> SUFFICES ASSUME v # z
                 PROVE  FALSE
      OBVIOUS
    <2>1. v \in x .. (z - 1) /\ v # closedUntil
      BY <1>2, <1>3, <1>6, <1>10, <1>11
    <2> QED BY <1>3, <1>15, <2>1
  <1> QED BY <1>13, <1>16, <1>17 DEF limit

\* The spans of the range are those of everything ever recorded.
LEMMA DecidedIsComplete ==
  ASSUME ReadInv, NEW edge, EdgeUsable(edge), NEW lo, NEW hi, NEW a, NEW b, NEW floor,
         Window(lo, hi, a, b, floor), Decided(lo, hi, a, b, floor, edge), NEW family \in Families
  PROVE  Intersecting(Spans(EvidenceTimeline(lo, hi, b, edge), family), a, b)
            = Intersecting(TrueSpans(family, floor), a, b)
  <1> DEFINE limit == LimitOf(lo, hi, b)
             S == SpansOfRuns(family, floor, lo, limit)
             T == SpansOfRuns(family, floor, floor, closedUntil)
  <1>1. Examined(lo, hi, b, floor) /\ floor \in Int /\ floor <= 0
    BY DEF Window, Examined
  <1>2. Spans(EvidenceTimeline(lo, hi, b, edge), family) = S
    BY <1>1, QuerySpans
  <1>3. TrueSpans(family, floor) = T
    BY <1>1, TrueSpansAreRuns
  <1>4. \A x, z, state, l, h : /\ RunSpan(x, z, state, family, floor, l, h).start = x
                               /\ RunSpan(x, z, state, family, floor, l, h).end = z
    BY DEF RunSpan
  <1>5. ASSUME NEW p \in S, p.start < b, a < p.end
        PROVE  p \in T
    <2>1. PICK x \in Int, z \in Int, state \in Wanted(family) :
             IsRun(x, z, state, family, floor, lo, limit) /\ p = RunSpan(x, z, state, family, floor, lo, limit)
      BY SpansOfRunsIs
    <2>2. x < b /\ a < z
      BY <1>4, <1>5, <2>1
    <2>3. /\ IsRun(x, z, state, family, floor, floor, closedUntil)
          /\ p = RunSpan(x, z, state, family, floor, floor, closedUntil)
      BY <2>1, <2>2, RunKept
    <2> QED BY <2>3, SpansOfRunsIs
  <1>6. ASSUME NEW p \in T, p.start < b, a < p.end
        PROVE  p \in S
    <2>1. PICK x \in Int, z \in Int, state \in Wanted(family) :
             /\ IsRun(x, z, state, family, floor, floor, closedUntil)
             /\ p = RunSpan(x, z, state, family, floor, floor, closedUntil)
      BY SpansOfRunsIs
    <2>2. x < b /\ a < z
      BY <1>4, <1>6, <2>1
    <2>3. IsRun(x, z, state, family, floor, lo, limit)
      BY <2>1, <2>2, RunFound
    <2>4. p = RunSpan(x, z, state, family, floor, lo, limit)
      BY <2>1, <2>2, <2>3, RunKept
    <2> QED BY <2>3, <2>4, SpansOfRunsIs
  <1> HIDE DEF S, T
  <1> QED BY <1>2, <1>3, <1>5, <1>6 DEF Intersecting

-----------------------------------------------------------------------------
(* load_timeline ends decided.                                             *)

LEMMA WholeFacts ==
  ASSUME NEW x, Whole(x), NEW y, Whole(y), NEW n \in Int
  PROVE  /\ Whole(Greater(x, y)) /\ Whole(Lesser(x, y))
         /\ n * MinutesPerHour \in Int
         /\ Whole(x - n * MinutesPerHour) /\ Whole(x + n * MinutesPerHour)
         /\ n >= 1 => n * MinutesPerHour >= 1
  <1>1. Whole(Greater(x, y)) /\ Whole(Lesser(x, y))
    BY DEF Greater, Lesser
  <1>2. n * MinutesPerHour \in Int
    BY HoursApart
  <1>3. PICK h \in Int : x = h * MinutesPerHour
    BY DEF Whole
  <1>4. h * MinutesPerHour - n * MinutesPerHour = (h - n) * MinutesPerHour
    BY HourLength, SMT
  <1>5. h * MinutesPerHour + n * MinutesPerHour = (h + n) * MinutesPerHour
    BY HourLength, SMT
  <1>6. h - n \in Int /\ h + n \in Int
    BY <1>3
  <1>7. Whole(x - n * MinutesPerHour) /\ Whole(x + n * MinutesPerHour)
    BY <1>3, <1>4, <1>5, <1>6 DEF Whole
  <1>8. n >= 1 => n * MinutesPerHour >= 1
    BY HourLength, SMT
  <1> QED BY <1>1, <1>2, <1>7, <1>8

\* The evidence before the first round, and what one round makes of it.
FirstRound(a, b, floor) ==
    [lo |-> FirstLo(a, floor), hi |-> FirstHi(a, b, floor), step |-> 1, done |-> FALSE]
NextRound(a, b, floor, edge, w) == IF w.done THEN w ELSE Round(a, b, floor, edge, w)
Rounds(f, n, a, b, floor, edge) ==
    f = [k \in 0 .. n |-> IF k = 0 THEN FirstRound(a, b, floor) ELSE NextRound(a, b, floor, edge, f[k - 1])]

\* How far the evidence can still grow.
Left(w, a, b, floor) == (w.lo - floor) + (Greater(Cap, FirstHi(a, b, floor)) - w.hi)

\* What holds of the evidence in every round.
Bounded(w, a, b, floor, edge) ==
    /\ Window(w.lo, w.hi, a, b, floor)
    /\ w.hi <= Greater(Cap, FirstHi(a, b, floor))
    /\ w.step \in Int /\ w.step >= 1
    /\ w.done => Decided(w.lo, w.hi, a, b, floor, edge)

\* A query: a range, and how far back its evidence may reach.
Query(a, b, floor, edge) ==
    /\ a \in Int /\ b \in Int /\ a < b /\ floor \in Int /\ Whole(floor) /\ floor <= 0 /\ EdgeUsable(edge)

LEMMA QueryHours ==
  ASSUME ReadInv, NEW a, NEW b, NEW floor, NEW edge, Query(a, b, floor, edge)
  PROVE  /\ closedUntil \in Int /\ Cap \in Int /\ Whole(Cap) /\ closedUntil <= Cap
         /\ FirstHi(a, b, floor) \in Int /\ Greater(Cap, FirstHi(a, b, floor)) \in Int
  <1>1. closedUntil \in Int
    BY DEF ReadInv, SegmentInv
  <1>2. Cap \in Int /\ Whole(Cap) /\ closedUntil <= Cap
    BY <1>1, CeilHolds DEF Cap
  <1>3. Greater(floor, a - 1) \in Int /\ b + 1 \in Int
    BY DEF Query, Greater
  <1>4. FirstLo(a, floor) \in Int /\ CeilHour(b + 1) \in Int
    BY <1>3, HourHolds, CeilHolds DEF FirstLo
  <1> QED BY <1>1, <1>2, <1>4 DEF FirstHi, Greater, Lesser

LEMMA FirstBounded ==
  ASSUME ReadInv, NEW a, NEW b, NEW floor, NEW edge, Query(a, b, floor, edge)
  PROVE  Bounded(FirstRound(a, b, floor), a, b, floor, edge)
  <1> DEFINE g == Greater(floor, a - 1)
             c == CeilHour(b + 1)
             lo == FirstLo(a, floor)
             hi == FirstHi(a, b, floor)
             w == FirstRound(a, b, floor)
  <1>1. closedUntil \in Int /\ Cap \in Int /\ Whole(Cap) /\ closedUntil <= Cap /\ hi \in Int
    BY QueryHours
  <1>2. /\ a \in Int /\ b \in Int /\ a < b /\ floor \in Int /\ Whole(floor) /\ floor <= 0
        /\ g \in Int /\ floor <= g /\ b + 1 \in Int
    BY DEF Query, Greater
  <1>3. lo = FloorHour(g)
    BY DEF FirstLo
  <1>4. lo \in Int /\ Whole(lo) /\ lo <= g
    BY <1>2, <1>3, HourHolds, CeilHolds
  <1>5. floor <= lo
    <2> HIDE DEF g, lo
    <2> QED BY <1>2, <1>3, WholeHours
  <1>6. c \in Int /\ Whole(c) /\ b + 1 <= c
    BY <1>2, CeilHolds
  <1>7. hi = Greater(lo, Lesser(c, Cap))
    BY DEF FirstHi
  <1>8. Whole(hi)
    BY <1>1, <1>4, <1>6, <1>7 DEF Greater, Lesser
  <1> HIDE DEF g, c, lo, hi
  <1>9. /\ hi <= Cap \/ hi = lo
        /\ b + 1 <= hi \/ Cap <= hi
        /\ hi <= Greater(Cap, hi)
    BY <1>1, <1>2, <1>4, <1>6, <1>7 DEF Greater, Lesser
  <1>10. b <= hi \/ closedUntil <= hi
    BY <1>1, <1>2, <1>9
  <1>11. Window(lo, hi, a, b, floor)
    BY <1>2, <1>4, <1>5, <1>8, <1>9, <1>10 DEF Window, Examined, g
  <1>12. w.lo = lo /\ w.hi = hi /\ w.step = 1 /\ w.done = FALSE
    BY DEF FirstRound, lo, hi
  <1> HIDE DEF w
  <1> QED BY <1>9, <1>11, <1>12 DEF Bounded, w, hi

\* A round either decides, or its evidence grows inside what there is.
LEMMA RoundBounded ==
  ASSUME ReadInv, NEW a, NEW b, NEW floor, NEW edge, Query(a, b, floor, edge),
         NEW w, Bounded(w, a, b, floor, edge), ~w.done
  PROVE  LET v == Round(a, b, floor, edge, w)
         IN  /\ Bounded(v, a, b, floor, edge)
             /\ v.done \/ Left(v, a, b, floor) <= Left(w, a, b, floor) - 1
  <1> DEFINE tl == EvidenceTimeline(w.lo, w.hi, b, edge)
             open == Undecided(tl, a, b)
             left == open.left /\ w.lo > floor
             right == open.right /\ w.hi < Cap
             width == w.step * MinutesPerHour
             lo == IF left THEN Greater(floor, w.lo - width) ELSE w.lo
             hi == IF right THEN Lesser(Cap, w.hi + width) ELSE w.hi
             step == Lesser(2 * w.step, MaxWideningHours)
             v == Round(a, b, floor, edge, w)
             top == Greater(Cap, FirstHi(a, b, floor))
  <1>1. v.lo = lo /\ v.hi = hi /\ v.step = step /\ v.done = (~left /\ ~right)
    BY DEF Round
  <1>2. /\ closedUntil \in Int /\ Cap \in Int /\ Whole(Cap) /\ closedUntil <= Cap /\ top \in Int
        /\ a \in Int /\ b \in Int /\ a < b /\ floor \in Int /\ Whole(floor)
    BY QueryHours DEF Query
  <1>3. Window(w.lo, w.hi, a, b, floor) /\ w.hi <= top /\ w.step \in Int /\ w.step >= 1
    BY DEF Bounded
  <1>4. /\ Examined(w.lo, w.hi, b, floor) /\ Whole(w.lo) /\ Whole(w.hi) /\ floor <= w.lo /\ floor <= 0
        /\ w.hi <= Cap \/ w.hi = w.lo
        /\ w.lo <= Greater(floor, a - 1)
        /\ b + 1 <= w.hi \/ Cap <= w.hi
    BY <1>3 DEF Window, Examined
  <1>5. w.lo \in Int /\ w.hi \in Int
    BY <1>4, LimitHolds
  <1>6. /\ width \in Int /\ width >= 1
        /\ Whole(Greater(floor, w.lo - width)) /\ Whole(Lesser(Cap, w.hi + width))
    <2>1. width \in Int /\ width >= 1 /\ Whole(w.lo - width) /\ Whole(w.hi + width)
      BY <1>3, <1>4, WholeFacts
    <2> HIDE DEF width
    <2> QED BY <1>2, <2>1, WholeFacts
  <1>7. step \in Int /\ step >= 1
    BY <1>3, ActivityReadAssumption DEF Lesser
  \* a span in the evidence means that there is evidence
  <1>8. open.left => w.hi <= Cap
    <2> SUFFICES ASSUME open.left
                 PROVE  w.lo # w.hi
      BY <1>4
    <2>1. PICK s \in Intersecting(AllSpans(tl), a, b) : s.before = "outside"
      BY DEF Undecided
    <2>2. PICK family \in Families : s \in Spans(tl, family)
      BY DEF Intersecting, AllSpans
    <2> DEFINE limit == LimitOf(w.lo, w.hi, b)
    <2>3. s \in SpansOfRuns(family, floor, w.lo, limit)
      BY <1>4, <2>2, QuerySpans DEF Query
    <2>4. PICK x \in Int, z \in Int, state \in Wanted(family) : IsRun(x, z, state, family, floor, w.lo, limit)
      BY <2>3, SpansOfRunsIs
    <2>5. w.lo <= x /\ x < z /\ z <= limit
      BY <2>4 DEF IsRun
    <2>6. limit \in Int /\ \A m \in Int : w.lo <= m => (m < limit <=> m < w.hi /\ m < closedUntil)
      BY <1>4, LimitHolds
    <2> HIDE DEF limit
    <2>7. x < limit
      BY <2>5, <2>6
    <2> QED BY <1>5, <2>5, <2>6, <2>7
  <1> HIDE DEF width, step, v, top
  <1>9. /\ lo \in Int /\ Whole(lo) /\ floor <= lo /\ lo <= w.lo /\ (left => lo < w.lo) /\ (~left => lo = w.lo)
        /\ hi \in Int /\ Whole(hi) /\ w.hi <= hi /\ (right => w.hi < hi) /\ (~right => hi = w.hi)
        /\ right => hi <= Cap
        /\ left => w.hi <= Cap
    <2> HIDE DEF open
    <2>1. /\ lo \in Int /\ Whole(lo) /\ floor <= lo /\ lo <= w.lo
          /\ left => lo < w.lo
          /\ ~left => lo = w.lo
      <3>1. CASE left
        <4>1. lo = Greater(floor, w.lo - width)
          BY <3>1
        <4>2. Greater(floor, w.lo - width) \in Int /\ floor <= Greater(floor, w.lo - width) /\ Greater(floor, w.lo - width) < w.lo
          BY <1>2, <1>5, <1>6, <3>1 DEF Greater
        <4> HIDE DEF lo, left
        <4> QED BY <1>5, <1>6, <3>1, <4>1, <4>2
      <3>2. CASE ~left
        <4>1. lo = w.lo
          BY <3>2
        <4> HIDE DEF lo, left
        <4> QED BY <1>4, <1>5, <3>2, <4>1
      <3> HIDE DEF lo, left
      <3> QED BY <3>1, <3>2
    <2>2. /\ hi \in Int /\ Whole(hi) /\ w.hi <= hi
          /\ right => w.hi < hi /\ hi <= Cap
          /\ ~right => hi = w.hi
      <3>1. CASE right
        <4>1. hi = Lesser(Cap, w.hi + width)
          BY <3>1
        <4>2. Lesser(Cap, w.hi + width) \in Int /\ Lesser(Cap, w.hi + width) <= Cap /\ w.hi < Lesser(Cap, w.hi + width)
          BY <1>2, <1>5, <1>6, <3>1 DEF Lesser
        <4> HIDE DEF hi, right
        <4> QED BY <1>5, <1>6, <3>1, <4>1, <4>2
      <3>2. CASE ~right
        <4>1. hi = w.hi
          BY <3>2
        <4> HIDE DEF hi, right
        <4> QED BY <1>4, <1>5, <3>2, <4>1
      <3> HIDE DEF hi, right
      <3> QED BY <3>1, <3>2
    <2>3. left => w.hi <= Cap
      BY <1>8
    <2> HIDE DEF lo, hi, left, right
    <2> QED BY <2>1, <2>2, <2>3
  <1>10. ~left /\ ~right => Decided(w.lo, w.hi, a, b, floor, edge)
    <2>1. open.left /\ ~left => w.lo <= floor
      BY <1>2, <1>5
    <2>2. open.right /\ ~right => Cap <= w.hi
      BY <1>2, <1>5
    <2> QED BY <2>1, <2>2 DEF Decided
  <1> HIDE DEF lo, hi, left, right, open, tl
  <1>11. Window(lo, hi, a, b, floor)
    <2>1. hi <= Cap \/ hi = lo
      BY <1>4, <1>9
    <2>2. b + 1 <= hi \/ Cap <= hi
      BY <1>2, <1>4, <1>5, <1>9
    <2>3. b <= hi \/ closedUntil <= hi
      BY <1>2, <1>9, <2>2
    <2>4. lo <= Greater(floor, a - 1)
      <3>1. Greater(floor, a - 1) \in Int
        BY <1>2 DEF Greater
      <3> QED BY <1>4, <1>5, <1>9, <3>1
    <2> QED BY <1>2, <1>4, <1>9, <2>1, <2>2, <2>3, <2>4 DEF Window, Examined
  <1>12. hi <= top
    <2>1. Cap <= top
      BY <1>2, QueryHours DEF top, Greater
    <2> QED BY <1>2, <1>3, <1>5, <1>9, <2>1
  <1>13. v.done => Decided(v.lo, v.hi, a, b, floor, edge)
    BY <1>1, <1>9, <1>10
  <1>14. Bounded(v, a, b, floor, edge)
    BY <1>1, <1>7, <1>11, <1>12, <1>13 DEF Bounded, top
  <1>15. left \/ right => (lo - floor) + (top - hi) <= ((w.lo - floor) + (top - w.hi)) - 1
    BY <1>2, <1>5, <1>9
  <1>16. v.done \/ Left(v, a, b, floor) <= Left(w, a, b, floor) - 1
    <2>1. Left(v, a, b, floor) = (lo - floor) + (top - hi) /\ Left(w, a, b, floor) = (w.lo - floor) + (top - w.hi)
      BY <1>1 DEF Left, top
    <2> QED BY <1>1, <1>15, <2>1
  <1> QED BY <1>14, <1>16 DEF v

\* The rounds exist, as many as are asked for.
LEMMA RoundsExist ==
  ASSUME NEW a, NEW b, NEW floor, NEW edge, NEW n \in Nat
  PROVE  \E f : Rounds(f, n, a, b, floor, edge)
  <1> DEFINE Bad == {k \in Nat : ~\E f : Rounds(f, k, a, b, floor, edge)}
  <1> SUFFICES ASSUME Bad # {}
               PROVE  FALSE
    OBVIOUS
  <1>1. PICK k \in Bad : \A j \in Bad : k <= j
    <2>1. Bad \subseteq Nat
      OBVIOUS
    <2> HIDE DEF Bad
    <2> QED BY <2>1, GridAssumption, Grid!LeastNat
  <1>2. k \in Nat /\ ~\E f : Rounds(f, k, a, b, floor, edge)
    OBVIOUS
  <1>3. \A j \in Nat : j < k => \E f : Rounds(f, j, a, b, floor, edge)
    <2>1. \A j \in Nat : j \notin Bad => \E f : Rounds(f, j, a, b, floor, edge)
      OBVIOUS
    <2> HIDE DEF Bad
    <2> QED BY <1>1, <1>2, <2>1
  <1> HIDE DEF Bad
  <1> DEFINE first == FirstRound(a, b, floor)
             next(w) == NextRound(a, b, floor, edge, w)
  <1>4. CASE k = 0
    <2> DEFINE f == [i \in 0 .. 0 |-> first]
    <2>1. f = [i \in 0 .. 0 |-> IF i = 0 THEN first ELSE next(f[i - 1])]
      <3>1. \A i \in 0 .. 0 : i = 0
        OBVIOUS
      <3> HIDE DEF first, next
      <3> QED BY <3>1
    <2>2. Rounds(f, k, a, b, floor, edge)
      BY <1>4, <2>1 DEF Rounds
    <2> QED BY <1>2, <2>2
  <1>5. CASE k # 0
    <2>1. k - 1 \in Nat /\ k - 1 < k
      BY <1>2, <1>5
    <2>2. PICK g : Rounds(g, k - 1, a, b, floor, edge)
      BY <1>3, <2>1
    <2>3. g = [i \in 0 .. (k - 1) |-> IF i = 0 THEN first ELSE next(g[i - 1])]
      BY <2>2, Zenon DEF Rounds
    <2> HIDE DEF first, next
    <2> DEFINE f == [i \in 0 .. k |-> IF i = k THEN next(g[k - 1]) ELSE g[i]]
    <2>4. ASSUME NEW i \in 0 .. k
          PROVE  f[i] = IF i = 0 THEN first ELSE next(f[i - 1])
      <3>1. i \in Int /\ 0 <= i /\ i <= k
        BY <1>2
      <3>2. CASE i = 0
        BY <1>2, <1>5, <2>3, <3>2
      <3>3. CASE i = k
        <4>1. i - 1 \in 0 .. k /\ i - 1 # k /\ i # 0
          BY <1>2, <1>5, <3>3
        <4>2. f[i - 1] = g[k - 1] /\ f[i] = next(g[k - 1])
          BY <3>3, <4>1
        <4> QED BY <4>1, <4>2
      <3>4. CASE i # 0 /\ i # k
        <4>1. i - 1 \in 0 .. k /\ i - 1 # k /\ i \in 0 .. (k - 1)
          BY <1>2, <3>1, <3>4
        <4>2. f[i - 1] = g[i - 1] /\ f[i] = g[i] /\ g[i] = next(g[i - 1])
          BY <2>3, <3>4, <4>1
        <4> QED BY <3>4, <4>2
      <3> QED BY <3>2, <3>3, <3>4
    <2>5. f = [i \in 0 .. k |-> f[i]]
      OBVIOUS
    <2> HIDE DEF f
    <2>6. f = [i \in 0 .. k |-> IF i = 0 THEN first ELSE next(f[i - 1])]
      BY <2>4, <2>5
    <2>7. Rounds(f, k, a, b, floor, edge)
      BY <2>6, Zenon DEF Rounds, first, next
    <2> QED BY <1>2, <2>7
  <1> QED BY <1>4, <1>5

\* After as many rounds as the evidence can grow, one has decided.
LEMMA RoundsDecide ==
  ASSUME ReadInv, NEW a, NEW b, NEW floor, NEW edge, Query(a, b, floor, edge),
         NEW n \in Nat, n = Left(FirstRound(a, b, floor), a, b, floor) + 1,
         NEW f, Rounds(f, n, a, b, floor, edge)
  PROVE  f[n].done /\ Bounded(f[n], a, b, floor, edge)
  <1> DEFINE first == FirstRound(a, b, floor)
             Good(k) == /\ Bounded(f[k], a, b, floor, edge)
                        /\ f[k].done \/ Left(f[k], a, b, floor) <= Left(first, a, b, floor) - k
             Bad == {k \in 0 .. n : ~Good(k)}
  <1>1. /\ f[0] = first
        /\ \A k \in 1 .. n : f[k] = NextRound(a, b, floor, edge, f[k - 1])
    <2>1. \A k \in 0 .. n : f[k] = IF k = 0 THEN first ELSE NextRound(a, b, floor, edge, f[k - 1])
      <3> HIDE DEF first
      <3> QED BY Zenon DEF Rounds, first
    <2>2. 0 \in 0 .. n /\ \A k \in 1 .. n : k \in 0 .. n /\ k # 0
      OBVIOUS
    <2> HIDE DEF first
    <2> QED BY <2>1, <2>2
  <1>2. \A w : Bounded(w, a, b, floor, edge) => Left(w, a, b, floor) \in Int /\ 0 <= Left(w, a, b, floor)
    <2> SUFFICES ASSUME NEW w, Bounded(w, a, b, floor, edge)
                 PROVE  Left(w, a, b, floor) \in Int /\ 0 <= Left(w, a, b, floor)
      OBVIOUS
    <2>1. Examined(w.lo, w.hi, b, floor) /\ floor <= w.lo /\ floor \in Int /\ w.hi <= Greater(Cap, FirstHi(a, b, floor))
      BY DEF Bounded, Window, Examined
    <2>2. w.lo \in Int /\ w.hi \in Int /\ Greater(Cap, FirstHi(a, b, floor)) \in Int
      BY <2>1, LimitHolds, QueryHours
    <2> QED BY <2>1, <2>2 DEF Left
  <1>3. Bounded(first, a, b, floor, edge)
    BY FirstBounded
  <1>4. Left(first, a, b, floor) \in Int
    BY <1>2, <1>3
  <1> HIDE DEF first
  <1>5. Good(0)
    BY <1>1, <1>3, <1>4
  <1>6. ASSUME NEW k \in 1 .. n, Good(k - 1)
        PROVE  Good(k)
    <2> DEFINE w == f[k - 1]
    <2>1. f[k] = NextRound(a, b, floor, edge, w) /\ k \in Int
      BY <1>1
    <2>2. CASE w.done
      <3>1. f[k] = w
        BY <2>1, <2>2 DEF NextRound
      <3> QED BY <1>6, <2>2, <3>1
    <2>3. CASE ~w.done
      <3> DEFINE v == Round(a, b, floor, edge, w)
      <3>1. f[k] = v
        BY <2>1, <2>3 DEF NextRound
      <3>2. Bounded(w, a, b, floor, edge) /\ Left(w, a, b, floor) <= Left(first, a, b, floor) - (k - 1)
        BY <1>6, <2>3
      <3>3. Bounded(v, a, b, floor, edge) /\ (v.done \/ Left(v, a, b, floor) <= Left(w, a, b, floor) - 1)
        BY <2>3, <3>2, RoundBounded
      <3>4. Left(w, a, b, floor) \in Int /\ Left(v, a, b, floor) \in Int
        BY <1>2, <3>2, <3>3
      <3> HIDE DEF v, w
      <3>5. v.done \/ Left(v, a, b, floor) <= Left(first, a, b, floor) - k
        BY <1>4, <2>1, <3>2, <3>3, <3>4
      <3> QED BY <3>1, <3>3, <3>5
    <2> QED BY <2>2, <2>3
  <1>7. Bad = {}
    <2> SUFFICES ASSUME Bad # {}
                 PROVE  FALSE
      OBVIOUS
    <2>1. PICK k \in Bad : \A j \in Bad : k <= j
      <3>1. Bad \subseteq Nat
        OBVIOUS
      <3> HIDE DEF Bad
      <3> QED BY <3>1, GridAssumption, Grid!LeastNat
    <2>2. k \in 0 .. n /\ ~Good(k)
      OBVIOUS
    <2>3. \A j \in 0 .. n : ~Good(j) => j \in Bad
      OBVIOUS
    <2> HIDE DEF Good, Bad
    <2>4. k # 0
      BY <1>5, <2>2
    <2>5. k \in 1 .. n /\ k - 1 \in 0 .. n /\ ~(k <= k - 1)
      BY <2>2, <2>4
    <2>6. Good(k - 1)
      BY <2>1, <2>3, <2>5
    <2> QED BY <1>6, <2>2, <2>5, <2>6
  <1>8. n \in 0 .. n
    OBVIOUS
  <1>9. Good(n)
    <2>1. \A j \in 0 .. n : ~Good(j) => j \in Bad
      OBVIOUS
    <2> HIDE DEF Good, Bad
    <2> QED BY <1>7, <1>8, <2>1
  <1>10. Bounded(f[n], a, b, floor, edge)
    BY <1>9
  <1>11. Left(f[n], a, b, floor) \in Int /\ 0 <= Left(f[n], a, b, floor)
    BY <1>2, <1>10
  <1>12. ~(Left(f[n], a, b, floor) <= Left(first, a, b, floor) - n)
    BY <1>4, <1>11 DEF first
  <1> QED BY <1>9, <1>10, <1>12

\* load_timeline returns evidence that is decided for its range.
LEMMA WidenedDecides ==
  ASSUME ReadInv, NEW a, NEW b, NEW floor, NEW edge, Query(a, b, floor, edge)
  PROVE  LET w == Widened(a, b, floor, edge)
         IN  Window(w.lo, w.hi, a, b, floor) /\ Decided(w.lo, w.hi, a, b, floor, edge)
  <1> DEFINE first == [lo |-> FirstLo(a, floor), hi |-> FirstHi(a, b, floor), step |-> 1, done |-> FALSE]
             n == (first.lo - floor) + (Greater(Cap, first.hi) - first.hi) + 1
             Run(f) == f = [k \in 0 .. n |->
                              IF k = 0 THEN first
                              ELSE LET w == f[k - 1] IN IF w.done THEN w ELSE Round(a, b, floor, edge, w)]
             after == CHOOSE f : Run(f)
  <1>1. Widened(a, b, floor, edge) = after[n]
    BY DEF Widened
  <1>2. first = FirstRound(a, b, floor)
    BY DEF FirstRound
  <1>3. n = Left(FirstRound(a, b, floor), a, b, floor) + 1
    BY DEF FirstRound, Left
  <1>4. n \in Nat
    <2> DEFINE lo == FirstLo(a, floor)
               hi == FirstHi(a, b, floor)
               top == Greater(Cap, hi)
    <2>1. Bounded(FirstRound(a, b, floor), a, b, floor, edge)
      BY FirstBounded
    <2>2. FirstRound(a, b, floor).lo = lo /\ FirstRound(a, b, floor).hi = hi
      BY DEF FirstRound
    <2>3. Examined(lo, hi, b, floor) /\ floor <= lo /\ floor \in Int /\ hi <= top
      BY <2>1, <2>2 DEF Bounded, Window, Examined
    <2>4. lo \in Int /\ hi \in Int /\ top \in Int
      BY <2>3, LimitHolds, QueryHours
    <2>5. n = (lo - floor) + (top - hi) + 1
      OBVIOUS
    <2> HIDE DEF n, lo, hi, top
    <2> QED BY <2>3, <2>4, <2>5
  <1>5. \A f : Run(f) <=> Rounds(f, n, a, b, floor, edge)
    <2> HIDE DEF n, first
    <2> QED BY <1>2, Zenon DEF Rounds, NextRound
  <1> HIDE DEF n, first, Run
  <1>6. Run(after)
    <2>1. \E f : Run(f)
      BY <1>4, <1>5, RoundsExist
    <2> QED BY <2>1
  <1> HIDE DEF after
  <1>7. after[n].done /\ Bounded(after[n], a, b, floor, edge)
    BY <1>3, <1>4, <1>5, <1>6, RoundsDecide
  <1> QED BY <1>1, <1>7 DEF Bounded

-----------------------------------------------------------------------------
(* Whatever a query examines, it tells all there is about its range.       *)

LEMMA LoadComplete ==
  ASSUME ReadInv, NEW a, NEW b, NEW floor, NEW edge, Query(a, b, floor, edge), NEW family \in Families
  PROVE  Intersecting(Spans(LoadTimeline(a, b, floor, edge), family), a, b)
            = Intersecting(TrueSpans(family, floor), a, b)
  <1> DEFINE w == Widened(a, b, floor, edge)
  <1>1. Window(w.lo, w.hi, a, b, floor) /\ Decided(w.lo, w.hi, a, b, floor, edge)
    BY WidenedDecides
  <1>2. LoadTimeline(a, b, floor, edge) = EvidenceTimeline(w.lo, w.hi, b, edge)
    BY DEF LoadTimeline
  <1> HIDE DEF w
  <1>3. EdgeUsable(edge)
    BY DEF Query
  <1> QED BY <1>1, <1>2, <1>3, DecidedIsComplete

LEMMA LoadAllComplete ==
  ASSUME ReadInv, NEW a, NEW b, NEW floor, NEW edge, Query(a, b, floor, edge)
  PROVE  Intersecting(AllSpans(LoadTimeline(a, b, floor, edge)), a, b) = Intersecting(AllTrueSpans(floor), a, b)
  <1> DEFINE tl == LoadTimeline(a, b, floor, edge)
  <1>1. \A p : p \in Intersecting(AllSpans(tl), a, b) <=>
                  \E family \in Families : p \in Intersecting(Spans(tl, family), a, b)
    BY DEF Intersecting, AllSpans
  <1>2. \A p : p \in Intersecting(AllTrueSpans(floor), a, b) <=>
                  \E family \in Families : p \in Intersecting(TrueSpans(family, floor), a, b)
    BY DEF Intersecting, AllTrueSpans
  <1>3. \A family \in Families : Intersecting(Spans(tl, family), a, b) = Intersecting(TrueSpans(family, floor), a, b)
    BY LoadComplete
  <1> HIDE DEF tl
  <1>4. \A p : p \in Intersecting(AllSpans(tl), a, b) <=> p \in Intersecting(AllTrueSpans(floor), a, b)
    BY <1>1, <1>2, <1>3
  <1>5. Intersecting(AllSpans(tl), a, b) = Intersecting(AllTrueSpans(floor), a, b)
    BY <1>4
  <1> QED BY <1>5 DEF tl

\* Hours that begin before the rounded frontier begin before the frontier.
LEMMA BeforeCap ==
  ASSUME ReadInv, NEW h \in Int, h * MinutesPerHour < Cap
  PROVE  h * MinutesPerHour < closedUntil
  <1> DEFINE x == h * MinutesPerHour
  <1>1. closedUntil \in Int
    BY DEF ReadInv, SegmentInv
  <1>2. x \in Int /\ Whole(x) /\ Cap \in Int
    BY <1>1, HoursApart, CeilHolds DEF Whole, Cap
  <1>3. closedUntil <= x => Cap <= x
    BY <1>1, <1>2, WholeHours DEF Cap
  <1> HIDE DEF x
  <1>4. x < Cap
    BY DEF x
  <1>5. x < closedUntil
    BY <1>1, <1>2, <1>3, <1>4
  <1> QED BY <1>5 DEF x

\* Nothing the recorder leaves makes a timeline impossible.
LEMMA EvidenceAccepted ==
  ASSUME ReadInv
  PROVE  ~TimelineRejects(EvidenceSegments(0, Cap, NoEdge), closedUntil, LostIn(0, Cap, NoEdge))
  <1> DEFINE E == EvidenceSegments(0, Cap, NoEdge)
             L == LostIn(0, Cap, NoEdge)
  <1>1. closedUntil \in Int /\ Cap \in Int /\ Whole(Cap)
    <2>1. closedUntil \in Int
      BY DEF ReadInv, SegmentInv
    <2> QED BY <2>1, CeilHolds DEF Cap
  <1>2. Whole(0) /\ EdgeUsable(NoEdge) /\ Cap <= Cap
    <2>1. 0 \in Int /\ 0 = 0 * MinutesPerHour
      BY HourLength
    <2> QED BY <1>1, <2>1 DEF Whole, EdgeUsable, NoEdge
  <1>3. /\ Tiles(E, rows, Seen(0, Cap))
        /\ \A s \in E : s.end <= FloorHour(s.start) + MinutesPerHour
    BY <1>1, <1>2, EvidenceTiles
  <1> HIDE DEF E
  <1>4. ASSUME NEW s \in E
        PROVE  /\ s.start \in Int /\ s.end \in Int /\ s.start < s.end
               /\ \A m \in s.start .. (s.end - 1) : m \in DOMAIN rows /\ m < closedUntil
    <2>1. /\ s \in Piece /\ s.start < s.end
          /\ \A m \in s.start .. (s.end - 1) : m \in Seen(0, Cap)
      BY <1>3 DEF Tiles
    <2> QED BY <2>1 DEF Piece, Seen
  <1>5. ASSUME NEW s \in E
        PROVE  ~(s.end > closedUntil)
    <2>1. s.end - 1 \in s.start .. (s.end - 1)
      BY <1>4
    <2>2. s.end - 1 < closedUntil
      BY <1>4, <2>1
    <2> QED BY <1>1, <1>4, <2>2
  <1>6. ASSUME NEW s \in E, NEW t \in E, s # t, s.start < t.end, t.start < s.end
        PROVE  FALSE
    <2> DEFINE m == Greater(s.start, t.start)
    <2>1. /\ s.start \in Int /\ s.end \in Int /\ s.start < s.end
          /\ t.start \in Int /\ t.end \in Int /\ t.start < t.end
      BY <1>4
    <2>2. m \in Int /\ s.start <= m /\ m < s.end /\ t.start <= m /\ m < t.end
      BY <1>6, <2>1 DEF Greater
    <2> HIDE DEF m
    <2> QED BY <1>3, <1>6, <2>2 DEF Tiles
  <1>7. ASSUME NEW s \in E, NEW h \in L, HourOf(s.start) <= h, h <= HourOf(s.end - 1)
        PROVE  FALSE
    <2>1. h \in HoursIn(0, Cap) /\ Lost(h, NoEdge)
      BY DEF LostIn
    <2>2. h \in Int /\ h * MinutesPerHour < closedUntil
      <3>1. h \in Int /\ h * MinutesPerHour < Cap
        BY <1>1, <2>1, HoursInIs
      <3> QED BY <3>1, BeforeCap
    <2>3. h \in lostHours
      BY <1>2, <2>1, <2>2, LostIs
    <2>4. /\ s.start \in Int /\ s.end \in Int /\ s.start < s.end
          /\ s.start \in DOMAIN rows
      <3>1. s.start \in s.start .. (s.end - 1)
        BY <1>4
      <3> QED BY <1>4, <3>1
    <2> DEFINE q == HourOf(s.start)
               x == q * MinutesPerHour
    <2>5. q \in Int /\ FloorHour(s.start) = x /\ x \in Int /\ x <= s.start
      BY <2>4, HourHolds
    <2>6. s.end - 1 \in Int /\ x <= s.end - 1 /\ s.end - 1 < x + MinutesPerHour
      <3>1. s.end <= x + MinutesPerHour
        BY <1>3, <2>5
      <3> HIDE DEF x
      <3> QED BY <2>4, <2>5, <3>1, HourLength
    <2>7. HourOf(s.end - 1) = q
      BY <2>5, <2>6, HourIs
    <2>8. h = q
      BY <1>7, <2>2, <2>5, <2>7
    <2> QED BY <2>3, <2>4, <2>8 DEF ReadInv
  <1> HIDE DEF L
  <1>8. ~TimelineRejects(E, closedUntil, L)
    BY <1>5, <1>6, <1>7 DEF TimelineRejects
  <1> QED BY <1>8 DEF E, L

\* A refused range has a minute of a lost hour.
LEMMA RefusedHasLost ==
  ASSUME ReadInv, NEW a \in Int, NEW b \in Int, a < b, NEW edge, EdgeUsable(edge), Refused(a, b, edge)
  PROVE  \E m \in a .. (b - 1) : HourOf(m) \in lostHours
  <1> DEFINE f == FloorHour(a)
             l == Lesser(b, closedUntil)
  <1>1. closedUntil \in Int
    BY DEF ReadInv, SegmentInv
  <1>2. f \in Int /\ f <= a /\ a < f + MinutesPerHour /\ l \in Int /\ l <= b /\ l <= closedUntil
    BY <1>1, HourHolds DEF Lesser
  <1>3. PICK h \in HoursIn(f, l) : Lost(h, edge)
    BY DEF Refused
  <1> DEFINE x == h * MinutesPerHour
             m == Greater(a, x)
  <1>4. h \in Int /\ f <= x /\ x < l /\ x \in Int
    BY <1>2, <1>3, HoursInIs, HoursApart
  <1>5. x < closedUntil
    <2> HIDE DEF x, l
    <2> QED BY <1>1, <1>2, <1>4
  <1>6. h \in lostHours
    BY <1>3, <1>4, <1>5, LostIs
  <1>7. m \in Int /\ x <= m /\ m < x + MinutesPerHour /\ a <= m /\ m < b
    <2> HIDE DEF x, f, l
    <2> QED BY <1>2, <1>4, HourLength DEF Greater
  <1>8. HourOf(m) = h
    <2> HIDE DEF m
    <2> QED BY <1>4, <1>7, HourIs
  <1>9. m \in a .. (b - 1)
    BY <1>7
  <1> HIDE DEF m
  <1> QED BY <1>6, <1>8, <1>9

\* A range is refused when a part of it is.
LEMMA RefusedPart ==
  ASSUME ReadInv, NEW a \in Int, NEW b \in Int, NEW k \in Int, NEW l \in Int, a <= k, k < l, l <= b,
         NEW edge, Refused(k, l, edge)
  PROVE  Refused(a, b, edge)
  <1>1. closedUntil \in Int
    BY DEF ReadInv, SegmentInv
  <1>2. /\ FloorHour(a) \in Int /\ FloorHour(k) \in Int /\ FloorHour(a) <= FloorHour(k)
        /\ Lesser(b, closedUntil) \in Int /\ Lesser(l, closedUntil) \in Int
        /\ Lesser(l, closedUntil) <= Lesser(b, closedUntil)
    <2>1. FloorHour(a) \in Int /\ FloorHour(k) \in Int /\ FloorHour(a) <= a /\ Whole(FloorHour(a))
      BY HourHolds, CeilHolds
    <2>2. FloorHour(a) <= k
      BY <2>1
    <2>3. FloorHour(a) <= FloorHour(k)
      BY <2>1, <2>2, WholeHours
    <2> QED BY <1>1, <2>1, <2>3 DEF Lesser
  <1>3. PICK h \in HoursIn(FloorHour(k), Lesser(l, closedUntil)) : Lost(h, edge)
    BY DEF Refused
  <1> DEFINE x == h * MinutesPerHour
  <1>4. h \in Int /\ FloorHour(k) <= x /\ x < Lesser(l, closedUntil) /\ x \in Int
    BY <1>2, <1>3, HoursInIs, HoursApart
  <1>5. FloorHour(a) <= x /\ x < Lesser(b, closedUntil)
    <2> HIDE DEF x
    <2> QED BY <1>2, <1>4
  <1>6. h \in HoursIn(FloorHour(a), Lesser(b, closedUntil))
    BY <1>2, <1>4, <1>5, HoursInIs
  <1> QED BY <1>3, <1>6 DEF Refused

\* A range of the public resource.
LEMMA ActivityQuery ==
  ASSUME ReadInv, NEW a \in Int, NEW b \in Int, a < b
  PROVE  Query(a, b, 0, NoEdge)
  <1>1. 0 \in Int /\ 0 = 0 * MinutesPerHour
    BY HourLength
  <1>2. Whole(0)
    BY <1>1 DEF Whole
  <1> QED BY <1>2 DEF Query, EdgeUsable, NoEdge

LEMMA ReadHolds == Spec => []ReadInv
  <1>1. Init => ReadInv
    BY ReadInit
  <1>2. ReadInv /\ [Next]_vars => ReadInv'
    BY ReadStep
  <1> QED BY <1>1, <1>2, PTL DEF Spec

LEMMA WidenedCompletes ==
  ASSUME ReadInv
  PROVE  WidenedIsComplete
  <1>1. ASSUME NEW r \in Ranges
        PROVE  /\ r[1] \in Int /\ r[2] \in Int /\ r[1] < r[2]
               /\ r[1] \in 0 .. MaxMinute /\ r[2] \in 1 .. (MaxMinute + 1)
    BY ActivityReadAssumption DEF Ranges
  <1>2. ASSUME NEW r \in Ranges, Refused(r[1], r[2], NoEdge)
        PROVE  \E m \in r[1] .. (r[2] - 1) : HourOf(m) \in lostHours
    <2>1. EdgeUsable(NoEdge)
      BY DEF EdgeUsable, NoEdge
    <2> QED BY <1>1, <1>2, <2>1, RefusedHasLost
  <1>3. ASSUME NEW r \in Ranges
        PROVE  Intersecting(AllSpans(ActivityTimeline(r[1], r[2])), r[1], r[2])
                 = Intersecting(AllTrueSpans(0), r[1], r[2])
    <2>1. Query(r[1], r[2], 0, NoEdge)
      BY <1>1, ActivityQuery
    <2> QED BY <2>1, LoadAllComplete DEF ActivityTimeline
  <1> QED BY <1>2, <1>3, EvidenceAccepted DEF WidenedIsComplete

\* Every span that /activity answers a range with is the span of all evidence there is, with
\* the same proof of both edges, wherever hours, the frontier, purges and the steps of
\* load_timeline cut the evidence; only a range with a lost hour is refused.
THEOREM WidenedHolds == Spec => []WidenedIsComplete
  <1>1. ReadInv => WidenedIsComplete
    BY WidenedCompletes
  <1> QED BY <1>1, ReadHolds, PTL

-----------------------------------------------------------------------------
(* Summaries: what a range counts, each of its minutes counts.             *)

MinuteFact(m) == <<m, Classify(rows[m]), Compressor(rows[m]), rows[m].defrosting_state>>

FactNames == {"minutes", "starts", "stops", "complete", "exact_off"}

\* What is counted at minute m: a start at the first minute of its run, a stop at the last.
FactsOf(fact, m, floor) ==
    LET runs == TrueSpans("run", floor)
        offs == TrueSpans("off", floor)
    IN  IF fact = "minutes" THEN {MinuteFact(k) : k \in {j \in DOMAIN rows : j = m /\ j < closedUntil}}
        ELSE IF fact = "starts" THEN Places({r \in runs : r.before = "observed" /\ r.start = m})
        ELSE IF fact = "stops" THEN Places({r \in runs : r.after = "observed" /\ r.end - 1 = m})
        ELSE IF fact = "complete" THEN Places({r \in runs : Exact(r) /\ r.start = m})
        ELSE Places({o \in offs : Exact(o) /\ o.start = m})

FactsIn(fact, a, b, floor) == UNION {FactsOf(fact, m, floor) : m \in a .. (b - 1)}

\* A summary that counts just these.
Counts(s, a, b, floor) ==
    /\ s.minutes = FactsIn("minutes", a, b, floor)
    /\ s.starts = FactsIn("starts", a, b, floor)
    /\ s.stops = FactsIn("stops", a, b, floor)
    /\ s.complete = FactsIn("complete", a, b, floor)
    /\ s.exact_off = FactsIn("exact_off", a, b, floor)

\* The minutes counted from some items of a timeline.
LEMMA MinutesOfIs ==
  ASSUME NEW tl, NEW lo, NEW limit, NEW floor, Told(tl, lo, limit, floor),
         NEW kept, kept.items \subseteq tl.items,
         \A i \in tl.items : i.kind = "segment" => i \in Piece,
         NEW a \in Int, NEW b \in Int, a < b, NEW x
  PROVE  x \in MinutesOf(kept, a, b) <=>
            \E i \in kept.items, m \in Int :
               i.kind = "segment" /\ i.start <= m /\ m < i.end /\ a <= m /\ m < b /\ x = MinuteFact(m)
  <1> DEFINE S == {i \in kept.items : i.kind = "segment"}
             Facts(s) == {<<m, s.activity, s.compressor, s.fraction>> : m \in s.start .. (s.end - 1)}
             C == Clipped(S, a, b)
  <1>1. MinutesOf(kept, a, b) = UNION {Facts(s) : s \in C}
    BY DEF MinutesOf
  <1>2. ASSUME NEW s \in S
        PROVE  /\ s \in kept.items /\ s.kind = "segment" /\ s \in Piece
               /\ s.start \in Int /\ s.end \in Int /\ s.start < s.end
               /\ \A m \in Int : s.start <= m /\ m < s.end => Says(s, rows[m])
    <2>1. s \in kept.items /\ s \in tl.items /\ s.kind = "segment" /\ s \in Piece
      OBVIOUS
    <2>2. s.start \in Int /\ s.end \in Int /\ s.start < s.end /\ Tells(s, floor)
      BY <2>1 DEF Told, Laid
    <2>3. ASSUME NEW m \in Int, s.start <= m /\ m < s.end
          PROVE  Says(s, rows[m])
      <3>1. m \in s.start .. (s.end - 1)
        BY <2>2, <2>3
      <3> QED BY <2>1, <2>2, <3>1 DEF Tells
    <2> QED BY <2>1, <2>2, <2>3
  <1>3. C = {CutOf(s, a, b) : s \in {k \in S : k.start < b /\ a < k.end}}
    BY DEF Clipped, CutOf
  <1>4. ASSUME NEW s \in S, s.start < b, a < s.end
        PROVE  LET r == CutOf(s, a, b)
               IN  \A y : y \in Facts(r) <=>
                      \E m \in Int : s.start <= m /\ m < s.end /\ a <= m /\ m < b /\ y = MinuteFact(m)
    <2> DEFINE r == CutOf(s, a, b)
    <2>1. /\ r \in Piece /\ r.start < r.end
          /\ r.activity = s.activity /\ r.compressor = s.compressor /\ r.fraction = s.fraction
          /\ \A m \in Int : r.start <= m /\ m < r.end <=> s.start <= m /\ m < s.end /\ a <= m /\ m < b
      BY <1>2, <1>4, CutFacts
    <2>2. r.start \in Int /\ r.end \in Int
      BY <2>1 DEF Piece
    <2> HIDE DEF r, S
    <2>3. \A m \in Int : s.start <= m /\ m < s.end => MinuteFact(m) = <<m, r.activity, r.compressor, r.fraction>>
      BY <1>2, <2>1 DEF MinuteFact, Says
    <2>4. ASSUME NEW y \in Facts(r)
          PROVE  \E m \in Int : s.start <= m /\ m < s.end /\ a <= m /\ m < b /\ y = MinuteFact(m)
      <3>1. PICK m \in r.start .. (r.end - 1) : y = <<m, r.activity, r.compressor, r.fraction>>
        OBVIOUS
      <3>2. m \in Int /\ r.start <= m /\ m < r.end
        BY <2>2
      <3>3. s.start <= m /\ m < s.end /\ a <= m /\ m < b
        BY <2>1, <3>2
      <3> QED BY <2>3, <3>1, <3>2, <3>3
    <2>5. ASSUME NEW y, NEW m \in Int, s.start <= m /\ m < s.end, a <= m /\ m < b, y = MinuteFact(m)
          PROVE  y \in Facts(r)
      <3>1. r.start <= m /\ m < r.end
        BY <2>1, <2>5
      <3>2. m \in r.start .. (r.end - 1)
        BY <2>2, <3>1
      <3>3. y = <<m, r.activity, r.compressor, r.fraction>>
        BY <2>3, <2>5
      <3> QED BY <3>2, <3>3
    <2> HIDE DEF Facts
    <2>6. \A y : y \in Facts(r) <=>
              \E m \in Int : s.start <= m /\ m < s.end /\ a <= m /\ m < b /\ y = MinuteFact(m)
      BY <2>4, <2>5
    <2> QED BY <2>6 DEF r
  <1> HIDE DEF Facts, C
  <1>5. ASSUME x \in MinutesOf(kept, a, b)
        PROVE  \E i \in kept.items, m \in Int :
                  i.kind = "segment" /\ i.start <= m /\ m < i.end /\ a <= m /\ m < b /\ x = MinuteFact(m)
    <2>1. PICK r \in C : x \in Facts(r)
      BY <1>1, <1>5
    <2>2. PICK s \in S : s.start < b /\ a < s.end /\ r = CutOf(s, a, b)
      BY <1>3
    <2>3. \E m \in Int : s.start <= m /\ m < s.end /\ a <= m /\ m < b /\ x = MinuteFact(m)
      BY <1>4, <2>1, <2>2
    <2>4. s \in kept.items /\ s.kind = "segment"
      BY <1>2
    <2> HIDE DEF S
    <2> QED BY <2>3, <2>4
  <1>6. ASSUME NEW i \in kept.items, NEW m \in Int,
               i.kind = "segment", i.start <= m, m < i.end, a <= m, m < b, x = MinuteFact(m)
        PROVE  x \in MinutesOf(kept, a, b)
    <2>1. i \in S
      BY <1>6
    <2>2. i.start < b /\ a < i.end
      BY <1>2, <1>6, <2>1
    <2> DEFINE r == CutOf(i, a, b)
    <2>3. r \in C
      BY <1>3, <2>1, <2>2
    <2>4. x \in Facts(r)
      BY <1>4, <1>6, <2>1, <2>2
    <2> HIDE DEF r
    <2> QED BY <1>1, <2>3, <2>4
  <1> QED BY <1>5, <1>6

\* Spans are not empty.
LEMMA SpanShape ==
  ASSUME NEW family, NEW floor, NEW lo \in Int, NEW limit, NEW p \in SpansOfRuns(family, floor, lo, limit)
  PROVE  p.start \in Int /\ p.end \in Int /\ p.start < p.end
  <1>1. PICK x \in Int, z \in Int, state \in Wanted(family) :
           IsRun(x, z, state, family, floor, lo, limit) /\ p = RunSpan(x, z, state, family, floor, lo, limit)
    BY SpansOfRunsIs
  <1> QED BY <1>1 DEF IsRun, RunSpan

\* The spans of a query that begin or end inside its range.
LEMMA QueryRuns ==
  ASSUME ReadInv, NEW a, NEW b, NEW floor, NEW edge, Query(a, b, floor, edge), NEW family \in Families, NEW r
  PROVE  LET here == r \in Spans(LoadTimeline(a, b, floor, edge), family)
             true == r \in TrueSpans(family, floor)
         IN  /\ here /\ a <= r.start /\ r.start < b <=> true /\ a <= r.start /\ r.start < b
             /\ here /\ a <= r.end - 1 /\ r.end - 1 < b <=> true /\ a <= r.end - 1 /\ r.end - 1 < b
             /\ true => r.start \in Int /\ r.end \in Int /\ r.start < r.end
  <1> DEFINE S == Spans(LoadTimeline(a, b, floor, edge), family)
             T == TrueSpans(family, floor)
             w == Widened(a, b, floor, edge)
  <1>1. a \in Int /\ b \in Int /\ floor \in Int /\ floor <= 0 /\ EdgeUsable(edge)
    BY DEF Query
  <1>2. ASSUME r \in S
        PROVE  r.start \in Int /\ r.end \in Int /\ r.start < r.end
    <2>1. Examined(w.lo, w.hi, b, floor)
      BY WidenedDecides DEF Window
    <2>2. LoadTimeline(a, b, floor, edge) = EvidenceTimeline(w.lo, w.hi, b, edge)
      BY DEF LoadTimeline
    <2> HIDE DEF w
    <2>3. w.lo \in Int
      BY <2>1, LimitHolds
    <2>4. r \in SpansOfRuns(family, floor, w.lo, LimitOf(w.lo, w.hi, b))
      BY <1>1, <1>2, <2>1, <2>2, QuerySpans
    <2> QED BY <2>3, <2>4, SpanShape
  <1>3. ASSUME r \in T
        PROVE  r.start \in Int /\ r.end \in Int /\ r.start < r.end
    <2>1. r \in SpansOfRuns(family, floor, floor, closedUntil)
      BY <1>1, <1>3, TrueSpansAreRuns
    <2> QED BY <1>1, <2>1, SpanShape
  <1>4. Intersecting(S, a, b) = Intersecting(T, a, b)
    BY LoadComplete
  <1> HIDE DEF S, T
  <1>5. r.start < b /\ a < r.end => (r \in S <=> r \in T)
    BY <1>4 DEF Intersecting
  <1>6. r \in S \/ r \in T => /\ a <= r.start /\ r.start < b => r.start < b /\ a < r.end
                              /\ a <= r.end - 1 /\ r.end - 1 < b => r.start < b /\ a < r.end
    BY <1>1, <1>2, <1>3
  <1> QED BY <1>3, <1>5, <1>6 DEF S, T

\* A recorded minute of the range is in the evidence of its query.
LEMMA WindowHolds ==
  ASSUME ReadInv, NEW lo, NEW hi, NEW a, NEW b, NEW floor, Window(lo, hi, a, b, floor),
         NEW m \in Nat, a <= m, m < b, m < closedUntil
  PROVE  lo <= m /\ m < LimitOf(lo, hi, b)
  <1>1. /\ Examined(lo, hi, b, floor) /\ floor \in Int /\ floor <= 0 /\ a \in Int /\ b \in Int
        /\ lo <= Greater(floor, a - 1)
        /\ b + 1 <= hi \/ Cap <= hi
    BY DEF Window, Examined
  <1>2. /\ lo \in Int /\ hi \in Int /\ closedUntil \in Int
        /\ \A k \in Int : lo <= k => (k < LimitOf(lo, hi, b) <=> k < hi /\ k < closedUntil)
    BY <1>1, LimitHolds
  <1>3. Cap \in Int /\ closedUntil <= Cap
    BY <1>2, CeilHolds DEF Cap
  <1>4. lo <= m
    BY <1>1, <1>2 DEF Greater
  <1>5. m < hi
    BY <1>1, <1>2, <1>3
  <1> QED BY <1>2, <1>4, <1>5

\* The timeline of a query, item by item.
LEMMA LoadTold ==
  ASSUME ReadInv, NEW a, NEW b, NEW floor, NEW edge, Query(a, b, floor, edge)
  PROVE  LET tl == LoadTimeline(a, b, floor, edge)
         IN  \E hi \in Int : LET limit == LimitOf(tl.start, hi, b) IN
             /\ Window(tl.start, hi, a, b, floor)
             /\ tl.end = Greater(hi, b)
             /\ Told(tl, tl.start, limit, floor)
             /\ \A i \in tl.items : i.kind = "segment" =>
                   /\ i \in Piece /\ i.end <= FloorHour(i.start) + MinutesPerHour
                   /\ edge = RawEdge(TRUE) => i.energy
  <1> DEFINE w == Widened(a, b, floor, edge)
             tl == LoadTimeline(a, b, floor, edge)
             lo == w.lo
             hi == w.hi
             limit == LimitOf(lo, hi, b)
  <1>1. Window(lo, hi, a, b, floor)
    BY WidenedDecides
  <1>2. tl = EvidenceTimeline(lo, hi, b, edge)
    BY DEF LoadTimeline
  <1> HIDE DEF w, tl, lo, hi, limit
  <1>3. Examined(lo, hi, b, floor) /\ EdgeUsable(edge)
    BY <1>1 DEF Window, Query
  <1>4. lo \in Int /\ hi \in Int /\ LimitOf(lo, hi, b) \in Int
    BY <1>3, LimitHolds
  <1>5. /\ Laid(tl.items, lo, LimitOf(lo, hi, b), floor)
        /\ \A i \in tl.items : i.kind = "segment" =>
              /\ i \in Piece /\ i.end <= FloorHour(i.start) + MinutesPerHour
              /\ edge = RawEdge(TRUE) => i.energy
    BY <1>2, <1>3, TimelineLaid
  <1>6. tl.start = lo /\ tl.end = Greater(hi, b) /\ tl.closed = closedUntil
    BY <1>2 DEF EvidenceTimeline, Timeline
  <1>7. Told(tl, tl.start, LimitOf(tl.start, hi, b), floor)
    BY <1>4, <1>5, <1>6 DEF Told
  <1> QED BY <1>1, <1>4, <1>5, <1>6, <1>7 DEF tl

LEMMA FactsInIs ==
  ASSUME NEW a \in Int, NEW b \in Int, NEW floor, NEW x
  PROVE  /\ x \in FactsIn("minutes", a, b, floor) <=>
              \E m \in DOMAIN rows : m \in Int /\ a <= m /\ m < b /\ m < closedUntil /\ x = MinuteFact(m)
         /\ x \in FactsIn("starts", a, b, floor) <=>
              \E r \in TrueSpans("run", floor) :
                 r.before = "observed" /\ r.start \in Int /\ a <= r.start /\ r.start < b /\ x = <<r.start, r.end>>
         /\ x \in FactsIn("stops", a, b, floor) <=>
              \E r \in TrueSpans("run", floor) :
                 r.after = "observed" /\ r.end - 1 \in Int /\ a <= r.end - 1 /\ r.end - 1 < b /\ x = <<r.start, r.end>>
         /\ x \in FactsIn("complete", a, b, floor) <=>
              \E r \in TrueSpans("run", floor) :
                 Exact(r) /\ r.start \in Int /\ a <= r.start /\ r.start < b /\ x = <<r.start, r.end>>
         /\ x \in FactsIn("exact_off", a, b, floor) <=>
              \E r \in TrueSpans("off", floor) :
                 Exact(r) /\ r.start \in Int /\ a <= r.start /\ r.start < b /\ x = <<r.start, r.end>>
  <1>0. /\ \A fact : x \in FactsIn(fact, a, b, floor) <=> \E m \in a .. (b - 1) : x \in FactsOf(fact, m, floor)
        /\ \A m : m \in a .. (b - 1) <=> m \in Int /\ a <= m /\ m < b
    BY DEF FactsIn
  <1>1. \A m : FactsOf("minutes", m, floor) = {MinuteFact(k) : k \in {j \in DOMAIN rows : j = m /\ j < closedUntil}}
    BY DEF FactsOf
  <1>2. \A m : FactsOf("starts", m, floor) = Places({r \in TrueSpans("run", floor) : r.before = "observed" /\ r.start = m})
    BY DEF FactsOf
  <1>3. \A m : FactsOf("stops", m, floor) = Places({r \in TrueSpans("run", floor) : r.after = "observed" /\ r.end - 1 = m})
    BY DEF FactsOf
  <1>4. \A m : FactsOf("complete", m, floor) = Places({r \in TrueSpans("run", floor) : Exact(r) /\ r.start = m})
    BY DEF FactsOf
  <1>5. \A m : FactsOf("exact_off", m, floor) = Places({r \in TrueSpans("off", floor) : Exact(r) /\ r.start = m})
    BY DEF FactsOf
  <1>6. x \in FactsIn("minutes", a, b, floor) <=>
              \E m \in DOMAIN rows : m \in Int /\ a <= m /\ m < b /\ m < closedUntil /\ x = MinuteFact(m)
    BY <1>0, <1>1
  <1>7. x \in FactsIn("starts", a, b, floor) <=>
              \E r \in TrueSpans("run", floor) :
                 r.before = "observed" /\ r.start \in Int /\ a <= r.start /\ r.start < b /\ x = <<r.start, r.end>>
    BY <1>0, <1>2 DEF Places
  <1>8. x \in FactsIn("stops", a, b, floor) <=>
              \E r \in TrueSpans("run", floor) :
                 r.after = "observed" /\ r.end - 1 \in Int /\ a <= r.end - 1 /\ r.end - 1 < b /\ x = <<r.start, r.end>>
    BY <1>0, <1>3 DEF Places
  <1>9. x \in FactsIn("complete", a, b, floor) <=>
              \E r \in TrueSpans("run", floor) :
                 Exact(r) /\ r.start \in Int /\ a <= r.start /\ r.start < b /\ x = <<r.start, r.end>>
    BY <1>0, <1>4 DEF Places
  <1>10. x \in FactsIn("exact_off", a, b, floor) <=>
              \E r \in TrueSpans("off", floor) :
                 Exact(r) /\ r.start \in Int /\ a <= r.start /\ r.start < b /\ x = <<r.start, r.end>>
    BY <1>0, <1>5 DEF Places
  <1> QED BY <1>6, <1>7, <1>8, <1>9, <1>10

\* A summary counts what is known of its minutes.
LEMMA SummaryCounts ==
  ASSUME ReadInv, NEW a, NEW b, NEW floor, NEW edge, Query(a, b, floor, edge)
  PROVE  Counts(Summary(LoadTimeline(a, b, floor, edge), a, b), a, b, floor)
  <1> DEFINE tl == LoadTimeline(a, b, floor, edge)
             s == Summary(tl, a, b)
  <1>1. a \in Int /\ b \in Int /\ a < b /\ floor \in Int
    BY DEF Query
  <1>2. s.minutes = FactsIn("minutes", a, b, floor)
    <2>1. s.minutes = MinutesOf(tl, a, b)
      BY DEF Summary
    <2>2. PICK hi \in Int :
             /\ Window(tl.start, hi, a, b, floor)
             /\ Told(tl, tl.start, LimitOf(tl.start, hi, b), floor)
             /\ \A i \in tl.items : i.kind = "segment" => i \in Piece
      BY LoadTold
    <2> DEFINE lo == tl.start
               limit == LimitOf(lo, hi, b)
    <2> HIDE DEF tl, limit, lo, s
    <2>3. Told(tl, lo, limit, floor) /\ Window(lo, hi, a, b, floor)
      BY <2>2 DEF lo, limit
    <2>4. ASSUME NEW x
          PROVE  x \in MinutesOf(tl, a, b) <=>
            \E i \in tl.items, m \in Int :
               i.kind = "segment" /\ i.start <= m /\ m < i.end /\ a <= m /\ m < b /\ x = MinuteFact(m)
      BY <1>1, <2>2, <2>3, MinutesOfIs
    <2>5. ASSUME NEW x, x \in MinutesOf(tl, a, b)
          PROVE  x \in FactsIn("minutes", a, b, floor)
      <3>1. PICK i \in tl.items, m \in Int :
               i.kind = "segment" /\ i.start <= m /\ m < i.end /\ a <= m /\ m < b /\ x = MinuteFact(m)
        BY <2>4, <2>5
      <3>2. i.start \in Int /\ i.end \in Int /\ Tells(i, floor)
        BY <2>3 DEF Told, Laid
      <3>3. m \in i.start .. (i.end - 1)
        BY <3>1, <3>2
      <3>4. Evidence(m, floor) = "recorded" /\ m \in DOMAIN rows
        BY <3>1, <3>2, <3>3 DEF Tells
      <3>5. m < closedUntil
        <4>1. ~(m < floor) /\ ~(m >= closedUntil)
          BY <3>4 DEF Evidence
        <4> QED BY <4>1 DEF ReadInv, SegmentInv
      <3> QED BY <1>1, <3>1, <3>4, <3>5, FactsInIs
    <2>6. ASSUME NEW x, x \in FactsIn("minutes", a, b, floor)
          PROVE  x \in MinutesOf(tl, a, b)
      <3>1. PICK m \in DOMAIN rows : m \in Int /\ a <= m /\ m < b /\ m < closedUntil /\ x = MinuteFact(m)
        BY <1>1, <2>6, FactsInIs
      <3>2. m \in Nat
        BY DEF ReadInv, SegmentInv
      <3>3. lo <= m /\ m < limit
        BY <2>3, <3>1, <3>2, WindowHolds DEF limit
      <3>4. PICK i \in tl.items : i.start <= m /\ m < i.end
        BY <2>3, <3>1, <3>3 DEF Told, Laid
      <3>5. Evidence(m, floor) = "recorded"
        <4>1. floor <= 0 /\ floor <= m
          BY <1>1, <3>2 DEF Query
        <4> QED BY <1>1, <3>1, <4>1, KnownEvidence
      <3>6. i.kind = "segment"
        <4>1. "run" \in Families
          BY DEF Families
        <4> QED BY <2>3, <3>1, <3>4, <3>5, <4>1, ItemTells
      <3> QED BY <2>4, <3>1, <3>4, <3>6
    <2>7. MinutesOf(tl, a, b) = FactsIn("minutes", a, b, floor)
      BY <2>5, <2>6
    <2> QED BY <2>1, <2>7
  <1> DEFINE R == Spans(tl, "run")
             O == Spans(tl, "off")
             TR == TrueSpans("run", floor)
             TO == TrueSpans("off", floor)
  <1>3. /\ \A r : /\ r \in R /\ a <= r.start /\ r.start < b <=> r \in TR /\ a <= r.start /\ r.start < b
                  /\ r \in R /\ a <= r.end - 1 /\ r.end - 1 < b <=> r \in TR /\ a <= r.end - 1 /\ r.end - 1 < b
                  /\ r \in TR => r.start \in Int /\ r.end \in Int
        /\ \A r : /\ r \in O /\ a <= r.start /\ r.start < b <=> r \in TO /\ a <= r.start /\ r.start < b
                  /\ r \in TO => r.start \in Int /\ r.end \in Int
    <2>1. "run" \in Families /\ "off" \in Families
      BY DEF Families
    <2> QED BY <2>1, QueryRuns
  <1>4. /\ s.starts = Places({r \in R : r.before = "observed" /\ a <= r.start /\ r.start < b})
        /\ s.stops = Places({r \in R : r.after = "observed" /\ a <= r.end - 1 /\ r.end - 1 < b})
        /\ s.complete = Places({r \in R : Exact(r) /\ a <= r.start /\ r.start < b})
        /\ s.exact_off = Places({o \in O : Exact(o) /\ a <= o.start /\ o.start < b})
    BY DEF Summary
  <1> HIDE DEF s, tl, R, O, TR, TO
  <1>5. ASSUME NEW x
        PROVE  x \in s.starts <=> x \in FactsIn("starts", a, b, floor)
    <2>1. x \in s.starts <=>
            \E r \in TR : r.before = "observed" /\ r.start \in Int /\ a <= r.start /\ r.start < b /\ x = <<r.start, r.end>>
      BY <1>3, <1>4 DEF Places
    <2> QED BY <1>1, <2>1, FactsInIs DEF TR
  <1>6. ASSUME NEW x
        PROVE  x \in s.stops <=> x \in FactsIn("stops", a, b, floor)
    <2>0. \A r \in TR : r.end - 1 \in Int
      BY <1>3
    <2>1. x \in s.stops <=>
            \E r \in TR : r.after = "observed" /\ r.end - 1 \in Int /\ a <= r.end - 1 /\ r.end - 1 < b /\ x = <<r.start, r.end>>
      BY <1>3, <1>4, <2>0 DEF Places
    <2> QED BY <1>1, <2>1, FactsInIs DEF TR
  <1>7. ASSUME NEW x
        PROVE  x \in s.complete <=> x \in FactsIn("complete", a, b, floor)
    <2>1. x \in s.complete <=>
            \E r \in TR : Exact(r) /\ r.start \in Int /\ a <= r.start /\ r.start < b /\ x = <<r.start, r.end>>
      BY <1>3, <1>4 DEF Places
    <2> QED BY <1>1, <2>1, FactsInIs DEF TR
  <1>8. ASSUME NEW x
        PROVE  x \in s.exact_off <=> x \in FactsIn("exact_off", a, b, floor)
    <2>1. x \in s.exact_off <=>
            \E r \in TO : Exact(r) /\ r.start \in Int /\ a <= r.start /\ r.start < b /\ x = <<r.start, r.end>>
      BY <1>3, <1>4 DEF Places
    <2> QED BY <1>1, <2>1, FactsInIs DEF TO
  <1>9. /\ s.starts = FactsIn("starts", a, b, floor) /\ s.stops = FactsIn("stops", a, b, floor)
        /\ s.complete = FactsIn("complete", a, b, floor) /\ s.exact_off = FactsIn("exact_off", a, b, floor)
    <2>1. s.starts = FactsIn("starts", a, b, floor)
      BY <1>5
    <2>2. s.stops = FactsIn("stops", a, b, floor)
      BY <1>6
    <2>3. s.complete = FactsIn("complete", a, b, floor)
      BY <1>7
    <2>4. s.exact_off = FactsIn("exact_off", a, b, floor)
      BY <1>8
    <2> QED BY <2>1, <2>2, <2>3, <2>4
  <1> QED BY <1>2, <1>9 DEF Counts, s, tl

-----------------------------------------------------------------------------
(* What a range counts is what its minutes count, each counted once.       *)

Asked(a, b) == Summary(ActivityTimeline(a, b), a, b)

LEMMA AskedCounts ==
  ASSUME ReadInv, NEW a \in Int, NEW b \in Int, a < b
  PROVE  /\ DOMAIN Asked(a, b) = FactNames
         /\ \A fact \in FactNames : Asked(a, b)[fact] = FactsIn(fact, a, b, 0)
  <1>1. Counts(Asked(a, b), a, b, 0)
    BY ActivityQuery, SummaryCounts DEF Asked, ActivityTimeline
  <1>2. DOMAIN Asked(a, b) = FactNames
    BY DEF Asked, Summary, FactNames
  <1>3. /\ Asked(a, b)["minutes"] = FactsIn("minutes", a, b, 0)
        /\ Asked(a, b)["starts"] = FactsIn("starts", a, b, 0)
        /\ Asked(a, b)["stops"] = FactsIn("stops", a, b, 0)
        /\ Asked(a, b)["complete"] = FactsIn("complete", a, b, 0)
        /\ Asked(a, b)["exact_off"] = FactsIn("exact_off", a, b, 0)
    BY <1>1 DEF Counts
  <1> QED BY <1>2, <1>3 DEF FactNames

\* Each fact has one place.
LEMMA FactsApart ==
  ASSUME NEW m \in Int, NEW n \in Int, m # n, NEW floor, NEW fact \in FactNames,
         NEW x, x \in FactsIn(fact, m, m + 1, floor), x \in FactsIn(fact, n, n + 1, floor)
  PROVE  FALSE
  <1>1. \A k \in Int, j \in Int : k <= j /\ j < k + 1 => j = k
    OBVIOUS
  <1>2. CASE fact = "minutes"
    <2>1. \A k \in Int : x \in FactsIn("minutes", k, k + 1, floor) => x[1] = k
      <3>1. \A k : MinuteFact(k)[1] = k
        BY DEF MinuteFact
      <3> QED BY <1>1, <3>1, FactsInIs
    <2> QED BY <1>2, <2>1
  <1>3. CASE fact = "starts"
    <2>1. \A k \in Int : x \in FactsIn("starts", k, k + 1, floor) => x[1] = k
      BY <1>1, FactsInIs
    <2> QED BY <1>3, <2>1
  <1>4. CASE fact = "stops"
    <2>1. \A k \in Int : x \in FactsIn("stops", k, k + 1, floor) => x[2] - 1 = k
      BY <1>1, FactsInIs
    <2> QED BY <1>4, <2>1
  <1>5. CASE fact = "complete"
    <2>1. \A k \in Int : x \in FactsIn("complete", k, k + 1, floor) => x[1] = k
      BY <1>1, FactsInIs
    <2> QED BY <1>5, <2>1
  <1>6. CASE fact = "exact_off"
    <2>1. \A k \in Int : x \in FactsIn("exact_off", k, k + 1, floor) => x[1] = k
      BY <1>1, FactsInIs
    <2> QED BY <1>6, <2>1
  <1> QED BY <1>2, <1>3, <1>4, <1>5, <1>6 DEF FactNames

LEMMA FactsWhole ==
  ASSUME NEW a \in Int, NEW b \in Int, NEW floor, NEW fact
  PROVE  FactsIn(fact, a, b, floor) = UNION {FactsIn(fact, m, m + 1, floor) : m \in a .. (b - 1)}
  <1>1. ASSUME NEW m \in a .. (b - 1)
        PROVE  FactsIn(fact, m, m + 1, floor) = FactsOf(fact, m, floor)
    <2>1. m .. (m + 1 - 1) = {m}
      OBVIOUS
    <2> QED BY <2>1 DEF FactsIn
  <1> QED BY <1>1 DEF FactsIn

LEMMA SummariesAddUp ==
  ASSUME ReadInv
  PROVE  SummariesAdd
  <1> DEFINE answered == {q \in Ranges : ~Refused(q[1], q[2], NoEdge)}
             Answer(r) == [from |-> r[1], to |-> r[2], facts |-> Summary(ActivityTimeline(r[1], r[2]), r[1], r[2])]
             answers == {Answer(r) : r \in answered}
             units == {u \in answers : u.to = u.from + 1}
             Within(q) == {u \in units : q.from <= u.from /\ u.to <= q.to}
  <1>1. ASSUME NEW q \in answers
        PROVE  /\ q.from \in Int /\ q.to \in Int /\ q.from < q.to /\ 0 <= q.from /\ q.to <= MaxMinute + 1
               /\ ~Refused(q.from, q.to, NoEdge)
               /\ q = Answer(<<q.from, q.to>>) /\ MaxMinute \in Int
               /\ DOMAIN q.facts = FactNames
               /\ \A fact \in FactNames : q.facts[fact] = FactsIn(fact, q.from, q.to, 0)
    <2>1. PICK r \in answered : q = Answer(r)
      OBVIOUS
    <2> DEFINE a == r[1]
               b == r[2]
    <2>2. a \in Int /\ b \in Int /\ a < b /\ 0 <= a /\ b <= MaxMinute + 1 /\ MaxMinute \in Int
      BY ActivityReadAssumption DEF Ranges
    <2>3. q.from = a /\ q.to = b /\ q.facts = Asked(a, b)
      BY <2>1 DEF Asked
    <2>4. ~Refused(a, b, NoEdge) /\ q = Answer(<<a, b>>)
      BY <2>1
    <2> HIDE DEF a, b, Answer
    <2> QED BY <2>2, <2>3, <2>4, AskedCounts
  <1>2. ASSUME NEW m \in Int, 0 <= m, m <= MaxMinute, ~Refused(m, m + 1, NoEdge)
        PROVE  /\ Answer(<<m, m + 1>>) \in units
               /\ Answer(<<m, m + 1>>).from = m /\ Answer(<<m, m + 1>>).to = m + 1
    <2> DEFINE r == <<m, m + 1>>
    <2>1. m \in 0 .. MaxMinute /\ m + 1 \in 1 .. (MaxMinute + 1) /\ m < m + 1
      BY <1>2, ActivityReadAssumption
    <2>2. r[1] = m /\ r[2] = m + 1
      OBVIOUS
    <2>3. r \in Ranges
      BY <2>1 DEF Ranges
    <2>4. r \in answered
      BY <1>2, <2>2, <2>3
    <2>5. Answer(r) \in answers /\ Answer(r).from = m /\ Answer(r).to = m + 1
      BY <2>2, <2>4
    <2> QED BY <2>5
  <1> HIDE DEF answered, Answer, answers
  <1>3. ASSUME NEW u \in units, NEW w \in units, NEW fact \in DOMAIN u.facts, u # w
        PROVE  u.facts[fact] \cap w.facts[fact] = {}
    <2>1. u \in answers /\ w \in answers /\ u.to = u.from + 1 /\ w.to = w.from + 1
      OBVIOUS
    <2>2. u.from # w.from /\ u.from \in Int /\ w.from \in Int
      BY <1>1, <1>3, <2>1
    <2>3. /\ fact \in FactNames
          /\ u.facts[fact] = FactsIn(fact, u.from, u.from + 1, 0)
          /\ w.facts[fact] = FactsIn(fact, w.from, w.from + 1, 0)
      BY <1>1, <2>1
    <2> QED BY <2>2, <2>3, FactsApart
  <1>4. ASSUME NEW q \in answers, NEW fact \in DOMAIN q.facts
        PROVE  q.facts[fact] = UNION {u.facts[fact] : u \in Within(q)}
    <2> DEFINE a == q.from
               b == q.to
    <2>1. /\ a \in Int /\ b \in Int /\ a < b /\ 0 <= a /\ b <= MaxMinute + 1 /\ MaxMinute \in Int
          /\ ~Refused(a, b, NoEdge)
          /\ fact \in FactNames /\ q.facts[fact] = FactsIn(fact, a, b, 0)
      BY <1>1
    <2> HIDE DEF a, b
    <2>2. ASSUME NEW m \in a .. (b - 1)
          PROVE  \E u \in Within(q) : u.facts[fact] = FactsIn(fact, m, m + 1, 0)
      <3>1. m \in Int /\ m + 1 \in Int /\ 0 <= m /\ m <= MaxMinute /\ a <= m /\ m < m + 1 /\ m + 1 <= b
        BY <2>1
      <3>2. ~Refused(m, m + 1, NoEdge)
        BY <2>1, <3>1, RefusedPart
      <3> DEFINE u == Answer(<<m, m + 1>>)
      <3>3. u \in units /\ u.from = m /\ u.to = m + 1
        BY <1>2, <3>1, <3>2
      <3> HIDE DEF u
      <3>4. u \in Within(q)
        BY <3>1, <3>3 DEF a, b
      <3>5. u \in answers
        BY <3>3
      <3>6. u.facts[fact] = FactsIn(fact, m, m + 1, 0)
        BY <1>1, <2>1, <3>3, <3>5
      <3> QED BY <3>4, <3>6
    <2>3. ASSUME NEW u \in Within(q)
          PROVE  \E m \in a .. (b - 1) : u.facts[fact] = FactsIn(fact, m, m + 1, 0)
      <3>1. u \in answers /\ u.to = u.from + 1 /\ a <= u.from /\ u.to <= b
        BY DEF a, b
      <3>2. u.from \in Int /\ u.facts[fact] = FactsIn(fact, u.from, u.from + 1, 0)
        BY <1>1, <2>1, <3>1
      <3>3. u.from \in a .. (b - 1)
        BY <2>1, <3>1, <3>2
      <3> QED BY <3>2, <3>3
    <2> HIDE DEF Within
    <2>4. FactsIn(fact, a, b, 0) = UNION {FactsIn(fact, m, m + 1, 0) : m \in a .. (b - 1)}
      BY <2>1, FactsWhole
    <2> QED BY <2>1, <2>2, <2>3, <2>4
  <1> QED BY <1>3, <1>4 DEF SummariesAdd, answers, answered, Answer

\* A range of /activity, with evidence of its own, counts what its minutes count when each is
\* asked for alone, and no start, stop, complete run or off interval is counted twice.
THEOREM SummariesAddHolds == Spec => []SummariesAdd
  <1>1. ReadInv => SummariesAdd
    BY SummariesAddUp
  <1> QED BY <1>1, ReadHolds, PTL

-----------------------------------------------------------------------------
(* A report looks below minute 0, where nothing was recorded: its facts are *)
(* those of /activity.                                                      *)

LEMMA EvidenceShift ==
  ASSUME ReadInv, NEW m \in Int, NEW f \in Int, f <= 0, NEW g \in Int, g <= 0
  PROVE  /\ 0 <= m => Evidence(m, f) = Evidence(m, g)
         /\ m < 0 => Evidence(m, f) # "recorded" /\ Evidence(m, g) # "recorded"
  <1>1. DOMAIN rows \subseteq Nat
    BY DEF ReadInv, SegmentInv
  <1>2. m < 0 => m \notin DOMAIN rows
    BY <1>1
  <1> QED BY <1>2 DEF Evidence

\* A run with its floor is a run with any other.
LEMMA RunShift ==
  ASSUME ReadInv, NEW f \in Int, f <= 0, NEW g \in Int, g <= 0, NEW family, NEW state,
         NEW x \in Int, NEW z \in Int, IsRun(x, z, state, family, f, f, closedUntil)
  PROVE  /\ IsRun(x, z, state, family, g, g, closedUntil)
         /\ LET r == RunSpan(x, z, state, family, f, f, closedUntil)
                q == RunSpan(x, z, state, family, g, g, closedUntil)
            IN  r.after = q.after /\ (r.before = "observed" <=> q.before = "observed")
  <1>1. f <= x /\ x < z /\ z <= closedUntil /\ closedUntil \in Int
    BY DEF IsRun, ReadInv, SegmentInv
  <1>2. \A m \in Int : /\ 0 <= m => Evidence(m, f) = Evidence(m, g)
                       /\ m < 0 => Evidence(m, f) # "recorded" /\ Evidence(m, g) # "recorded"
    BY EvidenceShift
  <1>3. \A m \in Int : IsIn(m, family, state, f) <=> IsIn(m, family, state, g)
    <2>1. \A m \in Int : IsIn(m, family, state, f) => Evidence(m, f) = "recorded"
      BY DEF IsIn
    <2>2. \A m \in Int : IsIn(m, family, state, g) => Evidence(m, g) = "recorded"
      BY DEF IsIn
    <2>3. \A m \in Int : 0 <= m => (IsIn(m, family, state, f) <=> IsIn(m, family, state, g))
      BY <1>2 DEF IsIn
    <2> QED BY <1>2, <2>1, <2>2, <2>3
  <1>4. 0 <= x
    <2>1. x \in x .. (z - 1)
      BY <1>1
    <2>2. IsIn(x, family, state, f)
      BY <2>1 DEF IsRun
    <2>3. Evidence(x, f) = "recorded"
      BY <2>2 DEF IsIn
    <2> QED BY <1>2, <2>3
  <1>5. IsRun(x, z, state, family, g, g, closedUntil)
    <2>1. \A m \in x .. (z - 1) : IsIn(m, family, state, g)
      BY <1>1, <1>3 DEF IsRun
    <2>2. x = g \/ ~IsIn(x - 1, family, state, g)
      <3>1. CASE x = f
        <4>1. x - 1 < 0 /\ x - 1 \in Int
          BY <1>4, <3>1
        <4>2. Evidence(x - 1, g) # "recorded"
          BY <1>2, <4>1
        <4> QED BY <4>2 DEF IsIn
      <3>2. CASE x # f
        <4>1. ~IsIn(x - 1, family, state, f)
          BY <3>2 DEF IsRun
        <4> QED BY <1>3, <4>1
      <3> QED BY <3>1, <3>2
    <2>3. z = closedUntil \/ ~IsIn(z, family, state, g)
      BY <1>3 DEF IsRun
    <2> QED BY <1>1, <1>4, <2>1, <2>2, <2>3 DEF IsRun
  <1>6. EdgeAt(z, family, f) = EdgeAt(z, family, g)
    <2>1. Evidence(z, f) = Evidence(z, g)
      BY <1>1, <1>2, <1>4
    <2> QED BY <2>1 DEF EdgeAt
  <1> DEFINE before(k) == IF k < x THEN EdgeAt(x - 1, family, k) ELSE "outside"
  <1>7. before(f) = "observed" <=> before(g) = "observed"
    <2>1. CASE x = 0
      <3>1. Evidence(-1, f) # "recorded" /\ Evidence(-1, g) # "recorded"
        BY <1>2
      <3>2. Evidence(-1, f) # "observed" /\ Evidence(-1, g) # "observed"
        BY DEF Evidence
      <3>3. EdgeAt(x - 1, family, f) # "observed" /\ EdgeAt(x - 1, family, g) # "observed"
        BY <2>1, <3>1, <3>2 DEF EdgeAt
      <3> QED BY <3>3
    <2>2. CASE x # 0
      <3>1. 0 <= x - 1 /\ f < x /\ g < x
        BY <1>4, <2>2
      <3>2. Evidence(x - 1, f) = Evidence(x - 1, g)
        BY <1>2, <3>1
      <3>3. EdgeAt(x - 1, family, f) = EdgeAt(x - 1, family, g)
        BY <3>2 DEF EdgeAt
      <3> QED BY <3>1, <3>3
    <2> QED BY <2>1, <2>2
  <1> QED BY <1>5, <1>6, <1>7 DEF RunSpan

LEMMA SpansShift ==
  ASSUME ReadInv, NEW f \in Int, f <= 0, NEW g \in Int, g <= 0, NEW family \in Families,
         NEW r \in TrueSpans(family, f)
  PROVE  \E q \in TrueSpans(family, g) :
            /\ q.start = r.start /\ q.end = r.end /\ q.after = r.after
            /\ q.before = "observed" <=> r.before = "observed"
  <1>1. r \in SpansOfRuns(family, f, f, closedUntil)
    BY TrueSpansAreRuns
  <1>2. PICK x \in Int, z \in Int, state \in Wanted(family) :
           IsRun(x, z, state, family, f, f, closedUntil) /\ r = RunSpan(x, z, state, family, f, f, closedUntil)
    BY <1>1, SpansOfRunsIs
  <1> DEFINE q == RunSpan(x, z, state, family, g, g, closedUntil)
  <1>3. IsRun(x, z, state, family, g, g, closedUntil)
    BY <1>2, RunShift
  <1>4. q \in TrueSpans(family, g)
    BY <1>3, SpansOfRunsIs, TrueSpansAreRuns
  <1>5. r.after = q.after /\ (r.before = "observed" <=> q.before = "observed")
    BY <1>2, RunShift
  <1>6. q.start = r.start /\ q.end = r.end
    BY <1>2 DEF RunSpan
  <1> QED BY <1>4, <1>5, <1>6

LEMMA FactsCarry ==
  ASSUME ReadInv, NEW f \in Int, f <= 0, NEW g \in Int, g <= 0, NEW a \in Int, NEW b \in Int,
         NEW fact \in FactNames, NEW x, x \in FactsIn(fact, a, b, f)
  PROVE  x \in FactsIn(fact, a, b, g)
  <1>0. "run" \in Families /\ "off" \in Families
    BY DEF Families
  <1>1. CASE fact = "minutes"
    BY <1>1, FactsInIs
  <1>2. CASE fact = "starts"
    <2>1. PICK r \in TrueSpans("run", f) :
             r.before = "observed" /\ r.start \in Int /\ a <= r.start /\ r.start < b /\ x = <<r.start, r.end>>
      BY <1>2, FactsInIs
    <2>2. PICK q \in TrueSpans("run", g) :
             /\ q.start = r.start /\ q.end = r.end /\ q.after = r.after
             /\ q.before = "observed" <=> r.before = "observed"
      BY <1>0, SpansShift
    <2> QED BY <1>2, <2>1, <2>2, FactsInIs
  <1>3. CASE fact = "stops"
    <2>1. PICK r \in TrueSpans("run", f) :
             r.after = "observed" /\ r.end - 1 \in Int /\ a <= r.end - 1 /\ r.end - 1 < b /\ x = <<r.start, r.end>>
      BY <1>3, FactsInIs
    <2>2. PICK q \in TrueSpans("run", g) :
             /\ q.start = r.start /\ q.end = r.end /\ q.after = r.after
             /\ q.before = "observed" <=> r.before = "observed"
      BY <1>0, SpansShift
    <2> QED BY <1>3, <2>1, <2>2, FactsInIs
  <1>4. CASE fact = "complete"
    <2>1. PICK r \in TrueSpans("run", f) :
             Exact(r) /\ r.start \in Int /\ a <= r.start /\ r.start < b /\ x = <<r.start, r.end>>
      BY <1>4, FactsInIs
    <2>2. PICK q \in TrueSpans("run", g) :
             /\ q.start = r.start /\ q.end = r.end /\ q.after = r.after
             /\ q.before = "observed" <=> r.before = "observed"
      BY <1>0, SpansShift
    <2>3. Exact(q)
      BY <2>1, <2>2 DEF Exact
    <2> QED BY <1>4, <2>1, <2>2, <2>3, FactsInIs
  <1>5. CASE fact = "exact_off"
    <2>1. PICK r \in TrueSpans("off", f) :
             Exact(r) /\ r.start \in Int /\ a <= r.start /\ r.start < b /\ x = <<r.start, r.end>>
      BY <1>5, FactsInIs
    <2>2. PICK q \in TrueSpans("off", g) :
             /\ q.start = r.start /\ q.end = r.end /\ q.after = r.after
             /\ q.before = "observed" <=> r.before = "observed"
      BY <1>0, SpansShift
    <2>3. Exact(q)
      BY <2>1, <2>2 DEF Exact
    <2> QED BY <1>5, <2>1, <2>2, <2>3, FactsInIs
  <1> QED BY <1>1, <1>2, <1>3, <1>4, <1>5 DEF FactNames

LEMMA FactsShift ==
  ASSUME ReadInv, NEW f \in Int, f <= 0, NEW g \in Int, g <= 0, NEW a \in Int, NEW b \in Int, NEW fact \in FactNames
  PROVE  FactsIn(fact, a, b, f) = FactsIn(fact, a, b, g)
  <1>1. \A x : x \in FactsIn(fact, a, b, f) => x \in FactsIn(fact, a, b, g)
    BY FactsCarry
  <1>2. \A x : x \in FactsIn(fact, a, b, g) => x \in FactsIn(fact, a, b, f)
    BY FactsCarry
  <1> QED BY <1>1, <1>2

-----------------------------------------------------------------------------
(* A period of whole hours and its settled part.                           *)

\* A report of hours, with a frontier whose hour still has its minutes.
Period(start, end) ==
    /\ start \in Nat /\ end \in Nat /\ Whole(start) /\ Whole(end)
    /\ start < EffectiveTo(start, end) /\ HourOf(closedUntil) \notin purged

LEMMA PeriodHolds ==
  ASSUME ReadInv, NEW start, NEW end, Period(start, end)
  PROVE  LET limit == EffectiveTo(start, end)
         IN  /\ limit \in Int /\ limit <= end /\ limit <= closedUntil /\ start < limit
             /\ limit = end \/ limit = closedUntil
             /\ Query(start, limit, NoFloor, RawEdge(TRUE))
  <1> DEFINE limit == EffectiveTo(start, end)
  <1>1. closedUntil \in Int /\ start \in Int /\ end \in Int /\ start < limit
    BY DEF ReadInv, SegmentInv, Period
  <1>2. limit \in Int /\ limit <= end /\ limit <= closedUntil /\ (limit = end \/ limit = closedUntil)
    BY <1>1 DEF EffectiveTo, Lesser, Greater
  <1>3. NoFloor \in Int /\ NoFloor <= 0 /\ Whole(NoFloor)
    <2>1. MaxMinute + 1 \in Nat /\ -(MaxMinute + 1) \in Int /\ MinutesPerHour \in Nat
      BY ActivityReadAssumption, HourLength
    <2> DEFINE n == MaxMinute + 1
    <2>2. NoFloor = (-n) * MinutesPerHour
      <3> HIDE DEF n
      <3>1. n \in Nat
        BY <2>1 DEF n
      <3>2. -MinutesPerHour * n = (-n) * MinutesPerHour
        BY <2>1, <3>1
      <3> QED BY <3>2 DEF NoFloor, n
    <2>3. n * MinutesPerHour >= 0 /\ (-n) * MinutesPerHour = -(n * MinutesPerHour) /\ (-n) * MinutesPerHour \in Int
      <3> HIDE DEF n
      <3>1. n \in Nat
        BY <2>1 DEF n
      <3> QED BY <2>1, <3>1
    <2> DEFINE k == -n
    <2>4. k \in Int /\ NoFloor = k * MinutesPerHour /\ NoFloor \in Int /\ NoFloor <= 0
      <3>1. n \in Nat
        BY <2>1
      <3> DEFINE y == n * MinutesPerHour
      <3>2. y \in Int
        BY <2>1, <3>1
      <3>3. NoFloor = -y /\ y >= 0
        BY <2>2, <2>3
      <3>4. NoFloor \in Int /\ NoFloor <= 0
        <4> HIDE DEF y
        <4> QED BY <3>2, <3>3
      <3>5. k \in Int
        <4> HIDE DEF n
        <4> QED BY <3>1 DEF k
      <3> QED BY <2>2, <3>4, <3>5
    <2> HIDE DEF k
    <2>5. Whole(NoFloor)
      BY <2>4 DEF Whole
    <2> QED BY <2>4, <2>5
  <1>4. EdgeUsable(RawEdge(TRUE))
    BY DEF EdgeUsable, RawEdge, NoEdge, Period
  <1> QED BY <1>1, <1>2, <1>3, <1>4 DEF Query

\* The bucket of a minute is its hour.
LEMMA BucketIs ==
  ASSUME NEW start, NEW end, start \in Int, end \in Int, Whole(start), Whole(end),
         NEW t \in Int, start <= t, t < end
  PROVE  LET h == HourOf(t)
         IN  BucketOf(HourEdges(start, end), t) = <<h * MinutesPerHour, (h + 1) * MinutesPerHour>>
  <1> DEFINE h == HourOf(t)
             e == <<h * MinutesPerHour, (h + 1) * MinutesPerHour>>
             E == HourEdges(start, end)
             Fits(k) == k[1] <= t /\ \A j \in E : j[1] <= t => j[1] <= k[1]
  <1>1. h \in Int /\ h * MinutesPerHour = FloorHour(t) /\ FloorHour(t) \in Int /\ FloorHour(t) <= t
    BY HourHolds
  <1>2. start <= FloorHour(t)
    BY WholeHours
  <1>3. h \in HoursIn(start, end)
    BY <1>1, <1>2, HoursInIs
  <1>4. e \in E
    BY <1>3 DEF HourEdges
  <1>5. ASSUME NEW k \in E
        PROVE  \E j \in HoursIn(start, end) :
                  /\ k = <<j * MinutesPerHour, (j + 1) * MinutesPerHour>>
                  /\ j \in Int /\ k[1] = j * MinutesPerHour /\ k[1] \in Int
                  /\ k[1] <= t => k[1] <= FloorHour(t)
    <2>1. PICK j \in HoursIn(start, end) : k = <<j * MinutesPerHour, (j + 1) * MinutesPerHour>>
      BY DEF HourEdges
    <2>2. j \in Int
      BY HoursInIs
    <2>3. j * MinutesPerHour \in Int /\ Whole(j * MinutesPerHour)
      BY <2>2, HoursApart DEF Whole
    <2>4. j * MinutesPerHour <= t => j * MinutesPerHour <= FloorHour(t)
      BY <2>3, WholeHours
    <2> QED BY <2>1, <2>2, <2>3, <2>4
  <1> HIDE DEF E
  <1>6. e[1] = FloorHour(t)
    BY <1>1
  <1>7. Fits(e)
    <2>1. \A j \in E : j[1] <= t => j[1] <= FloorHour(t)
      BY <1>5
    <2> HIDE DEF e
    <2> QED BY <1>1, <1>6, <2>1
  <1>8. ASSUME NEW k \in E, Fits(k)
        PROVE  k = e
    <2>1. PICK j \in HoursIn(start, end) :
                  /\ k = <<j * MinutesPerHour, (j + 1) * MinutesPerHour>>
                  /\ j \in Int /\ k[1] = j * MinutesPerHour /\ k[1] \in Int
                  /\ k[1] <= t => k[1] <= FloorHour(t)
      BY <1>5
    <2>2. e[1] <= k[1] /\ k[1] <= t
      <3> HIDE DEF e
      <3> QED BY <1>1, <1>4, <1>6, <1>8
    <2>3. j * MinutesPerHour = FloorHour(t)
      <3>1. k[1] = FloorHour(t)
        BY <1>1, <1>6, <2>1, <2>2
      <3> QED BY <2>1, <3>1
    <2>4. HourOf(t) = j
      BY <2>1, <2>3, HourIs, HourHolds
    <2> QED BY <2>1, <2>4
  <1>9. (CHOOSE k \in E : Fits(k)) = e
    <2> HIDE DEF Fits, e
    <2> QED BY <1>4, <1>7, <1>8
  <1>10. BucketOf(E, t) = CHOOSE k \in E : Fits(k)
    BY DEF BucketOf
  <1> QED BY <1>9, <1>10 DEF E

-----------------------------------------------------------------------------
(* A report never fails on its own facts.                                  *)

\* A span of all there is, looked at from below every recorded minute, has both its edges.
LEMMA NoneOutside ==
  ASSUME ReadInv, NEW floor \in Int, floor < 0, NEW family \in Families, NEW r \in TrueSpans(family, floor)
  PROVE  r.before # "outside" /\ r.after # "outside"
  <1>1. closedUntil \in Int /\ DOMAIN rows \subseteq Nat
    BY DEF ReadInv, SegmentInv
  <1>2. r \in SpansOfRuns(family, floor, floor, closedUntil)
    BY TrueSpansAreRuns
  <1>3. PICK x \in Int, z \in Int, state \in Wanted(family) :
           /\ IsRun(x, z, state, family, floor, floor, closedUntil)
           /\ r = RunSpan(x, z, state, family, floor, floor, closedUntil)
    BY <1>2, SpansOfRunsIs
  <1>4. floor <= x /\ x < z /\ z <= closedUntil
    BY <1>3 DEF IsRun
  <1>5. 0 <= x
    <2>1. x \in x .. (z - 1)
      BY <1>4
    <2>2. IsIn(x, family, state, floor)
      BY <1>3, <2>1 DEF IsRun
    <2>3. Evidence(x, floor) = "recorded"
      BY <2>2 DEF IsIn
    <2> QED BY <2>3, EvidenceShift
  <1>6. \A m \in Int : floor <= m => EdgeAt(m, family, floor) # "outside"
    <2>1. \A m \in Int : floor <= m => Evidence(m, floor) # "outside"
      BY DEF Evidence
    <2> QED BY <2>1 DEF EdgeAt
  <1>7. floor < x /\ floor <= x - 1 /\ floor <= z
    BY <1>4, <1>5
  <1>8. r.before = EdgeAt(x - 1, family, floor)
    BY <1>3, <1>7 DEF RunSpan
  <1>9. r.after = IF z < closedUntil THEN EdgeAt(z, family, floor)
                  ELSE IF z >= closedUntil THEN "open" ELSE "outside"
    BY <1>3 DEF RunSpan
  <1> QED BY <1>1, <1>6, <1>7, <1>8, <1>9

\* The segments of the report's timeline and the hours of its period.
LEMMA SegmentInHour ==
  ASSUME ReadInv, NEW start, NEW end, Period(start, end), NEW floor, NEW i,
         i.start \in Int, i.end \in Int, i.start < i.end, i.kind = "segment", Tells(i, floor),
         i.end <= FloorHour(i.start) + MinutesPerHour
  PROVE  /\ i.end <= closedUntil
         /\ \A x : Whole(x) => /\ i.start < x => i.end <= x
                               /\ x <= i.start => i.end <= x + MinutesPerHour \/ x + MinutesPerHour <= i.start
  <1>1. closedUntil \in Int
    BY DEF ReadInv, SegmentInv
  <1>2. i.end <= closedUntil
    <2>1. i.end - 1 \in i.start .. (i.end - 1)
      OBVIOUS
    <2>2. Evidence(i.end - 1, floor) = "recorded"
      BY <2>1 DEF Tells
    <2>3. ~(i.end - 1 >= closedUntil)
      BY <2>2 DEF Evidence
    <2> QED BY <1>1, <2>3
  <1>3. ASSUME NEW x, Whole(x)
        PROVE  /\ i.start < x => i.end <= x
               /\ x <= i.start => i.end <= x + MinutesPerHour \/ x + MinutesPerHour <= i.start
    <2>1. /\ x \in Int
          /\ x <= i.start => x <= FloorHour(i.start)
          /\ i.start < x => FloorHour(i.start) + MinutesPerHour <= x
      BY <1>3, WholeHours
    <2>2. /\ FloorHour(i.start) \in Int /\ FloorHour(i.start) <= i.start
      BY HourHolds
    <2>3. 1 \in Int /\ Whole(x + 1 * MinutesPerHour) /\ MinutesPerHour \in Int
      <3>1. Whole(x + 1 * MinutesPerHour)
        BY <1>3, WholeFacts
      <3> QED BY <3>1, HourLength
    <2>4. Whole(x + MinutesPerHour)
      BY <2>3
    <2>5. i.start < x + MinutesPerHour => FloorHour(i.start) + MinutesPerHour <= x + MinutesPerHour
      BY <2>4, WholeHours
    <2> QED BY <2>1, <2>2, <2>3, <2>5
  <1> QED BY <1>2, <1>3

LEMMA ReportNeverRaises ==
  ASSUME ReadInv, NEW start, NEW end, Period(start, end)
  PROVE  ~ReportRaises(ReportTimeline(start, end), HourEdges(start, end), start, EffectiveTo(start, end))
  <1> DEFINE limit == EffectiveTo(start, end)
             edge == RawEdge(TRUE)
             tl == ReportTimeline(start, end)
             E == HourEdges(start, end)
  <1>0. /\ start \in Int /\ 0 <= start /\ end \in Int /\ Whole(start) /\ Whole(end)
        /\ closedUntil \in Int
    BY DEF Period, ReadInv, SegmentInv
  <1>1. /\ limit \in Int /\ limit <= end /\ limit <= closedUntil /\ start < limit
        /\ limit = end \/ limit = closedUntil
        /\ Query(start, limit, NoFloor, edge)
    BY PeriodHolds
  <1>2. NoFloor \in Int /\ NoFloor < 0
    <2>1. MaxMinute + 1 \in Nat /\ MaxMinute + 1 >= 1 /\ MinutesPerHour \in Nat /\ MinutesPerHour >= 1
      BY ActivityReadAssumption, HourLength
    <2> DEFINE n == MaxMinute + 1
    <2> HIDE DEF n
    <2>2. n \in Nat /\ n >= 1
      BY <2>1 DEF n
    <2>3. n * MinutesPerHour >= 1 /\ n * MinutesPerHour \in Int
      <3>1. n \in Int
        BY <2>2
      <3>2. Whole(0)
        <4>1. 0 \in Int /\ 0 = 0 * MinutesPerHour
          BY HourLength
        <4> QED BY <4>1 DEF Whole
      <3> QED BY <2>2, <3>1, <3>2, WholeFacts
    <2>4. NoFloor = -(n * MinutesPerHour)
      BY <2>1, <2>2 DEF NoFloor, n
    <2> DEFINE y == n * MinutesPerHour
    <2> HIDE DEF y
    <2>5. y >= 1 /\ y \in Int /\ NoFloor = -y
      BY <2>3, <2>4 DEF y
    <2> QED BY <2>5
  <1>3. tl = LoadTimeline(start, limit, NoFloor, edge)
    BY DEF ReportTimeline
  <1>4. PICK hi \in Int :
             /\ Window(tl.start, hi, start, limit, NoFloor)
             /\ tl.end = Greater(hi, limit)
             /\ Told(tl, tl.start, LimitOf(tl.start, hi, limit), NoFloor)
             /\ \A i \in tl.items : i.kind = "segment" =>
                   /\ i \in Piece /\ i.end <= FloorHour(i.start) + MinutesPerHour
                   /\ edge = RawEdge(TRUE) => i.energy
    BY <1>1, <1>3, LoadTold
  <1>5. Intersecting(AllSpans(tl), start, limit) = Intersecting(AllTrueSpans(NoFloor), start, limit)
    BY <1>1, <1>3, LoadAllComplete
  <1> HIDE DEF tl, limit
  <1>6. tl.start <= start /\ limit <= tl.end /\ tl.start \in Int /\ tl.end \in Int
    <2>1. tl.start \in Int /\ tl.start <= Greater(NoFloor, start - 1)
      <3>1. Examined(tl.start, hi, limit, NoFloor)
        BY <1>4 DEF Window
      <3>2. tl.start \in Int
        BY <3>1, LimitHolds
      <3> QED BY <1>4, <3>2 DEF Window
    <2>2. Greater(NoFloor, start - 1) <= start
      BY <1>0, <1>2 DEF Greater
    <2>3. limit <= Greater(hi, limit) /\ Greater(hi, limit) \in Int
      BY <1>1 DEF Greater
    <2>4. Greater(NoFloor, start - 1) \in Int
      BY <1>0, <1>2 DEF Greater
    <2> QED BY <1>0, <1>1, <1>4, <2>1, <2>2, <2>3, <2>4
  <1>7. ASSUME NEW i \in tl.items, i.kind = "segment", i.end > start, i.start < limit
        PROVE  /\ ~(i.start < start) /\ ~(i.end > limit) /\ i.energy
               /\ ~(i.end > BucketOf(E, i.start)[2])
    <2>1. i.start \in Int /\ i.end \in Int /\ i.start < i.end /\ Tells(i, NoFloor)
      BY <1>4 DEF Told, Laid
    <2>2. i.end <= FloorHour(i.start) + MinutesPerHour /\ i.energy
      BY <1>4, <1>7
    <2>3. /\ i.end <= closedUntil
          /\ i.start < start => i.end <= start
          /\ i.start < end => i.end <= end
      BY <1>0, <1>7, <2>1, <2>2, SegmentInHour
    <2>4. start <= i.start /\ i.start < end /\ i.end <= limit
      BY <1>0, <1>1, <1>7, <2>1, <2>3
    <2> DEFINE h == HourOf(i.start)
    <2>5. BucketOf(E, i.start) = <<h * MinutesPerHour, (h + 1) * MinutesPerHour>>
      BY <1>0, <2>1, <2>4, BucketIs
    <2>6. h \in Int /\ FloorHour(i.start) = h * MinutesPerHour /\ (h + 1) * MinutesPerHour = h * MinutesPerHour + MinutesPerHour
      BY <2>1, HourHolds, HoursApart
    <2>7. BucketOf(E, i.start)[2] = FloorHour(i.start) + MinutesPerHour
      BY <2>5, <2>6
    <2>8. FloorHour(i.start) \in Int /\ MinutesPerHour \in Int
      BY <2>1, HourHolds, HourLength
    <2> HIDE DEF h, E
    <2> QED BY <1>0, <1>1, <2>1, <2>2, <2>4, <2>7, <2>8
  <1>8. ASSUME NEW s \in Intersecting(AllSpans(tl), start, limit)
        PROVE  ~("outside" \in {s.before, s.after})
    <2>1. s \in AllTrueSpans(NoFloor)
      BY <1>5, <1>8 DEF Intersecting
    <2>2. PICK family \in Families : s \in TrueSpans(family, NoFloor)
      BY <2>1 DEF AllTrueSpans
    <2> QED BY <1>2, <2>2, NoneOutside
  <1> HIDE DEF E
  <1>9. ~(tl.start > start \/ tl.end < limit)
    BY <1>0, <1>1, <1>6
  <1>10. ~ReportRaises(tl, E, start, limit)
    BY <1>7, <1>8, <1>9 DEF ReportRaises
  <1> QED BY <1>10 DEF tl, E, limit

-----------------------------------------------------------------------------
(* A bucket counts the minutes of its hour that are settled.               *)

Here(edges, bucket, limit, t) ==
    \E e \in edges : e[1] <= t /\ t < e[2] /\ t < limit /\ BucketOf(edges, t) = bucket

LEMMA BucketShape ==
  ASSUME ReadInv, NEW start, NEW end, Period(start, end), NEW e \in HourEdges(start, end)
  PROVE  \E h \in Int : /\ e = <<h * MinutesPerHour, (h + 1) * MinutesPerHour>>
                        /\ e[1] = h * MinutesPerHour /\ e[1] \in Int /\ Whole(e[1])
                        /\ e[2] = e[1] + MinutesPerHour /\ e[2] \in Int
                        /\ start <= e[1] /\ e[1] < end /\ e[2] <= end
  <1>1. start \in Int /\ end \in Int /\ Whole(end)
    BY DEF Period
  <1>2. PICK h \in HoursIn(start, end) : e = <<h * MinutesPerHour, (h + 1) * MinutesPerHour>>
    BY DEF HourEdges
  <1>3. h \in Int /\ start <= h * MinutesPerHour /\ h * MinutesPerHour < end
    BY <1>1, HoursInIs
  <1> DEFINE x == h * MinutesPerHour
  <1>4. x \in Int /\ (h + 1) * MinutesPerHour = x + MinutesPerHour /\ Whole(x) /\ MinutesPerHour \in Int
    BY <1>3, HoursApart, HourLength DEF Whole
  <1>5. PICK k \in Int : end = k * MinutesPerHour
    BY <1>1 DEF Whole
  <1>6. x + MinutesPerHour <= end
    <2>1. h < k
      BY <1>3, <1>5, HoursApart
    <2> QED BY <1>3, <1>5, <2>1, HoursApart
  <1>7. e[1] = x /\ e[2] = x + MinutesPerHour
    BY <1>2, <1>4
  <1> HIDE DEF x
  <1>8. x = h * MinutesPerHour
    BY DEF x
  <1> QED BY <1>2, <1>3, <1>4, <1>6, <1>7, <1>8

LEMMA HereIs ==
  ASSUME ReadInv, NEW start, NEW end, Period(start, end), NEW e \in HourEdges(start, end), NEW t \in Int
  PROVE  Here(HourEdges(start, end), e, EffectiveTo(start, end), t)
            <=> e[1] <= t /\ t < Lesser(e[2], EffectiveTo(start, end))
  <1> DEFINE E == HourEdges(start, end)
             limit == EffectiveTo(start, end)
  <1>1. start \in Int /\ end \in Int /\ Whole(start) /\ Whole(end)
    BY DEF Period
  <1>2. limit \in Int /\ limit <= end
    BY PeriodHolds
  <1>3. PICK h \in Int : /\ e = <<h * MinutesPerHour, (h + 1) * MinutesPerHour>>
                         /\ e[1] = h * MinutesPerHour /\ e[1] \in Int /\ Whole(e[1])
                         /\ e[2] = e[1] + MinutesPerHour /\ e[2] \in Int
                         /\ start <= e[1] /\ e[1] < end /\ e[2] <= end
    BY BucketShape
  <1>4. ASSUME start <= t, t < end
        PROVE  BucketOf(E, t) = e <=> e[1] <= t /\ t < e[2]
    <2> DEFINE k == HourOf(t)
    <2>1. BucketOf(E, t) = <<k * MinutesPerHour, (k + 1) * MinutesPerHour>>
      BY <1>1, <1>4, BucketIs
    <2>2. k \in Int /\ FloorHour(t) = k * MinutesPerHour /\ FloorHour(t) \in Int
          /\ FloorHour(t) <= t /\ t < FloorHour(t) + MinutesPerHour
      BY HourHolds
    <2>3. ASSUME BucketOf(E, t) = e
          PROVE  e[1] <= t /\ t < e[2]
      <3>1. e[1] = FloorHour(t)
        BY <2>1, <2>2, <2>3
      <3> QED BY <1>3, <2>2, <3>1
    <2>4. ASSUME e[1] <= t, t < e[2]
          PROVE  BucketOf(E, t) = e
      <3>1. h * MinutesPerHour <= t /\ t < h * MinutesPerHour + MinutesPerHour
        BY <1>3, <2>4
      <3>2. k = h
        BY <3>1, HourIs
      <3> QED BY <1>3, <2>1, <3>2
    <2> QED BY <2>3, <2>4
  <1>5. ASSUME Here(E, e, limit, t)
        PROVE  e[1] <= t /\ t < Lesser(e[2], limit)
    <2>1. PICK k \in E : k[1] <= t /\ t < k[2] /\ t < limit /\ BucketOf(E, t) = e
      BY <1>5 DEF Here
    <2>2. k[1] \in Int /\ start <= k[1]
      BY <2>1, BucketShape
    <2>3. start <= t /\ t < end
      <3> HIDE DEF limit
      <3> QED BY <1>1, <1>2, <2>1, <2>2
    <2> QED BY <1>4, <2>1, <2>3 DEF Lesser
  <1>6. ASSUME e[1] <= t, t < Lesser(e[2], limit)
        PROVE  Here(E, e, limit, t)
    <2>1. t < e[2] /\ t < limit
      <3> HIDE DEF limit
      <3> QED BY <1>2, <1>3, <1>6 DEF Lesser
    <2>2. start <= t /\ t < end
      BY <1>1, <1>3, <1>6, <2>1
    <2> QED BY <1>4, <1>6, <2>1, <2>2 DEF Here
  <1> QED BY <1>5, <1>6

\* The minutes of a bucket.
LEMMA BucketMinutes ==
  ASSUME ReadInv, NEW start, NEW end, Period(start, end), NEW e \in HourEdges(start, end),
         e[1] < EffectiveTo(start, end), NEW x
  PROVE  LET limit == EffectiveTo(start, end)
             tl == ReportTimeline(start, end)
         IN  x \in BucketFacts(tl, HourEdges(start, end), e, limit).minutes
               <=> x \in FactsIn("minutes", e[1], Lesser(e[2], limit), NoFloor)
  <1> DEFINE limit == EffectiveTo(start, end)
             edge == RawEdge(TRUE)
             tl == ReportTimeline(start, end)
             E == HourEdges(start, end)
             top == Lesser(e[2], limit)
             kept == [tl EXCEPT !.items = {i \in tl.items : Here(E, e, limit, i.start)}]
  <1>0. /\ start \in Int /\ 0 <= start /\ end \in Int /\ Whole(start) /\ Whole(end)
        /\ closedUntil \in Int
    BY DEF Period, ReadInv, SegmentInv
  <1>1. /\ limit \in Int /\ limit <= end /\ limit <= closedUntil /\ start < limit
        /\ limit = end \/ limit = closedUntil
        /\ Query(start, limit, NoFloor, edge)
    BY PeriodHolds
  <1>2. /\ e[1] \in Int /\ Whole(e[1]) /\ e[2] \in Int /\ e[2] = e[1] + MinutesPerHour
        /\ start <= e[1] /\ e[1] < end /\ e[2] <= end
    BY BucketShape
  <1>3. tl = LoadTimeline(start, limit, NoFloor, edge)
    BY DEF ReportTimeline
  <1>4. PICK hi \in Int :
             /\ Window(tl.start, hi, start, limit, NoFloor)
             /\ tl.end = Greater(hi, limit)
             /\ Told(tl, tl.start, LimitOf(tl.start, hi, limit), NoFloor)
             /\ \A i \in tl.items : i.kind = "segment" =>
                   /\ i \in Piece /\ i.end <= FloorHour(i.start) + MinutesPerHour
                   /\ edge = RawEdge(TRUE) => i.energy
    BY <1>1, <1>3, LoadTold
  <1>5. tl.start \in Int /\ tl.end \in Int /\ limit <= tl.end /\ tl.start < tl.end
    <2>1. Examined(tl.start, hi, limit, NoFloor) /\ tl.start <= Greater(NoFloor, start - 1)
      BY <1>4 DEF Window
    <2>2. tl.start \in Int
      BY <2>1, LimitHolds
    <2>3. limit <= Greater(hi, limit) /\ Greater(hi, limit) \in Int
      BY <1>1 DEF Greater
    <2>4. Greater(NoFloor, start - 1) <= start /\ Greater(NoFloor, start - 1) \in Int
      <3>1. NoFloor \in Int /\ NoFloor <= 0
        BY <1>1 DEF Query
      <3> QED BY <1>0, <3>1 DEF Greater
    <2> HIDE DEF limit, tl
    <2> QED BY <1>0, <1>1, <1>4, <2>1, <2>2, <2>3, <2>4
  <1>6. kept.items = {i \in tl.items : Here(E, e, limit, i.start)}
    <2>1. "items" \in DOMAIN tl
      BY <1>3 DEF LoadTimeline, EvidenceTimeline, Timeline
    <2> HIDE DEF tl
    <2> QED BY <2>1
  <1>7. BucketFacts(tl, E, e, limit).minutes = MinutesOf(kept, tl.start, tl.end)
    BY DEF BucketFacts, Here
  <1>8. \A t \in Int : Here(E, e, limit, t) <=> e[1] <= t /\ t < top
    BY HereIs
  <1>9. top \in Int /\ top <= e[2] /\ top <= limit /\ (top = e[2] \/ top = limit)
    BY <1>1, <1>2 DEF Lesser
  <1> HIDE DEF tl, kept, limit, E, top
  <1>10. x \in MinutesOf(kept, tl.start, tl.end) <=>
            \E i \in kept.items, m \in Int :
               i.kind = "segment" /\ i.start <= m /\ m < i.end /\ tl.start <= m /\ m < tl.end /\ x = MinuteFact(m)
    BY <1>4, <1>5, <1>6, MinutesOfIs
  <1>11. ASSUME NEW i \in tl.items, i.kind = "segment"
         PROVE  /\ i.start \in Int /\ i.end \in Int /\ i.start < i.end /\ Tells(i, NoFloor)
                /\ i.end <= closedUntil
                /\ i.start < e[1] => i.end <= e[1]
                /\ e[1] <= i.start => i.end <= e[2] \/ e[2] <= i.start
    <2>1. i.start \in Int /\ i.end \in Int /\ i.start < i.end /\ Tells(i, NoFloor)
      BY <1>4 DEF Told, Laid
    <2>2. i.end <= FloorHour(i.start) + MinutesPerHour
      BY <1>4, <1>11
    <2>3. /\ i.end <= closedUntil
          /\ i.start < e[1] => i.end <= e[1]
          /\ e[1] <= i.start => i.end <= e[1] + MinutesPerHour \/ e[1] + MinutesPerHour <= i.start
      BY <1>2, <1>11, <2>1, <2>2, SegmentInHour
    <2> QED BY <1>2, <2>1, <2>3
  <1>12. ASSUME x \in MinutesOf(kept, tl.start, tl.end)
         PROVE  x \in FactsIn("minutes", e[1], top, NoFloor)
    <2>1. PICK i \in kept.items, m \in Int :
               i.kind = "segment" /\ i.start <= m /\ m < i.end /\ tl.start <= m /\ m < tl.end /\ x = MinuteFact(m)
      BY <1>10, <1>12
    <2>2. i \in tl.items /\ Here(E, e, limit, i.start)
      BY <1>6
    <2>3. /\ i.start \in Int /\ i.end \in Int /\ i.start < i.end /\ Tells(i, NoFloor)
          /\ i.end <= closedUntil
          /\ i.start < e[1] => i.end <= e[1]
          /\ e[1] <= i.start => i.end <= e[2] \/ e[2] <= i.start
      BY <1>11, <2>1, <2>2
    <2>4. e[1] <= i.start /\ i.start < top
      BY <1>8, <2>2, <2>3
    <2>5. i.end <= e[2]
      BY <1>2, <1>9, <2>3, <2>4
    <2>6. e[1] <= m /\ m < top /\ m < closedUntil
      BY <1>0, <1>1, <1>2, <1>9, <2>1, <2>3, <2>4, <2>5
    <2>7. m \in DOMAIN rows
      <3>1. m \in i.start .. (i.end - 1)
        BY <2>1, <2>3
      <3> QED BY <2>1, <2>3, <3>1 DEF Tells
    <2> QED BY <1>2, <1>9, <2>1, <2>6, <2>7, FactsInIs
  <1>13. ASSUME x \in FactsIn("minutes", e[1], top, NoFloor)
         PROVE  x \in MinutesOf(kept, tl.start, tl.end)
    <2>1. PICK m \in DOMAIN rows : m \in Int /\ e[1] <= m /\ m < top /\ m < closedUntil /\ x = MinuteFact(m)
      BY <1>2, <1>9, <1>13, FactsInIs
    <2>2. m \in Nat
      BY DEF ReadInv, SegmentInv
    <2>3. start <= m /\ m < limit
      BY <1>0, <1>1, <1>2, <1>9, <2>1
    <2> DEFINE lo == tl.start
               stop == LimitOf(lo, hi, limit)
    <2> HIDE DEF lo, stop
    <2>4. Window(lo, hi, start, limit, NoFloor) /\ Told(tl, lo, stop, NoFloor)
      BY <1>4 DEF lo, stop
    <2>5. lo <= m /\ m < stop
      BY <2>1, <2>2, <2>3, <2>4, WindowHolds DEF stop
    <2>6. PICK i \in tl.items : i.start <= m /\ m < i.end
      BY <2>1, <2>4, <2>5 DEF Told, Laid
    <2>7. Evidence(m, NoFloor) = "recorded"
      <3>1. NoFloor \in Int /\ NoFloor <= m
        BY <1>1, <2>2 DEF Query
      <3> QED BY <2>1, <3>1, KnownEvidence
    <2>8. i.kind = "segment"
      <3>1. "run" \in Families
        BY DEF Families
      <3> QED BY <2>1, <2>4, <2>6, <2>7, <3>1, ItemTells
    <2>9. /\ i.start \in Int /\ i.end \in Int
          /\ i.start < e[1] => i.end <= e[1]
      BY <1>11, <2>8
    <2>10. e[1] <= i.start /\ i.start < top
      BY <1>2, <1>9, <2>1, <2>6, <2>9
    <2>11. i \in kept.items
      BY <1>6, <1>8, <2>9, <2>10
    <2>12. tl.start <= m /\ m < tl.end
      BY <1>1, <1>5, <2>1, <2>3, <2>5 DEF lo
    <2> QED BY <1>10, <2>1, <2>6, <2>8, <2>11, <2>12
  <1>14. x \in BucketFacts(tl, E, e, limit).minutes <=> x \in FactsIn("minutes", e[1], top, NoFloor)
    BY <1>7, <1>12, <1>13
  <1> QED BY <1>14 DEF tl, E, limit, top

-----------------------------------------------------------------------------
(* A bucket counts what /activity says of its settled part.                *)

LEMMA LoadSpanShape ==
  ASSUME ReadInv, NEW a, NEW b, NEW floor, NEW edge, Query(a, b, floor, edge), NEW family \in Families,
         NEW r \in Spans(LoadTimeline(a, b, floor, edge), family)
  PROVE  r.start \in Int /\ r.end \in Int /\ r.start < r.end
  <1> DEFINE w == Widened(a, b, floor, edge)
  <1>1. Window(w.lo, w.hi, a, b, floor)
    BY WidenedDecides
  <1>2. LoadTimeline(a, b, floor, edge) = EvidenceTimeline(w.lo, w.hi, b, edge)
    BY DEF LoadTimeline
  <1> HIDE DEF w
  <1>3. Examined(w.lo, w.hi, b, floor) /\ EdgeUsable(edge)
    BY <1>1 DEF Window, Query
  <1>4. w.lo \in Int
    BY <1>3, LimitHolds
  <1>5. r \in SpansOfRuns(family, floor, w.lo, LimitOf(w.lo, w.hi, b))
    BY <1>2, <1>3, QuerySpans
  <1> QED BY <1>4, <1>5, SpanShape

LEMMA BucketCounts ==
  ASSUME ReadInv, NEW start, NEW end, Period(start, end), NEW e \in HourEdges(start, end),
         e[1] < EffectiveTo(start, end)
  PROVE  LET limit == EffectiveTo(start, end)
         IN  Counts(BucketFacts(ReportTimeline(start, end), HourEdges(start, end), e, limit),
                    e[1], Lesser(e[2], limit), NoFloor)
  <1> DEFINE limit == EffectiveTo(start, end)
             edge == RawEdge(TRUE)
             tl == ReportTimeline(start, end)
             E == HourEdges(start, end)
             top == Lesser(e[2], limit)
             s == BucketFacts(tl, E, e, limit)
             R == Spans(tl, "run")
             O == Spans(tl, "off")
             TR == TrueSpans("run", NoFloor)
             TO == TrueSpans("off", NoFloor)
  <1>1. limit \in Int /\ Query(start, limit, NoFloor, edge)
    BY PeriodHolds
  <1>2. e[1] \in Int /\ e[2] \in Int /\ start <= e[1] /\ start \in Int
    BY BucketShape DEF Period
  <1>3. top \in Int /\ top <= limit
    BY <1>1, <1>2 DEF Lesser
  <1>4. tl = LoadTimeline(start, limit, NoFloor, edge)
    BY DEF ReportTimeline
  <1>5. s.minutes = FactsIn("minutes", e[1], top, NoFloor)
    <2>1. ASSUME NEW x
          PROVE  x \in s.minutes <=> x \in FactsIn("minutes", e[1], top, NoFloor)
      BY BucketMinutes
    <2> HIDE DEF s, top
    <2> QED BY <2>1
  <1>6. /\ s.starts = Places({r \in R : Here(E, e, limit, r.start) /\ r.before = "observed"})
        /\ s.stops = Places({r \in R : Here(E, e, limit, r.end - 1) /\ r.after = "observed"})
        /\ s.complete = Places({r \in R : Here(E, e, limit, r.start) /\ Exact(r)})
        /\ s.exact_off = Places({o \in O : Here(E, e, limit, o.start) /\ Exact(o)})
    BY DEF BucketFacts, Here
  <1>7. \A t \in Int : Here(E, e, limit, t) <=> e[1] <= t /\ t < top
    BY HereIs
  <1>8. /\ \A r : /\ r \in R /\ start <= r.start /\ r.start < limit <=> r \in TR /\ start <= r.start /\ r.start < limit
                  /\ r \in R /\ start <= r.end - 1 /\ r.end - 1 < limit
                       <=> r \in TR /\ start <= r.end - 1 /\ r.end - 1 < limit
                  /\ r \in TR => r.start \in Int /\ r.end \in Int
                  /\ r \in R => r.start \in Int /\ r.end \in Int
        /\ \A r : /\ r \in O /\ start <= r.start /\ r.start < limit <=> r \in TO /\ start <= r.start /\ r.start < limit
                  /\ r \in TO => r.start \in Int /\ r.end \in Int
                  /\ r \in O => r.start \in Int /\ r.end \in Int
    <2>1. "run" \in Families /\ "off" \in Families
      BY DEF Families
    <2>2. /\ \A r : r \in R => r.start \in Int /\ r.end \in Int
          /\ \A r : r \in O => r.start \in Int /\ r.end \in Int
      BY <1>1, <1>4, <2>1, LoadSpanShape
    <2> HIDE DEF limit
    <2> QED BY <1>1, <1>4, <2>1, <2>2, QueryRuns
  <1> HIDE DEF s, tl, E, limit, top, R, O, TR, TO
  <1>9. /\ \A r : r \in R /\ Here(E, e, limit, r.start)
                    <=> r \in TR /\ r.start \in Int /\ e[1] <= r.start /\ r.start < top
        /\ \A r : r \in R /\ Here(E, e, limit, r.end - 1)
                    <=> r \in TR /\ r.end - 1 \in Int /\ e[1] <= r.end - 1 /\ r.end - 1 < top
        /\ \A r : r \in O /\ Here(E, e, limit, r.start)
                    <=> r \in TO /\ r.start \in Int /\ e[1] <= r.start /\ r.start < top
    <2>1. \A t \in Int : e[1] <= t /\ t < top => start <= t /\ t < limit
      BY <1>1, <1>2, <1>3
    <2>2. ASSUME NEW r
          PROVE  /\ r \in R /\ Here(E, e, limit, r.start)
                      <=> r \in TR /\ r.start \in Int /\ e[1] <= r.start /\ r.start < top
                 /\ r \in R /\ Here(E, e, limit, r.end - 1)
                      <=> r \in TR /\ r.end - 1 \in Int /\ e[1] <= r.end - 1 /\ r.end - 1 < top
      <3>1. r \in R \/ r \in TR => r.start \in Int /\ r.end \in Int /\ r.end - 1 \in Int
        BY <1>8
      <3> QED BY <1>7, <1>8, <2>1, <3>1
    <2>3. ASSUME NEW r
          PROVE  r \in O /\ Here(E, e, limit, r.start)
                    <=> r \in TO /\ r.start \in Int /\ e[1] <= r.start /\ r.start < top
      BY <1>7, <1>8, <2>1
    <2> QED BY <2>2, <2>3
  <1>10. ASSUME NEW x
         PROVE  x \in s.starts <=> x \in FactsIn("starts", e[1], top, NoFloor)
    <2>1. x \in s.starts <=> \E r \in TR : /\ r.before = "observed" /\ r.start \in Int
                                           /\ e[1] <= r.start /\ r.start < top /\ x = <<r.start, r.end>>
      BY <1>6, <1>9 DEF Places
    <2> QED BY <1>2, <1>3, <2>1, FactsInIs DEF TR
  <1>11. ASSUME NEW x
         PROVE  x \in s.stops <=> x \in FactsIn("stops", e[1], top, NoFloor)
    <2>1. x \in s.stops <=> \E r \in TR : /\ r.after = "observed" /\ r.end - 1 \in Int
                                          /\ e[1] <= r.end - 1 /\ r.end - 1 < top /\ x = <<r.start, r.end>>
      BY <1>6, <1>9 DEF Places
    <2> QED BY <1>2, <1>3, <2>1, FactsInIs DEF TR
  <1>12. ASSUME NEW x
         PROVE  x \in s.complete <=> x \in FactsIn("complete", e[1], top, NoFloor)
    <2>1. x \in s.complete <=> \E r \in TR : /\ Exact(r) /\ r.start \in Int
                                             /\ e[1] <= r.start /\ r.start < top /\ x = <<r.start, r.end>>
      BY <1>6, <1>9 DEF Places
    <2> QED BY <1>2, <1>3, <2>1, FactsInIs DEF TR
  <1>13. ASSUME NEW x
         PROVE  x \in s.exact_off <=> x \in FactsIn("exact_off", e[1], top, NoFloor)
    <2>1. x \in s.exact_off <=> \E r \in TO : /\ Exact(r) /\ r.start \in Int
                                              /\ e[1] <= r.start /\ r.start < top /\ x = <<r.start, r.end>>
      BY <1>6, <1>9 DEF Places
    <2> QED BY <1>2, <1>3, <2>1, FactsInIs DEF TO
  <1>14. /\ s.starts = FactsIn("starts", e[1], top, NoFloor) /\ s.stops = FactsIn("stops", e[1], top, NoFloor)
         /\ s.complete = FactsIn("complete", e[1], top, NoFloor)
         /\ s.exact_off = FactsIn("exact_off", e[1], top, NoFloor)
    <2>1. s.starts = FactsIn("starts", e[1], top, NoFloor)
      BY <1>10
    <2>2. s.stops = FactsIn("stops", e[1], top, NoFloor)
      BY <1>11
    <2>3. s.complete = FactsIn("complete", e[1], top, NoFloor)
      BY <1>12
    <2>4. s.exact_off = FactsIn("exact_off", e[1], top, NoFloor)
      BY <1>13
    <2> QED BY <2>1, <2>2, <2>3, <2>4
  <1>15. Counts(s, e[1], top, NoFloor)
    BY <1>5, <1>14 DEF Counts
  <1> QED BY <1>15 DEF s, tl, E, limit, top

\* There are as many minute facts as minutes.
LEMMA MinuteImage ==
  ASSUME NEW T, IsFiniteSet(T)
  PROVE  Cardinality({MinuteFact(m) : m \in T}) = Cardinality(T)
  <1> DEFINE U == {MinuteFact(m) : m \in T}
             f == [m \in T |-> MinuteFact(m)]
  <1>1. \A m : MinuteFact(m)[1] = m
    BY DEF MinuteFact
  <1> HIDE DEF U
  <1>2. f \in Bijection(T, U)
    <2>1. f \in [T -> U]
      BY DEF U
    <2>2. \A m, n \in T : f[m] = f[n] => m = n
      BY <1>1
    <2>3. \A u \in U : \E m \in T : f[m] = u
      BY DEF U
    <2> HIDE DEF f
    <2> QED BY <2>1, <2>2, <2>3 DEF Bijection, Injection, Surjection, IsInjective
  <1>3. ExistsBijection(T, U)
    BY <1>2 DEF ExistsBijection
  <1> QED BY <1>3, FS_Bijection DEF U

\* The facts of a bucket account for its recorded minutes.
LEMMA BucketAccounts ==
  ASSUME ReadInv, NEW start, NEW end, Period(start, end), NEW e \in HourEdges(start, end),
         e[1] < EffectiveTo(start, end),
         NEW facts, facts.minutes = FactsIn("minutes", e[1], Lesser(e[2], EffectiveTo(start, end)), NoFloor)
  PROVE  FactsAccount(facts, e, EffectiveTo(start, end))
  <1> DEFINE limit == EffectiveTo(start, end)
             top == Lesser(e[2], limit)
             recorded == {m \in DOMAIN rows : e[1] <= m /\ m < top}
             judged == {m \in recorded : rows[m].compressor_freq # NULL}
  <1>1. limit \in Int /\ limit <= closedUntil
    BY PeriodHolds
  <1>2. e[1] \in Int /\ e[2] \in Int
    BY BucketShape
  <1>3. top \in Int /\ top <= limit
    BY <1>1, <1>2 DEF Lesser
  <1>4. closedUntil \in Int /\ DOMAIN rows \subseteq Nat /\ \A m \in DOMAIN rows : rows[m] \in Values
    BY DEF ReadInv, SegmentInv
  <1>5. facts.minutes = FactsIn("minutes", e[1], top, NoFloor)
    OBVIOUS
  <1> HIDE DEF top, limit
  <1>6. facts.minutes = {MinuteFact(m) : m \in recorded}
    <2>1. \A x : x \in facts.minutes <=>
                    \E m \in DOMAIN rows : m \in Int /\ e[1] <= m /\ m < top /\ m < closedUntil /\ x = MinuteFact(m)
      BY <1>2, <1>3, <1>5, FactsInIs
    <2>2. \A m \in DOMAIN rows : m \in Int /\ (m < top => m < closedUntil)
      BY <1>1, <1>3, <1>4
    <2> QED BY <2>1, <2>2
  <1>7. \A m \in recorded : MinuteFact(m)[3] # "unknown" <=> rows[m].compressor_freq # NULL
    <2>1. \A m \in recorded : MinuteFact(m)[3] = Compressor(rows[m])
      BY DEF MinuteFact
    <2>2. \A v \in Values : Compressor(v) # "unknown" <=> v.compressor_freq # NULL
      <3>1. ASSUME NEW v \in Values
            PROVE  Compressor(v) # "unknown" <=> v.compressor_freq # NULL
        BY CompressorCases DEF NULL
      <3> QED BY <3>1
    <2> QED BY <1>4, <2>1, <2>2
  <1>8. {u \in facts.minutes : u[3] # "unknown"} = {MinuteFact(m) : m \in judged}
    <2> HIDE DEF recorded
    <2> QED BY <1>6, <1>7
  <1>9. IsFiniteSet(recorded) /\ IsFiniteSet(judged)
    <2>1. IsFiniteSet(e[1] .. (top - 1))
      BY <1>2, <1>3, FS_Interval
    <2>2. recorded \subseteq e[1] .. (top - 1)
      BY <1>2, <1>3, <1>4
    <2>3. judged \subseteq e[1] .. (top - 1)
      BY <2>2
    <2> HIDE DEF recorded, judged
    <2> QED BY <2>1, <2>2, <2>3, FS_Subset
  <1> HIDE DEF recorded, judged
  <1>10. /\ Cardinality(facts.minutes) = Cardinality(recorded)
         /\ Cardinality({u \in facts.minutes : u[3] # "unknown"}) = Cardinality(judged)
    BY <1>6, <1>8, <1>9, MinuteImage
  <1> QED BY <1>10 DEF FactsAccount, recorded, judged, top, limit

LEMMA BucketMatches ==
  ASSUME ReadInv, NEW start, NEW end, Period(start, end), NEW e \in HourEdges(start, end),
         e[1] < EffectiveTo(start, end)
  PROVE  LET limit == EffectiveTo(start, end)
             facts == BucketFacts(ReportTimeline(start, end), HourEdges(start, end), e, limit)
             stop == Lesser(e[2], limit)
         IN  /\ FactsAccount(facts, e, limit)
             /\ facts = Summary(ActivityTimeline(e[1], stop), e[1], stop)
  <1> DEFINE limit == EffectiveTo(start, end)
             facts == BucketFacts(ReportTimeline(start, end), HourEdges(start, end), e, limit)
             stop == Lesser(e[2], limit)
             s == Summary(ActivityTimeline(e[1], stop), e[1], stop)
  <1>1. limit \in Int /\ NoFloor \in Int /\ NoFloor <= 0
    BY PeriodHolds DEF Query
  <1>2. e[1] \in Int /\ e[2] \in Int /\ e[2] = e[1] + MinutesPerHour
    BY BucketShape
  <1>3. stop \in Int /\ e[1] < stop
    BY <1>1, <1>2, HourLength DEF Lesser
  <1>4. Counts(facts, e[1], stop, NoFloor)
    BY BucketCounts
  <1>5. Counts(s, e[1], stop, 0)
    <2> HIDE DEF stop
    <2> QED BY <1>2, <1>3, ActivityQuery, SummaryCounts DEF ActivityTimeline
  <1>6. FactsAccount(facts, e, limit)
    <2>1. facts.minutes = FactsIn("minutes", e[1], stop, NoFloor)
      BY <1>4 DEF Counts
    <2> HIDE DEF facts
    <2> QED BY <2>1, BucketAccounts
  <1>7. /\ facts = [minutes |-> facts.minutes, starts |-> facts.starts, stops |-> facts.stops,
                    complete |-> facts.complete, exact_off |-> facts.exact_off]
        /\ s = [minutes |-> s.minutes, starts |-> s.starts, stops |-> s.stops,
                complete |-> s.complete, exact_off |-> s.exact_off]
    BY DEF BucketFacts, Summary
  <1> HIDE DEF facts, s, stop
  <1>8. \A fact \in FactNames : FactsIn(fact, e[1], stop, NoFloor) = FactsIn(fact, e[1], stop, 0)
    BY <1>1, <1>2, <1>3, FactsShift
  <1>9. /\ facts.minutes = s.minutes /\ facts.starts = s.starts /\ facts.stops = s.stops
        /\ facts.complete = s.complete /\ facts.exact_off = s.exact_off
    BY <1>4, <1>5, <1>8 DEF Counts, FactNames
  <1>10. facts = s
    BY <1>7, <1>9
  <1> QED BY <1>6, <1>10 DEF facts, s, stop

LEMMA ReportMatches ==
  ASSUME ReadInv
  PROVE  ReportMatchesActivity
  <1> SUFFICES ASSUME HourOf(closedUntil) \notin purged, NEW p \in Periods,
                      p[1] < EffectiveTo(p[1], p[2])
               PROVE  LET limit == EffectiveTo(p[1], p[2])
                          tl == ReportTimeline(p[1], p[2])
                          edges == HourEdges(p[1], p[2])
                      IN  /\ ~ReportRaises(tl, edges, p[1], limit)
                          /\ \A e \in {k \in edges : k[1] < limit} :
                                LET facts == BucketFacts(tl, edges, e, limit)
                                    end == Lesser(e[2], limit)
                                IN  /\ FactsAccount(facts, e, limit)
                                    /\ facts = Summary(ActivityTimeline(e[1], end), e[1], end)
    BY DEF ReportMatchesActivity
  <1>1. p[1] \in Nat /\ p[2] \in Nat
    BY ActivityReadAssumption DEF Periods, Ranges
  <1>2. Whole(p[1]) /\ Whole(p[2])
    BY <1>1, CeilHolds DEF Periods
  <1>3. Period(p[1], p[2])
    BY <1>1, <1>2 DEF Period
  <1>4. ~ReportRaises(ReportTimeline(p[1], p[2]), HourEdges(p[1], p[2]), p[1], EffectiveTo(p[1], p[2]))
    BY <1>3, ReportNeverRaises
  <1> QED BY <1>3, <1>4, BucketMatches

\* A report of whole hours never fails on its own facts, and each of its buckets counts what
\* /activity says of the bucket's settled part and accounts for its recorded minutes, as
\* long as the frontier's hour still has its raw minutes.
THEOREM ReportHolds == Spec => []ReportMatchesActivity
  <1>1. ReadInv => ReportMatchesActivity
    BY ReportMatches
  <1> QED BY <1>1, ReadHolds, PTL
=============================================================================
