-------------------------- MODULE SourceLifeProofs --------------------------
(***************************************************************************)
(* Theorems about source life for every value of the constants.            *)
(*                                                                         *)
(* First the ingest state, which the walks of the accumulators read and    *)
(* never change.  Then the walks: one turn moves the cursor on and closes  *)
(* at most the minute it leaves, so a walk to t ends at t, with rows of    *)
(* the minutes behind it in order.                                         *)
(***************************************************************************)
EXTENDS SourceLife, TLAPS

-----------------------------------------------------------------------------
(* The ingest state.                                                       *)

Cell == [seen : BOOLEAN, value : Int, at : Int]
IngestState == [connected : BOOLEAN, offline : BOOLEAN, lastLive : Int, aliveSince : Int,
                core : [Sources -> Cell], opt : [Profiles -> Cell]]

\* The first part of LifeHasEvidence, of any ingest state.
AliveWithEvidence(in) ==
    in.aliveSince # NONE => in.connected /\ ~in.offline /\ in.lastLive # NONE

Sound(in) == in \in IngestState /\ AliveWithEvidence(in) /\ EvidenceTogether(in)

\* Nothing heard is sound, before the first epoch and at the start of each.
LEMMA NothingHeardSound ==
  Sound(NothingHeard) /\ Sound([NothingHeard EXCEPT !.connected = TRUE])
  <1>1. NothingHeard \in IngestState
    BY DEF NothingHeard, NoEvidence, IngestState, Cell, NONE
  <1>2. /\ NothingHeard.lastLive = NONE /\ NothingHeard.aliveSince = NONE
        /\ \A i \in Sources : NothingHeard.core[i].value = NONE
    BY DEF NothingHeard, NoEvidence
  <1> QED BY <1>1, <1>2 DEF Sound, IngestState, AliveWithEvidence, EvidenceTogether

\* Invalidation leaves nothing to rest on and nothing resting on it.
LEMMA InvalidateSound ==
  ASSUME NEW in \in IngestState
  PROVE  /\ Sound(Invalidate(in))
         /\ \A b \in BOOLEAN : Sound([Invalidate(in) EXCEPT !.connected = b])
         /\ \A b \in BOOLEAN : Sound([Invalidate(in) EXCEPT !.offline = b])
  <1> DEFINE core == [i \in Sources |-> [in.core[i] EXCEPT !.value = NONE]]
             opt == [p \in Profiles |-> [in.opt[p] EXCEPT !.value = NONE]]
             out == Invalidate(in)
  <1>1. core \in [Sources -> Cell] /\ opt \in [Profiles -> Cell]
    <2>1. ASSUME NEW c \in Cell
          PROVE  [c EXCEPT !.value = NONE] \in Cell
      BY DEF Cell, NONE
    <2> QED BY <2>1 DEF IngestState
  <1>2. \A i \in Sources : core[i].value = NONE
    BY DEF IngestState, Cell
  <1>3. out = [in EXCEPT !.core = core, !.opt = opt, !.lastLive = NONE, !.aliveSince = NONE]
    BY DEF Invalidate
  <1> HIDE DEF core, opt, out
  <1>4. out \in IngestState
    <2>1. out = [connected |-> in.connected, offline |-> in.offline, lastLive |-> NONE,
                 aliveSince |-> NONE, core |-> core, opt |-> opt]
      BY <1>3 DEF IngestState
    <2>2. NONE \in Int /\ in.connected \in BOOLEAN /\ in.offline \in BOOLEAN
      BY DEF IngestState, NONE
    <2> QED BY <1>1, <2>1, <2>2 DEF IngestState
  <1>5. out.core = core /\ out.lastLive = NONE /\ out.aliveSince = NONE
    BY <1>3 DEF IngestState
  <1>6. Sound(out)
    BY <1>2, <1>4, <1>5 DEF Sound, AliveWithEvidence, EvidenceTogether
  <1>7. ASSUME NEW b \in BOOLEAN
        PROVE  Sound([out EXCEPT !.connected = b]) /\ Sound([out EXCEPT !.offline = b])
    BY <1>2, <1>4, <1>5 DEF Sound, IngestState, AliveWithEvidence, EvidenceTogether
  <1> QED BY <1>6, <1>7 DEF out

\* A refresh makes the alive interval rest on evidence again.
LEMMA RefreshSound ==
  ASSUME NEW in \in IngestState, NEW t \in Int, EvidenceTogether(in)
  PROVE  Sound(RefreshAlive(in, t))
  <1>1. RefreshAlive(in, t) \in IngestState
    BY DEF IngestState, RefreshAlive, NONE
  <1>2. AliveWithEvidence(RefreshAlive(in, t))
    BY DEF IngestState, RefreshAlive, AliveWithEvidence, AliveAt, NONE
  <1>3. EvidenceTogether(RefreshAlive(in, t))
    BY DEF IngestState, RefreshAlive, EvidenceTogether
  <1> QED BY <1>1, <1>2, <1>3 DEF Sound

\* A live message is the evidence it stores.
LEMMA HeardSound ==
  ASSUME NEW in, Sound(in), NEW i \in Sources, NEW v \in Int, NEW t \in Nat
  PROVE  Sound(Heard(in, i, v, t))
  <1> DEFINE stale == in.lastLive # NONE /\ t - in.lastLive > StaleAfter
             fresh == [in EXCEPT !.core[i] = [seen |-> TRUE, value |-> v, at |-> t],
                                 !.lastLive = t,
                                 !.aliveSince = IF stale THEN NONE ELSE @]
  <1>1. fresh \in IngestState
    <2>1. [seen |-> TRUE, value |-> v, at |-> t] \in Cell
      BY DEF Cell
    <2>2. [in.core EXCEPT ![i] = [seen |-> TRUE, value |-> v, at |-> t]] \in [Sources -> Cell]
      BY <2>1 DEF Sound, IngestState
    <2> DEFINE cells == [in.core EXCEPT ![i] = [seen |-> TRUE, value |-> v, at |-> t]]
               since == IF stale THEN NONE ELSE in.aliveSince
    <2>5. fresh = [in EXCEPT !.core = cells, !.lastLive = t, !.aliveSince = since]
      OBVIOUS
    <2> HIDE DEF fresh, cells, since
    <2>3. fresh = [connected |-> in.connected, offline |-> in.offline, lastLive |-> t,
                   aliveSince |-> since, core |-> cells, opt |-> in.opt]
      BY <2>5 DEF Sound, IngestState
    <2>4. since \in Int
      BY DEF since, Sound, IngestState, NONE
    <2> QED BY <2>2, <2>3, <2>4 DEF cells, Sound, IngestState
  <1>2. EvidenceTogether(fresh)
    BY DEF Sound, IngestState, Cell, EvidenceTogether, NONE
  <1>3. Heard(in, i, v, t) = RefreshAlive(fresh, t)
    BY DEF Heard
  <1> HIDE DEF fresh
  <1> QED BY <1>1, <1>2, <1>3, RefreshSound

-----------------------------------------------------------------------------
(* The step.                                                               *)

\* What the walk sees after a clock step, or without one, is sound.
LEMMA DetectedSound ==
  ASSUME Sound(ingest), NEW t
  PROVE  Sound(Detected(t))
  BY InvalidateSound DEF Sound, Detected

\* Every entry point leaves source life resting on evidence.
LEMMA StepSound ==
  ASSUME Sound(ingest), [Next]_vars
  PROVE  Sound(ingest')
  <1>1. CASE UNCHANGED vars
    BY <1>1 DEF vars
  <1>2. CASE Next
    <2> SUFFICES ASSUME NEW t \in Readings,
                        \/ Connect(t)
                        \/ Disconnect(t)
                        \/ \E state \in {"Online", "Offline"} : Lwt(state, t)
                        \/ \E i \in Sources, v \in Values \union {NONE}, retained \in BOOLEAN :
                               Message(i, v, retained, t)
                        \/ \E p \in Profiles, v \in Values \union {NONE} : OptionalMessage(p, v, t)
                        \/ Tick(t)
                 PROVE  Sound(ingest')
      BY <1>2 DEF Next
    <2>t. t \in Nat
      BY TimeAssumption DEF Readings
    <2>v. Values \union {NONE} \subseteq Int
      BY SourceAssumption DEF NONE
    <2>d. Sound(Detected(t))
      BY DetectedSound
    <2>1. CASE Connect(t)
      BY <2>1, NothingHeardSound DEF Connect
    <2>2. CASE Disconnect(t)
      <3>1. CASE ingest' = [Invalidate(ingest) EXCEPT !.connected = FALSE]
        BY <3>1, InvalidateSound DEF Sound
      <3>2. CASE ingest' = Detected(t)
        BY <3>2, <2>d
      <3> QED BY <2>2, <3>1, <3>2 DEF Disconnect
    <2>3. ASSUME NEW state \in {"Online", "Offline"}, Lwt(state, t)
          PROVE  Sound(ingest')
      <3> DEFINE in == [Detected(t) EXCEPT !.offline = (state = "Offline")]
      <3>1. in \in IngestState /\ EvidenceTogether(in)
        BY <2>d DEF Sound, IngestState, EvidenceTogether
      <3>2. Invalidate(in) \in IngestState /\ EvidenceTogether(Invalidate(in))
        BY <3>1, InvalidateSound DEF Sound
      <3>3. ingest' = RefreshAlive(IF state = "Offline" THEN Invalidate(in) ELSE in, t)
        BY <2>3 DEF Lwt
      <3> HIDE DEF in
      <3> QED BY <2>t, <3>1, <3>2, <3>3, RefreshSound
    <2>4. ASSUME NEW i \in Sources, NEW v \in Values \union {NONE}, NEW retained \in BOOLEAN,
                 Message(i, v, retained, t)
          PROVE  Sound(ingest')
      <3>1. CASE ingest' = Detected(t)
        BY <3>1, <2>d
      <3>2. CASE ingest' = Heard(Detected(t), i, v, t)
        BY <3>2, <2>t, <2>v, <2>d, HeardSound
      <3> QED BY <2>4, <3>1, <3>2 DEF Message
    <2>5. ASSUME NEW p \in Profiles, NEW v \in Values \union {NONE}, OptionalMessage(p, v, t)
          PROVE  Sound(ingest')
      <3> DEFINE in == Detected(t)
                 heard == [seen |-> TRUE, value |-> v, at |-> t]
      <3>1. ingest' = [in EXCEPT !.opt[p] = heard]
        BY <2>5 DEF OptionalMessage
      <3>2. heard \in Cell
        BY <2>t, <2>v DEF Cell
      <3> HIDE DEF in, heard
      <3>3. in \in IngestState /\ AliveWithEvidence(in) /\ EvidenceTogether(in)
        BY <2>d DEF in, Sound
      <3>4. [in.opt EXCEPT ![p] = heard] \in [Profiles -> Cell]
        BY <3>2, <3>3 DEF IngestState
      <3>5. ingest' = [in EXCEPT !.opt = [in.opt EXCEPT ![p] = heard]]
        BY <3>1
      <3>6. /\ ingest' \in IngestState
            /\ ingest'.connected = in.connected /\ ingest'.offline = in.offline
            /\ ingest'.lastLive = in.lastLive /\ ingest'.aliveSince = in.aliveSince
            /\ ingest'.core = in.core
        BY <3>3, <3>4, <3>5 DEF IngestState
      <3> QED BY <3>3, <3>6 DEF Sound, AliveWithEvidence, EvidenceTogether
    <2>6. CASE Tick(t)
      BY <2>6, <2>d DEF Tick
    <2> QED BY <2>1, <2>2, <2>3, <2>4, <2>5, <2>6
  <1> QED BY <1>1, <1>2

\* Source life rests on evidence, for every number of sources, freshness,
\* step threshold and order of events (Ingest as _advance drives it).
THEOREM LifeRestsOnEvidence == Spec => []LifeHasEvidence
  <1>1. Init => Sound(ingest)
    BY NothingHeardSound DEF Init
  <1>2. Sound(ingest) /\ [Next]_vars => Sound(ingest)'
    BY StepSound
  <1>3. Sound(ingest) => LifeHasEvidence
    BY DEF Sound, AliveWithEvidence, LifeHasEvidence
  <1> QED BY <1>1, <1>2, <1>3, PTL DEF Spec

-----------------------------------------------------------------------------
(* Numbers: ticks lie in minutes as the minutes of HistoryStore in hours,  *)
(* and a function may be defined from its own earlier values.              *)

Grid == INSTANCE HistoryStoreProofs
            WITH MinutesPerHour <- MINUTE, MaxMinute <- MaxTime, MaxProcesses <- 1

LEMMA GridAssumption == Grid!StoreAssumption
  BY TimeAssumption DEF Grid!StoreAssumption

\* The least element of a set of naturals is one of it.
LEMMA LeastElement ==
  ASSUME NEW T, T \subseteq Nat, T # {}
  PROVE  Min(T) \in T /\ \A y \in T : Min(T) <= y
  <1>1. \E x \in T : \A y \in T : x <= y
    BY GridAssumption, Grid!LeastNat
  <1> QED BY <1>1 DEF Min

\* A reading lies in the minute that starts at its floor, and in no other.
LEMMA FloorOfMinute ==
  /\ MINUTE \in Nat /\ MINUTE >= 1
  /\ \A t \in Nat : /\ FloorMinute(t) \in Nat /\ FloorMinute(t) <= t
                    /\ t < FloorMinute(t) + MINUTE
                    /\ FloorMinute(FloorMinute(t) + MINUTE) = FloorMinute(t) + MINUTE
                    /\ \A u \in Nat : FloorMinute(t) <= u /\ u < FloorMinute(t) + MINUTE
                                         => FloorMinute(u) = FloorMinute(t)
  <1>0. MINUTE \in Nat /\ MINUTE >= 1
    BY TimeAssumption
  <1>1. ASSUME NEW t \in Nat
        PROVE  /\ t \div MINUTE \in Nat
               /\ (t \div MINUTE) * MINUTE <= t
               /\ t < (t \div MINUTE) * MINUTE + MINUTE
               /\ (t \div MINUTE) * MINUTE \in Nat
    BY <1>0, SMT
  <1>2. ASSUME NEW k \in Nat, NEW n \in Nat, k < n
        PROVE  k * MINUTE + MINUTE <= n * MINUTE
    BY <1>0, <1>2, SMT
  <1>3. ASSUME NEW k \in Nat, NEW u \in Nat, k * MINUTE <= u, u < k * MINUTE + MINUTE
        PROVE  u \div MINUTE = k
    <2> DEFINE q == u \div MINUTE
    <2>1. q \in Nat /\ q * MINUTE <= u /\ u < q * MINUTE + MINUTE
      BY <1>1
    <2>2. q * MINUTE \in Nat /\ k * MINUTE \in Nat
      BY <1>0, <2>1, SMT
    <2> HIDE DEF q
    <2>3. CASE q < k
      <3>1. q * MINUTE + MINUTE <= k * MINUTE
        BY <1>2, <2>1, <2>3
      <3> DEFINE x == q * MINUTE
                 y == k * MINUTE
      <3>2. x + MINUTE <= y /\ y <= u /\ u < x + MINUTE /\ x \in Nat /\ y \in Nat
        BY <1>3, <2>1, <2>2, <3>1
      <3> HIDE DEF x, y
      <3> QED BY <1>0, <3>2
    <2>4. CASE k < q
      <3>1. k * MINUTE + MINUTE <= q * MINUTE
        BY <1>2, <2>1, <2>4
      <3> DEFINE x == q * MINUTE
                 y == k * MINUTE
      <3>2. y + MINUTE <= x /\ x <= u /\ u < y + MINUTE /\ x \in Nat /\ y \in Nat
        BY <1>3, <2>1, <2>2, <3>1
      <3> HIDE DEF x, y
      <3> QED BY <1>0, <3>2
    <2> QED BY <2>1, <2>3, <2>4 DEF q
  <1>4. ASSUME NEW t \in Nat
        PROVE  /\ FloorMinute(t) \in Nat /\ FloorMinute(t) <= t
               /\ t < FloorMinute(t) + MINUTE
               /\ FloorMinute(FloorMinute(t) + MINUTE) = FloorMinute(t) + MINUTE
               /\ \A u \in Nat : FloorMinute(t) <= u /\ u < FloorMinute(t) + MINUTE
                                    => FloorMinute(u) = FloorMinute(t)
    <2> DEFINE k == t \div MINUTE
               f == k * MINUTE
    <2>1. k \in Nat /\ f \in Nat /\ f <= t /\ t < f + MINUTE
      BY <1>1
    <2>2. (k + 1) * MINUTE = f + MINUTE
      BY <1>0, <2>1, SMT
    <2>3. FloorMinute(t) = f
      BY DEF FloorMinute
    <2>4. ASSUME NEW u \in Nat, f <= u, u < f + MINUTE
          PROVE  FloorMinute(u) = f
      BY <1>3, <2>1, <2>4 DEF FloorMinute
    <2>5. FloorMinute(f + MINUTE) = f + MINUTE
      <3>1. f + MINUTE \in Nat /\ k + 1 \in Nat
        BY <1>0, <2>1
      <3>2. (k + 1) * MINUTE <= f + MINUTE /\ f + MINUTE < (k + 1) * MINUTE + MINUTE
        BY <1>0, <2>1, <2>2
      <3>3. (f + MINUTE) \div MINUTE = k + 1
        BY <1>3, <3>1, <3>2
      <3> QED BY <2>2, <3>3 DEF FloorMinute
    <2> HIDE DEF f
    <2> QED BY <2>1, <2>3, <2>4, <2>5
  <1> QED BY <1>0, <1>4

\* f[k] is G applied k times to w0, for k up to n.
Iterates(f, n, W, G, w0) ==
    f \in [0 .. n -> W] /\ f[0] = w0 /\ \A k \in 1 .. n : f[k] = G[f[k - 1]]

\* A function of W can be iterated from any member of W.
LEMMA Iteration ==
  ASSUME NEW n \in Nat, NEW W, NEW G \in [W -> W], NEW w0 \in W
  PROVE  \E f : Iterates(f, n, W, G, w0)
  <1> DEFINE Stuck == {m \in Nat : ~\E f : Iterates(f, m, W, G, w0)}
  <1>1. Stuck = {}
    <2> SUFFICES ASSUME Stuck # {}
                 PROVE  FALSE
      OBVIOUS
    <2>1. Stuck \subseteq Nat
      OBVIOUS
    <2>2. PICK m \in Stuck : \A y \in Stuck : m <= y
      <3> HIDE DEF Stuck
      <3> QED BY <2>1, GridAssumption, Grid!LeastNat
    <2>3. m \in Nat /\ ~\E f : Iterates(f, m, W, G, w0)
      OBVIOUS
    <2>4. CASE m = 0
      <3>1. Iterates([k \in 0 .. 0 |-> w0], 0, W, G, w0)
        BY DEF Iterates
      <3> QED BY <2>3, <2>4, <3>1
    <2>5. CASE m # 0
      <3>1. m - 1 \in Nat /\ m - 1 \notin Stuck
        <4> HIDE DEF Stuck
        <4> QED BY <2>2, <2>3, <2>5
      <3>2. PICK f : Iterates(f, m - 1, W, G, w0)
        BY <3>1
      <3> DEFINE g == [k \in 0 .. m |-> IF k = m THEN G[f[m - 1]] ELSE f[k]]
      <3>3. f[m - 1] \in W
        BY <3>1, <3>2 DEF Iterates
      <3>4. g \in [0 .. m -> W]
        BY <2>3, <3>2, <3>3 DEF Iterates
      <3>5. \A k \in 0 .. (m - 1) : g[k] = f[k]
        BY <2>3
      <3>6. \A k \in 1 .. m : g[k] = G[g[k - 1]]
        <4> SUFFICES ASSUME NEW k \in 1 .. m
                     PROVE  g[k] = G[g[k - 1]]
          OBVIOUS
        <4>1. CASE k = m
          BY <2>3, <2>5, <3>5, <4>1
        <4>2. CASE k # m
          <5>1. k \in 1 .. (m - 1) /\ k \in 0 .. (m - 1) /\ k - 1 \in 0 .. (m - 1)
            BY <2>3, <4>2
          <5> HIDE DEF g
          <5> QED BY <3>2, <3>5, <5>1 DEF Iterates
        <4> QED BY <4>1, <4>2
      <3>7. g[0] = w0
        BY <2>3, <2>5, <3>2, <3>5 DEF Iterates
      <3> HIDE DEF g
      <3> QED BY <2>3, <3>4, <3>6, <3>7 DEF Iterates
    <2> QED BY <2>4, <2>5
  <1> QED BY <1>1

-----------------------------------------------------------------------------
(* One turn of a walk.                                                     *)

TypedIngest ==
    [connected : BOOLEAN, offline : BOOLEAN, lastLive : MaybeTime, aliveSince : MaybeTime,
     core : [Sources -> Evidence], opt : [Profiles -> Evidence]]

\* An accumulator over tallies T that stands inside its open minute.
Standing(T) ==
    {a \in [cursor : Nat, first : Nat, valid : BOOLEAN, tally : T] : a.first = FloorMinute(a.cursor)}

CoreRow == [ts : Nat, mean : Int, last : Int]
OptionalRow == [ts : Nat, mean : [Profiles -> Int], last : [Profiles -> Int]]

\* Rows of minutes from "lo", before "hi", in order.
Ordered(rows, lo, hi) ==
    \A k \in DOMAIN rows :
        /\ lo <= rows[k].ts /\ rows[k].ts < hi
        /\ \A j \in 1 .. (k - 1) : rows[j].ts < rows[k].ts

\* What a walk to t that began in minute lo may have reached.
Walks(T, R, t, lo) ==
    {w \in [acc : Standing(T), rows : Seq(R)] :
        w.acc.cursor <= t /\ lo <= w.acc.first /\ Ordered(w.rows, lo, w.acc.first)}

\* The walk stops past the cursor, and not past t, the end of the minute or an expiry.
LEMMA StopIsAhead ==
  ASSUME NEW sources, \A s \in sources : s \in Evidence,
         NEW t \in Nat, NEW end \in Nat, NEW c \in Nat, c < t, c < end
  PROVE  LET stop == Min({t, end} \union Expiries(sources, c))
         IN  /\ stop \in Nat /\ c < stop /\ stop <= t /\ stop <= end
             /\ \A e \in Expiries(sources, c) : e \in Nat /\ stop <= e
  <1> DEFINE T == {t, end} \union Expiries(sources, c)
  <1>1. \A e \in Expiries(sources, c) : e \in Nat /\ c < e
    <2>1. \A s \in sources : s.at \in Int
      BY TimeAssumption DEF Evidence, MaybeTime, Readings, NONE
    <2>2. \A s \in sources : s.at + StaleAfter \in Int
      BY <2>1, TimeAssumption
    <2>3. \A e \in Expiries(sources, c) : e \in Int /\ e > c
      BY <2>2 DEF Expiries
    <2> QED BY <2>3
  <1>2. T \subseteq Nat /\ T # {} /\ \A e \in T : c < e
    BY <1>1
  <1>3. t \in T /\ end \in T /\ \A e \in Expiries(sources, c) : e \in T
    OBVIOUS
  <1> HIDE DEF T
  <1>4. Min(T) \in T /\ \A y \in T : Min(T) <= y
    BY <1>2, LeastElement
  <1>5. /\ Min(T) \in Nat /\ c < Min(T) /\ Min(T) <= t /\ Min(T) <= end
        /\ \A e \in Expiries(sources, c) : e \in Nat /\ Min(T) <= e
    BY <1>1, <1>2, <1>3, <1>4
  <1> QED BY <1>5 DEF T

LEMMA ConfirmedType ==
  ASSUME NEW in, NEW s \in Evidence, NEW t
  PROVE  Confirmed(in, s, t) \in MaybeValue
  BY DEF Confirmed, Evidence, MaybeValue

LEMMA HistoricalType ==
  ASSUME NEW in \in TypedIngest, NEW t
  PROVE  Historical(in, t) \in MaybeValue
  <1> DEFINE confirmed == {i \in Sources : Confirmed(in, in.core[i], t) # NONE}
  <1>1. CASE confirmed = {}
    BY <1>1 DEF Historical, MaybeValue
  <1>2. CASE confirmed # {}
    <2>1. confirmed \subseteq Nat
      BY DEF Sources
    <2>2. Min(confirmed) \in Sources
      <3>1. confirmed \subseteq Sources
        OBVIOUS
      <3> HIDE DEF confirmed
      <3> QED BY <1>2, <2>1, <3>1, LeastElement
    <2>3. in.core[Min(confirmed)] \in Evidence
      BY <2>2 DEF TypedIngest
    <2>4. Historical(in, t) = in.core[Min(confirmed)].value
      BY <1>2 DEF Historical
    <2> QED BY <2>3, <2>4 DEF Evidence, MaybeValue
  <1> QED BY <1>1, <1>2

LEMMA TallyTypes ==
  /\ \A b \in BOOLEAN : OpenTally(b) \in Tally
  /\ \A x \in Tally : MeanOf(x) \in Int /\ x.end \in Int
  /\ \A x \in Tally, v \in MaybeValue, dt \in Nat : Integrate(x, v, dt) \in Tally
  <1>1. MaybeValue \subseteq Int /\ NONE \in MaybeValue
    BY SourceAssumption DEF MaybeValue, NONE
  <1>2. \A b \in BOOLEAN : OpenTally(b) \in Tally
    BY <1>1 DEF OpenTally, Tally
  <1>3. \A x \in Tally : MeanOf(x) \in Int /\ x.end \in Int
    <2> SUFFICES ASSUME NEW x \in Tally
                 PROVE  MeanOf(x) \in Int /\ x.end \in Int
      OBVIOUS
    <2>1. x.sum \in Nat /\ x.end \in MaybeValue
      BY DEF Tally
    <2>2. MeanOf(x) = x.sum \/ MeanOf(x) = NONE
      BY DEF MeanOf
    <2>3. x.end \in Int
      BY <1>1, <2>1, Zenon
    <2> QED BY <2>1, <2>2, <2>3 DEF NONE
  <1>4. ASSUME NEW x \in Tally, NEW v \in MaybeValue, NEW dt \in Nat
        PROVE  Integrate(x, v, dt) \in Tally
    <2>1. CASE dt <= 0
      BY <2>1 DEF Integrate
    <2>2. CASE ~(dt <= 0) /\ v = NONE
      BY <1>1, <2>2 DEF Integrate, Tally
    <2>3. CASE ~(dt <= 0) /\ v # NONE
      <3>1. v \in Nat
        BY <2>3, SourceAssumption DEF MaybeValue
      <3>2. v * dt \in Nat
        BY <3>1
      <3>3. x.sum + v * dt \in Nat
        BY <3>2 DEF Tally
      <3> QED BY <2>3, <3>3 DEF Integrate, Tally
    <2> QED BY <2>1, <2>2, <2>3
  <1> QED BY <1>2, <1>3, <1>4

\* A minute that starts at a floor is open there.
LEMMA OpenedStands ==
  ASSUME NEW c \in Nat
  PROVE  /\ Opened(c, FloorMinute(c)) \in Standing(Tally)
         /\ OptionalOpened(c, FloorMinute(c)) \in Standing([Profiles -> Tally])
         /\ Opened(c, FloorMinute(c)).cursor = c /\ Opened(c, FloorMinute(c)).first = FloorMinute(c)
         /\ OptionalOpened(c, FloorMinute(c)).cursor = c
         /\ OptionalOpened(c, FloorMinute(c)).first = FloorMinute(c)
  <1>1. FloorMinute(c) \in Nat
    BY FloorOfMinute
  <1>2. OpenTally(c = FloorMinute(c)) \in Tally
    BY TallyTypes
  <1> QED BY <1>1, <1>2 DEF Opened, OptionalOpened, Standing

\* Rows closed in a later minute than all before keep the order.
LEMMA OrderedGrows ==
  ASSUME NEW R, \A r \in R : r.ts \in Nat,
         NEW rows \in Seq(R), NEW lo \in Nat, NEW hi \in Nat, Ordered(rows, lo, hi), lo <= hi,
         NEW later \in Nat, hi < later, NEW added,
         added = <<>> \/ \E r \in R : added = <<r>> /\ r.ts = hi
  PROVE  rows \o added \in Seq(R) /\ Ordered(rows \o added, lo, later)
  <1>1. \A k \in DOMAIN rows : rows[k].ts \in Nat /\ k \in Nat
    OBVIOUS
  <1>2. CASE added = <<>>
    <2>1. rows \o added = rows
      BY <1>2
    <2> QED BY <1>1, <2>1 DEF Ordered
  <1>3. ASSUME NEW r \in R, added = <<r>>, r.ts = hi
        PROVE  rows \o added \in Seq(R) /\ Ordered(rows \o added, lo, later)
    <2> DEFINE all == rows \o added
               n == Len(rows)
    <2>1. /\ all \in Seq(R) /\ n \in Nat /\ DOMAIN all = 1 .. (n + 1)
          /\ DOMAIN rows = 1 .. n
          /\ all[n + 1] = r /\ \A k \in 1 .. n : all[k] = rows[k]
      BY <1>3
    <2> HIDE DEF all
    <2> SUFFICES ASSUME NEW k \in 1 .. (n + 1)
                 PROVE  /\ lo <= all[k].ts /\ all[k].ts < later
                        /\ \A j \in 1 .. (k - 1) : all[j].ts < all[k].ts
      BY <2>1 DEF all, Ordered
    <2>2. CASE k = n + 1
      <3>1. all[k].ts = hi
        BY <1>3, <2>1, <2>2
      <3>2. \A j \in 1 .. n : all[j].ts < hi
        BY <2>1 DEF Ordered
      <3> QED BY <2>1, <2>2, <3>1, <3>2
    <2>3. CASE k # n + 1
      <3>1. k \in 1 .. n /\ \A j \in 1 .. (k - 1) : j \in 1 .. n
        BY <2>1, <2>3
      <3>2. all[k] = rows[k] /\ rows[k].ts \in Nat
        BY <1>1, <2>1, <3>1
      <3>3. lo <= rows[k].ts /\ rows[k].ts < hi /\ \A j \in 1 .. (k - 1) : rows[j].ts < rows[k].ts
        BY <2>1, <3>1 DEF Ordered
      <3> QED BY <2>1, <3>1, <3>2, <3>3
    <2> QED BY <2>2, <2>3
  <1> QED BY <1>2, <1>3

\* The row of a closed minute starts where the minute does.
LEMMA ClosedRow ==
  ASSUME NEW in, NEW a, a.tally \in Tally, a.first \in Nat
  PROVE  Closed(in, a) = <<>> \/ \E r \in CoreRow : Closed(in, a) = <<r>> /\ r.ts = a.first
  <1> DEFINE r == [ts |-> a.first, mean |-> MeanOf(a.tally), last |-> a.tally.end]
  <1>1. r \in CoreRow /\ r.ts = a.first
    BY TallyTypes DEF CoreRow
  <1>2. Closed(in, a) \in {<<>>, <<r>>}
    BY DEF Closed
  <1> HIDE DEF r
  <1> QED BY <1>1, <1>2

\* A turn of the canonical walk moves the cursor on, and closes at most the minute it leaves.
LEMMA TurnAdvances ==
  ASSUME NEW in \in TypedIngest, NEW t \in Nat, NEW lo \in Nat,
         NEW w \in Walks(Tally, CoreRow, t, lo), w.acc.cursor < t
  PROVE  /\ Turn(in, t, w) \in Walks(Tally, CoreRow, t, lo)
         /\ w.acc.cursor < Turn(in, t, w).acc.cursor
  <1> DEFINE a == w.acc
             end == a.first + MINUTE
             S == {in.core[i] : i \in Sources}
             stop == Min({t, end} \union Expiries(S, a.cursor))
             b == [a EXCEPT !.cursor = stop,
                            !.tally = Integrate(@, Historical(in, a.cursor), stop - a.cursor)]
             v == Turn(in, t, w)
  <1>1. /\ a.cursor \in Nat /\ a.first \in Nat /\ a.valid \in BOOLEAN /\ a.tally \in Tally
        /\ a = [cursor |-> a.cursor, first |-> a.first, valid |-> a.valid, tally |-> a.tally]
        /\ a.first = FloorMinute(a.cursor) /\ a.cursor < t /\ lo <= a.first
        /\ w.rows \in Seq(CoreRow) /\ Ordered(w.rows, lo, a.first)
        /\ w = [acc |-> a, rows |-> w.rows]
    BY DEF Walks, Standing
  <1>2. MINUTE \in Nat /\ MINUTE >= 1 /\ a.first <= a.cursor /\ a.cursor < end /\ end \in Nat
    BY <1>1, FloorOfMinute
  <1>3. \A s \in S : s \in Evidence
    BY DEF TypedIngest
  <1>r. \A r \in CoreRow : r.ts \in Nat
    BY DEF CoreRow
  <1> HIDE DEF S, a
  <1>4. stop \in Nat /\ a.cursor < stop /\ stop <= t /\ stop <= end
    BY <1>1, <1>2, <1>3, StopIsAhead
  <1> HIDE DEF stop
  <1>5. Integrate(a.tally, Historical(in, a.cursor), stop - a.cursor) \in Tally
    <2>1. stop - a.cursor \in Nat
      BY <1>1, <1>4
    <2> QED BY <1>1, <2>1, HistoricalType, TallyTypes
  <1>6. /\ b = [cursor |-> stop, first |-> a.first, valid |-> a.valid, tally |-> b.tally]
        /\ b.tally \in Tally
    <2> DEFINE tally == Integrate(a.tally, Historical(in, a.cursor), stop - a.cursor)
    <2>1. b = [a EXCEPT !.cursor = stop, !.tally = tally]
      OBVIOUS
    <2> HIDE DEF b, tally
    <2>2. b = [cursor |-> stop, first |-> a.first, valid |-> a.valid, tally |-> tally]
      BY <1>1, <2>1
    <2> QED BY <1>5, <2>2 DEF tally
  <1> HIDE DEF b
  <1>7. v = CASE ~AliveAt(in, a.cursor) /\ t >= end -> [w EXCEPT !.acc = Opened(t, FloorMinute(t))]
              [] (AliveAt(in, a.cursor) \/ t < end) /\ stop = end ->
                   [acc |-> Opened(end, end), rows |-> w.rows \o Closed(in, b)]
              [] OTHER -> [w EXCEPT !.acc = b]
    BY DEF Turn, S, stop, b, a
  <1>w. \A x : [w EXCEPT !.acc = x] = [acc |-> x, rows |-> w.rows]
    BY <1>1
  <1> HIDE DEF v, end
  <1>8. CASE ~AliveAt(in, a.cursor) /\ t >= end
    <2>1. v = [acc |-> Opened(t, FloorMinute(t)), rows |-> w.rows]
      <3>1. v = [w EXCEPT !.acc = Opened(t, FloorMinute(t))]
        BY <1>2, <1>7, <1>8
      <3> QED BY <1>w, <3>1, Zenon
    <2>2. FloorMinute(t) \in Nat /\ t < FloorMinute(t) + MINUTE
      BY FloorOfMinute
    <2>3. a.first < FloorMinute(t)
      BY <1>1, <1>2, <1>8, <2>2 DEF end
    <2>4. w.rows \o <<>> = w.rows
      BY <1>1
    <2>5. Ordered(w.rows, lo, FloorMinute(t))
      BY <1>1, <1>r, <2>2, <2>3, <2>4, OrderedGrows
    <2>6. lo <= FloorMinute(t)
      BY <1>1, <2>2, <2>3
    <2> QED BY <1>1, <2>1, <2>2, <2>5, <2>6, OpenedStands DEF v, Walks
  <1>9. CASE (AliveAt(in, a.cursor) \/ t < end) /\ stop = end
    <2> DEFINE added == Closed(in, b)
    <2>1. v = [acc |-> Opened(end, end), rows |-> w.rows \o added]
      BY <1>2, <1>7, <1>9
    <2>2. b.first = a.first /\ b.first \in Nat
      BY <1>1, <1>6
    <2>3. added = <<>> \/ \E r \in CoreRow : added = <<r>> /\ r.ts = a.first
      BY <1>6, <2>2, ClosedRow
    <2> HIDE DEF added
    <2>4. end = FloorMinute(end) /\ a.first < end /\ lo <= end
      BY <1>1, <1>2, FloorOfMinute DEF end
    <2>5. w.rows \o added \in Seq(CoreRow) /\ Ordered(w.rows \o added, lo, end)
      BY <1>1, <1>2, <1>r, <2>3, <2>4, OrderedGrows
    <2>6. Opened(end, end) \in Standing(Tally) /\ Opened(end, end).cursor = end
            /\ Opened(end, end).first = end
      BY <1>2, <2>4, OpenedStands
    <2>7. v.acc = Opened(end, end) /\ v.rows = w.rows \o added
      BY <2>1
    <2>8. end <= t /\ a.cursor < end
      BY <1>2, <1>4, <1>9
    <2>9. v \in Walks(Tally, CoreRow, t, lo)
      BY <2>1, <2>4, <2>5, <2>6, <2>7, <2>8 DEF Walks
    <2> QED BY <2>6, <2>7, <2>8, <2>9 DEF v, a
  <1>10. CASE ~(~AliveAt(in, a.cursor) /\ t >= end)
              /\ ~((AliveAt(in, a.cursor) \/ t < end) /\ stop = end)
    <2>1. v = [acc |-> b, rows |-> w.rows]
      BY <1>1, <1>7, <1>10
    <2>2. stop # end
      BY <1>1, <1>2, <1>10
    <2>3. a.first <= stop /\ stop < a.first + MINUTE
      BY <1>1, <1>2, <1>4, <2>2 DEF end
    <2>4. FloorMinute(stop) = a.first
      BY <1>1, <1>4, <2>3, FloorOfMinute
    <2>5. b \in Standing(Tally) /\ b.cursor = stop /\ b.first = a.first
      BY <1>1, <1>4, <1>6, <2>4 DEF Standing
    <2> QED BY <1>1, <1>4, <2>1, <2>5 DEF v, Walks
  <1> QED BY <1>8, <1>9, <1>10 DEF v, a

\* So does a turn of the optional walk.
LEMMA OptionalTurnAdvances ==
  ASSUME NEW in \in TypedIngest, NEW t \in Nat, NEW lo \in Nat,
         NEW w \in Walks([Profiles -> Tally], OptionalRow, t, lo), w.acc.cursor < t
  PROVE  /\ OptionalTurn(in, t, w) \in Walks([Profiles -> Tally], OptionalRow, t, lo)
         /\ w.acc.cursor < OptionalTurn(in, t, w).acc.cursor
  <1> DEFINE a == w.acc
             end == a.first + MINUTE
             S == {in.opt[p] : p \in Profiles}
             stop == Min({t, end} \union Expiries(S, a.cursor))
             value == [p \in Profiles |-> Confirmed(in, in.opt[p], a.cursor)]
             b == [p \in Profiles |-> Integrate(a.tally[p], value[p], stop - a.cursor)]
             row == [ts |-> a.first, mean |-> [p \in Profiles |-> MeanOf(b[p])],
                     last |-> [p \in Profiles |-> b[p].end]]
             kept == IF a.valid /\ a.first >= start THEN <<row>> ELSE <<>>
             skips == /\ a.cursor = a.first
                      /\ \A p \in Profiles : value[p] = NONE
                      /\ t >= end
             v == OptionalTurn(in, t, w)
  <1>1. /\ a.cursor \in Nat /\ a.first \in Nat /\ a.valid \in BOOLEAN
        /\ a.tally \in [Profiles -> Tally]
        /\ a = [cursor |-> a.cursor, first |-> a.first, valid |-> a.valid, tally |-> a.tally]
        /\ a.first = FloorMinute(a.cursor) /\ a.cursor < t /\ lo <= a.first
        /\ w.rows \in Seq(OptionalRow) /\ Ordered(w.rows, lo, a.first)
        /\ w = [acc |-> a, rows |-> w.rows]
    BY DEF Walks, Standing
  <1>0. a = [cursor |-> a.cursor, first |-> a.first, valid |-> a.valid, tally |-> a.tally]
    BY <1>1
  <1>2. MINUTE \in Nat /\ MINUTE >= 1 /\ a.first <= a.cursor /\ a.cursor < end /\ end \in Nat
    BY <1>1, FloorOfMinute
  <1>3. \A s \in S : s \in Evidence
    BY DEF TypedIngest
  <1>r. \A r \in OptionalRow : r.ts \in Nat
    BY DEF OptionalRow
  <1>v. \A p \in Profiles : value[p] \in MaybeValue
    <2>1. \A p \in Profiles : in.opt[p] \in Evidence
      BY DEF TypedIngest
    <2> QED BY <2>1, ConfirmedType
  <1> HIDE DEF S, a, value
  <1>4. stop \in Nat /\ a.cursor < stop /\ stop <= t /\ stop <= end
    BY <1>1, <1>2, <1>3, StopIsAhead
  <1> HIDE DEF stop
  <1>5. b \in [Profiles -> Tally]
    <2>1. stop - a.cursor \in Nat
      BY <1>1, <1>4
    <2> QED BY <1>1, <1>v, <2>1, TallyTypes
  <1> HIDE DEF b
  <1>6. row \in OptionalRow /\ row.ts = a.first
    <2>1. \A p \in Profiles : MeanOf(b[p]) \in Int /\ b[p].end \in Int
      BY <1>5, TallyTypes
    <2> QED BY <1>1, <2>1 DEF OptionalRow
  <1> HIDE DEF row
  <1>7. kept = <<>> \/ \E r \in OptionalRow : kept = <<r>> /\ r.ts = a.first
    <2>1. kept \in {<<>>, <<row>>}
      OBVIOUS
    <2> HIDE DEF kept
    <2> QED BY <1>6, <2>1
  <1> HIDE DEF kept, skips
  <1>8. v = CASE skips -> [w EXCEPT !.acc = OptionalOpened(t, FloorMinute(t))]
              [] ~skips /\ stop = end ->
                   [acc |-> OptionalOpened(end, end), rows |-> w.rows \o kept]
              [] OTHER -> [w EXCEPT !.acc = [a EXCEPT !.cursor = stop, !.tally = b]]
    BY DEF OptionalTurn, S, stop, b, a, value, row, kept, skips
  <1>w. \A x : [w EXCEPT !.acc = x] = [acc |-> x, rows |-> w.rows]
    BY <1>1
  <1> HIDE DEF v, end
  <1>9. CASE skips
    <2>1. v = [acc |-> OptionalOpened(t, FloorMinute(t)), rows |-> w.rows]
      <3>1. v = [w EXCEPT !.acc = OptionalOpened(t, FloorMinute(t))]
        BY <1>8, <1>9
      <3> QED BY <1>w, <3>1, Zenon
    <2>2. FloorMinute(t) \in Nat /\ t < FloorMinute(t) + MINUTE /\ end <= t
      BY <1>2, <1>9, FloorOfMinute DEF skips
    <2>3. a.first < FloorMinute(t)
      BY <1>1, <1>2, <2>2 DEF end
    <2>4. w.rows \o <<>> = w.rows
      BY <1>1
    <2>5. Ordered(w.rows, lo, FloorMinute(t))
      BY <1>1, <1>r, <2>2, <2>3, <2>4, OrderedGrows
    <2>6. lo <= FloorMinute(t)
      BY <1>1, <2>2, <2>3
    <2> DEFINE new == OptionalOpened(t, FloorMinute(t))
    <2>8. new \in Standing([Profiles -> Tally]) /\ new.cursor = t /\ new.first = FloorMinute(t)
      BY OpenedStands
    <2> HIDE DEF new
    <2>9. v.acc = new /\ v.rows = w.rows /\ v = [acc |-> new, rows |-> w.rows]
      BY <2>1 DEF new
    <2>7. v \in Walks([Profiles -> Tally], OptionalRow, t, lo) /\ v.acc.cursor = t
      BY <1>1, <2>5, <2>6, <2>8, <2>9 DEF Walks
    <2> QED BY <1>1, <2>7 DEF v, a
  <1>10. CASE ~skips /\ stop = end
    <2>1. v = [acc |-> OptionalOpened(end, end), rows |-> w.rows \o kept]
      BY <1>8, <1>10
    <2>4. end = FloorMinute(end) /\ a.first < end /\ lo <= end
      BY <1>1, <1>2, FloorOfMinute DEF end
    <2>5. w.rows \o kept \in Seq(OptionalRow) /\ Ordered(w.rows \o kept, lo, end)
      BY <1>1, <1>2, <1>7, <1>r, <2>4, OrderedGrows
    <2>6. OptionalOpened(end, end) \in Standing([Profiles -> Tally])
            /\ OptionalOpened(end, end).cursor = end /\ OptionalOpened(end, end).first = end
      BY <1>2, <2>4, OpenedStands
    <2>7. v.acc = OptionalOpened(end, end) /\ v.rows = w.rows \o kept
      BY <2>1
    <2>8. end <= t /\ a.cursor < end
      BY <1>2, <1>4, <1>10
    <2>9. v \in Walks([Profiles -> Tally], OptionalRow, t, lo)
      BY <2>1, <2>4, <2>5, <2>6, <2>7, <2>8 DEF Walks
    <2> QED BY <2>6, <2>7, <2>8, <2>9 DEF v, a
  <1>11. CASE ~skips /\ stop # end
    <2> DEFINE c == [cursor |-> stop, first |-> a.first, valid |-> a.valid, tally |-> b]
    <2>1. v = [acc |-> c, rows |-> w.rows]
      <3>1. v = [w EXCEPT !.acc = [a EXCEPT !.cursor = stop, !.tally = b]]
        BY <1>8, <1>11
      <3> DEFINE moved == [a EXCEPT !.cursor = stop, !.tally = b]
      <3>2. moved = [a EXCEPT !.cursor = stop, !.tally = b]
        OBVIOUS
      <3> HIDE DEF moved
      <3>3. moved = c
        BY <1>0, <3>2
      <3> QED BY <1>w, <3>1, <3>2, <3>3, Zenon
    <2>3. a.first <= stop /\ stop < a.first + MINUTE
      BY <1>1, <1>2, <1>4, <1>11 DEF end
    <2>4. FloorMinute(stop) = a.first
      BY <1>1, <1>4, <2>3, FloorOfMinute
    <2>5. c \in Standing([Profiles -> Tally]) /\ c.cursor = stop /\ c.first = a.first
      BY <1>1, <1>4, <1>5, <2>4 DEF Standing
    <2> HIDE DEF c
    <2>6. v \in Walks([Profiles -> Tally], OptionalRow, t, lo) /\ v.acc.cursor = stop
      BY <1>1, <1>4, <2>1, <2>5 DEF Walks
    <2> QED BY <1>4, <2>6 DEF v, a
  <1> QED BY <1>9, <1>10, <1>11

-----------------------------------------------------------------------------
(* The walk.                                                               *)

\* Every turn of f up to n stays in W and moves the cursor on, until it is at t.
MovesOn(f, n, W, t) ==
    \A k \in 1 .. n : f[k - 1] \in W =>
        /\ f[k] \in W
        /\ IF f[k - 1].acc.cursor < t THEN f[k - 1].acc.cursor < f[k].acc.cursor
                                      ELSE f[k] = f[k - 1]

Arrives(f, n, W, t) == (\A k \in 0 .. n : f[k] \in W) /\ f[n].acc.cursor = t

\* A walk whose turns all move on arrives within as many turns as there are ticks, and keeps
\* to what every turn keeps to.
LEMMA WalkArrives ==
  ASSUME NEW T, NEW R, NEW t \in Nat, NEW lo \in Nat, NEW n \in Nat, NEW f,
         NEW W, W \subseteq Walks(T, R, t, lo),
         f[0] \in W, n = t - f[0].acc.cursor, MovesOn(f, n, W, t)
  PROVE  Arrives(f, n, W, t)
  <1> DEFINE c0 == f[0].acc.cursor
             Fine(k) == f[k] \in W /\ (f[k].acc.cursor = t \/ c0 + k <= f[k].acc.cursor)
             Bad == {k \in 0 .. n : ~Fine(k)}
  <1>1. \A w \in W : w.acc.cursor \in Nat /\ w.acc.cursor <= t
    BY DEF Walks, Standing
  <1>2. Bad = {}
    <2> SUFFICES ASSUME Bad # {}
                 PROVE  FALSE
      OBVIOUS
    <2>1. Bad \subseteq Nat
      OBVIOUS
    <2>2. PICK k \in Bad : \A y \in Bad : k <= y
      <3> HIDE DEF Bad
      <3> QED BY <2>1, GridAssumption, Grid!LeastNat
    <2>3. k \in 0 .. n /\ ~Fine(k)
      OBVIOUS
    <2>4. k # 0
      <3>1. c0 \in Nat /\ f[0] \in W
        BY <1>1
      <3>2. Fine(0)
        BY <3>1
      <3> QED BY <2>3, <3>2
    <2>5. k \in 1 .. n /\ k - 1 \in 0 .. n /\ k - 1 \notin Bad
      <3>1. k \in 1 .. n /\ k - 1 \in 0 .. n /\ k - 1 \in Nat /\ k \in Nat
        BY <2>3, <2>4
      <3>2. k - 1 \notin Bad
        <4> HIDE DEF Bad
        <4> QED BY <2>2, <3>1
      <3> QED BY <3>1, <3>2
    <2>6. Fine(k - 1)
      BY <2>5
    <2>7. /\ f[k - 1] \in W /\ f[k] \in W
          /\ IF f[k - 1].acc.cursor < t THEN f[k - 1].acc.cursor < f[k].acc.cursor
                                        ELSE f[k] = f[k - 1]
      BY <2>5, <2>6 DEF MovesOn
    <2> DEFINE c == f[k - 1].acc.cursor
               d == f[k].acc.cursor
    <2>8. c \in Nat /\ d \in Nat /\ d <= t /\ c <= t /\ c0 \in Nat /\ k \in Nat
      BY <1>1, <2>5, <2>7
    <2>9. c = t \/ c0 + (k - 1) <= c
      BY <2>6
    <2>10. IF c < t THEN c < d ELSE d = c
      BY <2>7
    <2> HIDE DEF c, d, c0
    <2>11. d = t \/ c0 + k <= d
      BY <2>8, <2>9, <2>10
    <2> QED BY <2>3, <2>7, <2>11 DEF d
  <1>3. \A k \in 0 .. n : Fine(k)
    BY <1>2
  <1>4. f[n].acc.cursor = t
    <2>1. Fine(n) /\ c0 \in Nat
      BY <1>1, <1>3
    <2>2. f[n].acc.cursor \in Nat /\ f[n].acc.cursor <= t
      BY <1>1, <2>1
    <2>3. c0 + n = t
      BY <2>1
    <2> DEFINE d == f[n].acc.cursor
    <2>4. d = t \/ c0 + n <= d
      BY <2>1
    <2> HIDE DEF c0, d
    <2> QED BY <2>2, <2>3, <2>4 DEF d
  <1> QED BY <1>3, <1>4 DEF Arrives

\* advance(t): the walk ends at t, and in any set of walks that its turns keep to.
LEMMA AdvancedKeeps ==
  ASSUME NEW in \in TypedIngest, NEW t \in Nat, NEW a \in Standing(Tally), a.cursor <= t,
         NEW W, W \subseteq Walks(Tally, CoreRow, t, a.first), [acc |-> a, rows |-> <<>>] \in W,
         \A w \in W : w.acc.cursor < t => Turn(in, t, w) \in W
  PROVE  Advanced(in, t, a) \in W /\ Advanced(in, t, a).acc.cursor = t
  <1> DEFINE n == t - a.cursor
             w0 == [acc |-> a, rows |-> <<>>]
             On(w) == IF w.acc.cursor < t THEN Turn(in, t, w) ELSE w
             G == [w \in W |-> On(w)]
             Walk(f) == f = [k \in 0 .. n |-> IF k = 0 THEN w0 ELSE On(f[k - 1])]
             walk == CHOOSE f : Walk(f)
  <1>1. n \in Nat /\ a.first \in Nat
    BY DEF Standing
  <1>2. w0 \in W /\ n = t - w0.acc.cursor
    OBVIOUS
  <1>3. \A w \in W : /\ On(w) \in W
                     /\ IF w.acc.cursor < t THEN w.acc.cursor < On(w).acc.cursor ELSE On(w) = w
    BY <1>1, TurnAdvances
  <1>4. Advanced(in, t, a) = walk[n]
    BY DEF Advanced
  <1> HIDE DEF On, w0, n, walk
  <1>5. ASSUME NEW f, f[0] = w0,
               \A k \in 1 .. n : f[k - 1] \in W => f[k] = On(f[k - 1])
        PROVE  Arrives(f, n, W, t)
    <2>1. MovesOn(f, n, W, t)
      BY <1>3, <1>5 DEF MovesOn
    <2>2. f[0] \in W /\ n = t - f[0].acc.cursor
      BY <1>2, <1>5
    <2>3. a.first \in Nat /\ n \in Nat
      BY <1>1
    <2> QED BY <2>1, <2>2, <2>3, WalkArrives
  <1>6. \E f : Walk(f)
    <2>1. G \in [W -> W]
      BY <1>3
    <2>2. PICK f : Iterates(f, n, W, G, w0)
      <3> HIDE DEF G
      <3> QED BY <1>1, <1>2, <2>1, Iteration
    <2>3. \A k \in 1 .. n : f[k] = On(f[k - 1])
      <3>1. \A k \in 1 .. n : k - 1 \in 0 .. n
        BY <1>1
      <3>2. \A k \in 1 .. n : f[k - 1] \in W
        BY <2>2, <3>1 DEF Iterates
      <3> QED BY <2>2, <3>2 DEF Iterates
    <2>4. \A k \in 0 .. n : k # 0 => k \in 1 .. n
      BY <1>1
    <2>5. f = [k \in 0 .. n |-> IF k = 0 THEN w0 ELSE On(f[k - 1])]
      BY <2>2, <2>3, <2>4 DEF Iterates
    <2> QED BY <2>5
  <1>7. Walk(walk)
    <2> HIDE DEF Walk
    <2> QED BY <1>6 DEF walk
  <1>8. walk[0] = w0 /\ \A k \in 1 .. n : walk[k] = On(walk[k - 1])
    <2>1. 0 \in 0 .. n /\ \A k \in 1 .. n : k \in 0 .. n /\ k # 0
      BY <1>1
    <2>2. \A k \in 0 .. n : walk[k] = IF k = 0 THEN w0 ELSE On(walk[k - 1])
      BY <1>7, Zenon
    <2> QED BY <2>1, <2>2
  <1>9. Arrives(walk, n, W, t)
    BY <1>5, <1>8
  <1>10. n \in 0 .. n
    BY <1>1
  <1> QED BY <1>4, <1>9, <1>10 DEF Arrives

\* It ends in a minute no earlier than it began, with rows of the minutes in between, in order.
LEMMA AdvancedArrives ==
  ASSUME NEW in \in TypedIngest, NEW t \in Nat, NEW a \in Standing(Tally), a.cursor <= t
  PROVE  /\ Advanced(in, t, a) \in Walks(Tally, CoreRow, t, a.first)
         /\ Advanced(in, t, a).acc.cursor = t
  <1> DEFINE W == Walks(Tally, CoreRow, t, a.first)
  <1>1. a.first \in Nat
    BY DEF Standing
  <1>2. [acc |-> a, rows |-> <<>>] \in W
    BY <1>1 DEF Walks, Ordered
  <1>3. \A w \in W : w.acc.cursor < t => Turn(in, t, w) \in W
    BY <1>1, TurnAdvances
  <1> HIDE DEF W
  <1>4. W \subseteq Walks(Tally, CoreRow, t, a.first)
    BY DEF W
  <1> QED BY <1>2, <1>3, <1>4, AdvancedKeeps DEF W

\* So does the optional walk.
LEMMA OptionalAdvancedKeeps ==
  ASSUME NEW in \in TypedIngest, NEW t \in Nat, NEW a \in Standing([Profiles -> Tally]), a.cursor <= t,
         NEW W, W \subseteq Walks([Profiles -> Tally], OptionalRow, t, a.first), [acc |-> a, rows |-> <<>>] \in W,
         \A w \in W : w.acc.cursor < t => OptionalTurn(in, t, w) \in W
  PROVE  OptionalAdvanced(in, t, a) \in W /\ OptionalAdvanced(in, t, a).acc.cursor = t
  <1> DEFINE n == t - a.cursor
             w0 == [acc |-> a, rows |-> <<>>]
             On(w) == IF w.acc.cursor < t THEN OptionalTurn(in, t, w) ELSE w
             G == [w \in W |-> On(w)]
             Walk(f) == f = [k \in 0 .. n |-> IF k = 0 THEN w0 ELSE On(f[k - 1])]
             walk == CHOOSE f : Walk(f)
  <1>1. n \in Nat /\ a.first \in Nat
    BY DEF Standing
  <1>2. w0 \in W /\ n = t - w0.acc.cursor
    OBVIOUS
  <1>3. \A w \in W : /\ On(w) \in W
                     /\ IF w.acc.cursor < t THEN w.acc.cursor < On(w).acc.cursor ELSE On(w) = w
    BY <1>1, OptionalTurnAdvances
  <1>4. OptionalAdvanced(in, t, a) = walk[n]
    BY DEF OptionalAdvanced
  <1> HIDE DEF On, w0, n, walk
  <1>5. ASSUME NEW f, f[0] = w0,
               \A k \in 1 .. n : f[k - 1] \in W => f[k] = On(f[k - 1])
        PROVE  Arrives(f, n, W, t)
    <2>1. MovesOn(f, n, W, t)
      BY <1>3, <1>5 DEF MovesOn
    <2>2. f[0] \in W /\ n = t - f[0].acc.cursor
      BY <1>2, <1>5
    <2>3. a.first \in Nat /\ n \in Nat
      BY <1>1
    <2> QED BY <2>1, <2>2, <2>3, WalkArrives
  <1>6. \E f : Walk(f)
    <2>1. G \in [W -> W]
      BY <1>3
    <2>2. PICK f : Iterates(f, n, W, G, w0)
      <3> HIDE DEF G
      <3> QED BY <1>1, <1>2, <2>1, Iteration
    <2>3. \A k \in 1 .. n : f[k] = On(f[k - 1])
      <3>1. \A k \in 1 .. n : k - 1 \in 0 .. n
        BY <1>1
      <3>2. \A k \in 1 .. n : f[k - 1] \in W
        BY <2>2, <3>1 DEF Iterates
      <3> QED BY <2>2, <3>2 DEF Iterates
    <2>4. \A k \in 0 .. n : k # 0 => k \in 1 .. n
      BY <1>1
    <2>5. f = [k \in 0 .. n |-> IF k = 0 THEN w0 ELSE On(f[k - 1])]
      BY <2>2, <2>3, <2>4 DEF Iterates
    <2> QED BY <2>5
  <1>7. Walk(walk)
    <2> HIDE DEF Walk
    <2> QED BY <1>6 DEF walk
  <1>8. walk[0] = w0 /\ \A k \in 1 .. n : walk[k] = On(walk[k - 1])
    <2>1. 0 \in 0 .. n /\ \A k \in 1 .. n : k \in 0 .. n /\ k # 0
      BY <1>1
    <2>2. \A k \in 0 .. n : walk[k] = IF k = 0 THEN w0 ELSE On(walk[k - 1])
      BY <1>7, Zenon
    <2> QED BY <2>1, <2>2
  <1>9. Arrives(walk, n, W, t)
    BY <1>5, <1>8
  <1>10. n \in 0 .. n
    BY <1>1
  <1> QED BY <1>4, <1>9, <1>10 DEF Arrives

\* The optional walk to t ends there too.
LEMMA OptionalAdvancedArrives ==
  ASSUME NEW in \in TypedIngest, NEW t \in Nat, NEW a \in Standing([Profiles -> Tally]), a.cursor <= t
  PROVE  /\ OptionalAdvanced(in, t, a) \in Walks([Profiles -> Tally], OptionalRow, t, a.first)
         /\ OptionalAdvanced(in, t, a).acc.cursor = t
  <1> DEFINE W == Walks([Profiles -> Tally], OptionalRow, t, a.first)
  <1>1. a.first \in Nat
    BY DEF Standing
  <1>2. [acc |-> a, rows |-> <<>>] \in W
    BY <1>1 DEF Walks, Ordered
  <1>3. \A w \in W : w.acc.cursor < t => OptionalTurn(in, t, w) \in W
    BY <1>1, OptionalTurnAdvances
  <1> HIDE DEF W
  <1>4. W \subseteq Walks([Profiles -> Tally], OptionalRow, t, a.first)
    BY DEF W
  <1> QED BY <1>2, <1>3, <1>4, OptionalAdvancedKeeps DEF W

-----------------------------------------------------------------------------
(* The step of Recorder._advance.                                          *)

RecordedRow == [ts : Nat, mean : Int, last : Int, optMean : [Profiles -> Int], optLast : [Profiles -> Int]]

\* Both accumulators stand at one reading, and what is recorded are earlier minutes in order.
WalkInv ==
    /\ ingest \in TypedIngest
    /\ accumulator \in Standing(Tally) /\ optional \in Standing([Profiles -> Tally])
    /\ accumulator.cursor \in Readings /\ optional.cursor = accumulator.cursor
    /\ {wall, start, latest, mqttLatest} \subseteq Readings
    /\ recorded \in Seq(RecordedRow)
    /\ Ordered(recorded, 0, accumulator.first)

LEMMA OrderedJoin ==
  ASSUME NEW R, \A r \in R : r.ts \in Nat, NEW s \in Seq(R), NEW u \in Seq(R),
         NEW lo \in Nat, NEW mid \in Nat, NEW hi \in Nat, lo <= mid, mid <= hi,
         Ordered(s, lo, mid), Ordered(u, mid, hi)
  PROVE  /\ s \o u \in Seq(R) /\ Ordered(s \o u, lo, hi)
         /\ Len(s \o u) >= Len(s)
         /\ \A k \in DOMAIN s : (s \o u)[k] = s[k]
         /\ \A k \in DOMAIN (s \o u) \ DOMAIN s : (s \o u)[k].ts >= mid
  <1> DEFINE all == s \o u
             m == Len(s)
             n == Len(u)
  <1>1. /\ all \in Seq(R) /\ m \in Nat /\ n \in Nat /\ Len(all) = m + n
        /\ DOMAIN all = 1 .. (m + n) /\ DOMAIN s = 1 .. m /\ DOMAIN u = 1 .. n
        /\ \A k \in 1 .. m : all[k] = s[k]
        /\ \A k \in 1 .. (m + n) : k > m => all[k] = u[k - m]
    OBVIOUS
  <1>2. /\ \A k \in 1 .. m : s[k].ts \in Nat
        /\ \A k \in 1 .. n : u[k].ts \in Nat
    BY <1>1
  <1> HIDE DEF all, m, n
  <1>3. ASSUME NEW k \in 1 .. m
        PROVE  /\ lo <= all[k].ts /\ all[k].ts < mid
               /\ \A j \in 1 .. (k - 1) : all[j].ts < all[k].ts
    <2>1. \A j \in 1 .. (k - 1) : j \in 1 .. m
      BY <1>1
    <2>2. lo <= s[k].ts /\ s[k].ts < mid /\ \A j \in 1 .. (k - 1) : s[j].ts < s[k].ts
      BY <1>1 DEF Ordered
    <2> QED BY <1>1, <2>1, <2>2
  <1>4. ASSUME NEW k \in 1 .. (m + n), k > m
        PROVE  /\ mid <= all[k].ts /\ all[k].ts < hi /\ all[k].ts \in Nat
               /\ \A j \in 1 .. (k - 1) : all[j].ts < all[k].ts
    <2>1. k - m \in 1 .. n /\ all[k] = u[k - m]
      BY <1>1, <1>4
    <2>2. /\ mid <= u[k - m].ts /\ u[k - m].ts < hi
          /\ \A j \in 1 .. (k - m - 1) : u[j].ts < u[k - m].ts
      BY <1>1, <2>1 DEF Ordered
    <2>3. ASSUME NEW j \in 1 .. (k - 1)
          PROVE  all[j].ts < all[k].ts
      <3>1. CASE j <= m
        <4>1. j \in 1 .. m
          BY <1>1, <3>1
        <4>2. all[j].ts < mid /\ all[j].ts \in Nat /\ all[k].ts \in Nat /\ mid <= all[k].ts
          BY <1>1, <1>2, <1>3, <2>1, <2>2, <4>1
        <4> QED BY <4>2
      <3>2. CASE j > m
        <4>1. j - m \in 1 .. (k - m - 1) /\ j \in 1 .. (m + n)
          BY <1>1, <3>2
        <4> QED BY <1>1, <2>1, <2>2, <3>2, <4>1
      <3> QED BY <1>1, <3>1, <3>2
    <2> QED BY <1>2, <2>1, <2>2, <2>3
  <1>5. Ordered(all, lo, hi)
    <2> SUFFICES ASSUME NEW k \in 1 .. (m + n)
                 PROVE  /\ lo <= all[k].ts /\ all[k].ts < hi
                        /\ \A j \in 1 .. (k - 1) : all[j].ts < all[k].ts
      BY <1>1 DEF Ordered
    <2>1. CASE k <= m
      <3>1. k \in 1 .. m
        BY <1>1, <2>1
      <3>2. all[k].ts \in Nat
        BY <1>1, <1>2, <3>1
      <3> QED BY <1>3, <3>1, <3>2
    <2>2. CASE k > m
      BY <1>4, <2>2
    <2> QED BY <1>1, <2>1, <2>2
  <1>6. \A k \in DOMAIN all \ DOMAIN s : all[k].ts >= mid
    <2>1. \A k \in DOMAIN all \ DOMAIN s : k \in 1 .. (m + n) /\ k > m
      BY <1>1
    <2> QED BY <1>4, <2>1
  <1> QED BY <1>1, <1>5, <1>6 DEF all, m, n

\* A paired row is the canonical row with optional values of its minute, or none.
LEMMA PairedType ==
  ASSUME NEW row \in CoreRow, NEW minutes \in Seq(OptionalRow)
  PROVE  Paired(row, minutes) \in RecordedRow /\ Paired(row, minutes).ts = row.ts
  <1> DEFINE same == {k \in DOMAIN minutes : minutes[k].ts = row.ts}
             of(f) == [p \in Profiles |-> IF same = {} THEN NONE ELSE minutes[Min(same)][f][p]]
  <1>1. of("mean") \in [Profiles -> Int] /\ of("last") \in [Profiles -> Int]
    <2>1. CASE same = {}
      BY <2>1 DEF NONE
    <2>2. CASE same # {}
      <3>1. same \subseteq Nat /\ same \subseteq DOMAIN minutes
        OBVIOUS
      <3>2. Min(same) \in DOMAIN minutes
        <4> HIDE DEF same
        <4> QED BY <2>2, <3>1, LeastElement
      <3>3. minutes[Min(same)] \in OptionalRow
        BY <3>2
      <3> QED BY <2>2, <3>3 DEF OptionalRow
    <2> QED BY <2>1, <2>2
  <1>2. Paired(row, minutes) = [ts |-> row.ts, mean |-> row.mean, last |-> row.last,
                                optMean |-> of("mean"), optLast |-> of("last")]
    BY DEF Paired
  <1> HIDE DEF of
  <1> QED BY <1>1, <1>2 DEF CoreRow, RecordedRow

-----------------------------------------------------------------------------
(* The ingest state stays of its type.                                     *)

LEMMA EvidenceTypes ==
  /\ NONE \in MaybeTime /\ NONE \in MaybeValue /\ \A t \in Readings : t \in MaybeTime /\ t \in Nat
  /\ NoEvidence \in Evidence
  /\ \A t \in Readings, v \in MaybeValue : [seen |-> TRUE, value |-> v, at |-> t] \in Evidence
  /\ \A s \in Evidence : [s EXCEPT !.value = NONE] \in Evidence
  <1>1. NONE \in MaybeTime /\ NONE \in MaybeValue /\ \A t \in Readings : t \in MaybeTime /\ t \in Nat
    BY TimeAssumption DEF MaybeTime, MaybeValue, Readings
  <1> QED BY <1>1 DEF NoEvidence, Evidence

\* A fresh epoch starts typed.
LEMMA NothingHeardTyped ==
  NothingHeard \in TypedIngest /\ [NothingHeard EXCEPT !.connected = TRUE] \in TypedIngest
  BY EvidenceTypes DEF NothingHeard, TypedIngest

\* The flags of a typed state may change freely.
LEMMA FlagsTyped ==
  ASSUME NEW in \in TypedIngest, NEW b \in BOOLEAN
  PROVE  [in EXCEPT !.connected = b] \in TypedIngest /\ [in EXCEPT !.offline = b] \in TypedIngest
  BY DEF TypedIngest

LEMMA InvalidateTyped ==
  ASSUME NEW in \in TypedIngest
  PROVE  Invalidate(in) \in TypedIngest
  <1> DEFINE core == [i \in Sources |-> [in.core[i] EXCEPT !.value = NONE]]
             opt == [p \in Profiles |-> [in.opt[p] EXCEPT !.value = NONE]]
             out == Invalidate(in)
  <1>1. core \in [Sources -> Evidence] /\ opt \in [Profiles -> Evidence]
    <2>1. /\ \A i \in Sources : in.core[i] \in Evidence
          /\ \A p \in Profiles : in.opt[p] \in Evidence
      BY DEF TypedIngest
    <2> QED BY <2>1, EvidenceTypes
  <1>2. out = [in EXCEPT !.core = core, !.opt = opt, !.lastLive = NONE, !.aliveSince = NONE]
    BY DEF Invalidate
  <1> HIDE DEF core, opt, out
  <1>3. out = [connected |-> in.connected, offline |-> in.offline, lastLive |-> NONE,
               aliveSince |-> NONE, core |-> core, opt |-> opt]
    BY <1>2 DEF TypedIngest
  <1>4. in.connected \in BOOLEAN /\ in.offline \in BOOLEAN
    BY DEF TypedIngest
  <1> QED BY <1>1, <1>3, <1>4, EvidenceTypes DEF out, TypedIngest

LEMMA RefreshTyped ==
  ASSUME NEW in \in TypedIngest, NEW t \in Readings
  PROVE  RefreshAlive(in, t) \in TypedIngest
  <1> DEFINE since == IF ~AliveAt(in, t) THEN NONE
                      ELSE IF in.aliveSince = NONE THEN t ELSE in.aliveSince
  <1>1. since \in MaybeTime
    BY EvidenceTypes DEF TypedIngest
  <1>2. RefreshAlive(in, t) = [in EXCEPT !.aliveSince = since]
    BY DEF RefreshAlive
  <1> HIDE DEF since
  <1> QED BY <1>1, <1>2 DEF TypedIngest

LEMMA HeardTyped ==
  ASSUME NEW in \in TypedIngest, NEW i \in Sources, NEW v \in MaybeValue, NEW t \in Readings
  PROVE  Heard(in, i, v, t) \in TypedIngest
  <1> DEFINE stale == in.lastLive # NONE /\ t - in.lastLive > StaleAfter
             fresh == [in EXCEPT !.core[i] = [seen |-> TRUE, value |-> v, at |-> t],
                                 !.lastLive = t,
                                 !.aliveSince = IF stale THEN NONE ELSE @]
             cells == [in.core EXCEPT ![i] = [seen |-> TRUE, value |-> v, at |-> t]]
             since == IF stale THEN NONE ELSE in.aliveSince
  <1>1. cells \in [Sources -> Evidence]
    BY EvidenceTypes DEF TypedIngest
  <1>2. since \in MaybeTime /\ t \in MaybeTime
    BY EvidenceTypes DEF TypedIngest
  <1>3. fresh = [in EXCEPT !.core = cells, !.lastLive = t, !.aliveSince = since]
    OBVIOUS
  <1>4. Heard(in, i, v, t) = RefreshAlive(fresh, t)
    BY DEF Heard
  <1> HIDE DEF fresh, cells, since
  <1>5. fresh \in TypedIngest
    BY <1>1, <1>2, <1>3 DEF TypedIngest
  <1> QED BY <1>4, <1>5, RefreshTyped

LEMMA OptionalHeardTyped ==
  ASSUME NEW in \in TypedIngest, NEW p \in Profiles, NEW v \in MaybeValue, NEW t \in Readings
  PROVE  [in EXCEPT !.opt[p] = [seen |-> TRUE, value |-> v, at |-> t]] \in TypedIngest
  <1> DEFINE cells == [in.opt EXCEPT ![p] = [seen |-> TRUE, value |-> v, at |-> t]]
             out == [in EXCEPT !.opt[p] = [seen |-> TRUE, value |-> v, at |-> t]]
  <1>1. cells \in [Profiles -> Evidence]
    BY EvidenceTypes DEF TypedIngest
  <1>2. out = [in EXCEPT !.opt = cells]
    OBVIOUS
  <1> HIDE DEF cells, out
  <1>3. out \in TypedIngest
    BY <1>1, <1>2 DEF TypedIngest
  <1> QED BY <1>3 DEF out

\* Every entry point leaves a typed ingest state.
LEMMA IngestStaysTyped ==
  ASSUME ingest \in TypedIngest, Next
  PROVE  ingest' \in TypedIngest
  <1> SUFFICES ASSUME NEW t \in Readings,
                      \/ Connect(t)
                      \/ Disconnect(t)
                      \/ \E state \in {"Online", "Offline"} : Lwt(state, t)
                      \/ \E i \in Sources, v \in Values \union {NONE}, retained \in BOOLEAN :
                             Message(i, v, retained, t)
                      \/ \E p \in Profiles, v \in Values \union {NONE} : OptionalMessage(p, v, t)
                      \/ Tick(t)
               PROVE  ingest' \in TypedIngest
    BY DEF Next
  <1>d. Detected(t) \in TypedIngest
    BY InvalidateTyped DEF Detected
  <1>1. CASE Connect(t)
    BY <1>1, NothingHeardTyped DEF Connect
  <1>2. CASE Disconnect(t)
    <2>1. [Invalidate(ingest) EXCEPT !.connected = FALSE] \in TypedIngest
      BY InvalidateTyped, FlagsTyped
    <2> QED BY <1>2, <1>d, <2>1 DEF Disconnect
  <1>3. ASSUME NEW state \in {"Online", "Offline"}, Lwt(state, t)
        PROVE  ingest' \in TypedIngest
    <2> DEFINE in == [Detected(t) EXCEPT !.offline = (state = "Offline")]
    <2>1. in \in TypedIngest /\ Invalidate(in) \in TypedIngest
      BY <1>d, FlagsTyped, InvalidateTyped
    <2>2. ingest' = RefreshAlive(IF state = "Offline" THEN Invalidate(in) ELSE in, t)
      BY <1>3 DEF Lwt
    <2> HIDE DEF in
    <2> QED BY <2>1, <2>2, RefreshTyped
  <1>4. ASSUME NEW i \in Sources, NEW v \in Values \union {NONE}, NEW retained \in BOOLEAN,
               Message(i, v, retained, t)
        PROVE  ingest' \in TypedIngest
    <2>1. Heard(Detected(t), i, v, t) \in TypedIngest
      BY <1>d, HeardTyped DEF MaybeValue
    <2> QED BY <1>4, <1>d, <2>1 DEF Message
  <1>5. ASSUME NEW p \in Profiles, NEW v \in Values \union {NONE}, OptionalMessage(p, v, t)
        PROVE  ingest' \in TypedIngest
    BY <1>5, <1>d, OptionalHeardTyped DEF OptionalMessage, MaybeValue
  <1>6. CASE Tick(t)
    BY <1>6, <1>d DEF Tick
  <1> QED BY <1>1, <1>2, <1>3, <1>4, <1>5, <1>6

-----------------------------------------------------------------------------
(* What one call of _advance does to the accumulators and the rows.        *)

\* Poisoning the open minute moves neither its start nor the cursor.
LEMMA PoisonedStands ==
  ASSUME NEW T, NEW a \in Standing(T), NEW t
  PROVE  /\ Poisoned(a, t) \in Standing(T)
         /\ Poisoned(a, t).cursor = a.cursor /\ Poisoned(a, t).first = a.first
  <1>1. a \in [cursor : Nat, first : Nat, valid : BOOLEAN, tally : T] /\ a.first = FloorMinute(a.cursor)
    BY DEF Standing
  <1>2. CASE ~SteppedBack(t)
    BY <1>2 DEF Poisoned
  <1>3. CASE SteppedBack(t)
    <2> DEFINE v == a.valid /\ a.cursor = a.first
               c == [cursor |-> a.cursor, first |-> a.first, valid |-> v, tally |-> a.tally]
               moved == [a EXCEPT !.valid = v]
    <2>1. v \in BOOLEAN
      BY <1>1
    <2>2. Poisoned(a, t) = moved
      BY <1>3 DEF Poisoned, DiscardOpen
    <2> HIDE DEF v
    <2>3. moved = c
      BY <1>1
    <2>4. c \in Standing(T) /\ c.cursor = a.cursor /\ c.first = a.first
      BY <1>1, <2>1 DEF Standing
    <2> QED BY <2>2, <2>3, <2>4
  <1> QED BY <1>2, <1>3

\* What Advance makes of rows and accumulators, as ClosedMinutesStayClosed states it.
Appends(rows, new, first) ==
    /\ Len(new) >= Len(rows)
    /\ \A k \in DOMAIN rows : new[k] = rows[k]
    /\ \A k \in DOMAIN new \ DOMAIN rows :
           /\ new[k].ts >= first
           /\ \A j \in 1 .. (k - 1) : new[j].ts < new[k].ts

LEMMA AdvanceStep ==
  ASSUME WalkInv, NEW t \in Readings, Advance(t)
  PROVE  /\ accumulator' \in Standing(Tally) /\ optional' \in Standing([Profiles -> Tally])
         /\ accumulator'.cursor = Clamped(t) /\ optional'.cursor = Clamped(t)
         /\ Clamped(t) \in Readings
         /\ recorded' \in Seq(RecordedRow) /\ Ordered(recorded', 0, accumulator'.first)
         /\ Appends(recorded, recorded', accumulator.first)
  <1> DEFINE a == Poisoned(accumulator, t)
             o == Poisoned(optional, t)
             c == Clamped(t)
             core == Advanced(Detected(t), c, a)
             opt == OptionalAdvanced(Detected(t), c, o)
             added == [k \in DOMAIN core.rows |-> Paired(core.rows[k], opt.rows)]
  <1>1. /\ accumulator \in Standing(Tally) /\ optional \in Standing([Profiles -> Tally])
        /\ accumulator.cursor \in Readings /\ optional.cursor = accumulator.cursor
        /\ accumulator.first \in Nat
    BY DEF WalkInv, Standing
  <1>2. /\ c \in Readings /\ c \in Nat /\ accumulator.cursor <= c
    BY <1>1, TimeAssumption DEF Clamped, Readings
  <1>3. a \in Standing(Tally) /\ a.cursor = accumulator.cursor /\ a.first = accumulator.first
    BY <1>1, PoisonedStands
  <1>4. o \in Standing([Profiles -> Tally]) /\ o.cursor = accumulator.cursor
    BY <1>1, PoisonedStands
  <1>5. Detected(t) \in TypedIngest
    BY InvalidateTyped DEF WalkInv, Detected
  <1>6. accumulator' = core.acc /\ optional' = opt.acc /\ recorded' = recorded \o added
    BY DEF Advance
  <1> HIDE DEF a, o, c
  <1>7. core \in Walks(Tally, CoreRow, c, accumulator.first) /\ core.acc.cursor = c
    BY <1>2, <1>3, <1>5, AdvancedArrives
  <1>8. opt \in Walks([Profiles -> Tally], OptionalRow, c, o.first) /\ opt.acc.cursor = c
    BY <1>2, <1>4, <1>5, OptionalAdvancedArrives
  <1> HIDE DEF core, opt
  <1>9. /\ core.acc \in Standing(Tally) /\ core.rows \in Seq(CoreRow)
        /\ accumulator.first <= core.acc.first /\ core.acc.first \in Nat
        /\ Ordered(core.rows, accumulator.first, core.acc.first)
        /\ opt.acc \in Standing([Profiles -> Tally]) /\ opt.rows \in Seq(OptionalRow)
    BY <1>7, <1>8 DEF Walks, Standing
  <1>10. /\ added \in Seq(RecordedRow) /\ DOMAIN added = DOMAIN core.rows
         /\ \A k \in DOMAIN added : added[k].ts = core.rows[k].ts
    <2>1. \A k \in DOMAIN core.rows : core.rows[k] \in CoreRow
      BY <1>9
    <2>2. \A k \in DOMAIN core.rows : /\ Paired(core.rows[k], opt.rows) \in RecordedRow
                                      /\ Paired(core.rows[k], opt.rows).ts = core.rows[k].ts
      BY <1>9, <2>1, PairedType
    <2>3. DOMAIN core.rows = 1 .. Len(core.rows) /\ Len(core.rows) \in Nat
      BY <1>9
    <2>4. added \in [1 .. Len(core.rows) -> RecordedRow]
      BY <2>2, <2>3
    <2>5. added \in Seq(RecordedRow)
      <3> HIDE DEF added
      <3> QED BY <2>3, <2>4
    <2> QED BY <2>2, <2>5
  <1>11. Ordered(added, accumulator.first, core.acc.first)
    <2>1. \A k \in DOMAIN core.rows : \A j \in 1 .. (k - 1) : j \in DOMAIN core.rows
      <3>1. DOMAIN core.rows = 1 .. Len(core.rows) /\ Len(core.rows) \in Nat
        BY <1>9
      <3> QED BY <3>1
    <2> HIDE DEF added
    <2> QED BY <1>9, <1>10, <2>1 DEF Ordered
  <1> HIDE DEF added
  <1>12. \A r \in RecordedRow : r.ts \in Nat
    BY DEF RecordedRow
  <1>13. recorded \in Seq(RecordedRow) /\ Ordered(recorded, 0, accumulator.first)
    BY DEF WalkInv
  <1>14. /\ recorded \o added \in Seq(RecordedRow) /\ Ordered(recorded \o added, 0, core.acc.first)
         /\ Len(recorded \o added) >= Len(recorded)
         /\ \A k \in DOMAIN recorded : (recorded \o added)[k] = recorded[k]
         /\ \A k \in DOMAIN (recorded \o added) \ DOMAIN recorded :
                (recorded \o added)[k].ts >= accumulator.first
    <2>1. 0 \in Nat /\ 0 <= accumulator.first
      BY <1>1
    <2> QED BY <1>1, <1>9, <1>10, <1>11, <1>12, <1>13, <2>1, OrderedJoin
  <1>15. Appends(recorded, recorded \o added, accumulator.first)
    BY <1>14 DEF Appends, Ordered
  <1> QED BY <1>2, <1>6, <1>7, <1>8, <1>9, <1>14, <1>15 DEF c

\* Every entry point advances to its reading, and reads a clock within its bound.
LEMMA EveryStepAdvances ==
  ASSUME Next
  PROVE  \E t \in Readings : Advance(t) /\ Reading(t) /\ mqttLatest' \in {0, t, mqttLatest}
  <1> SUFFICES ASSUME NEW t \in Readings,
                      \/ Connect(t)
                      \/ Disconnect(t)
                      \/ \E state \in {"Online", "Offline"} : Lwt(state, t)
                      \/ \E i \in Sources, v \in Values \union {NONE}, retained \in BOOLEAN :
                             Message(i, v, retained, t)
                      \/ \E p \in Profiles, v \in Values \union {NONE} : OptionalMessage(p, v, t)
                      \/ Tick(t)
               PROVE  Advance(t) /\ Reading(t) /\ mqttLatest' \in {0, t, mqttLatest}
    BY DEF Next
  <1>1. CASE Connect(t)
    BY <1>1 DEF Connect, MqttReading
  <1>2. CASE Disconnect(t)
    BY <1>2 DEF Disconnect, MqttReading
  <1>3. CASE \E state \in {"Online", "Offline"} : Lwt(state, t)
    BY <1>3 DEF Lwt, MqttReading
  <1>4. CASE \E i \in Sources, v \in Values \union {NONE}, retained \in BOOLEAN :
                 Message(i, v, retained, t)
    BY <1>4 DEF Message, MqttReading
  <1>5. CASE \E p \in Profiles, v \in Values \union {NONE} : OptionalMessage(p, v, t)
    BY <1>5 DEF OptionalMessage, MqttReading
  <1>6. CASE Tick(t)
    BY <1>6 DEF Tick
  <1> QED BY <1>1, <1>2, <1>3, <1>4, <1>5, <1>6

LEMMA WalkInit ==
  ASSUME Init
  PROVE  WalkInv
  <1>1. start \in Readings /\ start \in Nat /\ 0 \in Readings
    BY TimeAssumption DEF Init, Readings
  <1>2. /\ accumulator = Opened(start, FloorMinute(start))
        /\ optional = OptionalOpened(start, FloorMinute(start))
        /\ wall = start /\ latest = start /\ mqttLatest = 0 /\ recorded = <<>> /\ ingest = NothingHeard
    BY DEF Init
  <1>3. /\ accumulator \in Standing(Tally) /\ optional \in Standing([Profiles -> Tally])
        /\ accumulator.cursor = start /\ optional.cursor = start
    BY <1>1, <1>2, OpenedStands
  <1>4. recorded \in Seq(RecordedRow) /\ Ordered(recorded, 0, accumulator.first)
    BY <1>2 DEF Ordered
  <1> QED BY <1>1, <1>2, <1>3, <1>4, NothingHeardTyped DEF WalkInv

LEMMA WalkStep ==
  ASSUME WalkInv, [Next]_vars
  PROVE  WalkInv' /\ (recorded' = recorded \/ Appends(recorded, recorded', accumulator.first))
  <1>1. CASE UNCHANGED vars
    BY <1>1 DEF vars, WalkInv
  <1>2. CASE Next
    <2>1. PICK t \in Readings : Advance(t) /\ Reading(t) /\ mqttLatest' \in {0, t, mqttLatest}
      BY <1>2, EveryStepAdvances
    <2>2. /\ accumulator' \in Standing(Tally) /\ optional' \in Standing([Profiles -> Tally])
          /\ accumulator'.cursor = Clamped(t) /\ optional'.cursor = Clamped(t)
          /\ Clamped(t) \in Readings
          /\ recorded' \in Seq(RecordedRow) /\ Ordered(recorded', 0, accumulator'.first)
          /\ Appends(recorded, recorded', accumulator.first)
      BY <2>1, AdvanceStep
    <2>3. wall' = t /\ start' = start
      BY <2>1 DEF Advance
    <2>4. latest' \in Readings
      <3>1. CASE latest' = t
        BY <3>1
      <3>2. CASE latest' = Max({t, latest})
        <4>1. t \in Nat /\ latest \in Nat /\ latest \in Readings
          BY TimeAssumption DEF WalkInv, Readings
        <4>2. Max({t, latest}) \in {t, latest}
          <5>1. \E x \in {t, latest} : \A y \in {t, latest} : x >= y
            BY <4>1
          <5> QED BY <5>1 DEF Max
        <4> QED BY <3>2, <4>1, <4>2
      <3> QED BY <2>1, <3>1, <3>2 DEF Reading
    <2>5. ingest' \in TypedIngest
      BY <1>2, IngestStaysTyped DEF WalkInv
    <2>6. mqttLatest' \in Readings
      BY <2>1, TimeAssumption DEF WalkInv, Readings
    <2> QED BY <2>2, <2>3, <2>4, <2>5, <2>6 DEF WalkInv
  <1> QED BY <1>1, <1>2

\* The invariant says what TypeOK says.
LEMMA WalkTypes ==
  ASSUME WalkInv
  PROVE  TypeOK
  <1>1. /\ accumulator \in Standing(Tally) /\ optional \in Standing([Profiles -> Tally])
        /\ accumulator.cursor \in Readings /\ optional.cursor = accumulator.cursor
        /\ ingest \in TypedIngest /\ {wall, start, latest, mqttLatest} \subseteq Readings
    BY DEF WalkInv
  <1>2. /\ accumulator.first = FloorMinute(accumulator.cursor)
        /\ optional.first = FloorMinute(optional.cursor)
    BY <1>1 DEF Standing
  <1>3. accumulator.first \in Readings /\ optional.first = accumulator.first
    <2>1. accumulator.cursor \in Nat /\ accumulator.cursor <= MaxTime
      BY <1>1, TimeAssumption DEF Readings
    <2>2. FloorMinute(accumulator.cursor) \in Nat /\ FloorMinute(accumulator.cursor) <= accumulator.cursor
      BY <2>1, FloorOfMinute
    <2> QED BY <1>1, <1>2, <2>1, <2>2, TimeAssumption DEF Readings
  <1>4. accumulator \in [cursor : Readings, first : Readings, valid : BOOLEAN, tally : Tally]
    BY <1>1, <1>3 DEF Standing
  <1>5. optional \in [cursor : Readings, first : Readings, valid : BOOLEAN, tally : [Profiles -> Tally]]
    BY <1>1, <1>3 DEF Standing
  <1> QED BY <1>1, <1>2, <1>3, <1>4, <1>5 DEF TypeOK, TypedIngest

\* Every variable keeps its type and the two accumulators never part, for every minute length,
\* staleness bound, clock and set of sources (MinuteAccumulator, OptionalAccumulator, Ingest).
THEOREM TypesHold == Spec => []TypeOK
  <1>1. Init => WalkInv
    BY WalkInit
  <1>2. WalkInv /\ [Next]_vars => WalkInv'
    BY WalkStep
  <1>3. WalkInv => TypeOK
    BY WalkTypes
  <1> QED BY <1>1, <1>2, <1>3, PTL DEF Spec

\* No minute closes twice and none is reopened, whatever the clock does: a step appends rows in
\* order, of minutes no earlier than the open one (Recorder._advance and both advance loops).
THEOREM ClosedStaysClosed == Spec => ClosedMinutesStayClosed
  <1> DEFINE A == /\ Len(recorded') >= Len(recorded)
                  /\ \A k \in DOMAIN recorded : recorded'[k] = recorded[k]
                  /\ \A k \in DOMAIN recorded' \ DOMAIN recorded :
                         /\ recorded'[k].ts >= accumulator.first
                         /\ \A j \in 1 .. (k - 1) : recorded'[j].ts < recorded'[k].ts
  <1>1. Init => WalkInv
    BY WalkInit
  <1>2. WalkInv /\ [Next]_vars => WalkInv'
    BY WalkStep
  <1>3. WalkInv /\ [Next]_vars => [A]_vars
    <2> SUFFICES ASSUME WalkInv, [Next]_vars
                 PROVE  A
      OBVIOUS
    <2>1. CASE recorded' = recorded
      <3>1. Len(recorded) \in Nat
        BY DEF WalkInv
      <3> QED BY <2>1, <3>1
    <2>2. CASE Appends(recorded, recorded', accumulator.first)
      BY <2>2 DEF Appends
    <2> QED BY <2>1, <2>2, WalkStep
  <1> QED BY <1>1, <1>2, <1>3, PTL DEF Spec, ClosedMinutesStayClosed
=============================================================================
