----------------------------- MODULE SourceLife -----------------------------
(***************************************************************************)
(* From MQTT events and clock readings to recorded minutes: the source     *)
(* life of Ingest (ingest.py), the canonical and the optional minute       *)
(* accumulators (minute.py, optional_minute.py) and the step of the        *)
(* recorder that drives them, Recorder._advance (recorder.py).             *)
(*                                                                         *)
(* Time is counted in ticks.  A clock reading t is the raw wall clock of   *)
(* one call: it may fall behind an earlier reading a little (two threads   *)
(* read the clock before they take the lock) or a lot (the clock was set   *)
(* back).  One metric stands for the catalog: its sources 1..NSources are  *)
(* in priority order, and a row carries both what a "mean" and what a      *)
(* "last" metric over them would record.  A mean is kept as its            *)
(* time-weighted sum over the minute.  Payloads are already parsed: NONE   *)
(* is a sentinel or a rejected payload.                                    *)
(***************************************************************************)
EXTENDS Integers, Sequences, FiniteSetsExt, SequencesExt

CONSTANTS
    MINUTE,         \* ticks in a minute
    StaleAfter,     \* STALE_AFTER_SECONDS: how long evidence stays fresh
    ClockStepBack,  \* CLOCK_STEP_BACK_SECONDS: a larger fall is a clock step
    NSources,       \* physical sources of the metric, in priority order
    Profiles,       \* optional history profiles, one topic each
    Values,         \* parsed payloads
    Starts,         \* possible readings at process start
    MaxTime,        \* bound on clock readings
    MaxEvents,      \* bound on events that leave a trace in the log
    MaxSteps        \* bound on detected clock steps

\* config.py refuses a STALE_AFTER_SECONDS below 60: evidence outlives a minute.
ASSUME TimeAssumption ==
    /\ MINUTE \in Nat \ {0}
    /\ StaleAfter \in Nat /\ StaleAfter >= MINUTE
    /\ ClockStepBack \in Nat
    /\ MaxTime \in Nat /\ MaxEvents \in Nat /\ MaxSteps \in Nat
    /\ Starts \subseteq 0..MaxTime /\ Starts # {}

ASSUME SourceAssumption ==
    /\ NSources \in Nat
    /\ Values \subseteq Nat

VARIABLES
    ingest,       \* Ingest: connection, LWT, source life, last evidence of each source
    accumulator,  \* MinuteAccumulator
    optional,     \* OptionalAccumulator
    wall,         \* Recorder._last_wall: the previous raw reading
    recorded,     \* the RecordedMinutes handed to the waiting queue, in order
    start,        \* process_start
    latest,       \* environment: the highest reading since the clock was set back
    mqttLatest,   \* environment: the MQTT thread's latest reading since then
    log           \* history: the events applied, with their reading and position

vars == <<ingest, accumulator, optional, wall, recorded, start, latest, mqttLatest, log>>

NONE == -1
Sources == 1..NSources
Readings == 0..MaxTime
FloorMinute(t) == (t \div MINUTE) * MINUTE

-----------------------------------------------------------------------------
(* Ingest: evidence and its freshness.                                     *)

NoEvidence == [seen |-> FALSE, value |-> NONE, at |-> NONE]

NothingHeard ==
    [connected |-> FALSE, offline |-> FALSE, lastLive |-> NONE, aliveSince |-> NONE,
     core |-> [i \in Sources |-> NoEvidence], opt |-> [p \in Profiles |-> NoEvidence]]

\* The source was observed alive at t: connected, not Offline, and the last
\* live message is at most StaleAfter old.
AliveAt(in, t) ==
    /\ in.connected
    /\ ~in.offline
    /\ in.lastLive # NONE
    /\ t - in.lastLive <= StaleAfter

AliveThrough(in, a, b) ==
    /\ in.aliveSince # NONE
    /\ in.aliveSince <= a
    /\ AliveAt(in, b)

\* The value of one source at t: confirmed in this epoch, known and fresh.
Confirmed(in, s, t) ==
    IF /\ in.connected
       /\ ~in.offline
       /\ s.seen
       /\ s.value # NONE
       /\ t < s.at + StaleAfter
    THEN s.value ELSE NONE

\* The first confirmed source in priority order.
Historical(in, t) ==
    LET confirmed == {i \in Sources : Confirmed(in, in.core[i], t) # NONE}
    IN  IF confirmed = {} THEN NONE ELSE in.core[Min(confirmed)].value

\* A slip: the walk looks for the last expiry, not the next one.
ExpiriesLast(sources, t) ==
    LET all == {s.at + StaleAfter : s \in {r \in sources : r.value # NONE}}
    IN  {e \in all : e > t /\ e = Max(all)}

\* When values of these sources stop being fresh, after t.
Expiries(sources, t) ==
    {e \in {s.at + StaleAfter : s \in {r \in sources : r.value # NONE}} : e > t}

\* A slip: the alive interval and its evidence survive.
InvalidateValuesOnly(in) ==
    [in EXCEPT !.core = [i \in Sources |-> [in.core[i] EXCEPT !.value = NONE]],
               !.opt = [p \in Profiles |-> [in.opt[p] EXCEPT !.value = NONE]]]

\* Disconnect, Offline and a clock step: new evidence is needed.
Invalidate(in) ==
    [in EXCEPT !.core = [i \in Sources |-> [in.core[i] EXCEPT !.value = NONE]],
               !.opt = [p \in Profiles |-> [in.opt[p] EXCEPT !.value = NONE]],
               !.lastLive = NONE,
               !.aliveSince = NONE]

RefreshAlive(in, t) ==
    [in EXCEPT !.aliveSince = IF ~AliveAt(in, t) THEN NONE
                              ELSE IF @ = NONE THEN t ELSE @]

\* A slip: an alive interval that went stale unnoticed goes on.
HeardWithoutExpiry(in, i, v, t) ==
    RefreshAlive([in EXCEPT !.core[i] = [seen |-> TRUE, value |-> v, at |-> t], !.lastLive = t], t)

\* A live message: an alive interval that went stale before t ends first.
Heard(in, i, v, t) ==
    LET stale == in.lastLive # NONE /\ t - in.lastLive > StaleAfter
        fresh == [in EXCEPT !.core[i] = [seen |-> TRUE, value |-> v, at |-> t],
                            !.lastLive = t,
                            !.aliveSince = IF stale THEN NONE ELSE @]
    IN  RefreshAlive(fresh, t)

-----------------------------------------------------------------------------
(* The accumulators.  A tally holds what one metric gathered in the open   *)
(* minute: its time-weighted sum, whether every moment had a value, and    *)
(* the value of the last segment.                                          *)

OpenTally(complete) == [sum |-> 0, whole |-> complete, end |-> NONE]

Integrate(tally, v, dt) ==
    IF dt <= 0 THEN tally
    ELSE IF v = NONE THEN [tally EXCEPT !.whole = FALSE, !.end = NONE]
    ELSE [tally EXCEPT !.sum = @ + v * dt, !.end = v]

MeanOf(tally) == IF tally.whole THEN tally.sum ELSE NONE

\* A minute entered after its start has no complete mean.
Opened(cursor, first) ==
    [cursor |-> cursor, first |-> first, valid |-> TRUE,
     tally |-> OpenTally(cursor = first)]

\* A slip: a minute entered after its start counts as observed from it.
OptionalOpenedWhole(cursor, first) ==
    [cursor |-> cursor, first |-> first, valid |-> TRUE,
     tally |-> [p \in Profiles |-> OpenTally(TRUE)]]

OptionalOpened(cursor, first) ==
    [cursor |-> cursor, first |-> first, valid |-> TRUE,
     tally |-> [p \in Profiles |-> OpenTally(cursor = first)]]

\* A slip: the open minute stays valid across a clock step.
DiscardNothing(a) == a

\* The open minute is poisoned unless nothing of it was integrated yet.
DiscardOpen(a) == [a EXCEPT !.valid = @ /\ a.cursor = a.first]

\* The row rule: a valid minute, not before process start, alive throughout.
Closed(in, a) ==
    IF /\ a.valid
       /\ a.first >= start
       /\ AliveThrough(in, a.first, a.first + MINUTE)
    THEN <<[ts |-> a.first, mean |-> MeanOf(a.tally), last |-> a.tally.end]>>
    ELSE <<>>

\* One turn of the canonical loop: skip a dead stretch, or integrate up to
\* the next event, expiry or end of minute.
Turn(in, t, w) ==
    LET a == w.acc
        end == a.first + MINUTE
        stop == Min({t, end} \union Expiries({in.core[i] : i \in Sources}, a.cursor))
        b == [a EXCEPT !.cursor = stop,
                       !.tally = Integrate(@, Historical(in, a.cursor), stop - a.cursor)]
    IN  CASE ~AliveAt(in, a.cursor) /\ t >= end ->
                 [w EXCEPT !.acc = Opened(t, FloorMinute(t))]
          [] (AliveAt(in, a.cursor) \/ t < end) /\ stop = end ->
                 [acc |-> Opened(end, end), rows |-> w.rows \o Closed(in, b)]
          [] OTHER -> [w EXCEPT !.acc = b]

\* One turn of the optional loop: it skips only from a minute's start, and
\* closes a minute whether or not the source lived.
OptionalTurn(in, t, w) ==
    LET a == w.acc
        end == a.first + MINUTE
        stop == Min({t, end} \union Expiries({in.opt[p] : p \in Profiles}, a.cursor))
        value == [p \in Profiles |-> Confirmed(in, in.opt[p], a.cursor)]
        b == [p \in Profiles |-> Integrate(a.tally[p], value[p], stop - a.cursor)]
        row == [ts |-> a.first, mean |-> [p \in Profiles |-> MeanOf(b[p])],
                last |-> [p \in Profiles |-> b[p].end]]
        kept == IF a.valid /\ a.first >= start THEN <<row>> ELSE <<>>
        skips == /\ a.cursor = a.first
                 /\ \A p \in Profiles : value[p] = NONE
                 /\ t >= end
    IN  CASE skips -> [w EXCEPT !.acc = OptionalOpened(t, FloorMinute(t))]
          [] ~skips /\ stop = end ->
                 [acc |-> OptionalOpened(end, end), rows |-> w.rows \o kept]
          [] OTHER -> [w EXCEPT !.acc = [a EXCEPT !.cursor = stop, !.tally = b]]

\* advance(t): turns until the cursor reaches t; each moves it by a tick at least.
Advanced(in, t, a) ==
    LET walk[k \in 0..(t - a.cursor)] ==
            IF k = 0 THEN [acc |-> a, rows |-> <<>>]
            ELSE LET w == walk[k - 1] IN IF w.acc.cursor < t THEN Turn(in, t, w) ELSE w
    IN  walk[t - a.cursor]

\* A slip: one turn, where the loop takes as many as it needs.
OptionalAdvancedOnce(in, t, a) ==
    LET w == [acc |-> a, rows |-> <<>>]
    IN  IF a.cursor < t THEN OptionalTurn(in, t, w) ELSE w

OptionalAdvanced(in, t, a) ==
    LET walk[k \in 0..(t - a.cursor)] ==
            IF k = 0 THEN [acc |-> a, rows |-> <<>>]
            ELSE LET w == walk[k - 1] IN IF w.acc.cursor < t THEN OptionalTurn(in, t, w) ELSE w
    IN  walk[t - a.cursor]

-----------------------------------------------------------------------------
(* Recorder._advance: clock step, clamp, both accumulators, pairing.       *)

SteppedBack(t) == t < wall - ClockStepBack

\* The ingest state the walk sees: without evidence after a clock step.
Detected(t) == IF SteppedBack(t) THEN Invalidate(ingest) ELSE ingest

Poisoned(a, t) == IF SteppedBack(t) THEN DiscardOpen(a) ELSE a

Clamped(t) == IF t < accumulator.cursor THEN accumulator.cursor ELSE t

\* A canonical row with the optional minute closed by the same call, if any.
Paired(row, minutes) ==
    LET same == {k \in DOMAIN minutes : minutes[k].ts = row.ts}
        pick(f) == [p \in Profiles |->
                       IF same = {} THEN NONE ELSE minutes[Min(same)][f][p]]
    IN  [ts |-> row.ts, mean |-> row.mean, last |-> row.last,
         optMean |-> pick("mean"), optLast |-> pick("last")]

\* A slip: the cursor follows the clock back, to close its minutes again.
AdvanceRewound(t) ==
    LET back(a) == IF SteppedBack(t) THEN [a EXCEPT !.cursor = t, !.first = FloorMinute(t)] ELSE a
        core == Advanced(Detected(t), t, back(accumulator))
        opt == OptionalAdvanced(Detected(t), t, back(optional))
    IN  /\ accumulator' = core.acc
        /\ optional' = opt.acc
        /\ recorded' = recorded \o [k \in DOMAIN core.rows |-> Paired(core.rows[k], opt.rows)]
        /\ wall' = t
        /\ UNCHANGED start

Advance(t) ==
    LET core == Advanced(Detected(t), Clamped(t), Poisoned(accumulator, t))
        opt == OptionalAdvanced(Detected(t), Clamped(t), Poisoned(optional, t))
    IN  /\ accumulator' = core.acc
        /\ optional' = opt.acc
        /\ recorded' = recorded \o [k \in DOMAIN core.rows |-> Paired(core.rows[k], opt.rows)]
        /\ wall' = t
        /\ UNCHANGED start

-----------------------------------------------------------------------------
(* The environment's readings and the log of what was applied.             *)

Steps == Cardinality({k \in DOMAIN log : log[k].kind = "step"})

\* The last of these entries of one of these kinds; 0 if there is none.
LastIn(I, kinds) == Max({0} \union {k \in I : log[k].kind \in kinds})

Entry(kind, t, c, src, v) == [kind |-> kind, t |-> t, c |-> c, src |-> src, value |-> v]

StepEntry(t) ==
    IF SteppedBack(t) THEN <<Entry("step", t, accumulator.cursor, NONE, NONE)>> ELSE <<>>

Applied(kind, src, v, t) ==
    /\ Len(log) < MaxEvents
    /\ log' = log \o StepEntry(t) \o <<Entry(kind, t, Clamped(t), src, v)>>

\* A reading was taken at most ClockStepBack before the latest one (a thread
\* reads the clock, then waits for the lock), or the clock was set back.
Reading(t) ==
    \/ /\ SteppedBack(t)
       /\ Steps < MaxSteps
       /\ latest' = t
    \/ /\ ~SteppedBack(t)
       /\ t >= latest - ClockStepBack
       /\ latest' = Max({t, latest})

\* The MQTT thread reads one clock: its reading is not below its earlier ones, unless the
\* clock was set back since.
MqttReading(t) ==
    /\ Reading(t)
    /\ SteppedBack(t) \/ t >= mqttLatest
    /\ mqttLatest' = t

-----------------------------------------------------------------------------
(* The entry points of the recorder.  Each advances to its reading first   *)
(* and then applies its event (Detected is what Advance leaves of ingest). *)

\* on_connect: a new epoch, nothing carries over.
Connect(t) ==
    /\ ~ingest.connected
    /\ MqttReading(t)
    /\ Applied("connect", NONE, NONE, t)
    /\ Advance(t)
    /\ ingest' = [NothingHeard EXCEPT !.connected = TRUE]

\* on_disconnect: a failed connect attempt ends no epoch.
Disconnect(t) ==
    /\ MqttReading(t)
    /\ \/ /\ ingest.connected
          /\ Applied("disconnect", NONE, NONE, t)
          /\ ingest' = [Invalidate(ingest) EXCEPT !.connected = FALSE]
       \/ /\ ~ingest.connected
          /\ ingest' = Detected(t)
          /\ log' = log \o StepEntry(t)
    /\ Advance(t)

\* on_lwt: Offline drops the evidence; any payload is followed by a refresh.
\* Payloads other than Offline are all alike.
Lwt(state, t) ==
    /\ ingest.connected
    /\ MqttReading(t)
    /\ IF state = "Offline" \/ ingest.offline
       THEN Applied(state, NONE, NONE, t)
       ELSE log' = log \o StepEntry(t)
    /\ Advance(t)
    /\ LET in == [Detected(t) EXCEPT !.offline = (state = "Offline")]
       IN  ingest' = RefreshAlive(IF state = "Offline" THEN Invalidate(in) ELSE in, t)

\* on_message for a core topic: a retained delivery is no evidence.
Message(i, v, retained, t) ==
    /\ ingest.connected
    /\ MqttReading(t)
    /\ \/ /\ retained
          /\ ingest' = Detected(t)
          /\ log' = log \o StepEntry(t)
       \/ /\ ~retained
          /\ Applied("live", i, v, t)
          /\ ingest' = Heard(Detected(t), i, v, t)
    /\ Advance(t)

\* on_message for an optional topic: it says nothing of source life.
OptionalMessage(p, v, t) ==
    /\ ingest.connected
    /\ MqttReading(t)
    /\ Applied("optional", p, v, t)
    /\ Advance(t)
    /\ ingest' = [Detected(t) EXCEPT !.opt[p] = [seen |-> TRUE, value |-> v, at |-> t]]

\* tick: the recorder thread reads the clock and closes due minutes.
Tick(t) ==
    /\ Reading(t)
    /\ mqttLatest' = IF SteppedBack(t) THEN 0 ELSE mqttLatest
    /\ Advance(t)
    /\ ingest' = Detected(t)
    /\ log' = log \o StepEntry(t)

Init ==
    /\ start \in Starts
    /\ ingest = NothingHeard
    /\ accumulator = Opened(start, FloorMinute(start))
    /\ optional = OptionalOpened(start, FloorMinute(start))
    /\ wall = start
    /\ latest = start
    /\ mqttLatest = 0
    /\ recorded = <<>>
    /\ log = <<>>

Next == \E t \in Readings :
    \/ Connect(t)
    \/ Disconnect(t)
    \/ \E state \in {"Online", "Offline"} : Lwt(state, t)
    \/ \E i \in Sources, v \in Values \union {NONE}, retained \in BOOLEAN : Message(i, v, retained, t)
    \/ \E p \in Profiles, v \in Values \union {NONE} : OptionalMessage(p, v, t)
    \/ Tick(t)

Spec == Init /\ [][Next]_vars

-----------------------------------------------------------------------------
(* What was observed, read off the log alone.  An entry's t is the raw     *)
(* reading of the event, its c the position of the cursor it was applied   *)
(* at.  Source life is a matter of readings, values one of positions.      *)

Breaks == {"connect", "disconnect", "Offline", "step"}

\* The entries applied before minute m closed, and the last step among them.
BeforeClose(m) == {k \in DOMAIN log : log[k].c < m + MINUTE}
LastStep(m) == LastIn(BeforeClose(m), {"step"})

\* Unit u of minute m was observed alive: connected and not Offline from its
\* start, with a live message since the last break that is still fresh at its end.
ObservedAlive(m, u) ==
    LET known == {k \in BeforeClose(m) : k <= LastStep(m) \/ log[k].t <= u}
        conn == LastIn(known, {"connect", "disconnect"})
        lwt == LastIn(known, {"connect", "Online", "Offline"})
    IN  /\ conn # 0 /\ log[conn].kind = "connect"
        /\ log[lwt].kind # "Offline"
        /\ \E k \in known : /\ log[k].kind = "live"
                            /\ k > LastIn(known, Breaks)
                            /\ u + 1 <= log[k].t + StaleAfter

Inside(x, m) == m < x /\ x < m + MINUTE

RowDue(m) ==
    /\ m >= start
    /\ \A k \in BeforeClose(m) :
           /\ log[k].kind = "step" => ~Inside(log[k].c, m)
           /\ log[k].kind \in Breaks /\ k > LastStep(m) => ~Inside(log[k].t, m)
    /\ \A u \in m..(m + MINUTE - 1) : ObservedAlive(m, u)

\* The value one topic's latest live message gives unit u.
ValueAt(u, kind, src) ==
    LET known == {k \in DOMAIN log : log[k].c <= u}
        newest == Max({0} \union {k \in known : log[k].kind = kind /\ log[k].src = src})
    IN  IF newest > LastIn(known, Breaks) /\ u < log[newest].t + StaleAfter
           /\ LET lwt == LastIn(known, {"connect", "Online", "Offline"})
              IN  lwt # 0 /\ log[lwt].kind # "Offline"
        THEN log[newest].value ELSE NONE

CoreAt(u) ==
    LET known == {i \in Sources : ValueAt(u, "live", i) # NONE}
    IN  IF known = {} THEN NONE ELSE ValueAt(u, "live", Min(known))

OptionalAt(u, p) == ValueAt(u, "optional", p)

\* What a mean records of a minute whose units have these values.
MeanOver(m, At(_)) ==
    LET total[k \in 0..MINUTE] == IF k = 0 THEN 0 ELSE total[k - 1] + At(m + k - 1)
    IN  IF \E u \in m..(m + MINUTE - 1) : At(u) = NONE THEN NONE ELSE total[MINUTE]

Minutes == {m \in Readings : m % MINUTE = 0}

-----------------------------------------------------------------------------
(* Properties.                                                             *)

MaybeTime == Readings \union {NONE}
MaybeValue == Values \union {NONE}
Evidence == [seen : BOOLEAN, value : MaybeValue, at : MaybeTime]
Tally == [sum : Nat, whole : BOOLEAN, end : MaybeValue]

\* Every variable holds values of its kind, and both accumulators stand at
\* one position, inside their open minute.
TypeOK ==
    /\ ingest \in [connected : BOOLEAN, offline : BOOLEAN, lastLive : MaybeTime,
                   aliveSince : MaybeTime, core : [Sources -> Evidence], opt : [Profiles -> Evidence]]
    /\ accumulator \in [cursor : Readings, first : Readings, valid : BOOLEAN, tally : Tally]
    /\ optional \in [cursor : Readings, first : Readings, valid : BOOLEAN, tally : [Profiles -> Tally]]
    /\ optional.cursor = accumulator.cursor
    /\ optional.first = accumulator.first
    /\ accumulator.first = FloorMinute(accumulator.cursor)
    /\ {wall, start, latest, mqttLatest} \subseteq Readings

\* A minute behind the cursor has a row exactly if the source was observed
\* alive for all of it and no disconnect, Offline or clock step fell inside
\* it (the row rule of _close, with the skipping and lazy expiry around it).
RowsMatchLife ==
    \A m \in Minutes : m + MINUTE <= accumulator.cursor =>
        ((\E k \in DOMAIN recorded : recorded[k].ts = m) <=> RowDue(m))

\* A row's mean and last value are those of the best confirmed, fresh source
\* of every moment of its minute, whatever the segments of the walk were.
MeansMatchEvidence ==
    \A k \in DOMAIN recorded :
        LET m == recorded[k].ts
        IN  /\ recorded[k].mean = MeanOver(m, CoreAt)
            /\ recorded[k].last = CoreAt(m + MINUTE - 1)

\* The optional values committed with a row are those of the same minute:
\* the two accumulators never drift apart, also when one of them skips.
OptionalMatchEvidence ==
    \A k \in DOMAIN recorded, p \in Profiles :
        LET m == recorded[k].ts
            At(u) == OptionalAt(u, p)
        IN  /\ recorded[k].optMean[p] = MeanOver(m, At)
            /\ recorded[k].optLast[p] = At(m + MINUTE - 1)

\* A step only appends rows, of minutes no earlier than the one that was
\* open, in order: after the clock falls back no minute closes again.
ClosedMinutesStayClosed ==
    [][ /\ Len(recorded') >= Len(recorded)
        /\ \A k \in DOMAIN recorded : recorded'[k] = recorded[k]
        /\ \A k \in DOMAIN recorded' \ DOMAIN recorded :
               /\ recorded'[k].ts >= accumulator.first
               /\ \A j \in 1..(k - 1) : recorded'[j].ts < recorded'[k].ts ]_vars

\* Evidence hangs together: the life evidence is the message some source of
\* this epoch heard, and no value is confirmed without it.
EvidenceTogether(in) ==
    /\ in.lastLive # NONE =>
           \E i \in Sources : in.core[i].seen /\ in.core[i].at = in.lastLive
    /\ \A i \in Sources :
           in.core[i].value # NONE => in.core[i].seen /\ in.lastLive # NONE

\* Source life rests on evidence: an alive interval exists only while
\* connected and not Offline with life evidence, whatever order the
\* connects, Offlines, clock steps and messages came in.
LifeHasEvidence ==
    /\ ingest.aliveSince # NONE => ingest.connected /\ ~ingest.offline /\ ingest.lastLive # NONE
    /\ EvidenceTogether(ingest)

\* What the comment beside Ingest.last_live_at says: life evidence is a
\* live message of the current epoch while the source is not Offline.
LifeEvidenceNotOffline == ingest.offline => ingest.lastLive = NONE
=============================================================================
