------------------------ MODULE SourceLifeRowProofs ------------------------
(***************************************************************************)
(* What the recorded minutes say, for every value of the constants: which  *)
(* minutes become rows, and what their rows hold, against the log of what  *)
(* was applied.                                                            *)
(*                                                                         *)
(* First the readings of a log, whole or cut at a minute, and what one     *)
(* more entry changes.  Then the ingest state as the log's summary, which  *)
(* every entry point keeps.  Then the walks: what a turn gathers is what   *)
(* that summary says of the ticks it passes.  Last the step of _advance,   *)
(* which closes minutes by the one and fills them by the other.            *)
(***************************************************************************)
EXTENDS SourceLifeProofs

-----------------------------------------------------------------------------
(* The last entry of a kind.                                               *)

\* The readings of SourceLife with the log g and the entries I as parameters.
LastOf(g, I, kinds) == Max({0} \union {k \in I : g[k].kind \in kinds})
NewestOf(g, I, kind, src) == Max({0} \union {k \in I : g[k].kind = kind /\ g[k].src = src})

\* x is the greatest of T, a set of positive numbers; 0 if it has none.
IsTop(x, T) ==
    /\ x \in Nat /\ \A y \in T : y <= x
    /\ x # 0 => x \in T

LEMMA TopExists ==
  ASSUME NEW n \in Nat, NEW T, T \subseteq 1 .. n
  PROVE  IsTop(Max({0} \union T), T)
  <1> DEFINE U == {0} \union T
  <1>1. \A y \in T : y \in Nat /\ y <= n
    OBVIOUS
  <1>2. U \subseteq 0 .. n /\ U # {} /\ \A y \in U : y \in Nat /\ y <= n
    BY <1>1
  <1> HIDE DEF U
  <1>3. \E x \in U : \A y \in U : y <= x
    BY <1>2, GridAssumption, Grid!GreatestNat
  <1>4. \E x \in U : \A y \in U : x >= y
    BY <1>2, <1>3
  <1>5. Max(U) \in U /\ \A y \in U : Max(U) >= y
    BY <1>4 DEF Max
  <1>6. Max(U) \in Nat /\ \A y \in U : y <= Max(U)
    BY <1>2, <1>5
  <1> QED BY <1>5, <1>6 DEF U, IsTop

\* Two tops of one set are the same.
LEMMA TopIsOne ==
  ASSUME NEW n \in Nat, NEW T, T \subseteq 1 .. n, NEW x, IsTop(x, T)
  PROVE  Max({0} \union T) = x
  <1> DEFINE y == Max({0} \union T)
  <1>1. IsTop(y, T)
    BY TopExists
  <1> HIDE DEF y
  <1>2. x \in Nat /\ y \in Nat /\ (x # 0 => x <= y) /\ (y # 0 => y <= x)
    BY <1>1 DEF IsTop
  <1> QED BY <1>2 DEF y

LEMMA NewestOfTop ==
  ASSUME NEW n \in Nat, NEW I, I \subseteq 1 .. n, NEW g, NEW kind, NEW src
  PROVE  IsTop(NewestOf(g, I, kind, src), {k \in I : g[k].kind = kind /\ g[k].src = src})
  <1> DEFINE T == {k \in I : g[k].kind = kind /\ g[k].src = src}
  <1>1. T \subseteq 1 .. n
    OBVIOUS
  <1> HIDE DEF T
  <1>2. IsTop(Max({0} \union T), T)
    BY <1>1, TopExists
  <1> QED BY <1>2 DEF T, NewestOf

\* What the last entry of some kinds is, in words a step can use.
LEMMA LastOfFacts ==
  ASSUME NEW n \in Nat, NEW I, I \subseteq 1 .. n, NEW g, NEW kinds
  PROVE  /\ LastOf(g, I, kinds) \in Nat
         /\ LastOf(g, I, kinds) # 0 =>
                LastOf(g, I, kinds) \in I /\ g[LastOf(g, I, kinds)].kind \in kinds
         /\ \A k \in I : g[k].kind \in kinds => k <= LastOf(g, I, kinds)
  <1> DEFINE T == {k \in I : g[k].kind \in kinds}
             x == LastOf(g, I, kinds)
  <1>1. IsTop(x, T)
    <2>1. T \subseteq 1 .. n /\ x = Max({0} \union T)
      BY DEF LastOf
    <2> HIDE DEF T, x
    <2> QED BY <2>1, TopExists
  <1>2. \A k \in I : g[k].kind \in kinds => k \in T
    OBVIOUS
  <1>3. x \in T => x \in I /\ g[x].kind \in kinds
    OBVIOUS
  <1> HIDE DEF T, x
  <1>4. x \in Nat /\ (x # 0 => x \in T) /\ \A k \in T : k <= x
    BY <1>1 DEF IsTop
  <1> QED BY <1>2, <1>3, <1>4 DEF x

\* Entries that read alike have the same last.
LEMMA LastOfIs ==
  ASSUME NEW n \in Nat, NEW I, I \subseteq 1 .. n, NEW g, NEW kinds, NEW x \in Nat,
         x # 0 => x \in I /\ g[x].kind \in kinds,
         \A k \in I : g[k].kind \in kinds => k <= x
  PROVE  LastOf(g, I, kinds) = x
  <1> DEFINE T == {k \in I : g[k].kind \in kinds}
  <1>1. T \subseteq 1 .. n /\ IsTop(x, T)
    BY DEF IsTop
  <1> HIDE DEF T
  <1>2. Max({0} \union T) = x
    BY <1>1, TopIsOne
  <1> QED BY <1>2 DEF T, LastOf

-----------------------------------------------------------------------------
(* Logs.                                                                   *)

EventKinds == {"connect", "disconnect", "Online", "Offline", "live", "optional", "step"}
LogEntry == [kind : EventKinds, t : Readings, c : Readings,
             src : Sources \union Profiles \union {NONE}, value : MaybeValue]

\* h is the log g with one more entry e.
OneMore(g, h, e) ==
    /\ g \in Seq(LogEntry) /\ h \in Seq(LogEntry) /\ e \in LogEntry
    /\ Len(g) \in Nat /\ DOMAIN g = 1 .. Len(g) /\ DOMAIN h = 1 .. (Len(g) + 1)
    /\ h[Len(g) + 1] = e
    /\ \A k \in 1 .. Len(g) : h[k] = g[k]

LEMMA OneMoreEntry ==
  ASSUME NEW g \in Seq(LogEntry), NEW e \in LogEntry
  PROVE  OneMore(g, g \o <<e>>, e)
  <1> DEFINE h == g \o <<e>>
             n == Len(g)
  <1>1. /\ h \in Seq(LogEntry) /\ n \in Nat /\ DOMAIN g = 1 .. n /\ DOMAIN h = 1 .. (n + 1)
        /\ h[n + 1] = e
    OBVIOUS
  <1>2. \A k \in 1 .. n : h[k] = g[k]
    OBVIOUS
  <1> HIDE DEF h, n
  <1> QED BY <1>1, <1>2 DEF OneMore, h, n

LEMMA LastGrows ==
  ASSUME NEW g, NEW h, NEW e, OneMore(g, h, e), NEW kinds
  PROVE  LastOf(h, DOMAIN h, kinds) =
             IF e.kind \in kinds THEN Len(g) + 1 ELSE LastOf(g, DOMAIN g, kinds)
  <1> DEFINE n == Len(g)
             x == LastOf(g, DOMAIN g, kinds)
             T == {k \in 1 .. (n + 1) : h[k].kind \in kinds}
  <1>1. /\ n \in Nat /\ DOMAIN g = 1 .. n /\ DOMAIN h = 1 .. (n + 1) /\ h[n + 1] = e
        /\ \A k \in 1 .. n : h[k] = g[k]
    BY DEF OneMore
  <1>2. x \in Nat /\ (x # 0 => x \in 1 .. n /\ g[x].kind \in kinds)
          /\ \A k \in 1 .. n : g[k].kind \in kinds => k <= x
    <2>1. DOMAIN g \subseteq 1 .. n
      BY <1>1
    <2> QED BY <1>1, <2>1, LastOfFacts
  <1> HIDE DEF n, x
  <1>3. n + 1 \in Nat /\ DOMAIN h \subseteq 1 .. (n + 1)
    BY <1>1
  <1>4. CASE e.kind \in kinds
    <2>1. n + 1 \in DOMAIN h /\ h[n + 1].kind \in kinds /\ \A k \in DOMAIN h : k <= n + 1
      BY <1>1, <1>4
    <2>2. LastOf(h, DOMAIN h, kinds) = n + 1
      BY <1>3, <2>1, LastOfIs
    <2> QED BY <1>4, <2>2 DEF n
  <1>5. CASE e.kind \notin kinds
    <2>1. x # 0 => x \in DOMAIN h /\ h[x].kind \in kinds
      BY <1>1, <1>2
    <2>2. ASSUME NEW k \in DOMAIN h, h[k].kind \in kinds
          PROVE  k <= x
      <3>1. k # n + 1
        BY <1>1, <1>5, <2>2
      <3>2. k \in 1 .. n
        BY <1>1, <3>1
      <3> QED BY <1>1, <1>2, <2>2, <3>2
    <2>3. LastOf(h, DOMAIN h, kinds) = x
      BY <1>2, <1>3, <2>1, <2>2, LastOfIs
    <2> QED BY <1>5, <2>3 DEF x
  <1> QED BY <1>4, <1>5

LEMMA NewestGrows ==
  ASSUME NEW g, NEW h, NEW e, OneMore(g, h, e), NEW kind, NEW src
  PROVE  NewestOf(h, DOMAIN h, kind, src) =
             IF e.kind = kind /\ e.src = src THEN Len(g) + 1 ELSE NewestOf(g, DOMAIN g, kind, src)
  <1> DEFINE n == Len(g)
             x == NewestOf(g, DOMAIN g, kind, src)
             S == {k \in DOMAIN g : g[k].kind = kind /\ g[k].src = src}
             T == {k \in DOMAIN h : h[k].kind = kind /\ h[k].src = src}
  <1>1. /\ n \in Nat /\ DOMAIN g = 1 .. n /\ DOMAIN h = 1 .. (n + 1) /\ h[n + 1] = e
        /\ \A k \in 1 .. n : h[k] = g[k]
    BY DEF OneMore
  <1>2. IsTop(x, S)
    <2>1. DOMAIN g \subseteq 1 .. n
      BY <1>1
    <2> QED BY <1>1, <2>1, NewestOfTop
  <1>3. n + 1 \in Nat /\ T \subseteq 1 .. (n + 1) /\ \A k \in T : k <= n + 1 /\ k \in Nat
    BY <1>1
  <1>4. NewestOf(h, DOMAIN h, kind, src) = Max({0} \union T)
    BY DEF NewestOf
  <1> HIDE DEF x, n
  <1>5. CASE e.kind = kind /\ e.src = src
    <2>1. n + 1 \in T
      BY <1>1, <1>5
    <2> HIDE DEF T
    <2>2. IsTop(n + 1, T)
      BY <1>3, <2>1 DEF IsTop
    <2>3. Max({0} \union T) = n + 1
      BY <1>3, <2>2, TopIsOne
    <2> QED BY <1>4, <1>5, <2>3 DEF n
  <1>6. CASE ~(e.kind = kind /\ e.src = src)
    <2>1. T \subseteq S
      <3> SUFFICES ASSUME NEW k \in T
                   PROVE  k \in S
        OBVIOUS
      <3>1. k # n + 1
        BY <1>1, <1>6
      <3>2. k \in 1 .. n
        BY <1>1, <3>1
      <3> QED BY <1>1, <3>2
    <2>2. S \subseteq T
      BY <1>1
    <2>3. S = T
      BY <2>1, <2>2
    <2> HIDE DEF S, T
    <2>4. Max({0} \union T) = x
      BY <1>2, <1>3, <2>3, TopIsOne
    <2> QED BY <1>4, <1>6, <2>4 DEF x
  <1> QED BY <1>5, <1>6

-----------------------------------------------------------------------------
(* A unit observed alive, and what the ingest state says of it.            *)

StepOf(g) == LastOf(g, DOMAIN g, {"step"})
BreakOf(g) == LastOf(g, DOMAIN g, Breaks)
ConnOf(g) == LastOf(g, DOMAIN g, {"connect", "disconnect"})
LwtOf(g) == LastOf(g, DOMAIN g, {"connect", "Online", "Offline"})

\* The entries of I known by reading u; ObservedAlive over known entries K.
KnownAt(g, I, u) == {k \in I : k <= LastOf(g, I, {"step"}) \/ g[k].t <= u}

AliveOver(g, K, u) ==
    LET conn == LastOf(g, K, {"connect", "disconnect"})
        lwt == LastOf(g, K, {"connect", "Online", "Offline"})
    IN  /\ conn # 0 /\ g[conn].kind = "connect"
        /\ g[lwt].kind # "Offline"
        /\ \E k \in K : /\ g[k].kind = "live"
                        /\ k > LastOf(g, K, Breaks)
                        /\ u + 1 <= g[k].t + StaleAfter

AliveIn(g, u) == AliveOver(g, KnownAt(g, DOMAIN g, u), u)

\* The ingest state holds what the log's entries leave of connection, LWT and life evidence.
Reflects(g, in) ==
    /\ in.connected <=> ConnOf(g) # 0 /\ g[ConnOf(g)].kind = "connect"
    /\ in.offline <=> LwtOf(g) # 0 /\ g[LwtOf(g)].kind = "Offline"
    /\ in.lastLive # NONE =>
           \E k \in DOMAIN g : g[k].kind = "live" /\ k > BreakOf(g) /\ g[k].t = in.lastLive
    /\ \A k \in DOMAIN g : g[k].kind = "live" /\ k > BreakOf(g) =>
           in.lastLive # NONE /\ g[k].t <= in.lastLive
    /\ ~in.connected => \A k \in DOMAIN g : k > BreakOf(g) => g[k].kind \notin {"live", "optional"}

\* The MQTT thread's readings since the last step, the latest being x.
Past(g, x) == \A k \in DOMAIN g : k > StepOf(g) => g[k].t <= x

\* A break since the last clock step, by reading x and at it.
BreaksBy(g, x) == \A k \in DOMAIN g : g[k].kind \in Breaks /\ k > StepOf(g) => g[k].t <= x
BreakAt(g, x) == \E k \in DOMAIN g : g[k].kind \in Breaks /\ k > StepOf(g) /\ g[k].t = x

\* The evidence of this state covers unit u.
Covers(in, u) ==
    in.connected /\ ~in.offline /\ in.lastLive # NONE /\ u + 1 <= in.lastLive + StaleAfter

LEMMA LogShape ==
  ASSUME NEW g \in Seq(LogEntry)
  PROVE  /\ Len(g) \in Nat /\ DOMAIN g = 1 .. Len(g)
         /\ \A k \in DOMAIN g : /\ k \in Nat /\ k > 0 /\ g[k] \in LogEntry
                                /\ g[k].t \in Nat /\ g[k].c \in Nat
                                /\ g[k].kind \in EventKinds /\ g[k].value \in MaybeValue
  <1>1. Len(g) \in Nat /\ DOMAIN g = 1 .. Len(g)
    OBVIOUS
  <1>2. \A k \in 1 .. Len(g) : k \in Nat /\ k > 0 /\ g[k] \in LogEntry
    OBVIOUS
  <1>3. \A e \in LogEntry : e.t \in Nat /\ e.c \in Nat /\ e.kind \in EventKinds /\ e.value \in MaybeValue
    BY TimeAssumption DEF LogEntry, Readings
  <1> QED BY <1>1, <1>2, <1>3

\* The last entries of a log are among its entries.
LEMMA WholeFacts ==
  ASSUME NEW g \in Seq(LogEntry), NEW kinds
  PROVE  /\ LastOf(g, DOMAIN g, kinds) \in Nat /\ LastOf(g, DOMAIN g, kinds) <= Len(g)
         /\ LastOf(g, DOMAIN g, kinds) # 0 =>
                LastOf(g, DOMAIN g, kinds) \in DOMAIN g /\ g[LastOf(g, DOMAIN g, kinds)].kind \in kinds
         /\ \A k \in DOMAIN g : g[k].kind \in kinds => k <= LastOf(g, DOMAIN g, kinds)
  <1> DEFINE x == LastOf(g, DOMAIN g, kinds)
  <1>1. Len(g) \in Nat /\ DOMAIN g = 1 .. Len(g)
    OBVIOUS
  <1>2. /\ x \in Nat
        /\ x # 0 => x \in DOMAIN g /\ g[x].kind \in kinds
        /\ \A k \in DOMAIN g : g[k].kind \in kinds => k <= x
    <2>1. DOMAIN g \subseteq 1 .. Len(g)
      BY <1>1
    <2> QED BY <1>1, <2>1, LastOfFacts
  <1> HIDE DEF x
  <1>3. x <= Len(g)
    BY <1>1, <1>2
  <1> QED BY <1>2, <1>3 DEF x

\* A log cut to entries that hold the last of some kinds has the same last.
LEMMA CutKeepsLast ==
  ASSUME NEW g \in Seq(LogEntry), NEW K, K \subseteq DOMAIN g, NEW kinds,
         LastOf(g, DOMAIN g, kinds) # 0 => LastOf(g, DOMAIN g, kinds) \in K
  PROVE  LastOf(g, K, kinds) = LastOf(g, DOMAIN g, kinds)
  <1> DEFINE x == LastOf(g, DOMAIN g, kinds)
  <1>1. /\ x \in Nat
        /\ x # 0 => g[x].kind \in kinds
        /\ \A k \in DOMAIN g : g[k].kind \in kinds => k <= x
    BY WholeFacts
  <1>2. Len(g) \in Nat /\ K \subseteq 1 .. Len(g)
    BY LogShape
  <1>3. x # 0 => x \in K
    OBVIOUS
  <1> HIDE DEF x
  <1>4. LastOf(g, K, kinds) = x
    BY <1>1, <1>2, <1>3, LastOfIs
  <1> QED BY <1>4 DEF x

\* From the latest reading on, a unit the evidence covers was observed alive.
LEMMA CoveredIsAlive ==
  ASSUME NEW g \in Seq(LogEntry), NEW in \in TypedIngest, Reflects(g, in), NEW x \in Nat, Past(g, x),
         NEW u \in Nat, x <= u, Covers(in, u)
  PROVE  AliveIn(g, u)
  <1>1. KnownAt(g, DOMAIN g, u) = DOMAIN g
    <2>1. LastOf(g, DOMAIN g, {"step"}) \in Nat
      BY WholeFacts
    <2>2. \A k \in DOMAIN g : k \in Nat /\ g[k].t \in Nat
      BY LogShape
    <2>3. ASSUME NEW k \in DOMAIN g, ~(k <= LastOf(g, DOMAIN g, {"step"}))
          PROVE  g[k].t <= u
      <3>1. g[k].t <= x
        BY <2>1, <2>2, <2>3 DEF Past, StepOf
      <3> QED BY <2>2, <3>1
    <2> QED BY <2>3 DEF KnownAt
  <1>2. ConnOf(g) # 0 /\ g[ConnOf(g)].kind = "connect"
    BY DEF Reflects, Covers
  <1>3. ~(LwtOf(g) # 0 /\ g[LwtOf(g)].kind = "Offline")
    BY DEF Reflects, Covers
  <1>4. LwtOf(g) # 0
    <2>1. ConnOf(g) \in DOMAIN g
      BY <1>2, WholeFacts DEF ConnOf
    <2>2. ConnOf(g) <= LwtOf(g)
      BY <1>2, <2>1, WholeFacts DEF LwtOf
    <2> QED BY <2>1, <2>2, LogShape
  <1>5. PICK k \in DOMAIN g : g[k].kind = "live" /\ k > BreakOf(g) /\ g[k].t = in.lastLive
    BY DEF Reflects, Covers
  <1>6. u + 1 <= g[k].t + StaleAfter
    BY <1>5 DEF Covers
  <1> QED BY <1>1, <1>2, <1>3, <1>4, <1>5, <1>6 DEF AliveIn, AliveOver, ConnOf, LwtOf, BreakOf

\* A unit observed alive after the last break is covered by the evidence.
LEMMA AliveIsCovered ==
  ASSUME NEW g \in Seq(LogEntry), NEW in \in TypedIngest, Reflects(g, in),
         NEW u \in Nat, BreaksBy(g, u), AliveIn(g, u)
  PROVE  Covers(in, u)
  <1> DEFINE K == KnownAt(g, DOMAIN g, u)
  <1>1. K \subseteq DOMAIN g /\ \A k \in DOMAIN g : g[k].kind \in Breaks => k \in K
    <2>1. LastOf(g, DOMAIN g, {"step"}) \in Nat
      BY WholeFacts
    <2>2. \A k \in DOMAIN g : k \in Nat
      BY LogShape
    <2> QED BY <2>1, <2>2 DEF KnownAt, BreaksBy, StepOf
  <1>2. /\ LastOf(g, K, {"connect", "disconnect"}) # 0
        /\ g[LastOf(g, K, {"connect", "disconnect"})].kind = "connect"
        /\ g[LastOf(g, K, {"connect", "Online", "Offline"})].kind # "Offline"
        /\ \E k \in K : /\ g[k].kind = "live" /\ k > LastOf(g, K, Breaks)
                        /\ u + 1 <= g[k].t + StaleAfter
    BY DEF AliveIn, AliveOver
  <1> HIDE DEF K
  <1>3. LastOf(g, K, {"connect", "disconnect"}) = ConnOf(g)
    <2>1. ConnOf(g) # 0 => ConnOf(g) \in K
      BY <1>1, WholeFacts DEF ConnOf, Breaks
    <2> QED BY <1>1, <2>1, CutKeepsLast DEF ConnOf
  <1>4. LastOf(g, K, Breaks) = BreakOf(g)
    <2>1. BreakOf(g) # 0 => BreakOf(g) \in K
      BY <1>1, WholeFacts DEF BreakOf
    <2> QED BY <1>1, <2>1, CutKeepsLast DEF BreakOf
  <1>5. in.connected
    BY <1>2, <1>3 DEF Reflects
  <1>6. ~in.offline
    <2> SUFFICES ASSUME in.offline
                 PROVE  FALSE
      OBVIOUS
    <2>1. LwtOf(g) # 0 /\ g[LwtOf(g)].kind = "Offline"
      BY DEF Reflects
    <2>2. LwtOf(g) \in K
      BY <1>1, <2>1, WholeFacts DEF LwtOf, Breaks
    <2>3. LastOf(g, K, {"connect", "Online", "Offline"}) = LwtOf(g)
      BY <1>1, <2>2, CutKeepsLast DEF LwtOf
    <2> QED BY <1>2, <2>1, <2>3
  <1>7. PICK k \in K : g[k].kind = "live" /\ k > BreakOf(g) /\ u + 1 <= g[k].t + StaleAfter
    BY <1>2, <1>4
  <1>8. k \in DOMAIN g /\ g[k].t \in Nat /\ in.lastLive # NONE /\ g[k].t <= in.lastLive
    BY <1>1, <1>7, LogShape DEF Reflects
  <1>9. u + 1 <= in.lastLive + StaleAfter
    <2>1. in.lastLive \in Int
      BY EvidenceTypes DEF TypedIngest, MaybeTime, NONE
    <2> QED BY <1>7, <1>8, <2>1, TimeAssumption
  <1> QED BY <1>5, <1>6, <1>8, <1>9 DEF Covers

\* What was observed does not depend on entries that are not known.
Agree(g, h, K) == \A k \in K : h[k] = g[k]

LEMMA LastAgrees ==
  ASSUME NEW g, NEW h, NEW K, Agree(g, h, K), NEW kinds
  PROVE  LastOf(h, K, kinds) = LastOf(g, K, kinds)
  <1>1. {k \in K : h[k].kind \in kinds} = {k \in K : g[k].kind \in kinds}
    BY DEF Agree
  <1> QED BY <1>1 DEF LastOf

LEMMA AliveAgrees ==
  ASSUME NEW n \in Nat, NEW K, K \subseteq 1 .. n, NEW g, NEW h, Agree(g, h, K), NEW u
  PROVE  AliveOver(h, K, u) <=> AliveOver(g, K, u)
  <1> DEFINE conn == LastOf(g, K, {"connect", "disconnect"})
             lwt == LastOf(g, K, {"connect", "Online", "Offline"})
             brk == LastOf(g, K, Breaks)
  <1>1. /\ LastOf(h, K, {"connect", "disconnect"}) = conn
        /\ LastOf(h, K, {"connect", "Online", "Offline"}) = lwt
        /\ LastOf(h, K, Breaks) = brk
    BY LastAgrees
  <1>2. conn # 0 => conn \in K
    BY LastOfFacts
  <1>3. conn # 0 /\ g[conn].kind = "connect" => lwt \in K
    <2>1. SUFFICES ASSUME conn # 0, g[conn].kind = "connect"
                   PROVE  lwt \in K
      OBVIOUS
    <2>2. conn \in Nat /\ lwt \in Nat /\ (lwt # 0 => lwt \in K)
      BY LastOfFacts
    <2>3. conn <= lwt
      BY <1>2, <2>1, LastOfFacts
    <2> HIDE DEF conn, lwt
    <2> QED BY <2>1, <2>2, <2>3
  <1>4. AliveOver(g, K, u) <=> /\ conn # 0 /\ g[conn].kind = "connect" /\ g[lwt].kind # "Offline"
                               /\ \E k \in K : g[k].kind = "live" /\ k > brk /\ u + 1 <= g[k].t + StaleAfter
    BY DEF AliveOver
  <1>5. AliveOver(h, K, u) <=> /\ conn # 0 /\ h[conn].kind = "connect" /\ h[lwt].kind # "Offline"
                               /\ \E k \in K : h[k].kind = "live" /\ k > brk /\ u + 1 <= h[k].t + StaleAfter
    BY <1>1 DEF AliveOver
  <1> HIDE DEF conn, lwt, brk
  <1> QED BY <1>2, <1>3, <1>4, <1>5 DEF Agree

\* An entry applied at a later reading changes nothing of an earlier unit.
LEMMA AliveStays ==
  ASSUME NEW g, NEW h, NEW e, OneMore(g, h, e), e.kind # "step", NEW u \in Nat, u < e.t
  PROVE  AliveIn(h, u) <=> AliveIn(g, u)
  <1> DEFINE K == KnownAt(g, DOMAIN g, u)
             n == Len(g)
  <1>1. /\ n \in Nat /\ DOMAIN g = 1 .. n /\ DOMAIN h = 1 .. (n + 1) /\ h[n + 1] = e
        /\ \A k \in 1 .. n : h[k] = g[k]
        /\ g \in Seq(LogEntry) /\ e \in LogEntry
    BY DEF OneMore
  <1>2. StepOf(h) = StepOf(g)
    BY LastGrows DEF StepOf
  <1>3. StepOf(g) \in Nat /\ StepOf(g) <= n
    BY <1>1, WholeFacts DEF StepOf
  <1>4. KnownAt(h, DOMAIN h, u) = K
    <2>1. ~(n + 1 <= StepOf(h)) /\ ~(h[n + 1].t <= u)
      <3>1. e.t \in Nat
        BY <1>1, TimeAssumption DEF LogEntry, Readings
      <3> QED BY <1>1, <1>2, <1>3, <3>1
    <2>2. \A k \in 1 .. (n + 1) : k = n + 1 \/ k \in 1 .. n
      BY <1>1
    <2>3. \A k \in 1 .. n : k \in 1 .. (n + 1)
      BY <1>1
    <2>4. KnownAt(h, DOMAIN h, u) = {k \in 1 .. (n + 1) : k <= StepOf(h) \/ h[k].t <= u}
      BY <1>1 DEF KnownAt, StepOf
    <2>5. K = {k \in 1 .. n : k <= StepOf(g) \/ g[k].t <= u}
      BY <1>1 DEF KnownAt, StepOf
    <2> HIDE DEF K, n
    <2> QED BY <1>1, <1>2, <2>1, <2>2, <2>3, <2>4, <2>5
  <1>5. K \subseteq 1 .. n /\ Agree(g, h, K)
    BY <1>1 DEF KnownAt, Agree
  <1> HIDE DEF K, n
  <1>6. AliveOver(h, K, u) <=> AliveOver(g, K, u)
    BY <1>1, <1>5, AliveAgrees
  <1> QED BY <1>4, <1>6 DEF AliveIn, K

-----------------------------------------------------------------------------
(* One more entry.                                                         *)

\* What an entry does to connection, LWT and life evidence.
Follows(in, e, out) ==
    /\ out.connected <=> e.kind = "connect" \/ (e.kind # "disconnect" /\ in.connected)
    /\ out.offline <=> e.kind = "Offline" \/ (e.kind \notin {"connect", "Online"} /\ in.offline)
    /\ e.kind \in Breaks => out.lastLive = NONE
    /\ e.kind = "live" => out.lastLive = e.t
    /\ e.kind \notin Breaks \union {"live"} => out.lastLive = in.lastLive
    /\ e.kind \in {"live", "optional"} => in.connected

LEMMA ReflectsGrows ==
  ASSUME NEW g, NEW h, NEW e, OneMore(g, h, e), NEW in \in TypedIngest, NEW out \in TypedIngest,
         Reflects(g, in), Follows(in, e, out),
         NEW x \in Nat, Past(g, x), e.kind \in Breaks \/ x <= e.t
  PROVE  Reflects(h, out)
  <1> DEFINE n == Len(g)
  <1>1. /\ n \in Nat /\ DOMAIN g = 1 .. n /\ DOMAIN h = 1 .. (n + 1) /\ h[n + 1] = e
        /\ \A k \in 1 .. n : h[k] = g[k]
        /\ g \in Seq(LogEntry) /\ e \in LogEntry /\ n + 1 # 0
    BY DEF OneMore
  <1>e. e.t \in Nat /\ e.t # NONE
    BY <1>1, TimeAssumption DEF LogEntry, Readings, NONE
  <1>2. /\ ConnOf(h) = IF e.kind \in {"connect", "disconnect"} THEN n + 1 ELSE ConnOf(g)
        /\ LwtOf(h) = IF e.kind \in {"connect", "Online", "Offline"} THEN n + 1 ELSE LwtOf(g)
        /\ BreakOf(h) = IF e.kind \in Breaks THEN n + 1 ELSE BreakOf(g)
    BY LastGrows DEF ConnOf, LwtOf, BreakOf
  <1>3. /\ ConnOf(g) # 0 => ConnOf(g) \in 1 .. n
        /\ LwtOf(g) # 0 => LwtOf(g) \in 1 .. n
        /\ BreakOf(g) \in Nat /\ BreakOf(g) <= n
        /\ StepOf(g) \in Nat /\ StepOf(g) <= BreakOf(g)
    <2>1. ConnOf(g) # 0 => ConnOf(g) \in 1 .. n
      BY <1>1, WholeFacts DEF ConnOf
    <2>2. LwtOf(g) # 0 => LwtOf(g) \in 1 .. n
      BY <1>1, WholeFacts DEF LwtOf
    <2>3. BreakOf(g) \in Nat /\ BreakOf(g) <= n
      BY <1>1, WholeFacts DEF BreakOf
    <2>4. StepOf(g) \in Nat /\ (StepOf(g) # 0 => StepOf(g) \in DOMAIN g /\ g[StepOf(g)].kind \in {"step"})
      BY <1>1, WholeFacts DEF StepOf
    <2>5. StepOf(g) # 0 => StepOf(g) <= BreakOf(g)
      BY <1>1, <2>4, WholeFacts DEF BreakOf, Breaks
    <2> QED BY <2>1, <2>2, <2>3, <2>4, <2>5
  <1> HIDE DEF n
  <1>4. out.connected <=> ConnOf(h) # 0 /\ h[ConnOf(h)].kind = "connect"
    <2>1. CASE e.kind \in {"connect", "disconnect"}
      BY <1>1, <1>2, <2>1 DEF Follows
    <2>2. CASE e.kind \notin {"connect", "disconnect"}
      BY <1>1, <1>2, <1>3, <2>2 DEF Follows, Reflects
    <2> QED BY <2>1, <2>2
  <1>5. out.offline <=> LwtOf(h) # 0 /\ h[LwtOf(h)].kind = "Offline"
    <2>1. CASE e.kind \in {"connect", "Online", "Offline"}
      BY <1>1, <1>2, <2>1 DEF Follows
    <2>2. CASE e.kind \notin {"connect", "Online", "Offline"}
      BY <1>1, <1>2, <1>3, <2>2 DEF Follows, Reflects
    <2> QED BY <2>1, <2>2
  <1>6. CASE e.kind \in Breaks
    <2>1. BreakOf(h) = n + 1 /\ \A k \in DOMAIN h : ~(k > n + 1)
      BY <1>1, <1>2, <1>6
    <2>2. out.lastLive = NONE
      BY <1>6 DEF Follows
    <2> QED BY <1>4, <1>5, <2>1, <2>2 DEF Reflects
  <1>7. CASE e.kind \notin Breaks
    <2>1. BreakOf(h) = BreakOf(g) /\ x <= e.t
      BY <1>2, <1>7
    <2>2. \A k \in DOMAIN h : k = n + 1 \/ (k \in DOMAIN g /\ h[k] = g[k])
      BY <1>1
    <2>3. \A k \in DOMAIN g : k \in DOMAIN h /\ h[k] = g[k] /\ k \in Nat /\ g[k].t \in Nat
      BY <1>1, LogShape
    <2>4. n + 1 \in DOMAIN h /\ n + 1 > BreakOf(h)
      BY <1>1, <1>3, <2>1
    <2>5. ~out.connected => \A k \in DOMAIN h : k > BreakOf(h) => h[k].kind \notin {"live", "optional"}
      <3> SUFFICES ASSUME ~out.connected, NEW k \in DOMAIN h, k > BreakOf(h),
                          h[k].kind \in {"live", "optional"}
                   PROVE  FALSE
        OBVIOUS
      <3>1. e.kind # "disconnect"
        BY <1>7 DEF Breaks
      <3>2. ~in.connected
        BY <3>1 DEF Follows
      <3>3. k # n + 1
        BY <1>1, <3>2 DEF Follows
      <3> QED BY <2>1, <2>2, <3>2, <3>3 DEF Reflects
    <2>6. CASE e.kind = "live"
      <3>1. out.lastLive = e.t
        BY <2>6 DEF Follows
      <3>2. ASSUME NEW k \in DOMAIN h, h[k].kind = "live", k > BreakOf(h)
            PROVE  out.lastLive # NONE /\ h[k].t <= out.lastLive
        <4>1. CASE k = n + 1
          BY <1>1, <1>e, <3>1, <4>1
        <4>2. CASE k \in DOMAIN g /\ h[k] = g[k]
          <5>1. k > StepOf(g)
            BY <1>3, <2>1, <2>3, <3>2, <4>2
          <5>2. g[k].t <= x
            BY <4>2, <5>1 DEF Past
          <5> QED BY <1>e, <2>1, <2>3, <3>1, <4>2, <5>2
        <4> QED BY <2>2, <4>1, <4>2
      <3> QED BY <1>1, <1>4, <1>5, <2>4, <2>5, <2>6, <3>1, <3>2 DEF Reflects
    <2>7. CASE e.kind # "live"
      <3>1. out.lastLive = in.lastLive
        BY <1>7, <2>7 DEF Follows
      <3>2. ASSUME NEW k \in DOMAIN h, h[k].kind = "live", k > BreakOf(h)
            PROVE  out.lastLive # NONE /\ h[k].t <= out.lastLive
        <4>1. k \in DOMAIN g /\ h[k] = g[k]
          BY <1>1, <2>2, <2>7, <3>2
        <4> QED BY <2>1, <3>1, <3>2, <4>1 DEF Reflects
      <3>3. out.lastLive # NONE =>
               \E k \in DOMAIN h : h[k].kind = "live" /\ k > BreakOf(h) /\ h[k].t = out.lastLive
        BY <2>1, <2>3, <3>1 DEF Reflects
      <3> QED BY <1>4, <1>5, <2>5, <3>2, <3>3 DEF Reflects
    <2> QED BY <2>6, <2>7
  <1> QED BY <1>6, <1>7

LEMMA PastGrows ==
  ASSUME NEW g, NEW h, NEW e, OneMore(g, h, e), NEW x \in Nat, NEW y \in Nat, Past(g, x),
         e.kind = "step" \/ (x <= e.t /\ e.t <= y)
  PROVE  Past(h, y)
  <1> DEFINE n == Len(g)
  <1>1. /\ n \in Nat /\ DOMAIN g = 1 .. n /\ DOMAIN h = 1 .. (n + 1) /\ h[n + 1] = e
        /\ \A k \in 1 .. n : h[k] = g[k]
        /\ g \in Seq(LogEntry) /\ e.t \in Nat
    BY TimeAssumption DEF OneMore, LogEntry, Readings
  <1>2. StepOf(h) = IF e.kind = "step" THEN n + 1 ELSE StepOf(g)
    BY LastGrows DEF StepOf
  <1> HIDE DEF n
  <1>3. SUFFICES ASSUME NEW k \in DOMAIN h, k > StepOf(h)
                 PROVE  h[k].t <= y
    BY DEF Past
  <1>4. e.kind # "step" /\ x <= e.t /\ e.t <= y /\ StepOf(h) = StepOf(g)
    BY <1>1, <1>2, <1>3
  <1>5. CASE k = n + 1
    BY <1>1, <1>4, <1>5
  <1>6. CASE k # n + 1
    <2>1. k \in DOMAIN g /\ h[k] = g[k]
      BY <1>1, <1>6
    <2>2. g[k].t <= x /\ g[k].t \in Nat
      BY <1>1, <1>3, <1>4, <2>1, LogShape DEF Past
    <2> QED BY <1>1, <1>4, <2>1, <2>2
  <1> QED BY <1>5, <1>6

-----------------------------------------------------------------------------
(* The alive interval.                                                     *)

Live(in) == in.connected /\ ~in.offline /\ in.lastLive # NONE

\* An interval since a: no break after it, every unit alive until the evidence runs out, and
\* no longer than it might be: a break at its start or a unit not alive before it.
Since(g, in, a, x) ==
    /\ a \in Nat /\ a <= x
    /\ BreaksBy(g, a)
    /\ \A u \in Nat : a <= u /\ u + 1 <= in.lastLive + StaleAfter => AliveIn(g, u)
    /\ a = 0 \/ BreakAt(g, a) \/ ~AliveIn(g, a - 1)

\* Without an interval the evidence, if any, ran out before the latest reading x.
Interval(g, in, x) ==
    /\ Live(in) /\ in.aliveSince = NONE => in.lastLive + StaleAfter < x
    /\ in.aliveSince # NONE => Since(g, in, in.aliveSince, x)

\* What may become of an alive interval at reading t: it ends, it goes on, it begins anew.
Ends(out, t) ==
    /\ out.aliveSince = NONE
    /\ Live(out) => out.lastLive + StaleAfter < t
GoesOn(in, out, t) ==
    /\ in.aliveSince # NONE /\ out.aliveSince = in.aliveSince
    /\ \/ out.lastLive = in.lastLive
       \/ out.lastLive = t /\ t <= in.lastLive + StaleAfter
BeginsAnew(in, out, t) ==
    /\ out.aliveSince = t
    /\ in.aliveSince = NONE \/ (in.lastLive # NONE /\ t > in.lastLive + StaleAfter)

LEMMA TimesTyped ==
  ASSUME NEW in \in TypedIngest
  PROVE  /\ in.lastLive \in Int /\ in.aliveSince \in Int
         /\ in.lastLive # NONE => in.lastLive \in Nat
         /\ in.aliveSince # NONE => in.aliveSince \in Nat
  BY TimeAssumption DEF TypedIngest, MaybeTime, Readings, NONE

\* No break by an entry that is none.
LEMMA BreaksGrow ==
  ASSUME NEW g, NEW h, NEW e, OneMore(g, h, e), e.kind \notin Breaks, NEW a \in Nat
  PROVE  /\ BreaksBy(g, a) <=> BreaksBy(h, a)
         /\ BreakAt(g, a) <=> BreakAt(h, a)
  <1> DEFINE n == Len(g)
  <1>1. /\ n \in Nat /\ DOMAIN g = 1 .. n /\ DOMAIN h = 1 .. (n + 1) /\ h[n + 1] = e
        /\ \A k \in 1 .. n : h[k] = g[k]
    BY DEF OneMore
  <1>2. StepOf(h) = StepOf(g)
    BY LastGrows DEF StepOf, Breaks
  <1> HIDE DEF n
  <1>3. \A k \in DOMAIN h : h[k].kind \in Breaks => k \in DOMAIN g /\ h[k] = g[k]
    BY <1>1
  <1>4. \A k \in DOMAIN g : k \in DOMAIN h /\ h[k] = g[k]
    BY <1>1
  <1>5. BreaksBy(g, a) <=> BreaksBy(h, a)
    BY <1>2, <1>3, <1>4 DEF BreaksBy
  <1>6. BreakAt(g, a) <=> BreakAt(h, a)
    BY <1>2, <1>3, <1>4 DEF BreakAt
  <1> QED BY <1>5, <1>6

LEMMA IntervalGrows ==
  ASSUME NEW g, NEW h, NEW e, OneMore(g, h, e), e.kind \notin Breaks,
         NEW in \in TypedIngest, NEW out \in TypedIngest, AliveWithEvidence(out),
         Reflects(g, in), Reflects(h, out), NEW x \in Nat, Past(g, x), x <= e.t, Past(h, e.t),
         Interval(g, in, x),
         Ends(out, e.t) \/ GoesOn(in, out, e.t) \/ BeginsAnew(in, out, e.t)
  PROVE  Interval(h, out, e.t)
  <1> DEFINE t == e.t
  <1>1. /\ g \in Seq(LogEntry) /\ h \in Seq(LogEntry) /\ t \in Nat
        /\ t # NONE /\ StaleAfter \in Nat /\ e.kind # "step"
    BY TimeAssumption DEF OneMore, LogEntry, Readings, NONE, Breaks
  <1>2. \A u \in Nat : u < t => (AliveIn(h, u) <=> AliveIn(g, u))
    BY <1>1, AliveStays
  <1>3. \A u \in Nat : t <= u /\ Covers(out, u) => AliveIn(h, u)
    BY <1>1, CoveredIsAlive
  <1>4. out.aliveSince # NONE => Live(out)
    BY DEF AliveWithEvidence, Live
  <1>5. in.lastLive \in Int /\ out.lastLive \in Int /\ in.aliveSince \in Int
    BY TimesTyped
  <1>6. x <= t
    OBVIOUS
  <1> HIDE DEF t
  <1>7. CASE Ends(out, t)
    BY <1>7 DEF Ends, Interval, t
  <1>8. CASE GoesOn(in, out, t)
    <2> DEFINE a == in.aliveSince
    <2>1. a # NONE /\ Since(g, in, a, x) /\ out.aliveSince = a
      BY <1>8 DEF GoesOn, Interval
    <2>2. /\ a \in Nat /\ a <= x /\ BreaksBy(g, a)
          /\ \A u \in Nat : a <= u /\ u + 1 <= in.lastLive + StaleAfter => AliveIn(g, u)
          /\ (a = 0 \/ BreakAt(g, a) \/ ~AliveIn(g, a - 1))
      BY <2>1 DEF Since
    <2> HIDE DEF a
    <2>3. a <= t /\ BreaksBy(h, a)
      BY <1>1, <1>6, <2>2, BreaksGrow
    <2>4. ASSUME NEW u \in Nat, a <= u, u + 1 <= out.lastLive + StaleAfter
          PROVE  AliveIn(h, u)
      <3>1. CASE u < t
        <4>1. u + 1 <= in.lastLive + StaleAfter
          <5>1. CASE out.lastLive = in.lastLive
            BY <2>4, <5>1
          <5>2. CASE out.lastLive = t /\ t <= in.lastLive + StaleAfter
            BY <1>1, <1>5, <3>1, <5>2
          <5> QED BY <1>8, <5>1, <5>2 DEF GoesOn
        <4>2. AliveIn(g, u)
          BY <2>2, <2>4, <4>1
        <4> QED BY <1>2, <3>1, <4>2
      <3>2. CASE t <= u
        <4>1. Covers(out, u)
          BY <1>4, <2>1, <2>4 DEF Covers, Live
        <4> QED BY <1>3, <3>2, <4>1
      <3> QED BY <1>1, <3>1, <3>2
    <2>5. a = 0 \/ BreakAt(h, a) \/ ~AliveIn(h, a - 1)
      <3>1. CASE BreakAt(g, a)
        BY <2>2, <3>1, BreaksGrow
      <3>2. CASE a # 0 /\ ~AliveIn(g, a - 1)
        <4>1. a - 1 \in Nat /\ a - 1 < t
          BY <1>1, <2>2, <2>3, <3>2
        <4> QED BY <1>2, <3>2, <4>1
      <3> QED BY <2>2, <3>1, <3>2
    <2>6. Since(h, out, a, t)
      BY <2>2, <2>3, <2>4, <2>5 DEF Since
    <2> QED BY <2>1, <2>6 DEF Interval, t
  <1>9. CASE BeginsAnew(in, out, t)
    <2>1. out.aliveSince = t /\ Live(out)
      BY <1>1, <1>4, <1>9 DEF BeginsAnew
    <2>2. BreaksBy(h, t)
      BY DEF Past, BreaksBy, t
    <2>3. ASSUME NEW u \in Nat, t <= u, u + 1 <= out.lastLive + StaleAfter
          PROVE  AliveIn(h, u)
      <3>1. Covers(out, u)
        BY <2>1, <2>3 DEF Covers, Live
      <3> QED BY <1>3, <2>3, <3>1
    <2>4. ASSUME t # 0, ~BreakAt(h, t), AliveIn(h, t - 1)
          PROVE  FALSE
      <3>1. t - 1 \in Nat /\ t - 1 < t
        BY <1>1, <2>4
      <3>2. AliveIn(g, t - 1)
        BY <1>2, <2>4, <3>1
      <3>3. ~BreakAt(g, t)
        BY <1>1, <2>4, BreaksGrow
      <3>4. BreaksBy(g, t - 1)
        <4> SUFFICES ASSUME NEW k \in DOMAIN g, g[k].kind \in Breaks, k > StepOf(g)
                     PROVE  g[k].t <= t - 1
          BY DEF BreaksBy
        <4>1. g[k].t <= x /\ g[k].t \in Nat
          BY <1>1, LogShape DEF Past
        <4>2. g[k].t # t
          BY <3>3 DEF BreakAt
        <4> QED BY <1>1, <1>6, <4>1, <4>2
      <3>5. Covers(in, t - 1)
        BY <1>1, <3>1, <3>2, <3>4, AliveIsCovered
      <3>6. Live(in) /\ t <= in.lastLive + StaleAfter
        BY <1>1, <1>5, <3>5 DEF Covers, Live
      <3>7. in.aliveSince # NONE
        BY <1>1, <1>5, <1>6, <3>6 DEF Interval
      <3> QED BY <1>1, <1>5, <1>9, <3>6, <3>7 DEF BeginsAnew
    <2>5. Since(h, out, t, t)
      BY <1>1, <2>2, <2>3, <2>4 DEF Since
    <2> QED BY <1>1, <2>1, <2>5 DEF Interval, t
  <1> QED BY <1>7, <1>8, <1>9 DEF t

\* A reading that leaves no entry: the interval ends or goes on.
LEMMA IntervalWaits ==
  ASSUME NEW g, NEW in \in TypedIngest, NEW out, NEW x \in Nat, NEW y \in Nat, x <= y,
         Interval(g, in, x), out.lastLive = in.lastLive,
         Ends(out, y) \/ (in.aliveSince # NONE /\ out.aliveSince = in.aliveSince)
  PROVE  Interval(g, out, y)
  <1>1. CASE Ends(out, y)
    BY <1>1 DEF Ends, Interval
  <1>2. CASE in.aliveSince # NONE /\ out.aliveSince = in.aliveSince
    <2>1. Since(g, in, in.aliveSince, x)
      BY <1>2 DEF Interval
    <2>2. Since(g, out, out.aliveSince, y)
      BY <1>2, <2>1 DEF Since
    <2> QED BY <1>2, <2>2 DEF Interval
  <1> QED BY <1>1, <1>2

-----------------------------------------------------------------------------
(* The ingest state as the summary of a log.                               *)

\* What is known of one source: its latest message, unless a break came after it.
CellOf(g, s, kind, src) ==
    LET newest == NewestOf(g, DOMAIN g, kind, src)
    IN  IF newest > BreakOf(g)
        THEN s = [seen |-> TRUE, value |-> g[newest].value, at |-> g[newest].t]
        ELSE s.value = NONE

Cells(g, in) ==
    /\ \A i \in Sources : CellOf(g, in.core[i], "live", i)
    /\ \A p \in Profiles : CellOf(g, in.opt[p], "optional", p)

\* What an entry does to what is known of one source, s becoming r.
CellFollows(e, s, r, kind, src) ==
    /\ e.kind \in Breaks => r.value = NONE
    /\ e.kind = kind /\ e.src = src => r = [seen |-> TRUE, value |-> e.value, at |-> e.t]
    /\ e.kind \notin Breaks /\ ~(e.kind = kind /\ e.src = src) => r = s

CellsFollow(in, e, out) ==
    /\ \A i \in Sources : CellFollows(e, in.core[i], out.core[i], "live", i)
    /\ \A p \in Profiles : CellFollows(e, in.opt[p], out.opt[p], "optional", p)

LEMMA CellGrows ==
  ASSUME NEW g, NEW h, NEW e, OneMore(g, h, e), NEW s, NEW r, NEW kind \in {"live", "optional"}, NEW src,
         CellOf(g, s, kind, src), CellFollows(e, s, r, kind, src)
  PROVE  CellOf(h, r, kind, src)
  <1> DEFINE n == Len(g)
             x == NewestOf(g, DOMAIN g, kind, src)
             y == NewestOf(h, DOMAIN h, kind, src)
  <1>1. /\ n \in Nat /\ DOMAIN g = 1 .. n /\ DOMAIN h = 1 .. (n + 1) /\ h[n + 1] = e
        /\ \A k \in 1 .. n : h[k] = g[k]
        /\ g \in Seq(LogEntry)
    BY DEF OneMore
  <1>2. BreakOf(h) = IF e.kind \in Breaks THEN n + 1 ELSE BreakOf(g)
    BY LastGrows DEF BreakOf
  <1>3. BreakOf(g) \in Nat /\ BreakOf(g) <= n
    BY <1>1, WholeFacts DEF BreakOf
  <1>4. y = IF e.kind = kind /\ e.src = src THEN n + 1 ELSE x
    BY NewestGrows
  <1>5. x \in Nat /\ x <= n /\ (x # 0 => x \in 1 .. n)
    <2> DEFINE T == {k \in DOMAIN g : g[k].kind = kind /\ g[k].src = src}
    <2>1. IsTop(x, T)
      <3>1. T \subseteq 1 .. n /\ x = Max({0} \union T)
        BY <1>1 DEF NewestOf
      <3> HIDE DEF T, x
      <3> QED BY <1>1, <3>1, TopExists
    <2>2. x # 0 => x \in 1 .. n
      BY <1>1, <2>1 DEF IsTop
    <2>3. x \in Nat
      BY <2>1 DEF IsTop
    <2> HIDE DEF x, n
    <2> QED BY <1>1, <2>2, <2>3
  <1>6. CellOf(h, r, kind, src) <=>
           IF y > BreakOf(h) THEN r = [seen |-> TRUE, value |-> h[y].value, at |-> h[y].t]
                             ELSE r.value = NONE
    BY DEF CellOf
  <1>7. IF x > BreakOf(g) THEN s = [seen |-> TRUE, value |-> g[x].value, at |-> g[x].t]
                          ELSE s.value = NONE
    BY DEF CellOf
  <1> HIDE DEF n, x, y
  <1>8. CASE e.kind \in Breaks
    <2>1. ~(e.kind = kind) /\ r.value = NONE
      BY <1>8 DEF Breaks, CellFollows
    <2>2. ~(y > BreakOf(h))
      BY <1>1, <1>2, <1>4, <1>5, <1>8, <2>1
    <2> QED BY <1>6, <2>1, <2>2
  <1>9. CASE e.kind = kind /\ e.src = src
    <2>1. e.kind \notin Breaks
      BY <1>9 DEF Breaks
    <2>2. y = n + 1 /\ y > BreakOf(h) /\ h[y] = e
      BY <1>1, <1>2, <1>3, <1>4, <1>9, <2>1
    <2> QED BY <1>6, <1>9, <2>2 DEF CellFollows
  <1>10. CASE e.kind \notin Breaks /\ ~(e.kind = kind /\ e.src = src)
    <2>1. r = s /\ y = x /\ BreakOf(h) = BreakOf(g)
      BY <1>2, <1>4, <1>10 DEF CellFollows
    <2>2. x > BreakOf(g) => h[x] = g[x]
      BY <1>1, <1>3, <1>5
    <2> QED BY <1>6, <1>7, <2>1, <2>2
  <1> QED BY <1>8, <1>9, <1>10

LEMMA CellsGrow ==
  ASSUME NEW g, NEW h, NEW e, OneMore(g, h, e), NEW in, NEW out, Cells(g, in), CellsFollow(in, e, out)
  PROVE  Cells(h, out)
  <1>1. ASSUME NEW i \in Sources
        PROVE  CellOf(h, out.core[i], "live", i)
    BY CellGrows DEF Cells, CellsFollow
  <1>2. ASSUME NEW p \in Profiles
        PROVE  CellOf(h, out.opt[p], "optional", p)
    BY CellGrows DEF Cells, CellsFollow
  <1> QED BY <1>1, <1>2 DEF Cells

\* The ingest state in is what the log g leaves, and x its latest reading of the MQTT thread.
Summary(g, in, x) ==
    /\ g \in Seq(LogEntry) /\ in \in TypedIngest /\ Sound(in) /\ x \in Nat
    /\ Reflects(g, in) /\ Cells(g, in) /\ Past(g, x) /\ Interval(g, in, x)

\* A break leaves no evidence and no interval.
LEMMA BreakKeepsSummary ==
  ASSUME NEW g, NEW in, NEW x, Summary(g, in, x),
         NEW h, NEW e, OneMore(g, h, e), e.kind \in Breaks,
         NEW out \in TypedIngest, Sound(out), Follows(in, e, out), CellsFollow(in, e, out),
         out.aliveSince = NONE, NEW y \in Nat, e.kind = "step" \/ (x <= e.t /\ e.t <= y)
  PROVE  Summary(h, out, y)
  <1>1. x \in Nat /\ in \in TypedIngest
    BY DEF Summary
  <1>2. Reflects(h, out)
    BY <1>1, ReflectsGrows DEF Summary
  <1>3. Cells(h, out)
    BY CellsGrow DEF Summary
  <1>4. Past(h, y)
    BY <1>1, PastGrows DEF Summary
  <1>5. Interval(h, out, y)
    BY DEF Interval, Live, Follows
  <1> QED BY <1>2, <1>3, <1>4, <1>5 DEF Summary, OneMore

\* Any other entry keeps the summary as long as the interval ends, goes on or begins anew.
LEMMA EntryKeepsSummary ==
  ASSUME NEW g, NEW in, NEW x, Summary(g, in, x),
         NEW h, NEW e, OneMore(g, h, e), e.kind \notin Breaks, x <= e.t,
         NEW out \in TypedIngest, Sound(out), Follows(in, e, out), CellsFollow(in, e, out),
         Ends(out, e.t) \/ GoesOn(in, out, e.t) \/ BeginsAnew(in, out, e.t)
  PROVE  Summary(h, out, e.t)
  <1>1. x \in Nat /\ in \in TypedIngest
    BY DEF Summary
  <1>t. e.t \in Nat /\ e.t <= e.t
    BY TimeAssumption DEF OneMore, LogEntry, Readings
  <1>2. Reflects(h, out)
    BY <1>1, ReflectsGrows DEF Summary
  <1>3. Cells(h, out)
    BY CellsGrow DEF Summary
  <1>4. Past(h, e.t)
    BY <1>1, <1>t, PastGrows DEF Summary
  <1>5. Interval(h, out, e.t)
    BY <1>1, <1>2, <1>4, IntervalGrows DEF Summary, Sound
  <1> QED BY <1>2, <1>3, <1>4, <1>5, <1>t DEF Summary, OneMore

\* So does a later reading that leaves no entry.
LEMMA WaitKeepsSummary ==
  ASSUME NEW g, NEW in, NEW x, Summary(g, in, x), NEW y \in Nat, x <= y,
         NEW out \in TypedIngest, Sound(out),
         out.connected = in.connected, out.offline = in.offline, out.lastLive = in.lastLive,
         out.core = in.core, out.opt = in.opt,
         Ends(out, y) \/ (in.aliveSince # NONE /\ out.aliveSince = in.aliveSince)
  PROVE  Summary(g, out, y)
  <1>1. x \in Nat /\ in \in TypedIngest /\ g \in Seq(LogEntry)
    BY DEF Summary
  <1>2. Reflects(g, out) /\ Cells(g, out)
    BY DEF Summary, Reflects, Cells
  <1>3. Past(g, y)
    <2> SUFFICES ASSUME NEW k \in DOMAIN g, k > StepOf(g)
                 PROVE  g[k].t <= y
      BY DEF Past
    <2>1. g[k].t \in Nat /\ g[k].t <= x
      BY <1>1, LogShape DEF Summary, Past
    <2> QED BY <1>1, <2>1
  <1>4. Interval(g, out, y)
    BY <1>1, IntervalWaits DEF Summary
  <1> QED BY <1>1, <1>2, <1>3, <1>4 DEF Summary

-----------------------------------------------------------------------------
(* Every entry point keeps the summary.                                    *)

LEMMA InvalidateFacts ==
  ASSUME NEW in \in TypedIngest
  PROVE  /\ Invalidate(in).connected = in.connected /\ Invalidate(in).offline = in.offline
         /\ Invalidate(in).lastLive = NONE /\ Invalidate(in).aliveSince = NONE
         /\ \A i \in Sources : Invalidate(in).core[i].value = NONE
         /\ \A p \in Profiles : Invalidate(in).opt[p].value = NONE
  <1> DEFINE core == [i \in Sources |-> [in.core[i] EXCEPT !.value = NONE]]
             opt == [p \in Profiles |-> [in.opt[p] EXCEPT !.value = NONE]]
             out == Invalidate(in)
  <1>1. /\ \A i \in Sources : core[i].value = NONE
        /\ \A p \in Profiles : opt[p].value = NONE
    BY DEF TypedIngest, Evidence
  <1>2. out = [in EXCEPT !.core = core, !.opt = opt, !.lastLive = NONE, !.aliveSince = NONE]
    BY DEF Invalidate
  <1> HIDE DEF core, opt, out
  <1>3. out = [connected |-> in.connected, offline |-> in.offline, lastLive |-> NONE,
               aliveSince |-> NONE, core |-> core, opt |-> opt]
    BY <1>2 DEF TypedIngest
  <1> QED BY <1>1, <1>3 DEF out

\* No evidence, as after every break.
Blank(out) ==
    /\ out.lastLive = NONE
    /\ \A i \in Sources : out.core[i].value = NONE
    /\ \A p \in Profiles : out.opt[p].value = NONE

LEMMA InvalidateBlank ==
  ASSUME NEW in \in TypedIngest, Blank(in), in.aliveSince = NONE
  PROVE  Invalidate(in) = in
  <1> DEFINE core == [i \in Sources |-> [in.core[i] EXCEPT !.value = NONE]]
             opt == [p \in Profiles |-> [in.opt[p] EXCEPT !.value = NONE]]
  <1>1. \A s \in Evidence : s.value = NONE => [s EXCEPT !.value = NONE] = s
    BY DEF Evidence
  <1>2. /\ \A i \in Sources : in.core[i] \in Evidence /\ in.core[i].value = NONE
        /\ \A p \in Profiles : in.opt[p] \in Evidence /\ in.opt[p].value = NONE
    BY DEF TypedIngest, Blank
  <1>3. core = in.core
    <2>1. core = [i \in Sources |-> in.core[i]]
      BY <1>1, <1>2
    <2> QED BY <2>1 DEF TypedIngest
  <1>4. opt = in.opt
    <2>1. opt = [p \in Profiles |-> in.opt[p]]
      BY <1>1, <1>2
    <2> QED BY <2>1 DEF TypedIngest
  <1>5. Invalidate(in) = [in EXCEPT !.core = core, !.opt = opt, !.lastLive = NONE, !.aliveSince = NONE]
    BY DEF Invalidate
  <1> HIDE DEF core, opt
  <1>6. in = [connected |-> in.connected, offline |-> in.offline, lastLive |-> in.lastLive,
              aliveSince |-> in.aliveSince, core |-> in.core, opt |-> in.opt]
    BY DEF TypedIngest
  <1>7. Invalidate(in) = [connected |-> in.connected, offline |-> in.offline, lastLive |-> NONE,
                          aliveSince |-> NONE, core |-> core, opt |-> opt]
    BY <1>5, <1>6
  <1>8. in.lastLive = NONE /\ in.aliveSince = NONE
    BY DEF Blank
  <1> QED BY <1>3, <1>4, <1>6, <1>7, <1>8

LEMMA BlankFollows ==
  ASSUME NEW e, e.kind \in Breaks, NEW in, NEW out, Blank(out)
  PROVE  CellsFollow(in, e, out)
  <1>1. \A kind \in {"live", "optional"} : e.kind # kind
    BY DEF Breaks
  <1> QED BY <1>1 DEF CellsFollow, CellFollows, Blank

LEMMA EntryTyped ==
  ASSUME NEW kind \in EventKinds, NEW t \in Readings, NEW c \in Readings,
         NEW src \in Sources \union Profiles \union {NONE}, NEW v \in MaybeValue
  PROVE  /\ Entry(kind, t, c, src, v) \in LogEntry
         /\ Entry(kind, t, c, src, v).kind = kind /\ Entry(kind, t, c, src, v).t = t
         /\ Entry(kind, t, c, src, v).c = c /\ Entry(kind, t, c, src, v).src = src
         /\ Entry(kind, t, c, src, v).value = v
  BY DEF Entry, LogEntry

\* The MQTT thread's latest reading as a step back leaves it.
BackTo(t) == IF SteppedBack(t) THEN 0 ELSE mqttLatest

\* The log a call reads: the step it detects comes before its own entry.
Found(t) == log \o StepEntry(t)

\* A detected clock step is one more break.
LEMMA DetectedSummary ==
  ASSUME Summary(log, ingest, mqttLatest), NEW t \in Readings, accumulator.cursor \in Readings
  PROVE  Summary(Found(t), Detected(t), BackTo(t))
  <1>1. CASE ~SteppedBack(t)
    <2>1. Found(t) = log
      BY <1>1 DEF Found, StepEntry, Summary
    <2> QED BY <1>1, <2>1 DEF Detected, BackTo
  <1>2. CASE SteppedBack(t)
    <2> DEFINE e == Entry("step", t, accumulator.cursor, NONE, NONE)
               out == Invalidate(ingest)
    <2>1. Found(t) = log \o <<e>> /\ Detected(t) = out /\ BackTo(t) = 0
      BY <1>2 DEF Found, StepEntry, Detected, BackTo
    <2>2. ingest \in TypedIngest /\ log \in Seq(LogEntry)
      BY DEF Summary
    <2>3. e \in LogEntry /\ e.kind = "step"
      BY EntryTyped, EvidenceTypes DEF EventKinds
    <2>4. out \in TypedIngest /\ Sound(out)
      BY <2>2, InvalidateTyped, InvalidateSound DEF Summary, Sound
    <2>5. /\ out.connected = ingest.connected /\ out.offline = ingest.offline
          /\ out.aliveSince = NONE /\ Blank(out)
      BY <2>2, InvalidateFacts DEF Blank
    <2> HIDE DEF e, out
    <2>6. OneMore(log, log \o <<e>>, e)
      BY <2>2, <2>3, OneMoreEntry
    <2>7. e.kind \in Breaks /\ Follows(ingest, e, out)
      BY <2>3, <2>5 DEF Breaks, Follows, Blank
    <2>8. CellsFollow(ingest, e, out)
      BY <2>5, <2>7, BlankFollows
    <2>9. Summary(log \o <<e>>, out, 0)
      BY <2>3, <2>4, <2>5, <2>6, <2>7, <2>8, BreakKeepsSummary
    <2> QED BY <2>1, <2>9
  <1> QED BY <1>1, <1>2

\* A refresh at t ends the interval, keeps it or begins one.
LEMMA RefreshFacts ==
  ASSUME NEW in \in TypedIngest, NEW t \in Readings
  PROVE  LET out == RefreshAlive(in, t)
         IN  /\ out.connected = in.connected /\ out.offline = in.offline
             /\ out.lastLive = in.lastLive /\ out.core = in.core /\ out.opt = in.opt
             /\ ~AliveAt(in, t) => Ends(out, t)
             /\ AliveAt(in, t) => out.aliveSince = IF in.aliveSince = NONE THEN t ELSE in.aliveSince
  <1> DEFINE since == IF ~AliveAt(in, t) THEN NONE
                      ELSE IF in.aliveSince = NONE THEN t ELSE in.aliveSince
             out == RefreshAlive(in, t)
  <1>1. out = [in EXCEPT !.aliveSince = since]
    BY DEF RefreshAlive
  <1>2. /\ out.connected = in.connected /\ out.offline = in.offline
        /\ out.lastLive = in.lastLive /\ out.core = in.core /\ out.opt = in.opt
        /\ out.aliveSince = since
    <2> HIDE DEF out, since
    <2> QED BY <1>1 DEF TypedIngest
  <1>3. in.lastLive \in Int /\ t \in Nat
    BY TimesTyped, EvidenceTypes
  <1> HIDE DEF out
  <1>4. ~AliveAt(in, t) => Ends(out, t)
    <2> SUFFICES ASSUME ~AliveAt(in, t)
                 PROVE  Ends(out, t)
      OBVIOUS
    <2>1. out.aliveSince = NONE
      BY <1>2
    <2>2. Live(out) => ~(t - in.lastLive <= StaleAfter)
      BY <1>2 DEF Live, AliveAt
    <2>3. Live(out) => out.lastLive + StaleAfter < t
      BY <1>2, <1>3, <2>2, TimeAssumption
    <2> QED BY <2>1, <2>3 DEF Ends
  <1> QED BY <1>2, <1>4 DEF out

\* A live message is the evidence, and its interval one of the three.
HeardLeaves(in, i, v, t, out) ==
    /\ out.connected = in.connected /\ out.offline = in.offline /\ out.lastLive = t
    /\ out.core = [in.core EXCEPT ![i] = [seen |-> TRUE, value |-> v, at |-> t]]
    /\ out.opt = in.opt
    /\ Ends(out, t) \/ GoesOn(in, out, t) \/ BeginsAnew(in, out, t)

LEMMA HeardFacts ==
  ASSUME NEW in \in TypedIngest, AliveWithEvidence(in), NEW i \in Sources, NEW v \in MaybeValue,
         NEW t \in Readings
  PROVE  HeardLeaves(in, i, v, t, Heard(in, i, v, t))
  <1> DEFINE stale == in.lastLive # NONE /\ t - in.lastLive > StaleAfter
             cells == [in.core EXCEPT ![i] = [seen |-> TRUE, value |-> v, at |-> t]]
             since == IF stale THEN NONE ELSE in.aliveSince
             fresh == [in EXCEPT !.core[i] = [seen |-> TRUE, value |-> v, at |-> t],
                                 !.lastLive = t,
                                 !.aliveSince = IF stale THEN NONE ELSE @]
             out == Heard(in, i, v, t)
  <1>1. out = RefreshAlive(fresh, t)
    BY DEF Heard
  <1>2. fresh = [in EXCEPT !.core = cells, !.lastLive = t, !.aliveSince = since]
    OBVIOUS
  <1>3. cells \in [Sources -> Evidence] /\ since \in MaybeTime /\ t \in MaybeTime /\ t \in Nat
    BY EvidenceTypes DEF TypedIngest
  <1>4. in.lastLive \in Int /\ in.aliveSince \in Int
    BY TimesTyped
  <1>5. stale => in.lastLive # NONE /\ t > in.lastLive + StaleAfter
    BY <1>3, <1>4, TimeAssumption
  <1>6. ~stale => in.lastLive = NONE \/ t <= in.lastLive + StaleAfter
    BY <1>3, <1>4, TimeAssumption
  <1>7. /\ stale => since = NONE
        /\ ~stale => since = in.aliveSince
    OBVIOUS
  <1> HIDE DEF fresh, cells, since, stale, out
  <1>8. /\ fresh \in TypedIngest /\ fresh.connected = in.connected /\ fresh.offline = in.offline
        /\ fresh.lastLive = t /\ fresh.aliveSince = since /\ fresh.core = cells /\ fresh.opt = in.opt
    BY <1>2, <1>3 DEF TypedIngest
  <1>9. /\ out.connected = fresh.connected /\ out.offline = fresh.offline
        /\ out.lastLive = fresh.lastLive /\ out.core = fresh.core /\ out.opt = fresh.opt
        /\ ~AliveAt(fresh, t) => Ends(out, t)
        /\ AliveAt(fresh, t) => out.aliveSince = IF fresh.aliveSince = NONE THEN t ELSE fresh.aliveSince
    BY <1>1, <1>8, RefreshFacts
  <1>10. Ends(out, t) \/ GoesOn(in, out, t) \/ BeginsAnew(in, out, t)
    <2>1. CASE ~AliveAt(fresh, t)
      BY <1>9, <2>1
    <2>2. CASE AliveAt(fresh, t) /\ stale
      BY <1>5, <1>7, <1>8, <1>9, <2>2 DEF BeginsAnew
    <2>3. CASE AliveAt(fresh, t) /\ ~stale /\ in.aliveSince = NONE
      BY <1>7, <1>8, <1>9, <2>3 DEF BeginsAnew
    <2>4. CASE AliveAt(fresh, t) /\ ~stale /\ in.aliveSince # NONE
      <3>1. in.lastLive # NONE
        BY <2>4 DEF AliveWithEvidence
      <3> QED BY <1>6, <1>7, <1>8, <1>9, <2>4, <3>1 DEF GoesOn
    <2> QED BY <2>1, <2>2, <2>3, <2>4
  <1> QED BY <1>8, <1>9, <1>10 DEF out, cells, HeardLeaves

\* Without a refresh the interval ends by itself or goes on.
LEMMA IntervalRests ==
  ASSUME NEW g, NEW in, NEW x, Summary(g, in, x), NEW t \in Nat, x <= t, in.aliveSince = NONE
  PROVE  Ends(in, t)
  <1>1. in.lastLive \in Int /\ x \in Nat
    BY TimesTyped DEF Summary
  <1>2. Live(in) => in.lastLive + StaleAfter < x
    BY DEF Summary, Interval
  <1>3. Live(in) => in.lastLive + StaleAfter < t
    BY <1>1, <1>2, TimeAssumption
  <1> QED BY <1>3 DEF Ends

LEMMA ConnectSummary ==
  ASSUME NEW g, NEW in, NEW x, Summary(g, in, x),
         NEW h, NEW e, OneMore(g, h, e), e.kind = "connect", x <= e.t
  PROVE  Summary(h, [NothingHeard EXCEPT !.connected = TRUE], e.t)
  <1> DEFINE out == [NothingHeard EXCEPT !.connected = TRUE]
  <1>1. out \in TypedIngest /\ Sound(out)
    BY NothingHeardTyped, NothingHeardSound
  <1>2. out.connected = TRUE /\ out.offline = FALSE /\ out.aliveSince = NONE /\ Blank(out)
    BY DEF NothingHeard, NoEvidence, Blank
  <1> HIDE DEF out
  <1>3. e.kind \in Breaks /\ Follows(in, e, out)
    BY <1>2 DEF Breaks, Follows, Blank
  <1>4. CellsFollow(in, e, out)
    BY <1>2, <1>3, BlankFollows
  <1>5. e.t \in Nat /\ e.t <= e.t
    BY TimeAssumption DEF OneMore, LogEntry, Readings
  <1>6. Summary(h, out, e.t)
    BY <1>1, <1>2, <1>3, <1>4, <1>5, BreakKeepsSummary
  <1> QED BY <1>6 DEF out

LEMMA DisconnectSummary ==
  ASSUME NEW g, NEW in, NEW x, Summary(g, in, x),
         NEW h, NEW e, OneMore(g, h, e), e.kind = "disconnect", x <= e.t,
         NEW out \in TypedIngest, Sound(out), Blank(out), out.aliveSince = NONE,
         out.connected = FALSE, out.offline = in.offline
  PROVE  Summary(h, out, e.t)
  <1>3. e.kind \in Breaks /\ Follows(in, e, out)
    BY DEF Breaks, Follows, Blank
  <1>4. CellsFollow(in, e, out)
    BY <1>3, BlankFollows
  <1>5. e.t \in Nat /\ e.t <= e.t
    BY TimeAssumption DEF OneMore, LogEntry, Readings
  <1> QED BY <1>3, <1>4, <1>5, BreakKeepsSummary

LEMMA OfflineSummary ==
  ASSUME NEW g, NEW in, NEW x, Summary(g, in, x),
         NEW h, NEW e, OneMore(g, h, e), e.kind = "Offline", x <= e.t,
         NEW out \in TypedIngest, Sound(out), Blank(out), out.aliveSince = NONE,
         out.connected = in.connected, out.offline = TRUE
  PROVE  Summary(h, out, e.t)
  <1>3. e.kind \in Breaks /\ Follows(in, e, out)
    BY DEF Breaks, Follows, Blank
  <1>4. CellsFollow(in, e, out)
    BY <1>3, BlankFollows
  <1>5. e.t \in Nat /\ e.t <= e.t
    BY TimeAssumption DEF OneMore, LogEntry, Readings
  <1> QED BY <1>3, <1>4, <1>5, BreakKeepsSummary

\* Online after Offline: the evidence, if any came meanwhile, counts from now on.
LEMMA OnlineSummary ==
  ASSUME NEW g, NEW in, NEW x, Summary(g, in, x), in.offline,
         NEW h, NEW e, OneMore(g, h, e), e.kind = "Online", x <= e.t,
         Sound(RefreshAlive([in EXCEPT !.offline = FALSE], e.t))
  PROVE  Summary(h, RefreshAlive([in EXCEPT !.offline = FALSE], e.t), e.t)
  <1> DEFINE on == [in EXCEPT !.offline = FALSE]
             out == RefreshAlive(on, e.t)
  <1>1. in \in TypedIngest /\ AliveWithEvidence(in) /\ e.t \in Readings
    BY DEF Summary, Sound, OneMore, LogEntry
  <1>2. /\ on \in TypedIngest /\ on.connected = in.connected /\ on.offline = FALSE
        /\ on.lastLive = in.lastLive /\ on.aliveSince = in.aliveSince
        /\ on.core = in.core /\ on.opt = in.opt
    BY <1>1 DEF TypedIngest
  <1> HIDE DEF on
  <1>3. out \in TypedIngest
    BY <1>1, <1>2, RefreshTyped
  <1>4. /\ out.connected = on.connected /\ out.offline = on.offline
        /\ out.lastLive = on.lastLive /\ out.core = on.core /\ out.opt = on.opt
        /\ ~AliveAt(on, e.t) => Ends(out, e.t)
        /\ AliveAt(on, e.t) => out.aliveSince = IF on.aliveSince = NONE THEN e.t ELSE on.aliveSince
    BY <1>1, <1>2, RefreshFacts
  <1>5. in.aliveSince = NONE
    BY <1>1 DEF AliveWithEvidence
  <1>6. Sound(out)
    BY DEF on
  <1> HIDE DEF out
  <1>7. Ends(out, e.t) \/ BeginsAnew(in, out, e.t)
    BY <1>2, <1>4, <1>5 DEF BeginsAnew
  <1>8. e.kind \notin Breaks /\ Follows(in, e, out)
    BY <1>2, <1>4 DEF Breaks, Follows
  <1>9. CellsFollow(in, e, out)
    BY <1>2, <1>4, <1>8 DEF CellsFollow, CellFollows
  <1>10. Summary(h, out, e.t)
    BY <1>3, <1>6, <1>7, <1>8, <1>9, EntryKeepsSummary
  <1> QED BY <1>10 DEF out, on

\* Online while not Offline leaves no entry, and can only end the interval.
LEMMA StillOnlineSummary ==
  ASSUME NEW g, NEW in, NEW x, Summary(g, in, x), ~in.offline, NEW t \in Readings, x <= t,
         Sound(RefreshAlive([in EXCEPT !.offline = FALSE], t))
  PROVE  Summary(g, RefreshAlive([in EXCEPT !.offline = FALSE], t), t)
  <1> DEFINE out == RefreshAlive(in, t)
  <1>1. in \in TypedIngest /\ AliveWithEvidence(in) /\ t \in Nat /\ x \in Nat
    BY EvidenceTypes DEF Summary, Sound
  <1>2. [in EXCEPT !.offline = FALSE] = in
    BY <1>1 DEF TypedIngest
  <1>3. out \in TypedIngest /\ Sound(out)
    BY <1>1, <1>2, RefreshTyped
  <1>4. /\ out.connected = in.connected /\ out.offline = in.offline
        /\ out.lastLive = in.lastLive /\ out.core = in.core /\ out.opt = in.opt
        /\ ~AliveAt(in, t) => Ends(out, t)
        /\ AliveAt(in, t) => out.aliveSince = IF in.aliveSince = NONE THEN t ELSE in.aliveSince
    BY <1>1, RefreshFacts
  <1>5. AliveAt(in, t) => in.aliveSince # NONE
    <2> SUFFICES ASSUME AliveAt(in, t), in.aliveSince = NONE
                 PROVE  FALSE
      OBVIOUS
    <2>1. Live(in) => in.lastLive + StaleAfter < t
      BY <1>1, IntervalRests DEF Ends
    <2>2. Live(in) /\ t - in.lastLive <= StaleAfter /\ in.lastLive \in Int
      BY <1>1, TimesTyped DEF AliveAt, Live
    <2> QED BY <1>1, <2>1, <2>2, TimeAssumption
  <1> HIDE DEF out
  <1>6. Ends(out, t) \/ (in.aliveSince # NONE /\ out.aliveSince = in.aliveSince)
    BY <1>4, <1>5
  <1>7. Summary(g, out, t)
    BY <1>1, <1>3, <1>4, <1>6, WaitKeepsSummary
  <1> QED BY <1>2, <1>7 DEF out

LEMMA LiveSummary ==
  ASSUME NEW g, NEW in, NEW x, Summary(g, in, x), in.connected, NEW i \in Sources, NEW v \in MaybeValue,
         NEW h, NEW e, OneMore(g, h, e), e.kind = "live", e.src = i, e.value = v, x <= e.t
  PROVE  Summary(h, Heard(in, i, v, e.t), e.t)
  <1> DEFINE out == Heard(in, i, v, e.t)
  <1>1. in \in TypedIngest /\ Sound(in) /\ AliveWithEvidence(in) /\ e.t \in Readings /\ e.t \in Nat
    BY EvidenceTypes DEF Summary, Sound, OneMore, LogEntry
  <1>2. out \in TypedIngest /\ Sound(out)
    <2>1. v \in Int
      BY SourceAssumption DEF MaybeValue, NONE
    <2> QED BY <1>1, <2>1, HeardTyped, HeardSound
  <1>3. /\ out.connected = in.connected /\ out.offline = in.offline /\ out.lastLive = e.t
        /\ out.core = [in.core EXCEPT ![i] = [seen |-> TRUE, value |-> v, at |-> e.t]]
        /\ out.opt = in.opt
        /\ Ends(out, e.t) \/ GoesOn(in, out, e.t) \/ BeginsAnew(in, out, e.t)
    <2>1. HeardLeaves(in, i, v, e.t, Heard(in, i, v, e.t))
      BY <1>1, HeardFacts
    <2> HIDE DEF out
    <2>2. HeardLeaves(in, i, v, e.t, out)
      BY <2>1 DEF out
    <2> QED BY <2>2 DEF HeardLeaves
  <1> HIDE DEF out
  <1>4. e.kind \notin Breaks /\ Follows(in, e, out)
    BY <1>3 DEF Breaks, Follows
  <1>5. CellsFollow(in, e, out)
    <2>1. ASSUME NEW j \in Sources
          PROVE  CellFollows(e, in.core[j], out.core[j], "live", j)
      BY <1>1, <1>3, <1>4 DEF CellFollows, TypedIngest
    <2>2. ASSUME NEW p \in Profiles
          PROVE  CellFollows(e, in.opt[p], out.opt[p], "optional", p)
      BY <1>3, <1>4 DEF CellFollows
    <2> QED BY <2>1, <2>2 DEF CellsFollow
  <1>6. Summary(h, out, e.t)
    BY <1>2, <1>3, <1>4, <1>5, EntryKeepsSummary
  <1> QED BY <1>6 DEF out

LEMMA OptionalSummary ==
  ASSUME NEW g, NEW in, NEW x, Summary(g, in, x), in.connected, NEW p \in Profiles, NEW v \in MaybeValue,
         NEW h, NEW e, OneMore(g, h, e), e.kind = "optional", e.src = p, e.value = v, x <= e.t,
         Sound([in EXCEPT !.opt[p] = [seen |-> TRUE, value |-> v, at |-> e.t]])
  PROVE  Summary(h, [in EXCEPT !.opt[p] = [seen |-> TRUE, value |-> v, at |-> e.t]], e.t)
  <1> DEFINE heard == [seen |-> TRUE, value |-> v, at |-> e.t]
             out == [in EXCEPT !.opt[p] = heard]
  <1>1. in \in TypedIngest /\ e.t \in Readings /\ e.t \in Nat /\ x \in Nat
    BY EvidenceTypes DEF Summary, OneMore, LogEntry
  <1>2. out \in TypedIngest /\ Sound(out)
    BY <1>1, OptionalHeardTyped
  <1>3. out = [in EXCEPT !.opt = [in.opt EXCEPT ![p] = heard]]
    OBVIOUS
  <1> HIDE DEF out, heard
  <1>4. /\ out.connected = in.connected /\ out.offline = in.offline /\ out.lastLive = in.lastLive
        /\ out.aliveSince = in.aliveSince /\ out.core = in.core
        /\ out.opt = [in.opt EXCEPT ![p] = heard]
    BY <1>1, <1>3 DEF TypedIngest
  <1>5. Ends(out, e.t) \/ GoesOn(in, out, e.t)
    <2>1. CASE in.aliveSince = NONE
      <3>1. Ends(in, e.t)
        BY <1>1, <2>1, IntervalRests
      <3> QED BY <1>4, <3>1 DEF Ends, Live
    <2>2. CASE in.aliveSince # NONE
      BY <1>4, <2>2 DEF GoesOn
    <2> QED BY <2>1, <2>2
  <1>6. e.kind \notin Breaks /\ Follows(in, e, out)
    BY <1>4 DEF Breaks, Follows
  <1>7. CellsFollow(in, e, out)
    <2>1. ASSUME NEW j \in Sources
          PROVE  CellFollows(e, in.core[j], out.core[j], "live", j)
      BY <1>4, <1>6 DEF CellFollows
    <2>2. ASSUME NEW q \in Profiles
          PROVE  CellFollows(e, in.opt[q], out.opt[q], "optional", q)
      <3>1. q \in DOMAIN in.opt
        BY <1>1 DEF TypedIngest
      <3> QED BY <1>4, <1>6, <3>1 DEF CellFollows, heard
    <2> QED BY <2>1, <2>2 DEF CellsFollow
  <1>8. Summary(h, out, e.t)
    BY <1>2, <1>5, <1>6, <1>7, EntryKeepsSummary
  <1> QED BY <1>8 DEF out, heard

\* A call logs the step it detects, and then at most its own event, where its walk ended.
LogMoves(t) ==
    \/ log' = Found(t)
    \/ \E e \in LogEntry : e.kind # "step" /\ e.c = Clamped(t) /\ OneMore(Found(t), log', e)

LEMMA AppliedMoves ==
  ASSUME NEW t \in Readings, Found(t) \in Seq(LogEntry), Clamped(t) \in Readings,
         NEW kind \in EventKinds \ {"step"}, NEW src \in Sources \union Profiles \union {NONE},
         NEW v \in MaybeValue, Applied(kind, src, v, t)
  PROVE  /\ LogMoves(t)
         /\ \E e : /\ OneMore(Found(t), log', e)
                   /\ e.kind = kind /\ e.t = t /\ e.src = src /\ e.value = v
  <1> DEFINE e == Entry(kind, t, Clamped(t), src, v)
  <1>1. log' = Found(t) \o <<e>>
    BY DEF Applied, Found
  <1>2. /\ e \in LogEntry /\ e.kind = kind /\ e.t = t /\ e.src = src /\ e.value = v
        /\ e.c = Clamped(t)
    BY EntryTyped
  <1> HIDE DEF e
  <1>3. OneMore(Found(t), log', e)
    BY <1>1, <1>2, OneMoreEntry
  <1> QED BY <1>2, <1>3 DEF LogMoves

\* Every entry point advances to its reading and leaves the summary of the log it writes.
LEMMA SummaryStep ==
  ASSUME WalkInv, Summary(log, ingest, mqttLatest), Next
  PROVE  \E t \in Readings : /\ Advance(t) /\ LogMoves(t) /\ mqttLatest' \in {0, t, mqttLatest}
                             /\ Summary(Found(t), Detected(t), BackTo(t))
                             /\ Summary(log', ingest', mqttLatest')
  <1> SUFFICES ASSUME NEW t \in Readings,
                      \/ Connect(t)
                      \/ Disconnect(t)
                      \/ \E state \in {"Online", "Offline"} : Lwt(state, t)
                      \/ \E i \in Sources, v \in Values \union {NONE}, retained \in BOOLEAN :
                             Message(i, v, retained, t)
                      \/ \E p \in Profiles, v \in Values \union {NONE} : OptionalMessage(p, v, t)
                      \/ Tick(t)
               PROVE  /\ Advance(t) /\ LogMoves(t) /\ mqttLatest' \in {0, t, mqttLatest}
                      /\ Summary(Found(t), Detected(t), BackTo(t))
                      /\ Summary(log', ingest', mqttLatest')
    BY DEF Next
  <1> DEFINE g == Found(t)
             in == Detected(t)
             x == BackTo(t)
  <1>1. Summary(g, in, x)
    BY DetectedSummary DEF WalkInv
  <1>2. t \in Nat /\ mqttLatest \in Nat /\ NONE \in MaybeValue
    BY EvidenceTypes DEF WalkInv
  <1>3. Clamped(t) \in Readings /\ g \in Seq(LogEntry)
    BY <1>1 DEF Clamped, WalkInv, Summary
  <1>s. Sound(ingest') /\ Sound(ingest) /\ in \in TypedIngest /\ Sound(in) /\ ingest \in TypedIngest
    BY <1>1, StepSound DEF Summary
  <1>y. ingest' \in TypedIngest
    BY IngestStaysTyped DEF WalkInv
  <1>m. MqttReading(t) => x <= t /\ mqttLatest' = t
    BY <1>2 DEF MqttReading, BackTo
  <1>d. /\ in.connected = ingest.connected /\ in.offline = ingest.offline
        /\ Invalidate(ingest) = Invalidate(in)
    <2>1. CASE ~SteppedBack(t)
      BY <2>1 DEF Detected
    <2>2. CASE SteppedBack(t)
      <3>1. in = Invalidate(ingest)
        BY <2>2 DEF Detected
      <3>2. in.connected = ingest.connected /\ in.offline = ingest.offline
        BY <1>s, <3>1, InvalidateFacts
      <3>3. Invalidate(in) = Invalidate(ingest)
        <4>1. in.lastLive = NONE /\ in.aliveSince = NONE /\ Blank(in)
          BY <1>s, <3>1, InvalidateFacts DEF Blank
        <4> QED BY <1>s, <3>1, <4>1, InvalidateBlank
      <3> QED BY <3>1, <3>2, <3>3
    <2> QED BY <2>1, <2>2
  <1> HIDE DEF g, in, x
  <1>w. ASSUME MqttReading(t), ingest' = in, log' = g
        PROVE  Summary(log', ingest', mqttLatest') /\ LogMoves(t) /\ mqttLatest' = t
    <2>1. Ends(in, t) \/ in.aliveSince # NONE
      BY <1>1, <1>2, <1>m, <1>w, IntervalRests
    <2>2. Summary(g, in, t)
      BY <1>1, <1>2, <1>m, <1>s, <1>w, <2>1, WaitKeepsSummary
    <2> QED BY <1>m, <1>w, <2>2 DEF LogMoves, g
  <1>4. CASE Connect(t)
    <2>1. /\ MqttReading(t) /\ Applied("connect", NONE, NONE, t) /\ Advance(t)
          /\ ingest' = [NothingHeard EXCEPT !.connected = TRUE]
      BY <1>4 DEF Connect
    <2>2. LogMoves(t) /\ \E e : OneMore(g, log', e) /\ e.kind = "connect" /\ e.t = t
      BY <1>2, <1>3, <2>1, AppliedMoves DEF EventKinds, g
    <2>3. PICK e : OneMore(g, log', e) /\ e.kind = "connect" /\ e.t = t
      BY <2>2
    <2>4. Summary(log', ingest', t)
      BY <1>1, <1>m, <2>1, <2>3, ConnectSummary
    <2> QED BY <1>1, <1>m, <2>1, <2>2, <2>4 DEF g, in, x
  <1>5. CASE Disconnect(t)
    <2>1. MqttReading(t) /\ Advance(t)
      BY <1>5 DEF Disconnect
    <2>2. CASE /\ ingest.connected /\ Applied("disconnect", NONE, NONE, t)
               /\ ingest' = [Invalidate(ingest) EXCEPT !.connected = FALSE]
      <3>1. LogMoves(t) /\ \E e : OneMore(g, log', e) /\ e.kind = "disconnect" /\ e.t = t
        BY <1>2, <1>3, <2>2, AppliedMoves DEF EventKinds, g
      <3>2. PICK e : OneMore(g, log', e) /\ e.kind = "disconnect" /\ e.t = t
        BY <3>1
      <3> DEFINE gone == Invalidate(ingest)
      <3>3. gone \in TypedIngest /\ Blank(gone) /\ gone.aliveSince = NONE /\ gone.offline = in.offline
        BY <1>d, <1>s, InvalidateTyped, InvalidateFacts DEF Blank
      <3>4. ingest' = [gone EXCEPT !.connected = FALSE]
        BY <2>2
      <3> HIDE DEF gone
      <3>5. /\ ingest'.connected = FALSE /\ ingest'.offline = in.offline
            /\ ingest'.aliveSince = NONE /\ Blank(ingest')
        BY <3>3, <3>4 DEF TypedIngest, Blank
      <3>6. Summary(log', ingest', t)
        BY <1>1, <1>m, <1>s, <1>y, <2>1, <3>2, <3>5, DisconnectSummary
      <3> QED BY <1>1, <1>m, <2>1, <3>1, <3>6 DEF g, in, x
    <2>3. CASE ingest' = Detected(t) /\ log' = log \o StepEntry(t)
      <3>1. ingest' = in /\ log' = g
        BY <2>3 DEF in, g, Found
      <3> QED BY <1>1, <1>w, <2>1, <3>1 DEF g, in, x
    <2> QED BY <1>5, <2>2, <2>3 DEF Disconnect
  <1>6. ASSUME NEW state \in {"Online", "Offline"}, Lwt(state, t)
        PROVE  /\ Advance(t) /\ LogMoves(t) /\ mqttLatest' = t
               /\ Summary(log', ingest', mqttLatest')
    <2> DEFINE now == [in EXCEPT !.offline = (state = "Offline")]
    <2>1. /\ MqttReading(t) /\ Advance(t)
          /\ IF state = "Offline" \/ ingest.offline
             THEN Applied(state, NONE, NONE, t)
             ELSE log' = log \o StepEntry(t)
          /\ ingest' = RefreshAlive(IF state = "Offline" THEN Invalidate(now) ELSE now, t)
      BY <1>6 DEF Lwt, in
    <2>2. CASE state = "Offline"
      <3>1. LogMoves(t) /\ \E e : OneMore(g, log', e) /\ e.kind = "Offline" /\ e.t = t
        BY <1>2, <1>3, <2>1, <2>2, AppliedMoves DEF EventKinds, g
      <3>2. PICK e : OneMore(g, log', e) /\ e.kind = "Offline" /\ e.t = t
        BY <3>1
      <3> DEFINE gone == Invalidate(now)
      <3>3. now \in TypedIngest /\ now.offline = TRUE /\ now.connected = in.connected
        BY <1>s, <2>2 DEF TypedIngest
      <3>4. ingest' = RefreshAlive(gone, t)
        BY <2>1, <2>2
      <3> HIDE DEF now
      <3>5. /\ gone \in TypedIngest /\ Blank(gone) /\ gone.offline = TRUE
            /\ gone.connected = in.connected
        BY <3>3, InvalidateTyped, InvalidateFacts DEF Blank
      <3> HIDE DEF gone
      <3>6. ~AliveAt(gone, t)
        BY <3>5 DEF AliveAt
      <3>7. /\ ingest'.connected = gone.connected /\ ingest'.offline = gone.offline
            /\ ingest'.lastLive = gone.lastLive /\ ingest'.core = gone.core /\ ingest'.opt = gone.opt
            /\ Ends(ingest', t)
        BY <3>4, <3>5, <3>6, RefreshFacts
      <3>8. /\ ingest'.connected = in.connected /\ ingest'.offline = TRUE
            /\ ingest'.aliveSince = NONE /\ Blank(ingest')
        BY <3>5, <3>7 DEF Blank, Ends
      <3>9. Summary(log', ingest', t)
        BY <1>1, <1>m, <1>s, <1>y, <2>1, <3>2, <3>8, OfflineSummary
      <3> QED BY <1>m, <2>1, <3>1, <3>9
    <2>3. CASE state = "Online" /\ ingest.offline
      <3>1. LogMoves(t) /\ \E e : OneMore(g, log', e) /\ e.kind = "Online" /\ e.t = t
        BY <1>2, <1>3, <2>1, <2>3, AppliedMoves DEF EventKinds, g
      <3>2. PICK e : OneMore(g, log', e) /\ e.kind = "Online" /\ e.t = t
        BY <3>1
      <3>3. ingest' = RefreshAlive([in EXCEPT !.offline = FALSE], t)
        BY <2>1, <2>3
      <3>5. /\ ingest' = RefreshAlive([in EXCEPT !.offline = FALSE], e.t)
            /\ Sound(RefreshAlive([in EXCEPT !.offline = FALSE], e.t))
            /\ in.offline /\ x <= e.t
        BY <1>d, <1>m, <1>s, <2>1, <2>3, <3>2, <3>3
      <3>6. Summary(log', RefreshAlive([in EXCEPT !.offline = FALSE], e.t), e.t)
        BY <1>1, <3>2, <3>5, OnlineSummary
      <3>4. Summary(log', ingest', t)
        BY <3>2, <3>5, <3>6
      <3> QED BY <1>m, <2>1, <3>1, <3>4
    <2>4. CASE state = "Online" /\ ~ingest.offline
      <3>1. ingest' = RefreshAlive([in EXCEPT !.offline = FALSE], t) /\ log' = g
        BY <2>1, <2>4 DEF g, Found
      <3>2. Summary(log', ingest', t)
        BY <1>1, <1>d, <1>m, <1>s, <2>1, <2>4, <3>1, StillOnlineSummary
      <3> QED BY <1>m, <2>1, <3>1, <3>2 DEF LogMoves, g
    <2> QED BY <2>2, <2>3, <2>4
  <1>7. ASSUME NEW i \in Sources, NEW v \in Values \union {NONE}, NEW retained \in BOOLEAN,
               Message(i, v, retained, t)
        PROVE  /\ Advance(t) /\ LogMoves(t) /\ mqttLatest' = t
               /\ Summary(log', ingest', mqttLatest')
    <2>1. ingest.connected /\ MqttReading(t) /\ Advance(t) /\ v \in MaybeValue
      BY <1>7 DEF Message, MaybeValue
    <2>2. CASE ingest' = Detected(t) /\ log' = log \o StepEntry(t)
      <3>1. ingest' = in /\ log' = g
        BY <2>2 DEF in, g, Found
      <3> QED BY <1>w, <2>1, <3>1
    <2>3. CASE Applied("live", i, v, t) /\ ingest' = Heard(Detected(t), i, v, t)
      <3>1. LogMoves(t) /\ \E e : OneMore(g, log', e) /\ e.kind = "live" /\ e.t = t /\ e.src = i /\ e.value = v
        BY <1>2, <1>3, <2>1, <2>3, AppliedMoves DEF EventKinds, g
      <3>2. PICK e : OneMore(g, log', e) /\ e.kind = "live" /\ e.t = t /\ e.src = i /\ e.value = v
        BY <3>1
      <3>3. ingest' = Heard(in, i, v, e.t) /\ in.connected /\ x <= e.t
        BY <1>d, <1>m, <2>1, <2>3, <3>2 DEF in
      <3>4. Summary(log', Heard(in, i, v, e.t), e.t)
        BY <1>1, <2>1, <3>2, <3>3, LiveSummary
      <3> QED BY <1>m, <2>1, <3>1, <3>2, <3>3, <3>4
    <2> QED BY <1>7, <2>2, <2>3 DEF Message
  <1>8. ASSUME NEW p \in Profiles, NEW v \in Values \union {NONE}, OptionalMessage(p, v, t)
        PROVE  /\ Advance(t) /\ LogMoves(t) /\ mqttLatest' = t
               /\ Summary(log', ingest', mqttLatest')
    <2>1. /\ ingest.connected /\ MqttReading(t) /\ Advance(t) /\ v \in MaybeValue
          /\ Applied("optional", p, v, t)
          /\ ingest' = [in EXCEPT !.opt[p] = [seen |-> TRUE, value |-> v, at |-> t]]
      BY <1>8 DEF OptionalMessage, MaybeValue, in
    <2>2. LogMoves(t) /\ \E e : OneMore(g, log', e) /\ e.kind = "optional" /\ e.t = t /\ e.src = p /\ e.value = v
      BY <1>2, <1>3, <2>1, AppliedMoves DEF EventKinds, g
    <2>3. PICK e : OneMore(g, log', e) /\ e.kind = "optional" /\ e.t = t /\ e.src = p /\ e.value = v
      BY <2>2
    <2>4. Sound([in EXCEPT !.opt[p] = [seen |-> TRUE, value |-> v, at |-> e.t]])
      BY <1>s, <2>1, <2>3
    <2>5. Summary(log', [in EXCEPT !.opt[p] = [seen |-> TRUE, value |-> v, at |-> e.t]], e.t)
      BY <1>1, <1>d, <1>m, <2>1, <2>3, <2>4, OptionalSummary
    <2> QED BY <1>m, <2>1, <2>2, <2>3, <2>5
  <1>9. CASE Tick(t)
    <2>1. Advance(t) /\ ingest' = in /\ log' = g /\ mqttLatest' = x
      BY <1>9 DEF Tick, in, g, x, Found, BackTo
    <2>2. mqttLatest' \in {0, t, mqttLatest}
      BY <2>1 DEF x, BackTo
    <2> QED BY <1>1, <2>1, <2>2 DEF LogMoves, g, in, x
  <1> QED BY <1>1, <1>4, <1>5, <1>6, <1>7, <1>8, <1>9 DEF g, in, x

-----------------------------------------------------------------------------
(* The value of a unit, read off a log cut at it, and what ingest says.    *)

\* ValueAt and CoreAt with the log g and the known entries K as parameters.
ValueOver(g, K, u, kind, src) ==
    LET newest == NewestOf(g, K, kind, src)
    IN  IF newest > LastOf(g, K, Breaks) /\ u < g[newest].t + StaleAfter
           /\ LET lwt == LastOf(g, K, {"connect", "Online", "Offline"})
              IN  lwt # 0 /\ g[lwt].kind # "Offline"
        THEN g[newest].value ELSE NONE

CoreOver(g, K, u) ==
    LET known == {i \in Sources : ValueOver(g, K, u, "live", i) # NONE}
    IN  IF known = {} THEN NONE ELSE ValueOver(g, K, u, "live", Min(known))

\* The entries whose walk ended by u.
Applicable(g, u) == {k \in DOMAIN g : g[k].c <= u}
CoreIn(g, u) == CoreOver(g, Applicable(g, u), u)
OptionalIn(g, u, p) == ValueOver(g, Applicable(g, u), u, "optional", p)

\* A connected source that is not Offline has an LWT entry that says so.
LEMMA OnlineFacts ==
  ASSUME NEW g \in Seq(LogEntry), NEW in, Reflects(g, in), in.connected
  PROVE  ~in.offline <=> LwtOf(g) # 0 /\ g[LwtOf(g)].kind # "Offline"
  <1>1. ConnOf(g) # 0 /\ g[ConnOf(g)].kind = "connect"
    BY DEF Reflects
  <1>2. ConnOf(g) \in DOMAIN g
    BY <1>1, WholeFacts DEF ConnOf
  <1>3. ConnOf(g) <= LwtOf(g) /\ LwtOf(g) \in Nat
    BY <1>1, <1>2, WholeFacts DEF LwtOf
  <1>4. LwtOf(g) # 0
    BY <1>2, <1>3, LogShape
  <1> QED BY <1>4 DEF Reflects

\* Over the whole log, a topic's value is what ingest holds confirmed of it.
LEMMA ValueIsConfirmed ==
  ASSUME NEW g, NEW in, NEW x, Summary(g, in, x), NEW kind \in {"live", "optional"}, NEW src,
         NEW s \in Evidence, CellOf(g, s, kind, src), NEW u \in Nat
  PROVE  ValueOver(g, DOMAIN g, u, kind, src) = Confirmed(in, s, u)
  <1> DEFINE y == NewestOf(g, DOMAIN g, kind, src)
  <1>1. g \in Seq(LogEntry) /\ Reflects(g, in)
    BY DEF Summary
  <1>2. BreakOf(g) \in Nat
    BY <1>1, WholeFacts DEF BreakOf
  <1>3. ValueOver(g, DOMAIN g, u, kind, src) =
          IF y > BreakOf(g) /\ u < g[y].t + StaleAfter /\ LwtOf(g) # 0 /\ g[LwtOf(g)].kind # "Offline"
          THEN g[y].value ELSE NONE
    BY DEF ValueOver, BreakOf, LwtOf
  <1>4. IF y > BreakOf(g) THEN s = [seen |-> TRUE, value |-> g[y].value, at |-> g[y].t]
                          ELSE s.value = NONE
    BY DEF CellOf
  <1>5. y \in Nat /\ (y # 0 => y \in DOMAIN g /\ g[y].kind = kind)
    <2> DEFINE T == {k \in DOMAIN g : g[k].kind = kind /\ g[k].src = src}
    <2>1. IsTop(y, T)
      <3>1. T \subseteq 1 .. Len(g) /\ y = Max({0} \union T) /\ Len(g) \in Nat
        BY <1>1, LogShape DEF NewestOf
      <3> HIDE DEF T, y
      <3> QED BY <3>1, TopExists
    <2> QED BY <2>1 DEF IsTop
  <1> HIDE DEF y
  <1>6. CASE ~(y > BreakOf(g))
    BY <1>3, <1>4, <1>6 DEF Confirmed
  <1>7. CASE y > BreakOf(g)
    <2>1. y \in DOMAIN g /\ g[y].kind \in {"live", "optional"}
      BY <1>2, <1>5, <1>7
    <2>2. in.connected
      BY <1>1, <1>7, <2>1 DEF Reflects
    <2>3. ~in.offline <=> LwtOf(g) # 0 /\ g[LwtOf(g)].kind # "Offline"
      BY <1>1, <2>2, OnlineFacts
    <2>4. s.seen = TRUE /\ s.value = g[y].value /\ s.at = g[y].t
      BY <1>4, <1>7
    <2>5. Confirmed(in, s, u) = IF ~in.offline /\ s.value # NONE /\ u < s.at + StaleAfter
                                THEN s.value ELSE NONE
      BY <2>2, <2>4 DEF Confirmed
    <2> QED BY <1>3, <1>7, <2>3, <2>4, <2>5
  <1> QED BY <1>6, <1>7

LEMMA WholeLogValues ==
  ASSUME NEW g, NEW in, NEW x, Summary(g, in, x), NEW u \in Nat
  PROVE  /\ \A i \in Sources : ValueOver(g, DOMAIN g, u, "live", i) = Confirmed(in, in.core[i], u)
         /\ \A p \in Profiles : ValueOver(g, DOMAIN g, u, "optional", p) = Confirmed(in, in.opt[p], u)
         /\ CoreOver(g, DOMAIN g, u) = Historical(in, u)
  <1>1. in \in TypedIngest /\ Cells(g, in)
    BY DEF Summary
  <1>2. ASSUME NEW i \in Sources
        PROVE  ValueOver(g, DOMAIN g, u, "live", i) = Confirmed(in, in.core[i], u)
    <2>1. in.core[i] \in Evidence /\ CellOf(g, in.core[i], "live", i)
      BY <1>1 DEF TypedIngest, Cells
    <2> QED BY <2>1, ValueIsConfirmed
  <1>3. ASSUME NEW p \in Profiles
        PROVE  ValueOver(g, DOMAIN g, u, "optional", p) = Confirmed(in, in.opt[p], u)
    <2>1. in.opt[p] \in Evidence /\ CellOf(g, in.opt[p], "optional", p)
      BY <1>1 DEF TypedIngest, Cells
    <2> QED BY <2>1, ValueIsConfirmed
  <1>4. CoreOver(g, DOMAIN g, u) = Historical(in, u)
    <2> DEFINE known == {i \in Sources : ValueOver(g, DOMAIN g, u, "live", i) # NONE}
               confirmed == {i \in Sources : Confirmed(in, in.core[i], u) # NONE}
    <2>1. known = confirmed
      BY <1>2
    <2>2. /\ CoreOver(g, DOMAIN g, u) =
               IF known = {} THEN NONE ELSE ValueOver(g, DOMAIN g, u, "live", Min(known))
          /\ Historical(in, u) = IF confirmed = {} THEN NONE ELSE in.core[Min(confirmed)].value
      BY DEF CoreOver, Historical
    <2>3. CASE confirmed # {}
      <3>1. confirmed \subseteq Nat /\ confirmed \subseteq Sources
        BY DEF Sources
      <3>2. Min(confirmed) \in confirmed
        <4> HIDE DEF confirmed
        <4> QED BY <2>3, <3>1, LeastElement
      <3>3. Min(confirmed) \in Sources /\ Confirmed(in, in.core[Min(confirmed)], u) # NONE
        BY <3>2
      <3>4. \A i \in Sources : Confirmed(in, in.core[i], u) # NONE =>
               Confirmed(in, in.core[i], u) = in.core[i].value
        BY DEF Confirmed
      <3> HIDE DEF known, confirmed
      <3> QED BY <1>2, <2>1, <2>2, <2>3, <3>3, <3>4
    <2>4. CASE confirmed = {}
      <3> HIDE DEF known, confirmed
      <3> QED BY <2>1, <2>2, <2>4
    <2> QED BY <2>3, <2>4
  <1> QED BY <1>2, <1>3, <1>4

\* h goes on from g with entries whose walk ended at c or later.
GoesOnFrom(g, h, c) ==
    /\ g \in Seq(LogEntry) /\ h \in Seq(LogEntry) /\ DOMAIN g \subseteq DOMAIN h
    /\ Agree(g, h, DOMAIN g)
    /\ \A k \in DOMAIN h \ DOMAIN g : c <= h[k].c

\* What was known before c stays known, and nothing else is.
LEMMA CutStays ==
  ASSUME NEW g, NEW h, NEW c \in Nat, GoesOnFrom(g, h, c)
  PROVE  /\ \A b \in Nat : b <= c =>
                {k \in DOMAIN h : h[k].c < b} = {k \in DOMAIN g : g[k].c < b}
         /\ \A u \in Nat : u < c => Applicable(h, u) = Applicable(g, u)
  <1>1. /\ DOMAIN g \subseteq DOMAIN h
        /\ \A k \in DOMAIN g : h[k] = g[k]
        /\ \A k \in DOMAIN h \ DOMAIN g : c <= h[k].c
        /\ \A k \in DOMAIN h : h[k].c \in Nat
    BY LogShape DEF GoesOnFrom, Agree
  <1>2. ASSUME NEW b \in Nat, b <= c
        PROVE  {k \in DOMAIN h : h[k].c < b} = {k \in DOMAIN g : g[k].c < b}
    <2>1. \A k \in DOMAIN h : h[k].c < b => k \in DOMAIN g
      BY <1>1, <1>2
    <2> QED BY <1>1, <2>1
  <1>3. ASSUME NEW u \in Nat, u < c
        PROVE  Applicable(h, u) = Applicable(g, u)
    <2>1. \A k \in DOMAIN h : h[k].c <= u => k \in DOMAIN g
      BY <1>1, <1>3
    <2> QED BY <1>1, <2>1 DEF Applicable
  <1> QED BY <1>2, <1>3

LEMMA ValueAgrees ==
  ASSUME NEW g \in Seq(LogEntry), NEW K, K \subseteq DOMAIN g, NEW h, Agree(g, h, K),
         NEW u, NEW kind, NEW src
  PROVE  ValueOver(h, K, u, kind, src) = ValueOver(g, K, u, kind, src)
  <1> DEFINE n == Len(g)
             T == {k \in K : g[k].kind = kind /\ g[k].src = src}
             y == NewestOf(g, K, kind, src)
             lwt == LastOf(g, K, {"connect", "Online", "Offline"})
             brk == LastOf(g, K, Breaks)
  <1>0. n \in Nat /\ K \subseteq 1 .. n
    BY LogShape
  <1> HIDE DEF n
  <1>1. LastOf(h, K, Breaks) = brk
    BY LastAgrees
  <1>2. LastOf(h, K, {"connect", "Online", "Offline"}) = lwt
    BY LastAgrees
  <1>3. NewestOf(h, K, kind, src) = y
    <2>1. {k \in K : h[k].kind = kind /\ h[k].src = src} = T
      BY DEF Agree
    <2> QED BY <2>1 DEF NewestOf
  <1>4. y \in Nat /\ (y # 0 => y \in K)
    <2>1. IsTop(y, T)
      <3>1. T \subseteq 1 .. n /\ y = Max({0} \union T)
        BY <1>0 DEF NewestOf
      <3> HIDE DEF T, y
      <3> QED BY <1>0, <3>1, TopExists
    <2> QED BY <2>1 DEF IsTop
  <1>5. brk \in Nat /\ lwt \in Nat /\ (lwt # 0 => lwt \in K)
    BY <1>0, LastOfFacts
  <1>6. ValueOver(g, K, u, kind, src) =
          IF y > brk /\ u < g[y].t + StaleAfter /\ lwt # 0 /\ g[lwt].kind # "Offline"
          THEN g[y].value ELSE NONE
    BY DEF ValueOver
  <1>7. ValueOver(h, K, u, kind, src) =
          IF y > brk /\ u < h[y].t + StaleAfter /\ lwt # 0 /\ h[lwt].kind # "Offline"
          THEN h[y].value ELSE NONE
    BY <1>1, <1>2, <1>3 DEF ValueOver
  <1> HIDE DEF y, lwt, brk
  <1>8. (y > brk => h[y] = g[y]) /\ (lwt # 0 => h[lwt] = g[lwt])
    BY <1>4, <1>5 DEF Agree
  <1>9. CASE y > brk /\ lwt # 0
    BY <1>6, <1>7, <1>8, <1>9
  <1>10. CASE ~(y > brk /\ lwt # 0)
    BY <1>6, <1>7, <1>10
  <1> QED BY <1>9, <1>10

\* The values of a unit behind c stay what they were.
LEMMA UnitStays ==
  ASSUME NEW g, NEW h, NEW c \in Nat, GoesOnFrom(g, h, c), NEW u \in Nat, u < c
  PROVE  CoreIn(h, u) = CoreIn(g, u) /\ \A p \in Profiles : OptionalIn(h, u, p) = OptionalIn(g, u, p)
  <1> DEFINE K == Applicable(g, u)
  <1>1. Applicable(h, u) = K
    BY CutStays
  <1>2. g \in Seq(LogEntry) /\ K \subseteq DOMAIN g /\ Agree(g, h, K)
    BY DEF GoesOnFrom, Agree, Applicable
  <1> HIDE DEF K
  <1>3. ASSUME NEW kind, NEW src
        PROVE  ValueOver(h, K, u, kind, src) = ValueOver(g, K, u, kind, src)
    BY <1>2, ValueAgrees
  <1>4. CoreOver(h, K, u) = CoreOver(g, K, u)
    <2>1. \A i : ValueOver(h, K, u, "live", i) = ValueOver(g, K, u, "live", i)
      BY <1>3
    <2>2. {i \in Sources : ValueOver(h, K, u, "live", i) # NONE} =
              {i \in Sources : ValueOver(g, K, u, "live", i) # NONE}
      BY <2>1
    <2> QED BY <2>1, <2>2 DEF CoreOver
  <1> QED BY <1>1, <1>3, <1>4 DEF CoreIn, OptionalIn, K

-----------------------------------------------------------------------------
(* Minutes: what makes a row due, and what a cut of the log knows of it.   *)

\* Every entry was applied at a position up to c.
Behind(g, c) == \A k \in DOMAIN g : g[k].c <= c

\* RowDue of minute m over the entries I of g, but for the process start.
Due(g, I, m) ==
    /\ \A k \in I :
           /\ g[k].kind = "step" => ~Inside(g[k].c, m)
           /\ g[k].kind \in Breaks /\ k > LastOf(g, I, {"step"}) => ~Inside(g[k].t, m)
    /\ \A u \in m..(m + MINUTE - 1) : AliveOver(g, KnownAt(g, I, u), u)

LEMMA AliveOverAgrees ==
  ASSUME NEW g \in Seq(LogEntry), NEW K, K \subseteq DOMAIN g, NEW h, Agree(g, h, K), NEW u
  PROVE  AliveOver(h, K, u) <=> AliveOver(g, K, u)
  <1> DEFINE n == Len(g)
  <1>1. n \in Nat /\ K \subseteq 1 .. n
    BY LogShape
  <1> HIDE DEF n
  <1> QED BY <1>1, AliveAgrees

LEMMA DueAgrees ==
  ASSUME NEW g \in Seq(LogEntry), NEW I, I \subseteq DOMAIN g, NEW h, Agree(g, h, I), NEW m
  PROVE  Due(h, I, m) <=> Due(g, I, m)
  <1>1. LastOf(h, I, {"step"}) = LastOf(g, I, {"step"})
    BY LastAgrees
  <1>2. \A k \in I : h[k] = g[k]
    BY DEF Agree
  <1>3. ASSUME NEW u
        PROVE  AliveOver(h, KnownAt(h, I, u), u) <=> AliveOver(g, KnownAt(g, I, u), u)
    <2> DEFINE K == KnownAt(g, I, u)
    <2>1. KnownAt(h, I, u) = K
      BY <1>1, <1>2 DEF KnownAt
    <2>2. K \subseteq DOMAIN g /\ Agree(g, h, K)
      BY DEF KnownAt, Agree
    <2> HIDE DEF K
    <2>3. AliveOver(h, K, u) <=> AliveOver(g, K, u)
      BY <2>2, AliveOverAgrees
    <2> QED BY <2>1, <2>3 DEF K
  <1>4. (\A u \in m..(m + MINUTE - 1) : AliveOver(h, KnownAt(h, I, u), u))
          <=> (\A u \in m..(m + MINUTE - 1) : AliveOver(g, KnownAt(g, I, u), u))
    BY <1>3
  <1> QED BY <1>1, <1>2, <1>4 DEF Due

\* The property's own words for it, before and after a step.
LEMMA RowDueIs ==
  ASSUME NEW m
  PROVE  /\ RowDue(m) <=> m >= start /\ Due(log, {k \in DOMAIN log : log[k].c < m + MINUTE}, m)
         /\ RowDue(m)' <=>
                m >= start' /\ Due(log', {k \in DOMAIN log' : log'[k].c < m + MINUTE}, m)
  <1>1. RowDue(m) <=> m >= start /\ Due(log, BeforeClose(m), m)
    BY DEF RowDue, Due, LastStep, LastIn, LastOf, ObservedAlive, AliveOver, KnownAt
  <1>2. RowDue(m)' <=> m >= start' /\ Due(log', {k \in DOMAIN log' : log'[k].c < m + MINUTE}, m)
    BY DEF RowDue, Due, BeforeClose, LastStep, LastIn, LastOf, ObservedAlive, AliveOver, KnownAt
  <1> QED BY <1>1, <1>2 DEF BeforeClose

\* A minute behind c is due exactly if it was.
LEMMA DueStays ==
  ASSUME NEW g, NEW h, NEW c \in Nat, GoesOnFrom(g, h, c), NEW m \in Nat, m + MINUTE <= c
  PROVE  Due(h, {k \in DOMAIN h : h[k].c < m + MINUTE}, m)
           <=> Due(g, {k \in DOMAIN g : g[k].c < m + MINUTE}, m)
  <1> DEFINE I == {k \in DOMAIN g : g[k].c < m + MINUTE}
  <1>1. m + MINUTE \in Nat
    BY FloorOfMinute
  <1>2. {k \in DOMAIN h : h[k].c < m + MINUTE} = I
    BY <1>1, CutStays
  <1>3. g \in Seq(LogEntry) /\ I \subseteq DOMAIN g /\ Agree(g, h, I)
    BY DEF GoesOnFrom, Agree
  <1> HIDE DEF I
  <1>4. Due(h, I, m) <=> Due(g, I, m)
    BY <1>3, DueAgrees
  <1> QED BY <1>2, <1>4 DEF I

\* A minute that closes between what g applied and what comes after is due by all of g.
LEMMA DueNow ==
  ASSUME NEW g, NEW h, NEW c \in Nat, GoesOnFrom(g, h, c), NEW b \in Nat, Behind(g, b),
         NEW m \in Nat, b < m + MINUTE, m + MINUTE <= c
  PROVE  Due(h, {k \in DOMAIN h : h[k].c < m + MINUTE}, m) <=> Due(g, DOMAIN g, m)
  <1>1. g \in Seq(LogEntry)
    BY DEF GoesOnFrom
  <1>2. {k \in DOMAIN g : g[k].c < m + MINUTE} = DOMAIN g
    <2>1. \A k \in DOMAIN g : g[k].c \in Nat /\ g[k].c <= b
      BY <1>1, LogShape DEF Behind
    <2>2. m + MINUTE \in Nat
      BY FloorOfMinute
    <2>3. \A k \in DOMAIN g : g[k].c < m + MINUTE
      BY <2>1, <2>2
    <2> QED BY <2>3
  <1> QED BY <1>2, DueStays

\* At its close, a minute gets a row exactly if it is due: the interval and the evidence stand
\* for every unit, and the poisoning for the clock steps inside.
LEMMA ClosingIsDue ==
  ASSUME NEW g, NEW in, NEW x, Summary(g, in, x), NEW m \in Nat, x < m + MINUTE
  PROVE  /\ (\A k \in DOMAIN g : g[k].kind = "step" => ~Inside(g[k].c, m))
         /\ AliveThrough(in, m, m + MINUTE)
         <=> Due(g, DOMAIN g, m)
  <1> DEFINE end == m + MINUTE
             a == in.aliveSince
             Clear == \A k \in DOMAIN g : g[k].kind = "step" => ~Inside(g[k].c, m)
             Whole == \A k \in DOMAIN g : g[k].kind \in Breaks /\ k > StepOf(g) => ~Inside(g[k].t, m)
             Alive == \A u \in m..(m + MINUTE - 1) : AliveIn(g, u)
  <1>1. /\ g \in Seq(LogEntry) /\ in \in TypedIngest /\ x \in Nat
        /\ Reflects(g, in) /\ Past(g, x) /\ Interval(g, in, x)
    BY DEF Summary
  <1>2. MINUTE \in Nat /\ MINUTE >= 1 /\ end \in Nat /\ StaleAfter \in Nat
    BY FloorOfMinute, TimeAssumption
  <1>3. /\ in.lastLive \in Int /\ a \in Int
        /\ in.lastLive # NONE => in.lastLive \in Nat
        /\ a # NONE => a \in Nat
    BY <1>1, TimesTyped
  <1>4. Due(g, DOMAIN g, m) <=> Clear /\ Whole /\ Alive
    BY DEF Due, AliveIn, StepOf
  <1>5. \A k \in DOMAIN g : g[k].t \in Nat
    BY <1>1, LogShape
  <1> HIDE DEF Clear, Whole, Alive
  <1>6. ASSUME AliveThrough(in, m, end)
        PROVE  Whole /\ Alive
    <2>1. a # NONE /\ a <= m /\ Live(in) /\ end <= in.lastLive + StaleAfter
      BY <1>1, <1>2, <1>3, <1>6 DEF AliveThrough, AliveAt, Live
    <2>2. Since(g, in, a, x)
      BY <1>1, <2>1 DEF Interval
    <2>3. Whole
      <3>1. \A k \in DOMAIN g : g[k].kind \in Breaks /\ k > StepOf(g) => g[k].t <= a
        BY <2>2 DEF Since, BreaksBy
      <3>2. \A k \in DOMAIN g : g[k].t <= a => ~Inside(g[k].t, m)
        BY <1>3, <1>5, <2>1 DEF Inside
      <3> QED BY <3>1, <3>2 DEF Whole
    <2>4. Alive
      <3> SUFFICES ASSUME NEW u \in m..(m + MINUTE - 1)
                   PROVE  AliveIn(g, u)
        BY DEF Alive
      <3>1. u \in Nat /\ a <= u /\ u + 1 <= in.lastLive + StaleAfter
        BY <1>2, <1>3, <2>1
      <3> QED BY <2>2, <3>1 DEF Since
    <2> QED BY <2>3, <2>4
  <1>7. ASSUME Whole, Alive
        PROVE  AliveThrough(in, m, end)
    <2> DEFINE u == end - 1
    <2>1. u \in Nat /\ x <= u /\ u \in m..(m + MINUTE - 1) /\ u + 1 = end
      BY <1>1, <1>2
    <2>2. AliveIn(g, u)
      BY <1>7, <2>1 DEF Alive
    <2>3. BreaksBy(g, u)
      <3>1. \A k \in DOMAIN g : k > StepOf(g) => g[k].t <= x
        BY <1>1 DEF Past
      <3> QED BY <1>1, <1>5, <2>1, <3>1 DEF BreaksBy
    <2>4. Covers(in, u)
      BY <1>1, <2>1, <2>2, <2>3, AliveIsCovered
    <2>5. Live(in) /\ end <= in.lastLive + StaleAfter
      BY <2>1, <2>4 DEF Covers, Live
    <2>6. a # NONE
      <3>1. Live(in) /\ a = NONE => in.lastLive + StaleAfter < x
        BY <1>1 DEF Interval
      <3>2. in.lastLive + StaleAfter \in Int
        BY <1>2, <1>3
      <3> QED BY <1>1, <1>2, <2>5, <3>1, <3>2
    <2>7. Since(g, in, a, x) /\ a \in Nat
      BY <1>1, <1>3, <2>6 DEF Interval
    <2>8. a <= m
      <3> SUFFICES ASSUME m < a
                   PROVE  FALSE
        BY <2>7
      <3>1. a <= x /\ a # 0 /\ a < end
        BY <1>1, <1>2, <2>7 DEF Since
      <3>2. Inside(a, m) /\ a - 1 \in m..(m + MINUTE - 1)
        BY <1>2, <2>7, <3>1 DEF Inside
      <3>3. ~BreakAt(g, a)
        BY <1>7, <3>2 DEF BreakAt, Whole
      <3>4. AliveIn(g, a - 1)
        BY <1>7, <3>2 DEF Alive
      <3> QED BY <2>7, <3>1, <3>3, <3>4 DEF Since
    <2> QED BY <1>2, <1>3, <2>5, <2>6, <2>8 DEF AliveThrough, AliveAt, Live
  <1> QED BY <1>4, <1>6, <1>7 DEF Clear

-----------------------------------------------------------------------------
(* What a step writes in the log, against the positions of the cursor.     *)

\* No clock step came after the minute that starts at first was entered.
NoStepAfter(g, first) == \A k \in DOMAIN g : g[k].kind = "step" => g[k].c <= first

LEMMA FoundFacts ==
  ASSUME log \in Seq(LogEntry), Behind(log, accumulator.cursor), accumulator.cursor \in Readings,
         NEW t \in Readings, Found(t) \in Seq(LogEntry)
  PROVE  /\ GoesOnFrom(log, Found(t), accumulator.cursor)
         /\ Behind(Found(t), accumulator.cursor)
         /\ \A first \in Nat : first <= accumulator.cursor =>
                (NoStepAfter(Found(t), first)
                   <=> NoStepAfter(log, first) /\ (SteppedBack(t) => accumulator.cursor = first))
  <1> DEFINE c == accumulator.cursor
             g == Found(t)
  <1>1. c \in Nat
    BY TimeAssumption DEF Readings
  <1>2. /\ Len(log) \in Nat /\ DOMAIN log = 1 .. Len(log)
        /\ \A k \in DOMAIN log : log[k].c \in Nat /\ log[k].c <= c
    BY LogShape DEF Behind
  <1>3. CASE ~SteppedBack(t)
    <2>1. g = log
      BY <1>3 DEF Found, StepEntry
    <2> HIDE DEF g
    <2>2. GoesOnFrom(log, g, c)
      BY <2>1 DEF GoesOnFrom, Agree
    <2> QED BY <1>3, <2>1, <2>2 DEF g
  <1>4. CASE SteppedBack(t)
    <2> DEFINE e == Entry("step", t, c, NONE, NONE)
    <2>1. e \in LogEntry /\ e.kind = "step" /\ e.c = c
      <3>1. "step" \in EventKinds /\ NONE \in MaybeValue /\ NONE \in Sources \union Profiles \union {NONE}
        BY EvidenceTypes DEF EventKinds
      <3> QED BY <3>1 DEF Entry, LogEntry
    <2>2. g = log \o <<e>>
      BY <1>4 DEF Found, StepEntry
    <2> HIDE DEF e, g
    <2>3. OneMore(log, g, e)
      BY <2>1, <2>2, OneMoreEntry
    <2> DEFINE n == Len(log)
    <2>4. /\ n \in Nat /\ DOMAIN log = 1 .. n /\ DOMAIN g = 1 .. (n + 1)
          /\ g[n + 1] = e /\ \A k \in 1 .. n : g[k] = log[k]
      BY <2>3 DEF OneMore
    <2> HIDE DEF n
    <2>5. \A k \in DOMAIN g : k \notin DOMAIN log => k = n + 1
      BY <2>4
    <2>6. GoesOnFrom(log, g, c)
      <3>1. \A k \in DOMAIN g \ DOMAIN log : c <= g[k].c
        BY <1>1, <2>1, <2>4, <2>5
      <3>2. DOMAIN log \subseteq DOMAIN g
        BY <2>4
      <3>3. Agree(log, g, DOMAIN log)
        BY <2>4 DEF Agree
      <3> QED BY <2>3, <3>1, <3>2, <3>3 DEF GoesOnFrom, OneMore
    <2>7. Behind(g, c)
      <3> SUFFICES ASSUME NEW k \in DOMAIN g
                   PROVE  g[k].c <= c
        BY DEF Behind
      <3>1. CASE k \in DOMAIN log
        BY <1>2, <2>4, <3>1
      <3>2. CASE k \notin DOMAIN log
        BY <1>1, <2>1, <2>4, <2>5, <3>2
      <3> QED BY <3>1, <3>2
    <2>8. ASSUME NEW first \in Nat, first <= c
          PROVE  NoStepAfter(g, first) <=> NoStepAfter(log, first) /\ c = first
      <3>1. n + 1 \in DOMAIN g /\ \A k \in DOMAIN log : k \in DOMAIN g /\ g[k] = log[k]
        BY <2>4
      <3>2. ASSUME NoStepAfter(g, first)
            PROVE  NoStepAfter(log, first) /\ c = first
        <4>1. c <= first
          BY <2>1, <2>4, <3>1, <3>2 DEF NoStepAfter
        <4>2. NoStepAfter(log, first)
          BY <3>1, <3>2 DEF NoStepAfter
        <4> QED BY <1>1, <2>8, <4>1, <4>2
      <3>3. ASSUME NoStepAfter(log, first), c = first
            PROVE  NoStepAfter(g, first)
        <4> SUFFICES ASSUME NEW k \in DOMAIN g
                     PROVE  g[k].c <= first
          BY DEF NoStepAfter
        <4>1. g[k].c <= c
          BY <2>7 DEF Behind
        <4> QED BY <3>3, <4>1
      <3> QED BY <3>2, <3>3
    <2> QED BY <1>4, <2>6, <2>7, <2>8 DEF g
  <1> QED BY <1>3, <1>4

LEMMA LogMovesFacts ==
  ASSUME NEW t \in Readings, Found(t) \in Seq(LogEntry), Behind(Found(t), accumulator.cursor),
         accumulator.cursor \in Readings, LogMoves(t)
  PROVE  /\ GoesOnFrom(Found(t), log', Clamped(t))
         /\ Behind(log', Clamped(t))
         /\ \A first \in Nat : NoStepAfter(log', first) <=> NoStepAfter(Found(t), first)
  <1> DEFINE c == Clamped(t)
             g == Found(t)
             b == accumulator.cursor
  <1>1. c \in Nat /\ b \in Nat /\ b <= c
    BY TimeAssumption DEF Clamped, Readings
  <1>2. /\ Len(g) \in Nat /\ DOMAIN g = 1 .. Len(g)
        /\ \A k \in DOMAIN g : g[k].c \in Nat /\ g[k].c <= b
    <2> HIDE DEF g
    <2> QED BY LogShape DEF Behind, g
  <1> HIDE DEF b
  <1>3. \A k \in DOMAIN g : g[k].c <= c
    BY <1>1, <1>2
  <1>4. CASE log' = g
    <2> HIDE DEF g
    <2>1. GoesOnFrom(g, log', c) /\ Behind(log', c)
      BY <1>3, <1>4 DEF GoesOnFrom, Agree, Behind, g
    <2> QED BY <1>4, <2>1 DEF g
  <1>5. ASSUME NEW e \in LogEntry, e.kind # "step", e.c = c, OneMore(g, log', e)
        PROVE  /\ GoesOnFrom(g, log', c) /\ Behind(log', c)
               /\ \A first \in Nat : NoStepAfter(log', first) <=> NoStepAfter(g, first)
    <2> DEFINE n == Len(g)
    <2>1. PICK h : h = log'
      OBVIOUS
    <2>2. OneMore(g, h, e)
      BY <1>5, <2>1
    <2> HIDE DEF g
    <2>3. /\ n \in Nat /\ DOMAIN g = 1 .. n /\ DOMAIN h = 1 .. (n + 1)
          /\ h[n + 1] = e /\ \A k \in 1 .. n : h[k] = g[k]
      BY <2>2 DEF OneMore
    <2> HIDE DEF n
    <2>4. \A k \in DOMAIN h : k \notin DOMAIN g => k = n + 1 /\ h[k] = e
      BY <2>3
    <2>5. \A k \in DOMAIN g : k \in DOMAIN h /\ h[k] = g[k]
      BY <2>3
    <2>6. GoesOnFrom(g, h, c)
      <3>1. \A k \in DOMAIN h \ DOMAIN g : c <= h[k].c
        BY <1>1, <1>5, <2>4
      <3>2. DOMAIN g \subseteq DOMAIN h /\ Agree(g, h, DOMAIN g)
        BY <2>5 DEF Agree
      <3> QED BY <2>2, <3>1, <3>2 DEF GoesOnFrom, OneMore
    <2>7. Behind(h, c)
      <3> SUFFICES ASSUME NEW k \in DOMAIN h
                   PROVE  h[k].c <= c
        BY DEF Behind
      <3>1. CASE k \in DOMAIN g
        BY <1>3, <2>5, <3>1
      <3>2. CASE k \notin DOMAIN g
        BY <1>1, <1>5, <2>4, <3>2
      <3> QED BY <3>1, <3>2
    <2>8. \A first \in Nat : NoStepAfter(h, first) <=> NoStepAfter(g, first)
      <3>1. \A k \in DOMAIN h : h[k].kind = "step" => k \in DOMAIN g
        BY <1>5, <2>4
      <3> QED BY <2>5, <3>1 DEF NoStepAfter
    <2> QED BY <2>1, <2>6, <2>7, <2>8
  <1> QED BY <1>4, <1>5 DEF LogMoves

\* A log that goes on from one that goes on, goes on.
LEMMA GoesOnOn ==
  ASSUME NEW f, NEW g, NEW h, NEW b \in Nat, NEW c \in Nat, b <= c,
         GoesOnFrom(f, g, b), GoesOnFrom(g, h, c)
  PROVE  GoesOnFrom(f, h, b)
  <1>1. /\ g \in Seq(LogEntry) /\ h \in Seq(LogEntry) /\ DOMAIN f \subseteq DOMAIN g
        /\ DOMAIN g \subseteq DOMAIN h
        /\ \A k \in DOMAIN f : g[k] = f[k]
        /\ \A k \in DOMAIN g : h[k] = g[k]
        /\ \A k \in DOMAIN g \ DOMAIN f : b <= g[k].c
        /\ \A k \in DOMAIN h \ DOMAIN g : c <= h[k].c
    BY DEF GoesOnFrom, Agree
  <1>2. \A k \in DOMAIN h : h[k].c \in Nat
    BY <1>1, LogShape
  <1>3. \A k \in DOMAIN h \ DOMAIN f : b <= h[k].c
    <2> SUFFICES ASSUME NEW k \in DOMAIN h, k \notin DOMAIN f
                 PROVE  b <= h[k].c
      OBVIOUS
    <2>1. CASE k \in DOMAIN g
      BY <1>1, <2>1
    <2>2. CASE k \notin DOMAIN g
      BY <1>1, <1>2, <2>2
    <2> QED BY <2>1, <2>2
  <1> QED BY <1>1, <1>3 DEF GoesOnFrom, Agree

\* The poisoning of the open minute is what the log says of clock steps in it.
LEMMA PoisonedValid ==
  ASSUME NEW T, NEW a \in Standing(T), a.cursor = accumulator.cursor, accumulator.cursor \in Readings,
         a.first <= a.cursor,
         log \in Seq(LogEntry), Behind(log, accumulator.cursor),
         a.valid <=> NoStepAfter(log, a.first), NEW t \in Readings, Found(t) \in Seq(LogEntry)
  PROVE  Poisoned(a, t).valid <=> NoStepAfter(Found(t), a.first)
  <1>1. a.first \in Nat /\ a.valid \in BOOLEAN
        /\ a = [cursor |-> a.cursor, first |-> a.first, valid |-> a.valid, tally |-> a.tally]
    BY DEF Standing
  <1>2. NoStepAfter(Found(t), a.first) <=>
          NoStepAfter(log, a.first) /\ (SteppedBack(t) => accumulator.cursor = a.first)
    BY <1>1, FoundFacts
  <1>3. CASE ~SteppedBack(t)
    <2>1. Poisoned(a, t) = a
      BY <1>3 DEF Poisoned
    <2> QED BY <1>2, <1>3, <2>1
  <1>4. CASE SteppedBack(t)
    <2> DEFINE v == a.valid /\ a.cursor = a.first
               moved == [a EXCEPT !.valid = v]
    <2>1. Poisoned(a, t) = moved
      BY <1>4 DEF Poisoned, DiscardOpen
    <2>2. moved.valid = v
      <3> HIDE DEF v
      <3> QED BY <1>1
    <2>3. v <=> NoStepAfter(Found(t), a.first)
      BY <1>2, <1>4
    <2> HIDE DEF moved, v
    <2> QED BY <2>1, <2>2, <2>3
  <1> QED BY <1>3, <1>4

-----------------------------------------------------------------------------
(* Sums and tallies: F gives every unit its value.                         *)

\* The values of the units from a, before b, sum to x.
SumsTo(F, a, b, x) ==
    \E S \in [0 .. (b - a) -> Int] :
        /\ S[0] = 0 /\ S[b - a] = x
        /\ \A k \in 1 .. (b - a) : S[k] = S[k - 1] + F[a + k - 1]

\* The tally of a minute that began at a holds what the units before b have.
Tells(tally, F, a, b) ==
    /\ tally.whole <=> \A u \in a .. (b - 1) : F[u] # NONE
    /\ tally.end = IF b = a THEN NONE ELSE F[b - 1]
    /\ tally.whole => SumsTo(F, a, b, tally.sum)

\* The mean and the last value of minute m.
Gathered(F, m, mean, last) ==
    /\ IF \E u \in m .. (m + MINUTE - 1) : F[u] = NONE THEN mean = NONE
                                                       ELSE SumsTo(F, m, m + MINUTE, mean)
    /\ last = F[m + MINUTE - 1]

\* One value for all units from b to c adds that often.
LEMMA SumGoesOn ==
  ASSUME NEW F, NEW a \in Nat, NEW b \in Nat, NEW c \in Nat, a <= b, b <= c,
         NEW x \in Int, SumsTo(F, a, b, x),
         NEW v \in Int, \A u \in b .. (c - 1) : F[u] = v
  PROVE  SumsTo(F, a, c, x + v * (c - b))
  <1> DEFINE n == b - a
             l == c - a
  <1>1. PICK S \in [0 .. n -> Int] : /\ S[0] = 0 /\ S[n] = x
                                     /\ \A k \in 1 .. n : S[k] = S[k - 1] + F[a + k - 1]
    BY DEF SumsTo
  <1>2. n \in Nat /\ l \in Nat /\ n <= l /\ l - n = c - b
    OBVIOUS
  <1> DEFINE part == [j \in 0 .. (l - n) |-> v * j]
             Z == [k \in 0 .. l |-> IF k <= n THEN S[k] ELSE x + part[k - n]]
  <1>3. /\ part[0] = 0 /\ part[l - n] = v * (c - b)
        /\ \A j \in 0 .. (l - n) : part[j] \in Int
        /\ \A j \in 1 .. (l - n) : part[j] = part[j - 1] + v
    <2>1. \A j \in 0 .. (l - n) : part[j] = v * j /\ v * j \in Int
      BY <1>2
    <2>2. \A j \in 1 .. (l - n) : j - 1 \in 0 .. (l - n) /\ j \in 0 .. (l - n) /\ v * j = v * (j - 1) + v
      BY <1>2
    <2>3. 0 \in 0 .. (l - n) /\ l - n \in 0 .. (l - n) /\ v * 0 = 0
      BY <1>2
    <2> HIDE DEF part, l, n
    <2> QED BY <1>2, <2>1, <2>2, <2>3
  <1> HIDE DEF part, l, n
  <1>4. Z \in [0 .. l -> Int]
    <2> SUFFICES ASSUME NEW k \in 0 .. l
                 PROVE  (IF k <= n THEN S[k] ELSE x + part[k - n]) \in Int
      OBVIOUS
    <2>1. CASE k <= n
      BY <1>1, <1>2, <2>1
    <2>2. CASE ~(k <= n)
      <3>1. k - n \in 0 .. (l - n)
        BY <1>2, <2>2
      <3> QED BY <1>3, <2>2, <3>1
    <2> QED BY <2>1, <2>2
  <1>5. Z[0] = 0
    BY <1>1, <1>2
  <1>6. Z[l] = x + v * (c - b)
    <2>1. l \in 0 .. l /\ Z[l] = IF l <= n THEN S[l] ELSE x + part[l - n]
      BY <1>2
    <2>2. CASE l <= n
      <3>1. l = n /\ l - n = 0
        BY <1>2, <2>2
      <3>2. v * (c - b) = 0
        BY <1>2, <1>3, <3>1
      <3> QED BY <1>1, <1>2, <2>1, <3>1, <3>2
    <2>3. CASE ~(l <= n)
      BY <1>3, <2>1, <2>3
    <2> QED BY <2>2, <2>3
  <1>7. ASSUME NEW k \in 1 .. l
        PROVE  Z[k] = Z[k - 1] + F[a + k - 1]
    <2>1. k \in 0 .. l /\ k - 1 \in 0 .. l
      BY <1>2
    <2>2. /\ Z[k] = IF k <= n THEN S[k] ELSE x + part[k - n]
          /\ Z[k - 1] = IF k - 1 <= n THEN S[k - 1] ELSE x + part[k - 1 - n]
      BY <2>1
    <2> HIDE DEF Z
    <2>3. CASE k <= n
      BY <1>1, <1>2, <2>2, <2>3
    <2>4. CASE ~(k <= n)
      <3>1. /\ k - n \in 1 .. (l - n) /\ (k - n) - 1 = k - 1 - n /\ k - 1 - n \in 0 .. (l - n)
            /\ k - n \in 0 .. (l - n)
        BY <1>2, <2>4
      <3>2. part[k - n] = part[k - 1 - n] + v /\ part[k - n] \in Int /\ part[k - 1 - n] \in Int
        BY <1>3, <3>1
      <3>3. F[a + k - 1] = v
        <4>1. a + k - 1 \in b .. (c - 1)
          BY <1>2, <2>4 DEF n, l
        <4> QED BY <4>1
      <3>4. Z[k - 1] = x + part[k - 1 - n]
        <4>1. CASE k - 1 <= n
          <5>1. k - 1 = n /\ k - 1 - n = 0
            BY <1>2, <2>4, <4>1
          <5> QED BY <1>1, <1>3, <2>2, <4>1, <5>1
        <4>2. CASE ~(k - 1 <= n)
          BY <2>2, <4>2
        <4> QED BY <4>1, <4>2
      <3> QED BY <2>2, <2>4, <3>2, <3>3, <3>4
    <2> QED BY <2>3, <2>4
  <1> HIDE DEF Z
  <1>8. SumsTo(F, a, c, x + v * (c - b))
    BY <1>4, <1>5, <1>6, <1>7 DEF SumsTo, l
  <1> QED BY <1>8

LEMMA SumStarts ==
  ASSUME NEW F, NEW a \in Nat
  PROVE  SumsTo(F, a, a, 0)
  <1> DEFINE S == [k \in 0 .. 0 |-> 0]
  <1>1. /\ S \in [0 .. (a - a) -> Int] /\ S[0] = 0 /\ S[a - a] = 0
        /\ \A k \in 1 .. (a - a) : S[k] = S[k - 1] + F[a + k - 1]
    BY a - a = 0
  <1> HIDE DEF S
  <1> QED BY <1>1 DEF SumsTo

\* A minute opened where it starts, or past units without values, has nothing to tell.
LEMMA OpenTells ==
  ASSUME NEW F, NEW a \in Nat, NEW b \in Nat, a <= b, \A u \in a .. (b - 1) : F[u] = NONE
  PROVE  Tells(OpenTally(b = a), F, a, b)
  <1>1. OpenTally(b = a).sum = 0 /\ OpenTally(b = a).whole = (b = a) /\ OpenTally(b = a).end = NONE
    BY DEF OpenTally
  <1>2. CASE b = a
    <2>1. \A u \in a .. (b - 1) : FALSE
      BY <1>2
    <2> QED BY <1>1, <1>2, <2>1, SumStarts DEF Tells
  <1>3. CASE b # a
    <2>1. b - 1 \in a .. (b - 1)
      BY <1>3
    <2> QED BY <1>1, <1>3, <2>1 DEF Tells
  <1> QED BY <1>2, <1>3

LEMMA FreshTells ==
  ASSUME NEW F, NEW a \in Nat
  PROVE  Tells(OpenTally(TRUE), F, a, a)
  <1>1. OpenTally(TRUE).sum = 0 /\ OpenTally(TRUE).whole /\ OpenTally(TRUE).end = NONE
    BY DEF OpenTally
  <1>2. \A u \in a .. (a - 1) : FALSE
    OBVIOUS
  <1> QED BY <1>1, <1>2, SumStarts DEF Tells

\* A segment of one value tells of all its units.
LEMMA SegmentTells ==
  ASSUME NEW F, NEW a \in Nat, NEW b \in Nat, NEW c \in Nat, a <= b, b < c,
         NEW tally \in Tally, Tells(tally, F, a, b),
         NEW v \in MaybeValue, \A u \in b .. (c - 1) : F[u] = v
  PROVE  Tells(Integrate(tally, v, c - b), F, a, c)
  <1> DEFINE out == Integrate(tally, v, c - b)
             sum == tally.sum + v * (c - b)
  <1>1. /\ tally.whole <=> \A u \in a .. (b - 1) : F[u] # NONE
        /\ tally.whole => SumsTo(F, a, b, tally.sum)
        /\ tally.sum \in Int /\ tally.whole \in BOOLEAN
        /\ tally = [sum |-> tally.sum, whole |-> tally.whole, end |-> tally.end]
    BY DEF Tells, Tally
  <1>2. ~(c - b <= 0) /\ c - 1 \in b .. (c - 1) /\ c # a
    OBVIOUS
  <1>3. F[c - 1] = v
    BY <1>2
  <1>4. CASE v = NONE
    <2>1. out = [tally EXCEPT !.whole = FALSE, !.end = NONE]
      BY <1>2, <1>4 DEF Integrate
    <2>2. out = [sum |-> tally.sum, whole |-> FALSE, end |-> NONE]
      <3> HIDE DEF out
      <3> QED BY <1>1, <2>1
    <2>3. c - 1 \in a .. (c - 1)
      BY <1>2
    <2>4. ~out.whole /\ out.end = NONE
      BY <2>2
    <2> HIDE DEF out
    <2>5. ~ \A u \in a .. (c - 1) : F[u] # NONE
      BY <1>3, <1>4, <2>3
    <2>6. Tells(out, F, a, c)
      BY <1>2, <1>3, <1>4, <2>4, <2>5 DEF Tells
    <2> QED BY <2>6 DEF out
  <1>5. CASE v # NONE
    <2>1. v \in Int /\ v * (c - b) \in Int
      <3>1. v \in Nat
        BY <1>5, SourceAssumption DEF MaybeValue
      <3> QED BY <3>1
    <2>2. out = [tally EXCEPT !.sum = sum, !.end = v]
      BY <1>2, <1>5 DEF Integrate
    <2> HIDE DEF sum
    <2>3. out = [sum |-> sum, whole |-> tally.whole, end |-> v]
      <3> HIDE DEF out
      <3> QED BY <1>1, <2>2
    <2>4. out.sum = sum /\ out.whole = tally.whole /\ out.end = v
      BY <2>3
    <2> HIDE DEF out
    <2>5. (\A u \in a .. (c - 1) : F[u] # NONE) <=> \A u \in a .. (b - 1) : F[u] # NONE
      <3>1. \A u \in a .. (c - 1) : u \in a .. (b - 1) \/ u \in b .. (c - 1)
        OBVIOUS
      <3>2. \A u \in a .. (b - 1) : u \in a .. (c - 1)
        OBVIOUS
      <3> QED BY <1>5, <3>1, <3>2
    <2>6. tally.whole => SumsTo(F, a, c, sum)
      <3> HAVE tally.whole
      <3>1. SumsTo(F, a, b, tally.sum)
        BY <1>1
      <3> QED BY <1>1, <2>1, <3>1, SumGoesOn DEF sum
    <2>7. Tells(out, F, a, c)
      BY <1>1, <1>2, <1>3, <2>4, <2>5, <2>6 DEF Tells
    <2> QED BY <2>7 DEF out
  <1> QED BY <1>4, <1>5

\* What a row takes from the tally of its minute.
LEMMA WholeTells ==
  ASSUME NEW F, NEW m \in Nat, NEW tally \in Tally, Tells(tally, F, m, m + MINUTE)
  PROVE  Gathered(F, m, MeanOf(tally), tally.end)
  <1>1. MINUTE \in Nat /\ m + MINUTE # m
    BY FloorOfMinute
  <1>2. tally.end = F[m + MINUTE - 1]
    BY <1>1 DEF Tells
  <1>3. tally.whole \in BOOLEAN
    BY DEF Tally
  <1>6. tally.whole <=> \A u \in m .. (m + MINUTE - 1) : F[u] # NONE
    <2> DEFINE b == m + MINUTE
    <2>1. Tells(tally, F, m, b)
      OBVIOUS
    <2> HIDE DEF b
    <2>2. tally.whole <=> \A u \in m .. (b - 1) : F[u] # NONE
      BY <1>3, <2>1 DEF Tells
    <2>3. b - 1 = m + MINUTE - 1
      BY <1>1 DEF b
    <2> QED BY <2>2, <2>3
  <1>4. CASE tally.whole
    <2>1. MeanOf(tally) = tally.sum /\ SumsTo(F, m, m + MINUTE, tally.sum)
      BY <1>4 DEF Tells, MeanOf
    <2>2. ~ \E u \in m .. (m + MINUTE - 1) : F[u] = NONE
      BY <1>4, <1>6
    <2> QED BY <1>2, <2>1, <2>2 DEF Gathered
  <1>5. CASE ~tally.whole
    <2>1. MeanOf(tally) = NONE
      BY <1>5 DEF MeanOf
    <2>2. \E u \in m .. (m + MINUTE - 1) : F[u] = NONE
      BY <1>5, <1>6
    <2> QED BY <1>2, <2>1, <2>2 DEF Gathered
  <1> QED BY <1>3, <1>4, <1>5

\* Where no unit has a value, neither has the row.
LEMMA NothingGathered ==
  ASSUME NEW F, NEW m \in Nat, \A u \in m .. (m + MINUTE - 1) : F[u] = NONE
  PROVE  Gathered(F, m, NONE, NONE)
  <1>1. m + MINUTE - 1 \in m .. (m + MINUTE - 1)
    BY FloorOfMinute
  <1> QED BY <1>1 DEF Gathered

\* Only the minute's own units matter.
LEMMA GatheredAgrees ==
  ASSUME NEW F, NEW H, NEW m \in Nat, \A u \in m .. (m + MINUTE - 1) : H[u] = F[u],
         NEW mean, NEW last, Gathered(F, m, mean, last)
  PROVE  Gathered(H, m, mean, last)
  <1>1. MINUTE \in Nat /\ (m + MINUTE) - m = MINUTE /\ m + MINUTE - 1 \in m .. (m + MINUTE - 1)
    BY FloorOfMinute
  <1>2. \A k \in 1 .. MINUTE : m + k - 1 \in m .. (m + MINUTE - 1)
    BY <1>1
  <1>3. \A k \in 1 .. MINUTE : H[m + k - 1] = F[m + k - 1]
    BY <1>2
  <1>4. SumsTo(F, m, m + MINUTE, mean) => SumsTo(H, m, m + MINUTE, mean)
    BY <1>1, <1>3 DEF SumsTo
  <1> QED BY <1>1, <1>4 DEF Gathered

-----------------------------------------------------------------------------
(* Values while the walk passes: ingest holds them constant to the next    *)
(* expiry, and a source without a fresh value has none later.              *)

LEMMA ConfirmedRests ==
  ASSUME NEW in, NEW S, NEW s \in S, s \in Evidence, NEW c \in Nat, NEW u \in Nat, c <= u,
         \A e \in Expiries(S, c) : u < e
  PROVE  Confirmed(in, s, u) = Confirmed(in, s, c)
  <1>1. s.at \in Int /\ s.at + StaleAfter \in Int
    BY TimeAssumption DEF Evidence, MaybeTime, Readings, NONE
  <1>2. s.value # NONE /\ c < s.at + StaleAfter => u < s.at + StaleAfter
    <2> HAVE s.value # NONE /\ c < s.at + StaleAfter
    <2>1. s.at + StaleAfter \in Expiries(S, c)
      BY <1>1 DEF Expiries
    <2> QED BY <2>1
  <1>3. u < s.at + StaleAfter => c < s.at + StaleAfter
    BY <1>1
  <1> QED BY <1>2, <1>3 DEF Confirmed

LEMMA ConfirmedFades ==
  ASSUME NEW in, NEW s \in Evidence, NEW c \in Nat, NEW u \in Nat, c <= u, Confirmed(in, s, c) = NONE
  PROVE  Confirmed(in, s, u) = NONE
  <1>1. s.at \in Int /\ s.at + StaleAfter \in Int
    BY TimeAssumption DEF Evidence, MaybeTime, Readings, NONE
  <1>2. u < s.at + StaleAfter => c < s.at + StaleAfter
    BY <1>1
  <1> QED BY <1>2 DEF Confirmed

LEMMA HistoricalRests ==
  ASSUME NEW in \in TypedIngest, NEW c \in Nat, NEW u \in Nat, c <= u,
         \A e \in Expiries({in.core[i] : i \in Sources}, c) : u < e
  PROVE  Historical(in, u) = Historical(in, c)
  <1>1. \A i \in Sources : Confirmed(in, in.core[i], u) = Confirmed(in, in.core[i], c)
    <2> SUFFICES ASSUME NEW i \in Sources
                 PROVE  Confirmed(in, in.core[i], u) = Confirmed(in, in.core[i], c)
      OBVIOUS
    <2> DEFINE S == {in.core[j] : j \in Sources}
    <2>1. in.core[i] \in S /\ in.core[i] \in Evidence
      BY DEF TypedIngest
    <2> HIDE DEF S
    <2>2. \A e \in Expiries(S, c) : u < e
      BY DEF S
    <2> QED BY <2>1, <2>2, ConfirmedRests
  <1>2. {i \in Sources : Confirmed(in, in.core[i], u) # NONE} =
            {i \in Sources : Confirmed(in, in.core[i], c) # NONE}
    BY <1>1
  <1> QED BY <1>2 DEF Historical

\* A source that is not alive at c is not alive later, and confirms nothing.
LEMMA DeadStaysDead ==
  ASSUME NEW g, NEW in, NEW x, Summary(g, in, x), NEW c \in Nat, ~AliveAt(in, c), NEW u \in Nat, c <= u
  PROVE  ~AliveAt(in, u) /\ Historical(in, u) = NONE
  <1>1. /\ g \in Seq(LogEntry) /\ in \in TypedIngest /\ EvidenceTogether(in)
        /\ Reflects(g, in) /\ Cells(g, in)
    BY DEF Summary, Sound
  <1>2. in.lastLive \in Int /\ StaleAfter \in Nat
    BY <1>1, TimesTyped, TimeAssumption
  <1>3. ~AliveAt(in, u)
    BY <1>2 DEF AliveAt
  <1>4. ASSUME NEW i \in Sources
        PROVE  Confirmed(in, in.core[i], u) = NONE
    <2> SUFFICES ASSUME Confirmed(in, in.core[i], u) # NONE
                 PROVE  FALSE
      OBVIOUS
    <2> DEFINE s == in.core[i]
               y == NewestOf(g, DOMAIN g, "live", i)
    <2>1. s \in Evidence /\ s.at \in Int
      BY <1>1, TimeAssumption DEF TypedIngest, Evidence, MaybeTime, Readings, NONE
    <2>2. in.connected /\ ~in.offline /\ s.value # NONE /\ u < s.at + StaleAfter
      BY DEF Confirmed
    <2>3. in.lastLive # NONE
      BY <1>1, <2>2 DEF EvidenceTogether
    <2>4. CellOf(g, s, "live", i)
      BY <1>1 DEF Cells
    <2>5. y > BreakOf(g) /\ s.at = g[y].t
      BY <2>2, <2>4 DEF CellOf
    <2>6. y # 0 => y \in DOMAIN g /\ g[y].kind = "live"
      <3>1. Len(g) \in Nat /\ DOMAIN g \subseteq 1 .. Len(g)
        BY <1>1, LogShape
      <3>2. IsTop(y, {k \in DOMAIN g : g[k].kind = "live" /\ g[k].src = i})
        BY <3>1, NewestOfTop
      <3> HIDE DEF y
      <3> QED BY <3>2 DEF IsTop
    <2>7. BreakOf(g) \in Nat
      BY <1>1, WholeFacts DEF BreakOf
    <2> HIDE DEF s, y
    <2>8. y \in DOMAIN g /\ g[y].kind = "live"
      BY <2>5, <2>6, <2>7
    <2>9. s.at <= in.lastLive
      BY <1>1, <2>5, <2>8 DEF Reflects
    <2>10. AliveAt(in, u)
      BY <1>2, <2>1, <2>2, <2>3, <2>9 DEF AliveAt
    <2> QED BY <1>3, <2>10
  <1>5. Historical(in, u) = NONE
    <2>1. {i \in Sources : Confirmed(in, in.core[i], u) # NONE} = {}
      BY <1>4
    <2> QED BY <2>1 DEF Historical
  <1> QED BY <1>3, <1>5

\* The start of a minute is its own.
LEMMA FloorStands ==
  ASSUME NEW t \in Nat
  PROVE  FloorMinute(FloorMinute(t)) = FloorMinute(t)
  <1> DEFINE f == FloorMinute(t)
  <1>1. f \in Nat /\ f <= f /\ f < f + MINUTE
    BY FloorOfMinute
  <1>2. \A u \in Nat : f <= u /\ u < f + MINUTE => FloorMinute(u) = f
    BY FloorOfMinute
  <1> HIDE DEF f
  <1>3. FloorMinute(f) = f
    BY <1>1, <1>2
  <1> QED BY <1>3 DEF f

\* Two minutes are at least a minute apart.
LEMMA MinutesApart ==
  ASSUME NEW m \in Nat, NEW n \in Nat, FloorMinute(m) = m, FloorMinute(n) = n, m < n
  PROVE  m + MINUTE <= n
  <1>1. MINUTE \in Nat /\ m + MINUTE \in Nat
    BY FloorOfMinute
  <1>2. n < m + MINUTE => FloorMinute(n) = FloorMinute(m)
    BY FloorOfMinute
  <1> QED BY <1>1, <1>2

-----------------------------------------------------------------------------
(* The canonical walk, from accumulator a to t, over units with values F.  *)

HasRow(rows, m) == \E k \in DOMAIN rows : rows[k].ts = m

\* Whether minute m, closed by this walk, gets a row.
Gets(in, a, m) ==
    /\ m = a.first => a.valid
    /\ m >= start
    /\ AliveThrough(in, m, m + MINUTE)

Told(F, rows) ==
    \A k \in DOMAIN rows : /\ FloorMinute(rows[k].ts) = rows[k].ts
                           /\ Gathered(F, rows[k].ts, rows[k].mean, rows[k].last)

CoreWalks(in, F, t, a) ==
    {w \in Walks(Tally, CoreRow, t, a.first) :
        /\ a.cursor <= w.acc.cursor
        /\ w.acc.valid <=> (w.acc.first = a.first => a.valid)
        /\ Tells(w.acc.tally, F, w.acc.first, w.acc.cursor)
        /\ Told(F, w.rows)
        /\ \A m \in Nat : FloorMinute(m) = m /\ a.first <= m /\ m < w.acc.first =>
               (HasRow(w.rows, m) <=> Gets(in, a, m))}

LEMMA RowAdded ==
  ASSUME NEW R, NEW rows \in Seq(R), NEW r \in R
  PROVE  /\ \A k \in DOMAIN (rows \o <<r>>) :
                (rows \o <<r>>)[k] = r \/ (k \in DOMAIN rows /\ (rows \o <<r>>)[k] = rows[k])
         /\ \A m : HasRow(rows \o <<r>>, m) <=> HasRow(rows, m) \/ r.ts = m
  <1> DEFINE all == rows \o <<r>>
             n == Len(rows)
  <1>1. /\ n \in Nat /\ DOMAIN rows = 1 .. n /\ DOMAIN all = 1 .. (n + 1)
        /\ all[n + 1] = r /\ \A k \in 1 .. n : all[k] = rows[k]
    OBVIOUS
  <1> HIDE DEF all, n
  <1>2. n + 1 \in DOMAIN all /\ \A k \in DOMAIN rows : k \in DOMAIN all /\ all[k] = rows[k]
    BY <1>1
  <1>3. \A k \in DOMAIN all : k \in DOMAIN rows \/ k = n + 1
    BY <1>1
  <1>4. ASSUME NEW m
        PROVE  HasRow(all, m) <=> HasRow(rows, m) \/ r.ts = m
    BY <1>1, <1>2, <1>3 DEF HasRow
  <1>5. \A k \in DOMAIN all : all[k] = r \/ (k \in DOMAIN rows /\ all[k] = rows[k])
    BY <1>1, <1>2, <1>3
  <1> QED BY <1>4, <1>5 DEF all

\* Rows lie before the open minute.
LEMMA RowsBefore ==
  ASSUME NEW rows, NEW lo, NEW hi \in Nat, Ordered(rows, lo, hi), NEW m \in Nat, hi <= m
  PROVE  ~HasRow(rows, m)
  BY DEF Ordered, HasRow

LEMMA TurnTells ==
  ASSUME NEW g, NEW in, NEW x, Summary(g, in, x), NEW t \in Nat,
         NEW a \in Standing(Tally), a.cursor <= t,
         NEW F, \A u \in Nat : a.cursor <= u /\ u < t => F[u] = Historical(in, u),
         NEW w \in CoreWalks(in, F, t, a), w.acc.cursor < t
  PROVE  Turn(in, t, w) \in CoreWalks(in, F, t, a)
  <1> DEFINE o == w.acc
             end == o.first + MINUTE
             S == {in.core[i] : i \in Sources}
             stop == Min({t, end} \union Expiries(S, o.cursor))
             b == [o EXCEPT !.cursor = stop,
                            !.tally = Integrate(@, Historical(in, o.cursor), stop - o.cursor)]
             v == Turn(in, t, w)
  <1>1. /\ o.cursor \in Nat /\ o.first \in Nat /\ o.valid \in BOOLEAN /\ o.tally \in Tally
        /\ o = [cursor |-> o.cursor, first |-> o.first, valid |-> o.valid, tally |-> o.tally]
        /\ o.first = FloorMinute(o.cursor) /\ o.cursor < t /\ a.first <= o.first
        /\ w.rows \in Seq(CoreRow) /\ Ordered(w.rows, a.first, o.first)
        /\ w = [acc |-> o, rows |-> w.rows]
        /\ w \in Walks(Tally, CoreRow, t, a.first)
    BY DEF CoreWalks, Walks, Standing
  <1>2. /\ MINUTE \in Nat /\ MINUTE >= 1 /\ o.first <= o.cursor /\ o.cursor < end /\ end \in Nat
        /\ FloorMinute(o.first) = o.first
    <2>1. /\ MINUTE \in Nat /\ MINUTE >= 1 /\ o.first <= o.cursor /\ o.cursor < end /\ end \in Nat
      BY <1>1, FloorOfMinute
    <2>2. FloorMinute(o.first) = FloorMinute(o.cursor)
      BY <1>1, <2>1, FloorOfMinute
    <2> QED BY <1>1, <2>1, <2>2
  <1>3. in \in TypedIngest /\ \A s \in S : s \in Evidence
    BY DEF Summary, TypedIngest
  <1>4. /\ a.cursor <= o.cursor /\ a.cursor \in Nat /\ a.first \in Nat /\ a.valid \in BOOLEAN
        /\ o.valid <=> (o.first = a.first => a.valid)
        /\ Tells(o.tally, F, o.first, o.cursor)
        /\ Told(F, w.rows)
    BY DEF CoreWalks, Standing
  <1>5. \A m \in Nat : FloorMinute(m) = m /\ a.first <= m /\ m < o.first =>
               (HasRow(w.rows, m) <=> Gets(in, a, m))
    BY DEF CoreWalks
  <1>6. v \in Walks(Tally, CoreRow, t, a.first) /\ o.cursor < v.acc.cursor
    BY <1>1, <1>3, <1>4, TurnAdvances
  <1> HIDE DEF o
  <1>7. /\ stop \in Nat /\ o.cursor < stop /\ stop <= t /\ stop <= end
        /\ \A e \in Expiries(S, o.cursor) : e \in Nat /\ stop <= e
    <2> HIDE DEF S, end
    <2> QED BY <1>1, <1>2, <1>3, StopIsAhead
  <1> HIDE DEF stop
  <1>8. Tells(b.tally, F, o.first, stop) /\ b.cursor = stop /\ b.first = o.first /\ b.valid = o.valid
           /\ b.tally \in Tally
    <2> DEFINE value == Historical(in, o.cursor)
               tally == Integrate(o.tally, value, stop - o.cursor)
    <2>1. value \in MaybeValue
      BY <1>3, HistoricalType
    <2>2. \A u \in o.cursor .. (stop - 1) : F[u] = value
      <3> SUFFICES ASSUME NEW u \in o.cursor .. (stop - 1)
                   PROVE  F[u] = value
        OBVIOUS
      <3>1. u \in Nat /\ o.cursor <= u /\ u < stop /\ u < t /\ a.cursor <= u
        BY <1>1, <1>4, <1>7
      <3>2. \A e \in Expiries(S, o.cursor) : u < e
        BY <1>7, <3>1
      <3>3. Historical(in, u) = value
        BY <1>1, <1>3, <3>1, <3>2, HistoricalRests
      <3> QED BY <3>1, <3>3
    <2> HIDE DEF value
    <2>3. Tells(tally, F, o.first, stop) /\ tally \in Tally
      <3>1. Tells(tally, F, o.first, stop)
        BY <1>1, <1>2, <1>4, <1>7, <2>1, <2>2, SegmentTells
      <3>2. stop - o.cursor \in Nat
        BY <1>1, <1>7
      <3> QED BY <1>1, <2>1, <3>1, <3>2, TallyTypes
    <2>4. b = [o EXCEPT !.cursor = stop, !.tally = tally]
      BY DEF value
    <2> HIDE DEF b, tally
    <2>5. b = [cursor |-> stop, first |-> o.first, valid |-> o.valid, tally |-> tally]
      BY <1>1, <2>4
    <2> QED BY <2>3, <2>5
  <1> HIDE DEF b
  <1>9. v = CASE ~AliveAt(in, o.cursor) /\ t >= end -> [w EXCEPT !.acc = Opened(t, FloorMinute(t))]
              [] (AliveAt(in, o.cursor) \/ t < end) /\ stop = end ->
                   [acc |-> Opened(end, end), rows |-> w.rows \o Closed(in, b)]
              [] OTHER -> [w EXCEPT !.acc = b]
    BY DEF Turn, S, stop, b, o
  <1>w. \A y : [w EXCEPT !.acc = y] = [acc |-> y, rows |-> w.rows]
    BY <1>1
  <1> HIDE DEF v, end
  \* A dead stretch: no unit from the cursor on has a value, no minute from the open one on a row.
  <1>10. CASE ~AliveAt(in, o.cursor) /\ t >= end
    <2> DEFINE f == FloorMinute(t)
               new == Opened(t, f)
    <2>1. v = [acc |-> new, rows |-> w.rows]
      <3>1. v = [w EXCEPT !.acc = new]
        BY <1>2, <1>9, <1>10
      <3> HIDE DEF new
      <3> QED BY <1>w, <3>1, Zenon
    <2>2. f \in Nat /\ f <= t /\ t < f + MINUTE /\ FloorMinute(f) = f
      <3>1. f \in Nat /\ f <= t /\ t < f + MINUTE
        BY FloorOfMinute
      <3>2. FloorMinute(f) = FloorMinute(t)
        BY <1>2, <3>1, FloorOfMinute
      <3> QED BY <3>1, <3>2
    <2>3. new.cursor = t /\ new.first = f /\ new.valid /\ new.tally = OpenTally(t = f)
      BY DEF Opened
    <2> HIDE DEF f, new
    <2>4. o.first < f /\ end <= f
      <3>1. o.first < f
        BY <1>1, <1>2, <1>10, <2>2 DEF end
      <3> QED BY <1>1, <1>2, <2>2, <3>1, MinutesApart DEF end
    <2>5. \A u \in f .. (t - 1) : F[u] = NONE
      <3> SUFFICES ASSUME NEW u \in f .. (t - 1)
                   PROVE  F[u] = NONE
        OBVIOUS
      <3>1. u \in Nat /\ u < t /\ o.cursor <= u /\ a.cursor <= u
        BY <1>1, <1>2, <1>4, <2>2, <2>4
      <3>2. Historical(in, u) = NONE
        BY <1>1, <1>10, <3>1, DeadStaysDead
      <3> QED BY <3>1, <3>2
    <2>6. Tells(new.tally, F, f, t)
      BY <2>2, <2>3, <2>5, OpenTells
    <2>7. ASSUME NEW m \in Nat, FloorMinute(m) = m, a.first <= m, m < f
          PROVE  HasRow(w.rows, m) <=> Gets(in, a, m)
      <3>1. CASE m < o.first
        BY <1>5, <2>7, <3>1
      <3>2. CASE o.first <= m
        <4>1. ~HasRow(w.rows, m)
          BY <1>1, <3>2, RowsBefore
        <4>2. m + MINUTE \in Nat /\ o.cursor <= m + MINUTE
          BY <1>1, <1>2, <3>2 DEF end
        <4>3. ~AliveAt(in, m + MINUTE)
          BY <1>1, <1>10, <4>2, DeadStaysDead
        <4> QED BY <4>1, <4>3 DEF Gets, AliveThrough
      <3> QED BY <1>1, <3>1, <3>2
    <2>8. v.acc = new /\ v.rows = w.rows
      BY <2>1
    <2>9. a.cursor <= t /\ f # a.first
      BY <1>1, <1>4, <2>2, <2>4
    <2> QED BY <1>4, <1>6, <2>3, <2>6, <2>7, <2>8, <2>9 DEF CoreWalks, v
  \* The minute closes, with a row if it gets one.
  <1>11. CASE (AliveAt(in, o.cursor) \/ t < end) /\ stop = end
    <2> DEFINE new == Opened(end, end)
               row == [ts |-> b.first, mean |-> MeanOf(b.tally), last |-> b.tally.end]
               rows == w.rows \o Closed(in, b)
               m0 == o.first
    <2>1. v = [acc |-> new, rows |-> rows]
      BY <1>2, <1>9, <1>11
    <2>2. new.cursor = end /\ new.first = end /\ new.valid /\ new.tally = OpenTally(TRUE)
      BY DEF Opened
    <2>3. Tells(new.tally, F, end, end)
      BY <1>2, <2>2, FreshTells
    <2>4. Closed(in, b) = IF Gets(in, a, m0) THEN <<row>> ELSE <<>>
      BY <1>4, <1>8 DEF Closed, Gets
    <2>5. row \in CoreRow /\ row.ts = m0 /\ Gathered(F, m0, row.mean, row.last)
      <3>1. Gathered(F, m0, MeanOf(b.tally), b.tally.end)
        BY <1>1, <1>8, <1>11, WholeTells DEF end
      <3>2. row \in CoreRow
        BY <1>1, <1>8, TallyTypes DEF CoreRow
      <3> QED BY <1>8, <3>1, <3>2
    <2> HIDE DEF row, new
    <2>6. ~HasRow(w.rows, m0)
      BY <1>1, RowsBefore
    <2>7. /\ \A m : HasRow(rows, m) <=> HasRow(w.rows, m) \/ (m = m0 /\ Gets(in, a, m0))
          /\ Told(F, rows)
      <3>1. CASE Gets(in, a, m0)
        <4>1. rows = w.rows \o <<row>>
          BY <2>4, <3>1
        <4>2. /\ \A k \in DOMAIN rows : rows[k] = row \/ (k \in DOMAIN w.rows /\ rows[k] = w.rows[k])
              /\ \A m : HasRow(rows, m) <=> HasRow(w.rows, m) \/ row.ts = m
          BY <1>1, <2>5, <4>1, RowAdded
        <4> HIDE DEF rows
        <4>3. Told(F, rows)
          <5> SUFFICES ASSUME NEW k \in DOMAIN rows
                       PROVE  /\ FloorMinute(rows[k].ts) = rows[k].ts
                              /\ Gathered(F, rows[k].ts, rows[k].mean, rows[k].last)
            BY DEF Told
          <5>1. CASE rows[k] = row
            BY <1>2, <2>5, <5>1
          <5>2. CASE k \in DOMAIN w.rows /\ rows[k] = w.rows[k]
            BY <1>4, <5>2 DEF Told
          <5> QED BY <4>2, <5>1, <5>2
        <4> QED BY <2>5, <3>1, <4>2, <4>3
      <3>2. CASE ~Gets(in, a, m0)
        <4>1. rows = w.rows
          BY <1>1, <2>4, <3>2
        <4> QED BY <1>4, <3>2, <4>1
      <3> QED BY <3>1, <3>2
    <2> HIDE DEF rows
    <2>8. ASSUME NEW m \in Nat, FloorMinute(m) = m, a.first <= m, m < end
          PROVE  HasRow(rows, m) <=> Gets(in, a, m)
      <3>1. CASE m < o.first
        BY <1>1, <1>5, <2>7, <2>8, <3>1
      <3>2. CASE o.first <= m
        <4>1. FloorMinute(m) = FloorMinute(o.cursor)
          BY <1>1, <2>8, <3>2, FloorOfMinute DEF end
        <4>2. m = m0
          BY <1>1, <2>8, <4>1
        <4> QED BY <2>6, <2>7, <4>2
      <3> QED BY <1>1, <3>1, <3>2
    <2>9. v.acc = new /\ v.rows = rows
      BY <2>1
    <2>10. a.cursor <= end /\ end # a.first
      BY <1>1, <1>2, <1>4 DEF end
    <2> QED BY <1>6, <2>2, <2>3, <2>7, <2>8, <2>9, <2>10 DEF CoreWalks, v
  \* The minute goes on.
  <1>12. CASE ~(~AliveAt(in, o.cursor) /\ t >= end)
              /\ ~((AliveAt(in, o.cursor) \/ t < end) /\ stop = end)
    <2>1. v = [acc |-> b, rows |-> w.rows]
      <3>1. v = [w EXCEPT !.acc = b]
        BY <1>9, <1>12
      <3> QED BY <1>w, <3>1, Zenon
    <2>2. v.acc = b /\ v.rows = w.rows
      BY <2>1
    <2>3. a.cursor <= stop
      BY <1>1, <1>4, <1>7
    <2> QED BY <1>4, <1>5, <1>6, <1>8, <2>2, <2>3 DEF CoreWalks, v
  <1> QED BY <1>2, <1>10, <1>11, <1>12 DEF v

-----------------------------------------------------------------------------
(* The optional walk: F gives every profile its values.                    *)

\* No profile has a value in any unit of minute m.
Silent(F, m) == \A p \in Profiles : \A u \in m .. (m + MINUTE - 1) : F[p][u] = NONE

OptionalTold(F, rows) ==
    \A k \in DOMAIN rows :
        /\ FloorMinute(rows[k].ts) = rows[k].ts
        /\ \A p \in Profiles : Gathered(F[p], rows[k].ts, rows[k].mean[p], rows[k].last[p])

\* A minute the canonical walk may give a row has an optional row, or nothing to add.
OptionalWalks(F, t, a) ==
    {w \in Walks([Profiles -> Tally], OptionalRow, t, a.first) :
        /\ a.cursor <= w.acc.cursor
        /\ w.acc.valid <=> (w.acc.first = a.first => a.valid)
        /\ \A p \in Profiles : Tells(w.acc.tally[p], F[p], w.acc.first, w.acc.cursor)
        /\ OptionalTold(F, w.rows)
        /\ \A m \in Nat : /\ FloorMinute(m) = m /\ a.first <= m /\ m < w.acc.first
                          /\ m = a.first => a.valid
                          /\ m >= start
                          => HasRow(w.rows, m) \/ Silent(F, m)}

LEMMA OptionalTurnTells ==
  ASSUME NEW in \in TypedIngest, NEW t \in Nat, NEW a \in Standing([Profiles -> Tally]), a.cursor <= t,
         NEW F, \A p \in Profiles : \A u \in Nat :
                    a.cursor <= u /\ u < t => F[p][u] = Confirmed(in, in.opt[p], u),
         NEW w \in OptionalWalks(F, t, a), w.acc.cursor < t
  PROVE  OptionalTurn(in, t, w) \in OptionalWalks(F, t, a)
  <1> DEFINE o == w.acc
             end == o.first + MINUTE
             S == {in.opt[p] : p \in Profiles}
             stop == Min({t, end} \union Expiries(S, o.cursor))
             value == [p \in Profiles |-> Confirmed(in, in.opt[p], o.cursor)]
             b == [p \in Profiles |-> Integrate(o.tally[p], value[p], stop - o.cursor)]
             row == [ts |-> o.first, mean |-> [p \in Profiles |-> MeanOf(b[p])],
                     last |-> [p \in Profiles |-> b[p].end]]
             kept == IF o.valid /\ o.first >= start THEN <<row>> ELSE <<>>
             skips == /\ o.cursor = o.first
                      /\ \A p \in Profiles : value[p] = NONE
                      /\ t >= end
             v == OptionalTurn(in, t, w)
  <1>1. /\ o.cursor \in Nat /\ o.first \in Nat /\ o.valid \in BOOLEAN /\ o.tally \in [Profiles -> Tally]
        /\ o = [cursor |-> o.cursor, first |-> o.first, valid |-> o.valid, tally |-> o.tally]
        /\ o.first = FloorMinute(o.cursor) /\ o.cursor < t /\ a.first <= o.first
        /\ w.rows \in Seq(OptionalRow) /\ Ordered(w.rows, a.first, o.first)
        /\ w = [acc |-> o, rows |-> w.rows]
        /\ w \in Walks([Profiles -> Tally], OptionalRow, t, a.first)
    BY DEF OptionalWalks, Walks, Standing
  <1>0. o = [cursor |-> o.cursor, first |-> o.first, valid |-> o.valid, tally |-> o.tally]
    BY <1>1
  <1>2. /\ MINUTE \in Nat /\ MINUTE >= 1 /\ o.first <= o.cursor /\ o.cursor < end /\ end \in Nat
        /\ FloorMinute(o.first) = o.first
    <2>1. /\ MINUTE \in Nat /\ MINUTE >= 1 /\ o.first <= o.cursor /\ o.cursor < end /\ end \in Nat
      BY <1>1, FloorOfMinute
    <2>2. FloorMinute(o.first) = FloorMinute(o.cursor)
      BY <1>1, <2>1, FloorOfMinute
    <2> QED BY <1>1, <2>1, <2>2
  <1>3. /\ \A s \in S : s \in Evidence
        /\ \A p \in Profiles : in.opt[p] \in Evidence /\ in.opt[p] \in S
    BY DEF TypedIngest
  <1>4. /\ a.cursor <= o.cursor /\ a.cursor \in Nat /\ a.first \in Nat /\ a.valid \in BOOLEAN
        /\ o.valid <=> (o.first = a.first => a.valid)
        /\ \A p \in Profiles : Tells(o.tally[p], F[p], o.first, o.cursor)
        /\ OptionalTold(F, w.rows)
    BY DEF OptionalWalks, Standing
  <1>5. \A m \in Nat : /\ FloorMinute(m) = m /\ a.first <= m /\ m < o.first
                       /\ m = a.first => a.valid
                       /\ m >= start
                       => HasRow(w.rows, m) \/ Silent(F, m)
    BY DEF OptionalWalks
  <1>6. v \in Walks([Profiles -> Tally], OptionalRow, t, a.first) /\ o.cursor < v.acc.cursor
    BY <1>1, <1>4, OptionalTurnAdvances
  <1>v. \A p \in Profiles : value[p] = Confirmed(in, in.opt[p], o.cursor) /\ value[p] \in MaybeValue
    BY <1>3, ConfirmedType
  <1> HIDE DEF o, S, value
  <1>7. /\ stop \in Nat /\ o.cursor < stop /\ stop <= t /\ stop <= end
        /\ \A e \in Expiries(S, o.cursor) : e \in Nat /\ stop <= e
    <2> HIDE DEF end
    <2> QED BY <1>1, <1>2, <1>3, StopIsAhead
  <1> HIDE DEF stop
  <1>8. \A p \in Profiles : b[p] \in Tally /\ Tells(b[p], F[p], o.first, stop)
    <2> SUFFICES ASSUME NEW p \in Profiles
                 PROVE  b[p] \in Tally /\ Tells(b[p], F[p], o.first, stop)
      OBVIOUS
    <2> DEFINE y == value[p]
               tally == Integrate(o.tally[p], y, stop - o.cursor)
    <2>1. y \in MaybeValue /\ o.tally[p] \in Tally /\ Tells(o.tally[p], F[p], o.first, o.cursor)
      BY <1>1, <1>4, <1>v
    <2>2. \A u \in o.cursor .. (stop - 1) : F[p][u] = y
      <3> SUFFICES ASSUME NEW u \in o.cursor .. (stop - 1)
                   PROVE  F[p][u] = y
        OBVIOUS
      <3>1. u \in Nat /\ o.cursor <= u /\ u < stop /\ u < t /\ a.cursor <= u
        BY <1>1, <1>4, <1>7
      <3>2. \A e \in Expiries(S, o.cursor) : u < e
        BY <1>7, <3>1
      <3>3. Confirmed(in, in.opt[p], u) = y
        BY <1>1, <1>3, <1>v, <3>1, <3>2, ConfirmedRests
      <3> QED BY <3>1, <3>3
    <2> HIDE DEF y
    <2>3. Tells(tally, F[p], o.first, stop)
      BY <1>1, <1>2, <1>7, <2>1, <2>2, SegmentTells
    <2>4. stop - o.cursor \in Nat
      BY <1>1, <1>7
    <2>5. tally \in Tally
      BY <2>1, <2>4, TallyTypes
    <2>6. b[p] = tally
      BY DEF y
    <2> HIDE DEF b, tally
    <2> QED BY <2>3, <2>5, <2>6
  <1> HIDE DEF b
  <1>9. row \in OptionalRow /\ row.ts = o.first
           /\ \A p \in Profiles : row.mean[p] = MeanOf(b[p]) /\ row.last[p] = b[p].end
    <2>1. \A p \in Profiles : MeanOf(b[p]) \in Int /\ b[p].end \in Int
      BY <1>8, TallyTypes
    <2> QED BY <1>1, <2>1 DEF OptionalRow
  <1> HIDE DEF row, skips
  <1>10. v = CASE skips -> [w EXCEPT !.acc = OptionalOpened(t, FloorMinute(t))]
              [] ~skips /\ stop = end ->
                   [acc |-> OptionalOpened(end, end), rows |-> w.rows \o kept]
              [] OTHER -> [w EXCEPT !.acc = [o EXCEPT !.cursor = stop, !.tally = b]]
    BY DEF OptionalTurn, S, stop, b, o, value, row, skips
  <1>w. \A y : [w EXCEPT !.acc = y] = [acc |-> y, rows |-> w.rows]
    BY <1>1
  <1> HIDE DEF v, end, kept
  \* Nothing is fresh at the start of the minute: nothing is until t.
  <1>11. CASE skips
    <2> DEFINE f == FloorMinute(t)
               new == OptionalOpened(t, f)
    <2>1. v = [acc |-> new, rows |-> w.rows]
      <3>1. v = [w EXCEPT !.acc = new]
        BY <1>10, <1>11
      <3> HIDE DEF new
      <3> QED BY <1>w, <3>1, Zenon
    <2>2. f \in Nat /\ f <= t /\ t < f + MINUTE /\ FloorMinute(f) = f
      <3>1. f \in Nat /\ f <= t /\ t < f + MINUTE
        BY FloorOfMinute
      <3>2. FloorMinute(f) = FloorMinute(t)
        BY <1>2, <3>1, FloorOfMinute
      <3> QED BY <3>1, <3>2
    <2>3. /\ new.cursor = t /\ new.first = f /\ new.valid
          /\ \A p \in Profiles : new.tally[p] = OpenTally(t = f)
      BY DEF OptionalOpened
    <2> HIDE DEF f, new
    <2>4. o.first < f /\ end <= f /\ o.cursor = o.first /\ end <= t
      <3>1. o.cursor = o.first /\ end <= t
        BY <1>2, <1>11 DEF skips
      <3>2. o.first < f
        BY <1>1, <1>2, <2>2, <3>1 DEF end
      <3> QED BY <1>1, <1>2, <2>2, <3>1, <3>2, MinutesApart DEF end
    <2>5. ASSUME NEW p \in Profiles, NEW u \in Nat, o.cursor <= u, u < t
          PROVE  F[p][u] = NONE
      <3>1. in.opt[p] \in Evidence /\ Confirmed(in, in.opt[p], o.cursor) = NONE
        BY <1>3, <1>11, <1>v DEF skips
      <3>2. Confirmed(in, in.opt[p], u) = NONE
        BY <1>1, <2>5, <3>1, ConfirmedFades
      <3>3. a.cursor <= u
        BY <1>1, <1>4, <2>5
      <3> QED BY <2>5, <3>2, <3>3
    <2>6. \A p \in Profiles : Tells(new.tally[p], F[p], f, t)
      <3> SUFFICES ASSUME NEW p \in Profiles
                   PROVE  Tells(new.tally[p], F[p], f, t)
        OBVIOUS
      <3>1. \A u \in f .. (t - 1) : u \in Nat /\ o.cursor <= u /\ u < t
        BY <1>1, <1>2, <2>2, <2>4
      <3>2. \A u \in f .. (t - 1) : F[p][u] = NONE
        BY <2>5, <3>1
      <3>3. Tells(OpenTally(t = f), F[p], f, t)
        BY <2>2, <3>2, OpenTells
      <3> QED BY <2>3, <3>3
    <2>7. ASSUME NEW m \in Nat, FloorMinute(m) = m, a.first <= m, m < f,
                 m = a.first => a.valid, m >= start
          PROVE  HasRow(w.rows, m) \/ Silent(F, m)
      <3>1. CASE m < o.first
        BY <1>5, <2>7, <3>1
      <3>2. CASE o.first <= m
        <4>1. m + MINUTE <= f
          BY <2>2, <2>7, MinutesApart
        <4>2. \A u \in m .. (m + MINUTE - 1) : u \in Nat /\ o.cursor <= u /\ u < t
          BY <1>1, <1>2, <2>2, <2>4, <3>2, <4>1
        <4> QED BY <2>5, <4>2 DEF Silent
      <3> QED BY <1>1, <3>1, <3>2
    <2>8. v.acc = new /\ v.rows = w.rows
      BY <2>1
    <2>9. a.cursor <= t /\ f # a.first
      BY <1>1, <1>4, <2>2, <2>4
    <2> QED BY <1>4, <1>6, <2>3, <2>6, <2>7, <2>8, <2>9 DEF OptionalWalks, v
  \* The minute closes, with a row if it stands.
  <1>12. CASE ~skips /\ stop = end
    <2> DEFINE new == OptionalOpened(end, end)
               rows == w.rows \o kept
               m0 == o.first
    <2>1. v = [acc |-> new, rows |-> rows]
      BY <1>10, <1>12
    <2>2. /\ new.cursor = end /\ new.first = end /\ new.valid
          /\ \A p \in Profiles : new.tally[p] = OpenTally(TRUE)
      BY DEF OptionalOpened
    <2> HIDE DEF new
    <2>3. \A p \in Profiles : Tells(new.tally[p], F[p], end, end)
      <3> SUFFICES ASSUME NEW p \in Profiles
                   PROVE  Tells(new.tally[p], F[p], end, end)
        OBVIOUS
      <3>1. Tells(OpenTally(TRUE), F[p], end, end)
        BY <1>2, FreshTells
      <3> QED BY <2>2, <3>1
    <2>4. \A p \in Profiles : Gathered(F[p], m0, row.mean[p], row.last[p])
      <3> SUFFICES ASSUME NEW p \in Profiles
                   PROVE  Gathered(F[p], m0, row.mean[p], row.last[p])
        OBVIOUS
      <3>1. b[p] \in Tally /\ Tells(b[p], F[p], m0, m0 + MINUTE)
        BY <1>8, <1>12 DEF end
      <3>2. Gathered(F[p], m0, MeanOf(b[p]), b[p].end)
        BY <1>1, <3>1, WholeTells
      <3> QED BY <1>9, <3>2
    <2>5. /\ \A m : HasRow(rows, m) <=> HasRow(w.rows, m) \/ (m = m0 /\ o.valid /\ m0 >= start)
          /\ OptionalTold(F, rows)
      <3>1. CASE o.valid /\ m0 >= start
        <4>1. rows = w.rows \o <<row>>
          BY <3>1 DEF kept
        <4>2. /\ \A k \in DOMAIN rows : rows[k] = row \/ (k \in DOMAIN w.rows /\ rows[k] = w.rows[k])
              /\ \A m : HasRow(rows, m) <=> HasRow(w.rows, m) \/ row.ts = m
          BY <1>1, <1>9, <4>1, RowAdded
        <4> HIDE DEF rows
        <4>3. OptionalTold(F, rows)
          <5> SUFFICES ASSUME NEW k \in DOMAIN rows
                       PROVE  /\ FloorMinute(rows[k].ts) = rows[k].ts
                              /\ \A p \in Profiles :
                                     Gathered(F[p], rows[k].ts, rows[k].mean[p], rows[k].last[p])
            BY DEF OptionalTold
          <5>1. CASE rows[k] = row
            BY <1>2, <1>9, <2>4, <5>1
          <5>2. CASE k \in DOMAIN w.rows /\ rows[k] = w.rows[k]
            BY <1>4, <5>2 DEF OptionalTold
          <5> QED BY <4>2, <5>1, <5>2
        <4> QED BY <1>9, <3>1, <4>2, <4>3
      <3>2. CASE ~(o.valid /\ m0 >= start)
        <4>1. rows = w.rows
          BY <1>1, <3>2 DEF kept
        <4> QED BY <1>4, <3>2, <4>1
      <3> QED BY <3>1, <3>2
    <2> HIDE DEF rows
    <2>6. ASSUME NEW m \in Nat, FloorMinute(m) = m, a.first <= m, m < end,
                 m = a.first => a.valid, m >= start
          PROVE  HasRow(rows, m) \/ Silent(F, m)
      <3>1. CASE m < o.first
        BY <1>5, <2>5, <2>6, <3>1
      <3>2. CASE o.first <= m
        <4>1. FloorMinute(m) = FloorMinute(o.cursor)
          BY <1>1, <2>6, <3>2, FloorOfMinute DEF end
        <4>2. m = m0
          BY <1>1, <2>6, <4>1
        <4> QED BY <1>4, <2>5, <2>6, <4>2
      <3> QED BY <1>1, <3>1, <3>2
    <2>7. v.acc = new /\ v.rows = rows
      BY <2>1
    <2>8. a.cursor <= end /\ end # a.first
      BY <1>1, <1>2, <1>4 DEF end
    <2> QED BY <1>6, <2>2, <2>3, <2>5, <2>6, <2>7, <2>8 DEF OptionalWalks, v
  \* The minute goes on.
  <1>13. CASE ~skips /\ stop # end
    <2> DEFINE c == [cursor |-> stop, first |-> o.first, valid |-> o.valid, tally |-> b]
    <2>1. v = [acc |-> c, rows |-> w.rows]
      <3>1. v = [w EXCEPT !.acc = [o EXCEPT !.cursor = stop, !.tally = b]]
        BY <1>10, <1>13
      <3> DEFINE moved == [o EXCEPT !.cursor = stop, !.tally = b]
      <3>2. moved = [o EXCEPT !.cursor = stop, !.tally = b]
        OBVIOUS
      <3> HIDE DEF moved
      <3>3. moved = c
        BY <1>0, <3>2
      <3> QED BY <1>w, <3>1, <3>2, <3>3, Zenon
    <2>2. c.cursor = stop /\ c.first = o.first /\ c.valid = o.valid /\ c.tally = b
      OBVIOUS
    <2> HIDE DEF c
    <2>3. v.acc = c /\ v.rows = w.rows
      BY <2>1
    <2>4. a.cursor <= stop
      BY <1>1, <1>4, <1>7
    <2> QED BY <1>4, <1>5, <1>6, <1>8, <2>2, <2>3, <2>4 DEF OptionalWalks, v
  <1> QED BY <1>11, <1>12, <1>13 DEF v

-----------------------------------------------------------------------------
(* What one call of _advance closes and gathers.                           *)

LEMMA AdvancedTells ==
  ASSUME NEW g, NEW in, NEW x, Summary(g, in, x), NEW t \in Nat,
         NEW a \in Standing(Tally), a.cursor <= t,
         NEW F, \A u \in Nat : a.cursor <= u /\ u < t => F[u] = Historical(in, u),
         Tells(a.tally, F, a.first, a.cursor)
  PROVE  Advanced(in, t, a) \in CoreWalks(in, F, t, a) /\ Advanced(in, t, a).acc.cursor = t
  <1> DEFINE W == CoreWalks(in, F, t, a)
             w0 == [acc |-> a, rows |-> <<>>]
  <1>1. a.first \in Nat /\ a.cursor \in Nat /\ a.valid \in BOOLEAN /\ in \in TypedIngest
    BY DEF Standing, Summary
  <1>2. w0 \in W
    <2>1. w0.acc = a /\ w0.rows = <<>>
      OBVIOUS
    <2>2. w0 \in Walks(Tally, CoreRow, t, a.first)
      BY <1>1 DEF Walks, Ordered
    <2>3. Told(F, w0.rows)
      BY DEF Told
    <2>4. \A m \in Nat : ~(a.first <= m /\ m < a.first)
      BY <1>1
    <2> HIDE DEF w0
    <2> QED BY <1>1, <2>1, <2>2, <2>3, <2>4 DEF CoreWalks
  <1>3. \A w \in W : w.acc.cursor < t => Turn(in, t, w) \in W
    BY TurnTells
  <1>4. W \subseteq Walks(Tally, CoreRow, t, a.first)
    BY DEF CoreWalks
  <1> HIDE DEF W
  <1> QED BY <1>1, <1>2, <1>3, <1>4, AdvancedKeeps DEF W

LEMMA OptionalAdvancedTells ==
  ASSUME NEW in \in TypedIngest, NEW t \in Nat, NEW a \in Standing([Profiles -> Tally]), a.cursor <= t,
         NEW F, \A p \in Profiles : \A u \in Nat :
                    a.cursor <= u /\ u < t => F[p][u] = Confirmed(in, in.opt[p], u),
         \A p \in Profiles : Tells(a.tally[p], F[p], a.first, a.cursor)
  PROVE  OptionalAdvanced(in, t, a) \in OptionalWalks(F, t, a) /\ OptionalAdvanced(in, t, a).acc.cursor = t
  <1> DEFINE W == OptionalWalks(F, t, a)
             w0 == [acc |-> a, rows |-> <<>>]
  <1>1. a.first \in Nat /\ a.cursor \in Nat /\ a.valid \in BOOLEAN
    BY DEF Standing
  <1>2. w0 \in W
    <2>1. w0.acc = a /\ w0.rows = <<>>
      OBVIOUS
    <2>2. w0 \in Walks([Profiles -> Tally], OptionalRow, t, a.first)
      BY <1>1 DEF Walks, Ordered
    <2>3. OptionalTold(F, w0.rows)
      BY DEF OptionalTold
    <2>4. \A m \in Nat : ~(a.first <= m /\ m < a.first)
      BY <1>1
    <2> HIDE DEF w0
    <2> QED BY <1>1, <2>1, <2>2, <2>3, <2>4 DEF OptionalWalks
  <1>3. \A w \in W : w.acc.cursor < t => OptionalTurn(in, t, w) \in W
    BY OptionalTurnTells
  <1>4. W \subseteq Walks([Profiles -> Tally], OptionalRow, t, a.first)
    BY DEF OptionalWalks
  <1> HIDE DEF W
  <1>5. OptionalAdvanced(in, t, a) \in W /\ OptionalAdvanced(in, t, a).acc.cursor = t
    BY <1>2, <1>3, <1>4, OptionalAdvancedKeeps
  <1> QED BY <1>5 DEF W

\* The recorded rows hold what their minutes gathered, F of the metric and O of each profile.
RowTold(F, O, r) ==
    /\ FloorMinute(r.ts) = r.ts
    /\ Gathered(F, r.ts, r.mean, r.last)
    /\ \A p \in Profiles : Gathered(O[p], r.ts, r.optMean[p], r.optLast[p])

\* A canonical row finds the optional minute of its own start, or none that has anything to add.
LEMMA PairedTold ==
  ASSUME NEW in, NEW F, NEW O, NEW t \in Nat,
         NEW a \in Standing(Tally), NEW o \in Standing([Profiles -> Tally]),
         o.first = a.first, o.valid = a.valid,
         NEW core \in CoreWalks(in, F, t, a), NEW opt \in OptionalWalks(O, t, o),
         core.acc.cursor = t, opt.acc.cursor = t, NEW k \in DOMAIN core.rows
  PROVE  RowTold(F, O, Paired(core.rows[k], opt.rows))
  <1> DEFINE row == core.rows[k]
             minutes == opt.rows
             m == row.ts
             same == {j \in DOMAIN minutes : minutes[j].ts = m}
             r == Paired(row, minutes)
             of(f) == [p \in Profiles |-> IF same = {} THEN NONE ELSE minutes[Min(same)][f][p]]
  <1>1. /\ core.rows \in Seq(CoreRow) /\ minutes \in Seq(OptionalRow)
        /\ core.acc.first = FloorMinute(t) /\ opt.acc.first = FloorMinute(t)
        /\ Ordered(core.rows, a.first, core.acc.first) /\ a.first \in Nat
    BY DEF CoreWalks, OptionalWalks, Walks, Standing
  <1>2. FloorMinute(m) = m /\ Gathered(F, m, row.mean, row.last)
    BY DEF CoreWalks, Told
  <1>3. m \in Nat /\ a.first <= m /\ m < FloorMinute(t)
    <2>1. row \in CoreRow
      BY <1>1
    <2> QED BY <1>1, <2>1 DEF Ordered, CoreRow
  <1>4. (m = a.first => a.valid) /\ m >= start
    <2>1. HasRow(core.rows, m)
      BY DEF HasRow
    <2>2. Gets(in, a, m)
      <3> HIDE DEF m
      <3> QED BY <1>1, <1>2, <1>3, <2>1 DEF CoreWalks
    <2> QED BY <2>2 DEF Gets
  <1>5. HasRow(minutes, m) \/ Silent(O, m)
    <2> HIDE DEF m
    <2> QED BY <1>1, <1>2, <1>3, <1>4 DEF OptionalWalks
  <1>6. OptionalTold(O, minutes)
    BY DEF OptionalWalks
  <1>7. r = [ts |-> m, mean |-> row.mean, last |-> row.last,
             optMean |-> of("mean"), optLast |-> of("last")]
    BY DEF Paired
  <1>8. \A p \in Profiles : Gathered(O[p], m, of("mean")[p], of("last")[p])
    <2> SUFFICES ASSUME NEW p \in Profiles
                 PROVE  Gathered(O[p], m, of("mean")[p], of("last")[p])
      OBVIOUS
    <2>1. CASE same = {}
      <3>1. ~HasRow(minutes, m)
        BY <2>1 DEF HasRow
      <3>2. \A u \in m .. (m + MINUTE - 1) : O[p][u] = NONE
        BY <1>5, <3>1 DEF Silent
      <3>3. Gathered(O[p], m, NONE, NONE)
        <4> HIDE DEF m
        <4> QED BY <1>3, <3>2, NothingGathered
      <3> QED BY <2>1, <3>3
    <2>2. CASE same # {}
      <3>1. same \subseteq Nat
        BY <1>1
      <3>2. Min(same) \in same
        <4> HIDE DEF same
        <4> QED BY <2>2, <3>1, LeastElement
      <3>3. Min(same) \in DOMAIN minutes /\ minutes[Min(same)].ts = m
        <4> DEFINE j == Min(same)
        <4>1. j \in same
          BY <3>2
        <4> HIDE DEF j
        <4> QED BY <4>1 DEF j
      <3>4. Gathered(O[p], m, minutes[Min(same)].mean[p], minutes[Min(same)].last[p])
        <4> HIDE DEF m, same, minutes
        <4> QED BY <1>6, <3>3 DEF OptionalTold
      <3>5. /\ of("mean")[p] = minutes[Min(same)].mean[p]
            /\ of("last")[p] = minutes[Min(same)].last[p]
        BY <2>2
      <3> QED BY <3>4, <3>5
    <2> QED BY <2>1, <2>2
  <1> HIDE DEF of, r, m
  <1>9. r.ts = m /\ r.mean = row.mean /\ r.last = row.last /\ r.optMean = of("mean") /\ r.optLast = of("last")
    BY <1>7
  <1>10. RowTold(F, O, r)
    BY <1>2, <1>8, <1>9 DEF RowTold
  <1> QED BY <1>10 DEF r

LEMMA TellsAgrees ==
  ASSUME NEW F, NEW H, NEW a \in Nat, NEW b \in Nat, a <= b, \A u \in a .. (b - 1) : H[u] = F[u],
         NEW tally, Tells(tally, F, a, b)
  PROVE  Tells(tally, H, a, b)
  <1>1. b # a => b - 1 \in a .. (b - 1)
    OBVIOUS
  <1>2. \A k \in 1 .. (b - a) : a + k - 1 \in a .. (b - 1)
    OBVIOUS
  <1>3. \A k \in 1 .. (b - a) : H[a + k - 1] = F[a + k - 1]
    BY <1>2
  <1>4. SumsTo(F, a, b, tally.sum) => SumsTo(H, a, b, tally.sum)
    BY <1>3 DEF SumsTo
  <1>5. (\A u \in a .. (b - 1) : H[u] # NONE) <=> (\A u \in a .. (b - 1) : F[u] # NONE)
    OBVIOUS
  <1> QED BY <1>1, <1>4, <1>5 DEF Tells

LEMMA RowToldAgrees ==
  ASSUME NEW F, NEW O, NEW H, NEW Q, NEW r \in RecordedRow, RowTold(F, O, r),
         \A u \in r.ts .. (r.ts + MINUTE - 1) : H[u] = F[u] /\ \A p \in Profiles : Q[p][u] = O[p][u]
  PROVE  RowTold(H, Q, r)
  <1>1. r.ts \in Nat
    BY DEF RecordedRow
  <1>2. Gathered(H, r.ts, r.mean, r.last)
    BY <1>1, GatheredAgrees DEF RowTold
  <1>3. ASSUME NEW p \in Profiles
        PROVE  Gathered(Q[p], r.ts, r.optMean[p], r.optLast[p])
    <2>1. Gathered(O[p], r.ts, r.optMean[p], r.optLast[p])
      BY DEF RowTold
    <2>2. \A u \in r.ts .. (r.ts + MINUTE - 1) : Q[p][u] = O[p][u]
      OBVIOUS
    <2> QED BY <1>1, <2>1, <2>2, GatheredAgrees
  <1> QED BY <1>2, <1>3 DEF RowTold

\* Rows after rows.
LEMMA RowsJoined ==
  ASSUME NEW rows, rows \in Seq(RecordedRow), NEW added, added \in Seq(RecordedRow)
  PROVE  /\ \A k \in DOMAIN (rows \o added) :
                \/ k \in DOMAIN rows /\ (rows \o added)[k] = rows[k]
                \/ \E j \in DOMAIN added : (rows \o added)[k] = added[j]
         /\ \A m : HasRow(rows \o added, m) <=> HasRow(rows, m) \/ HasRow(added, m)
  <1> DEFINE all == rows \o added
             i == Len(rows)
             n == Len(added)
  <1>1. /\ i \in Nat /\ n \in Nat /\ DOMAIN rows = 1 .. i /\ DOMAIN added = 1 .. n
        /\ DOMAIN all = 1 .. (i + n)
        /\ \A k \in 1 .. i : all[k] = rows[k]
        /\ \A k \in 1 .. (i + n) : k > i => all[k] = added[k - i]
    OBVIOUS
  <1> HIDE DEF all, i, n
  <1>2. ASSUME NEW k \in DOMAIN all
        PROVE  \/ k \in DOMAIN rows /\ all[k] = rows[k]
               \/ \E j \in DOMAIN added : all[k] = added[j]
    <2>1. CASE k <= i
      BY <1>1, <2>1
    <2>2. CASE k > i
      <3>1. k - i \in DOMAIN added /\ all[k] = added[k - i]
        BY <1>1, <2>2
      <3> QED BY <3>1
    <2> QED BY <1>1, <2>1, <2>2
  <1>3. ASSUME NEW j \in DOMAIN added
        PROVE  \E k \in DOMAIN all : all[k] = added[j]
    <2>1. i + j \in DOMAIN all /\ i + j > i /\ (i + j) - i = j /\ i + j \in 1 .. (i + n)
      BY <1>1
    <2>2. all[i + j] = added[j]
      BY <1>1, <2>1
    <2> QED BY <2>1, <2>2
  <1>4. \A k \in DOMAIN rows : k \in DOMAIN all /\ all[k] = rows[k]
    BY <1>1
  <1>5. ASSUME NEW m
        PROVE  HasRow(all, m) <=> HasRow(rows, m) \/ HasRow(added, m)
    <2>1. HasRow(all, m) => HasRow(rows, m) \/ HasRow(added, m)
      BY <1>2 DEF HasRow
    <2>2. HasRow(rows, m) => HasRow(all, m)
      BY <1>4 DEF HasRow
    <2>3. HasRow(added, m) => HasRow(all, m)
      BY <1>3 DEF HasRow
    <2> QED BY <2>1, <2>2, <2>3
  <1> QED BY <1>2, <1>5 DEF all

PoisonedTally(a, t) == Poisoned(a, t).tally = a.tally

LEMMA PoisonedKeepsTally ==
  ASSUME NEW T, NEW a \in Standing(T), NEW t
  PROVE  PoisonedTally(a, t)
  <1>1. a = [cursor |-> a.cursor, first |-> a.first, valid |-> a.valid, tally |-> a.tally]
    BY DEF Standing
  <1>2. CASE SteppedBack(t)
    <2> DEFINE v == a.valid /\ a.cursor = a.first
               moved == [a EXCEPT !.valid = v]
    <2>1. Poisoned(a, t) = moved
      BY <1>2 DEF Poisoned, DiscardOpen
    <2>2. moved.tally = a.tally
      <3> HIDE DEF v
      <3> QED BY <1>1
    <2> HIDE DEF moved
    <2> QED BY <2>1, <2>2 DEF PoisonedTally
  <1>3. CASE ~SteppedBack(t)
    BY <1>3 DEF Poisoned, PoisonedTally
  <1> QED BY <1>2, <1>3

\* The whole of one _advance: accumulators and rows against the values F and O of every unit.
LEMMA AdvanceTells ==
  ASSUME WalkInv, NEW t \in Readings, Advance(t), NEW g, NEW x, Summary(g, Detected(t), x),
         optional.valid = accumulator.valid,
         NEW F, NEW O,
         \A u \in Nat : accumulator.cursor <= u /\ u < Clamped(t) =>
             /\ F[u] = Historical(Detected(t), u)
             /\ \A p \in Profiles : O[p][u] = Confirmed(Detected(t), Detected(t).opt[p], u),
         Tells(accumulator.tally, F, accumulator.first, accumulator.cursor),
         \A p \in Profiles : Tells(optional.tally[p], O[p], optional.first, optional.cursor),
         \A k \in DOMAIN recorded : RowTold(F, O, recorded[k])
  PROVE  /\ Tells(accumulator'.tally, F, accumulator'.first, accumulator'.cursor)
         /\ \A p \in Profiles : Tells(optional'.tally[p], O[p], optional'.first, optional'.cursor)
         /\ \A k \in DOMAIN recorded' : RowTold(F, O, recorded'[k])
         /\ accumulator'.valid <=> (accumulator'.first = accumulator.first => Poisoned(accumulator, t).valid)
         /\ optional'.valid = accumulator'.valid
         /\ \A m \in Nat : m < accumulator.first => (HasRow(recorded', m) <=> HasRow(recorded, m))
         /\ \A m \in Nat : FloorMinute(m) = m /\ accumulator.first <= m /\ m < accumulator'.first =>
                (HasRow(recorded', m) <=> Gets(Detected(t), Poisoned(accumulator, t), m))
  <1> DEFINE in == Detected(t)
             c == Clamped(t)
             a == Poisoned(accumulator, t)
             o == Poisoned(optional, t)
             core == Advanced(in, c, a)
             opt == OptionalAdvanced(in, c, o)
             added == [k \in DOMAIN core.rows |-> Paired(core.rows[k], opt.rows)]
  <1>1. /\ accumulator \in Standing(Tally) /\ optional \in Standing([Profiles -> Tally])
        /\ accumulator.cursor \in Readings /\ optional.cursor = accumulator.cursor
        /\ accumulator.first \in Nat /\ accumulator.valid \in BOOLEAN
        /\ optional.first = accumulator.first
        /\ recorded \in Seq(RecordedRow) /\ Ordered(recorded, 0, accumulator.first)
    BY DEF WalkInv, Standing
  <1>2. c \in Nat /\ accumulator.cursor <= c /\ accumulator.cursor \in Nat
    BY <1>1, TimeAssumption DEF Clamped, Readings
  <1>3. /\ a \in Standing(Tally) /\ a.cursor = accumulator.cursor /\ a.first = accumulator.first
        /\ o \in Standing([Profiles -> Tally]) /\ o.cursor = optional.cursor /\ o.first = optional.first
    BY <1>1, PoisonedStands
  <1>4. a.tally = accumulator.tally /\ o.tally = optional.tally
    BY <1>1, PoisonedKeepsTally DEF PoisonedTally
  <1>5. o.valid = a.valid
    <2>1. CASE ~SteppedBack(t)
      BY <2>1 DEF Poisoned
    <2>2. CASE SteppedBack(t)
      <3>1. ASSUME NEW T, NEW b \in Standing(T)
            PROVE  DiscardOpen(b).valid = (b.valid /\ b.cursor = b.first)
        <4> DEFINE v == b.valid /\ b.cursor = b.first
        <4>1. b = [cursor |-> b.cursor, first |-> b.first, valid |-> b.valid, tally |-> b.tally]
          BY DEF Standing
        <4>2. DiscardOpen(b) = [b EXCEPT !.valid = v]
          BY DEF DiscardOpen
        <4> HIDE DEF v
        <4>3. DiscardOpen(b).valid = v
          BY <4>1, <4>2
        <4> QED BY <4>3 DEF v
      <3>2. a.valid = (accumulator.valid /\ accumulator.cursor = accumulator.first)
        BY <1>1, <2>2, <3>1 DEF Poisoned
      <3>3. o.valid = (optional.valid /\ optional.cursor = optional.first)
        BY <1>1, <2>2, <3>1 DEF Poisoned
      <3> QED BY <1>1, <3>2, <3>3
    <2> QED BY <2>1, <2>2
  <1>6. accumulator' = core.acc /\ optional' = opt.acc /\ recorded' = recorded \o added
    BY DEF Advance
  <1>7. in \in TypedIngest
    BY DEF Summary
  <1> HIDE DEF in, a, o, c
  <1>8. core \in CoreWalks(in, F, c, a) /\ core.acc.cursor = c
    <2>1. \A u \in Nat : a.cursor <= u /\ u < c => F[u] = Historical(in, u)
      BY <1>3 DEF in, c
    <2>2. Tells(a.tally, F, a.first, a.cursor)
      BY <1>3, <1>4
    <2>3. Summary(g, in, x) /\ a.cursor <= c
      BY <1>2, <1>3 DEF in
    <2> QED BY <1>2, <1>3, <2>1, <2>2, <2>3, AdvancedTells
  <1>9. opt \in OptionalWalks(O, c, o) /\ opt.acc.cursor = c
    <2>1. \A p \in Profiles : \A u \in Nat :
              o.cursor <= u /\ u < c => O[p][u] = Confirmed(in, in.opt[p], u)
      BY <1>1, <1>3 DEF in, c
    <2>2. \A p \in Profiles : Tells(o.tally[p], O[p], o.first, o.cursor)
      BY <1>3, <1>4
    <2>3. o.cursor <= c
      BY <1>1, <1>2, <1>3
    <2> QED BY <1>2, <1>3, <1>7, <2>1, <2>2, <2>3, OptionalAdvancedTells
  <1> HIDE DEF core, opt
  <1>10. /\ core.acc \in Standing(Tally) /\ core.rows \in Seq(CoreRow)
         /\ core.acc.first = FloorMinute(c) /\ core.acc.first \in Nat
         /\ Ordered(core.rows, a.first, core.acc.first)
         /\ core.acc.valid <=> (core.acc.first = a.first => a.valid)
         /\ core.acc.valid \in BOOLEAN
         /\ Tells(core.acc.tally, F, core.acc.first, core.acc.cursor)
    BY <1>8 DEF CoreWalks, Walks, Standing
  <1>11. /\ opt.acc \in Standing([Profiles -> Tally]) /\ opt.rows \in Seq(OptionalRow)
         /\ opt.acc.first = FloorMinute(c)
         /\ opt.acc.valid <=> (opt.acc.first = o.first => o.valid)
         /\ opt.acc.valid \in BOOLEAN
         /\ \A p \in Profiles : Tells(opt.acc.tally[p], O[p], opt.acc.first, opt.acc.cursor)
    BY <1>9 DEF OptionalWalks, Walks, Standing
  <1>12. opt.acc.valid = core.acc.valid
    BY <1>1, <1>3, <1>5, <1>10, <1>11
  <1>13. \A k \in DOMAIN core.rows : /\ Paired(core.rows[k], opt.rows) \in RecordedRow
                                     /\ Paired(core.rows[k], opt.rows).ts = core.rows[k].ts
                                     /\ RowTold(F, O, Paired(core.rows[k], opt.rows))
    <2> SUFFICES ASSUME NEW k \in DOMAIN core.rows
                 PROVE  /\ Paired(core.rows[k], opt.rows) \in RecordedRow
                        /\ Paired(core.rows[k], opt.rows).ts = core.rows[k].ts
                        /\ RowTold(F, O, Paired(core.rows[k], opt.rows))
      OBVIOUS
    <2>1. core.rows[k] \in CoreRow
      BY <1>10
    <2>2. o.first = a.first
      BY <1>1, <1>3
    <2>3. RowTold(F, O, Paired(core.rows[k], opt.rows))
      BY <1>2, <1>3, <1>5, <1>8, <1>9, <2>2, PairedTold
    <2> QED BY <1>11, <2>1, <2>3, PairedType
  <1>14. /\ added \in Seq(RecordedRow) /\ DOMAIN added = DOMAIN core.rows
         /\ \A k \in DOMAIN added : added[k].ts = core.rows[k].ts /\ RowTold(F, O, added[k])
    <2>1. DOMAIN core.rows = 1 .. Len(core.rows) /\ Len(core.rows) \in Nat
      BY <1>10
    <2>2. added \in [1 .. Len(core.rows) -> RecordedRow]
      BY <1>13, <2>1
    <2>3. added \in Seq(RecordedRow)
      <3> HIDE DEF added
      <3> QED BY <2>1, <2>2
    <2> QED BY <1>13, <2>3
  <1> HIDE DEF added
  <1>15. /\ \A k \in DOMAIN (recorded \o added) :
                \/ k \in DOMAIN recorded /\ (recorded \o added)[k] = recorded[k]
                \/ \E j \in DOMAIN added : (recorded \o added)[k] = added[j]
         /\ \A m : HasRow(recorded \o added, m) <=> HasRow(recorded, m) \/ HasRow(added, m)
    BY <1>1, <1>14, RowsJoined
  <1>16. \A k \in DOMAIN (recorded \o added) : RowTold(F, O, (recorded \o added)[k])
    BY <1>14, <1>15
  <1>17. \A m : HasRow(added, m) <=> HasRow(core.rows, m)
    BY <1>14 DEF HasRow
  <1>18. \A m \in Nat : m < accumulator.first => ~HasRow(added, m)
    <2> SUFFICES ASSUME NEW m \in Nat, m < accumulator.first, HasRow(core.rows, m)
                 PROVE  FALSE
      BY <1>17
    <2>1. a.first <= m
      BY <1>10 DEF Ordered, HasRow
    <2> QED BY <1>1, <1>3, <2>1
  <1>19. \A m \in Nat : accumulator.first <= m => ~HasRow(recorded, m)
    BY <1>1, RowsBefore
  <1>20. \A m \in Nat : FloorMinute(m) = m /\ a.first <= m /\ m < core.acc.first =>
              (HasRow(core.rows, m) <=> Gets(in, a, m))
    BY <1>8 DEF CoreWalks
  <1> QED BY <1>3, <1>6, <1>10, <1>11, <1>12, <1>15, <1>16, <1>17, <1>18, <1>19, <1>20 DEF in, a

-----------------------------------------------------------------------------
(* The invariant of rows: every row is due and told, every due minute has  *)
(* one.                                                                    *)

\* The value of every unit, of the metric and of each profile, as the log g gives it.
Units(g) == [u \in Nat |-> CoreIn(g, u)]
OptionalUnits(g) == [p \in Profiles |-> [u \in Nat |-> OptionalIn(g, u, p)]]

\* The log, the cursor and the open minute's poisoning keep pace.
Books(g, x, a, o) ==
    /\ Behind(g, a.cursor) /\ x <= a.cursor
    /\ a.valid <=> NoStepAfter(g, a.first)
    /\ o.valid = a.valid

Open(g, a, o) ==
    /\ Tells(a.tally, Units(g), a.first, a.cursor)
    /\ \A p \in Profiles : Tells(o.tally[p], OptionalUnits(g)[p], o.first, o.cursor)

RowsAreTold == \A k \in DOMAIN recorded : RowTold(Units(log), OptionalUnits(log), recorded[k])

RowsAreDue ==
    \A m \in Nat : FloorMinute(m) = m /\ m + MINUTE <= accumulator.cursor =>
        (HasRow(recorded, m) <=> RowDue(m))

RowsInv ==
    /\ WalkInv
    /\ Summary(log, ingest, mqttLatest)
    /\ Books(log, mqttLatest, accumulator, optional)
    /\ Open(log, accumulator, optional)
    /\ RowsAreTold
    /\ RowsAreDue

\* What is told of the units behind c stays told when the log goes on from c.
LEMMA UnitsStay ==
  ASSUME NEW g, NEW h, NEW c \in Nat, GoesOnFrom(g, h, c), NEW u \in Nat, u < c
  PROVE  /\ Units(h)[u] = Units(g)[u]
         /\ \A p \in Profiles : OptionalUnits(h)[p][u] = OptionalUnits(g)[p][u]
  BY UnitStays DEF Units, OptionalUnits

\* The units this call passes have the values that ingest confirms.
LEMMA UnitsPassed ==
  ASSUME NEW g, NEW h, NEW c \in Nat, GoesOnFrom(g, h, c), NEW b \in Nat, Behind(g, b),
         NEW in, NEW x, Summary(g, in, x), NEW u \in Nat, b <= u, u < c
  PROVE  /\ Units(h)[u] = Historical(in, u)
         /\ \A p \in Profiles : OptionalUnits(h)[p][u] = Confirmed(in, in.opt[p], u)
  <1>1. Applicable(g, u) = DOMAIN g
    <2>1. \A k \in DOMAIN g : g[k].c \in Nat /\ g[k].c <= b
      BY LogShape DEF Behind, Summary
    <2>2. \A k \in DOMAIN g : g[k].c <= u
      BY <2>1
    <2> QED BY <2>2 DEF Applicable
  <1>2. Units(g)[u] = Historical(in, u)
    BY <1>1, WholeLogValues DEF Units, CoreIn
  <1>3. ASSUME NEW p \in Profiles
        PROVE  OptionalUnits(g)[p][u] = Confirmed(in, in.opt[p], u)
    <2>1. ValueOver(g, DOMAIN g, u, "optional", p) = Confirmed(in, in.opt[p], u)
      BY WholeLogValues
    <2>2. OptionalUnits(g)[p][u] = OptionalIn(g, u, p)
      BY DEF OptionalUnits
    <2> QED BY <1>1, <2>1, <2>2 DEF OptionalIn
  <1> QED BY <1>2, <1>3, UnitsStay

\* A minute that this call closes gets a row exactly if it is due.
LEMMA ClosedIsDue ==
  ASSUME NEW g, NEW h, NEW c \in Nat, GoesOnFrom(g, h, c), NEW in, NEW x, Summary(g, in, x),
         NEW a \in Standing(Tally), Behind(g, a.cursor), x <= a.cursor,
         a.valid <=> NoStepAfter(g, a.first),
         NEW m \in Nat, FloorMinute(m) = m, a.first <= m, a.cursor < m + MINUTE, m + MINUTE <= c
  PROVE  Gets(in, a, m)
           <=> m >= start /\ Due(h, {k \in DOMAIN h : h[k].c < m + MINUTE}, m)
  <1>1. /\ a.cursor \in Nat /\ a.first \in Nat /\ a.valid \in BOOLEAN
        /\ a.first = FloorMinute(a.cursor) /\ g \in Seq(LogEntry) /\ x \in Nat
    BY DEF Standing, Summary
  <1>2. /\ MINUTE \in Nat /\ a.first <= a.cursor /\ a.cursor < a.first + MINUTE
        /\ FloorMinute(a.first) = a.first
    BY <1>1, FloorOfMinute, FloorStands
  <1>3. Due(h, {k \in DOMAIN h : h[k].c < m + MINUTE}, m) <=> Due(g, DOMAIN g, m)
    BY <1>1, DueNow
  <1>4. x < m + MINUTE
    BY <1>1, <1>2
  <1>5. /\ (\A k \in DOMAIN g : g[k].kind = "step" => ~Inside(g[k].c, m))
        /\ AliveThrough(in, m, m + MINUTE)
        <=> Due(g, DOMAIN g, m)
    BY <1>4, ClosingIsDue
  <1>6. \A k \in DOMAIN g : g[k].c \in Nat /\ g[k].c <= a.cursor
    BY <1>1, LogShape DEF Behind
  <1>7. (\A k \in DOMAIN g : g[k].kind = "step" => ~Inside(g[k].c, m)) <=> (m = a.first => a.valid)
    <2>1. CASE m = a.first
      <3>1. \A k \in DOMAIN g : ~Inside(g[k].c, m) <=> g[k].c <= a.first
        BY <1>1, <1>2, <1>6, <2>1 DEF Inside
      <3> QED BY <2>1, <3>1 DEF NoStepAfter
    <2>2. CASE m # a.first
      <3>1. a.first + MINUTE <= m
        BY <1>1, <1>2, <2>2, MinutesApart
      <3>2. \A k \in DOMAIN g : ~Inside(g[k].c, m)
        BY <1>1, <1>2, <1>6, <3>1 DEF Inside
      <3> QED BY <2>2, <3>2
    <2> QED BY <2>1, <2>2
  <1> QED BY <1>3, <1>5, <1>7 DEF Gets

LEMMA RowsInit ==
  ASSUME Init
  PROVE  RowsInv
  <1>1. WalkInv
    BY WalkInit
  <1>2. /\ start \in Nat /\ log = <<>> /\ recorded = <<>> /\ mqttLatest = 0 /\ ingest = NothingHeard
        /\ accumulator = Opened(start, FloorMinute(start))
        /\ optional = OptionalOpened(start, FloorMinute(start))
    BY TimeAssumption DEF Init, Readings
  <1> DEFINE f == FloorMinute(start)
  <1>3. /\ accumulator.cursor = start /\ accumulator.first = f /\ accumulator.valid
        /\ accumulator.tally = OpenTally(start = f)
        /\ optional.cursor = start /\ optional.first = f /\ optional.valid
        /\ \A p \in Profiles : optional.tally[p] = OpenTally(start = f)
    BY <1>2 DEF Opened, OptionalOpened
  <1>4. f \in Nat /\ f <= start /\ start < f + MINUTE
    BY <1>2, FloorOfMinute
  <1> HIDE DEF f
  <1>5. DOMAIN log = {} /\ log \in Seq(LogEntry)
    BY <1>2
  <1>6. \A kinds : LastOf(log, DOMAIN log, kinds) = 0
    BY <1>5, WholeFacts
  <1>7. Summary(log, ingest, mqttLatest)
    <2>1. ingest \in TypedIngest /\ Sound(ingest) /\ mqttLatest \in Nat
      BY <1>2, NothingHeardTyped, NothingHeardSound
    <2>2. Reflects(log, ingest)
      BY <1>2, <1>5, <1>6 DEF Reflects, ConnOf, LwtOf, NothingHeard
    <2>3. Cells(log, ingest)
      <3>1. ASSUME NEW s, s.value = NONE, NEW kind, NEW src
            PROVE  CellOf(log, s, kind, src)
        <4> DEFINE y == NewestOf(log, DOMAIN log, kind, src)
        <4>1. y = 0
          <5>1. {k \in DOMAIN log : log[k].kind = kind /\ log[k].src = src} = {}
            BY <1>5
          <5>2. IsTop(y, {})
            <6>1. DOMAIN log \subseteq 1 .. 0
              BY <1>5
            <6> QED BY <5>1, <6>1, NewestOfTop
          <5> HIDE DEF y
          <5> QED BY <5>2 DEF IsTop
        <4> HIDE DEF y
        <4> QED BY <1>6, <3>1, <4>1 DEF CellOf, BreakOf, y
      <3>2. /\ \A i \in Sources : ingest.core[i].value = NONE
            /\ \A p \in Profiles : ingest.opt[p].value = NONE
        BY <1>2 DEF NothingHeard, NoEvidence
      <3> QED BY <3>1, <3>2 DEF Cells
    <2>4. Past(log, mqttLatest)
      BY <1>5 DEF Past
    <2>5. Interval(log, ingest, mqttLatest)
      BY <1>2 DEF Interval, Live, NothingHeard
    <2> QED BY <1>5, <2>1, <2>2, <2>3, <2>4, <2>5 DEF Summary
  <1>8. Books(log, mqttLatest, accumulator, optional)
    BY <1>2, <1>3, <1>5 DEF Books, Behind, NoStepAfter
  <1>9. \A u \in Nat : Units(log)[u] = NONE /\ \A p \in Profiles : OptionalUnits(log)[p][u] = NONE
    <2> SUFFICES ASSUME NEW u \in Nat
                 PROVE  Units(log)[u] = NONE /\ \A p \in Profiles : OptionalUnits(log)[p][u] = NONE
      OBVIOUS
    <2>1. ASSUME NEW kind, NEW src
          PROVE  ValueOver(log, Applicable(log, u), u, kind, src) = NONE
      <3>1. Applicable(log, u) = DOMAIN log
        BY <1>5 DEF Applicable
      <3>2. LastOf(log, DOMAIN log, {"connect", "Online", "Offline"}) = 0
        BY <1>6
      <3> QED BY <3>1, <3>2 DEF ValueOver
    <2>2. CoreIn(log, u) = NONE
      BY <2>1 DEF CoreIn, CoreOver
    <2> QED BY <2>1, <2>2 DEF Units, OptionalUnits, OptionalIn
  <1>10. Open(log, accumulator, optional)
    <2>1. \A u \in f .. (start - 1) : u \in Nat
      BY <1>2, <1>4
    <2>2. \A u \in f .. (start - 1) : Units(log)[u] = NONE
      BY <1>9, <2>1
    <2>3. Tells(OpenTally(start = f), Units(log), f, start)
      BY <1>2, <1>4, <2>2, OpenTells
    <2>4. ASSUME NEW p \in Profiles
          PROVE  Tells(OpenTally(start = f), OptionalUnits(log)[p], f, start)
      <3>1. \A u \in f .. (start - 1) : OptionalUnits(log)[p][u] = NONE
        BY <1>9, <2>1
      <3> QED BY <1>2, <1>4, <3>1, OpenTells
    <2> QED BY <1>3, <2>3, <2>4 DEF Open
  <1>11. RowsAreTold
    BY <1>2 DEF RowsAreTold
  <1>12. RowsAreDue
    <2> SUFFICES ASSUME NEW m \in Nat, FloorMinute(m) = m, m + MINUTE <= accumulator.cursor
                 PROVE  HasRow(recorded, m) <=> RowDue(m)
      BY DEF RowsAreDue
    <2>1. ~HasRow(recorded, m)
      BY <1>2 DEF HasRow
    <2>2. ~(m >= start)
      BY <1>2, <1>3, FloorOfMinute
    <2> QED BY <2>1, <2>2, RowDueIs
  <1> QED BY <1>1, <1>7, <1>8, <1>10, <1>11, <1>12 DEF RowsInv

-----------------------------------------------------------------------------
(* Every step keeps the invariant.                                         *)

\* What was told of the units behind the cursor is told by a log that goes on from it.
LEMMA ToldCarries ==
  ASSUME WalkInv, Open(log, accumulator, optional), RowsAreTold,
         NEW h, GoesOnFrom(log, h, accumulator.cursor)
  PROVE  /\ Tells(accumulator.tally, Units(h), accumulator.first, accumulator.cursor)
         /\ \A p \in Profiles :
                Tells(optional.tally[p], OptionalUnits(h)[p], optional.first, optional.cursor)
         /\ \A k \in DOMAIN recorded : RowTold(Units(h), OptionalUnits(h), recorded[k])
  <1> DEFINE c == accumulator.cursor
             f == accumulator.first
  <1>1. /\ accumulator \in Standing(Tally) /\ optional \in Standing([Profiles -> Tally])
        /\ optional.cursor = c /\ recorded \in Seq(RecordedRow) /\ Ordered(recorded, 0, f)
    BY DEF WalkInv
  <1>2. /\ c \in Nat /\ f \in Nat /\ f = FloorMinute(c) /\ optional.first = f
    BY <1>1 DEF Standing
  <1>3. f <= c /\ MINUTE \in Nat /\ MINUTE >= 1
    BY <1>2, FloorOfMinute
  <1>4. \A u \in Nat : u < c =>
            /\ Units(h)[u] = Units(log)[u]
            /\ \A p \in Profiles : OptionalUnits(h)[p][u] = OptionalUnits(log)[p][u]
    BY <1>2, UnitsStay
  <1>5. FloorMinute(f) = f
    BY <1>2, FloorStands
  <1> HIDE DEF c, f
  <1>6. Tells(accumulator.tally, Units(h), f, c)
    <2>1. Tells(accumulator.tally, Units(log), f, c)
      BY DEF Open, f, c
    <2>2. \A u \in f .. (c - 1) : Units(h)[u] = Units(log)[u]
      BY <1>2, <1>3, <1>4
    <2> QED BY <1>2, <1>3, <2>1, <2>2, TellsAgrees
  <1>7. ASSUME NEW p \in Profiles
        PROVE  Tells(optional.tally[p], OptionalUnits(h)[p], f, c)
    <2>1. Tells(optional.tally[p], OptionalUnits(log)[p], f, c)
      BY <1>1, <1>2 DEF Open
    <2>2. \A u \in f .. (c - 1) : OptionalUnits(h)[p][u] = OptionalUnits(log)[p][u]
      BY <1>2, <1>3, <1>4
    <2> QED BY <1>2, <1>3, <2>1, <2>2, TellsAgrees
  <1>8. ASSUME NEW k \in DOMAIN recorded
        PROVE  RowTold(Units(h), OptionalUnits(h), recorded[k])
    <2> DEFINE r == recorded[k]
               m == r.ts
    <2>1. r \in RecordedRow /\ RowTold(Units(log), OptionalUnits(log), r) /\ m < f
      BY <1>1 DEF RowsAreTold, Ordered
    <2>2. m \in Nat /\ FloorMinute(m) = m
      BY <2>1 DEF RecordedRow, RowTold
    <2>3. m + MINUTE <= f
      <3> HIDE DEF m
      <3> QED BY <1>2, <1>5, <2>1, <2>2, MinutesApart
    <2>4. \A u \in m .. (m + MINUTE - 1) : u \in Nat /\ u < c
      <3> HIDE DEF m
      <3> QED BY <1>2, <1>3, <2>2, <2>3
    <2>5. \A u \in m .. (m + MINUTE - 1) :
              /\ Units(h)[u] = Units(log)[u]
              /\ \A p \in Profiles : OptionalUnits(h)[p][u] = OptionalUnits(log)[p][u]
      BY <1>4, <2>4
    <2> HIDE DEF r
    <2> QED BY <2>1, <2>5, RowToldAgrees DEF m, r
  <1> QED BY <1>1, <1>2, <1>6, <1>7, <1>8 DEF c, f

\* A minute's poisoning follows the log through a call.
LEMMA BooksStep ==
  ASSUME WalkInv, Behind(log, accumulator.cursor),
         accumulator.valid <=> NoStepAfter(log, accumulator.first), log \in Seq(LogEntry),
         NEW t \in Readings, Found(t) \in Seq(LogEntry), Advance(t), LogMoves(t),
         accumulator'.valid
           <=> (accumulator'.first = accumulator.first => Poisoned(accumulator, t).valid)
  PROVE  accumulator'.valid <=> NoStepAfter(log', accumulator'.first)
  <1> DEFINE c == accumulator.cursor
             f == accumulator.first
  <1>1. /\ accumulator \in Standing(Tally) /\ c \in Readings
    BY DEF WalkInv
  <1>2. c \in Nat /\ f \in Nat /\ f = FloorMinute(c) /\ f <= c
    BY <1>1, FloorOfMinute DEF Standing
  <1>3. /\ Behind(Found(t), c) /\ DOMAIN Found(t) \subseteq Nat
        /\ \A k \in DOMAIN Found(t) : Found(t)[k].c \in Nat
    BY <1>1, FoundFacts, LogShape
  <1>4. \A first \in Nat : NoStepAfter(log', first) <=> NoStepAfter(Found(t), first)
    BY <1>1, <1>3, LogMovesFacts
  <1>5. Poisoned(accumulator, t).valid <=> NoStepAfter(Found(t), f)
    BY <1>1, <1>2, PoisonedValid
  <1>6. PICK q : q = accumulator'.first /\ q = FloorMinute(Clamped(t)) /\ q \in Nat /\ Clamped(t) \in Nat
    BY AdvanceStep, TimeAssumption DEF Standing, Readings
  <1>7. CASE q = f
    BY <1>2, <1>4, <1>5, <1>6, <1>7
  <1>8. CASE q # f
    <2>1. NoStepAfter(Found(t), q)
      <3>1. c <= Clamped(t) /\ MINUTE \in Nat /\ MINUTE >= 1
        <4>1. t \in Nat
          BY TimeAssumption DEF Readings
        <4>2. c <= Clamped(t)
          BY <1>2, <4>1 DEF Clamped
        <4> QED BY <4>2, FloorOfMinute
      <3>2. c < q
        <4> SUFFICES ASSUME ~(c < q)
                     PROVE  FALSE
          OBVIOUS
        <4>1. q <= Clamped(t) /\ Clamped(t) < q + MINUTE
          BY <1>6, FloorOfMinute
        <4> DEFINE d == Clamped(t)
        <4> HIDE DEF c, d
        <4>2. q <= c /\ c < q + MINUTE
          BY <1>2, <1>6, <3>1, <4>1 DEF d
        <4>3. FloorMinute(d) = q /\ d \in Nat
          BY <1>6 DEF d
        <4>4. FloorMinute(c) = FloorMinute(d)
          BY <1>2, <4>2, <4>3, FloorOfMinute
        <4> QED BY <1>2, <1>8, <4>3, <4>4
      <3> QED BY <1>2, <1>3, <1>6, <3>2 DEF Behind, NoStepAfter
    <2> QED BY <1>4, <1>6, <1>8, <2>1
  <1> QED BY <1>7, <1>8

\* A due minute behind the cursor has its row after the call, and no other minute has.
LEMMA DueStep ==
  ASSUME WalkInv, Books(log, mqttLatest, accumulator, optional), RowsAreDue, log \in Seq(LogEntry),
         NEW t \in Readings, Advance(t), LogMoves(t), Summary(Found(t), Detected(t), BackTo(t)),
         NEW h, h = log', GoesOnFrom(log, h, accumulator.cursor), GoesOnFrom(Found(t), h, Clamped(t)),
         \A m \in Nat : m < accumulator.first => (HasRow(recorded', m) <=> HasRow(recorded, m)),
         \A m \in Nat : FloorMinute(m) = m /\ accumulator.first <= m /\ m < accumulator'.first =>
             (HasRow(recorded', m) <=> Gets(Detected(t), Poisoned(accumulator, t), m))
  PROVE  RowsAreDue'
  <1> DEFINE c == accumulator.cursor
             f == accumulator.first
             a == Poisoned(accumulator, t)
  <1>1. accumulator \in Standing(Tally) /\ c \in Readings /\ start' = start
    BY DEF WalkInv, Advance
  <1>2. c \in Nat /\ f \in Nat /\ f = FloorMinute(c) /\ MINUTE \in Nat /\ MINUTE >= 1 /\ f <= c
    BY <1>1, FloorOfMinute DEF Standing
  <1>3. accumulator'.cursor = Clamped(t) /\ Clamped(t) \in Nat /\ accumulator' \in Standing(Tally)
    BY AdvanceStep, TimeAssumption DEF Readings
  <1>4. FloorMinute(f) = f
    BY <1>2, FloorStands
  <1>5. /\ a \in Standing(Tally) /\ a.cursor = c /\ a.first = f
    BY <1>1, PoisonedStands
  <1>6. a.valid <=> NoStepAfter(Found(t), a.first)
    BY <1>1, <1>2, <1>5, PoisonedValid DEF Books, Summary
  <1>7. Behind(Found(t), a.cursor) /\ BackTo(t) <= a.cursor
    <2>1. Behind(Found(t), c)
      BY <1>1, FoundFacts DEF Books, Summary
    <2>2. BackTo(t) <= c
      BY <1>2 DEF Books, BackTo
    <2> QED BY <1>5, <2>1, <2>2
  <1> SUFFICES ASSUME NEW m \in Nat, FloorMinute(m) = m, m + MINUTE <= Clamped(t)
               PROVE  HasRow(recorded', m) <=> RowDue(m)'
    BY <1>3 DEF RowsAreDue
  <1>8. RowDue(m)' <=> m >= start /\ Due(h, {k \in DOMAIN h : h[k].c < m + MINUTE}, m)
    BY <1>1, RowDueIs
  <1>9. CASE m + MINUTE <= c
    <2>1. m < f
      <3> SUFFICES ASSUME ~(m < f)
                   PROVE  FALSE
        OBVIOUS
      <3>1. c < f + MINUTE
        BY <1>2, FloorOfMinute
      <3> HIDE DEF c, f
      <3> QED BY <1>2, <1>9, <3>1
    <2>2. HasRow(recorded', m) <=> HasRow(recorded, m)
      BY <2>1
    <2>3. HasRow(recorded, m) <=> RowDue(m)
      BY <1>9 DEF RowsAreDue
    <2>4. RowDue(m) <=> m >= start /\ Due(log, {k \in DOMAIN log : log[k].c < m + MINUTE}, m)
      BY RowDueIs
    <2>5. Due(h, {k \in DOMAIN h : h[k].c < m + MINUTE}, m)
            <=> Due(log, {k \in DOMAIN log : log[k].c < m + MINUTE}, m)
      BY <1>2, <1>9, DueStays
    <2> QED BY <1>8, <2>2, <2>3, <2>4, <2>5
  <1>10. CASE c < m + MINUTE
    <2>1. f <= m
      <3> SUFFICES ASSUME m < f
                   PROVE  FALSE
        BY <1>2
      <3>1. m + MINUTE <= f
        <4> HIDE DEF f
        <4> QED BY <1>2, <1>4, MinutesApart
      <3> HIDE DEF c, f
      <3> QED BY <1>2, <1>10, <3>1
    <2>2. m < accumulator'.first
      <3> PICK q : q = accumulator'.first /\ q = FloorMinute(Clamped(t)) /\ q \in Nat
        BY <1>3 DEF Standing
      <3>1. Clamped(t) < q + MINUTE
        BY <1>3, FloorOfMinute
      <3> QED BY <1>2, <1>3, <3>1
    <2>3. HasRow(recorded', m) <=> Gets(Detected(t), a, m)
      BY <2>1, <2>2
    <2>4. Gets(Detected(t), a, m)
            <=> m >= start /\ Due(h, {k \in DOMAIN h : h[k].c < m + MINUTE}, m)
      <3> HIDE DEF a
      <3> QED BY <1>3, <1>5, <1>6, <1>7, <1>10, <2>1, ClosedIsDue
    <2> QED BY <1>8, <2>3, <2>4
  <1> HIDE DEF c
  <1> QED BY <1>2, <1>9, <1>10

LEMMA RowsStep ==
  ASSUME RowsInv, [Next]_vars
  PROVE  RowsInv'
  <1>1. CASE UNCHANGED vars
    <2>1. WalkInv' BY WalkStep DEF RowsInv
    <2>2. Summary(log, ingest, mqttLatest)'
      BY <1>1 DEF RowsInv, vars
    <2>3. Books(log, mqttLatest, accumulator, optional)'
      BY <1>1 DEF RowsInv, vars, Books
    <2>4. Open(log, accumulator, optional)' /\ RowsAreTold'
      BY <1>1 DEF RowsInv, vars, Open, RowsAreTold
    <2>5. RowsAreDue'
      BY <1>1, RowDueIs DEF RowsInv, vars, RowsAreDue
    <2> QED BY <2>1, <2>2, <2>3, <2>4, <2>5 DEF RowsInv
  <1>2. CASE Next
    <2>1. /\ WalkInv /\ Summary(log, ingest, mqttLatest)
          /\ Books(log, mqttLatest, accumulator, optional)
          /\ Open(log, accumulator, optional) /\ RowsAreTold /\ RowsAreDue
      BY DEF RowsInv
    <2>2. PICK t \in Readings : /\ Advance(t) /\ LogMoves(t) /\ mqttLatest' \in {0, t, mqttLatest}
                                /\ Summary(Found(t), Detected(t), BackTo(t))
                                /\ Summary(log', ingest', mqttLatest')
      BY <1>2, <2>1, SummaryStep
    <2> DEFINE c == accumulator.cursor
    <2>3. /\ accumulator \in Standing(Tally) /\ c \in Readings /\ c \in Nat /\ t \in Nat
      BY <2>1, TimeAssumption DEF WalkInv, Readings
    <2>4. /\ log \in Seq(LogEntry) /\ Found(t) \in Seq(LogEntry)
          /\ Behind(log, c) /\ mqttLatest <= c /\ mqttLatest \in Nat
          /\ accumulator.valid <=> NoStepAfter(log, accumulator.first)
      BY <2>1, <2>2 DEF Summary, Books
    <2>5. optional.valid = accumulator.valid
      BY <2>1 DEF Books
    <2>6. /\ accumulator'.cursor = Clamped(t) /\ Clamped(t) \in Nat
      BY <2>1, <2>2, AdvanceStep, TimeAssumption DEF Readings
    <2>7. c <= Clamped(t) /\ t <= Clamped(t)
      BY <2>3 DEF Clamped
    <2>8. GoesOnFrom(log, Found(t), c) /\ Behind(Found(t), c)
      BY <2>3, <2>4, FoundFacts
    <2>9. GoesOnFrom(Found(t), log', Clamped(t)) /\ Behind(log', Clamped(t))
      BY <2>2, <2>3, <2>4, <2>8, LogMovesFacts
    <2>10. PICK h : h = log'
      OBVIOUS
    <2>11. GoesOnFrom(Found(t), h, Clamped(t))
      BY <2>9, <2>10
    <2>12. GoesOnFrom(log, h, c)
      BY <2>3, <2>6, <2>7, <2>8, <2>11, GoesOnOn
    <2>13. /\ Tells(accumulator.tally, Units(h), accumulator.first, accumulator.cursor)
           /\ \A p \in Profiles :
                  Tells(optional.tally[p], OptionalUnits(h)[p], optional.first, optional.cursor)
           /\ \A k \in DOMAIN recorded : RowTold(Units(h), OptionalUnits(h), recorded[k])
      BY <2>1, <2>12, ToldCarries
    <2>14. \A u \in Nat : c <= u /\ u < Clamped(t) =>
               /\ Units(h)[u] = Historical(Detected(t), u)
               /\ \A p \in Profiles :
                      OptionalUnits(h)[p][u] = Confirmed(Detected(t), Detected(t).opt[p], u)
      BY <2>2, <2>3, <2>6, <2>8, <2>11, UnitsPassed
    <2>15. /\ Tells(accumulator'.tally, Units(h), accumulator'.first, accumulator'.cursor)
           /\ \A p \in Profiles :
                  Tells(optional'.tally[p], OptionalUnits(h)[p], optional'.first, optional'.cursor)
           /\ \A k \in DOMAIN recorded' : RowTold(Units(h), OptionalUnits(h), recorded'[k])
           /\ accumulator'.valid
                <=> (accumulator'.first = accumulator.first => Poisoned(accumulator, t).valid)
           /\ optional'.valid = accumulator'.valid
           /\ \A m \in Nat : m < accumulator.first => (HasRow(recorded', m) <=> HasRow(recorded, m))
           /\ \A m \in Nat : FloorMinute(m) = m /\ accumulator.first <= m /\ m < accumulator'.first =>
                  (HasRow(recorded', m) <=> Gets(Detected(t), Poisoned(accumulator, t), m))
      BY <2>1, <2>2, <2>5, <2>13, <2>14, AdvanceTells
    <2>16. WalkInv'
      BY <2>1, WalkStep
    <2>17. Books(log, mqttLatest, accumulator, optional)'
      <3>1. accumulator'.valid <=> NoStepAfter(log', accumulator'.first)
        BY <2>1, <2>2, <2>4, <2>15, BooksStep
      <3>2. mqttLatest' <= Clamped(t)
        BY <2>2, <2>3, <2>4, <2>6, <2>7
      <3> QED BY <2>6, <2>9, <2>15, <3>1, <3>2 DEF Books
    <2>18. Open(log, accumulator, optional)' /\ RowsAreTold'
      BY <2>10, <2>15 DEF Open, RowsAreTold
    <2>19. RowsAreDue'
      BY <2>1, <2>2, <2>4, <2>10, <2>11, <2>12, <2>15, DueStep
    <2>20. Summary(log, ingest, mqttLatest)'
      BY <2>2
    <2> QED BY <2>16, <2>17, <2>18, <2>19, <2>20 DEF RowsInv
  <1> QED BY <1>1, <1>2

-----------------------------------------------------------------------------
(* The properties' own words for values, sums and minutes.                 *)

\* Values that the whole log gives.
LEMMA ValueIsOver ==
  ASSUME NEW u, NEW kind, NEW src
  PROVE  ValueAt(u, kind, src) = ValueOver(log, Applicable(log, u), u, kind, src)
  BY DEF ValueAt, ValueOver, Applicable, LastIn, LastOf, NewestOf

LEMMA CoreIsUnit ==
  ASSUME NEW u \in Nat
  PROVE  CoreAt(u) = Units(log)[u]
  <1>1. Units(log)[u] = CoreOver(log, Applicable(log, u), u)
    BY DEF Units, CoreIn
  <1>2. \A i \in Sources : ValueAt(u, "live", i) = ValueOver(log, Applicable(log, u), u, "live", i)
    BY ValueIsOver
  <1>3. {i \in Sources : ValueAt(u, "live", i) # NONE}
          = {i \in Sources : ValueOver(log, Applicable(log, u), u, "live", i) # NONE}
    BY <1>2
  <1> DEFINE known == {i \in Sources : ValueAt(u, "live", i) # NONE}
  <1>4. ValueAt(u, "live", Min(known)) = ValueOver(log, Applicable(log, u), u, "live", Min(known))
    BY ValueIsOver
  <1> HIDE DEF known
  <1>5. CoreAt(u) = IF known = {} THEN NONE ELSE ValueAt(u, "live", Min(known))
    BY DEF CoreAt, known
  <1>6. CoreOver(log, Applicable(log, u), u)
          = IF known = {} THEN NONE ELSE ValueOver(log, Applicable(log, u), u, "live", Min(known))
    BY <1>3 DEF CoreOver, known
  <1> QED BY <1>1, <1>4, <1>5, <1>6

LEMMA OptionalIsUnit ==
  ASSUME NEW u \in Nat, NEW p \in Profiles
  PROVE  OptionalAt(u, p) = OptionalUnits(log)[p][u]
  BY ValueIsOver DEF OptionalAt, OptionalUnits, OptionalIn

\* Two running sums of the same values agree.
LEMMA OneSum ==
  ASSUME NEW n \in Nat, NEW S, NEW T, S[0] = T[0],
         \A k \in 1 .. n : S[k - 1] = T[k - 1] => S[k] = T[k]
  PROVE  S[n] = T[n]
  <1> DEFINE Bad == {k \in 0 .. n : S[k] # T[k]}
  <1>1. Bad = {}
    <2> SUFFICES ASSUME Bad # {}
                 PROVE  FALSE
      OBVIOUS
    <2>1. Bad \subseteq Nat
      OBVIOUS
    <2>2. PICK k \in Bad : \A y \in Bad : k <= y
      <3> HIDE DEF Bad
      <3> QED BY <2>1, GridAssumption, Grid!LeastNat
    <2>3. k \in 0 .. n /\ S[k] # T[k] /\ k # 0
      OBVIOUS
    <2>4. k \in 1 .. n /\ k - 1 \in 0 .. n /\ ~(k <= k - 1)
      BY <2>3
    <2>5. k - 1 \notin Bad
      <3> HIDE DEF Bad
      <3> QED BY <2>2, <2>4
    <2>6. S[k - 1] = T[k - 1]
      BY <2>4, <2>5
    <2> QED BY <2>3, <2>4, <2>6
  <1> QED BY <1>1

\* The recursive total of a mean is the sum of its minute's units.
Totals(F, m, f) == f = [k \in 0 .. MINUTE |-> IF k = 0 THEN 0 ELSE f[k - 1] + F[m + k - 1]]

LEMMA TotalIsSum ==
  ASSUME NEW F, NEW m \in Nat, NEW x, SumsTo(F, m, m + MINUTE, x)
  PROVE  /\ \E f : Totals(F, m, f)
         /\ \A f : Totals(F, m, f) => f[MINUTE] = x
  <1>1. MINUTE \in Nat /\ (m + MINUTE) - m = MINUTE
    BY FloorOfMinute
  <1>2. PICK S \in [0 .. MINUTE -> Int] : /\ S[0] = 0 /\ S[MINUTE] = x
                                          /\ \A k \in 1 .. MINUTE : S[k] = S[k - 1] + F[m + k - 1]
    BY <1>1 DEF SumsTo
  <1>3. Totals(F, m, S)
    <2>1. \A k \in 0 .. MINUTE : k # 0 => k \in 1 .. MINUTE
      BY <1>1
    <2>2. S = [k \in 0 .. MINUTE |-> S[k]]
      BY <1>2
    <2>3. \A k \in 0 .. MINUTE : S[k] = IF k = 0 THEN 0 ELSE S[k - 1] + F[m + k - 1]
      BY <1>2, <2>1
    <2> QED BY <2>2, <2>3 DEF Totals
  <1>4. ASSUME NEW f, Totals(F, m, f)
        PROVE  f[MINUTE] = x
    <2>1. f[0] = 0 /\ \A k \in 1 .. MINUTE : f[k] = f[k - 1] + F[m + k - 1]
      <3>1. 0 \in 0 .. MINUTE /\ \A k \in 1 .. MINUTE : k \in 0 .. MINUTE /\ k # 0
        BY <1>1
      <3>2. \A k \in 0 .. MINUTE : f[k] = IF k = 0 THEN 0 ELSE f[k - 1] + F[m + k - 1]
        BY <1>4, Zenon DEF Totals
      <3> QED BY <3>1, <3>2
    <2>2. \A k \in 1 .. MINUTE : f[k - 1] = S[k - 1] => f[k] = S[k]
      BY <1>2, <2>1
    <2>3. f[0] = S[0]
      BY <1>2, <2>1
    <2> QED BY <1>1, <1>2, <2>2, <2>3, OneSum
  <1> QED BY <1>3, <1>4

\* What a row gathered of a metric, in the words of the property.
LEMMA CoreMeans ==
  ASSUME NEW m \in Nat, NEW mean, NEW last, Gathered(Units(log), m, mean, last)
  PROVE  mean = MeanOver(m, CoreAt) /\ last = CoreAt(m + MINUTE - 1)
  <1> DEFINE F == Units(log)
             gap == \E u \in m .. (m + MINUTE - 1) : CoreAt(u) = NONE
             Run(f) == f = [k \in 0 .. MINUTE |-> IF k = 0 THEN 0 ELSE f[k - 1] + CoreAt(m + k - 1)]
             total == CHOOSE f : Run(f)
  <1>1. MINUTE \in Nat /\ MINUTE >= 1
    BY FloorOfMinute
  <1>2. \A u \in m .. (m + MINUTE - 1) : u \in Nat /\ CoreAt(u) = F[u]
    BY CoreIsUnit
  <1>3. MeanOver(m, CoreAt) = IF gap THEN NONE ELSE total[MINUTE]
    BY DEF MeanOver
  <1>4. m + MINUTE - 1 \in m .. (m + MINUTE - 1)
    BY <1>1
  <1>5. last = CoreAt(m + MINUTE - 1)
    BY <1>2, <1>4 DEF Gathered
  <1>6. gap <=> \E u \in m .. (m + MINUTE - 1) : F[u] = NONE
    BY <1>2
  <1>7. \A f : Run(f) <=> Totals(F, m, f)
    <2>1. \A k \in 0 .. MINUTE : k # 0 => m + k - 1 \in m .. (m + MINUTE - 1)
      BY <1>1
    <2>2. \A k \in 0 .. MINUTE : k # 0 => CoreAt(m + k - 1) = F[m + k - 1]
      BY <1>2, <2>1
    <2> HIDE DEF F
    <2>3. ASSUME NEW f
          PROVE  [k \in 0 .. MINUTE |-> IF k = 0 THEN 0 ELSE f[k - 1] + CoreAt(m + k - 1)]
                   = [k \in 0 .. MINUTE |-> IF k = 0 THEN 0 ELSE f[k - 1] + F[m + k - 1]]
      BY <2>2
    <2> QED BY <2>3 DEF Totals
  <1> HIDE DEF F, gap, Run, total
  <1>8. CASE gap
    BY <1>3, <1>5, <1>6, <1>8 DEF Gathered, F
  <1>9. CASE ~gap
    <2>1. SumsTo(F, m, m + MINUTE, mean)
      BY <1>6, <1>9 DEF Gathered, F
    <2>2. /\ \E f : Totals(F, m, f)
          /\ \A f : Totals(F, m, f) => f[MINUTE] = mean
      BY <2>1, TotalIsSum
    <2>3. Run(total)
      BY <1>7, <2>2 DEF total
    <2> QED BY <1>3, <1>5, <1>7, <1>9, <2>2, <2>3
  <1> QED BY <1>8, <1>9

LEMMA OptionalMeans ==
  ASSUME NEW p \in Profiles, NEW m \in Nat, NEW mean, NEW last,
         Gathered(OptionalUnits(log)[p], m, mean, last)
  PROVE  LET At(u) == OptionalAt(u, p)
         IN  mean = MeanOver(m, At) /\ last = At(m + MINUTE - 1)
  <1> DEFINE F == OptionalUnits(log)[p]
             At(u) == OptionalAt(u, p)
             gap == \E u \in m .. (m + MINUTE - 1) : At(u) = NONE
             Run(f) == f = [k \in 0 .. MINUTE |-> IF k = 0 THEN 0 ELSE f[k - 1] + At(m + k - 1)]
             total == CHOOSE f : Run(f)
  <1>1. MINUTE \in Nat /\ MINUTE >= 1
    BY FloorOfMinute
  <1>2. \A u \in m .. (m + MINUTE - 1) : u \in Nat /\ At(u) = F[u]
    BY OptionalIsUnit
  <1>3. MeanOver(m, At) = IF gap THEN NONE ELSE total[MINUTE]
    BY DEF MeanOver
  <1>4. m + MINUTE - 1 \in m .. (m + MINUTE - 1)
    BY <1>1
  <1>5. last = At(m + MINUTE - 1)
    BY <1>2, <1>4 DEF Gathered
  <1>6. gap <=> \E u \in m .. (m + MINUTE - 1) : F[u] = NONE
    BY <1>2
  <1>7. \A f : Run(f) <=> Totals(F, m, f)
    <2>1. \A k \in 0 .. MINUTE : k # 0 => m + k - 1 \in m .. (m + MINUTE - 1)
      BY <1>1
    <2>2. \A k \in 0 .. MINUTE : k # 0 => At(m + k - 1) = F[m + k - 1]
      BY <1>2, <2>1
    <2> HIDE DEF F, At
    <2>3. ASSUME NEW f
          PROVE  [k \in 0 .. MINUTE |-> IF k = 0 THEN 0 ELSE f[k - 1] + At(m + k - 1)]
                   = [k \in 0 .. MINUTE |-> IF k = 0 THEN 0 ELSE f[k - 1] + F[m + k - 1]]
      BY <2>2
    <2> QED BY <2>3 DEF Totals
  <1> HIDE DEF F, gap, Run, total
  <1>8. CASE gap
    BY <1>3, <1>5, <1>6, <1>8 DEF Gathered, F
  <1>9. CASE ~gap
    <2>1. SumsTo(F, m, m + MINUTE, mean)
      BY <1>6, <1>9 DEF Gathered, F
    <2>2. /\ \E f : Totals(F, m, f)
          /\ \A f : Totals(F, m, f) => f[MINUTE] = mean
      BY <2>1, TotalIsSum
    <2>3. Run(total)
      BY <1>7, <2>2 DEF total
    <2> QED BY <1>3, <1>5, <1>7, <1>9, <2>2, <2>3
  <1> QED BY <1>8, <1>9

\* A reading that MINUTE divides starts a minute.
LEMMA MinuteStarts ==
  ASSUME NEW m \in Minutes
  PROVE  m \in Nat /\ FloorMinute(m) = m
  <1>1. m \in Nat /\ MINUTE \in Nat \ {0} /\ m % MINUTE = 0
    BY TimeAssumption DEF Minutes, Readings
  <1>2. m = MINUTE * (m \div MINUTE) + (m % MINUTE)
    BY <1>1
  <1>3. m \div MINUTE \in Int
    BY <1>1
  <1>4. MINUTE * (m \div MINUTE) = (m \div MINUTE) * MINUTE
    BY <1>1, <1>3
  <1> QED BY <1>1, <1>2, <1>4 DEF FloorMinute

-----------------------------------------------------------------------------
(* Theorems.                                                               *)

LEMMA RowsDue ==
  ASSUME RowsInv
  PROVE  RowsMatchLife
  BY MinuteStarts DEF RowsInv, RowsAreDue, RowsMatchLife, HasRow

LEMMA RowsTold ==
  ASSUME RowsInv, NEW k \in DOMAIN recorded
  PROVE  /\ recorded[k].ts \in Nat
         /\ RowTold(Units(log), OptionalUnits(log), recorded[k])
  <1>1. recorded \in Seq(RecordedRow)
    BY DEF RowsInv, WalkInv
  <1>2. recorded[k] \in RecordedRow
    BY <1>1
  <1> QED BY <1>2 DEF RowsInv, RowsAreTold, RecordedRow

\* A minute behind the cursor has a row exactly if the log shows the source alive for all of it,
\* with no disconnect, Offline or clock step inside: for every minute length, staleness bound,
\* clock and order of events (the row rule of MinuteAccumulator._close in the walk of advance).
THEOREM RowsFollowLife == Spec => []RowsMatchLife
  <1>1. Init => RowsInv
    BY RowsInit
  <1>2. RowsInv /\ [Next]_vars => RowsInv'
    BY RowsStep
  <1>3. RowsInv => RowsMatchLife
    BY RowsDue
  <1> QED BY <1>1, <1>2, <1>3, PTL DEF Spec

\* A row's mean and last value are what the log's best confirmed, fresh source gives each moment of
\* its minute, however the walk cut it into segments (MinuteAccumulator._integrate and _close).
THEOREM MeansFollowEvidence == Spec => []MeansMatchEvidence
  <1>1. Init => RowsInv
    BY RowsInit
  <1>2. RowsInv /\ [Next]_vars => RowsInv'
    BY RowsStep
  <1>3. RowsInv => MeansMatchEvidence
    BY RowsTold, CoreMeans DEF RowTold, MeansMatchEvidence
  <1> QED BY <1>1, <1>2, <1>3, PTL DEF Spec

\* The optional values that travel with a row are those of its own minute, also where one of the
\* two accumulators skips a stretch and the other walks it (the pairing in Recorder._advance).
THEOREM OptionalFollowsEvidence == Spec => []OptionalMatchEvidence
  <1>1. Init => RowsInv
    BY RowsInit
  <1>2. RowsInv /\ [Next]_vars => RowsInv'
    BY RowsStep
  <1>3. RowsInv => OptionalMatchEvidence
    <2> SUFFICES ASSUME RowsInv, NEW k \in DOMAIN recorded, NEW p \in Profiles
                 PROVE  LET m == recorded[k].ts
                            At(u) == OptionalAt(u, p)
                        IN  /\ recorded[k].optMean[p] = MeanOver(m, At)
                            /\ recorded[k].optLast[p] = At(m + MINUTE - 1)
      BY Zenon DEF OptionalMatchEvidence
    <2>1. recorded[k].ts \in Nat
      BY RowsTold
    <2>2. Gathered(OptionalUnits(log)[p], recorded[k].ts, recorded[k].optMean[p], recorded[k].optLast[p])
      BY RowsTold DEF RowTold
    <2> QED BY <2>1, <2>2, OptionalMeans
  <1> QED BY <1>1, <1>2, <1>3, PTL DEF Spec
=============================================================================
