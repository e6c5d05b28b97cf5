------------------------ MODULE OptionalPolicyProofs ------------------------
(***************************************************************************)
(* Theorems about the policy chain for every value of the constants.       *)
(*                                                                         *)
(* The invariant is about every store that is committed or in doubt: its   *)
(* revisions are a chain, its series mean one thing per version, and what  *)
(* was acknowledged is in it.  A transaction in doubt blocks the next one  *)
(* (they share the policy-head lock), so the stores of a new state are     *)
(* old ones or what one transaction made of the committed one.             *)
(*                                                                         *)
(* The second half is about the minutes under the chain.  Which revision   *)
(* governs a minute is a recursive function along the bases, whose value   *)
(* is proved to be the last revision effective at the minute (Stops).      *)
(* From it follows that a replacement leaves every stored minute governed  *)
(* as it was, and with it documents and rollups.                           *)
(***************************************************************************)
EXTENDS OptionalPolicy, HistoryStoreProofs, TLAPS

-----------------------------------------------------------------------------
(* The inductive invariant.                                                *)

Revision == [base : Nat, from : Nat, members : SUBSET Semantics]

IsStoreRecord(s) ==
    /\ s = [revisions |-> s.revisions, head |-> s.head, series |-> s.series,
            raw |-> s.raw, rolled |-> s.rolled]
    /\ s.revisions \in Seq(Revision)
    /\ s.head \in DOMAIN s.revisions
    /\ s.series \subseteq Semantics
    /\ DOMAIN s.raw \subseteq Minute

Linear(s) ==
    /\ s.head = Len(s.revisions)
    /\ \A r \in DOMAIN s.revisions :
          /\ s.revisions[r].base = r - 1
          /\ r > 1 => s.revisions[r - 1].from <= s.revisions[r].from

OneMeaning(s) ==
    \A x, y \in s.series : x.identity = y.identity /\ x.version = y.version => x = y

Keeps(s, a) ==
    /\ a.revision \in DOMAIN s.revisions
    /\ s.revisions[a.revision].base = a.base
    /\ s.revisions[a.revision].members = a.profiles

Sound(s) == IsStoreRecord(s) /\ Linear(s) /\ OneMeaning(s)

Request == [pc : {"idle", "ask", "tx"}, base : Nat, want : SUBSET Identity, safe : Nat]

IInv ==
    /\ clock \in Minute /\ minuteStart \in Minute
    /\ DOMAIN queue \subseteq Minute
    /\ code \in Deployments
    /\ client \in [Clients -> Request]
    /\ \A c \in Clients : client[c].pc = "tx" => \A i \in client[c].want : Selectable(i)
    /\ \A s \in Stores : Sound(s) /\ \A a \in acked : Keeps(s, a)

-----------------------------------------------------------------------------
(* The operators.                                                          *)

\* Of a few numbers one is the largest.
LEMMA LargestOfThree ==
  ASSUME NEW a \in Nat, NEW b \in Nat, NEW c \in Nat
  PROVE  \E m \in {a, b, c} : \A k \in {a, b, c} : k <= m
  <1>1. CASE a <= b /\ c <= b
    BY <1>1
  <1>2. CASE b <= a /\ c <= a
    BY <1>2
  <1>3. CASE a <= c /\ b <= c
    BY <1>3
  <1> QED BY <1>1, <1>2, <1>3

LEMMA LargestOfFour ==
  ASSUME NEW a \in Nat, NEW b \in Nat, NEW c \in Nat, NEW d \in Nat
  PROVE  \E m \in {a, b, c, d} : \A k \in {a, b, c, d} : k <= m
  <1>1. PICK m \in {a, b, c} : \A k \in {a, b, c} : k <= m
    BY LargestOfThree
  <1>2. CASE d <= m
    BY <1>1, <1>2
  <1>3. CASE m <= d
    BY <1>1, <1>3
  <1> QED BY <1>1, <1>2, <1>3

\* The effective minute of a new revision is a minute, at or after the head's and
\* after the clock and the newest stored minute.
LEMMA EffectiveFromLater ==
  ASSUME NEW s, IsStoreRecord(s), NEW safe \in Nat, clock \in Minute
  PROVE  /\ EffectiveFrom(s, safe) \in Nat
         /\ s.revisions[s.head].from <= EffectiveFrom(s, safe)
         /\ clock + 1 <= EffectiveFrom(s, safe)
         /\ \A n \in Latest(DOMAIN s.raw) : n + 1 <= EffectiveFrom(s, safe)
  <1> DEFINE from == s.revisions[s.head].from
             floors == {safe, clock + 1, from} \cup {m + 1 : m \in Latest(DOMAIN s.raw)}
             Top(m) == m \in floors /\ \A k \in floors : k <= m
  <1>1. from \in Nat
    <2>1. s.revisions[s.head] \in Revision
      BY DEF IsStoreRecord
    <2> QED BY <2>1 DEF Revision
  <1>2. Minute \subseteq Nat
    BY StoreAssumption DEF Minute
  <1>3. clock + 1 \in Nat
    BY <1>2
  <1>4. \E m : Top(m)
    <2>1. CASE Latest(DOMAIN s.raw) = {}
      <3>1. floors = {safe, clock + 1, from}
        BY <2>1
      <3> HIDE DEF from, floors
      <3> QED BY <1>1, <1>3, <3>1, LargestOfThree
    <2>2. CASE Latest(DOMAIN s.raw) # {}
      <3>1. PICK n \in Latest(DOMAIN s.raw) : TRUE
        BY <2>2
      <3>2. n \in Nat
        BY <1>2, <3>1 DEF Latest, IsStoreRecord
      <3>3. \A m \in Latest(DOMAIN s.raw) : m = n
        BY <1>2, <3>1 DEF Latest, IsStoreRecord
      <3>4. floors = {safe, clock + 1, from, n + 1}
        BY <3>1, <3>3
      <3> HIDE DEF from, floors
      <3> QED BY <1>1, <1>3, <3>2, <3>4, LargestOfFour
    <2> QED BY <2>1, <2>2
  <1>5. EffectiveFrom(s, safe) = CHOOSE m : Top(m)
    BY DEF EffectiveFrom
  <1>6. Top(EffectiveFrom(s, safe))
    BY <1>4, <1>5
  <1>7. floors \subseteq Nat
    BY <1>1, <1>2, <1>3 DEF Latest, IsStoreRecord
  <1> QED BY <1>6, <1>7

\* The profiles of a request whose identities are all selectable are rows of the
\* code's identities.
LEMMA ProfilesOfCode ==
  ASSUME code \in Deployments, NEW want, \A i \in want : Selectable(i)
  PROVE  /\ Profiles(want) \subseteq Semantics
         /\ \A p, q \in Profiles(want) : p.identity = q.identity => p = q
  <1>1. \A i \in want : i \in DOMAIN code.profile /\ code.profile[i].identity = i
    BY PolicyAssumption DEF Selectable
  <1> QED BY <1>1 DEF Profiles, Semantics

\* Without a conflict, the series of a profile is the profile's meaning itself.
LEMMA SeriesIsProfile ==
  ASSUME NEW s, NEW p, ~Conflicting(s, p)
  PROVE  SeriesOf(s, p) = p
  <1>1. CASE \E row \in s.series : Key(row) = Key(p)
    <2> DEFINE found == CHOOSE row \in s.series : Key(row) = Key(p)
    <2>1. found \in s.series /\ Key(found) = Key(p)
      BY <1>1
    <2> HIDE DEF found
    <2>2. found \in Lineage(s, p)
      BY <2>1 DEF Key, Lineage
    <2>3. found = p
      BY <2>2 DEF Conflicting
    <2> QED BY <1>1, <2>3 DEF SeriesOf, found
  <1>2. CASE ~\E row \in s.series : Key(row) = Key(p)
    BY <1>2 DEF SeriesOf
  <1> QED BY <1>1, <1>2

-----------------------------------------------------------------------------
(* The transactions.                                                       *)

\* A replacement extends the chain by one revision with the profiles asked for, and
\* leaves every series with one meaning per version.
LEMMA ReplacedSound ==
  ASSUME NEW s, Sound(s), NEW ps \in SUBSET Semantics, NEW safe \in Nat, clock \in Minute,
         \A p \in ps : ~Conflicting(s, p),
         \A p, q \in ps : p.identity = q.identity => p = q
  PROVE  LET new == Replaced(s, ps, safe)
         IN  /\ Sound(new)
             /\ new.revisions = Append(s.revisions, [base |-> s.head, from |-> EffectiveFrom(s, safe),
                                                     members |-> ps])
             /\ new.head = Len(s.revisions) + 1
             /\ \A a : Keeps(s, a) => Keeps(new, a)
  <1> DEFINE new == Replaced(s, ps, safe)
             from == EffectiveFrom(s, safe)
             top == [base |-> s.head, from |-> from, members |-> ps]
             chain == Append(s.revisions, top)
  <1>1. ps = {SeriesOf(s, p) : p \in ps}
    BY SeriesIsProfile
  <1>2. new = [s EXCEPT !.revisions = chain, !.head = Len(s.revisions) + 1,
                        !.series = s.series \cup ps]
    BY <1>1 DEF Replaced
  <1>3. from \in Nat /\ s.revisions[s.head].from <= from
    BY EffectiveFromLater DEF Sound
  <1>4. top \in Revision
    BY <1>3 DEF Revision, Sound, IsStoreRecord
  <1> HIDE DEF new, from, top
  <1>5. /\ chain \in Seq(Revision)
        /\ Len(chain) = Len(s.revisions) + 1
        /\ DOMAIN chain = 1 .. Len(s.revisions) + 1
        /\ \A r \in DOMAIN s.revisions : chain[r] = s.revisions[r]
        /\ chain[Len(s.revisions) + 1] = top
    BY <1>4 DEF Sound, IsStoreRecord
  <1>6. /\ Len(s.revisions) \in Nat /\ s.head = Len(s.revisions)
        /\ DOMAIN s.revisions = 1 .. Len(s.revisions)
        /\ s.head \in DOMAIN s.revisions
    BY DEF Sound, IsStoreRecord, Linear
  <1> HIDE DEF chain
  <1>7. new = [revisions |-> chain, head |-> Len(s.revisions) + 1, series |-> s.series \cup ps,
               raw |-> s.raw, rolled |-> s.rolled]
    BY <1>2 DEF Sound, IsStoreRecord
  <1>8. IsStoreRecord(new)
    BY <1>5, <1>6, <1>7 DEF Sound, IsStoreRecord
  <1>9. Linear(new)
    <2> SUFFICES ASSUME NEW r \in DOMAIN chain
                 PROVE  /\ chain[r].base = r - 1
                        /\ r > 1 => chain[r - 1].from <= chain[r].from
      BY <1>5, <1>7 DEF Linear
    <2>1. CASE r \in DOMAIN s.revisions
      <3>1. chain[r] = s.revisions[r]
        BY <1>5, <2>1
      <3>2. r > 1 => r - 1 \in DOMAIN s.revisions
        BY <1>6, <2>1
      <3> QED BY <1>5, <2>1, <3>1, <3>2 DEF Sound, Linear
    <2>2. CASE r = Len(s.revisions) + 1
      <3>1. chain[r] = top /\ r - 1 = s.head /\ chain[s.head] = s.revisions[s.head]
        BY <1>5, <1>6, <2>2
      <3> QED BY <1>3, <3>1 DEF top
    <2> QED BY <1>5, <1>6, <2>1, <2>2
  <1>10. OneMeaning(new)
    <2> SUFFICES ASSUME NEW x \in s.series \cup ps, NEW y \in s.series \cup ps,
                        x.identity = y.identity, x.version = y.version
                 PROVE  x = y
      BY <1>7 DEF OneMeaning
    <2>1. \A p \in ps, row \in s.series :
              row.identity = p.identity /\ row.version = p.version => row = p
      BY DEF Conflicting, Lineage
    <2> QED BY <2>1 DEF Sound, OneMeaning
  <1>11. \A a : Keeps(s, a) => Keeps(new, a)
    BY <1>5, <1>6, <1>7 DEF Keeps
  <1>12. Sound(new) /\ new.revisions = chain /\ new.head = Len(s.revisions) + 1
    BY <1>7, <1>8, <1>9, <1>10 DEF Sound
  <1> QED BY <1>11, <1>12 DEF new, chain, top, from

\* Transactions that write minutes or hours leave chain and series alone.
LEMMA WriteSound ==
  ASSUME NEW s, Sound(s), NEW raw, DOMAIN raw \subseteq Minute, NEW rolled,
         NEW new, new = [revisions |-> s.revisions, head |-> s.head, series |-> s.series,
                         raw |-> raw, rolled |-> rolled]
  PROVE  Sound(new) /\ \A a : Keeps(s, a) => Keeps(new, a)
  BY DEF Sound, IsStoreRecord, Linear, OneMeaning, Keeps

\* The rebuild of hours is such a write.
LEMMA RebuiltSound ==
  ASSUME NEW s, Sound(s), NEW hours
  PROVE  /\ Sound(Rebuilt(s, hours)) /\ Rebuilt(s, hours).head = s.head
         /\ \A a : Keeps(s, a) => Keeps(Rebuilt(s, hours), a)
  <1> DEFINE rolled == Over([h \in hours |-> OptionalHour(s, h)], s.rolled)
  <1>1. Rebuilt(s, hours) = [s EXCEPT !.rolled = rolled]
    BY DEF Rebuilt
  <1> HIDE DEF rolled
  <1>2. Rebuilt(s, hours) = [revisions |-> s.revisions, head |-> s.head, series |-> s.series,
                             raw |-> s.raw, rolled |-> rolled]
    BY <1>1 DEF Sound, IsStoreRecord
  <1> QED BY <1>2, WriteSound DEF Sound, IsStoreRecord

\* So is the record of minutes.
LEMMA RecordedSound ==
  ASSUME NEW s, Sound(s), NEW rows \in SUBSET Minute
  PROVE  /\ Sound(Recorded(s, rows)) /\ Recorded(s, rows).head = s.head
         /\ \A a : Keeps(s, a) => Keeps(Recorded(s, rows), a)
  <1> DEFINE raw == Over([m \in rows |-> Document(s, m)], s.raw)
             stored == [s EXCEPT !.raw = raw]
  <1>1. DOMAIN raw \subseteq Minute
    BY DEF Over, Sound, IsStoreRecord
  <1> HIDE DEF raw
  <1>2. stored = [revisions |-> s.revisions, head |-> s.head, series |-> s.series,
                  raw |-> raw, rolled |-> s.rolled]
    BY DEF Sound, IsStoreRecord
  <1> HIDE DEF stored
  <1>3. Sound(stored) /\ stored.head = s.head /\ \A a : Keeps(s, a) => Keeps(stored, a)
    BY <1>1, <1>2, WriteSound
  <1> DEFINE hours == HoursOf(rows) \cap {h \in Hour : \E r \in DOMAIN stored.rolled : h <= r}
  <1>4. Recorded(s, rows) = Rebuilt(stored, hours)
    BY DEF Recorded, stored, raw
  <1> HIDE DEF hours
  <1> QED BY <1>3, <1>4, RebuiltSound

-----------------------------------------------------------------------------
(* The invariant is inductive.                                             *)

\* The first revision governs everything, and nothing is stored or acknowledged.
LEMMA InitIInv == Init => IInv
  <1> SUFFICES ASSUME Init
               PROVE  IInv
    OBVIOUS
  <1>1. 0 \in Minute
    BY StoreAssumption DEF Minute
  <1>2. Stores = {db}
    BY DEF Init, Stores
  <1>3. [base |-> NoBase, from |-> 0, members |-> {}] \in Revision
    BY DEF Revision, NoBase
  <1>4. /\ db = [revisions |-> db.revisions, head |-> db.head, series |-> db.series,
                 raw |-> db.raw, rolled |-> db.rolled]
        /\ db.revisions = <<[base |-> NoBase, from |-> 0, members |-> {}]>>
        /\ db.head = 1 /\ db.series = {} /\ DOMAIN db.raw = {}
    BY DEF Init, GENESIS_REVISION_ID
  <1>5. Sound(db)
    BY <1>3, <1>4 DEF Sound, IsStoreRecord, Linear, OneMeaning, NoBase
  <1>6. Idle \in Request
    BY DEF Idle, Request, NoBase
  <1> QED BY <1>1, <1>2, <1>5, <1>6 DEF Init, IInv, Idle

\* A transaction whose new store is sound leaves only sound stores behind, whether it
\* is answered or not.
LEMMA CommitsSound ==
  ASSUME IInv, NEW new, Sound(new), \A a : Keeps(db, a) => Keeps(new, a),
         Commits(new) \/ AckLost(new)
  PROVE  /\ \A s \in Stores' : Sound(s) /\ \A a \in acked : Keeps(s, a)
         /\ Commits(new) => Stores' = {new}
  <1>1. Stores = {db}
    BY DEF Commits, AckLost, Unlocked, Stores
  <1>2. Sound(db) /\ \A a \in acked : Keeps(db, a)
    BY <1>1 DEF IInv
  <1>3. Stores' \subseteq {db, new} /\ (Commits(new) => Stores' = {new})
    BY DEF Commits, AckLost, Unlocked, Stores
  <1> QED BY <1>2, <1>3

\* A request keeps its type while a client works on it, and one that is about to
\* enter its transaction names selectable identities.
LEMMA ClientStep ==
  ASSUME IInv, NEW c \in Clients, NEW r \in Request,
         r.pc = "tx" => \A i \in r.want : Selectable(i),
         client' = [client EXCEPT ![c] = r], UNCHANGED code
  PROVE  /\ client' \in [Clients -> Request]
         /\ \A d \in Clients : client'[d].pc = "tx" => \A i \in client'[d].want : Selectable(i)'
  BY DEF IInv, Selectable

\* Every step preserves the invariant.
LEMMA NextIInv == IInv /\ [Next]_vars => IInv'
  <1> SUFFICES ASSUME IInv, [Next]_vars
               PROVE  IInv'
    OBVIOUS
  <1>m. Minute \subseteq Nat
    BY StoreAssumption DEF Minute
  <1>s. Unlocked => Stores = {db}
    BY DEF Unlocked, Stores
  <1>r. \A c \in Clients :
           /\ client[c] \in Request
           /\ client[c].base \in Nat /\ client[c].want \in SUBSET Identity
           /\ client[c].safe \in Nat
    BY DEF IInv, Request
  <1>i. Idle \in Request /\ Idle.pc = "idle"
    BY DEF Idle, Request, NoBase
  <1>1. CASE UNCHANGED vars
    BY <1>1 DEF IInv, vars, storeVars, recorderVars, boundVars, Stores, Selectable
  <1>2. CASE Clock
    BY <1>2 DEF Clock, IInv, storeVars, recorderVars, Stores, Selectable
  <1>3. CASE Close
    <2>1. DOMAIN queue' \subseteq Minute
      <3>1. PICK first \in {minuteStart, minuteStart + 1} :
               \E known \in [first .. (clock - 1) -> SUBSET DOMAIN code.profile] :
                   queue' = Over(known, queue)
        BY <1>3 DEF Close
      <3>2. DOMAIN queue' \subseteq (first .. (clock - 1)) \cup DOMAIN queue
        BY <3>1 DEF Over
      <3>3. first .. (clock - 1) \subseteq Minute
        BY StoreAssumption DEF IInv, Minute
      <3> QED BY <3>2, <3>3 DEF IInv
    <2> QED BY <1>3, <2>1 DEF Close, IInv, storeVars, boundVars, Stores, Selectable
  <1>4. CASE Persist
    <2>1. PICK last \in DOMAIN queue :
             LET rows == {m \in DOMAIN queue : m <= last}
             IN  \/ /\ Commits(Recorded(db, rows))
                    /\ queue' = [m \in DOMAIN queue \ rows |-> queue[m]]
                 \/ /\ AckLost(Recorded(db, rows))
                    /\ UNCHANGED queue
      BY <1>4 DEF Persist
    <2> DEFINE rows == {m \in DOMAIN queue : m <= last}
               new == Recorded(db, rows)
    <2>2. rows \in SUBSET Minute
      BY DEF IInv
    <2>3. Commits(new) \/ AckLost(new)
      BY <2>1
    <2>4. Sound(db)
      BY <1>s, <2>3 DEF Commits, AckLost, IInv
    <2>5. DOMAIN queue' \subseteq Minute
      BY <2>1 DEF IInv
    <2> HIDE DEF rows
    <2>6. Sound(new) /\ \A a : Keeps(db, a) => Keeps(new, a)
      BY <2>2, <2>4, RecordedSound
    <2> HIDE DEF new
    <2>7. \A s \in Stores' : Sound(s) /\ \A a \in acked : Keeps(s, a)
      BY <2>3, <2>6, CommitsSound
    <2> QED BY <1>4, <2>5, <2>7 DEF Persist, IInv, Selectable
  <1>5. CASE RollHour
    <2>1. PICK h \in HoursOf(DOMAIN db.raw) : Commits(Rebuilt(db, {h}))
      BY <1>5 DEF RollHour
    <2> DEFINE new == Rebuilt(db, {h})
    <2>2. Sound(db)
      BY <1>s, <2>1 DEF Commits, IInv
    <2>3. Sound(new) /\ \A a : Keeps(db, a) => Keeps(new, a)
      BY <2>2, RebuiltSound
    <2>4. Commits(new)
      BY <2>1
    <2> HIDE DEF new
    <2>5. \A s \in Stores' : Sound(s) /\ \A a \in acked : Keeps(s, a)
      BY <2>3, <2>4, CommitsSound
    <2> QED BY <1>5, <2>5 DEF RollHour, recorderVars, IInv, Selectable
  <1>6. CASE Resolve
    <2>1. Stores' \subseteq Stores
      BY <1>6 DEF Resolve, Stores
    <2> QED BY <1>6, <2>1 DEF Resolve, recorderVars, boundVars, IInv, Selectable
  <1>7. CASE Restart
    <2>1. /\ client' \in [Clients -> Request]
          /\ \A c \in Clients : client'[c].pc # "tx"
      <3> SUFFICES ASSUME NEW c \in Clients
                   PROVE  client'[c] \in Request /\ client'[c].pc # "tx"
        BY <1>7 DEF Restart
      <3>1. CASE client[c].pc = "tx"
        BY <1>7, <1>r, <3>1 DEF Restart, Request
      <3>2. CASE client[c].pc # "tx"
        BY <1>7, <1>r, <3>2 DEF Restart
      <3> QED BY <3>1, <3>2
    <2>2. DOMAIN queue' = {} /\ code' \in Deployments /\ minuteStart' \in Minute
      BY <1>7 DEF Restart, IInv
    <2> QED BY <1>7, <2>1, <2>2 DEF Restart, storeVars, boundVars, IInv, Stores
  <1>8. ASSUME NEW c \in Clients, Ask(c)
        PROVE  IInv'
    <2>1. PICK want \in SUBSET Identity :
             client' = [client EXCEPT ![c] = [pc |-> "ask", base |-> db.head, want |-> want, safe |-> 0]]
      BY <1>8 DEF Ask
    <2>2. db.head \in Nat
      BY DEF IInv, Stores, Sound, IsStoreRecord
    <2>3. [pc |-> "ask", base |-> db.head, want |-> want, safe |-> 0] \in Request
      BY <2>2 DEF Request
    <2> QED BY <1>8, <2>1, <2>3, ClientStep
         DEF Ask, storeVars, recorderVars, boundVars, IInv, Stores
  <1>9. ASSUME NEW c \in Clients, Enter(c)
        PROVE  IInv'
    <2> DEFINE safe == IF clock < minuteStart THEN minuteStart + 1 ELSE clock + 1
               r == [client[c] EXCEPT !.pc = "tx", !.safe = safe]
    <2>1. safe \in Nat
      BY <1>m DEF IInv
    <2> HIDE DEF safe
    <2>2. r \in Request /\ r.pc = "tx" /\ r.want = client[c].want
      BY <1>r, <2>1 DEF Request
    <2>3. client' = [client EXCEPT ![c] = r]
      BY <1>9 DEF Enter, safe
    <2>4. \A i \in r.want : Selectable(i)
      BY <1>9, <2>2 DEF Enter
    <2> HIDE DEF r
    <2> QED BY <1>9, <2>2, <2>3, <2>4, ClientStep
         DEF Enter, storeVars, recorderVars, boundVars, IInv, Stores
  <1>10. ASSUME NEW c \in Clients, Fail(c)
         PROVE  IInv'
    BY <1>10, <1>i, ClientStep DEF Fail, storeVars, recorderVars, boundVars, IInv, Stores
  <1>11. ASSUME NEW c \in Clients, Replace(c)
         PROVE  IInv'
    <2> DEFINE ps == Profiles(client[c].want)
               new == Replaced(db, ps, client[c].safe)
    <2>1. /\ client[c].pc = "tx" /\ MayReplace(c)
          /\ \/ /\ Commits(new)
                /\ acked' = acked \cup {Answer(c, new.head)}
                /\ client' = [client EXCEPT ![c] = Idle]
             \/ /\ AckLost(new)
                /\ client' = [client EXCEPT ![c].pc = "ask", ![c].safe = 0]
                /\ UNCHANGED acked
          /\ UNCHANGED <<code, proc, clock, recorderVars>>
      BY <1>11 DEF Replace
    <2>2. Sound(db) /\ \A a \in acked : Keeps(db, a)
      BY DEF IInv, Stores
    <2>3. /\ ps \in SUBSET Semantics
          /\ \A p, q \in ps : p.identity = q.identity => p = q
      BY <2>1, ProfilesOfCode DEF IInv
    <2>4. \A p \in ps : ~Conflicting(db, p)
      BY <2>1 DEF MayReplace
    <2>5. client[c].safe \in Nat /\ clock \in Minute
      BY <1>r DEF IInv
    <2> HIDE DEF ps
    <2>6. /\ Sound(new)
          /\ new.revisions = Append(db.revisions,
                                    [base |-> db.head, from |-> EffectiveFrom(db, client[c].safe),
                                     members |-> ps])
          /\ new.head = Len(db.revisions) + 1
          /\ \A a : Keeps(db, a) => Keeps(new, a)
      BY <2>2, <2>3, <2>4, <2>5, ReplacedSound
    <2>7. Keeps(new, Answer(c, new.head))
      <3>1. Answer(c, new.head) = [base |-> db.head, profiles |-> ps, revision |-> new.head]
        BY <2>1 DEF Answer, MayReplace, ps
      <3>2. db.revisions \in Seq(Revision) /\ new.revisions \in Seq(Revision)
        BY <2>2, <2>6 DEF Sound, IsStoreRecord
      <3>3. new.head \in DOMAIN new.revisions
        BY <2>6 DEF Sound, IsStoreRecord
      <3> DEFINE top == [base |-> db.head, from |-> EffectiveFrom(db, client[c].safe), members |-> ps]
      <3> HIDE DEF new
      <3>4. top.base = db.head /\ top.members = ps
        OBVIOUS
      <3> HIDE DEF top
      <3>5. new.revisions[new.head] = top
        BY <2>6, <3>2 DEF top
      <3> QED BY <3>1, <3>3, <3>4, <3>5 DEF Keeps
    <2> HIDE DEF new
    <2>8. \A s \in Stores' : Sound(s) /\ \A a \in acked' : Keeps(s, a)
      BY <2>1, <2>6, <2>7, CommitsSound
    <2>9. /\ client' \in [Clients -> Request]
          /\ \A d \in Clients : client'[d].pc = "tx" => \A i \in client'[d].want : Selectable(i)'
      <3>1. CASE client' = [client EXCEPT ![c] = Idle]
        BY <1>i, <2>1, <3>1, ClientStep
      <3>2. CASE client' = [client EXCEPT ![c].pc = "ask", ![c].safe = 0]
        <4> DEFINE r == [client[c] EXCEPT !.pc = "ask", !.safe = 0]
        <4>1. r \in Request /\ r.pc = "ask"
          BY <1>r DEF Request
        <4>2. client' = [client EXCEPT ![c] = r]
          BY <3>2
        <4> HIDE DEF r
        <4> QED BY <2>1, <4>1, <4>2, ClientStep
      <3> QED BY <2>1, <3>1, <3>2
    <2> QED BY <2>1, <2>8, <2>9 DEF recorderVars, IInv
  <1>12. ASSUME NEW c \in Clients, Replay(c)
         PROVE  IInv'
    <2>1. Stores = {db} /\ Stores' = {db}
      BY <1>12 DEF Replay, Unlocked, Stores, storeVars
    <2>2. Sound(db) /\ \A a \in acked : Keeps(db, a)
      BY <2>1 DEF IInv
    <2>3. Keeps(db, Answer(c, db.head))
      BY <1>12, <2>2 DEF Replay, Replays, Answer, Keeps, Sound, IsStoreRecord
    <2>4. \A s \in Stores' : Sound(s) /\ \A a \in acked' : Keeps(s, a)
      BY <1>12, <2>1, <2>2, <2>3 DEF Replay
    <2> QED BY <1>12, <1>i, <2>4, ClientStep DEF Replay, recorderVars, IInv
  <1> QED BY <1>1, <1>2, <1>3, <1>4, <1>5, <1>6, <1>7, <1>8, <1>9, <1>10, <1>11, <1>12
       DEF Next, Put

\* Hence it holds of every state.
THEOREM ChainSafe == Spec => []IInv
  BY InitIInv, NextIInv, PTL DEF Spec

-----------------------------------------------------------------------------
(* What the runs check, for every value of the constants.                  *)

\* For any number of clients, deployments, restarts, lost answers and clock steps:
\* two PUTs from one base never both take effect and effective minutes never decrease
\* along the chain (replace_selection under lock_policy_head).
THEOREM ChainIsLinear == Spec => []ChainLinear
  <1>1. IInv => ChainLinear
    BY DEF IInv, Sound, Linear, ChainLinear
  <1> QED BY <1>1, ChainSafe, PTL

\* Whatever was deployed in between, one identity and profile version never gets two
\* meanings (resolve_series_id).
THEOREM VersionsMeanOneThing == Spec => []OneMeaningPerVersion
  <1>1. IInv => OneMeaningPerVersion
    BY DEF IInv, Sound, OneMeaning, OneMeaningPerVersion
  <1> QED BY <1>1, ChainSafe, PTL

\* A PUT answered with success is the child of the base it named and selects what it
\* asked for, also when an earlier attempt had been committed and its answer was lost
\* (replace_selection, idempotent_replay).
THEOREM AnswersAreOwn == Spec => []AcknowledgedIsOwn
  <1>1. IInv => AcknowledgedIsOwn
    BY DEF IInv, Stores, Keeps, AcknowledgedIsOwn
  <1> QED BY <1>1, ChainSafe, PTL

\* Without backward steps of the wall clock the open minute is never ahead of it.
LEMMA OpenMinuteBehind ==
  ASSUME MaxBackSteps = 0
  PROVE  Spec => [](minuteStart <= clock /\ backSteps = 0)
  <1> DEFINE Behind == minuteStart <= clock /\ backSteps = 0
  <1>1. Init => Behind
    BY DEF Init
  <1>2. ASSUME IInv, Behind, [Next]_vars
        PROVE  Behind'
    <2>m. clock \in Nat /\ minuteStart \in Nat
      BY <1>2, StoreAssumption DEF IInv, Minute
    <2>1. CASE Clock
      <3>1. PICK now \in Minute :
               /\ clock' = now
               /\ backSteps' = IF now < clock THEN backSteps + 1 ELSE backSteps
        BY <2>1 DEF Clock
      <3>2. now \in Nat
        BY StoreAssumption DEF Minute
      <3> QED BY <1>2, <2>1, <2>m, <3>1, <3>2 DEF Clock, recorderVars
    <2>2. CASE Close
      BY <1>2, <2>2, <2>m DEF Close, boundVars
    <2>3. CASE Restart
      <3>1. minuteStart' = clock /\ clock' = clock /\ backSteps' = backSteps
        BY <2>3 DEF Restart, boundVars
      <3> QED BY <1>2, <2>m, <3>1
    <2>4. CASE UNCHANGED <<clock, minuteStart, backSteps>>
      BY <1>2, <2>4
    <2>5. Persist \/ RollHour \/ Resolve \/ (\E c \in Clients : Put(c)) \/ UNCHANGED vars
             => UNCHANGED <<clock, minuteStart, backSteps>>
      BY DEF Persist, RollHour, Resolve, Put, Ask, Enter, Fail, Replace, Replay, Commits, AckLost,
             recorderVars, boundVars, vars
    <2> QED BY <1>2, <2>1, <2>2, <2>3, <2>4, <2>5 DEF Next
  <1> QED BY <1>1, <1>2, ChainSafe, PTL DEF Spec

\* However long a PUT waits for the policy-head lock, what it decides is effective
\* after every minute closed or opened by then (resolve_effective_from_minute reads
\* the clock under the lock), if the wall clock never steps back.
THEOREM EffectiveAfterTheOpenMinute ==
  ASSUME MaxBackSteps = 0
  PROVE  Spec => EffectiveIsFuture
  <1> DEFINE Future(s) == s.head # db.head /\ db.head \in DOMAIN s.revisions =>
                              minuteStart < s.revisions[s.head].from
             Behind == minuteStart <= clock /\ backSteps = 0
  <1>1. ASSUME IInv, Behind, [Next]_vars
        PROVE  \A s \in (Stores' \ Stores) : Future(s)
    <2>1. ASSUME NEW new, Commits(new) \/ AckLost(new), Future(new)
          PROVE  \A s \in (Stores' \ Stores) : Future(s)
      <3>1. Stores' \ Stores \subseteq {new}
        BY <2>1 DEF Commits, AckLost, Unlocked, Stores
      <3> HIDE DEF Future
      <3> QED BY <2>1, <3>1
    <2>2. Unlocked => Sound(db)
      BY <1>1 DEF IInv, Stores
    <2>3. CASE Stores' \subseteq Stores
      BY <2>3
    <2>4. CASE Persist
      <3>1. PICK last \in DOMAIN queue :
               LET rows == {m \in DOMAIN queue : m <= last}
               IN  Commits(Recorded(db, rows)) \/ AckLost(Recorded(db, rows))
        BY <2>4 DEF Persist
      <3> DEFINE rows == {m \in DOMAIN queue : m <= last}
      <3>2. Commits(Recorded(db, rows)) \/ AckLost(Recorded(db, rows))
        BY <3>1
      <3>3. Unlocked /\ rows \in SUBSET Minute
        BY <1>1, <3>2 DEF Commits, AckLost, IInv
      <3> HIDE DEF rows
      <3>4. Recorded(db, rows).head = db.head
        BY <2>2, <3>3, RecordedSound
      <3> QED BY <2>1, <3>2, <3>4
    <2>5. CASE RollHour
      <3>1. PICK h \in HoursOf(DOMAIN db.raw) : Commits(Rebuilt(db, {h}))
        BY <2>5 DEF RollHour
      <3>2. Rebuilt(db, {h}).head = db.head
        BY <2>2, <3>1, RebuiltSound DEF Commits
      <3> QED BY <2>1, <3>1, <3>2
    <2>6. ASSUME NEW c \in Clients, Replace(c)
          PROVE  \A s \in (Stores' \ Stores) : Future(s)
      <3> DEFINE ps == Profiles(client[c].want)
                 new == Replaced(db, ps, client[c].safe)
                 from == EffectiveFrom(db, client[c].safe)
                 top == [base |-> db.head, from |-> from, members |-> ps]
      <3>1. (Commits(new) \/ AckLost(new)) /\ client[c].pc = "tx" /\ MayReplace(c)
        BY <2>6 DEF Replace
      <3>2. Sound(db) /\ client[c] \in Request /\ clock \in Minute
        BY <1>1, <2>2, <3>1 DEF Commits, AckLost, IInv
      <3>3. client[c].safe \in Nat
        BY <3>2 DEF Request
      <3>4. /\ ps \in SUBSET Semantics
            /\ \A p, q \in ps : p.identity = q.identity => p = q
        BY <1>1, <3>1, ProfilesOfCode DEF IInv
      <3>5. \A p \in ps : ~Conflicting(db, p)
        BY <3>1 DEF MayReplace
      <3> HIDE DEF ps
      <3>6. /\ new.revisions = Append(db.revisions, top)
            /\ new.head = Len(db.revisions) + 1
        BY <3>2, <3>3, <3>4, <3>5, ReplacedSound
      <3>7. from \in Nat /\ clock + 1 <= from
        BY <3>2, <3>3, EffectiveFromLater DEF Sound
      <3>8. top.from = from
        OBVIOUS
      <3> HIDE DEF new, from, top
      <3>9. new.revisions[new.head] = top
        BY <3>2, <3>6 DEF Sound, IsStoreRecord
      <3>10. clock \in Nat /\ minuteStart \in Nat
        BY <1>1, StoreAssumption DEF IInv, Minute
      <3>11. minuteStart < from
        BY <1>1, <3>7, <3>10
      <3> QED BY <2>1, <3>1, <3>8, <3>9, <3>11
    <2>7. Clock \/ Close \/ Resolve \/ Restart \/ UNCHANGED vars => Stores' \subseteq Stores
      BY DEF Clock, Close, Resolve, Restart, vars, storeVars, Stores
    <2>8. ASSUME NEW c \in Clients, Ask(c) \/ Enter(c) \/ Fail(c) \/ Replay(c)
          PROVE  Stores' \subseteq Stores
      BY <2>8 DEF Ask, Enter, Fail, Replay, storeVars, Stores
    <2> QED BY <1>1, <2>3, <2>4, <2>5, <2>6, <2>7, <2>8 DEF Next, Put
  <1> QED BY <1>1, ChainSafe, OpenMinuteBehind, PTL DEF Spec, EffectiveIsFuture

-----------------------------------------------------------------------------
(* Which revision governs a minute.                                        *)
(*                                                                         *)
(* GoverningRevision is a function defined along the bases.  Along a       *)
(* linear chain it is the last revision that is effective at the minute,   *)
(* or the genesis: that function solves the recursive equation, and any    *)
(* solution agrees with it, since a least disagreement would have an       *)
(* earlier one below it.                                                   *)

Ends(s, ts, r) == s.revisions[r].from <= ts \/ s.revisions[r].base = NoBase

\* "back" follows the bases as GoverningRevision does.
Walk(s, ts, back) ==
    back = [r \in DOMAIN s.revisions |-> IF Ends(s, ts, r) THEN r ELSE back[s.revisions[r].base]]

\* g is the last revision up to "top" where the walk may end.
Stops(s, ts, top, g) ==
    /\ g \in DOMAIN s.revisions /\ g <= top /\ Ends(s, ts, g)
    /\ \A k \in DOMAIN s.revisions : g < k /\ k <= top => ~Ends(s, ts, k)

Governs(s, ts, g) == Stops(s, ts, s.head, g)

\* The ids of a linear chain are 1 to its length, and each base is the id before.
LEMMA ChainIds ==
  ASSUME NEW s, Sound(s)
  PROVE  /\ Len(s.revisions) \in Nat \ {0}
         /\ DOMAIN s.revisions = 1 .. Len(s.revisions)
         /\ s.head = Len(s.revisions)
         /\ \A r \in DOMAIN s.revisions :
               /\ r \in Nat /\ 1 <= r /\ r <= s.head
               /\ s.revisions[r].base = r - 1
               /\ s.revisions[r].base = NoBase <=> r = 1
               /\ r # 1 => r - 1 \in DOMAIN s.revisions
  <1>1. /\ Len(s.revisions) \in Nat /\ DOMAIN s.revisions = 1 .. Len(s.revisions)
        /\ s.head \in DOMAIN s.revisions /\ s.head = Len(s.revisions)
    BY DEF Sound, IsStoreRecord, Linear
  <1>2. \A r \in DOMAIN s.revisions : s.revisions[r].base = r - 1
    BY DEF Sound, Linear
  <1> QED BY <1>1, <1>2 DEF NoBase

LEMMA StopsOnce ==
  ASSUME NEW s, Sound(s), NEW ts, NEW top, NEW g, NEW h,
         Stops(s, ts, top, g), Stops(s, ts, top, h)
  PROVE  g = h
  <1>1. g \in Nat /\ h \in Nat
    BY ChainIds DEF Stops
  <1>2. ~(g < h) /\ ~(h < g)
    BY DEF Stops
  <1> QED BY <1>1, <1>2

\* Below every revision there is one where the walk ends: the genesis at the latest.
LEMMA StopsSomewhere ==
  ASSUME NEW s, Sound(s), NEW ts, NEW top \in DOMAIN s.revisions
  PROVE  \E g : Stops(s, ts, top, g)
  <1> DEFINE T == {g \in DOMAIN s.revisions : g <= top /\ Ends(s, ts, g)}
             n == Len(s.revisions)
  <1>1. n \in Nat /\ DOMAIN s.revisions = 1 .. n /\ n # 0 /\ top \in Nat /\ 1 <= top
    BY ChainIds
  <1>2. 1 \in DOMAIN s.revisions
    BY <1>1
  <1>3. Ends(s, ts, 1)
    BY <1>2, ChainIds DEF Ends
  <1>4. 1 \in T
    BY <1>1, <1>2, <1>3
  <1>5. T \subseteq 0 .. n
    BY <1>1
  <1> HIDE DEF T
  <1>6. PICK g \in T : \A y \in T : y <= g
    BY <1>1, <1>4, <1>5, GreatestNat
  <1>7. g \in DOMAIN s.revisions /\ g <= top /\ Ends(s, ts, g)
    BY <1>6 DEF T
  <1>8. ASSUME NEW k \in DOMAIN s.revisions, g < k, k <= top
        PROVE  ~Ends(s, ts, k)
    <2>1. k \in Nat /\ g \in Nat
      BY <1>7, ChainIds
    <2>2. k \notin T
      BY <1>6, <1>8, <2>1
    <2> QED BY <1>8, <2>2 DEF T
  <1> QED BY <1>7, <1>8 DEF Stops

\* One revision further up, the walk ends there or where it ended before.
LEMMA StopsBelow ==
  ASSUME NEW s, Sound(s), NEW ts, NEW r \in DOMAIN s.revisions, NEW g
  PROVE  /\ Ends(s, ts, r) => Stops(s, ts, r, r)
         /\ ~Ends(s, ts, r) => (Stops(s, ts, r - 1, g) <=> Stops(s, ts, r, g))
  <1>1. \A k \in DOMAIN s.revisions : k \in Nat
    BY ChainIds
  <1>2. CASE Ends(s, ts, r)
    BY <1>1, <1>2 DEF Stops
  <1>3. CASE ~Ends(s, ts, r)
    <2>1. ASSUME Stops(s, ts, r - 1, g)
          PROVE  Stops(s, ts, r, g)
      <3>1. g \in DOMAIN s.revisions /\ g <= r /\ Ends(s, ts, g)
        BY <1>1, <2>1 DEF Stops
      <3>2. ASSUME NEW k \in DOMAIN s.revisions, g < k, k <= r
            PROVE  ~Ends(s, ts, k)
        <4>1. CASE k = r
          BY <1>3, <4>1
        <4>2. CASE k <= r - 1
          BY <2>1, <3>2, <4>2 DEF Stops
        <4> QED BY <1>1, <3>2, <4>1, <4>2
      <3> QED BY <3>1, <3>2 DEF Stops
    <2>2. ASSUME Stops(s, ts, r, g)
          PROVE  Stops(s, ts, r - 1, g)
      <3>1. g \in DOMAIN s.revisions /\ Ends(s, ts, g) /\ g <= r
        BY <2>2 DEF Stops
      <3>2. g # r
        BY <1>3, <3>1
      <3>3. g <= r - 1
        BY <1>1, <3>1, <3>2
      <3>4. \A k \in DOMAIN s.revisions : k <= r - 1 => k <= r
        BY <1>1
      <3> QED BY <2>2, <3>1, <3>3, <3>4 DEF Stops
    <2> QED BY <1>3, <2>1, <2>2
  <1> QED BY <1>2, <1>3

\* The walk exists, and from every revision it reaches the one it stops at.
LEMMA WalkReaches ==
  ASSUME NEW s, Sound(s), NEW ts
  PROVE  /\ \E back : Walk(s, ts, back)
         /\ \A back : Walk(s, ts, back) =>
               \A r \in DOMAIN s.revisions : Stops(s, ts, r, back[r])
  <1> DEFINE D == DOMAIN s.revisions
             At(r) == CHOOSE g : Stops(s, ts, r, g)
             direct == [r \in D |-> At(r)]
  <1>1. \A r \in D : Stops(s, ts, r, At(r))
    BY StopsSomewhere
  <1>2. \A r \in D : /\ r \in Nat
                     /\ s.revisions[r].base = r - 1
                     /\ ~Ends(s, ts, r) => r - 1 \in D
    BY ChainIds DEF Ends
  <1> HIDE DEF At
  <1>3. \A r \in D : At(r) = IF Ends(s, ts, r) THEN r ELSE direct[s.revisions[r].base]
    <2> SUFFICES ASSUME NEW r \in D
                 PROVE  At(r) = IF Ends(s, ts, r) THEN r ELSE direct[s.revisions[r].base]
      OBVIOUS
    <2>1. CASE Ends(s, ts, r)
      <3>1. Stops(s, ts, r, r)
        BY <2>1, StopsBelow
      <3>2. At(r) = r
        BY <1>1, <3>1, StopsOnce
      <3> QED BY <2>1, <3>2
    <2>2. CASE ~Ends(s, ts, r)
      <3>1. r - 1 \in D /\ direct[s.revisions[r].base] = At(r - 1)
        BY <1>2, <2>2
      <3>2. Stops(s, ts, r, At(r - 1))
        BY <1>1, <2>2, <3>1, StopsBelow
      <3>3. At(r) = At(r - 1)
        BY <1>1, <3>2, StopsOnce
      <3> QED BY <2>2, <3>1, <3>3
    <2> QED BY <2>1, <2>2
  <1>4. Walk(s, ts, direct)
    BY <1>3, Zenon DEF Walk
  <1>5. ASSUME NEW back, Walk(s, ts, back)
        PROVE  \A r \in D : Stops(s, ts, r, back[r])
    <2> DEFINE Astray == {r \in D : ~Stops(s, ts, r, back[r])}
    <2>1. Astray \subseteq Nat
      BY <1>2
    <2>2. ASSUME Astray # {}
          PROVE  FALSE
      <3> HIDE DEF Astray
      <3>1. PICK r \in Astray : \A q \in Astray : r <= q
        BY <2>1, <2>2, LeastNat
      <3>2. r \in D /\ ~Stops(s, ts, r, back[r])
        BY <3>1 DEF Astray
      <3>3. back[r] = IF Ends(s, ts, r) THEN r ELSE back[s.revisions[r].base]
        BY <1>5, <3>2, Zenon DEF Walk
      <3>4. ~Ends(s, ts, r)
        BY <3>2, <3>3, StopsBelow
      <3>5. back[r] = back[r - 1] /\ r - 1 \in D /\ r \in Nat
        BY <1>2, <3>2, <3>3, <3>4
      <3>6. r - 1 \notin Astray
        BY <1>2, <3>1, <3>5
      <3>7. Stops(s, ts, r - 1, back[r - 1])
        BY <3>5, <3>6 DEF Astray
      <3> QED BY <3>2, <3>4, <3>5, <3>7, StopsBelow
    <2> QED BY <2>2
  <1> QED BY <1>4, <1>5

\* GoverningRevision is the last revision that is effective at the minute.
LEMMA GoverningStops ==
  ASSUME NEW s, Sound(s), NEW ts
  PROVE  Governs(s, ts, GoverningRevision(s, ts))
  <1> DEFINE back == CHOOSE f : Walk(s, ts, f)
  <1>1. GoverningRevision(s, ts) = back[s.head]
    BY DEF GoverningRevision, Walk, Ends
  <1>2. Walk(s, ts, back)
    BY WalkReaches
  <1>3. s.head \in DOMAIN s.revisions
    BY DEF Sound, IsStoreRecord
  <1> QED BY <1>1, <1>2, <1>3, WalkReaches DEF Governs

\* What governs is a matter of the chain alone.
LEMMA SameChain ==
  ASSUME NEW s, Sound(s), NEW t, Sound(t), t.revisions = s.revisions, NEW ts
  PROVE  Governing(t, ts) = Governing(s, ts)
  <1> DEFINE g == GoverningRevision(s, ts)
             h == GoverningRevision(t, ts)
  <1>1. t.head = s.head
    BY ChainIds
  <1>2. Governs(s, ts, g) /\ Governs(t, ts, h)
    BY GoverningStops
  <1>3. Governs(s, ts, h)
    BY <1>1, <1>2 DEF Governs, Stops, Ends
  <1>4. g = h
    BY <1>2, <1>3, StopsOnce DEF Governs
  <1> QED BY <1>4 DEF Governing

\* A revision that is effective later than a minute leaves it governed as before.
LEMMA LaterRevisionSpares ==
  ASSUME NEW s, Sound(s), NEW t, Sound(t), NEW top \in Revision,
         t.revisions = Append(s.revisions, top), NEW ts \in Nat, ts < top.from
  PROVE  Governing(t, ts) = Governing(s, ts)
  <1> DEFINE n == Len(s.revisions)
             g == GoverningRevision(s, ts)
             h == GoverningRevision(t, ts)
  <1>0. s.revisions \in Seq(Revision)
    BY DEF Sound, IsStoreRecord
  <1>1. /\ n \in Nat \ {0} /\ DOMAIN s.revisions = 1 .. n /\ s.head = n
        /\ DOMAIN t.revisions = 1 .. (n + 1) /\ t.head = n + 1
        /\ t.revisions[n + 1] = top
        /\ \A r \in 1 .. n : t.revisions[r] = s.revisions[r]
    BY <1>0, ChainIds
  <1>2. Governs(s, ts, g) /\ Governs(t, ts, h)
    BY GoverningStops
  <1>3. \A r \in 1 .. n : Ends(t, ts, r) <=> Ends(s, ts, r)
    BY <1>1 DEF Ends
  <1>4. ~Ends(t, ts, n + 1)
    <2>1. top.from \in Nat
      BY DEF Revision
    <2>2. n + 1 \in DOMAIN t.revisions /\ n + 1 # 1
      BY <1>1
    <2>3. t.revisions[n + 1].base # NoBase
      BY <2>2, ChainIds
    <2> QED BY <1>1, <2>1, <2>3 DEF Ends
  <1>5. Stops(t, ts, n, h)
    <2>1. n + 1 \in DOMAIN t.revisions /\ (n + 1) - 1 = n
      BY <1>1
    <2> QED BY <1>1, <1>2, <1>4, <2>1, StopsBelow DEF Governs
  <1> HIDE DEF h, g
  <1>6. Stops(s, ts, n, h)
    <2>1. h \in 1 .. n
      BY <1>1, <1>5 DEF Stops
    <2>2. \A k \in 1 .. n : k \in 1 .. (n + 1)
      BY <1>1
    <2> QED BY <1>1, <1>3, <1>5, <2>1, <2>2 DEF Stops
  <1>7. g = h /\ h \in 1 .. n
    BY <1>1, <1>2, <1>6, StopsOnce DEF Governs, Stops
  <1> QED BY <1>1, <1>7 DEF Governing, g, h

\* Every stored minute is before the effective minute of a new revision.
LEMMA EffectiveAfterStored ==
  ASSUME NEW s, IsStoreRecord(s), NEW safe \in Nat, clock \in Minute, NEW m \in DOMAIN s.raw
  PROVE  m < EffectiveFrom(s, safe)
  <1>1. DOMAIN s.raw \subseteq 0 .. MaxMinute /\ MaxMinute \in Nat
    BY StoreAssumption DEF IsStoreRecord, Minute
  <1>2. PICK n \in DOMAIN s.raw : \A k \in DOMAIN s.raw : k <= n
    BY <1>1, GreatestNat
  <1>3. n \in Latest(DOMAIN s.raw)
    BY <1>2 DEF Latest
  <1>4. n + 1 <= EffectiveFrom(s, safe) /\ EffectiveFrom(s, safe) \in Nat
    BY <1>3, EffectiveFromLater
  <1>5. m <= n /\ m \in Nat /\ n \in Nat
    BY <1>1, <1>2
  <1> QED BY <1>4, <1>5

\* Whatever minute is stored keeps its selection when the selection is replaced.
LEMMA ReplacedSpares ==
  ASSUME NEW s, Sound(s), NEW ps \in SUBSET Semantics, NEW safe \in Nat, clock \in Minute,
         \A p \in ps : ~Conflicting(s, p),
         \A p, q \in ps : p.identity = q.identity => p = q,
         NEW m \in DOMAIN s.raw
  PROVE  Governing(Replaced(s, ps, safe), m) = Governing(s, m)
  <1> DEFINE new == Replaced(s, ps, safe)
             top == [base |-> s.head, from |-> EffectiveFrom(s, safe), members |-> ps]
  <1>1. Sound(new) /\ new.revisions = Append(s.revisions, top)
    BY ReplacedSound
  <1>2. top \in Revision
    BY EffectiveFromLater, ChainIds DEF Revision, Sound
  <1>3. m \in Nat /\ m < top.from
    BY EffectiveAfterStored, StoreAssumption DEF Sound, IsStoreRecord, Minute
  <1> HIDE DEF new, top
  <1>4. Governing(new, m) = Governing(s, m)
    BY <1>1, <1>2, <1>3, LaterRevisionSpares
  <1> QED BY <1>4 DEF new

-----------------------------------------------------------------------------
(* Documents and rollups under the chain.                                  *)

\* Values of selected series that mean what the series says, for every stored minute.
Documented(s) ==
    \A m \in DOMAIN s.raw :
        /\ DOMAIN s.raw[m] \subseteq Governing(s, m)
        /\ \A row \in DOMAIN s.raw[m] : s.raw[m][row] = row

\* Every rolled hour outside "hours" is what its minutes and the chain give today.
RolledOutside(s, hours) ==
    /\ DOMAIN s.rolled \subseteq Hour
    /\ \A h \in DOMAIN s.rolled \ hours : s.rolled[h] = OptionalHour(s, h)

Kept(s) == Documented(s) /\ RolledOutside(s, {})

\* Store t governs every minute stored in s as s does.
Spares(s, t) == \A m \in DOMAIN s.raw : Governing(t, m) = Governing(s, m)

\* A transaction in doubt was decided on the store that is still committed, and spares
\* its minutes: when it commits after all, no stored selection changes.
KInv ==
    /\ \A s \in Stores : Kept(s)
    /\ \A s \in inDoubt : Spares(db, s)

\* Two stores with the same minutes in an hour, governed alike, fold to the same rollup.
LEMMA SameHour ==
  ASSUME NEW s, NEW t, NEW h,
         \A m : HourOf(m) = h => (m \in DOMAIN s.raw <=> m \in DOMAIN t.raw),
         \A m \in DOMAIN s.raw : HourOf(m) = h =>
             t.raw[m] = s.raw[m] /\ Governing(t, m) = Governing(s, m)
  PROVE  OptionalHour(t, h) = OptionalHour(s, h)
  <1> DEFINE ms == {k \in DOMAIN s.raw : HourOf(k) = h}
             mt == {k \in DOMAIN t.raw : HourOf(k) = h}
  <1>1. ms = mt
    OBVIOUS
  <1>2. \A m \in ms : /\ m \in DOMAIN s.raw /\ HourOf(m) = h
                      /\ t.raw[m] = s.raw[m] /\ Governing(t, m) = Governing(s, m)
    OBVIOUS
  <1>3. OptionalHour(s, h) = [m \in ms |-> [selected |-> Governing(s, m), known |-> s.raw[m]]]
    BY DEF OptionalHour
  <1>4. OptionalHour(t, h) = [m \in mt |-> [selected |-> Governing(t, m), known |-> t.raw[m]]]
    BY DEF OptionalHour
  <1> HIDE DEF ms, mt
  <1>5. [m \in mt |-> [selected |-> Governing(t, m), known |-> t.raw[m]]]
          = [m \in ms |-> [selected |-> Governing(s, m), known |-> s.raw[m]]]
    BY <1>1, <1>2
  <1> QED BY <1>3, <1>4, <1>5

\* Rebuilding hours keeps what it does not rebuild, and makes the rest right.
LEMMA RebuiltKept ==
  ASSUME NEW s, Sound(s), Documented(s), NEW hours \in SUBSET Hour, RolledOutside(s, hours)
  PROVE  Kept(Rebuilt(s, hours)) /\ Spares(s, Rebuilt(s, hours))
  <1> DEFINE rolled == Over([h \in hours |-> OptionalHour(s, h)], s.rolled)
             new == Rebuilt(s, hours)
  <1>1. /\ new.revisions = s.revisions /\ new.raw = s.raw /\ new.rolled = rolled
        /\ Sound(new)
    BY RebuiltSound DEF Rebuilt, Sound, IsStoreRecord
  <1>2. /\ DOMAIN rolled = hours \cup DOMAIN s.rolled
        /\ \A h \in hours : rolled[h] = OptionalHour(s, h)
        /\ \A h \in DOMAIN s.rolled \ hours : rolled[h] = s.rolled[h]
    BY DEF Over
  <1> HIDE DEF new, rolled
  <1>3. \A m : Governing(new, m) = Governing(s, m)
    BY <1>1, SameChain
  <1>4. \A h : OptionalHour(new, h) = OptionalHour(s, h)
    BY <1>1, <1>3, SameHour
  <1>5. Documented(new)
    BY <1>1, <1>3 DEF Documented
  <1>6. RolledOutside(new, {})
    BY <1>1, <1>2, <1>4 DEF RolledOutside
  <1>7. Spares(s, new)
    BY <1>3 DEF Spares
  <1> QED BY <1>5, <1>6, <1>7 DEF Kept, new

\* Recording minutes writes documents of selected series that mean what they say, and
\* rebuilds every rolled hour they touch.
LEMMA RecordedKept ==
  ASSUME NEW s, Sound(s), Kept(s), NEW rows \in SUBSET Minute
  PROVE  Kept(Recorded(s, rows)) /\ Spares(s, Recorded(s, rows))
  <1> DEFINE raw == Over([m \in rows |-> Document(s, m)], s.raw)
             stored == [s EXCEPT !.raw = raw]
             hours == HoursOf(rows) \cap {h \in Hour : \E r \in DOMAIN s.rolled : h <= r}
  <1>1. /\ DOMAIN raw = rows \cup DOMAIN s.raw
        /\ \A m \in rows : raw[m] = Document(s, m)
        /\ \A m \in DOMAIN s.raw \ rows : raw[m] = s.raw[m]
    BY DEF Over
  <1> HIDE DEF raw
  <1>2. /\ stored = [revisions |-> s.revisions, head |-> s.head, series |-> s.series,
                     raw |-> raw, rolled |-> s.rolled]
        /\ DOMAIN raw \subseteq Minute
    BY <1>1 DEF Sound, IsStoreRecord
  <1>3. Recorded(s, rows) = Rebuilt(stored, hours)
    BY DEF Recorded, raw
  <1> HIDE DEF stored
  <1>4. Sound(stored)
    BY <1>2, WriteSound
  <1>5. /\ stored.raw = raw /\ stored.rolled = s.rolled /\ stored.revisions = s.revisions
    BY <1>2
  <1>6. \A m : Governing(stored, m) = Governing(s, m)
    BY <1>4, <1>5, SameChain
  <1>7. ASSUME NEW m
        PROVE  /\ DOMAIN Document(s, m) \subseteq Governing(s, m)
               /\ \A row \in DOMAIN Document(s, m) : Document(s, m)[row] = row
    <2> DEFINE known == {row \in Governing(s, m) : ~Drifted(row) /\ row.identity \in queue[m]}
    <2>1. Document(s, m) = [row \in known |-> code.profile[row.identity]]
      BY DEF Document
    <2>2. \A row \in known : row \in Governing(s, m) /\ code.profile[row.identity] = row
      BY DEF Drifted
    <2> HIDE DEF known
    <2> QED BY <2>1, <2>2
  <1>8. Documented(stored)
    <2> SUFFICES ASSUME NEW m \in DOMAIN raw
                 PROVE  /\ DOMAIN raw[m] \subseteq Governing(s, m)
                        /\ \A row \in DOMAIN raw[m] : raw[m][row] = row
      BY <1>5, <1>6 DEF Documented
    <2>1. CASE m \in rows
      BY <1>1, <1>7, <2>1
    <2>2. CASE m \in DOMAIN s.raw \ rows
      BY <1>1, <2>2 DEF Kept, Documented
    <2> QED BY <1>1, <2>1, <2>2
  <1>9. RolledOutside(stored, hours)
    <2>1. DOMAIN s.rolled \subseteq Hour /\ \A h \in DOMAIN s.rolled : s.rolled[h] = OptionalHour(s, h)
      BY DEF Kept, RolledOutside
    <2> SUFFICES ASSUME NEW h \in DOMAIN s.rolled, h \notin hours
                 PROVE  OptionalHour(stored, h) = OptionalHour(s, h)
      BY <1>5, <2>1 DEF RolledOutside
    <2>2. h \in Hour /\ h <= h
      BY <2>1 DEF Hour
    <2>3. \A m \in rows : HourOf(m) # h
      BY <2>2 DEF HoursOf
    <2> HIDE DEF hours
    <2>4. \A m : HourOf(m) = h => (m \in DOMAIN s.raw <=> m \in DOMAIN stored.raw)
      BY <1>1, <1>5, <2>3
    <2>5. \A m \in DOMAIN s.raw : HourOf(m) = h =>
             stored.raw[m] = s.raw[m] /\ Governing(stored, m) = Governing(s, m)
      BY <1>1, <1>5, <1>6, <2>3
    <2> QED BY <2>4, <2>5, SameHour
  <1>10. hours \in SUBSET Hour
    OBVIOUS
  <1> HIDE DEF hours
  <1>11. Kept(Rebuilt(stored, hours)) /\ Spares(stored, Rebuilt(stored, hours))
    BY <1>4, <1>8, <1>9, <1>10, RebuiltKept
  <1>12. Spares(s, Rebuilt(stored, hours))
    BY <1>1, <1>5, <1>6, <1>11 DEF Spares
  <1> QED BY <1>3, <1>11, <1>12

\* A replacement leaves minutes and hours as they are, and their selection too.
LEMMA ReplacedKept ==
  ASSUME NEW s, Sound(s), Kept(s), NEW ps \in SUBSET Semantics, NEW safe \in Nat, clock \in Minute,
         \A p \in ps : ~Conflicting(s, p),
         \A p, q \in ps : p.identity = q.identity => p = q
  PROVE  Kept(Replaced(s, ps, safe)) /\ Spares(s, Replaced(s, ps, safe))
  <1> DEFINE new == Replaced(s, ps, safe)
  <1>1. new.raw = s.raw /\ new.rolled = s.rolled
    BY DEF Replaced, Sound, IsStoreRecord
  <1>2. \A m \in DOMAIN s.raw : Governing(new, m) = Governing(s, m)
    BY ReplacedSpares
  <1> HIDE DEF new
  <1>3. \A h : OptionalHour(new, h) = OptionalHour(s, h)
    BY <1>1, <1>2, SameHour
  <1>4. Documented(new) /\ RolledOutside(new, {})
    BY <1>1, <1>2, <1>3 DEF Kept, Documented, RolledOutside
  <1> QED BY <1>2, <1>4 DEF Kept, Spares, new

\* A step leaves the stores alone, resolves a transaction in doubt, or commits or loses
\* the answer of one transaction, which keeps documents, rollups and selections.
LEMMA OneTransaction ==
  ASSUME IInv, KInv, [Next]_vars
  PROVE  \/ UNCHANGED storeVars
         \/ Resolve
         \/ \E new : /\ Commits(new) \/ AckLost(new)
                     /\ Kept(new) /\ Spares(db, new)
  <1>0. Sound(db) /\ Kept(db)
    BY DEF IInv, KInv, Stores
  <1>1. CASE Persist
    <2>1. PICK last \in DOMAIN queue :
             LET rows == {m \in DOMAIN queue : m <= last}
             IN  Commits(Recorded(db, rows)) \/ AckLost(Recorded(db, rows))
      BY <1>1 DEF Persist
    <2> DEFINE rows == {m \in DOMAIN queue : m <= last}
    <2>2. Commits(Recorded(db, rows)) \/ AckLost(Recorded(db, rows))
      BY <2>1
    <2>3. rows \in SUBSET Minute
      BY DEF IInv
    <2> HIDE DEF rows
    <2>4. Kept(Recorded(db, rows)) /\ Spares(db, Recorded(db, rows))
      BY <1>0, <2>3, RecordedKept
    <2> QED BY <2>2, <2>4
  <1>2. CASE RollHour
    <2>1. PICK h \in HoursOf(DOMAIN db.raw) : Commits(Rebuilt(db, {h}))
      BY <1>2 DEF RollHour
    <2>2. {h} \in SUBSET Hour
      BY <1>0, HoursOfMinutes DEF Sound, IsStoreRecord
    <2>3. Documented(db) /\ RolledOutside(db, {h})
      BY <1>0 DEF Kept, RolledOutside
    <2>4. Kept(Rebuilt(db, {h})) /\ Spares(db, Rebuilt(db, {h}))
      BY <1>0, <2>2, <2>3, RebuiltKept
    <2> QED BY <2>1, <2>4
  <1>3. ASSUME NEW c \in Clients, Replace(c)
        PROVE  \E new : /\ Commits(new) \/ AckLost(new)
                        /\ Kept(new) /\ Spares(db, new)
    <2> DEFINE ps == Profiles(client[c].want)
               new == Replaced(db, ps, client[c].safe)
    <2>1. (Commits(new) \/ AckLost(new)) /\ client[c].pc = "tx" /\ MayReplace(c)
      BY <1>3 DEF Replace
    <2>2. client[c].safe \in Nat /\ clock \in Minute
      BY DEF IInv, Request
    <2>3. /\ ps \in SUBSET Semantics
          /\ \A p, q \in ps : p.identity = q.identity => p = q
      BY <2>1, ProfilesOfCode DEF IInv
    <2>4. \A p \in ps : ~Conflicting(db, p)
      BY <2>1 DEF MayReplace
    <2> HIDE DEF ps
    <2>5. Kept(new) /\ Spares(db, new)
      BY <1>0, <2>2, <2>3, <2>4, ReplacedKept
    <2> QED BY <2>1, <2>5
  <1>4. Clock \/ Close \/ Restart \/ UNCHANGED vars => UNCHANGED storeVars
    BY DEF Clock, Close, Restart, vars
  <1>5. ASSUME NEW c \in Clients, Ask(c) \/ Enter(c) \/ Fail(c) \/ Replay(c)
        PROVE  UNCHANGED storeVars
    BY <1>5 DEF Ask, Enter, Fail, Replay
  <1> QED BY <1>1, <1>2, <1>3, <1>4, <1>5 DEF Next, Put

LEMMA InitKInv == Init => KInv
  <1> SUFFICES ASSUME Init
               PROVE  KInv
    OBVIOUS
  <1>1. Stores = {db} /\ inDoubt = {} /\ DOMAIN db.raw = {} /\ DOMAIN db.rolled = {}
    BY DEF Init, Stores
  <1> QED BY <1>1 DEF KInv, Kept, Documented, RolledOutside

\* The committed store changes to one that spares its minutes: at once, or when the
\* transaction in doubt, decided on the same store, commits after all.
LEMMA NextKInv ==
  ASSUME IInv, KInv, [Next]_vars
  PROVE  KInv' /\ Spares(db, db')
  <1>0. Spares(db, db)
    BY DEF Spares
  <1>1. CASE UNCHANGED storeVars
    BY <1>0, <1>1 DEF storeVars, KInv, Stores
  <1>2. CASE Resolve
    <2>1. PICK new \in inDoubt : db' \in {db, new} /\ inDoubt' = {}
      BY <1>2 DEF Resolve
    <2>2. Spares(db, db')
      BY <1>0, <2>1 DEF KInv
    <2>3. Stores' \subseteq Stores
      BY <2>1 DEF Stores
    <2> QED BY <2>1, <2>2, <2>3 DEF KInv
  <1>3. CASE \E new : (Commits(new) \/ AckLost(new)) /\ Kept(new) /\ Spares(db, new)
    <2>1. PICK new : (Commits(new) \/ AckLost(new)) /\ Kept(new) /\ Spares(db, new)
      BY <1>3
    <2>2. /\ db' \in {db, new}
          /\ inDoubt' = {} \/ (inDoubt' = {new} /\ db' = db)
      BY <2>1 DEF Commits, AckLost, Unlocked
    <2>3. Stores' \subseteq {db, new}
      BY <2>2 DEF Stores
    <2>4. Kept(db)
      BY DEF KInv, Stores
    <2>5. \A s \in Stores' : Kept(s)
      BY <2>1, <2>3, <2>4
    <2>6. \A s \in inDoubt' : Spares(db', s)
      BY <2>1, <2>2
    <2>7. Spares(db, db')
      BY <1>0, <2>1, <2>2
    <2> QED BY <2>5, <2>6, <2>7 DEF KInv
  <1> QED BY <1>1, <1>2, <1>3, OneTransaction

LEMMA SelectionsKept == Spec => [](IInv /\ KInv)
  <1>1. IInv /\ KInv /\ [Next]_vars => IInv' /\ KInv'
    BY NextIInv, NextKInv
  <1> QED BY <1>1, InitIInv, InitKInv, PTL DEF Spec

\* Whatever was deployed, selected, retried or lost, a minute's document has values of
\* series its selection names, so that fold_optional_minutes raises
\* OptionalHistoryInconsistent on no stored minute.
THEOREM DocumentsAreSelected == Spec => []DocumentsSelected
  <1>1. KInv => DocumentsSelected
    BY DEF KInv, Kept, Documented, DocumentsSelected
  <1> QED BY <1>1, SelectionsKept, PTL

\* A value stored under a series was computed by code that means what the series says
\* (persist leaves out what drift_reason refuses).
THEOREM StoredMeaningHolds == Spec => []MeaningPreserved
  <1>1. KInv => MeaningPreserved
    BY DEF KInv, Kept, Documented, MeaningPreserved
  <1> QED BY <1>1, SelectionsKept, PTL

\* The optional rollup of a rolled hour is what its minutes and today's chain fold to,
\* late minutes and later selections included: the purge proof never refuses it.
THEOREM RollupsStayRight == Spec => []RollupMatchesTimeline
  <1>1. KInv => RollupMatchesTimeline
    BY DEF KInv, Kept, RolledOutside, RollupMatchesTimeline
  <1> QED BY <1>1, SelectionsKept, PTL

\* No step changes the selection of a stored minute, however long a PUT waited for the
\* policy-head lock, however late it commits and however far the clock was set back.
THEOREM StoredSelectionStays == Spec => StoredSelectionFixed
  <1>1. IInv /\ KInv /\ [Next]_vars
           => [\A m \in DOMAIN db.raw : Governing(db', m) = Governing(db, m)]_vars
    BY NextKInv DEF Spares
  <1> QED BY <1>1, SelectionsKept, PTL DEF Spec, StoredSelectionFixed

-----------------------------------------------------------------------------
(* Types.                                                                  *)

\* What TypeOK asks beyond IInv and KInv: the bounded counters, the values of closed
\* minutes, and at most one transaction in doubt.
TInv ==
    /\ \A s, t \in inDoubt : s = t
    /\ proc \in 1 .. MaxProcesses
    /\ \A m \in DOMAIN queue : queue[m] \subseteq Identity
    /\ faults \in 0 .. MaxFaults /\ backSteps \in 0 .. MaxBackSteps

LEMMA NextTInv ==
  ASSUME IInv, TInv, [Next]_vars
  PROVE  TInv'
  <1>n. /\ MaxProcesses \in Nat /\ MaxFaults \in Nat /\ MaxBackSteps \in Nat
        /\ proc \in Nat /\ faults \in Nat /\ backSteps \in Nat
    BY StoreAssumption, PolicyAssumption DEF TInv
  <1>t. ASSUME NEW new, Commits(new) \/ AckLost(new)
        PROVE  /\ \A s, t \in inDoubt' : s = t
               /\ faults' \in 0 .. MaxFaults /\ backSteps' \in 0 .. MaxBackSteps
    <2>1. CASE Commits(new)
      BY <2>1 DEF Commits, TInv, boundVars
    <2>2. CASE AckLost(new)
      <3>1. inDoubt' = {} \/ inDoubt' = {new}
        BY <2>2 DEF AckLost, Unlocked
      <3>2. faults' = faults + 1 /\ faults < MaxFaults /\ backSteps' = backSteps
        BY <2>2 DEF AckLost
      <3> QED BY <1>n, <3>1, <3>2 DEF TInv
    <2> QED BY <1>t, <2>1, <2>2
  <1>1. CASE Clock
    <2>1. PICK now \in Minute :
             backSteps' = IF now < clock THEN backSteps + 1 ELSE backSteps
      BY <1>1 DEF Clock
    <2>2. backSteps' \in Nat /\ backSteps' <= MaxBackSteps
      BY <1>1, <1>n, <2>1 DEF Clock
    <2> QED BY <1>1, <1>n, <2>2 DEF Clock, TInv, storeVars, recorderVars
  <1>2. CASE Close
    <2>1. PICK first \in {minuteStart, minuteStart + 1} :
             \E known \in [first .. (clock - 1) -> SUBSET DOMAIN code.profile] :
                 queue' = Over(known, queue)
      BY <1>2 DEF Close
    <2>2. PICK known \in [first .. (clock - 1) -> SUBSET DOMAIN code.profile] :
             queue' = Over(known, queue)
      BY <2>1
    <2>3. DOMAIN code.profile \subseteq Identity
      BY PolicyAssumption DEF IInv
    <2>4. \A m \in DOMAIN queue' : queue'[m] \subseteq Identity
      <3> SUFFICES ASSUME NEW m \in DOMAIN queue'
                   PROVE  queue'[m] \subseteq Identity
        OBVIOUS
      <3>1. CASE m \in DOMAIN known
        <4>1. queue'[m] = known[m] /\ known[m] \subseteq DOMAIN code.profile
          BY <2>2, <3>1 DEF Over
        <4> QED BY <2>3, <4>1
      <3>2. CASE m \notin DOMAIN known
        <4>1. m \in DOMAIN queue /\ queue'[m] = queue[m]
          BY <2>2, <3>2 DEF Over
        <4> QED BY <4>1 DEF TInv
      <3> QED BY <3>1, <3>2
    <2> QED BY <1>2, <2>4 DEF Close, TInv, storeVars, boundVars
  <1>3. CASE Persist
    <2>1. PICK last \in DOMAIN queue :
             LET rows == {m \in DOMAIN queue : m <= last}
             IN  \/ /\ Commits(Recorded(db, rows))
                    /\ queue' = [m \in DOMAIN queue \ rows |-> queue[m]]
                 \/ /\ AckLost(Recorded(db, rows))
                    /\ UNCHANGED queue
      BY <1>3 DEF Persist
    <2> DEFINE rows == {m \in DOMAIN queue : m <= last}
               new == Recorded(db, rows)
    <2>2. Commits(new) \/ AckLost(new)
      BY <2>1
    <2>3. \A m \in DOMAIN queue' : queue'[m] \subseteq Identity
      BY <2>1 DEF TInv
    <2> HIDE DEF new
    <2>4. /\ \A s, t \in inDoubt' : s = t
          /\ faults' \in 0 .. MaxFaults /\ backSteps' \in 0 .. MaxBackSteps
      BY <1>t, <2>2
    <2> QED BY <1>3, <2>3, <2>4 DEF Persist, TInv
  <1>4. CASE RollHour
    <2>1. PICK h \in HoursOf(DOMAIN db.raw) : Commits(Rebuilt(db, {h}))
      BY <1>4 DEF RollHour
    <2>2. /\ \A s, t \in inDoubt' : s = t
          /\ faults' \in 0 .. MaxFaults /\ backSteps' \in 0 .. MaxBackSteps
      BY <1>t, <2>1
    <2> QED BY <1>4, <2>2 DEF RollHour, TInv, recorderVars
  <1>5. CASE Resolve
    BY <1>5 DEF Resolve, TInv, recorderVars, boundVars
  <1>6. CASE Restart
    <2>1. proc' \in 1 .. MaxProcesses
      <3>1. proc < MaxProcesses /\ proc' = proc + 1
        BY <1>6 DEF Restart
      <3> QED BY <1>n, <3>1
    <2>2. DOMAIN queue' = {}
      BY <1>6 DEF Restart
    <2> QED BY <1>6, <2>1, <2>2 DEF Restart, TInv, storeVars, boundVars
  <1>7. ASSUME NEW c \in Clients, Replace(c)
        PROVE  TInv'
    <2>1. PICK new : Commits(new) \/ AckLost(new)
      BY <1>7 DEF Replace
    <2>2. /\ \A s, t \in inDoubt' : s = t
          /\ faults' \in 0 .. MaxFaults /\ backSteps' \in 0 .. MaxBackSteps
      BY <1>t, <2>1
    <2> QED BY <1>7, <2>2 DEF Replace, TInv, recorderVars
  <1>8. ASSUME NEW c \in Clients, Ask(c) \/ Enter(c) \/ Fail(c) \/ Replay(c)
        PROVE  TInv'
    BY <1>8 DEF Ask, Enter, Fail, Replay, TInv, storeVars, recorderVars, boundVars
  <1>9. CASE UNCHANGED vars
    BY <1>9 DEF TInv, vars, storeVars, recorderVars, boundVars
  <1> QED BY <1>1, <1>2, <1>3, <1>4, <1>5, <1>6, <1>7, <1>8, <1>9 DEF Next, Put

\* Every variable stays in its type, over any number of requests, restarts and lost
\* answers; at most one transaction is in doubt (they share the policy-head lock).
THEOREM TypesHold == Spec => []TypeOK
  <1>1. Init => TInv
    BY StoreAssumption, PolicyAssumption DEF Init, TInv
  <1>2. IInv /\ TInv /\ [Next]_vars => TInv'
    BY NextTInv
  <1>3. IInv /\ KInv /\ TInv => TypeOK
    <2> SUFFICES ASSUME IInv, KInv, TInv
                 PROVE  TypeOK
      OBVIOUS
    <2>1. ASSUME NEW s \in Stores
          PROVE  /\ s = [revisions |-> s.revisions, head |-> s.head, series |-> s.series,
                         raw |-> s.raw, rolled |-> s.rolled]
                 /\ s.revisions \in
                       Seq({r \in {s.revisions[k] : k \in DOMAIN s.revisions} : IsRevision(r)})
                 /\ s.head \in DOMAIN s.revisions
                 /\ s.series \subseteq Semantics
                 /\ DOMAIN s.raw \subseteq Minute
                 /\ DOMAIN s.rolled \subseteq Hour
      <3>1. IsStoreRecord(s) /\ DOMAIN s.rolled \subseteq Hour
        BY <2>1 DEF IInv, Sound, KInv, Kept, RolledOutside
      <3> DEFINE Rs == {r \in {s.revisions[k] : k \in DOMAIN s.revisions} : IsRevision(r)}
      <3>2. \A r \in Revision : IsRevision(r)
        BY DEF Revision, IsRevision
      <3>3. \A k \in DOMAIN s.revisions : s.revisions[k] \in Revision
        BY <3>1 DEF IsStoreRecord
      <3>4. \A k \in DOMAIN s.revisions : s.revisions[k] \in Rs
        BY <3>2, <3>3
      <3> HIDE DEF Rs
      <3>5. s.revisions \in Seq(Rs)
        BY <3>1, <3>4 DEF IsStoreRecord
      <3> QED BY <3>1, <3>5 DEF IsStoreRecord, Rs
    <2>2. /\ DOMAIN client = Clients
          /\ \A c \in Clients : client[c].pc \in {"idle", "ask", "tx"}
      BY DEF IInv, Request
    <2> QED BY <2>1, <2>2 DEF TypeOK, IInv, TInv
  <1> QED BY <1>1, <1>2, <1>3, SelectionsKept, PTL DEF Spec
=============================================================================
