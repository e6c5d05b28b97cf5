--------------------------- MODULE OptionalPolicy ---------------------------
(***************************************************************************)
(* backend/pompa/optional_policy.py against the recorder: which optional   *)
(* readings a minute records is decided by a chain of policy revisions in  *)
(* the database, replaced as a whole by PUT requests, each effective from  *)
(* a minute of its own.                                                    *)
(*                                                                         *)
(* API threads replace the selection, the recorder thread persists minutes *)
(* under the selection that governs them and rolls their hours, and the    *)
(* process may stop and start again with other code, whose profiles may    *)
(* mean something else.  Every one of these transactions takes the         *)
(* policy-head lock and reads with locking reads after it, so it is one    *)
(* step on db.  What a PUT knew before it had the lock - its base          *)
(* revision, the code's profiles and the recorder's safe minute - is older *)
(* than that step and is kept in client.  A transaction whose answer is    *)
(* lost is as in module Recorder: inDoubt holds the store it may commit.   *)
(*                                                                         *)
(* db is a record                                                          *)
(*                                                                         *)
(*    revisions  revision id -> base, effective_from_minute and members    *)
(*    head       optional_policy_head                                      *)
(*    series     the rows of optional_series                               *)
(*    raw        stored minute -> its optional document                    *)
(*    rolled     hour -> what its optional rollup was folded from          *)
(*                                                                         *)
(* A series row stands for its id: its semantics, with identity, topic and *)
(* profile version.  A document maps the series it has a value for to the  *)
(* semantics of the code that computed the value; the value itself does    *)
(* not matter.  Minutes are raw for as long as the model runs: what purge  *)
(* may delete is module Recorder's question.                               *)
(***************************************************************************)
EXTENDS HistoryStore, Sequences

CONSTANTS
    Identity,      \* physical identities that have, or had, a history profile
    Deployments,   \* the code a process may run: its profiles and capability topics
    Clients,       \* bound: PUT requests under way at a time
    MaxRevisions,  \* bound: revisions, the genesis revision included
    MaxFaults,     \* bound: transactions whose answer is lost
    MaxBackSteps   \* bound: readings of the wall clock behind an earlier one

\* A deployment has the profiles of HISTORY_PROFILES_BY_IDENTITY, each the
\* semantics of one identity, and the topic of every capability it knows.
ASSUME PolicyAssumption ==
    /\ MaxRevisions \in Nat \ {0}
    /\ MaxFaults \in Nat
    /\ MaxBackSteps \in Nat
    /\ \A d \in Deployments :
          /\ DOMAIN d.profile \subseteq Identity
          /\ \A i \in DOMAIN d.profile : d.profile[i].identity = i

VARIABLES
    db,          \* the committed store
    inDoubt,     \* {} or the store an unanswered transaction may still commit
    code,        \* the deployment of the running process
    proc,        \* how many processes have run
    clock,       \* the wall clock, in whole minutes
    minuteStart, \* accumulator.minute_start, the open minute
    queue,       \* closed minutes not yet written -> identities with a known value
    client,      \* the PUT request of each client
    acked,       \* answers of successful PUTs: base, profiles asked for, revision
    faults,      \* lost answers so far
    backSteps    \* backward clock steps so far

storeVars == <<db, inDoubt>>
recorderVars == <<minuteStart, queue>>
boundVars == <<faults, backSteps>>
vars == <<storeVars, code, proc, clock, recorderVars, client, acked, boundVars>>

GENESIS_REVISION_ID == 1
NoBase == 0  \* the genesis revision's base_revision_id NULL

-----------------------------------------------------------------------------
(* Profiles and drift.                                                     *)

\* Identity, topic and version, without the rest of the meaning.
Key(row) == [identity |-> row.identity, topic |-> row.topic, version |-> row.version]
Keys(rows) == {Key(row) : row \in rows}

\* drift_reason of a profile that is about to be selected.
Selectable(i) == i \in DOMAIN code.profile /\ code.topic[i] = code.profile[i].topic

DriftedByTopicOnly(row) == ~Selectable(row.identity)  \* a slip: the row's own meaning is ignored

\* drift_reason of a persisted series row: missing, another version, topic or
\* definition in the code, or another capability topic.
Drifted(row) == ~(Selectable(row.identity) /\ code.profile[row.identity] = row)

Profiles(want) == {code.profile[i] : i \in want}

-----------------------------------------------------------------------------
(* The revision chain.                                                     *)

\* _resolve_active_revision_id and _timeline: from the head back along the
\* bases, the first revision that is effective at the minute.
GoverningRevision(s, ts) ==
    LET back[r \in DOMAIN s.revisions] ==
          IF s.revisions[r].from <= ts \/ s.revisions[r].base = NoBase
          THEN r
          ELSE back[s.revisions[r].base]
    IN  back[s.head]
Governing(s, ts) == s.revisions[GoverningRevision(s, ts)].members

Latest(minutes) == {m \in minutes : \A k \in minutes : k <= m}

\* A slip: the effective minute of the head is not looked at.
EffectiveFromWithoutHead(s, safe) ==
    LET floors == {safe, clock + 1} \cup {m + 1 : m \in Latest(DOMAIN s.raw)}
    IN  CHOOSE m \in floors : \A k \in floors : k <= m

\* A slip: the newest stored minute is not looked at.
EffectiveFromClocks(s, safe) ==
    CHOOSE m \in {safe, clock + 1, s.revisions[s.head].from} :
        \A k \in {safe, clock + 1, s.revisions[s.head].from} : k <= m

\* A slip: the clock is not read again under the lock.
EffectiveFromSafe(s, safe) ==
    LET floors == {safe, s.revisions[s.head].from} \cup {m + 1 : m \in Latest(DOMAIN s.raw)}
    IN  CHOOSE m \in floors : \A k \in floors : k <= m

\* resolve_effective_from_minute: the later of the recorder's safe minute, the next
\* minute of the clock read under the lock, the head's, and the one after the newest
\* stored minute.
EffectiveFrom(s, safe) ==
    LET floors == {safe, clock + 1, s.revisions[s.head].from}
                    \cup {m + 1 : m \in Latest(DOMAIN s.raw)}
    IN  CHOOSE m \in floors : \A k \in floors : k <= m

LineageByTopic(s, p) == {row \in s.series : Key(row) = Key(p)}  \* a slip: scoped to one topic

\* The series of the profile's identity and version, whatever their topic.
Lineage(s, p) == {row \in s.series : row.identity = p.identity /\ row.version = p.version}

\* A series exists whose meaning is not the code's: SeriesDefinitionConflict.
Conflicting(s, p) == \E row \in Lineage(s, p) : row # p

\* A slip: the semantic columns of a new row are left out.
SeriesKeyOnly(s, p) ==
    IF \E row \in s.series : Key(row) = Key(p)
    THEN CHOOSE row \in s.series : Key(row) = Key(p)
    ELSE Key(p)

\* get_or_create_series: INSERT ... ON DUPLICATE KEY over identity, topic and version.
SeriesOf(s, p) ==
    IF \E row \in s.series : Key(row) = Key(p)
    THEN CHOOSE row \in s.series : Key(row) = Key(p)
    ELSE p

\* The store with a new head revision for the profiles, based on the locked head.
Replaced(s, ps, safe) ==
    LET rows == {SeriesOf(s, p) : p \in ps}
    IN  [s EXCEPT !.revisions = Append(@, [base |-> s.head, from |-> EffectiveFrom(s, safe),
                                           members |-> rows]),
                  !.head = Len(s.revisions) + 1,
                  !.series = @ \cup rows]

-----------------------------------------------------------------------------
(* Minutes and hours under the chain.                                      *)

\* A slip: every minute of the batch is written under the head's members.
DocumentUnderHead(s, m) ==
    LET rows == {row \in s.revisions[s.head].members : ~Drifted(row) /\ row.identity \in queue[m]}
    IN  [row \in rows |-> code.profile[row.identity]]

\* persist: the document of one row, for the members that govern its minute,
\* still mean what the code means, and have a known value.
Document(s, m) ==
    LET rows == {row \in Governing(s, m) : ~Drifted(row) /\ row.identity \in queue[m]}
    IN  [row \in rows |-> code.profile[row.identity]]

\* _fold_optional_hour and _optional_rollup_values: selected members and document of
\* every stored minute; folding is a function of these.
OptionalHour(s, h) ==
    [m \in {k \in DOMAIN s.raw : HourOf(k) = h} |->
        [selected |-> Governing(s, m), known |-> s.raw[m]]]

Rebuilt(s, hours) ==
    [s EXCEPT !.rolled = Over([h \in hours |-> OptionalHour(s, h)], @)]

\* A slip: rolled hours keep their rollup when a late minute arrives.
RecordedOnly(s, rows) == [s EXCEPT !.raw = Over([m \in rows |-> Document(s, m)], @)]

\* persist: upsert the rows with their documents and rebuild the rolled hours they touch.
Recorded(s, rows) ==
    LET stored == [s EXCEPT !.raw = Over([m \in rows |-> Document(s, m)], @)]
    IN  Rebuilt(stored, HoursOf(rows) \cap {h \in Hour : \E r \in DOMAIN s.rolled : h <= r})

-----------------------------------------------------------------------------
(* The process.                                                            *)

Idle == [pc |-> "idle", base |-> NoBase, want |-> {}, safe |-> 0]

\* ensure_schema: an empty selection effective from the beginning of time.
Init ==
    /\ db = [revisions |-> <<[base |-> NoBase, from |-> 0, members |-> {}]>>,
             head |-> GENESIS_REVISION_ID, series |-> {},
             raw |-> [m \in {} |-> {}], rolled |-> [h \in {} |-> {}]]
    /\ inDoubt = {}
    /\ code \in Deployments
    /\ proc = 1
    /\ clock = 0 /\ minuteStart = 0
    /\ queue = [m \in {} |-> {}]
    /\ client = [c \in Clients |-> Idle]
    /\ acked = {}
    /\ faults = 0 /\ backSteps = 0

\* The queue is lost, requests under way fail and may be sent again; the new
\* process may run other code.
Restart ==
    /\ proc < MaxProcesses
    /\ proc' = proc + 1
    /\ code' \in Deployments
    /\ minuteStart' = clock
    /\ queue' = [m \in {} |-> {}]
    /\ client' = [c \in Clients |->
                     IF client[c].pc = "tx" THEN [client[c] EXCEPT !.pc = "ask", !.safe = 0]
                                            ELSE client[c]]
    /\ UNCHANGED <<storeVars, clock, acked, boundVars>>

\* Time passes, or the wall clock is set back.
Clock ==
    /\ \E now \in Minute :
          /\ now # clock
          /\ clock' = now
          /\ backSteps' = IF now < clock THEN backSteps + 1 ELSE backSteps
    /\ backSteps' <= MaxBackSteps
    /\ UNCHANGED <<storeVars, code, proc, recorderVars, client, acked, faults>>

\* _advance: a reading closes the minutes before it; their values are computed
\* here for every profile of the code, selected or not.
Close ==
    /\ minuteStart < clock
    /\ \E first \in {minuteStart, minuteStart + 1} :
          \E known \in [first .. (clock - 1) -> SUBSET DOMAIN code.profile] :
              queue' = Over(known, queue)
    /\ minuteStart' = clock
    /\ UNCHANGED <<storeVars, code, proc, clock, client, acked, boundVars>>

-----------------------------------------------------------------------------
(* Transactions.                                                           *)

Unlocked == inDoubt = {}

\* The transaction that makes the store "new" commits and says so.
Commits(new) ==
    /\ Unlocked
    /\ db' = new
    /\ UNCHANGED <<inDoubt, boundVars>>

\* Its answer is lost: it has committed, or the server has yet to decide.
AckLost(new) ==
    /\ Unlocked
    /\ faults < MaxFaults
    /\ faults' = faults + 1
    /\ \/ db' = new /\ UNCHANGED inDoubt
       \/ inDoubt' = {new} /\ UNCHANGED db
    /\ UNCHANGED backSteps

\* The server finishes an unanswered transaction, or discards it.
Resolve ==
    /\ \E new \in inDoubt : db' \in {db, new}
    /\ inDoubt' = {}
    /\ UNCHANGED <<code, proc, clock, recorderVars, client, acked, boundVars>>

\* persist of the oldest closed minutes; a batch whose answer is lost is kept.
Persist ==
    /\ \E last \in DOMAIN queue :
          LET rows == {m \in DOMAIN queue : m <= last}
          IN  \/ /\ Commits(Recorded(db, rows))
                 /\ queue' = [m \in DOMAIN queue \ rows |-> queue[m]]
              \/ /\ AckLost(Recorded(db, rows))
                 /\ UNCHANGED queue
    /\ UNCHANGED <<code, proc, clock, minuteStart, client, acked>>

\* roll_next_hour: the first stored hour above the rolled ones, once it is closed.
RollHour ==
    /\ \E h \in HoursOf(DOMAIN db.raw) :
          /\ h < HourOf(minuteStart)
          /\ \A r \in DOMAIN db.rolled : r < h
          /\ \A k \in HoursOf(DOMAIN db.raw) : k < h => \E r \in DOMAIN db.rolled : k <= r
          /\ Commits(Rebuilt(db, {h}))
    /\ UNCHANGED <<code, proc, clock, recorderVars, client, acked>>

-----------------------------------------------------------------------------
(* PUT /api/v1/optional-history/selection.                                 *)

\* The client reads the selection and decides what to replace it with.
Ask(c) ==
    /\ client[c].pc = "idle"
    /\ \E want \in SUBSET Identity :
          client' = [client EXCEPT ![c] = [pc |-> "ask", base |-> db.head, want |-> want, safe |-> 0]]
    /\ UNCHANGED <<storeVars, code, proc, clock, recorderVars, acked, boundVars>>

\* _resolve_profiles and safe_future_minute, before the transaction.
Enter(c) ==
    /\ client[c].pc = "ask"
    /\ \A i \in client[c].want : Selectable(i)
    /\ client' = [client EXCEPT ![c].pc = "tx",
                                ![c].safe = IF clock < minuteStart THEN minuteStart + 1 ELSE clock + 1]
    /\ UNCHANGED <<storeVars, code, proc, clock, recorderVars, acked, boundVars>>

\* Refused (unknown or blocked identity, stale base, conflict) or given up.
Fail(c) ==
    /\ client[c].pc \in {"ask", "tx"}
    /\ client' = [client EXCEPT ![c] = Idle]
    /\ UNCHANGED <<storeVars, code, proc, clock, recorderVars, acked, boundVars>>

Answer(c, revision) ==
    [base |-> client[c].base, profiles |-> Profiles(client[c].want), revision |-> revision]

\* A slip: the base revision is not compared with the locked head.
MayReplaceAnyBase(c) == \A p \in Profiles(client[c].want) : ~Conflicting(db, p)

\* The head is the base the client saw, and no profile contradicts its series.
MayReplace(c) ==
    /\ db.head = client[c].base
    /\ \A p \in Profiles(client[c].want) : ~Conflicting(db, p)

Replace(c) ==
    /\ client[c].pc = "tx"
    /\ Len(db.revisions) < MaxRevisions
    /\ MayReplace(c)
    /\ LET new == Replaced(db, Profiles(client[c].want), client[c].safe)
       IN  \/ /\ Commits(new)
              /\ acked' = acked \cup {Answer(c, new.head)}
              /\ client' = [client EXCEPT ![c] = Idle]
           \/ /\ AckLost(new)
              /\ client' = [client EXCEPT ![c].pc = "ask", ![c].safe = 0]
              /\ UNCHANGED acked
    /\ UNCHANGED <<code, proc, clock, recorderVars>>

\* The head replaced the client's base with what the client asks for.
Replays(c) ==
    /\ db.head # client[c].base
    /\ db.revisions[db.head].base = client[c].base
    /\ Keys(db.revisions[db.head].members) = Keys(Profiles(client[c].want))
    /\ db.revisions[db.head].members = Profiles(client[c].want)

\* idempotent_replay: an earlier attempt, or an equal request, has been committed.
Replay(c) ==
    /\ client[c].pc = "tx"
    /\ Unlocked
    /\ Replays(c)
    /\ acked' = acked \cup {Answer(c, db.head)}
    /\ client' = [client EXCEPT ![c] = Idle]
    /\ UNCHANGED <<storeVars, code, proc, clock, recorderVars, boundVars>>

-----------------------------------------------------------------------------
Put(c) == Ask(c) \/ Enter(c) \/ Fail(c) \/ Replace(c) \/ Replay(c)

Next ==
    \/ Clock \/ Close \/ Persist \/ RollHour \/ Resolve \/ Restart
    \/ \E c \in Clients : Put(c)

Spec == Init /\ [][Next]_vars

Stores == {db} \cup inDoubt

-----------------------------------------------------------------------------
(* Safety.                                                                 *)

\* The rows of one identity that some deployment of it may have persisted.
Semantics == UNION {{d.profile[i] : i \in DOMAIN d.profile} : d \in Deployments}

IsRevision(r) ==
    /\ r = [base |-> r.base, from |-> r.from, members |-> r.members]
    /\ r.base \in Nat /\ r.from \in Nat /\ r.members \subseteq Semantics

\* Every variable stays in its type; at most one transaction is in doubt.
TypeOK ==
    /\ \A s \in Stores :
          /\ s = [revisions |-> s.revisions, head |-> s.head, series |-> s.series,
                  raw |-> s.raw, rolled |-> s.rolled]
          /\ s.revisions \in Seq({r \in {s.revisions[k] : k \in DOMAIN s.revisions} : IsRevision(r)})
          /\ s.head \in DOMAIN s.revisions
          /\ s.series \subseteq Semantics
          /\ DOMAIN s.raw \subseteq Minute
          /\ DOMAIN s.rolled \subseteq Hour
    /\ \A s, t \in inDoubt : s = t
    /\ code \in Deployments
    /\ proc \in 1 .. MaxProcesses
    /\ clock \in Minute /\ minuteStart \in Minute
    /\ DOMAIN queue \subseteq Minute
    /\ \A m \in DOMAIN queue : queue[m] \subseteq Identity
    /\ DOMAIN client = Clients
    /\ \A c \in Clients : client[c].pc \in {"idle", "ask", "tx"}
    /\ faults \in 0 .. MaxFaults /\ backSteps \in 0 .. MaxBackSteps

\* Whatever is committed or in doubt, the revisions form one chain in the order of
\* their ids: every base has one child, the head is its end, and effective minutes do
\* not decrease along it.  Two PUTs from one base never both take effect.
ChainLinear ==
    \A s \in Stores :
        /\ s.head = Len(s.revisions)
        /\ \A r \in DOMAIN s.revisions :
              /\ s.revisions[r].base = r - 1
              /\ r > 1 => s.revisions[r - 1].from <= s.revisions[r].from

\* A document has values of selected series only: fold_optional_minutes, which
\* raises OptionalHistoryInconsistent on any other, never blocks rolling or a read.
DocumentsSelected ==
    \A s \in Stores : \A m \in DOMAIN s.raw : DOMAIN s.raw[m] \subseteq Governing(s, m)

\* A value stored under a series was computed by code that means what the series
\* says, whatever was deployed between the selection and the minute.
MeaningPreserved ==
    \A s \in Stores : \A m \in DOMAIN s.raw : \A row \in DOMAIN s.raw[m] : s.raw[m][row] = row

\* One identity and profile version is one meaning for ever: what a selector
\* optional:<identity>@<version> finds is unambiguous.
OneMeaningPerVersion ==
    \A s \in Stores : \A x, y \in s.series :
        x.identity = y.identity /\ x.version = y.version => x = y

\* The optional rollup of an hour is what its minutes and the chain give today, so
\* the purge proof, which folds them again, never refuses.
RollupMatchesTimeline ==
    \A s \in Stores : \A h \in DOMAIN s.rolled : s.rolled[h] = OptionalHour(s, h)

\* A PUT that was answered with success, by its own attempt, a retry or a replay, is
\* in the chain directly above the base it named and selects what it asked for.
AcknowledgedIsOwn ==
    \A a \in acked :
        /\ a.revision \in DOMAIN db.revisions
        /\ db.revisions[a.revision].base = a.base
        /\ db.revisions[a.revision].members = a.profiles

-----------------------------------------------------------------------------
(* Action properties.                                                      *)

\* No step changes the selection of a minute that is already stored: neither a PUT
\* that waited for the lock, nor one committed late, nor a clock that was set back.
StoredSelectionFixed ==
    [][\A m \in DOMAIN db.raw : Governing(db', m) = Governing(db, m)]_vars

\* A new revision is effective after every minute the recorder has closed or opened
\* when it is decided, however long the request waited for the lock.  It holds while
\* the wall clock never steps back.
EffectiveIsFuture ==
    [][\A s \in (Stores' \ Stores) :
          s.head # db.head /\ db.head \in DOMAIN s.revisions =>
              minuteStart < s.revisions[s.head].from]_vars
=============================================================================
