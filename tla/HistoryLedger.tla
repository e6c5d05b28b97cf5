--------------------------- MODULE HistoryLedger ---------------------------
(***************************************************************************)
(* What Pompa Next's durable history promises, without tables, queues or   *)
(* transactions (docs/ARCHITECTURE.md sections 8 and 13): a ledger of      *)
(* recorded minutes, in which nothing recorded is ever lost, and hours     *)
(* that are sealed - their raw minutes purged - and never change again.    *)
(***************************************************************************)
CONSTANTS Minute, Process, HourOf(_)

VARIABLES
    ledger,  \* recorded minute -> the process whose row it holds
    sealed   \* hours whose raw evidence has been deleted

ledgerVars == <<ledger, sealed>>

RecordedHours == {HourOf(m) : m \in DOMAIN ledger}

\* A start over an earlier release's history, possibly none.
Init ==
    /\ DOMAIN ledger \subseteq Minute
    /\ \A m \in DOMAIN ledger : ledger[m] \in Process
    /\ sealed \subseteq RecordedHours

\* The minutes whose entry is new or replaced by the step.
Changed == {m \in DOMAIN ledger' : m \in DOMAIN ledger => ledger'[m] # ledger[m]}

\* Rows of one process are recorded, outside the sealed hours; a minute recorded
\* before may be replaced, and no minute disappears.
Record ==
    /\ DOMAIN ledger \subseteq DOMAIN ledger'
    /\ DOMAIN ledger' \subseteq Minute
    /\ \E p \in Process : \A m \in Changed : ledger'[m] = p /\ HourOf(m) \notin sealed
    /\ UNCHANGED sealed

\* Some recorded hours are sealed; what is known of their minutes stays.
Seal ==
    /\ sealed \subseteq sealed'
    /\ sealed' \subseteq sealed \cup RecordedHours
    /\ UNCHANGED ledger

Next == Record \/ Seal

Spec == Init /\ [][Next]_ledgerVars
=============================================================================
