----------------------------- MODULE MCRecorder -----------------------------
(* The recorder as an implementation of the history ledger, for TLC.       *)
EXTENDS Recorder

\* The ledger a reader can reconstruct, and the hours the purge evidence names.
History == INSTANCE HistoryLedger WITH
    ledger <- Ledger(db), sealed <- PurgedHours(db)

\* Every step of the recorder, of a late commit or of a restart records rows outside the
\* sealed hours, seals hours, or leaves the history as it is: nothing recorded is lost,
\* and "a rollup row and no raw minute" never names an hour that was not purged.
ImplementsLedger == History!Spec
=============================================================================
