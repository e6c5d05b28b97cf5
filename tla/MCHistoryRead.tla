---------------------------- MODULE MCHistoryRead ----------------------------
(***************************************************************************)
(* Readers beside the recorder, with the ledger the recorder implements.   *)
(***************************************************************************)
EXTENDS HistoryRead, MCRecorder
=============================================================================
