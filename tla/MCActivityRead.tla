--------------------------- MODULE MCActivityRead ---------------------------
(***************************************************************************)
(* Instances of ActivityRead for TLC.                                      *)
(***************************************************************************)
EXTENDS ActivityRead

\* A minute with everything off; the others differ from it in what they name.
Off == [compressor_freq |-> 0, defrosting_state |-> 0, heatpump_state |-> 0,
        three_way_valve |-> 0, co_power_consumption |-> 0, co_power_production |-> 0,
        dhw_power_consumption |-> 0, dhw_power_production |-> 0]
Heating == [Off EXCEPT !.compressor_freq = 1]
BlindDefrost == [Off EXCEPT !.compressor_freq = NULL, !.defrosting_state = 1]

\* Runs and stops, with a minute where the families of spans disagree about an edge.
Cycling == {Off, Heating, BlindDefrost}
=============================================================================
