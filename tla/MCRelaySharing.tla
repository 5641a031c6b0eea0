-------------------------- MODULE MCRelaySharing ---------------------------
(***************************************************************************)
(* Values for the constants of RelaySharing that a .cfg file cannot write. *)
(***************************************************************************)
EXTENDS RelaySharing

\* Off, the stages of cooling (or of a heat pump) and of conventional heating.
AllConfigs == {{}, {"y1"}, {"y1", "y2"}, {"w1"}, {"w1", "w2"}, {"w1", "w2", "w3"}}

\* Off and one stage, for the runs with several senders.
OneStage == {{}, {"y1"}}

=============================================================================
