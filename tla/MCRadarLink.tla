------------------------------ MODULE MCRadarLink ------------------------------
(* RadarLink with the commands that the radar may refuse.                   *)
EXTENDS RadarLink

Refusals == {"SET_RADAR_CHAN", "SET_ACTIVE", "SET_PARAMETERS"}
=============================================================================
