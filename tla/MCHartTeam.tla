----------------------------- MODULE MCHartTeam -----------------------------
(* TLC instances of HartTeam: two cores with liveness, four with safety.   *)
EXTENDS HartTeamInv
=============================================================================
