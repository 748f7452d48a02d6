------------------------------- MODULE MCTeam -------------------------------
(***************************************************************************)
(* The team of four: how it shares out a loop, and which failure it        *)
(* reports, one or the other in a run.  The part that is not looked at     *)
(* rests in one of its initial states.                                     *)
(***************************************************************************)
EXTENDS Shares, HartTeam

VARIABLE part

PartsInit ==
    /\ \/ part = "shares"
       \/ part = "team" /\ cores = 1 /\ count = 0
    /\ SharesInit /\ Init

SharesTurn == part = "shares" /\ SharesNext /\ UNCHANGED <<part, vars>>
TeamTurn   == part = "team" /\ Next /\ UNCHANGED <<part, sharesvars>>

PartsNext == SharesTurn \/ TeamTurn
PartsSpec == PartsInit /\ [][PartsNext]_<<part, vars, sharesvars>>
=============================================================================
