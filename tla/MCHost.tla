------------------------------- MODULE MCHost -------------------------------
(***************************************************************************)
(* The host: conversations on one backend, and a weight bundle that is     *)
(* written and read, one or the other in a run.  The part that is not      *)
(* looked at rests in one of its initial states.                           *)
(***************************************************************************)
EXTENDS Generation, WeightBundle

\* Two conversations on one backend; a sequence of five tokens.
CONSTANTS alice, bob
MCTalks == {alice, bob}
MCBudgets == {0, 1, 9}

VARIABLE part
all == <<part, vars, bundlevars>>

PartsInit == part \in {"generation", "bundle"} /\ Init /\ BundleInit

GenerationOnly == part = "generation" /\ UNCHANGED <<part, bundlevars>>
BundleOnly     == part = "bundle" /\ UNCHANGED <<part, vars>>

PartsNext == (GenerationOnly /\ Next) \/ (BundleOnly /\ BundleNext)

PartsSpec == PartsInit /\ [][PartsNext]_all
=============================================================================
