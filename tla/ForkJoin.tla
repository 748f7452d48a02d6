------------------------------ MODULE ForkJoin ------------------------------
(***************************************************************************)
(* What sv_parallel_for promises the compiled model: loops run one after   *)
(* another, each core does its share of a loop once and in full, and the   *)
(* host learns either that everything was done or that some core broke.    *)
(* How cores find out about each other is HartTeam's business.             *)
(***************************************************************************)
EXTENDS Integers

CONSTANTS Cores, Pending, Finished

VARIABLES
    round,    \* loops started
    shares,   \* [Cores -> the last loop whose share that core has finished]
    broken,   \* cores that trapped
    verdict   \* Pending, Finished, or the broken core named to the host

vars == <<round, shares, broken, verdict>>

Complete == \A c \in Cores : shares[c] = round

Init ==
    /\ round = 0
    /\ shares = [c \in Cores |-> 0]
    /\ broken = {}
    /\ verdict = Pending

\* A loop starts only when the one before it is complete.
Fork ==
    /\ verdict = Pending /\ broken = {} /\ Complete
    /\ round' = round + 1
    /\ UNCHANGED <<shares, broken, verdict>>

Share(c) ==
    /\ verdict # Finished /\ c \notin broken /\ shares[c] = round - 1
    /\ shares' = [shares EXCEPT ![c] = round]
    /\ UNCHANGED <<round, broken, verdict>>

\* A core breaks in its share; core 0 also between loops.
Break(c) ==
    /\ verdict # Finished /\ c \notin broken
    /\ shares[c] = round - 1 \/ c = 0
    /\ broken' = broken \cup {c}
    /\ UNCHANGED <<round, shares, verdict>>

Succeed ==
    /\ verdict = Pending /\ broken = {} /\ Complete
    /\ verdict' = Finished
    /\ UNCHANGED <<round, shares, broken>>

Blame(c) ==
    /\ verdict = Pending /\ c \in broken
    /\ verdict' = c
    /\ UNCHANGED <<round, shares, broken>>

Next == Fork \/ Succeed \/ \E c \in Cores : Share(c) \/ Break(c) \/ Blame(c)

Spec == Init /\ [][Next]_vars

\* The host hears a verdict.
FairSpec == Spec /\ <>(verdict # Pending)
=============================================================================
