------------------------------- MODULE Shares -------------------------------
(***************************************************************************)
(* How sv_execute (scratchv/runtime/riscv_harts.py) cuts the iterations    *)
(* 0 .. count-1 of a parallel loop among the cores: begin and end of core  *)
(* c's share.  Core c calls the task on begin .. end-1 unless it is empty. *)
(***************************************************************************)
EXTENDS Integers

CONSTANTS
    Teams,     \* the team sizes the runtime accepts
    MaxCount   \* bound: loop lengths TLC tries

ASSUME TeamsAssumption == Teams \subseteq {1, 2, 4}
ASSUME MaxCountAssumption == MaxCount \in Nat

VARIABLES
    cores,    \* SCRATCHV_CORES
    count,    \* iterations of the loop
    ran       \* [0..cores-1 -> iterations that core has executed]

sharesvars == <<cores, count, ran>>

Lesser(a, b) == IF a < b THEN a ELSE b
Bit(b) == IF b THEN 1 ELSE 0

\* Mutation of Begin: the longer shares before this one are not counted.
BeginUnshifted(n, total, c) == c * (total \div n)
Begin(n, total, c) == c * (total \div n) + Lesser(c, total % n)
End(n, total, c)   == Begin(n, total, c) + (total \div n) + Bit(c < total % n)

Share(n, total, c) == {i \in 0 .. total-1 : Begin(n, total, c) <= i /\ i < End(n, total, c)}

SharesInit ==
    /\ cores \in Teams
    /\ count \in 0 .. MaxCount
    /\ ran = [c \in 0 .. cores-1 |-> {}]

\* Core c calls fn(context, begin, end).
Execute(c) ==
    /\ ran[c] = {}
    /\ Begin(cores, count, c) # End(cores, count, c)
    /\ ran' = [ran EXCEPT ![c] = Begin(cores, count, c) .. End(cores, count, c)-1]
    /\ UNCHANGED <<cores, count>>

SharesNext == \E c \in 0 .. cores-1 : Execute(c)
SharesSpec == SharesInit /\ [][SharesNext]_sharesvars

-----------------------------------------------------------------------------
Finished == \A c \in 0 .. cores-1 :
    ran[c] # {} \/ Begin(cores, count, c) = End(cores, count, c)

\* No iteration runs on two cores, none beyond the loop, and once every core
\* has its share none is left: no result is missed or written twice.
ExactlyOnce ==
    /\ \A c \in 0 .. cores-1 : ran[c] \subseteq 0 .. count-1
    /\ \A c, d \in 0 .. cores-1 : c # d => ran[c] \cap ran[d] = {}
    /\ Finished => UNION {ran[c] : c \in 0 .. cores-1} = 0 .. count-1
=============================================================================
