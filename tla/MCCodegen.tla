------------------------------ MODULE MCCodegen ------------------------------
(***************************************************************************)
(* Behind instruction selection: the register allocators, and the passes   *)
(* on the assembly text, one or the other in a run.  The part that is not  *)
(* looked at rests in one of its initial states.                           *)
(***************************************************************************)
EXTENDS MCAsmPasses

CONSTANTS Parts,                   \* which of the two to look at
          v1, v2, v3, r1, r2, None,
          Programs, Scanned        \* of Backend

VARIABLES part,
          allocator, program, graph, live_in, live_after, next, code, arriving,
          carry_after, st, scan, rw, pc, env, regs, mem

Sets == INSTANCE BackendPrograms WITH Block <- 1..10, Value <- {v1, v2, v3}
MCPrograms   == Sets!MCPrograms
MCScanned    == Sets!MCScanned
WrittenAgain == Sets!WrittenAgain
Redefined    == Sets!Redefined

Allocators == INSTANCE Backend
    WITH Block <- Sets!Places, Value <- Sets!Variables, Vreg <- Sets!Variables, Names <- Sets!MCNames,
         Bank <- Sets!MCBank, CallerSaved <- Sets!MCCallerSaved

ASSUME Allocators!Sound

backendVars == <<allocator, program, graph, live_in, live_after, next, code, arriving,
                 carry_after, st, scan, rw, pc, env, regs, mem>>

IdleJob     == CHOOSE j \in Jobs : TRUE
IdleProgram == CHOOSE p \in Programs : TRUE

PartsInit ==
    /\ part \in Parts
    /\ \/ part = "allocation" /\ InitOf(IdleJob) /\ Allocators!Init
       \/ part = "text" /\ Allocators!InitOf("greedy", IdleProgram) /\ Init

AllocationTurn == part = "allocation" /\ Allocators!Next /\ UNCHANGED <<part, vars>>
TextTurn == part = "text" /\ Next /\ UNCHANGED <<part, backendVars>>

PartsNext == AllocationTurn \/ TextTurn
PartsSpec == PartsInit /\ [][PartsNext]_<<part, vars, backendVars>>

-----------------------------------------------------------------------------
\* Every instruction of the allocated code reads the values of the program.
SameValues == part = "allocation" => Allocators!SameValues

\* A program is refused only where the allocator cannot do otherwise.
RefusedForCause == part = "allocation" => Allocators!RefusedForCause
=============================================================================
