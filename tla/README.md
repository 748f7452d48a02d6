# A verification of ScratchV

ScratchV compiles ONNX models and a small DSL to RISC-V, and runs whole language models as bare-metal RV64 guests under
QEMU. This directory holds TLA+ models of the parts of it whose correctness depends on order, failure or a long history
of steps, the TLC configurations that check them on small instances, and TLAPS proofs of the properties that matter most
for every size. Paths below are relative to the repository.

- [1. The system](#1-the-system)
- [2. Modules and code](#2-modules-and-code)
- [3. Runs, bounds and fairness](#3-runs-bounds-and-fairness)
- [4. Proofs](#4-proofs)
- [5. What the code does not do](#5-what-the-code-does-not-do)
- [6. Not modelled](#6-not-modelled)
- [7. Plan](#7-plan)

`PROJECT.json` lists the components with their files, the runs, a mutation for each property, the source lines behind
each definition, the hazards with the properties that cover them, and the theorems.

To check a module: `tlc -config HartTeam2.cfg MCHartTeam.tla`; to check proofs: `tlapm HartTeamProofs.tla`.

## 1. The system

```
 ONNX / DSL -> frontend -> IR -> optimizer passes -> selection -> register allocation -> text passes -> .s
                            |                                       ^
                            |                  analysis: CFG, liveness, dominators, constants
                            +-> tensor C -> zig/clang -> ELF (+ worker team) --+
                                                                               v
   Conversation -> generate -> QemuForward -> run_external -> QEMU guest: core 0 and workers
                                                  |
                                     weight bundle -> private transport copies
```

| Component | State | Operations | Hard behaviour | What makes it correct |
|---|---|---|---|---|
| Worker team (`runtime/riscv_harts.py`) | job, generation, per-core done, failure, doorbells, all in shared memory | startup, `sv_parallel_for`, `sv_worker`, `sv_trap_report`, UART frame | weak memory, sleeping cores, traps at any time | a returned loop is complete on every core, nobody sleeps for ever, the host is told the truth |
| External forward (`runtime/riscv_external.py`) | QEMU process, uart.bin, output.bin, run.json, signal handler | launch, wait for the frame, QMP stop/dump/quit, reap, clean up, report | a guest, a caller, a supervisor, a clock and a file system that all act between two steps | a returned run is a good one, no QEMU is left, reports agree with the outcome |
| Weight transport (`runtime/weight_transport.py`) | private copies, their recorded identities, transport.json | stage, validate, remove, observe residuals | files change between two looks; any file operation fails | only own copies of good runs are removed; the report never claims less than is left |
| Generation (`runtime/generation.py`, `conversation.py`, `llm_inputs.py`, `qemu_generation.py`) | history, busy flag, token count, lock, step directories, run records | turn, reset, token loop, serial forward | two threads on one backend, cancellation and deadlines between any two steps | bounded sequences, one guest at a time, one record per run, transactional history |
| NPU allocator (`scratchv_dag/allocator.py`) | buddy lists, bump pointers, allocations | alloc, free with coalescing, reset | long sequences of legal calls | no two callers share a byte |
| Liveness (`analysis/liveness.py`) | live-in and live-out of each block, worklist | analyse; per-edge and per-instruction queries | cycles, order of service, phi edges | the least solution, which is what the paths read |
| Greedy allocator (`backend/register_alloc.py`) | register pool, dirty and clean values, slots | allocate per instruction, boundaries, calls | text order against execution order | the output computes what the input says |
| Linear-scan allocator (`backend/regalloc_linear.py`, `regalloc_rewrite.py`) | intervals, active list, free registers; then which register and which slot holds what | scan of the intervals, rewriting item by item | two plans of one text: the scan's wish and what the rewriting finds | the same |
| Machine CFG (`analysis/cfg.py`, `adapters.py`, `backend/machine_semantics.py`) | none | partition, edges, use/def sets | fallthrough, unnamed blocks | edges are what the code can do |
| Constant propagation (`analysis/dataflow.py`) | facts before and behind each block, worklist | visit a block | seeding, early stops, a transfer that is not monotone | no fact that a run contradicts |
| IR optimizer and driver (`optimizer/`, `compiler.py`, `pass_manager.py`, `ir_verifier.py`) | the program, changed in place; aliases, facts, names used | five passes in any of the driver's pipelines | what may fail must not move or vanish; a pass may raise half way | the program still ends as its source does |
| Assembly passes (`asm_peephole.py`, `const_merge.py`, `assembly_passes.py`) | the lines, a place, what each register is known to hold | window rules to a fixed point; removal and merging of constants | local knowledge at labels, calls, aliases | the same stores, jumps, calls and results |
| Instruction scheduler (`inst_scheduler.py`, `schedule_semantics.py`, `schedule_verify.py`) | dependency graph, ready list, schedule | build the graph, pick, check the order | edges that must not be missing | the same; the check accepts only what may be accepted |
| Weight bundles (`runtime/weight_bundle.py`) | two files of a directory, temporary files, hashes | write, publish by hard link, validate | power failure, other processes between two file operations | published means whole; accepted means it was there |
| Process runner (`riscv_tensor.py`, `_run_process`) | processes, groups, pipes, deadlines | run, time out, kill, drain, reclaim | descendants that outlive their parent, nested calls in one group, SIGTERM | nothing owned survives, no caller is killed by its own call, every call ends |
| Tensor code generation, frames, front ends, selection DAG, cache, simulators, reports | see 6 | | | |

How they interact. A `Conversation` calls `generate`, which calls the forward function once per token. `QemuForward`
serialises those calls with a lock that it only tries, gives each a directory, and calls `run_external`. That stages the
weight copies, starts QEMU and waits: the waiter sleeps on inotify and a pidfd, or polls. The guest is the compiled model
on core 0, which publishes each parallel loop to the workers. The cancellation callback is passed down unchanged and is
looked at in each layer. Bundles and tool chains come from two services that stand alone: the weight bundle, and the process
runner through which every external command goes. On the compiler's side the driver runs IR passes over one program that
they change in place, then selection, allocation and the passes over text, each on what the one before left. Liveness
reads the graph that the adapters build, and the allocators take liveness on trust; the text passes take the allocators on
trust, and nothing checks the text behind them but the scheduler's own verifier.

## 2. Modules and code

**`HartTeam`** is the guest runtime: `pc` is the place in the C and assembly text that `riscv_harts.py` emits, one action
per memory access, wait or branch. Every core has a set `pend` of stores that have not reached RAM. A fence is a guard that
`pend` is empty, a release store drains after the stores it releases, an AMO acts at once. Which places may drain in which
order is `Ordered`. Any core may trap while it runs its share, and wakes from WFI by its doorbell or for no reason.
`HartTeamInv` holds the inductive invariant, `HartTeamProofs` the proofs, `ForkJoin` the promise: loops start one after
another, each core finishes its share once, the verdict names completion or a core that really broke. The refinement maps
`ForkJoin`'s round to `sv_generation` as core 0 holds it, its shares to the results in RAM, and its verdict to the frame.
**`Shares`** is `sv_execute`'s cut of a loop.

**`WeightTransport`** has one action per file operation, and other processes that change, replace, delete and create files
between any two. Bytes are good (what the manifest says), bad, or a cut-off part; a file's identity is "created by this
stage" or not. The creation of a copy and its row's `created` are two steps, as they are in the code. **`ExternalRun`** extends it
and calls its operations at the places where `run_external` does. Each cleanup
step is an action of its own, with its own failure, because what the finally clause does after one of them has failed is
what its properties are about. The guest's UART output is empty, part of a frame, a frame, or too much; the environment's
actions are the guest, QEMU and its answers over QMP, the caller's callback, the clock and SIGTERM; that the host gives up
waiting for an answer at the deadline is a step of the host.

**`Generation`** abstracts texts and tokens to lengths. `CheckAbort` is `check_abort`, which both sides of the
forward call; `Enter` is the non-blocking lock; `Launch` is the backend up to its last check, `Start` takes a step number and
starts the run, and `Record` is the append to `runs`, whatever its outcome. One call of `run_external` is one step because
nothing else of this module can see inside. The history variable `beyond` has no counterpart in the code: it holds the
conversations that had passed their last check when the flag was set, and only `CancelHeeded` reads it.

**`Allocator`** takes one step per iteration of the buddy loops (`Split`, `Merge`), so that an invariant speaks of the lists
in the middle of them too. `Size` maps levels to powers of two. The policy is a variable chosen in `Init`, as it is an
argument of the constructor.

**`LiveEquations`** has the equations over a graph `g`; **`Liveness`** the worklist over a graph chosen in `Init`. The code's
deque is modelled as the set of waiting blocks and any of them may be served, so nothing depends on the order. Use/def
providers are abstracted to the operand sets of the graph.

**`Dataflow`** is the forward solver with the constant-propagation client: `MeetIn` and `Transfer` are what a visit computes,
`FlowVisit` is one visit in the order of the deque `flow_worklist`; when that is empty a run of the analysed program begins
(`flow` says which), and `FactsHold` holds the facts against it. `FlowGraphs` fills graph shapes with instructions.

**`IrCode`** holds what the optimizer's modules share: instructions, the control flow of blocks and of FOR/ENDFOR pairs as the
adapter normalises it, the verifier's check that values are defined on every path, and the interpreter, errors and step
budget included. Integers have `Width` bits, so that folding for the processor (which wraps) and for the interpreter (which
does not) differ on small numbers. **`IrPasses`** runs a pipeline: a pass begins with what it collects over the whole function
(`facts`, `aliases`), goes on block by block or loop by loop, and may raise between two of them; `Checked` is the verification
between passes. When the pipeline is through, both programs are run on every input. `IrPrograms` has the programs.

**`MachineCode`** partitions a flat item list into blocks and builds their edges as `build_cfg_from_instructions` does.
**`Allocation`** is what the two allocators share: the graph, `Liveness`' equations on it, the output. **`GreedyAlloc`** allocates
item by item: `Allocate` is the body of the loop of `_allocate_greedy`, with `pool` for `_reg_pool` and `clean` for `_clean_slots`.
**`LinearScan`** has the intervals, the scan (`Place` is one interval) and the rewriting (`Rewrite` is one item): the record
`rw` is what the rewriting knows of registers and slots. **`Backend`** chooses allocator and program in `Init` and adds a machine
that runs the output beside the program's text: an instruction computes any value, the same for the variable in the text
and for the register in the code, a call destroys the caller-saved registers, a branch goes either way. The machine is
the specification against which the allocators are judged and no code of the repository. `BackendPrograms` has the programs.

**`AsmText`** is a line of assembly as the passes see it, with aliases of register names, and what the processor does with it,
on short words. **`Peephole`** takes one step per window; **`ConstMerge`** and the region rules are functions of the text;
**`Scheduler`** builds the graph of a region and picks from the ready list one instruction at a time; `RunOf` runs a region in
a given order, which is what `VerifierSound` measures `verify_schedule` by. **`AsmPasses`** is the driver:
any sequence of passes, each on the text that the one before returned, then both texts run in step and must show the same
(stores, branch decisions, calls with their argument, results).

**`WeightBundle`** has one action per file operation of writer and reader, on the contents of `BundleContents`. Names refer to inodes, a reader keeps the inode it
opened, and a power failure loses what was not synced. The writer's `hash` is taken while it writes; the reader's three
looks (lstat, open, the last stat) are separate. **`ProcessRunner`** has two nested calls of `_run_process`, the processes
they start, their groups and who holds the pipes; `ours` is the code's two kinds of ownership.

`MCHartTeam`, `MCTeam`, `MCExternal`, `MCHost`, `MCAllocator`, `MCLiveness`, `MCAnalyses`, `MCAsmPasses` and `MCCodegen` give
the constants their values. Five of them put components of one layer side by side: a variable `part`,
chosen in the initial state, says which of them moves in this behaviour, and the other rests in one of its initial states.
The parts share no step, so such a run shows of each what a run of its own would.

The theorems are in `HartTeamProofs`, `ExternalProofs` (with the runner of commands), `HostProofs` (generation and weight
bundles), `PlacementProofs` (NPU allocator, scheduler and what the text passes write), `AnalysesProofs` (liveness and constant propagation), `BackendProofs` (the
greedy allocator) and `LinearProofs` (linear scan, on what `BackendProofs` says of code and machine). `NumberLemmas` says that sets
of numbers have a least and, below a bound, a greatest element, which stands in for induction in most of them.

## 3. Runs, bounds and fairness

| Run | Shows | Bounds, and why they are enough |
|---|---|---|
| `team2` | the inductive invariant; joined loops are complete; the frame is true; loops end, failures and frames reach the host; the team refines `ForkJoin` | two cores are one publisher and one worker; a worker may still be ringing for one loop when the next is published, and the third starts from what that left; the proofs carry the safety part to any number of cores |
| `team4` | `sv_failure` keeps the first failure; every iteration runs on exactly one core | four cores are the most the code accepts, and several workers trap in one loop; counts up to 20 on 1, 2 and 4 cores have fewer iterations than cores and all remainders |
| `external` | of `run_external`: a run that returns loaded the right bytes, completed with exactly one frame and left no copies; a frame that arrives while the host sleeps wakes it; copies of failed runs stay; `run.json` and `transport.json` agree with what happened. Of commands: nothing owned survives, no caller is killed, both end | one waiter with inotify and pidfd and no deadline, one that polls, with a caller that cancels, a deadline, QMP that answers or stays silent, and SIGTERM between the handlers too (between `Popen` and `process`, between cleanup steps, between the creation of a copy and its mark: the first and the last are the gaps that `NoOrphanButForGaps` and `ResidualTruth` leave out, section 5); one transport file, since files are treated alike and independently; a host and a worker, which is as deep as the repository nests `_run_process`, two SIGTERMs |
| `host` | two conversations share a backend under cancellation and deadlines, and once the flag is set no forward starts, no token is appended and no reply is kept but for what was past its check; a bundle is published whole, accepted truthfully and refused for cause | capacity 5, budgets 0, 1 and unlimited: each stop reason alone and together; two turns each, so that a reply can meet a changed history; two tensors, so that a file can be half changed, two interferences |
| `allocator` | until two blocks have been merged blocks are apart and none is lost (`ApartUntilMerged`, `NothingLost`); first fit never overlaps | a 16-unit pool in the proportions of the default one (a seed list of unequal blocks at an odd base); four allocations reach split, exhaustion, merge and reuse |
| `analyses` | liveness is never above the least solution and is what the paths read; constant facts hold; optimized programs end as their sources do, and what is generated is still accepted by the verifier; both worklists end | liveness: all graphs of three blocks with up to two successors, up to the names of the blocks, and phi graphs. Constants: four-block shapes with joins and loops in which every block defines something. Optimizer: one loop, nested loops, blocks out of order, with what can fail (division, loads of unwritten cells, undefined values) inside and before; 3-bit integers; 45 steps are more than any of these programs takes |
| `codegen` | allocated code finds the program's values on every path, and refusals are justified; texts show the same after the passes; the list never runs dry, its candidate passes the check, and what the check accepts is equivalent | the shapes selection emits for conditionals, loops, calls and blocks out of order, three variables in two registers, one caller-saved, so that every shape spills; texts of up to six lines around every window rule, lui/addi pair and kind of dependency |
| `external_signal`, `allocator_overlap`, `dataflow`, `backend_dead`, `peephole` | the disagreements of section 5 | |

Deadlock checking is off in every configuration because every one of these systems may stop: a halted guest, an ended run,
turns used up, an empty worklist, a finished program. That nothing stops too early is stated as liveness where it matters
(`LoopEnds`, `FrameSent`, `CallsEnd`, `BothConverge`).

Fairness. *Worker team*: each core's next step and the draining of each store buffer are weakly fair. QEMU gives each vCPU
a host thread, and a store does not stay in a buffer for ever. Nothing is asked of a spurious wake-up or of a trap.
*External run*: the host's steps are weakly fair, its giving up on QMP at the deadline among them, and
time passes where the waiter polls; nothing is asked of guest, QEMU and its answers, caller or file system. *Commands*: a call
that has begun and was not killed goes on, its deadlines included; nothing is asked of the commands, of their descendants or of who sends signals. *Worklists*: the `while` loops go on. The rest has safety properties.

Each property has a mutation beside the definition it changes (`Mutation of ...`): a dropped guard, a wrong order, a missing
reset, a fact that is kept too long. With it, the same run reports that property violated.

## 4. Proofs

Run by TLAPS from the assumptions named in the modules: at least two cores, a positive capacity, sizes that double, types of
the constants. No bound of section 3 is assumed.

**Worker team** (`HartTeamProofs`). `JobStable` and the others are not inductive: whether core 0 may rewrite the job depends
on what each worker last reported, and that on which of its stores are still on the way. `IInv` says, per place of the code,
which stores may be pending (`MainPending`, `WorkerPending`); that the memory before the handshake is core 0's alone
(`Handshake`); that a job's arguments are in RAM before its number (`Published`); how far each worker is behind
(`Progress`); which workers core 0 has heard of (`Joining`); and what a frame or a failure implies (`Verdict`). `Inductive`
proves it for any number of cores and loops, one step per action; the safety properties, `FirstFailureWins` and the
refinement of `ForkJoin` follow from it.

**Shares** (`HartTeamProofs`). `SharesPartition` is arithmetic: the cuts `count * core / cores` are monotone and meet at the ends.
`LoopIsShared` goes on to the spec: the iterations run so far are the union of the shares of the cores that had their
turn, so at the end each iteration has run on exactly one of them. Team sizes are those the code accepts, counts are free.

**Generation** (`HostProofs`). `GInv` adds to the properties what the loop's test leaves behind (`StopTruth`: no stop
reason means room and budget for one more token) and that an active turn knows its history (`Replying`).
`Heeding` says who may stand right behind a check while the flag is set: only who
stood there when it was set, because whoever comes there has just asked. `CancellationHeeded` follows: each of the three things
a cancelled turn could still begin is begun from such a place, and its conversation leaves `beyond` with it.

**External run** (`ExternalProofs`). Every one of its six invariants is proved, for any number of copies and any mode of calling.
`IInv` has a part per question: when the verdict is open (`Verdict`); what the host's variables say of QEMU, place by place
(`Ownership`); that the second look comes after QEMU is gone (`LastLook`); which operation on the copies may run where, and
that only a run that passed unlinks (`Calling`); that a copy of this stage is marked in its row of the report, whatever step failed,
unless SIGTERM fell between its creation and the mark (`Accounted`, `Unmarked`); and that bytes which are good at the postcheck were good
when QEMU loaded them, because after the stage nothing turns good again (`Computed`, `GoodGrows`) - so a check of the copies after the run speaks of what was loaded before
it. `Removal` follows a PASS from the first unlink to the last save. The steps of the try body come to three shapes
(`Failed`, `Advanced`, `Cleaned`), and each part is kept by each shape. Where SIGTERM may fall between the handlers, `NoOrphan`
is not proved and `ResidualTruth` says nothing of a copy without a mark: the code breaks both there, see section 5.

The runner of commands has an invariant of its own, `RunnerInv`: who has been born at which place of a call (`Births`), which
group each process is in (`Groups`), that a call owns something from its first step to its last (`Handled`), that what it has
stopped stays stopped (`Stopped`), and that a caller which SIGTERM ended leaves no child (`Ended`). It gives `OwnedIsGone`, for any
number of SIGTERMs at a call's waits, and with `Groups` `NoSuicide`: no group that a step signals is its caller's.

**Allocator** (`PlacementProofs`). First fit: what was handed out lies below the pointer of its region (`UnderPointer`), and
pointers only rise between resets, so it never overlaps. Buddies: `Region` holds whatever is merged: every block that is
listed, being split or handed out lies in the general region, because a buddy is only used when it is listed and a block
of the largest level can have none that is. `Sound` holds until the first merge: the blocks of all lists and the taken ones are
pairwise apart (`Disjoint`), cover what the lists were seeded with (`Whole`), and each area held is the head of a taken block or a
piece of the scratchpad of its own (`Held`). `BlocksApart` and `BlocksKept` follow for every pool, request and alignment. Behind
a merge neither holds of the code, see section 5.

**Weight bundles** (`HostProofs`). `IInv` has one part per actor. `WriterInv` says, place by place, what the writer has
written and what of that is on disk; it holds as long as no other process interferes, and a power failure in any of these
places leaves nothing published or all of it (`Durable`). `ReaderInv` holds whatever others do: a name that the reader has
looked at and whose fingerprint still matches refers to the file it has open, and what it read is in there; so when the
weights pass their last look, and the manifest will pass its own, both were in place together (`Snapshot`). What others do
enters as one fact, `FileStep`: a name or an open file that changes loses its fingerprint. `Undisturbed` gives `Acceptance`. Assumed: at
least one tensor, and bytes that can be told from a gap.

**Liveness** (`AnalysesProofs`). `Settled` (who does not wait is up to date) and `BelowEverySolution` are inductive together with
the types; when nobody waits they give `AnswerIsLeast`. `LiveIsReadLater` compares that answer with paths, whose definition knows
nothing of equations. One half is that what is read along paths solves the equations, so the least solution is below it.
The other half would be an induction over the length of a path. Instead it takes a shortest path that refutes it: its
tail is shorter and does not. Paths as long as there are blocks are enough because a cycle can be cut out (`Route`).

**Constant propagation** (`AnalysesProofs`). `FlowInv` says that a block which has been visited and does not wait agrees with
its predecessors (`Followed`), that a run begins when nobody waits and only comes to blocks behind one that was visited
(`Walking`), and that the facts are true of it. `FactsAreTrue` assumes `EveryBlockDefines`: each block but the entry holds an instruction that defines something.
Without that the theorem is false of the code (`dataflow`, section 5), and with it a visit always changes something the
first time, so every block that a run can reach is visited. The graphs of `analyses` are of this kind.

**Scheduler** (`PlacementProofs`). The ready list counts the predecessors that are not placed yet. `ScheduleRespects` proves from
that count, for every region and for any choice among the ready instructions, that no instruction is placed twice or before
one it depends on, and that the list runs dry only when all is placed. The last part needs that every edge points forward
in the text, which holds of `BuildDag`: a nonempty set of unplaced instructions has a first one, and that one is ready.
`CandidateVerified` goes on to the judge that does not know the graph: an order that respects the edges of `Edges(region)` is
accepted by `Verified`. Only the *next* writer, access or terminator is linked, so the proof first shows (`Chain`) that a set
of places whose neighbours keep their order keeps it as a whole; the last writer before a read and the first write behind it
then carry the order over to all writes of that register (`ReadBehindWrite`, `WriteBehindRead`), which makes the last writer of
every read the same one. A terminator stays where it is because everything else is linked before the first of them. Assumed
of a region: its registers are `Registers`, and nothing follows a terminator in it but terminators (`build_dag` refuses else).
`AcceptedIsSound` is about the judge alone, for an order that anyone proposed: an instruction of an accepted order finds each of
its operands as in the original, since it reads behind the same writer, and that writer is by the same argument, taken
for the first instruction that differs, right too; memory accesses and flag effects keep their order. `ScheduleIsSound`
puts the two together.

**Assembly text** (`PlacementProofs`). `WindowsKeepRegisters`: for every rule of the table and every window that it takes, from any
registers and memory, what the rule writes leaves in each register what the window left and shows others the same (`Showing`:
a branch on x0 goes where it says, nothing else is seen), and the window's label stays. It is arithmetic on words: a
number may be reduced modulo `Words` before or after an addition, so two immediates may be added first. The theorem says
what is not promised, too: the register that the rule for two moves gives up (finding `peephole`), and two moves by way of
x0, where the first has no effect. `MergedKeepsRegisters` is the same for the li that replaces a lui and an addi: the sign
extension and the signed word of the code, which subtracts a whole range of them if the sum is large, agree with the machine's
sum. Both are about the lines that are replaced, of any text. `LuiRemovalUnnoticed` is about whole texts and runs of any length:
what the pass takes for known in front of a line is true of a machine there (`Holds`, kept by every step: a jump arrives at a
label, where nothing is known), so a redundant lui writes what its register holds, and the text without it is run in the
same states. That the output of all passes together behaves like its source is `SameBehaviour`, and checked.

**Greedy allocator** (`BackendProofs`). `GreedyRefusals`: for any code, any bank of registers and any liveness, the allocator raises
only at an instruction whose sources, or whose sources and definitions, are more values than there are registers; it is
never the spilling that runs out. The invariant is about the pool only: no value is in two registers (`Distinct`, which is
`OwnersAreDistinct`). While an operand is placed the registers of those placed before it are avoided; if no other is
left, they hold as many different values as there are registers, and the operand is one more (`Crowding`). The loops over operands
are recursive functions of a position; `LoopsUnfold` gives one step of each, and what a step keeps is carried along by the
first position that would not have it. The hypothesis `Sound` says what the constants must be: programs are sequences of items with
operands among the values, only computations define something, every goal has its label, and the bank is not empty and
names no register twice. `MCCodegen` assumes it, so TLC evaluates it on the instances.

`GreedyComputes` is `SameValues` for this allocator: what it emits computes what the program says, on every path, for any
program, bank, caller-saved registers and number of values. The allocator follows the text and the machine follows
the edges, so the proof has two halves. The first is about the text. What is *known* of the machine at a point of the code
is a record: the variables that each register holds, and those that their slots hold. An allocator state is `Ready` on it if every
value still needed is where the pool, or else the slots, say. `Translated` says of one item that its code leads from
everything its state is `Ready` on to something the next state is `Ready` on (`Trace`, through each spill, reload and the item
itself), and that at a place another block may be entered from all that is needed is in slots as well. `ItemSecured` and the
lemmas before it show this of operands, victims, destination, calls and flushes. `History` strings the items together:
a function f with the allocator's state at each item it has come to, which is what the induction over the text needs
and the specification does not keep. Liveness enters by its equations alone (`Flows`): what is needed behind an edge is needed
in front of it. The second half is about the machine: `Computing`, inductive together with `GreedyInv`, says that at the
present `pc` what is known from `History` is true of `env`, `regs` and `mem` (`AtPlace`, `Agree`), and there is one lemma per
action of the machine (`EnterGoesOn`, `SpillGoesOn`, ... `PassesOn`): a step to the next instruction stays in the trace of its
item, a fallthrough or jump arrives at a place whose state was `Ready` for whoever comes.

The hypothesis `LaidOut` is about the program, not the allocator: no two labels in a row, nobody goes back to the first item, the
entry values fit the bank, and what a block expects was saved by a block further up the text, has a slot reserved
from the start, or comes from outside. Without the first and the last the theorem is false of the code (section 5); 2646 of the 3002 programs that
`codegen` gives to the greedy allocator are laid out so, and `SameValues` is model-checked of the rest as well.

**Linear scan** (`LinearProofs`). The scan: `Planning` says that the intervals are those of the program (`HullIs`: each covers its
variable's writes up to the last use, and every block that expects the variable or leaves it behind), that active intervals
and free registers together fill the bank (`Manned`), and that, as long as nobody is spilled (`Undisturbed`), intervals at one
register lie one behind the other and each register is free or has one active interval. `LinearHomes` is what a reader
should know of it.

The rewriting: its state is seen as a state of the greedy allocator (`As`), and what is known of the machine as the same kind of
record, so that spills and reloads, victims and the trace of an item are the lemmas of `BackendProofs` again. `Standing` says
that what is still needed is in its register or slot, and `ItemDone` what an item does to that: either its operands are
crowded, or its code leads on to a state that stands again (`Made`). If everything crosses the edges in slots (`InSlots`: somebody
is spilled, or there is a call), the last item of a block must have saved all that is live behind it. If not, nobody may ever leave
his register (`AtHome`), and here the plan comes in: whoever is needed at an item has an interval that covers the item, so no
claim finds another one at home there. Two blocks need not agree with each other; each is entered with the same thing from
everywhere, `Handing`: all it expects in slots, or all of it at home. `Story` strings the items together as `History` does for
greedy, `Bridges` says that the end of each leads to the beginning of whatever may run next, and `LinearComputing` is
inductive together with `GreedyInv`, `Planning` and `Naming` (nobody is expected anywhere who is no variable of the program): the
machine is where the story says, with what it says.

`LinearComputes` is `SameValues` and `LinearRefusals` the half of `RefusedForCause` about linear scan, both for any program, liveness,
bank and caller-saved registers under which `Handled` holds: a block expects nothing that no block leaves behind (what
liveness says of every block that something leads to), and, unless everything crosses edges in slots, each write lies
within its variable's interval. The second part is needed: it is what `backend_dead` breaks. Values from outside are
excluded only where edges are crossed in slots, because the entry puts them into registers and not there. `LinearRefusals` asks
nothing of the first block, since what that block expects from nowhere is one of the causes. Of the 811 programs that
`codegen` gives to linear scan, 701 are handled; of the others `SameValues` and `RefusedForCause` are model-checked.

Only model-checked, and why. All liveness properties and everything about `ENABLED`. `SameBehaviour` and `SameOutcome`, where the
output of several passes is run by a machine beside its source: each needs a relation between two machines at every place of a
text that was put together pass by pass, as `LinearComputes` has for one pass. `StillVerified`: the facts that optimizer
and verifier collect are RECURSIVE operators and folds, out of the prover's reach. `SameValues` and `RefusedForCause` of programs
that are not `LaidOut` (greedy) or not `Handled` (linear scan): they are proved of all others.

## 5. What the code does not do

*SIGTERM can leave QEMU behind* (`external_signal`). The handler raises `SystemExit` at the next bytecode. Between the return
of `Popen` and the assignment of `process` (`riscv_external.py:710`), and between two guarded cleanup steps, nobody kills the
guest, although the comment at line 692 says termination must unwind through cleanup.

*SIGTERM can leave a copy that the report denies* (in no run of its own). Between `open("xb")` (`weight_transport.py:194`) and
`row["created"] = True` the file exists and its row does not say so. `_observe_retained` looks at the rows marked as created
(line 61), so `transport.json` says that nothing is retained while the empty file is there. `TerminateStaging` takes this step,
and `ResidualTruth` and its theorem are stated up to it: without the exception TLC finds it within `external`.

*Merged buddy blocks overlap* (`allocator_overlap`). `_buddy_free_block` lists the freed address before it looks for the buddy
and on a merge takes only the buddy off its list. `alloc(64), alloc(64)`, both freed, `alloc(256)` and `alloc(2**20)` return the
same address.

*A value that is written again where it is dead* (`backend_dead`, one program for each allocator). Greedy: slots for values
that cross an edge are reserved if the text reads them before any definition. A name that is defined early, dead, and
defined again in a block laid out behind its reader gets none in time, and the reader takes a register that was never
loaded. Linear scan: an interval ends behind the last use, so a later write that nobody reads takes a register which
another interval holds by then, in the middle of a loop whose head was told to find that value there.
Selection emits such text only if a temporary's name is reused. The passing run leaves these programs out (`MCScanned`).

*The rule for two moves loses a copy* (`peephole`). `mv a, b; mv c, a` becomes `mv c, b` if the local scan takes `a` for dead; it
takes a return and the end of the text for the end of every register's life, passes over jumps, branches and calls to the
lines behind them, and does not know that two names are one register. `SameBehaviour` of the passing run is stated up to
copies lost in this way (`dropped`).

*Blocks that define nothing hide what is behind them* (`dataflow`). Only the entry's successors are put on the worklist, and a block
passes work on only if its own value changed; behind a block that leaves the initial value alone nothing is visited, and a
join believes the other path alone. The passing run has graphs in which every block defines something.

Met while modelling, each also seen by calling the code, and in no run: two consecutive labels, the first reached by
fallthrough only, lose the values carried over the first; first fit recognises no `free`, because no
region is ever marked used; `L1Cache.flush` says it invalidates and does not; alignments above the cache line hold only
where they divide the base of the region (no property speaks of addresses' alignment).

## 6. Not modelled

Inside modelled components: the checks before `run_external`'s try body and `build_external`; the monitor of QEMU's resident
memory, which only observes; allocation statistics; the naive mode and the floating-point bank of the register allocator,
slot offsets, and operands already in registers, which selection never emits in allocatable ones. In `WeightTransport` the
test that a file is its own and its unlink are one step, and a file whose inode number was reused counts as replaced. Bytes
changed and changed back between two looks do not occur. In `HartTeam` the compiled model is a sequence of loops.

In `ProcessRunner`: the Windows jobs, and numbers of processes that are used again. In `WeightBundle`: `plan_guest_memory`, the
checks of the manifest's fields, rewrites that leave size and time stamps as they were, and directory entries, which the
code never syncs and of which the model promises nothing. In `Dataflow`: the backward solver, SUB and DIV, floats and NaN
(a constant NaN differs from itself, so a loop that loads one never settles); only tests and exports use this module. In
`IrCode` and `IrPasses`: tensors, floats and strings, and the foldings that are about them; a `RecursionError` stands for
everything that may stop a pass half way. In the schedulers: layouts the parser does not understand (the text is left alone),
strict mode, statistics; llvm-mca may prefer either text. In `LinearScan`: the v1.5 variant that is kept for comparison,
physical operands, the floating-point bank. The iteration limit of `const-merge` is never met by texts of this size.

Whole components: front ends (functions of one text), instruction selection and emission (a table of opcodes), stack frames
(one layout per function), the selection DAG (which drops labels and loops) with its cache model (a counter of hits), the
LLVM path and kernels (text for an external compiler), simulators and encoder (functions of 32-bit words), the tokenizer,
reports, estimators, CI pages and the standalone demonstrations of the same pipeline. Tests, probes, benchmarks and scripts
are not part of the system; they were read for what they say of it. These make up most of the lines of the repository:
what is modelled is where order, failure or a long history matters, and that is a small part of it.

## 7. Plan

What is left, in order of use: `SameValues` of linear scan with writes outside their intervals where they do no harm; `StillVerified` with
facts defined by recursive functions; the backward solver and its clients, once the code uses them; `plan_guest_memory`.
