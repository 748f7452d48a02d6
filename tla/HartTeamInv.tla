---------------------------- MODULE HartTeamInv ----------------------------
(***************************************************************************)
(* The inductive invariant of HartTeam: which stores may be on their way   *)
(* at each place of the code, how far each worker is behind the published  *)
(* loop, and what core 0 knows at each place.  TLC checks it, and          *)
(* HartTeamProofs proves it for every number of cores and loops.           *)
(***************************************************************************)
EXTENDS HartTeam

\* Where the stores of a core can still be waiting (elsewhere: nothing).
MainPending ==
    /\ pc[0] = "release" => pend[0] \subseteq {"bss"}
    /\ pc[0] = "clear"   => pend[0] \subseteq (IF k = 0 THEN {} ELSE {"out"})
    /\ pc[0] = "check"   => pend[0] \subseteq (IF k = 0 THEN {"clear"} ELSE {"out", "clear"})
    /\ pc[0] = "commit"  => pend[0] \subseteq {"job"}
    /\ pc[0] = "notify"  => pend[0] \subseteq {"job", "gen"}
    /\ pc[0] \notin {"release", "clear", "check", "commit", "notify"} => pend[0] = {}

WorkerPending(w) ==
    /\ pc[w] = "check" => pend[w] \subseteq {"clear"}
    /\ pc[w] = "done"  => pend[w] \subseteq {"out"}
    /\ pc[w] = "bell"  => pend[w] \subseteq {"out", "done"}
    /\ pc[w] \notin {"check", "done", "bell"} => pend[w] = {}

\* Before the handshake core 0 is alone and the loop counters are untouched.
Booting == pc[0] \in {"zero", "release"}
Handshake ==
    /\ boot = ~Booting
    /\ Booting =>
        /\ mine = 0 /\ k = 0 /\ frame = NoFrame
        /\ \A c \in Cores : out[c] = 0
        /\ \A w \in Workers : pc[w] = "spin" /\ seen[w] = 0
    /\ pc[0] = "release" /\ pend[0] = {} =>
        /\ gen = 0 /\ job = 0 /\ failure = 0
        /\ \A w \in Workers : done[w] = 0

\* The published loop: its arguments are in RAM before its number is.
Unpublished == pc[0] = "commit" \/ "gen" \in pend[0]
Published ==
    boot =>
        /\ gen = IF Unpublished THEN mine - 1 ELSE mine
        /\ "job" \notin pend[0] => job = mine
        /\ "job" \in pend[0] => Unpublished

\* A worker's progress through the published loop.
Idle == {"spin", "arrive", "hello", "clear", "check", "test", "wfi", "parked"}
Progress(w) ==
    boot =>
        /\ done[w] \in {gen - 1, gen}
        /\ pc[w] \in Idle => seen[w] = done[w] /\ out[w] = done[w]
        /\ pc[w] \in {"read", "run", "done", "trap", "alarm", "dead"} =>
              /\ want[w] = gen /\ done[w] = gen - 1
              /\ out[w] = IF pc[w] = "done" /\ "out" \notin pend[w] THEN gen ELSE gen - 1
        /\ pc[w] \in {"run", "done"} => arg[w] = want[w]
        /\ pc[w] = "bell" =>
              /\ "done" \in pend[w] => want[w] = gen /\ done[w] = gen - 1 /\ arg[w] = want[w]
              /\ "done" \notin pend[w] => done[w] = want[w] /\ "out" \notin pend[w]
              /\ out[w] = IF "out" \in pend[w] THEN want[w] - 1 ELSE want[w]

\* Core 0 has heard of every worker's share of the loop "mine".
Quiet ==
    \/ pc[0] \in {"model", "publish", "after", "last", "emit"}
    \/ pc[0] \in {"clear", "check", "test", "wfi"} /\ k = 0
    \/ frame = Result

Joining ==
    boot =>
        /\ Quiet => \A w \in Workers : done[w] = mine
        /\ Unpublished => \A w \in Workers : done[w] = gen
        /\ pc[0] \in {"clear", "check", "test", "wfi"} =>
              \A w \in Workers : w < k => done[w] = mine
        /\ pc[0] = "notify" => k \in Workers
        /\ pc[0] = "run" => k = 1

\* Core 0's own share.
MainShare ==
    boot =>
        /\ out[0] \in {mine - 1, mine}
        /\ Quiet => out[0] = mine
        /\ pc[0] \in {"commit", "notify", "run"} => out[0] = mine - 1
        /\ pc[0] \in {"clear", "check", "test", "wfi"} =>
              out[0] = IF "out" \in pend[0] THEN mine - 1 ELSE mine

Verdict ==
    /\ frame # NoFrame => pc[0] = "halt"
    /\ boot /\ failure # 0 => pc[failure] \in {"alarm", "dead"}
    /\ pc[0] = "emit" \/ frame = Result => failure = 0
    /\ frame \in Workers => pc[frame] \in {"alarm", "dead"}

IInv ==
    /\ TypeOK
    /\ MainPending /\ \A w \in Workers : WorkerPending(w)
    /\ Handshake /\ Published
    /\ \A w \in Workers : Progress(w)
    /\ Joining /\ MainShare /\ Verdict
=============================================================================
