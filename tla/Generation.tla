------------------------------ MODULE Generation ------------------------------
(***************************************************************************)
(* scratchv/runtime/conversation.py, generation.py, llm_inputs.py and      *)
(* qemu_generation.py: conversations that generate replies token by token, *)
(* each token by one QEMU guest, on one QemuForward they share.  Every     *)
(* conversation has a thread of its own; the shared backend is serial and  *)
(* refuses an overlapping call.  Cancellation and deadlines are            *)
(* cooperative: they are looked at in places and can come between any two. *)
(*                                                                         *)
(* Texts and token lists are abstracted to their lengths, a message costs  *)
(* one token more than its text, and a sampled token is a word, EOS or an  *)
(* unused vocabulary row.                                                  *)
(***************************************************************************)
EXTENDS Integers, Sequences

CONSTANTS
    Talks,      \* the conversations
    Capacity,   \* SEQ_LENGTH
    Budgets,    \* values of max_new_tokens
    NoOne,      \* the lock is free
    MaxTurns    \* bound: turns begun in one conversation

ASSUME CapacityAssumption == Capacity \in Nat \ {0}
ASSUME BudgetAssumption == Budgets \subseteq Nat
ASSUME NoOneAssumption == NoOne \notin Talks
ASSUME MaxTurnsAssumption == MaxTurns \in Nat

VARIABLES
    pc,         \* [Talks -> place in turn, generate and QemuForward.__call__]
    history,    \* [Talks -> [turns, tokens] of _history]
    busy,       \* [Talks -> _busy]
    turn,       \* [Talks -> the locals of the active turn, or NoTurn]
    begun,      \* [Talks -> turns begun]
    owner,      \* holder of QemuForward._lock, or NoOne
    step,       \* _next_step
    runs,       \* runs: the directories of its records
    cancel,     \* the shared cancellation callback answers True
    over,       \* the deadline of the backend has passed
    beyond      \* history variable: conversations that had passed their last check
                \* when cancel was set, and have not acted on it since

talkvars == <<history, busy, turn, begun>>
backvars == <<owner, step, runs>>
signals  == <<cancel, over, beyond>>
vars     == <<pc, talkvars, backvars, signals>>

Places == {"idle", "check", "forward", "launch", "start", "guest", "got", "sample",
           "append", "decode", "commit"}
Acting == {"start", "append", "commit"}  \* the places right behind a check
Stops == {"none", "eos", "capacity", "max_new_tokens"}

\* prompt: valid_length of the rendered prompt; words: length of generated;
\* late: timeout_seconds have passed; seen: turns of the history the prompt was
\* rendered from.
TurnOf(prompt, words, budget, stop, late, seen) ==
    [prompt |-> prompt, words |-> words, budget |-> budget, stop |-> stop,
     late |-> late, seen |-> seen]
NoTurn == TurnOf(0, 0, 0, "none", FALSE, 0)

Length(c) == turn[c].prompt + turn[c].words
Goto(c, from, to) == pc[c] = from /\ pc' = [pc EXCEPT ![c] = to]
\* What c does now, it asked about before.
Act(c) == beyond' = beyond \ {c} /\ UNCHANGED <<cancel, over>>

\* Mutation of StopReason: the capacity is not looked at.
StopReasonWithoutCapacity(length, generated, most, token) ==
    IF generated > 0 /\ token = "eos" THEN "eos"
    ELSE IF generated >= most THEN "max_new_tokens" ELSE "none"

\* generation_stop_reason: EOS, then capacity, then the budget.
StopReason(length, generated, most, token) ==
    IF generated > 0 /\ token = "eos" THEN "eos"
    ELSE IF length = Capacity THEN "capacity"
    ELSE IF generated >= most THEN "max_new_tokens" ELSE "none"

-----------------------------------------------------------------------------
(* Conversation.                                                           *)

\* turn up to generate's deadline: render the history and the user's text,
\* check that it fits and whether there is something to generate.
Begin(c) ==
    /\ ~busy[c] /\ pc[c] = "idle"
    /\ begun[c] < MaxTurns
    /\ begun' = [begun EXCEPT ![c] = @ + 1]
    /\ LET length == history[c].tokens + 2 IN
       \/ length > Capacity /\ UNCHANGED <<pc, busy, turn>>
       \/ /\ length <= Capacity
          /\ pc' = [pc EXCEPT ![c] = "check"]
          /\ busy' = [busy EXCEPT ![c] = TRUE]
          /\ \E most \in Budgets :
                turn' = [turn EXCEPT ![c] =
                            TurnOf(length, 0, most, StopReason(length, 0, most, "none"),
                                   FALSE, history[c].turns)]
    /\ UNCHANGED <<history, backvars, signals>>

\* The finally clause of turn.
End(c) ==
    /\ pc' = [pc EXCEPT ![c] = "idle"]
    /\ busy' = [busy EXCEPT ![c] = FALSE]
    /\ turn' = [turn EXCEPT ![c] = NoTurn]

\* An exception in generate leaves the history alone.
Raise(c) == End(c) /\ UNCHANGED <<history, begun>>

\* Mutation of Reset: an active turn does not refuse it.
ResetAnytime(c) ==
    /\ history[c].turns > 0
    /\ history' = [history EXCEPT ![c] = [turns |-> 0, tokens |-> 0]]
    /\ UNCHANGED <<pc, busy, turn, begun, backvars, signals>>

\* reset, by the conversation's own thread, which may be in a callback of its turn:
\* refused while a turn is active.
Reset(c) ==
    /\ ~busy[c]
    /\ history[c].turns > 0
    /\ history' = [history EXCEPT ![c] = [turns |-> 0, tokens |-> 0]]
    /\ UNCHANGED <<pc, busy, turn, begun, backvars, signals>>

\* A reply of at least one token is kept together with the user's message.
Commit(c) ==
    /\ pc[c] = "commit"
    /\ End(c)
    /\ history' = [history EXCEPT ![c] =
           IF turn[c].words = 0 THEN @
           ELSE [turns |-> @.turns + 1, tokens |-> @.tokens + turn[c].words + 2]]
    /\ Act(c)
    /\ UNCHANGED <<begun, backvars>>

-----------------------------------------------------------------------------
(* generate.                                                               *)

\* check_abort, and on to the next place.
CheckAbort(c, from, to) ==
    /\ pc[c] = from
    /\ \/ ~cancel /\ ~turn[c].late /\ Goto(c, from, to) /\ UNCHANGED talkvars
       \/ (cancel \/ turn[c].late) /\ Raise(c)
    /\ UNCHANGED <<backvars, signals>>

Check(c)  == CheckAbort(c, "check", IF turn[c].stop = "none" THEN "forward" ELSE "decode")
Got(c)    == CheckAbort(c, "got", "sample")
Decode(c) == CheckAbort(c, "decode", "commit")

\* last_valid_logits and validate_token_ids refuse, or check_abort goes on.
Sample(c) ==
    \/ CheckAbort(c, "sample", "append")
    \/ pc[c] = "sample" /\ Raise(c) /\ UNCHANGED <<backvars, signals>>

AppendToken(c) ==
    /\ Goto(c, "append", "check")
    /\ \E token \in {"word", "eos"} :
          turn' = [turn EXCEPT
              ![c].words = @ + 1,
              ![c].stop = StopReason(Length(c) + 1, turn[c].words + 1, turn[c].budget, token)]
    /\ Act(c)
    /\ UNCHANGED <<history, busy, begun, backvars>>

-----------------------------------------------------------------------------
(* QemuForward.                                                            *)

\* Mutation of Enter: the lock is taken whoever holds it.
EnterAnyway(c) ==
    /\ owner' = c /\ Goto(c, "forward", "launch")
    /\ UNCHANGED <<talkvars, step, runs, signals>>

\* __call__: take the lock or refuse.
Enter(c) ==
    /\ pc[c] = "forward"
    /\ \/ /\ owner = NoOne
          /\ owner' = c /\ Goto(c, "forward", "launch") /\ UNCHANGED talkvars
       \/ owner # NoOne /\ Raise(c) /\ UNCHANGED owner
    /\ UNCHANGED <<step, runs, signals>>

\* Mutation of Launch: a refused call has used its directory.
LaunchCountsRefusals(c) ==
    /\ pc[c] = "launch"
    /\ \/ ~cancel /\ ~over /\ Goto(c, "launch", "start") /\ UNCHANGED <<owner, step, talkvars>>
       \/ (cancel \/ over) /\ owner' = NoOne /\ Raise(c) /\ step' = step + 1
    /\ UNCHANGED <<runs, signals>>

\* Mutation of Launch: whoever holds the lock does not ask again.
LaunchUnasked(c) ==
    /\ Goto(c, "launch", "start")
    /\ UNCHANGED <<talkvars, backvars, signals>>

\* _cancelled and the remaining time: a refusal uses no directory.
Launch(c) ==
    /\ pc[c] = "launch"
    /\ \/ ~cancel /\ ~over /\ Goto(c, "launch", "start") /\ UNCHANGED <<owner, talkvars>>
       \/ (cancel \/ over) /\ owner' = NoOne /\ Raise(c)
    /\ UNCHANGED <<step, runs, signals>>

\* The next directory is taken, and run_external called.
Start(c) ==
    /\ Goto(c, "start", "guest")
    /\ step' = step + 1
    /\ Act(c)
    /\ UNCHANGED <<talkvars, owner, runs>>

\* run_external returned: the output is checked, _cancelled asked once more.
\* Otherwise the failed run is recorded, with what run.json holds, and raised.
Record(c) ==
    /\ pc[c] = "guest"
    /\ \/ ~cancel /\ ~over /\ Goto(c, "guest", "got") /\ UNCHANGED talkvars
       \/ Raise(c)
    /\ runs' = Append(runs, step - 1)
    /\ owner' = NoOne
    /\ UNCHANGED <<step, signals>>

-----------------------------------------------------------------------------
Cancel ==
    /\ ~cancel /\ cancel' = TRUE
    /\ beyond' = {c \in Talks : pc[c] \in Acting}
    /\ UNCHANGED <<pc, talkvars, backvars, over>>
\* The caller clears the flag before its next turn.
Clear  == cancel /\ (\A c \in Talks : ~busy[c]) /\ cancel' = FALSE
          /\ UNCHANGED <<pc, talkvars, backvars, over, beyond>>
Expire(c) == busy[c] /\ ~turn[c].late /\ turn' = [turn EXCEPT ![c].late = TRUE]
             /\ UNCHANGED <<pc, history, busy, begun, backvars, signals>>
Deadline == ~over /\ over' = TRUE /\ UNCHANGED <<pc, talkvars, backvars, cancel, beyond>>

Init ==
    /\ pc = [c \in Talks |-> "idle"]
    /\ history = [c \in Talks |-> [turns |-> 0, tokens |-> 0]]
    /\ busy = [c \in Talks |-> FALSE]
    /\ turn = [c \in Talks |-> NoTurn]
    /\ begun = [c \in Talks |-> 0]
    /\ owner = NoOne /\ step = 0 /\ runs = <<>>
    /\ cancel = FALSE /\ over = FALSE /\ beyond = {}

Turn(c) ==
    \/ Check(c) \/ Enter(c) \/ Launch(c) \/ Start(c) \/ Record(c)
    \/ Got(c) \/ Sample(c) \/ AppendToken(c) \/ Decode(c) \/ Commit(c)

Next == Cancel \/ Clear \/ Deadline \/ \E c \in Talks : Begin(c) \/ Reset(c) \/ Expire(c) \/ Turn(c)

Spec == Init /\ [][Next]_vars

-----------------------------------------------------------------------------
(* Properties.                                                             *)

TypeOK ==
    /\ pc \in [Talks -> Places]
    /\ history \in [Talks -> [turns : Nat, tokens : Nat]]
    /\ busy \in [Talks -> BOOLEAN]
    /\ turn \in [Talks -> [prompt : Nat, words : Nat, budget : Nat, stop : Stops,
                           late : BOOLEAN, seen : Nat]]
    /\ begun \in [Talks -> Nat]
    /\ owner \in Talks \cup {NoOne} /\ step \in Nat
    /\ runs \in Seq(Int)
    /\ cancel \in BOOLEAN /\ over \in BOOLEAN /\ beyond \subseteq Talks

\* A prompt grows only into room that is left, and never past the budget: each
\* forward gets an input the fixed sequence length can hold.
Growing == {"forward", "launch", "start", "guest", "got", "sample", "append"}
WithinBounds ==
    \A c \in Talks :
        /\ Length(c) <= Capacity /\ turn[c].words <= turn[c].budget
        /\ pc[c] \in Growing => Length(c) < Capacity /\ turn[c].words < turn[c].budget

InBackend == {"launch", "start", "guest"}

\* One guest at a time, whichever conversations call; every way out of the
\* backend gives the lock back.
GuestSerial == \A c \in Talks : (pc[c] \in InBackend) <=> (owner = c)

\* Whatever was cancelled, refused or failed in between, the k-th record of runs
\* is the run in directory step-k, and only a run in progress lacks its record.
RunsMatchDirs ==
    /\ \A k \in 1 .. Len(runs) : runs[k] = k-1
    /\ step = Len(runs) + (IF \E c \in Talks : pc[c] = "guest" THEN 1 ELSE 0)

\* A reply is committed on top of the history its prompt was rendered from.
RepliesToHistory ==
    \A c \in Talks : pc[c] # "idle" => busy[c] /\ turn[c].seen = history[c].turns

\* Once the flag is set no further forward starts, no token is appended and no reply is
\* kept, but for the one thing that a conversation had asked for when it was set.
ActsOn(c) ==
    \/ owner = c /\ step' # step
    \/ turn'[c].words > turn[c].words
    \/ history'[c].turns > history[c].turns
CancelHeeded == [][\A c \in Talks : cancel /\ ActsOn(c) => c \in beyond]_vars
=============================================================================
