----------------------------- MODULE HostProofs -----------------------------
(***************************************************************************)
(* The host's own state.  Generation, for every set of conversations,      *)
(* sequence length and budget.  Weight bundles, of any size and with any   *)
(* number of changes by other processes: what is published is whole, what  *)
(* is accepted was there, and what nobody touches is accepted.             *)
(***************************************************************************)
EXTENDS Generation, WeightBundle, TLAPS

\* What Check relies on: a turn without a reason to stop has room and budget.
StopTruth(c) ==
    pc[c] # "idle" /\ turn[c].stop = "none" =>
        Length(c) < Capacity /\ turn[c].words < turn[c].budget

\* The parts of the invariants that speak of one conversation.
Bounded(c) ==
    /\ Length(c) <= Capacity /\ turn[c].words <= turn[c].budget
    /\ pc[c] \in Growing => Length(c) < Capacity /\ turn[c].words < turn[c].budget
Replying(c) == pc[c] # "idle" => busy[c] /\ turn[c].seen = history[c].turns
Own(c) == Bounded(c) /\ StopTruth(c) /\ Replying(c)

GInv == TypeOK /\ (\A c \in Talks : Own(c)) /\ GuestSerial /\ RunsMatchDirs

\* Both are lists of names, and stand for them until the weight bundles.
USE DEF InBackend, signals

\* generation_stop_reason answers one of its reasons, and none only where there
\* is room and budget for one more token.
LEMMA StopReasonIsRight ==
    ASSUME NEW length \in Nat, NEW generated \in Nat, NEW most \in Nat,
           NEW token \in {"none", "word", "eos"}, length <= Capacity
    PROVE  /\ StopReason(length, generated, most, token) \in Stops
           /\ StopReason(length, generated, most, token) = "none" =>
                  length < Capacity /\ generated < most
  BY CapacityAssumption DEF StopReason, Stops

LEMMA NoTurnType == NoTurn \in [prompt : Nat, words : Nat, budget : Nat, stop : Stops,
                                late : BOOLEAN, seen : Nat]
  BY DEF NoTurn, TurnOf, Stops

LEMMA InitHolds == Init => GInv
  <1> SUFFICES ASSUME Init PROVE GInv
      OBVIOUS
  <1>1. TypeOK
      <2>1. pc \in [Talks -> Places] /\ turn \in [Talks -> [prompt : Nat, words : Nat,
                budget : Nat, stop : Stops, late : BOOLEAN, seen : Nat]]
          BY NoTurnType DEF Init, Places
      <2>2. history \in [Talks -> [turns : Nat, tokens : Nat]] /\ busy \in [Talks -> BOOLEAN]
            /\ begun \in [Talks -> Nat]
          BY DEF Init
      <2>3. owner \in Talks \cup {NoOne} /\ step \in Nat /\ runs \in Seq(Int)
          BY DEF Init
      <2>4. cancel \in BOOLEAN /\ over \in BOOLEAN /\ beyond \subseteq Talks
          BY Zenon DEF Init
      <2> QED BY <2>1, <2>2, <2>3, <2>4 DEF TypeOK
  <1>2. ASSUME NEW c \in Talks PROVE Own(c)
      BY CapacityAssumption DEF Init, Own, Bounded, StopTruth, Replying, Length, NoTurn, TurnOf, Growing
  <1>3. GuestSerial
      BY NoOneAssumption DEF Init, GuestSerial
  <1>4. RunsMatchDirs
      BY DEF Init, RunsMatchDirs
  <1> QED
      BY <1>1, <1>2, <1>3, <1>4 DEF GInv

-----------------------------------------------------------------------------
(* A step of one conversation.                                             *)

\* What a step of another conversation leaves of d.
Same(d) ==
    /\ pc'[d] = pc[d] /\ history'[d] = history[d]
    /\ busy'[d] = busy[d] /\ turn'[d] = turn[d]

LEMMA OneTalk ==
    ASSUME GInv, TypeOK', NEW c \in Talks, \A d \in Talks \ {c} : Same(d),
           Own(c)', GuestSerial', RunsMatchDirs'
    PROVE  GInv'
  <1>1. ASSUME NEW d \in Talks PROVE Own(d)'
      <2>1. CASE d = c
          BY <2>1
      <2>2. CASE d # c
          BY <2>2 DEF GInv, Own, Bounded, StopTruth, Replying, Length, Same
      <2> QED BY <2>1, <2>2
  <1> QED BY <1>1 DEF GInv

\* A step outside the backend: the lock, the directories and the records stay.
LEMMA OutsideBackend ==
    ASSUME GInv, NEW c \in Talks, \A d \in Talks \ {c} : Same(d), UNCHANGED backvars,
           pc[c] \notin InBackend, pc'[c] \notin InBackend
    PROVE  GuestSerial' /\ RunsMatchDirs'
  <1>1. \A d \in Talks : (pc'[d] \in InBackend) <=> (pc[d] \in InBackend)
      BY DEF Same
  <1>2. \A d \in Talks : (pc'[d] = "guest") <=> (pc[d] = "guest")
      BY DEF Same
  <1>3. GuestSerial'
      BY <1>1 DEF GInv, GuestSerial, backvars
  <1>4. RunsMatchDirs'
      BY <1>2 DEF GInv, RunsMatchDirs, backvars
  <1> QED BY <1>3, <1>4

\* The finally clause of turn leaves a conversation with nothing to promise.
LEMMA EndOwn ==
    ASSUME TypeOK, NEW c \in Talks, End(c)
    PROVE  Own(c)' /\ pc'[c] = "idle"
  <1>1. pc'[c] = "idle" /\ turn'[c] = NoTurn
      BY DEF End, TypeOK
  <1> QED
      BY <1>1, CapacityAssumption DEF Own, Bounded, StopTruth, Replying, Length, NoTurn, TurnOf, Growing

LEMMA EndType ==
    ASSUME TypeOK, NEW c \in Talks, End(c)
    PROVE  /\ pc' \in [Talks -> Places] /\ busy' \in [Talks -> BOOLEAN]
           /\ turn' \in [Talks -> [prompt : Nat, words : Nat, budget : Nat, stop : Stops,
                                   late : BOOLEAN, seen : Nat]]
           /\ \A d \in Talks \ {c} : pc'[d] = pc[d] /\ busy'[d] = busy[d] /\ turn'[d] = turn[d]
  BY NoTurnType DEF End, TypeOK, Places

\* An exception outside the backend.
LEMMA RaiseHolds ==
    ASSUME GInv, NEW c \in Talks, Raise(c), UNCHANGED <<backvars, signals>>,
           pc[c] \notin InBackend
    PROVE  GInv'
  <1>1. TypeOK /\ End(c)
      BY DEF GInv, Raise
  <1>2. TypeOK'
      BY <1>1, EndType DEF Raise, TypeOK, backvars
  <1>3. \A d \in Talks \ {c} : Same(d)
      BY <1>1, EndType DEF Raise, Same
  <1>4. Own(c)' /\ pc'[c] = "idle"
      BY <1>1, EndOwn
  <1> QED BY <1>2, <1>3, <1>4, OutsideBackend, OneTalk

\* A step that only moves c to another place, where as much holds.
LEMMA MoveHolds ==
    ASSUME GInv, NEW c \in Talks, NEW to \in Places \ {"idle"}, pc[c] # "idle",
           pc' = [pc EXCEPT ![c] = to], UNCHANGED talkvars,
           to \in Growing => pc[c] \in Growing \/ turn[c].stop = "none"
    PROVE  Own(c)' /\ pc' \in [Talks -> Places] /\ pc'[c] = to /\ \A d \in Talks \ {c} : Same(d)
  <1>1. pc' \in [Talks -> Places] /\ pc'[c] = to /\ \A d \in Talks \ {c} : Same(d)
      BY DEF GInv, TypeOK, talkvars, Same
  <1>2. turn' = turn /\ history' = history /\ busy' = busy
      BY DEF talkvars
  <1>3. Own(c)
      BY DEF GInv
  <1>4. Bounded(c)'
      BY <1>1, <1>2, <1>3 DEF Own, Bounded, StopTruth, Length
  <1>5. StopTruth(c)' /\ Replying(c)'
      BY <1>1, <1>2, <1>3 DEF Own, StopTruth, Replying, Length
  <1> QED BY <1>1, <1>4, <1>5 DEF Own

LEMMA CheckAbortHolds ==
    ASSUME GInv, NEW c \in Talks, NEW from \in Places \ ({"idle"} \cup InBackend),
           NEW to \in Places \ ({"idle"} \cup InBackend), CheckAbort(c, from, to),
           to \in Growing => from \in Growing \/ turn[c].stop = "none"
    PROVE  GInv'
  <1>1. CASE Raise(c)
      BY <1>1, RaiseHolds DEF CheckAbort
  <1>2. CASE Goto(c, from, to) /\ UNCHANGED talkvars
      <2>1. Own(c)' /\ pc' \in [Talks -> Places] /\ pc'[c] = to /\ \A d \in Talks \ {c} : Same(d)
          BY <1>2, MoveHolds DEF Goto
      <2>2. TypeOK'
          BY <1>2, <2>1 DEF CheckAbort, GInv, TypeOK, talkvars, backvars
      <2> QED BY <1>2, <2>1, <2>2, OneTalk, OutsideBackend DEF CheckAbort, Goto
  <1> QED BY <1>1, <1>2 DEF CheckAbort

-----------------------------------------------------------------------------
(* The actions.                                                            *)

LEMMA BeginHolds == ASSUME GInv, NEW c \in Talks, Begin(c) PROVE GInv'
  <1> DEFINE length == history[c].tokens + 2
  <1>a. TypeOK /\ history[c] \in [turns : Nat, tokens : Nat]
      BY DEF GInv, TypeOK
  <1>0. TypeOK /\ length \in Nat /\ history[c].turns \in Nat
      BY <1>a
  <1>b. begun' \in [Talks -> Nat]
      BY <1>0 DEF Begin, TypeOK
  <1>1. CASE UNCHANGED <<pc, busy, turn>>
      <2>1. TypeOK'
          BY <1>0, <1>1, <1>b DEF Begin, TypeOK, backvars
      <2>2. (\A d \in Talks : Own(d)') /\ GuestSerial' /\ RunsMatchDirs'
          BY <1>1 DEF Begin, GInv, Own, Bounded, StopTruth, Replying, Length, GuestSerial,
                      RunsMatchDirs, backvars
      <2> QED BY <2>1, <2>2 DEF GInv
  <1>2. ASSUME NEW most \in Budgets, length <= Capacity,
               pc' = [pc EXCEPT ![c] = "check"], busy' = [busy EXCEPT ![c] = TRUE],
               turn' = [turn EXCEPT ![c] = TurnOf(length, 0, most,
                            StopReason(length, 0, most, "none"), FALSE, history[c].turns)]
        PROVE  GInv'
      <2> DEFINE reason == StopReason(length, 0, most, "none")
      <2>1. most \in Nat
          BY BudgetAssumption
      <2>2. reason \in Stops /\ (reason = "none" => length < Capacity /\ 0 < most)
          BY <1>0, <1>2, <2>1, StopReasonIsRight
      <2> HIDE DEF reason, length
      <2>3. TurnOf(length, 0, most, reason, FALSE, history[c].turns) \in
                [prompt : Nat, words : Nat, budget : Nat, stop : Stops, late : BOOLEAN, seen : Nat]
          BY <1>0, <2>1, <2>2 DEF TurnOf
      <2>4. turn' = [turn EXCEPT ![c] = TurnOf(length, 0, most, reason, FALSE, history[c].turns)]
          BY <1>2 DEF reason, length
      <2>5. TypeOK'
          <3>1. turn' \in [Talks -> [prompt : Nat, words : Nat, budget : Nat, stop : Stops,
                                     late : BOOLEAN, seen : Nat]]
              BY <1>0, <2>3, <2>4 DEF TypeOK
          <3>2. pc' \in [Talks -> Places] /\ busy' \in [Talks -> BOOLEAN]
              BY <1>0, <1>2 DEF TypeOK, Places
          <3> QED BY <1>0, <1>b, <3>1, <3>2 DEF Begin, TypeOK, backvars
      <2>6. pc'[c] = "check" /\ busy'[c]
            /\ turn'[c] = TurnOf(length, 0, most, reason, FALSE, history[c].turns)
            /\ history'[c] = history[c]
          BY <1>0, <1>2, <2>4 DEF Begin, TypeOK
      <2>7. \A d \in Talks \ {c} : Same(d)
          BY <1>0, <1>2, <2>4 DEF Begin, TypeOK, Same
      <2>8. Own(c)'
          BY <1>0, <1>2, <2>1, <2>2, <2>6 DEF Own, Bounded, StopTruth, Replying, Length, TurnOf, Growing
      <2>9. pc[c] = "idle" /\ UNCHANGED backvars
          BY DEF Begin
      <2> QED BY <2>5, <2>6, <2>7, <2>8, <2>9, OneTalk, OutsideBackend
  <1> QED BY <1>1, <1>2 DEF Begin

LEMMA ResetHolds == ASSUME GInv, NEW c \in Talks, Reset(c) PROVE GInv'
  <1>1. TypeOK'
      BY DEF GInv, TypeOK, Reset, backvars
  <1>2. \A d \in Talks \ {c} : Same(d)
      BY DEF GInv, TypeOK, Reset, Same
  <1>3. pc[c] = "idle"
      BY DEF GInv, Own, Replying, Reset
  <1>4. Own(c)'
      BY <1>3 DEF GInv, Own, Bounded, StopTruth, Replying, Length, Reset
  <1> QED BY <1>1, <1>2, <1>3, <1>4, OneTalk, OutsideBackend DEF Reset

LEMMA ExpireHolds == ASSUME GInv, NEW c \in Talks, Expire(c) PROVE GInv'
  <1>0. TypeOK /\ Own(c)
      BY DEF GInv
  <1>1. turn'[c] = [turn[c] EXCEPT !.late = TRUE] /\ pc' = pc /\ busy' = busy /\ history' = history
      BY <1>0 DEF Expire, TypeOK
  <1>2. TypeOK'
      BY <1>0 DEF Expire, TypeOK, backvars
  <1>3. \A d \in Talks \ {c} : Same(d)
      BY <1>0 DEF Expire, TypeOK, Same
  <1>4. turn[c] \in [prompt : Nat, words : Nat, budget : Nat, stop : Stops, late : BOOLEAN, seen : Nat]
      BY <1>0 DEF TypeOK
  <1>5. turn'[c].prompt = turn[c].prompt /\ turn'[c].words = turn[c].words
        /\ turn'[c].budget = turn[c].budget /\ turn'[c].stop = turn[c].stop
        /\ turn'[c].seen = turn[c].seen
      BY <1>1, <1>4
  <1>6. Own(c)'
      BY <1>0, <1>1, <1>5 DEF Own, Bounded, StopTruth, Replying, Length
  <1>7. GuestSerial' /\ RunsMatchDirs'
      BY <1>1 DEF GInv, GuestSerial, RunsMatchDirs, Expire, backvars
  <1> QED BY <1>2, <1>3, <1>6, <1>7, OneTalk

LEMMA SampleHolds == ASSUME GInv, NEW c \in Talks, Sample(c) PROVE GInv'
  <1>1. CASE CheckAbort(c, "sample", "append")
      BY <1>1, CheckAbortHolds DEF Places, Growing
  <1>2. CASE pc[c] = "sample" /\ Raise(c) /\ UNCHANGED <<backvars, signals>>
      BY <1>2, RaiseHolds
  <1> QED BY <1>1, <1>2 DEF Sample

LEMMA AppendHolds == ASSUME GInv, NEW c \in Talks, AppendToken(c) PROVE GInv'
  <1>0. TypeOK /\ Own(c) /\ pc[c] = "append" /\ pc' = [pc EXCEPT ![c] = "check"]
      BY DEF GInv, AppendToken, Goto
  <1> DEFINE Locals == [prompt : Nat, words : Nat, budget : Nat, stop : Stops, late : BOOLEAN, seen : Nat]
  <1>1. turn[c] \in Locals
      BY <1>0 DEF TypeOK
  <1>2. Length(c) \in Nat /\ Length(c) < Capacity /\ turn[c].words < turn[c].budget
      BY <1>0, <1>1 DEF Own, Bounded, Growing, Length
  <1>3. PICK token \in {"word", "eos"} : turn' = [turn EXCEPT
              ![c].words = @ + 1,
              ![c].stop = StopReason(Length(c) + 1, turn[c].words + 1, turn[c].budget, token)]
      BY DEF AppendToken
  <1> DEFINE reason == StopReason(Length(c) + 1, turn[c].words + 1, turn[c].budget, token)
  <1>4. reason \in Stops
        /\ (reason = "none" => Length(c) + 1 < Capacity /\ turn[c].words + 1 < turn[c].budget)
      <2>1. /\ Length(c) + 1 \in Nat /\ Length(c) + 1 <= Capacity
            /\ turn[c].words + 1 \in Nat /\ turn[c].budget \in Nat
          BY <1>1, <1>2, CapacityAssumption
      <2> QED BY <2>1, StopReasonIsRight
  <1> HIDE DEF reason
  <1>5. turn' = [turn EXCEPT ![c] = [turn[c] EXCEPT !.words = turn[c].words + 1, !.stop = reason]]
      BY <1>0, <1>1, <1>3 DEF TypeOK, reason
  <1>6. [turn[c] EXCEPT !.words = turn[c].words + 1, !.stop = reason] \in Locals
      <2>1. turn[c].words + 1 \in Nat /\ reason \in Stops
          BY <1>1, <1>4
      <2>2. [turn[c] EXCEPT !.words = turn[c].words + 1] \in Locals
          BY <1>1, <2>1
      <2>3. [[turn[c] EXCEPT !.words = turn[c].words + 1] EXCEPT !.stop = reason] \in Locals
          BY <2>1, <2>2
      <2> QED BY <1>1, <2>3
  <1>7. turn' \in [Talks -> Locals] /\ pc' \in [Talks -> Places]
      BY <1>0, <1>5, <1>6 DEF TypeOK, Places
  <1>8. TypeOK'
      BY <1>0, <1>7 DEF AppendToken, Act, TypeOK, backvars
  <1>9. \A d \in Talks \ {c} : Same(d)
      BY <1>0, <1>5 DEF AppendToken, TypeOK, Same
  <1>10. turn'[c].prompt = turn[c].prompt /\ turn'[c].words = turn[c].words + 1
         /\ turn'[c].budget = turn[c].budget /\ turn'[c].stop = reason /\ turn'[c].seen = turn[c].seen
      <2>1. turn'[c] = [turn[c] EXCEPT !.words = turn[c].words + 1, !.stop = reason]
          BY <1>0, <1>5 DEF TypeOK
      <2> QED BY <1>1, <2>1
  <1>11. pc'[c] = "check" /\ history' = history /\ busy' = busy /\ UNCHANGED backvars
      BY <1>0 DEF TypeOK, AppendToken
  <1>12. Own(c)'
      <2>1. Bounded(c)'
          BY <1>1, <1>2, <1>10, <1>11, CapacityAssumption DEF Bounded, Length, Growing
      <2>2. StopTruth(c)'
          BY <1>1, <1>2, <1>4, <1>10, <1>11 DEF StopTruth, Length
      <2>3. Replying(c)'
          BY <1>0, <1>10, <1>11 DEF Own, Replying
      <2> QED BY <2>1, <2>2, <2>3 DEF Own
  <1> QED BY <1>0, <1>8, <1>9, <1>11, <1>12, OneTalk, OutsideBackend

LEMMA CommitHolds == ASSUME GInv, NEW c \in Talks, Commit(c) PROVE GInv'
  <1>1. TypeOK /\ End(c) /\ pc[c] = "commit"
      BY DEF GInv, Commit
  <1>2. history' \in [Talks -> [turns : Nat, tokens : Nat]]
      <2>1. history[c] \in [turns : Nat, tokens : Nat] /\ turn[c].words \in Nat
          BY <1>1 DEF TypeOK
      <2> DEFINE kept == [turns |-> history[c].turns + 1,
                          tokens |-> history[c].tokens + turn[c].words + 2]
      <2>2. kept \in [turns : Nat, tokens : Nat]
          BY <2>1
      <2>3. history' = [history EXCEPT ![c] = IF turn[c].words = 0 THEN history[c] ELSE kept]
          BY <1>1 DEF Commit, TypeOK
      <2> QED BY <1>1, <2>1, <2>2, <2>3 DEF TypeOK
  <1>3. TypeOK'
      BY <1>1, <1>2, EndType DEF Commit, Act, TypeOK, backvars
  <1>4. \A d \in Talks \ {c} : Same(d)
      BY <1>1, EndType DEF Commit, TypeOK, Same
  <1>5. Own(c)' /\ pc'[c] = "idle"
      BY <1>1, EndOwn
  <1> QED BY <1>1, <1>3, <1>4, <1>5, OutsideBackend, OneTalk DEF Commit

LEMMA EnterHolds == ASSUME GInv, NEW c \in Talks, Enter(c) PROVE GInv'
  <1>1. CASE owner # NoOne /\ Raise(c) /\ UNCHANGED owner
      BY <1>1, RaiseHolds DEF Enter, backvars
  <1>2. CASE owner = NoOne /\ owner' = c /\ Goto(c, "forward", "launch") /\ UNCHANGED talkvars
      <2>1. Own(c)' /\ pc' \in [Talks -> Places] /\ pc'[c] = "launch" /\ \A d \in Talks \ {c} : Same(d)
          BY <1>2, MoveHolds DEF Goto, Places, Growing
      <2>2. TypeOK'
          BY <1>2, <2>1 DEF Enter, GInv, TypeOK, talkvars
      <2>3. GuestSerial'
          BY <1>2, <2>1, NoOneAssumption DEF GInv, GuestSerial, Same
      <2>4. RunsMatchDirs'
          BY <1>2, <2>1 DEF Enter, Goto, GInv, RunsMatchDirs, Same
      <2> QED BY <2>1, <2>2, <2>3, <2>4, OneTalk
  <1> QED BY <1>1, <1>2 DEF Enter

LEMMA LaunchHolds == ASSUME GInv, NEW c \in Talks, Launch(c) PROVE GInv'
  <1>0. TypeOK /\ GuestSerial /\ RunsMatchDirs /\ pc[c] = "launch" /\ owner = c
      BY DEF GInv, Launch, GuestSerial
  <1>1. CASE Goto(c, "launch", "start") /\ UNCHANGED <<owner, talkvars>>
      <2>1. Own(c)' /\ pc' \in [Talks -> Places] /\ pc'[c] = "start" /\ \A d \in Talks \ {c} : Same(d)
          BY <1>1, MoveHolds DEF Goto, Places, Growing
      <2>2. TypeOK'
          BY <1>1, <2>1 DEF Launch, GInv, TypeOK, talkvars
      <2>3. GuestSerial'
          BY <1>0, <1>1, <2>1 DEF GuestSerial, Same
      <2>4. RunsMatchDirs'
          BY <1>0, <2>1 DEF Launch, RunsMatchDirs, Same
      <2> QED BY <2>1, <2>2, <2>3, <2>4, OneTalk
  <1>2. CASE owner' = NoOne /\ Raise(c) 
      <2>1. End(c) /\ UNCHANGED <<history, begun>>
          BY <1>2 DEF Raise
      <2>2. TypeOK'
          BY <1>0, <1>2, <2>1, EndType DEF Launch, TypeOK
      <2>3. \A d \in Talks \ {c} : Same(d)
          BY <1>0, <2>1, EndType DEF Same
      <2>4. Own(c)' /\ pc'[c] = "idle"
          BY <1>0, <2>1, EndOwn
      <2>5. GuestSerial'
          BY <1>0, <1>2, <2>3, <2>4, NoOneAssumption DEF GuestSerial, Same
      <2>6. RunsMatchDirs'
          BY <1>0, <1>2, <2>3, <2>4 DEF Launch, RunsMatchDirs, Same
      <2> QED BY <2>2, <2>3, <2>4, <2>5, <2>6, OneTalk
  <1> QED BY <1>1, <1>2 DEF Launch

LEMMA StartHolds == ASSUME GInv, NEW c \in Talks, Start(c) PROVE GInv'
  <1>0. TypeOK /\ GuestSerial /\ RunsMatchDirs /\ pc[c] = "start" /\ owner = c
      BY DEF GInv, Start, Goto, GuestSerial
  <1>1. Own(c)' /\ pc' \in [Talks -> Places] /\ pc'[c] = "guest" /\ \A d \in Talks \ {c} : Same(d)
      BY MoveHolds DEF Start, Goto, Places, Growing
  <1>2. TypeOK'
      BY <1>0, <1>1 DEF Start, Act, TypeOK, talkvars
  <1>3. GuestSerial'
      BY <1>0, <1>1 DEF Start, GuestSerial, Same
  <1>4. RunsMatchDirs'
      <2>1. ~ \E d \in Talks : pc[d] = "guest"
          BY <1>0 DEF GuestSerial
      <2>2. step = Len(runs)
          BY <1>0, <2>1 DEF RunsMatchDirs, TypeOK
      <2> QED BY <1>0, <1>1, <2>2 DEF Start, RunsMatchDirs
  <1> QED BY <1>1, <1>2, <1>3, <1>4, OneTalk

LEMMA RecordHolds == ASSUME GInv, NEW c \in Talks, Record(c) PROVE GInv'
  <1>0. TypeOK /\ GuestSerial /\ RunsMatchDirs /\ pc[c] = "guest" /\ owner = c
      BY DEF GInv, Record, GuestSerial
  <1>1. step = Len(runs) + 1 /\ runs \in Seq(Int) /\ step \in Nat
      BY <1>0 DEF RunsMatchDirs, TypeOK
  <1>2. runs' \in Seq(Int) /\ Len(runs') = Len(runs) + 1
        /\ (\A n \in 1 .. Len(runs') : runs'[n] = n-1)
      BY <1>0, <1>1 DEF Record, RunsMatchDirs
  <1>3. pc' \in [Talks -> Places] /\ pc'[c] \in {"got", "idle"} /\ Own(c)'
        /\ (\A d \in Talks \ {c} : Same(d)) /\ TypeOK'
      <2>1. CASE Goto(c, "guest", "got") /\ UNCHANGED talkvars
          <3>1. Own(c)' /\ pc' \in [Talks -> Places] /\ pc'[c] = "got" /\ \A d \in Talks \ {c} : Same(d)
              BY <2>1, MoveHolds DEF Goto, Places, Growing
          <3>2. TypeOK'
              BY <1>0, <1>2, <2>1, <3>1 DEF Record, TypeOK, talkvars
          <3> QED BY <3>1, <3>2
      <2>2. CASE Raise(c)
          <3>1. End(c) /\ UNCHANGED <<history, begun>>
              BY <2>2 DEF Raise
          <3>2. TypeOK'
              BY <1>0, <1>2, <3>1, EndType DEF Record, TypeOK
          <3>3. \A d \in Talks \ {c} : Same(d)
              BY <1>0, <3>1, EndType DEF Same
          <3> QED BY <1>0, <3>1, <3>2, <3>3, EndOwn DEF TypeOK
      <2> QED BY <2>1, <2>2 DEF Record
  <1>4. \A d \in Talks : pc'[d] \notin InBackend
      BY <1>0, <1>3 DEF GuestSerial, Same
  <1>5. GuestSerial'
      BY <1>4, NoOneAssumption DEF Record, GuestSerial
  <1>6. RunsMatchDirs'
      <2>1. ~ \E d \in Talks : pc'[d] = "guest"
          BY <1>4
      <2>2. step' = Len(runs')
          BY <1>1, <1>2 DEF Record
      <2> QED BY <1>2, <2>1, <2>2 DEF RunsMatchDirs
  <1> QED BY <1>3, <1>5, <1>6, OneTalk

\* The signals from outside change nothing the invariants speak of.
LEMMA SignalHolds ==
    ASSUME GInv, UNCHANGED <<pc, talkvars, backvars>>, cancel' \in BOOLEAN, over' \in BOOLEAN,
           beyond' \subseteq Talks
    PROVE  GInv'
  <1>1. TypeOK'
      BY DEF GInv, TypeOK, talkvars, backvars
  <1>2. (\A c \in Talks : Own(c)') /\ GuestSerial' /\ RunsMatchDirs'
      BY DEF GInv, Own, Bounded, StopTruth, Replying, Length, GuestSerial, RunsMatchDirs,
             talkvars, backvars
  <1> QED BY <1>1, <1>2 DEF GInv

LEMMA TurnHolds == ASSUME GInv, NEW c \in Talks, Turn(c) PROVE GInv'
  <1>1. CASE Check(c)
      <2>1. CASE turn[c].stop = "none"
          BY <1>1, <2>1, CheckAbortHolds DEF Check, Places, Growing
      <2>2. CASE turn[c].stop # "none"
          BY <1>1, <2>2, CheckAbortHolds DEF Check, Places, Growing
      <2> QED BY <2>1, <2>2
  <1>2. CASE Got(c)
      BY <1>2, CheckAbortHolds DEF Got, Places, Growing
  <1>3. CASE Decode(c)
      BY <1>3, CheckAbortHolds DEF Decode, Places, Growing
  <1> QED BY <1>1, <1>2, <1>3, SampleHolds, AppendHolds, CommitHolds, EnterHolds, LaunchHolds,
             StartHolds, RecordHolds DEF Turn

LEMMA StepHolds == GInv /\ [Next]_vars => GInv'
  <1> SUFFICES ASSUME GInv, [Next]_vars PROVE GInv'
      OBVIOUS
  <1>1. CASE Cancel \/ Clear \/ Deadline \/ UNCHANGED vars
      BY <1>1, SignalHolds DEF Cancel, Clear, Deadline, vars, GInv, TypeOK
  <1>2. ASSUME NEW c \in Talks, Begin(c) \/ Reset(c) \/ Expire(c) \/ Turn(c) PROVE GInv'
      BY <1>2, BeginHolds, ResetHolds, ExpireHolds, TurnHolds
  <1> QED BY <1>1, <1>2 DEF Next

-----------------------------------------------------------------------------
(* Cancellation.                                                           *)

\* While the flag is set, only those stand right behind a check who stood there when it
\* was set: whoever comes to one of these places has just asked.
Heeding == cancel => \A c \in Talks : pc[c] \in Acting => c \in beyond

LEMMA HeedingHolds == ASSUME GInv, Heeding, [Next]_vars PROVE Heeding'
  <1> USE DEF Heeding, Acting
  <1>0. pc \in [Talks -> Places]
      BY DEF GInv, TypeOK
  <1>1. CASE Cancel \/ Clear \/ Deadline \/ UNCHANGED vars
      BY <1>1, Zenon DEF Cancel, Clear, Deadline, vars
  <1>2. ASSUME NEW c \in Talks, Begin(c) \/ Reset(c) \/ Expire(c) PROVE Heeding'
      BY <1>0, <1>2 DEF Begin, Reset, Expire
  <1>3. ASSUME NEW c \in Talks, Turn(c) PROVE Heeding'
      <2>1. (\A d \in Talks \ {c} : pc'[d] = pc[d]) /\ (cancel' <=> cancel)
          BY <1>0, <1>3 DEF Turn, Check, Got, Decode, Sample, CheckAbort, AppendToken, Commit, Enter, Launch,
                            Start, Record, Goto, Raise, End, Act
      <2>2. beyond \subseteq beyond' \cup {c}
          BY <1>3 DEF Turn, Check, Got, Decode, Sample, CheckAbort, AppendToken, Commit, Enter, Launch,
                      Start, Record, Goto, Raise, End, Act
      <2>3. cancel /\ pc'[c] \in Acting => FALSE
          BY <1>0, <1>3 DEF Turn, Check, Got, Decode, Sample, CheckAbort, AppendToken, Commit, Enter, Launch,
                            Start, Record, Goto, Raise, End, Act
      <2> QED BY <2>1, <2>2, <2>3
  <1> QED BY <1>1, <1>2, <1>3 DEF Next

\* What is done, is done at one of these places.
LEMMA ActsBehindChecks ==
    ASSUME GInv, [Next]_vars, NEW d \in Talks, ActsOn(d) PROVE pc[d] \in Acting
  <1> USE DEF ActsOn, Acting
  <1>0. TypeOK /\ GuestSerial
      BY DEF GInv
  <1>a. /\ pc \in [Talks -> Places] /\ DOMAIN turn = Talks /\ DOMAIN history = Talks
        /\ \A c \in Talks : turn[c].words \in Nat /\ history[c].turns \in Nat
      BY <1>0 DEF TypeOK
  <1>1. CASE Cancel \/ Clear \/ Deadline \/ UNCHANGED vars
      BY <1>a, <1>1 DEF Cancel, Clear, Deadline, vars, talkvars, backvars
  <1>2. ASSUME NEW c \in Talks, Begin(c) \/ Reset(c) \/ Expire(c) \/ Turn(c) PROVE pc[d] \in Acting
      <2>1. CASE Begin(c)
          <3>1. history' = history /\ step' = step
              BY <2>1 DEF Begin, backvars
          <3> DEFINE new(most) == TurnOf(history[c].tokens + 2, 0, most,
                                  StopReason(history[c].tokens + 2, 0, most, "none"), FALSE, history[c].turns)
          <3>2. turn' = turn \/ \E most \in Budgets : turn' = [turn EXCEPT ![c] = new(most)]
              BY <2>1, Zenon DEF Begin
          <3>3. \A most \in Budgets : new(most).words = 0
              BY DEF TurnOf
          <3> HIDE DEF new
          <3>4. turn'[d].words \in {0, turn[d].words}
              BY <1>a, <3>2, <3>3
          <3> QED BY <1>a, <3>1, <3>4
      <2>2. CASE Reset(c)
          <3>1. turn' = turn /\ step' = step
              BY <2>2 DEF Reset, backvars
          <3>2. history'[d].turns \in {0, history[d].turns}
              BY <1>a, <2>2 DEF Reset
          <3> QED BY <1>a, <3>1, <3>2
      <2>3. CASE Expire(c)
          <3>1. history' = history /\ step' = step
              BY <2>3 DEF Expire, backvars
          <3>2. turn'[d].words = turn[d].words
              BY <1>a, <2>3 DEF Expire
          <3> QED BY <1>a, <3>1, <3>2
      <2>4. CASE Raise(c) /\ step' = step
          <3>1. history' = history /\ turn' = [turn EXCEPT ![c] = NoTurn] /\ NoTurn.words = 0
              BY <2>4 DEF Raise, End, NoTurn, TurnOf
          <3>2. turn'[d].words \in {0, turn[d].words}
              BY <1>a, <3>1
          <3> QED BY <1>a, <2>4, <3>1, <3>2
      <2>5. CASE UNCHANGED <<talkvars, step>>
          BY <1>a, <2>5 DEF talkvars
      <2>6. CASE AppendToken(c)
          <3>1. CASE d = c
              BY <2>6, <3>1 DEF AppendToken, Goto
          <3>2. CASE d # c
              <4>1. step' = step /\ history' = history /\ turn'[d] = turn[d]
                  BY <1>a, <2>6, <3>2 DEF AppendToken, backvars
              <4> QED BY <1>a, <4>1
          <3> QED BY <3>1, <3>2
      <2>7. CASE Commit(c)
          BY <1>0, <2>7 DEF Commit, End, NoTurn, TurnOf, TypeOK, backvars
      <2>8. CASE Start(c)
          BY <1>0, <2>8 DEF Start, Goto, TypeOK, talkvars, GuestSerial
      <2>9. Turn(c) => \/ Raise(c) /\ step' = step
                       \/ UNCHANGED <<talkvars, step>>
                       \/ AppendToken(c) \/ Commit(c) \/ Start(c)
          BY Zenon DEF Turn, Check, Got, Decode, Sample, CheckAbort, Enter, Launch, Record, backvars
      <2> QED BY <1>2, <2>1, <2>2, <2>3, <2>4, <2>5, <2>6, <2>7, <2>8, <2>9
  <1> QED BY <1>1, <1>2 DEF Next

-----------------------------------------------------------------------------
LEMMA Invariance == Spec => []GInv
  BY InitHolds, StepHolds, PTL DEF Spec

\* Type correctness (the state of conversation.py, generation.py and
\* qemu_generation.py).
THEOREM GenerationTypes == Spec => []TypeOK
  <1>1. GInv => TypeOK
      BY DEF GInv
  <1> QED BY <1>1, Invariance, PTL

\* The token loop stays inside the sequence length and the budget
\* (generation_stop_reason is asked before every forward).
THEOREM TokensFit == Spec => []WithinBounds
  <1>1. GInv => WithinBounds
      BY DEF GInv, Own, Bounded, WithinBounds
  <1> QED BY <1>1, Invariance, PTL

\* QemuForward runs one guest at a time and always gives its lock back.
THEOREM GuestsAreSerial == Spec => []GuestSerial
  <1>1. GInv => GuestSerial
      BY DEF GInv
  <1> QED BY <1>1, Invariance, PTL

\* QemuForward.runs has one record per step directory, in order.
THEOREM RunsAreRecorded == Spec => []RunsMatchDirs
  <1>1. GInv => RunsMatchDirs
      BY DEF GInv
  <1> QED BY <1>1, Invariance, PTL

\* Conversation.turn commits a reply to the history its prompt was rendered from.
THEOREM HistoryIsTransactional == Spec => []RepliesToHistory
  <1>1. GInv => RepliesToHistory
      BY DEF GInv, Own, Replying, RepliesToHistory
  <1> QED BY <1>1, Invariance, PTL

\* Once the cancellation flag is set, generate and QemuForward start no forward, append no
\* token and keep no reply, but for the one that they had asked for before.
THEOREM CancellationHeeded == Spec => CancelHeeded
  <1>1. Init => Heeding
      BY DEF Init, Heeding
  <1>2. GInv /\ Heeding /\ [Next]_vars =>
            [\A c \in Talks : cancel /\ ActsOn(c) => c \in beyond]_vars
      BY ActsBehindChecks DEF Heeding
  <1>3. GInv /\ Heeding /\ [Next]_vars => Heeding'
      BY HeedingHolds
  <1> QED BY <1>1, <1>2, <1>3, Invariance, PTL DEF Spec, CancelHeeded

-----------------------------------------------------------------------------
HIDE DEF InBackend, signals

(***************************************************************************)
(* Weight bundles.                                                         *)
(***************************************************************************)
Content == [1 .. Tensors -> Bytes \cup {Cut}]

Typed ==
    /\ entry \in [Names -> Inodes \cup {0}]
    /\ data \in [Inodes -> Content]
    /\ file \in Inodes \cup {0}
    /\ k \in 1 .. Tensors + 1
    /\ wpc \in {"mkdir", "weights"} => k = 1
    /\ wpc = "write" => file \in Inodes /\ k \in 1 .. Tensors
    /\ hash \in Content
    /\ r \in Nat \ {0}
    /\ open \in [Fixed -> Inodes \cup {0}]
    /\ manifest \in Content
    /\ tampers \in Nat

(***************************************************************************)
(* The reader: a name that it has looked at and that nobody touched since  *)
(* still refers to the file that it has open, and what it has read is in   *)
(* there.  A bundle that the directory holds now is among those it held.   *)
(***************************************************************************)
Kept(n)  == n \notin touched => entry[n] = open[n]
Current  == \A c \in Whole : Holds(c) => c \in held
ReaderInv ==
    /\ rpc # "idle" => Current
    /\ rpc \in {"open manifest", "read manifest", "lstat weights", "open weights",
                "read weights", "check weights", "check manifest"} =>
          open["manifest"] # 0 /\ Kept("manifest")
    /\ rpc \in {"lstat weights", "open weights", "read weights", "check weights", "check manifest"} =>
          /\ manifest \in Whole
          /\ "manifest" \notin touched => data[open["manifest"]] = manifest
    /\ rpc \in {"lstat manifest", "open manifest", "read manifest", "lstat weights", "open weights"} => r = 1
    /\ rpc \in {"open weights", "read weights", "check weights"} =>
          /\ open["weights"] # 0 /\ Kept("weights")
          /\ "weights" \notin touched => \A t \in 1 .. r - 1 : data[open["weights"]][t] = manifest[t]
    /\ rpc = "read weights" => r \in 1 .. Tensors
    /\ rpc = "check weights" => r = Tensors + 1
    /\ rpc = "check manifest" /\ "manifest" \notin touched => manifest \in held
    /\ rpc = "accepted" => manifest \in held

(***************************************************************************)
(* The writer, as long as no other process interferes: what it has written *)
(* and what of that is on disk, place by place.                            *)
(***************************************************************************)
Published ==
    /\ entry["manifest"] # 0 /\ entry["weights"] # 0
    /\ data[entry["manifest"]] \in Whole /\ data[entry["weights"]] = data[entry["manifest"]]
    /\ entry["manifest"] \in synced /\ entry["weights"] \in synced

Writing == {"write", "sync", "pending", "sync pending", "link"}
WriterInv ==
    /\ wpc \in {"mkdir", "weights", "unlink", "returned", "raised", "crashed"} \cup Writing
    /\ wpc \in {"mkdir", "weights"} => hash = Nothing /\ \A n \in Names : entry[n] = 0
    /\ wpc \in Writing =>
          /\ entry["manifest"] = 0 /\ file # 0 /\ entry["weights"] = file
          /\ data[file] = hash /\ \A t \in 1 .. k - 1 : hash[t] \in Bytes
    /\ wpc \in Writing \ {"write"} => k = Tensors + 1
    /\ wpc \in {"write", "sync", "pending"} => entry["pending"] = 0
    /\ wpc \in {"pending", "sync pending", "link"} => file \in synced
    /\ wpc \in {"sync pending", "link"} =>
          entry["pending"] \notin {0, file} /\ data[entry["pending"]] = hash
    /\ wpc = "link" => entry["pending"] \in synced
    /\ wpc \in {"unlink", "returned"} => Published
    /\ wpc = "raised" => entry["manifest"] = 0
    /\ wpc = "crashed" /\ entry["manifest"] # 0 =>
          /\ data[entry["manifest"]] \in Whole
          /\ entry["weights"] # 0 => data[entry["weights"]] = data[entry["manifest"]]

(***************************************************************************)
(* A reader that began on a published bundle finds nothing wrong with it.  *)
(***************************************************************************)
Undisturbed ==
    /\ wpc \in {"returned", "crashed"}
    /\ rpc # "rejected" /\ touched = {}
    /\ entry["manifest"] # 0 /\ entry["weights"] # 0
    /\ data[entry["manifest"]] \in Whole /\ data[entry["weights"]] = data[entry["manifest"]]

IInv ==
    /\ Typed
    /\ ReaderInv
    /\ tampers = 0 => WriterInv
    /\ tampers = 0 /\ settled => Undisturbed

-----------------------------------------------------------------------------
(***************************************************************************)
(* Seven inodes are enough: six are in use at most.                        *)
(***************************************************************************)
LEMMA FreshIsFree ==
    ASSUME Typed
    PROVE  /\ Fresh \in Inodes /\ file # Fresh
           /\ \A n \in Names : entry[n] # Fresh
           /\ \A n \in Fixed : open[n] # Fresh
<1>1. \A a, b, c, d, e, f \in Inodes \cup {0} : \E g \in Inodes : g \notin {a, b, c, d, e, f}
  BY DEF Inodes
<1>2. InUse = {entry["weights"], entry["pending"], entry["manifest"], open["weights"], open["manifest"], file}
  BY DEF InUse, Names, Fixed
<1>3. \E g \in Inodes : g \notin InUse
  <2>1. /\ entry["weights"] \in Inodes \cup {0} /\ entry["pending"] \in Inodes \cup {0}
        /\ entry["manifest"] \in Inodes \cup {0} /\ open["weights"] \in Inodes \cup {0}
        /\ open["manifest"] \in Inodes \cup {0} /\ file \in Inodes \cup {0}
    BY DEF Typed, Names, Fixed
  <2>2. PICK g \in Inodes : g \notin {entry["weights"], entry["pending"], entry["manifest"],
                                    open["weights"], open["manifest"], file}
    BY <1>1, <2>1, Zenon
  <2> QED BY <1>2, <2>2, Zenon
<1>4. Fresh \in Inodes /\ Fresh \notin InUse
  BY <1>3 DEF Fresh
<1> QED BY <1>4 DEF InUse

LEMMA Constants == Source(1) \in Bytes /\ (\A t : Source(t) \in Bytes) /\ Tensors \in Nat \ {0} /\ Nothing \in Content
BY BundleAssumption DEF Source, Nothing, Content

-----------------------------------------------------------------------------
(***************************************************************************)
(* Types.                                                                  *)
(***************************************************************************)
LEMMA InitTyped == BundleInit => Typed
BY Constants DEF BundleInit, Typed, Names, Fixed, Inodes

LEMMA TypedWriter == Typed /\ Writer => Typed'
<1> SUFFICES ASSUME Typed, Writer PROVE Typed'
    OBVIOUS
<1>1. CASE WriteFails \/ Mkdir \/ SyncWeights \/ SyncPending
  BY <1>1 DEF WriteFails, Mkdir, SyncWeights, SyncPending, Advance, Reader, fsvars, readervars, Typed
<1>2. CASE OpenWeights
  <2>1. entry' \in [Names -> Inodes \cup {0}] /\ data' \in [Inodes -> Content]
    BY <1>2, FreshIsFree, Constants DEF OpenWeights, Create, Typed
  <2>2. wpc' = "write" /\ file' \in Inodes /\ k' = k
    BY <1>2, FreshIsFree DEF OpenWeights, Advance
  <2>3. k = 1 /\ 1 \in 1 .. Tensors
    BY <1>2, Constants DEF OpenWeights, Advance, Typed
  <2> QED BY <1>2, <2>1, <2>2, <2>3 DEF OpenWeights, Advance, Reader, Typed
<1>3. CASE WriteTensor
  <2>1. data' \in [Inodes -> Content] /\ hash' \in Content /\ k' \in 1 .. Tensors + 1
    BY <1>3, Constants DEF WriteTensor, Advance, Typed, Content
  <2>2. wpc' = "write" => file' \in Inodes /\ k' \in 1 .. Tensors
    BY <1>3, Constants DEF WriteTensor, Advance, Typed
  <2> QED BY <1>3, <2>1, <2>2 DEF WriteTensor, Advance, Reader, Typed
<1>4. CASE WritePending
  <2>1. entry' \in [Names -> Inodes \cup {0}] /\ data' \in [Inodes -> Content]
    BY <1>4, FreshIsFree DEF WritePending, Create, Typed
  <2> QED BY <1>4, <2>1 DEF WritePending, Advance, Reader, Typed
<1>5. CASE Link
  BY <1>5 DEF Link, Advance, Reader, Typed, Names
<1>6. CASE Unlink
  BY <1>6 DEF Unlink, Advance, Reader, Typed, Names
<1> QED BY <1>1, <1>2, <1>3, <1>4, <1>5, <1>6 DEF Writer

(***************************************************************************)
(* What a step of the writer or of another process leaves to the reader.   *)
(***************************************************************************)
FileStep ==
    /\ rpc' = rpc /\ r' = r /\ open' = open /\ manifest' = manifest
    /\ touched \subseteq touched' /\ held \subseteq held'
    /\ \A n \in Fixed : n \notin touched' =>
          entry'[n] = entry[n] /\ (open[n] # 0 => data'[open[n]] = data[open[n]])
    /\ Current => Current'

LEMMA Observed ==
    ASSUME Observe PROVE held \subseteq held' /\ Current'
BY DEF Observe, Current

LEMMA WriterFileStep == Typed /\ Writer => FileStep
<1> SUFFICES ASSUME Typed, Writer PROVE FileStep
    OBVIOUS
<1>0. /\ \A n \in Fixed : n \in Names /\ n # "pending"
      /\ entry \in [Names -> Inodes \cup {0}] /\ data \in [Inodes -> Content]
      /\ open \in [Fixed -> Inodes \cup {0}]
  BY DEF Fixed, Names, Typed
<1>1. CASE WriteFails \/ Mkdir \/ SyncWeights \/ SyncPending
  BY <1>1 DEF WriteFails, Mkdir, SyncWeights, SyncPending, Advance, Reader, fsvars, readervars, FileStep, Current, Holds
<1>2. CASE OpenWeights
  <2>1. touched' = touched \cup {"weights"} \cup {n \in Fixed : open[n] \in {}}
    BY <1>2 DEF OpenWeights, Touch
  <2>2. ASSUME NEW n \in Fixed, n \notin touched'
        PROVE  entry'[n] = entry[n] /\ (open[n] # 0 => data'[open[n]] = data[open[n]])
    BY <1>0, <1>2, <2>1, <2>2, FreshIsFree DEF OpenWeights, Create
  <2> QED BY <1>2, <2>1, <2>2, Observed DEF OpenWeights, Advance, Reader, FileStep
<1>3. CASE WriteTensor
  <2>1. touched' = touched \cup {n \in Fixed : open[n] \in {file}}
    BY <1>3 DEF WriteTensor, Touch
  <2>2. ASSUME NEW n \in Fixed, n \notin touched'
        PROVE  entry'[n] = entry[n] /\ (open[n] # 0 => data'[open[n]] = data[open[n]])
    BY <1>0, <1>3, <2>1, <2>2 DEF WriteTensor
  <2> QED BY <1>3, <2>1, <2>2, Observed DEF WriteTensor, Advance, Reader, FileStep
<1>4. CASE WritePending
  <2>1. ASSUME NEW n \in Fixed
        PROVE  entry'[n] = entry[n] /\ (open[n] # 0 => data'[open[n]] = data[open[n]])
               /\ (entry[n] # 0 => data'[entry[n]] = data[entry[n]])
    BY <1>0, <1>4, FreshIsFree DEF WritePending, Create
  <2>2. "weights" \in Fixed /\ "manifest" \in Fixed
    BY DEF Fixed
  <2>3. \A c \in Whole : Holds(c)' => Holds(c)
    BY <2>1, <2>2 DEF Holds
  <2>4. held' = held /\ touched' = touched
    BY <1>4 DEF WritePending
  <2>5. Current => Current'
    BY <2>3, <2>4 DEF Current
  <2> QED BY <1>4, <2>1, <2>4, <2>5 DEF WritePending, Advance, Reader, FileStep
<1>5. CASE Link
  <2>1. touched' = touched \cup {"manifest"} \cup {n \in Fixed : open[n] \in {entry["pending"]}}
    BY <1>5 DEF Link, Touch
  <2>2. ASSUME NEW n \in Fixed, n \notin touched'
        PROVE  entry'[n] = entry[n] /\ (open[n] # 0 => data'[open[n]] = data[open[n]])
    BY <1>0, <1>5, <2>1, <2>2 DEF Link
  <2> QED BY <1>5, <2>1, <2>2, Observed DEF Link, Advance, Reader, FileStep
<1>6. CASE Unlink
  <2>1. touched \subseteq touched' /\ data' = data /\ held' = held
    BY <1>6 DEF Unlink, Touch
  <2>2. ASSUME NEW n \in Fixed PROVE entry'[n] = entry[n]
    BY <1>0, <1>6 DEF Unlink
  <2>3. Current => Current'
    BY <2>1, <2>2 DEF Current, Holds, Fixed
  <2> QED BY <1>6, <2>1, <2>2, <2>3 DEF Unlink, Advance, Reader, FileStep
<1> QED BY <1>1, <1>2, <1>3, <1>4, <1>5, <1>6 DEF Writer

(***************************************************************************)
(* Another process leaves the types alone, too.                            *)
(***************************************************************************)
Other(n) == Rewrite(n) \/ Replace(n) \/ Remove(n)

LEMMA OtherFileStep == ASSUME Typed, NEW m \in Fixed, Other(m) PROVE Typed' /\ FileStep /\ tampers' # 0
<1>0. /\ \A n \in Fixed : n \in Names
      /\ entry \in [Names -> Inodes \cup {0}] /\ data \in [Inodes -> Content]
      /\ open \in [Fixed -> Inodes \cup {0}] /\ tampers \in Nat
      /\ m \in Names
  BY DEF Fixed, Names, Typed
<1>1. /\ wpc' = wpc /\ file' = file /\ k' = k /\ hash' = hash
      /\ rpc' = rpc /\ r' = r /\ open' = open /\ manifest' = manifest
      /\ tampers' = tampers + 1 /\ Observe
  BY DEF Other, Rewrite, Replace, Remove, Others, writervars
<1>2. CASE Rewrite(m)
  <2>1. PICK t \in 1 .. Tensors, b \in Bytes \cup {Cut} : data' = [data EXCEPT ![entry[m]][t] = b]
    BY <1>2 DEF Rewrite
  <2>2. entry' = entry /\ entry[m] \in Inodes /\ touched' = touched \cup {n \in Fixed : open[n] \in {entry[m]}}
    BY <1>0, <1>2 DEF Rewrite, Touch
  <2>3. data' \in [Inodes -> Content]
    BY <1>0, <2>1, <2>2 DEF Content
  <2>4. ASSUME NEW n \in Fixed, n \notin touched'
        PROVE  entry'[n] = entry[n] /\ (open[n] # 0 => data'[open[n]] = data[open[n]])
    BY <1>0, <2>1, <2>2, <2>4
  <2>5. FileStep
    BY <1>1, <2>2, <2>4, Observed DEF FileStep
  <2> QED BY <1>0, <1>1, <2>2, <2>3, <2>5 DEF Typed
<1>3. CASE Replace(m)
  <2>1. PICK c \in Whole : Create(m, c)
    BY <1>3 DEF Replace
  <2>2. c \in Content
    BY DEF Whole, Content
  <2>3. entry' = [entry EXCEPT ![m] = Fresh] /\ data' = [data EXCEPT ![Fresh] = c]
    BY <2>1 DEF Create
  <2>4. entry' \in [Names -> Inodes \cup {0}] /\ data' \in [Inodes -> Content]
    BY <1>0, <2>2, <2>3, FreshIsFree
  <2>5. touched' = touched \cup {m} \cup {n \in Fixed : open[n] \in {}}
    BY <1>3 DEF Replace, Touch
  <2>6. ASSUME NEW n \in Fixed, n \notin touched'
        PROVE  entry'[n] = entry[n] /\ (open[n] # 0 => data'[open[n]] = data[open[n]])
    BY <1>0, <2>3, <2>5, <2>6, FreshIsFree
  <2>7. FileStep
    BY <1>1, <2>5, <2>6, Observed DEF FileStep
  <2> QED BY <1>0, <1>1, <2>4, <2>7 DEF Typed
<1>4. CASE Remove(m)
  <2>1. entry' = [entry EXCEPT ![m] = 0] /\ data' = data /\ m \in touched' /\ touched \subseteq touched'
    BY <1>4 DEF Remove, Touch
  <2>2. entry' \in [Names -> Inodes \cup {0}]
    BY <1>0, <2>1
  <2>3. ASSUME NEW n \in Fixed, n \notin touched'
        PROVE  entry'[n] = entry[n]
    BY <1>0, <2>1, <2>3
  <2>4. FileStep
    BY <1>1, <2>1, <2>3, Observed DEF FileStep
  <2> QED BY <1>0, <1>1, <2>1, <2>2, <2>4 DEF Typed
<1> QED BY <1>2, <1>3, <1>4 DEF Other

(***************************************************************************)
(* Contents are equal that are equal tensor by tensor.                     *)
(***************************************************************************)
LEMMA SameContent ==
    ASSUME NEW f \in Content, NEW g \in Content, \A t \in 1 .. Tensors : f[t] = g[t]
    PROVE  f = g
<1>1. f = [t \in 1 .. Tensors |-> f[t]] /\ g = [t \in 1 .. Tensors |-> g[t]]
  BY Zenon DEF Content
<1>2. [t \in 1 .. Tensors |-> f[t]] = [t \in 1 .. Tensors |-> g[t]]
  BY Zenon
<1> QED BY <1>1, <1>2, Zenon

(***************************************************************************)
(* A step of the reader leaves files and writer alone.                     *)
(***************************************************************************)
LEMMA ReaderQuiet ==
    ASSUME Validator
    PROVE  UNCHANGED <<entry, data, synced, wpc, file, k, hash, tampers>> /\ (settled' = settled \/ Validate)
BY DEF Validator, Validate, Lstat, OpenRegular, ReadManifest, ReadTensor, CheckUnchanged, Reject, Read, Quiet,
       fsvars, writervars

LEMMA TypedReader == Typed /\ Validator => Typed'
<1> SUFFICES ASSUME Typed, Validator PROVE Typed'
    OBVIOUS
<1>0. UNCHANGED <<entry, data, synced, wpc, file, k, hash, tampers>>
  BY ReaderQuiet
<1> SUFFICES r' \in Nat \ {0} /\ open' \in [Fixed -> Inodes \cup {0}] /\ manifest' \in Content
    BY <1>0 DEF Typed
<1>1. CASE Validate
  <2>1. open' = [n \in Fixed |-> 0] /\ r' = 1 /\ manifest' = Nothing
    BY <1>1 DEF Validate
  <2> QED BY <2>1, Constants
<1>2. ASSUME NEW n \in Fixed, NEW from, NEW to, Lstat(n, from, to)
      PROVE  r' \in Nat \ {0} /\ open' \in [Fixed -> Inodes \cup {0}] /\ manifest' \in Content
  BY <1>2 DEF Lstat, Reject, Typed, Names, Fixed
<1>3. ASSUME NEW n, NEW from, NEW to, OpenRegular(n, from, to) \/ CheckUnchanged(n, from, to)
      PROVE  r' \in Nat \ {0} /\ open' \in [Fixed -> Inodes \cup {0}] /\ manifest' \in Content
  BY <1>3 DEF OpenRegular, CheckUnchanged, Reject, Typed
<1>4. CASE ReadManifest
  BY <1>4 DEF ReadManifest, Reject, Typed, Whole, Content
<1>5. CASE ReadTensor
  <2>1. r' \in Nat \ {0}
    <3>1. r \in Nat \ {0} /\ (r' = r \/ r' = r + 1)
      BY <1>5 DEF ReadTensor, Reject, Typed
    <3> QED BY <3>1
  <2> QED BY <1>5, <2>1 DEF ReadTensor, Reject, Typed
<1> QED BY <1>1, <1>2, <1>3, <1>4, <1>5 DEF Validator, Fixed

LEMMA TypedCrash == Typed /\ Crash => Typed'
<1> SUFFICES ASSUME Typed, Crash PROVE Typed'
    OBVIOUS
<1>1. entry' \in [Names -> Inodes \cup {0}]
  BY DEF Crash, Typed
<1>2. data' \in [Inodes -> Content]
  BY Constants DEF Crash, Typed
<1> QED BY <1>1, <1>2, Constants DEF Crash, Typed

LEMMA TypedStep == Typed /\ [BundleNext]_bundlevars => Typed'
<1>1. Typed /\ UNCHANGED bundlevars => Typed'
  BY DEF bundlevars, fsvars, writervars, readervars, Typed
<1> QED BY <1>1, TypedWriter, TypedReader, TypedCrash, OtherFileStep DEF BundleNext, World, Other

-----------------------------------------------------------------------------
(***************************************************************************)
(* The reader's invariant: kept by what others do to the files ...         *)
(***************************************************************************)
LEMMA ReaderFileStep == Typed /\ ReaderInv /\ FileStep => ReaderInv'
<1> SUFFICES ASSUME Typed, ReaderInv, FileStep PROVE ReaderInv'
    OBVIOUS
<1>1. "weights" \in Fixed /\ "manifest" \in Fixed
  BY DEF Fixed
<1>2. ASSUME NEW n \in Fixed, Kept(n), open[n] # 0 PROVE Kept(n)'
  BY <1>2 DEF Kept, FileStep
<1>3. ASSUME "manifest" \notin touched', open["manifest"] # 0,
             NEW v, "manifest" \notin touched => data[open["manifest"]] = v
      PROVE  data'[open["manifest"]] = v
  BY <1>1, <1>3 DEF FileStep
<1>4. ASSUME "weights" \notin touched', open["weights"] # 0
      PROVE  "weights" \notin touched /\ data'[open["weights"]] = data[open["weights"]]
  BY <1>1, <1>4 DEF FileStep
<1>5. rpc # "idle" => Current'
  BY DEF ReaderInv, FileStep
<1>6. rpc' = rpc /\ r' = r /\ open' = open /\ manifest' = manifest /\ touched \subseteq touched' /\ held \subseteq held'
  BY DEF FileStep
<1> QED BY <1>1, <1>2, <1>3, <1>4, <1>5, <1>6 DEF ReaderInv

(***************************************************************************)
(* ... and step by step by the reader itself.                              *)
(***************************************************************************)
LEMMA ReaderOwnStep == Typed /\ ReaderInv /\ Validator => ReaderInv'
<1> SUFFICES ASSUME Typed, ReaderInv, Validator PROVE ReaderInv'
    OBVIOUS
<1>0. UNCHANGED <<entry, data>>
  BY ReaderQuiet
<1>1. ASSUME rpc' = "rejected", rpc # "idle", held' = held PROVE ReaderInv'
  <2>1. Current'
    BY <1>0, <1>1 DEF ReaderInv, Current, Holds
  <2> QED BY <1>1, <2>1 DEF ReaderInv
<1>2. CASE Validate
  <2>1. Current'
    BY <1>0, <1>2 DEF Validate, Current, Holds
  <2> QED BY <1>2, <2>1 DEF Validate, ReaderInv
<1>3. CASE Lstat("manifest", "lstat manifest", "open manifest")
  <2>1. CASE entry["manifest"] = 0
    BY <1>1, <1>3, <2>1 DEF Lstat, Reject
  <2>2. CASE entry["manifest"] # 0
    <3>1. rpc = "lstat manifest" /\ rpc' = "open manifest" /\ held' = held /\ r' = r
      BY <1>3, <2>2 DEF Lstat, Read
    <3>2. open'["manifest"] = entry["manifest"]
      BY <1>3, <2>2 DEF Lstat, Typed, Fixed
    <3>3. Current'
      BY <1>0, <3>1 DEF ReaderInv, Current, Holds
    <3> QED BY <1>0, <2>2, <3>1, <3>2, <3>3 DEF ReaderInv, Kept
  <2> QED BY <2>1, <2>2
<1>4. CASE OpenRegular("manifest", "open manifest", "read manifest")
  <2>1. CASE "manifest" \in touched
    BY <1>1, <1>4, <2>1 DEF OpenRegular, Reject
  <2>2. CASE "manifest" \notin touched
    BY <1>0, <1>4, <2>2 DEF OpenRegular, Read, ReaderInv, Kept, Current, Holds
  <2> QED BY <2>1, <2>2
<1>5. CASE ReadManifest
  <2>1. CASE data[open["manifest"]] \notin Whole
    BY <1>1, <1>5, <2>1 DEF ReadManifest, Reject
  <2>2. CASE data[open["manifest"]] \in Whole
    BY <1>0, <1>5, <2>2 DEF ReadManifest, Read, ReaderInv, Kept, Current, Holds
  <2> QED BY <2>1, <2>2
<1>6. CASE Lstat("weights", "lstat weights", "open weights")
  <2>1. CASE entry["weights"] = 0
    BY <1>1, <1>6, <2>1 DEF Lstat, Reject
  <2>2. CASE entry["weights"] # 0
    <3>1. /\ rpc = "lstat weights" /\ rpc' = "open weights" /\ held' = held /\ r' = r /\ r = 1
          /\ manifest' = manifest /\ touched' = touched \ {"weights"}
      BY <1>6, <2>2 DEF Lstat, Read, ReaderInv
    <3>2. open'["weights"] = entry["weights"] /\ open'["manifest"] = open["manifest"]
      BY <1>6, <2>2 DEF Lstat, Typed, Fixed
    <3>3. Current'
      BY <1>0, <3>1 DEF ReaderInv, Current, Holds
    <3>4. \A t \in 1 .. r' - 1 : data'[open'["weights"]][t] = manifest'[t]
      <4>1. r' = 1
        BY <3>1
      <4>2. \A t \in 1 .. 1 - 1 : FALSE
        OBVIOUS
      <4> QED BY <4>1, <4>2
    <3> QED BY <1>0, <2>2, <3>1, <3>2, <3>3, <3>4 DEF ReaderInv, Kept
  <2> QED BY <2>1, <2>2
<1>7. CASE OpenRegular("weights", "open weights", "read weights")
  <2>1. CASE "weights" \in touched
    BY <1>1, <1>7, <2>1 DEF OpenRegular, Reject
  <2>2. CASE "weights" \notin touched
    <3>1. rpc = "open weights" /\ rpc' = "read weights" /\ held' = held /\ UNCHANGED <<r, open, touched, manifest>>
      BY <1>7, <2>2 DEF OpenRegular, Read
    <3>2. r' \in 1 .. Tensors
      <4>1. r' = 1
        BY <3>1 DEF ReaderInv
      <4> QED BY <4>1, Constants
    <3>3. Current'
      BY <1>0, <3>1 DEF ReaderInv, Current, Holds
    <3> QED BY <1>0, <3>1, <3>2, <3>3 DEF ReaderInv, Kept
  <2> QED BY <2>1, <2>2
<1>8. CASE ReadTensor
  <2>1. CASE data[open["weights"]][r] # manifest[r]
    BY <1>1, <1>8, <2>1 DEF ReadTensor, Reject
  <2>2. CASE data[open["weights"]][r] = manifest[r]
    <3>1. /\ rpc = "read weights" /\ rpc' = (IF r = Tensors THEN "check weights" ELSE "read weights")
          /\ r' = r + 1 /\ held' = held /\ UNCHANGED <<open, touched, manifest>>
      BY <1>8, <2>2 DEF ReadTensor, Read
    <3>2. r \in 1 .. Tensors /\ Tensors \in Nat
      BY <3>1, Constants DEF ReaderInv
    <3>3. "weights" \notin touched => \A t \in 1 .. r' - 1 : data'[open["weights"]][t] = manifest[t]
      <4>1. \A t \in 1 .. r' - 1 : t \in 1 .. r - 1 \/ t = r
        <5>1. r' = r + 1
          BY <3>1
        <5>2. \A t \in 1 .. (r + 1) - 1 : t \in 1 .. r - 1 \/ t = r
          BY <3>2
        <5> QED BY <5>1, <5>2
      <4>2. "weights" \notin touched => \A t \in 1 .. r - 1 : data[open["weights"]][t] = manifest[t]
        BY <3>1 DEF ReaderInv
      <4> QED BY <1>0, <2>2, <4>1, <4>2
    <3>4. /\ rpc' = "read weights" => r' \in 1 .. Tensors
          /\ rpc' = "check weights" => r' = Tensors + 1
      <4>1. CASE r = Tensors
        BY <3>1, <4>1
      <4>2. CASE r # Tensors
        <5>1. rpc' = "read weights" /\ r' = r + 1
          BY <3>1, <4>2
        <5>2. r + 1 \in 1 .. Tensors
          BY <3>2, <4>2
        <5> QED BY <5>1, <5>2
      <4> QED BY <4>1, <4>2
    <3>5. Current'
      BY <1>0, <3>1 DEF ReaderInv, Current, Holds
    <3> QED BY <1>0, <3>1, <3>3, <3>4, <3>5 DEF ReaderInv, Kept
  <2> QED BY <2>1, <2>2
<1>9. CASE CheckUnchanged("weights", "check weights", "check manifest")
  <2>1. CASE "weights" \in touched
    BY <1>1, <1>9, <2>1 DEF CheckUnchanged, Reject
  <2>2. CASE "weights" \notin touched
    <3>1. /\ rpc = "check weights" /\ rpc' = "check manifest"
          /\ held' = held /\ UNCHANGED <<r, open, touched, manifest>>
      BY <1>9, <2>2 DEF CheckUnchanged, Read
    <3>2. /\ entry["weights"] = open["weights"] /\ open["weights"] # 0 /\ r = Tensors + 1
          /\ \A t \in 1 .. r - 1 : data[open["weights"]][t] = manifest[t]
      BY <2>2, <3>1 DEF ReaderInv, Kept
    <3>3. data[open["weights"]] = manifest
      <4>1. open["weights"] \in Inodes
        BY <3>2 DEF Typed, Fixed
      <4>2. data[open["weights"]] \in Content /\ manifest \in Content
        BY <4>1 DEF Typed
      <4>3. \A t \in 1 .. Tensors : data[open["weights"]][t] = manifest[t]
        <5>1. r - 1 = Tensors
          BY <3>2, Constants
        <5> QED BY <3>2, <5>1
      <4> QED BY <4>2, <4>3, SameContent
    <3>4. "manifest" \notin touched => manifest \in held
      <4>1. ASSUME "manifest" \notin touched PROVE Holds(manifest)
        BY <3>1, <3>2, <3>3, <4>1 DEF Holds, ReaderInv, Kept
      <4> QED BY <3>1, <4>1 DEF ReaderInv, Current
    <3>5. Current'
      BY <1>0, <3>1 DEF ReaderInv, Current, Holds
    <3> QED BY <1>0, <3>1, <3>4, <3>5 DEF ReaderInv, Kept
  <2> QED BY <2>1, <2>2
<1>10. CASE CheckUnchanged("manifest", "check manifest", "accepted")
  <2>1. CASE "manifest" \in touched
    BY <1>1, <1>10, <2>1 DEF CheckUnchanged, Reject
  <2>2. CASE "manifest" \notin touched
    <3>1. rpc = "check manifest" /\ rpc' = "accepted" /\ held' = held /\ manifest' = manifest
      BY <1>10, <2>2 DEF CheckUnchanged, Read
    <3>2. Current' /\ manifest \in held
      BY <1>0, <2>2, <3>1 DEF ReaderInv, Current, Holds
    <3> QED BY <3>1, <3>2 DEF ReaderInv
  <2> QED BY <2>1, <2>2
<1> QED BY <1>2, <1>3, <1>4, <1>5, <1>6, <1>7, <1>8, <1>9, <1>10 DEF Validator

LEMMA ReaderStep == Typed /\ ReaderInv /\ [BundleNext]_bundlevars => ReaderInv'
<1>1. Typed /\ ReaderInv /\ UNCHANGED bundlevars => ReaderInv'
  BY DEF bundlevars, fsvars, writervars, readervars, ReaderInv, Kept, Current, Holds
<1>2. Typed /\ ReaderInv /\ Crash => ReaderInv'
  BY DEF Crash, ReaderInv
<1> QED BY <1>1, <1>2, WriterFileStep, OtherFileStep, ReaderFileStep, ReaderOwnStep DEF BundleNext, World, Other

-----------------------------------------------------------------------------
(***************************************************************************)
(* The writer's invariant, step by step, as long as nobody interferes.     *)
(***************************************************************************)
LEMMA WriterOwnStep == Typed /\ WriterInv /\ Writer => WriterInv'
<1> SUFFICES ASSUME Typed, WriterInv, Writer PROVE WriterInv'
    OBVIOUS
<1>0. /\ entry \in [Names -> Inodes \cup {0}] /\ data \in [Inodes -> Content]
      /\ "weights" \in Names /\ "pending" \in Names /\ "manifest" \in Names
      /\ Fresh \in Inodes /\ Fresh # 0 /\ file # Fresh /\ \A n \in Names : entry[n] # Fresh
  BY FreshIsFree DEF Typed, Names, Inodes
<1>1. CASE WriteFails
  <2>1. /\ wpc \in {"mkdir", "weights", "write", "sync", "pending", "sync pending", "link"}
        /\ wpc' = "raised" /\ entry' = entry
    BY <1>1 DEF WriteFails, fsvars
  <2>2. entry["manifest"] = 0
    BY <1>0, <2>1 DEF WriterInv, Writing
  <2> QED BY <2>1, <2>2 DEF WriterInv, Writing
<1>2. CASE Mkdir
  BY <1>2 DEF Mkdir, Advance, fsvars, WriterInv, Writing
<1>3. CASE OpenWeights
  <2>1. wpc = "weights" /\ wpc' = "write" /\ k' = k /\ k = 1 /\ hash' = hash /\ hash = Nothing
    BY <1>3 DEF OpenWeights, Advance, WriterInv, Typed
  <2>2. /\ file' = Fresh /\ entry' = [entry EXCEPT !["weights"] = Fresh]
        /\ data' = [data EXCEPT ![Fresh] = Nothing]
    BY <1>3 DEF OpenWeights, Create
  <2>3. entry["manifest"] = 0 /\ entry["pending"] = 0
    BY <1>0, <2>1 DEF WriterInv
  <2>4. \A t \in 1 .. k' - 1 : hash'[t] \in Bytes
    <3>1. k' = 1
      BY <2>1
    <3>2. \A t \in 1 .. 1 - 1 : FALSE
      OBVIOUS
    <3> QED BY <3>1, <3>2
  <2>5. entry'["manifest"] = 0 /\ entry'["pending"] = 0 /\ entry'["weights"] = Fresh /\ data'[Fresh] = Nothing
    BY <1>0, <2>2, <2>3
  <2> QED BY <1>0, <2>1, <2>2, <2>4, <2>5 DEF WriterInv, Writing
<1>4. CASE WriteTensor
  <2>1. /\ wpc = "write" /\ wpc' = (IF k = Tensors THEN "sync" ELSE "write")
        /\ entry' = entry /\ file' = file /\ k' = k + 1
        /\ data' = [data EXCEPT ![file][k] = Source(k)] /\ hash' = [hash EXCEPT ![k] = Source(k)]
    BY <1>4 DEF WriteTensor, Advance
  <2>2. k \in 1 .. Tensors /\ file \in Inodes /\ hash \in Content
    BY <2>1 DEF Typed
  <2>3. data[file] = hash /\ \A t \in 1 .. k - 1 : hash[t] \in Bytes
    BY <2>1 DEF WriterInv, Writing
  <2>4. data'[file] = hash'
    BY <1>0, <2>1, <2>2, <2>3
  <2>5. \A t \in 1 .. k' - 1 : hash'[t] \in Bytes
    <3>1. k' = k + 1
      BY <2>1
    <3>2. \A t \in 1 .. (k + 1) - 1 : t = k \/ t \in 1 .. k - 1
      BY <2>2
    <3>3. \A t \in 1 .. (k + 1) - 1 : t \in 1 .. Tensors
      BY <2>2, Constants
    <3>4. \A t \in 1 .. Tensors : hash'[t] = IF t = k THEN Source(k) ELSE hash[t]
      BY <2>1, <2>2 DEF Content
    <3> QED BY <2>3, <3>1, <3>2, <3>3, <3>4, Constants
  <2>6. wpc' # "write" => wpc' = "sync" /\ k' = Tensors + 1
    BY <2>1
  <2> QED BY <2>1, <2>3, <2>4, <2>5, <2>6 DEF WriterInv, Writing
<1>5. CASE SyncWeights
  BY <1>5 DEF SyncWeights, Advance, WriterInv, Writing
<1>6. CASE WritePending
  <2>1. /\ wpc = "pending" /\ wpc' = "sync pending" /\ file' = file /\ k' = k /\ hash' = hash
        /\ entry' = [entry EXCEPT !["pending"] = Fresh] /\ data' = [data EXCEPT ![Fresh] = hash]
        /\ synced' = synced \ {Fresh}
    BY <1>6 DEF WritePending, Advance, Create
  <2>2. file \in Inodes /\ file # Fresh /\ data[file] = hash
    BY <1>0, <2>1 DEF WriterInv, Writing, Typed
  <2>3. /\ entry'["pending"] = Fresh /\ entry'["weights"] = entry["weights"] /\ entry'["manifest"] = entry["manifest"]
        /\ data'[Fresh] = hash /\ data'[file] = hash
    BY <1>0, <2>1, <2>2
  <2> QED BY <1>0, <2>1, <2>2, <2>3 DEF WriterInv, Writing
<1>7. CASE SyncPending
  BY <1>7 DEF SyncPending, Advance, WriterInv, Writing
<1>8. CASE Link
  <2>1. /\ wpc = "link" /\ wpc' = "unlink" /\ data' = data /\ synced' = synced
        /\ entry' = [entry EXCEPT !["manifest"] = entry["pending"]]
    BY <1>8 DEF Link, Advance
  <2>2. entry'["manifest"] = entry["pending"] /\ entry'["weights"] = entry["weights"]
    BY <1>0, <2>1
  <2>3. /\ entry["weights"] = file /\ file # 0 /\ data[file] = hash /\ file \in synced
        /\ entry["pending"] # 0 /\ data[entry["pending"]] = hash /\ entry["pending"] \in synced
        /\ k = Tensors + 1 /\ \A t \in 1 .. k - 1 : hash[t] \in Bytes
    BY <2>1 DEF WriterInv, Writing
  <2>4. hash \in Whole
    <3>1. k - 1 = Tensors
      BY <2>3, Constants
    <3>2. hash \in Content /\ \A t \in 1 .. Tensors : hash[t] \in Bytes
      BY <2>3, <3>1 DEF Typed
    <3> QED BY <3>2, Zenon DEF Content, Whole
  <2>5. Published'
    BY <2>1, <2>2, <2>3, <2>4 DEF Published
  <2> QED BY <2>1, <2>5 DEF WriterInv, Writing
<1>9. CASE Unlink
  <2>1. wpc = "unlink" /\ wpc' = "returned" /\ data' = data /\ synced' = synced
    BY <1>9 DEF Unlink, Advance
  <2>2. entry'["manifest"] = entry["manifest"] /\ entry'["weights"] = entry["weights"]
    BY <1>0, <1>9 DEF Unlink
  <2>3. Published'
    BY <2>1, <2>2 DEF Published, WriterInv
  <2> QED BY <2>1, <2>3 DEF WriterInv, Writing
<1> QED BY <1>1, <1>2, <1>3, <1>4, <1>5, <1>6, <1>7, <1>8, <1>9 DEF Writer

(***************************************************************************)
(* A power failure loses what is not on disk; what is published is.        *)
(***************************************************************************)
LEMMA WriterCrash == Typed /\ WriterInv /\ Crash => WriterInv'
<1> SUFFICES ASSUME Typed, WriterInv, Crash PROVE WriterInv'
    OBVIOUS
<1>0. /\ "weights" \in Names /\ "manifest" \in Names
      /\ entry["weights"] \in Inodes \cup {0} /\ entry["manifest"] \in Inodes \cup {0}
  BY DEF Typed, Names
<1>1. wpc # "crashed" /\ wpc' = "crashed"
  BY DEF Crash
<1>2. PICK kept \in SUBSET Names : entry' = [n \in Names |-> IF n \in kept THEN entry[n] ELSE 0]
  BY DEF Crash
<1>3. PICK lost \in SUBSET (InUse \ (synced \cup {0})) :
          data' = [f \in Inodes |-> IF f \in lost THEN Nothing ELSE data[f]]
  BY DEF Crash
<1>4. \A f \in Inodes : f \in synced => data'[f] = data[f]
  BY <1>3
<1>5. \A n \in {"weights", "manifest"} : entry'[n] = 0 \/ entry'[n] = entry[n]
  BY <1>0, <1>2
<1>6. CASE entry["manifest"] = 0
  <2>1. entry'["manifest"] = 0
    BY <1>5, <1>6
  <2> QED BY <1>1, <2>1 DEF WriterInv, Writing
<1>7. CASE entry["manifest"] # 0
  <2>1. Published
    BY <1>0, <1>1, <1>7 DEF WriterInv, Writing
  <2>2. data'[entry["manifest"]] = data[entry["manifest"]] /\ data'[entry["weights"]] = data[entry["weights"]]
    BY <1>0, <1>4, <2>1 DEF Published
  <2>3. /\ entry'["manifest"] # 0 => data'[entry'["manifest"]] \in Whole
        /\ entry'["manifest"] # 0 /\ entry'["weights"] # 0 => data'[entry'["weights"]] = data'[entry'["manifest"]]
    BY <1>5, <2>1, <2>2 DEF Published
  <2> QED BY <1>1, <2>3 DEF WriterInv, Writing
<1> QED BY <1>6, <1>7

-----------------------------------------------------------------------------
(***************************************************************************)
(* A reader that began well goes on well.                                  *)
(***************************************************************************)
LEMMA UndisturbedReader ==
    ASSUME Typed, ReaderInv, WriterInv, settled => Undisturbed, Validator, settled'
    PROVE  Undisturbed'
<1>0. UNCHANGED <<entry, data, wpc, tampers>>
  BY ReaderQuiet
<1>1. CASE Validate
  <2>1. rpc' = "lstat manifest" /\ touched' = {} /\ held' = {c \in Whole : Holds(c)}
        /\ (wpc = "returned" \/ (wpc = "crashed" /\ held' # {}))
    BY <1>1 DEF Validate
  <2>2. CASE wpc = "returned"
    BY <1>0, <2>1, <2>2 DEF WriterInv, Published, Undisturbed
  <2>3. CASE wpc = "crashed" /\ held' # {}
    <3>1. PICK c \in Whole : Holds(c)
      BY <2>1, <2>3
    <3> QED BY <1>0, <2>1, <2>3, <3>1 DEF Holds, Undisturbed
  <2> QED BY <2>1, <2>2, <2>3
<1>2. CASE ~Validate
  <2>1. Undisturbed
    BY <1>2, ReaderQuiet
  <2> SUFFICES rpc' # "rejected" /\ touched' = {}
      BY <1>0, <2>1 DEF Undisturbed
  <2>2. CASE Lstat("manifest", "lstat manifest", "open manifest") \/ Lstat("weights", "lstat weights", "open weights")
    BY <2>1, <2>2 DEF Lstat, Read, Undisturbed
  <2>3. CASE \/ OpenRegular("manifest", "open manifest", "read manifest")
             \/ OpenRegular("weights", "open weights", "read weights")
             \/ CheckUnchanged("weights", "check weights", "check manifest")
             \/ CheckUnchanged("manifest", "check manifest", "accepted")
    BY <2>1, <2>3 DEF OpenRegular, CheckUnchanged, Read, Undisturbed
  <2>4. CASE ReadManifest
    <3>1. data[open["manifest"]] \in Whole
      BY <2>1, <2>4 DEF ReadManifest, Reject, Read, ReaderInv, Kept, Undisturbed
    <3> QED BY <2>1, <2>4, <3>1 DEF ReadManifest, Read, Undisturbed
  <2>5. CASE ReadTensor
    <3>1. rpc = "read weights"
      BY <2>5 DEF ReadTensor
    <3>2. data[open["weights"]] = manifest
      BY <2>1, <3>1 DEF ReaderInv, Kept, Undisturbed
    <3> QED BY <2>1, <2>5, <3>2 DEF ReadTensor, Read, Undisturbed
  <2> QED BY <1>2, <2>2, <2>3, <2>4, <2>5 DEF Validator
<1> QED BY <1>1, <1>2

-----------------------------------------------------------------------------
(***************************************************************************)
(* IInv is inductive.                                                      *)
(***************************************************************************)
LEMMA InitIInv == BundleInit => IInv
<1> SUFFICES ASSUME BundleInit PROVE IInv
    OBVIOUS
<1>1. Typed
  BY InitTyped
<1>2. ReaderInv
  BY DEF BundleInit, ReaderInv
<1>3. WriterInv
  BY DEF BundleInit, WriterInv, Writing
<1>4. ~settled
  BY DEF BundleInit
<1> QED BY <1>1, <1>2, <1>3, <1>4 DEF IInv

LEMMA StepIInv == IInv /\ [BundleNext]_bundlevars => IInv'
<1> SUFFICES ASSUME IInv, [BundleNext]_bundlevars PROVE IInv'
    OBVIOUS
<1>0. Typed /\ ReaderInv /\ (tampers = 0 => WriterInv) /\ (tampers = 0 /\ settled => Undisturbed) /\ tampers \in Nat
  BY DEF IInv, Typed
<1>1. Typed' /\ ReaderInv'
  BY <1>0, TypedStep, ReaderStep
<1>2. CASE Writer
  <2>1. tampers' = tampers /\ settled' = settled /\ wpc \notin {"returned", "crashed"}
    BY <1>2 DEF Writer, WriteFails, Mkdir, OpenWeights, WriteTensor, SyncWeights, WritePending,
                SyncPending, Link, Unlink, Advance, Reader
  <2> QED BY <1>0, <1>1, <1>2, <2>1, WriterOwnStep DEF IInv, Undisturbed
<1>3. CASE Validator
  <2>1. UNCHANGED <<entry, data, synced, wpc, file, k, hash, tampers>>
    BY <1>3, ReaderQuiet
  <2>2. tampers' = 0 => WriterInv'
    BY <1>0, <2>1 DEF WriterInv, Published
  <2>3. tampers' = 0 /\ settled' => Undisturbed'
    BY <1>0, <1>3, <2>1, UndisturbedReader
  <2> QED BY <1>1, <2>2, <2>3 DEF IInv
<1>4. CASE Crash
  <2>1. ~settled' /\ tampers' = tampers
    BY <1>4 DEF Crash
  <2> QED BY <1>0, <1>1, <1>4, <2>1, WriterCrash DEF IInv
<1>5. ASSUME NEW n \in Fixed, Rewrite(n) \/ Replace(n) \/ Remove(n) PROVE IInv'
  BY <1>0, <1>1, <1>5, OtherFileStep DEF Other, IInv
<1>6. CASE UNCHANGED bundlevars
  BY <1>0, <1>1, <1>6 DEF bundlevars, fsvars, writervars, readervars, IInv, WriterInv, Published, Undisturbed
<1> QED BY <1>2, <1>3, <1>4, <1>5, <1>6 DEF BundleNext, World

LEMMA Invariant == BundleSpec => []IInv
BY InitIInv, StepIInv, PTL DEF BundleSpec

(***************************************************************************)
(* "Publish only after durable tensor and manifest writes": whatever a     *)
(* power failure leaves, a manifest that the writer published is whole,    *)
(* and so are the weights beside it; a call that raised published none.    *)
(***************************************************************************)
THEOREM Durable == BundleSpec => []PublishedWhole
<1>1. IInv => PublishedWhole
  <2> SUFFICES ASSUME IInv, tampers = 0 PROVE PublishedWhole
      BY DEF PublishedWhole
  <2>1. WriterInv
    BY DEF IInv
  <2>2. CASE wpc \in {"mkdir", "weights", "raised"} \cup Writing
    <3>1. entry["manifest"] = 0
      BY <2>1, <2>2 DEF WriterInv, Names
    <3> QED BY <3>1 DEF PublishedWhole
  <2>3. CASE wpc \in {"unlink", "returned", "crashed"}
    BY <2>1, <2>3 DEF WriterInv, Published, PublishedWhole
  <2> QED BY <2>1, <2>2, <2>3 DEF WriterInv
<1> QED BY <1>1, Invariant, PTL

(***************************************************************************)
(* A bundle that is accepted is one that the directory held at one moment  *)
(* of the call, whatever other processes do to the files meanwhile.        *)
(***************************************************************************)
THEOREM Snapshot == BundleSpec => []AcceptedWasThere
<1>1. IInv => AcceptedWasThere
  BY DEF IInv, ReaderInv, AcceptedWasThere
<1> QED BY <1>1, Invariant, PTL

(***************************************************************************)
(* What a writer that returned, or a crash, leaves whole is accepted, as   *)
(* long as nobody touches the files.                                       *)
(***************************************************************************)
THEOREM Acceptance == BundleSpec => []RejectedForCause
<1>1. IInv => RejectedForCause
  BY DEF IInv, Undisturbed, RejectedForCause
<1> QED BY <1>1, Invariant, PTL
=============================================================================
