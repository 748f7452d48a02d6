----------------------------- MODULE ConstMerge ------------------------------
(***************************************************************************)
(* scratchv/backend/const_merge.py: lui of a value that the register       *)
(* already holds removed, lui and addi merged into li, until neither finds *)
(* anything.                                                               *)
(***************************************************************************)
EXTENDS AsmText, SequencesExt

IsSeparator(line) == line.op = none /\ line.label = none
ControlFlow == {"beq", "j", "call", "ret"}
Known == {"add", "addi", "div", "lui", "li", "mv", "lw", "sw", "nop"} \cup ControlFlow

\* Which registers are known to hold which upper part, behind a line.
\* Mutation of KnownAfter: a call is taken for an instruction that writes nothing.
KnownAfterKept(line, known) ==
    LET here == IF line.label # none THEN {} ELSE known
    IN CASE line.op = none -> here
         [] line.op = "lui" -> {k \in here : k[1] # Canon(line.rd)} \cup {<<Canon(line.rd), line.imm>>}
         [] line.op \in ControlFlow \ {"call"} \/ line.op \notin Known \cup {none} -> {}
         [] OTHER -> {k \in here : line.rd = none \/ k[1] # Canon(line.rd)}

KnownAfter(line, known) ==
    LET here == IF line.label # none THEN {} ELSE known
    IN CASE line.op = none -> here
         [] line.op = "lui" -> {k \in here : k[1] # Canon(line.rd)} \cup {<<Canon(line.rd), line.imm>>}
         [] line.op \in ControlFlow \/ line.op \notin Known \cup {none} -> {}
         [] OTHER -> {k \in here : line.rd = none \/ k[1] # Canon(line.rd)}

\* _remove_redundant_lui_once; a removed line becomes a comment.
RemoveRedundantLui(text) ==
    LET known[n \in 0 .. Len(text)] ==
            IF n = 0 THEN {} ELSE KnownAfter(text[n], known[n - 1])
        redundant(n) == /\ text[n].op = "lui" /\ text[n].label = none
                        /\ <<Canon(text[n].rd), text[n].imm>> \in known[n - 1]
    IN [n \in DOMAIN text |-> IF redundant(n) THEN Comment ELSE text[n]]

SignExtend(n) == LET low == n % Low IN IF low >= Low \div 2 THEN low - Low ELSE low
SignedWord(n) == LET word == n % Words IN IF word >= Words \div 2 THEN word - Words ELSE word

\* The addi that a lui can be merged with, or 0: the next line that is no separator.
Partner(text, i) ==
    LET later == {j \in i + 1 .. Len(text) : ~IsSeparator(text[j])}
        j == CHOOSE j \in later : \A k \in later : j <= k
    IN IF /\ text[i].op = "lui" /\ later # {}
          /\ text[j].op = "addi" /\ text[j].label = none
          /\ Canon(text[i].rd) = Canon(text[j].rd)
          /\ Canon(text[i].rd) = Canon(text[j].rs[1])
       THEN j ELSE 0

Merged(text, i) ==
    At(text[i].label,
       Li(text[i].rd, SignedWord(text[i].imm * Low + SignExtend(text[Partner(text, i)].imm))))

\* _merge_lui_addi_once
MergeLuiAddi(text) ==
    LET taken == {Partner(text, i) : i \in DOMAIN text}
        each == [n \in DOMAIN text |->
                    CASE n \in taken -> <<>>
                      [] Partner(text, n) # 0 -> <<Merged(text, n)>>
                      [] OTHER -> <<text[n]>>]
    IN FlattenSeq(each)

\* One iteration of merge_constants_detailed.
MergeConstants(text) == MergeLuiAddi(RemoveRedundantLui(text))
=============================================================================
