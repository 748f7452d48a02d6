--------------------------- MODULE BundleContents ---------------------------
(***************************************************************************)
(* What the files of a weight bundle hold.  A weights file is its tensors' *)
(* bytes, one value each, Cut where nothing was written; a manifest is the *)
(* hashes of such a file, that is, what a file must hold to match it.      *)
(***************************************************************************)
EXTENDS Integers, FiniteSets

CONSTANTS
    Bytes,      \* what a tensor may hold
    Tensors,    \* number of tensors of the bundle
    MaxTampers  \* bound: changes by other processes

Cut     == "cut"
Nothing == [t \in 1 .. Tensors |-> Cut]
Whole   == [1 .. Tensors -> Bytes]

\* There is a tensor, bytes can be told from a gap, and changes are counted.
ASSUME BundleAssumption ==
    /\ Tensors \in Nat \ {0}
    /\ Bytes # {} /\ Cut \notin Bytes
    /\ MaxTampers \in Nat

\* What the caller's arrays hold, tensor by tensor.
Source(t) == CHOOSE b \in Bytes : TRUE
=============================================================================
