------------------------------ MODULE MCCapture ------------------------------
(* Capture for TLC: the stacks of all throw sites show a frame of the same   *)
(* app class, or of none.                                                    *)
EXTENDS Capture, TLC

SharedClass == [f \in Fingerprints |-> CHOOSE c \in Classes : TRUE]

NoClass == [f \in Fingerprints |-> "none"]

Symmetry == Permutations(Threads) \cup Permutations(Fingerprints)
=============================================================================
