------------------------------ MODULE MCSampler ------------------------------
(* Sampler for TLC: threads and throw sites are interchangeable.            *)
EXTENDS Sampler, TLC
Symmetry == Permutations(Threads) \cup Permutations(Fingerprints)
=============================================================================
