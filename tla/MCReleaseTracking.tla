-------------------------- MODULE MCReleaseTracking --------------------------
(* Instances of ReleaseTracking for TLC. *)
EXTENDS ReleaseTracking, TLC

Symmetry == Permutations(Emails) \cup Permutations(Scanners) \cup Permutations(Callers)
=============================================================================
