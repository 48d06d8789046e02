--------------------------- MODULE MCBackgroundJobs ---------------------------
(* Instances of BackgroundJobs for TLC. *)
EXTENDS BackgroundJobs, TLC

CONSTANTS c1, c2, e1, e2

MCCallers == {c1, c2}
OneCaller == {c1}
MCEntries == {e1, e2}
OneEntry  == {e1}

Symmetry == Permutations(MCCallers)
=============================================================================
