-------------------------- MODULE MCCompletionBatch --------------------------
(* Instances of CompletionBatch for TLC. *)
EXTENDS CompletionBatch, TLC

CONSTANTS b1, s1, t1, t2

MCBatchPorts == {b1}
MCStreamPorts == {s1}
NoStreams == {}
MCThreads == {t1, t2}

Symmetry == Permutations(MCThreads)
=============================================================================
