---------------------------- MODULE MCBatchStream ----------------------------
(* Instances of BatchStream for TLC: the bounds are in the .cfg files. *)
EXTENDS BatchStream
=============================================================================
