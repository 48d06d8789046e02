--------------------------- MODULE MCBackgroundHost ---------------------------
(* Instances of BackgroundHost for TLC. *)
EXTENDS BackgroundHost, TLC

CONSTANTS w1, d1, e1

MCWorkers == {w1}
MCCallers == {w1, d1}
OneEntry  == {e1}
=============================================================================
