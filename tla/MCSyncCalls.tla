---------------------------- MODULE MCSyncCalls ----------------------------
\* The synchronous calls for TLC: every method of the table, of those with a
\* callback one that answers inside the call and one whose callback is posted,
\* since the others run the same way.
EXTENDS SyncCalls

MCMethods ==
  {m \in DOMAIN Dart!DartMethods :
     \/ Dart!DartMethods[m].calls = "none"
     \/ m \in {"onTransformEvent", "onIntEvent"}}

Symmetry == Permutations(Callables)
=============================================================================
