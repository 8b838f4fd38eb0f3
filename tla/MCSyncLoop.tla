----------------------------- MODULE MCSyncLoop -----------------------------
(* SyncLoop on small instances.                                            *)
EXTENDS SyncLoop, TLC

(* The calls to start() and the handlers are interchangeable.              *)
Symmetry == Permutations(Start) \cup Permutations(Handler)
=============================================================================
