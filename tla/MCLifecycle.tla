---------------------------- MODULE MCLifecycle -----------------------------
(* Two sources, so that an edit can fall between the two reads of a Load.  *)
EXTENDS Lifecycle, TLC

MCValues == {"v1", "v2", Invalid}
RequestSymmetry == Permutations(Requests)
=============================================================================
