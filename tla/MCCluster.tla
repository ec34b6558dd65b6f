----------------------------- MODULE MCCluster -----------------------------
(* Two workers, so that the broadcast and the shared webhook matter.        *)
EXTENDS Cluster

CONSTANTS w1, w2, a1
============================================================================
