-------------------------- MODULE MCL1Coherence ---------------------------
(* Two peers that store one word of each of the two lines of a set. *)
EXTENDS L1Coherence

CONSTANTS p1, p2

MCPeer == {p1, p2}

\* One peer announces one store at a time: what is left is the wrap of an epoch.
MCOnePeer == {p1}

MCShared == {0, 2}
=============================================================================
