---------------------------- MODULE MCAdjacency ----------------------------
(* Instances of Adjacency for TLC.                                         *)
EXTENDS Adjacency, TLC

CONSTANTS ks, ws, km

One == {km}
Once == <<km>>

\* A slave that died or was misled is followed no further.
Led == ~misled /\ halted = "no"
=============================================================================
