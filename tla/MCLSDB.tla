------------------------------- MODULE MCLSDB -------------------------------
(* Instances of LSDB for TLC.                                              *)
EXTENDS LSDB

CONSTANTS r0, r1

BothRouter == [k \in {r0, r1} |-> "router"]
=============================================================================
