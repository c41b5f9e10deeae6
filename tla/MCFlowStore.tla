---------------------------- MODULE MCFlowStore ----------------------------
(* FlowStore on a small instance: see README.md, "Runs and bounds". *)
EXTENDS FlowStore, TLC

(* Module instances are alike, and so are handles. *)
Symmetry == Permutations(Instances) \cup Permutations(Handles)
=============================================================================
