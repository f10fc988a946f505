---------------------------- MODULE MCPolicySync ----------------------------
(* Instances of PolicySync.  Overlapping passes are interchangeable.       *)
EXTENDS PolicySync, TLC

PassSymmetry == Permutations(Pass)
=============================================================================
