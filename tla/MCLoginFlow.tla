---------------------------- MODULE MCLoginFlow ----------------------------
(* LoginFlow for TLC: all sign-ins but the legacy one are interchangeable. *)
EXTENDS LoginFlow, TLC

Symmetry == Permutations(Flow \ {Legacy})
=============================================================================
