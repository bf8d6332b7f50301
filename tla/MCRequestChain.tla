--------------------------- MODULE MCRequestChain ---------------------------
(* TLC instance of RequestChain: every way to authenticate and to authorize under the     *)
(* default header names, and every naming of headers on a route that lets everybody       *)
(* through, as who may pass has nothing to do with headers.                               *)
EXTENDS RequestChain, TLC

Routes == {c \in Config :
    \/ ~c.override /\ {c.issueHeader, c.acceptHeader} = {DefaultAssertionHeader}
    \/ c.policies = <<>> /\ ~c.redirect /\ ~c.required}

Symmetry == Permutations(Subject)
=============================================================================
