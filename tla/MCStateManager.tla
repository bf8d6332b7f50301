--------------------------- MODULE MCStateManager ---------------------------
(* TLC instance of StateManager: interchangeable requests, and the surroundings. *)
EXTENDS StateManager, TLC

CONSTANTS i1, i2

Quietly == [rotating |-> TRUE, instances |-> {i1}, atLife |-> 5, ttl |-> 10, patience |-> 1,
            horizon |-> 10, maxFaults |-> 0, faultKinds |-> {}]
Shorter == [Quietly EXCEPT !.atLife = 3, !.ttl = 4, !.horizon = 5]

\* Nothing fails; an IdP and a store that fail, and clients that leave; two replicas that
\* crash or fail to store, with an IdP that does not rotate; an IdP that does not say when
\* its tokens expire.
Surroundings ==
    {Quietly,
     [Shorter EXCEPT !.maxFaults = 2, !.faultKinds = {"get", "delete", "refuse", "cancel"}],
     [Shorter EXCEPT !.rotating = FALSE, !.instances = {i1, i2}, !.ttl = 3, !.horizon = 3,
                     !.maxFaults = 1, !.faultKinds = {"crash", "set"}],
     [Shorter EXCEPT !.atLife = 0, !.ttl = 1, !.horizon = 2,
                     !.maxFaults = 1, !.faultKinds = {"get", "refuse", "cancel"}]}

\* Everything that can fail does, twice.
Hostile ==
    {[Quietly EXCEPT !.atLife = 2, !.ttl = 3, !.horizon = 3,
                     !.maxFaults = 2, !.faultKinds = AllFaults]}

\* Nothing fails.
Peaceful == {[Quietly EXCEPT !.atLife = 2, !.ttl = 6, !.horizon = 4]}

Symmetry == Permutations(Request)
=============================================================================
