---------------------------- MODULE MCKeyedMutex ----------------------------
(* TLC instance of KeyedMutex: symmetric goroutines, keys and mutex objects. *)
EXTENDS KeyedMutex, TLC

Symmetry == Permutations(Goroutine) \cup Permutations(Key) \cup Permutations(Ref)
=============================================================================
