------------------------------- MODULE MCHop -------------------------------
(* Keys are replaced while nobody is a member, or the membership changes while *)
(* the keys stay; the person has a session or an access token.  The proofs     *)
(* cover all at once.                                                          *)
EXTENDS Hop, TLC

OneAtATime ==
    \/ ~member /\ lastMember < 0 /\ session = None /\ token = None
    \/ /\ trusted = Key /\ switched = 0
       /\ flight = None \/ (flight.named /\ flight.ours)
       /\ None \in {session, token}

MCInit == HopInit /\ OneAtATime
MCNext == HopNext /\ OneAtATime'
MCSpec == MCInit /\ [][MCNext]_hopVars

Symmetry == Permutations(Key)
=============================================================================
