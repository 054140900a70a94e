------------------------- MODULE MCSessionLifetime -------------------------
(* Instances of SessionLifetime for TLC.                                   *)
EXTENDS SessionLifetime, TLC

OneOff      == {-1, 1}
SomeCeiling == {0, 5}
Symmetric   == Permutations(Requests)
=============================================================================
