---------------------------- MODULE MCLoginFlow ----------------------------
(* Instances of LoginFlow for TLC.                                         *)
EXTENDS LoginFlow, TLC

CONSTANTS i1, i2, d1, d2

\* Two issuers, each with a domain of its own.
OwnDomains == i1 :> d1 @@ i2 :> d2

Swapped == i1 :> i2 @@ i2 :> i1 @@ d1 :> d2 @@ d2 :> d1
Symmetric == Permutations(Requests) \cup Permutations(States) \cup {Swapped}
=============================================================================
