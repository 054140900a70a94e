------------------------ MODULE MCStatelessSessions ------------------------
(* Instances of StatelessSessions for TLC.                                 *)
EXTENDS StatelessSessions, TLC

UpToThree   == 1 .. 3
Symmetric   == Permutations(Requests) \cup Permutations(Writes)
                 \cup Permutations(Logins \ {LegacyLogin})
=============================================================================
