------------------------------ MODULE MCStepUp ------------------------------
(* Instances of StepUp for TLC.                                            *)
EXTENDS StepUp, TLC

CONSTANTS a1, a2, s1, s2

\* The second audience grants one of the two scopes of the configuration.
Wanted  == [a \in MaybeAudience |-> IF a = a2 THEN {s1, s2} ELSE {s1}]
Granted == [a \in MaybeAudience |-> IF a = a2 THEN {s2} ELSE {s1, s2}]

Of(aud, scope, merge) ==
    [aud |-> aud, scope |-> scope, merge |-> merge, refresh |-> FALSE]

Tokens1 == {Of(NoAudience, {}, TRUE), Of(a2, {}, TRUE), Of(a1, {}, TRUE)}
Enrolls == {Of(a2, {s1}, TRUE)}
Popups1 == {Of(a2, {}, TRUE)}
Both    == {a1, a2}
Symmetric == Permutations(Popups)
=============================================================================
