-------------------------- MODULE MCTokenRequests --------------------------
(* Instances of TokenRequests for TLC.                                     *)
EXTENDS TokenRequests, TLC

CONSTANTS a1, a2, s1, s2

\* The default audience has a scope of its own; the second grants only s1.
Wanted  == [a \in MaybeAudience |-> {s1}]
Granted == [a \in MaybeAudience |-> IF a = a2 THEN {s1} ELSE {s1, s2}]
OnlyS1  == {s1}
DefaultLogin == {Default}

Ask(aud, scope, merge, refresh) ==
    [aud |-> aud, scope |-> scope, merge |-> merge, refresh |-> refresh]

\* getAccessToken with and without an audience and a scope, merged or not;
\* the others name an audience and a scope.
Calls == {NoAsk, Ask(NoAudience, {s2}, TRUE, FALSE),
          Ask(a2, {s2}, TRUE, FALSE)}
Everything ==
    [k \in Kinds |->
       CASE k = "token" -> Calls
         [] k = "popup" -> {Ask(a2, {s1, s2}, TRUE, FALSE)}
         [] k \in {"proxy", "connect"} -> {Ask(a2, {s2}, TRUE, FALSE)}
         [] OTHER -> {NoAsk}]
Symmetric == Permutations(Requests) \cup Permutations(RefreshTokens)
=============================================================================
