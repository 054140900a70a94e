---------------------------- MODULE AccessTokens ----------------------------
(***************************************************************************)
(* The tokens of a session: the token set of the login, the access tokens  *)
(* for other audiences and scopes (`cached`, in the order of the array),   *)
(* which of them answers a request, and how the session changes when a new *)
(* one was retrieved.  An access token is abstracted to the audience and   *)
(* the scopes the authorization server issued it for; a scope string to a  *)
(* set, the empty one for "" and undefined.  ID tokens and claims are left *)
(* out.                                                                    *)
(***************************************************************************)
EXTENDS Integers, Sequences, FiniteSets

CONSTANTS
    Audiences, NoAudience,
    Scopes,
    NoToken,
    Default,        \* authorizationParameters.audience, or NoAudience
    GlobalScope     \* authorizationParameters.scope, per audience

ASSUME AccessTokensAssumption ==
    /\ NoAudience \notin Audiences
    /\ IsFiniteSet(Scopes)
    /\ Default \in Audiences \cup {NoAudience}
    /\ GlobalScope \in [Audiences \cup {NoAudience} -> SUBSET Scopes]

MaybeAudience == Audiences \cup {NoAudience}
Tokens        == [aud : MaybeAudience, scope : SUBSET Scopes]
Entries       == [aud : Audiences, requested : SUBSET Scopes, tok : Tokens]

\* options of getAccessToken
Asks == [aud : MaybeAudience, scope : SUBSET Scopes, merge : BOOLEAN,
         refresh : BOOLEAN]

OrElse(aud, other) == IF aud # NoAudience THEN aud ELSE other

\* A token set: the one of the login, or an entry with the login's refresh token.
TokenSet(aud, requested, tok, rt) ==
    [aud |-> aud, requested |-> requested, tok |-> tok, rt |-> rt]

Global(s) == TokenSet(s.aud, s.requested, s.tok, s.rt)

\* Session s with the token set t for the login's.
WithGlobal(s, t) ==
    [aud |-> t.aud, requested |-> t.requested, tok |-> t.tok, rt |-> t.rt,
     cached |-> s.cached]

\* Session s with other access tokens, and the refresh token of t.
WithCached(s, t, entries) ==
    [aud |-> s.aud, requested |-> s.requested, tok |-> s.tok, rt |-> t.rt,
     cached |-> entries]

Entry(aud, requested, tok) == [aud |-> aud, requested |-> requested, tok |-> tok]

-----------------------------------------------------------------------------
\* Mutant: any overlap will do.
CompareOverlap(held, required) == held = required \/ held \cap required # {}

compareScopes(held, required) ==
    held = required \/ (held # {} /\ required # {} /\ required \subseteq held)

\* Of the entries at the indices M, where the one with the fewest scopes granted
\* is, the first of several; nowhere if there are none.
Best(s, M) ==
    {i \in M : \A j \in M :
        LET a == Cardinality(s.cached[i].tok.scope)
            b == Cardinality(s.cached[j].tok.scope)
        IN  a < b \/ (a = b /\ i <= j)}

\* findAccessTokenSet by requested scope.
FindRequested(s, aud, scope) ==
    Best(s, {i \in DOMAIN s.cached :
               s.cached[i].aud = aud /\ compareScopes(s.cached[i].requested, scope)})

\* findAccessTokenSet by granted scope, which has to be the same.
FindGranted(s, aud, scope) ==
    Best(s, {i \in DOMAIN s.cached :
               s.cached[i].aud = aud /\ s.cached[i].tok.scope = scope})

-----------------------------------------------------------------------------
\* getTokenSet: the scope a request comes down to.
Resolved(o) ==
    IF o.merge THEN GlobalScope[OrElse(o.aud, Default)] \cup o.scope ELSE o.scope

\* The scopes the login asked for; a session that does not say asked for those
\* of the configuration.
HeldScope(s, aud) == IF s.requested # {} THEN s.requested ELSE GlobalScope[aud]

\* The token set that answers for the audience and the scope; without a
\* match only the refresh token of the session is left.
getTokenSetFromSession(s, aud, scope) ==
    LET found == FindRequested(s, aud, scope)
    IN  IF /\ aud = NoAudience \/ aud = OrElse(s.aud, Default)
           /\ scope = {} \/ compareScopes(HeldScope(s, aud), scope)
          THEN Global(s)
        ELSE IF aud # NoAudience /\ found # {}
          THEN LET e == s.cached[CHOOSE i \in found : TRUE]
               IN  TokenSet(e.aud, e.requested, e.tok, s.rt)
        ELSE TokenSet(NoAudience, {}, NoToken, s.rt)

-----------------------------------------------------------------------------
isGlobalAudienceAndScope(s, t) ==
    /\ t.aud = NoAudience \/ t.aud = OrElse(s.aud, Default)
    /\ t.requested = {} \/ compareScopes(HeldScope(s, OrElse(t.aud, Default)), t.requested)

\* handleGlobalTokenSetUpdate; `new` says that the access token is a new one.
handleGlobalTokenSetUpdate(s, t, new) ==
    IF new \/ t.tok # s.tok \/ t.rt # s.rt THEN {WithGlobal(s, t)} ELSE {}

\* Mutant: the refresh token of the session is kept.
KeepRefreshToken(s, t, new) ==
    IF new THEN {WithCached(s, Global(s),
                    Append(s.cached, Entry(OrElse(t.aud, Default), t.requested, t.tok)))}
    ELSE {}

\* Mutant: the default audience is not filled in.
SpecificUndefaulted(s, t, new) ==
    IF new THEN {WithCached(s, t, Append(s.cached, Entry(t.aud, t.requested, t.tok)))}
    ELSE {}

\* handleSpecificAccessTokenUpdate: replace the entry that matches by
\* requested scope; else join the one granted the same; else add one.
handleSpecificAccessTokenUpdate(s, t, new) ==
    LET aud   == OrElse(t.aud, Default)
        asked == FindRequested(s, aud, t.requested)
        same  == FindGranted(s, aud, t.tok.scope)
        Set(i, e) == {WithCached(s, t, [s.cached EXCEPT ![i] = e])}
    IN  IF asked # {}
          THEN LET i == CHOOSE i \in asked : TRUE
               IN  IF new \/ t.tok # s.cached[i].tok
                     THEN Set(i, Entry(aud, t.requested, t.tok)) ELSE {}
        ELSE IF same # {}
          THEN LET i == CHOOSE i \in same : TRUE
               IN  Set(i, Entry(aud, s.cached[i].requested \cup t.requested, t.tok))
        ELSE {WithCached(s, t, Append(s.cached, Entry(aud, t.requested, t.tok)))}

\* getSessionChangesAfterGetAccessToken: the session to save, or none.
SessionChanges(s, t, new) ==
    IF isGlobalAudienceAndScope(s, t) THEN handleGlobalTokenSetUpdate(s, t, new)
    ELSE IF OrElse(t.aud, Default) = NoAudience THEN {}
    ELSE handleSpecificAccessTokenUpdate(s, t, new)
=============================================================================
