--------------------------- MODULE TokenRequests ---------------------------
(***************************************************************************)
(* Requests that need an access token, over one browser's session and an   *)
(* authorization server that rotates refresh tokens: the session is read   *)
(* when a request arrives and saved whole with its response, so requests   *)
(* that overlap overwrite one another.  A refresh token that was rotated   *)
(* is accepted for an overlap period long enough for the requests that     *)
(* hold it.  That an access token has expired may be found at any time.    *)
(*                                                                         *)
(* Bounds: a refresh token nobody holds is issued again; MaxCached bounds  *)
(* the access tokens a session comes to hold.  Sessions without a refresh  *)
(* token, and the login itself, are left out.  The refresh token a popup   *)
(* brings stands for the login's: its audience is a subject of StepUp.     *)
(***************************************************************************)
EXTENDS AccessTokens

CONSTANTS
    Requests,         \* slots for requests in progress together
    RefreshTokens, NoRefreshToken,
    Kinds,            \* the kinds of request this instance makes
    AsksOf,           \* what each kind may ask for
    LoginAudiences, LoginScope,
    Allowed,          \* what the authorization server grants, per audience
    DefaultScopes,    \* DEFAULT_SCOPES
    MaxCached

ASSUME TokenRequestsAssumption ==
    /\ Kinds \subseteq {"token", "proxy", "transfer", "connect", "popup", "touch"}
    /\ AsksOf \in [Kinds -> SUBSET Asks]
    /\ \A k \in Kinds : k = "popup" => \A o \in AsksOf[k] : o.aud # NoAudience
    /\ LoginAudiences \subseteq MaybeAudience
    /\ LoginScope \subseteq Scopes /\ DefaultScopes \subseteq Scopes
    /\ Allowed \in [MaybeAudience -> SUBSET Scopes]
    /\ NoRefreshToken \notin RefreshTokens

VARIABLES
    jar,        \* the session the browser holds
    req,        \* the requests in progress
    accepted,   \* the refresh tokens the authorization server accepts
    spent,      \* those of them that were rotated
    login,      \* the audience the user logged in for
    mishap      \* whether a refresh token went missing (history)

vars == <<jar, req, accepted, spent, login, mishap>>

NoAsk == [aud |-> NoAudience, scope |-> {}, merge |-> TRUE, refresh |-> FALSE]

\* `session` is what the request read or will save, `save` whether it will;
\* `tok` the access token it got; `read` the refresh token of the session it
\* read, `rotated` the one it was given.
Idle == [kind |-> "touch", pc |-> "idle", ask |-> NoAsk, session |-> NoToken,
         save |-> FALSE, tok |-> NoToken, new |-> FALSE,
         read |-> NoRefreshToken, rotated |-> NoRefreshToken]

Held == {jar.rt} \cup {req[r].session.rt : r \in {q \in Requests : req[q].pc # "idle"}}
Fresh == RefreshTokens \ (Held \cup {req[r].rotated : r \in Requests})

Init ==
    \E aud \in LoginAudiences, rt \in RefreshTokens :
        /\ jar = [aud |-> aud, requested |-> LoginScope,
                  tok |-> [aud |-> aud, scope |-> LoginScope \cap Allowed[aud]],
                  rt |-> rt, cached |-> <<>>]
        /\ login = aud
        /\ accepted = {rt}
        /\ spent = {}
        /\ mishap = FALSE
        /\ req = [r \in Requests |-> Idle]

-----------------------------------------------------------------------------
(* What the authorization server issues.                                   *)

\* An access token for the audience asked for, or the login's; all that is
\* allowed there if no scope was sent.
Issued(aud, scope) ==
    LET for == OrElse(aud, login)
    IN  [aud |-> for,
         scope |-> IF scope = {} THEN Allowed[for] ELSE scope \cap Allowed[for]]

\* The refresh token comes back, or a new one in its place.
Rotate(old, rt) ==
    /\ rt \in {old} \cup Fresh
    /\ accepted' = accepted \cup {rt}
    /\ spent' = IF rt = old THEN spent ELSE (spent \cup {old}) \ {rt}

Given(old, rt) == IF rt = old THEN NoRefreshToken ELSE rt

-----------------------------------------------------------------------------
(* A request arrives and its session is read.                              *)
Start(r, k, o) ==
    /\ req[r].pc = "idle"
    /\ req' = [req EXCEPT ![r] = [Idle EXCEPT !.kind = k, !.ask = o,
                                    !.pc = IF k = "popup" THEN "exchange"
                                           ELSE IF k = "touch" THEN "respond"
                                           ELSE "retrieve",
                                    !.save = k = "touch",
                                    !.session = jar, !.read = jar.rt]]
    /\ UNCHANGED <<jar, accepted, spent, login, mishap>>

\* The token set getTokenSet finds in the session of r.
Found(r) ==
    getTokenSetFromSession(req[r].session, OrElse(req[r].ask.aud, Default),
                           Resolved(req[r].ask))

\* Where a request goes on once it has a token: an upstream call comes first
\* for all but getAccessToken.
Onward(k) == IF k = "token" THEN "respond" ELSE "call"

(* getTokenSet returns the token it found.                                 *)
Cached(r) ==
    /\ req[r].pc = "retrieve"
    /\ req[r].kind # "transfer"
    /\ Found(r).tok # NoToken
    /\ ~req[r].ask.refresh
    /\ LET changes == SessionChanges(req[r].session, Found(r), FALSE)
       IN  req' = [req EXCEPT ![r].pc = Onward(req[r].kind),
                              ![r].tok = Found(r).tok,
                              ![r].save = changes # {}]
    /\ UNCHANGED <<jar, accepted, spent, login, mishap>>

\* Mutant: the old refresh token is kept after a rotation.
RefreshedKeepingOld(r, rt) ==
    LET o == req[r].ask
    IN  TokenSet(OrElse(Found(r).aud, o.aud), Resolved(o),
                 Issued(o.aud, IF o.scope = {} THEN {} ELSE Resolved(o)), Found(r).rt)

\* #refreshTokenSet: the token set found, with what was issued.  A scope is
\* sent only if the caller named one.
Refreshed(r, rt) ==
    LET o == req[r].ask
    IN  TokenSet(OrElse(Found(r).aud, o.aud), Resolved(o),
                 Issued(o.aud, IF o.scope = {} THEN {} ELSE Resolved(o)), rt)

(* getTokenSet refreshes: the token it found has expired, or there is none,*)
(* or the caller insists.                                                  *)
Refresh(r) ==
    LET s == req[r].session
    IN  /\ req[r].pc = "retrieve"
        /\ req[r].kind # "transfer"
        /\ s.rt \in accepted
        /\ \E rt \in {s.rt} \cup Fresh :
             LET t       == Refreshed(r, rt)
                 changes == SessionChanges(s, t, TRUE)
             IN  /\ Rotate(s.rt, rt)
                 /\ \A x \in changes : Len(x.cached) <= MaxCached
                 /\ req' = [req EXCEPT
                      ![r].pc = Onward(req[r].kind),
                      ![r].tok = t.tok,
                      ![r].new = TRUE,
                      ![r].session = IF changes = {} THEN s
                                     ELSE CHOOSE x \in changes : TRUE,
                      ![r].save = changes # {} /\ req[r].kind # "connect",
                      ![r].rotated = Given(s.rt, rt)]
        /\ UNCHANGED <<jar, login, mishap>>

(* requestSessionTransferToken: the session's ID token is the actor; if it *)
(* has expired the session is refreshed first.                             *)
TransferNow(r) ==
    /\ req[r].pc = "retrieve"
    /\ req[r].kind = "transfer"
    /\ req' = [req EXCEPT ![r].pc = "call"]
    /\ UNCHANGED <<jar, accepted, spent, login, mishap>>

TransferRefreshed(r) ==
    LET s == req[r].session
    IN  /\ req[r].pc = "retrieve"
        /\ req[r].kind = "transfer"
        /\ s.rt \in accepted
        /\ \E rt \in {s.rt} \cup Fresh :
             /\ Rotate(s.rt, rt)
             /\ req' = [req EXCEPT
                  ![r].pc = "call", ![r].new = TRUE, ![r].save = TRUE,
                  ![r].session = WithGlobal(s, TokenSet(s.aud, DefaultScopes,
                                    Issued(NoAudience, {}), rt)),
                  ![r].rotated = Given(s.rt, rt)]
        /\ UNCHANGED <<jar, login, mishap>>

(* The authorization server refuses the refresh token: an error, and       *)
(* nothing is saved.                                                       *)
Refused(r) ==
    /\ req[r].pc = "retrieve"
    /\ req[r].session.rt \notin accepted
    /\ req' = [req EXCEPT ![r].pc = "respond"]
    /\ UNCHANGED <<jar, accepted, spent, login, mishap>>

(* It asks for a second factor: the session is saved as it was read.       *)
MfaRequired(r) ==
    /\ req[r].pc = "retrieve"
    /\ req[r].kind \in {"token", "proxy"}
    /\ req' = [req EXCEPT ![r].pc = "respond", ![r].save = TRUE]
    /\ UNCHANGED <<jar, accepted, spent, login, mishap>>

\* mergePopupTokenIntoSession: the first entry for the audience is replaced.
PopupMerged(s, e, rt) ==
    LET M == {i \in DOMAIN s.cached : s.cached[i].aud = e.aud}
        first == CHOOSE i \in M : \A j \in M : i <= j
    IN  [s EXCEPT !.rt = rt,
                  !.cached = IF M = {} THEN Append(s.cached, e)
                             ELSE [s.cached EXCEPT ![first] = e]]

(* The callback of a popup: its code is exchanged for an access token for  *)
(* an audience, and perhaps a refresh token of a new family.               *)
PopupExchange(r) ==
    LET s == req[r].session
        o == req[r].ask
        e == Entry(o.aud, o.scope, [aud |-> o.aud, scope |-> o.scope \cap Allowed[o.aud]])
    IN  /\ req[r].pc = "exchange"
        /\ \E rt \in {s.rt} \cup Fresh :
             LET x == PopupMerged(s, e, rt)
             IN  /\ Len(x.cached) <= MaxCached
                 /\ accepted' = IF rt = s.rt THEN accepted ELSE accepted \cup {rt}
                 /\ spent' = IF rt = s.rt THEN spent ELSE spent \ {rt}
                 /\ req' = [req EXCEPT ![r].pc = "respond", ![r].save = TRUE,
                              ![r].session = x, ![r].rotated = Given(s.rt, rt)]
        /\ UNCHANGED <<jar, login, mishap>>

(* The upstream call of a proxy, transfer or connect account request: when *)
(* it fails nothing is saved.                                              *)
CallSucceeds(r) ==
    /\ req[r].pc = "call"
    /\ req' = [req EXCEPT ![r].pc = "respond"]
    /\ UNCHANGED <<jar, accepted, spent, login, mishap>>

CallFails(r) ==
    /\ req[r].pc = "call"
    /\ req' = [req EXCEPT ![r].pc = "respond", ![r].save = FALSE]
    /\ UNCHANGED <<jar, accepted, spent, login, mishap>>

\* The response does not carry the new refresh token, or puts an old session
\* over a newer one.
Mishap(r) ==
    IF req[r].save
      THEN req[r].rotated = NoRefreshToken /\ req[r].session.rt # jar.rt
      ELSE req[r].rotated # NoRefreshToken

(* The browser applies the response.                                       *)
Respond(r) ==
    /\ req[r].pc = "respond"
    /\ jar' = IF req[r].save THEN req[r].session ELSE jar
    /\ mishap' = (mishap \/ Mishap(r))
    /\ req' = [req EXCEPT ![r] = Idle]
    /\ UNCHANGED <<accepted, spent, login>>

(* The process stops, or the response is lost.                             *)
Fail(r) ==
    /\ req[r].pc # "idle"
    /\ mishap' = (mishap \/ req[r].rotated # NoRefreshToken)
    /\ req' = [req EXCEPT ![r] = Idle]
    /\ UNCHANGED <<jar, accepted, spent, login>>

(* The overlap period of a rotated refresh token ends, which is after the  *)
(* requests that read it.                                                  *)
OverlapEnds(rt) ==
    /\ rt \in spent
    /\ \A r \in Requests : req[r].read # rt
    /\ accepted' = accepted \ {rt}
    /\ spent' = spent \ {rt}
    /\ UNCHANGED <<jar, req, login, mishap>>

Next ==
    \/ \E r \in Requests :
         \/ \E k \in Kinds : \E o \in AsksOf[k] : Start(r, k, o)
         \/ Cached(r) \/ Refresh(r) \/ TransferNow(r) \/ TransferRefreshed(r)
         \/ Refused(r) \/ MfaRequired(r) \/ PopupExchange(r)
         \/ CallSucceeds(r) \/ CallFails(r)
         \/ Respond(r) \/ Fail(r)
    \/ \E rt \in RefreshTokens : OverlapEnds(rt)

Spec == Init /\ [][Next]_vars

-----------------------------------------------------------------------------
Sessions == [aud : MaybeAudience, requested : SUBSET Scopes, tok : Tokens,
             rt : RefreshTokens, cached : Seq(Entries)]

TypeOK ==
    /\ jar \in Sessions
    /\ \A r \in Requests : req[r].pc # "idle" =>
         /\ req[r].session \in Sessions
         /\ req[r].tok \in Tokens \cup {NoToken}
    /\ accepted \subseteq RefreshTokens /\ spent \subseteq accepted

(* Whatever was requested, cached, merged and replaced before, a request   *)
(* gets a token for the audience it asks for, with every scope it asks for *)
(* that the server would grant.                                            *)
TokenFitsRequest ==
    \A r \in Requests : req[r].tok # NoToken =>
        LET aud == OrElse(OrElse(req[r].ask.aud, Default), login)
        IN  /\ req[r].tok.aud = aud
            /\ Resolved(req[r].ask) \cap Allowed[aud] \subseteq req[r].tok.scope

(* While no response was lost, no upstream call failed after a refresh and *)
(* no old session was saved over a newer one, the browser holds a refresh  *)
(* token that is still accepted, however many requests refresh together    *)
(* ("configure an overlap period", EXAMPLES.md:1000).                      *)
RefreshTokenUsable == ~mishap => jar.rt \in accepted

(* A rotated refresh token is saved with the session of the request that   *)
(* retrieved a token ("it will automatically be refreshed and persisted",  *)
(* EXAMPLES.md:997).                                                       *)
RotationPersisted ==
    \A r \in Requests :
        req[r].kind = "token" /\ req[r].pc = "respond"
          /\ req[r].rotated # NoRefreshToken
        => req[r].save /\ req[r].session.rt = req[r].rotated
=============================================================================
