------------------------------- MODULE StepUp -------------------------------
(***************************************************************************)
(* One page and its session: calls that need an access token and run into  *)
(* a second factor, which the page verifies with the MFA API or with a     *)
(* popup, and sign-ins without a redirect (passkey, passwordless, OTP of a *)
(* database connection), which may run into it too.                        *)
(*                                                                         *)
(* Handlers are atomic here: what requests that overlap do to a session is *)
(* the subject of TokenRequests.  Between them tokens expire, messages of  *)
(* popups are taken and the user logs in and out.  The refresh token of a  *)
(* session is abstracted to the audience it was issued for, which is the   *)
(* one refreshed tokens are for if the request names none.                 *)
(*                                                                         *)
(* Bounds: MaxCached, the access tokens a session comes to hold; the calls *)
(* outside DirectCalls only open popups.                                   *)
(***************************************************************************)
EXTENDS AccessTokens, PopupCalls, PageCalls

CONSTANTS
    NoSession, NoAsk, NoOutcome,
    TokenAsks,       \* what getAccessToken is asked for
    EnrollAsks,      \* what passkey enrolment asks for
    PopupAsks,       \* what challengeWithPopup is asked for
    SignInMethods,
    DirectCalls,     \* the calls that need not be for a popup
    Allowed,         \* what the authorization server grants, per audience
    MayNeedMfa,      \* audiences it may ask a second factor for
    Faults,          \* outcomes of a grant besides tokens
    RequestFaults,   \* what becomes of a request for a challenge that fails
    PopupGrants,     \* what comes with the access token of a popup
    MaxCached

ASSUME StepUpAssumption ==
    /\ TokenAsks \cup EnrollAsks \cup PopupAsks \subseteq Asks
    /\ \A o \in PopupAsks :
         o.aud # NoAudience /\ (o.merge <=> o.scope = {}) /\ ~o.refresh
    /\ DirectCalls \subseteq Calls
    /\ SignInMethods \subseteq Methods
    /\ Allowed \in [MaybeAudience -> SUBSET Scopes]
    /\ MayNeedMfa \subseteq MaybeAudience
    /\ Faults \subseteq Outcomes \ {"tokens"}
    /\ RequestFaults \subseteq Replies \ {"sent"}
    /\ PopupGrants \subseteq {"id_token", "refresh_token"}

VARIABLES
    session,      \* the session the browser holds
    call,         \* the calls of the page
    transaction   \* what each popup logs in for

vars == <<session, call, transaction, active, window, waits, mail>>

\* A call: where it is, what it asks for, the MFA token and the access token it
\* got, and what the server, or the token endpoint, said last (history).
Call(pc, ask, mfa, tok, told) ==
    [pc |-> pc, ask |-> ask, mfa |-> mfa, tok |-> tok, told |-> told]

Idle == Call("idle", NoAsk, NoToken, NoToken, NoOutcome)

Token(aud, scope) ==
    [aud |-> aud, scope |-> scope \cap Allowed[aud], live |-> TRUE,
     popup |-> FALSE, asked |-> {}]

\* All that is allowed if no scope was sent.
Issued(aud, scope) == Token(aud, IF scope = {} THEN Allowed[aud] ELSE scope)

NewSession(aud, requested, tok, family) ==
    [aud |-> aud, requested |-> requested, tok |-> tok, rt |-> family, cached |-> <<>>]

Init ==
    /\ PopupInit
    /\ session = NoSession
    /\ call = [c \in Calls |-> Idle]
    /\ transaction = [p \in Popups |-> NoAsk]

\* What is kept of it.
Said(o) ==
    CASE o \in {"tokens", "no_id_token", "expired"} -> o
      [] o = "mfa_required"                        -> "mfa"
      [] OTHER                                     -> "failed"

\* Mutant: an MFA token is kept when the verification fails.
ToldKeepingToken(o, out, result, mfa, tok) ==
    Call(IF result = "done" THEN "answered" ELSE result, o,
         IF result # "done" THEN mfa ELSE NoToken,
         IF result = "done" THEN tok ELSE NoToken, Said(out))

\* A call for o goes on with what the page was told.
Told(o, out, result, mfa, tok) ==
    Call(IF result = "done" THEN "answered" ELSE result, o,
         IF result = "mfa" THEN mfa ELSE NoToken,
         IF result = "done" THEN tok ELSE NoToken, Said(out))

\* What the calls come to, from wherever they are made.
FactorResults ==
    [o \in Replies |-> {SecondFactor(f, via, o, opts) :
                           f \in Factors, via \in Callers, opts \in OptionsOf(o)}]
VerifyResults ==
    [o \in Outcomes \cup Replies |->
       {Verified(via, o, fields) : via \in Callers, fields \in CredentialsOf(o)}]
ChallengeResults ==
    [o \in Replies |-> {Challenged(how, via, o) : how \in SignInMethods, via \in Callers}]
SignInResults ==
    [o \in Outcomes |-> {SignedIn(how, via, o) : how \in SignInMethods, via \in Callers}]
TokenResults ==
    [o \in Outcomes |-> [pc \in {"asking", "enrolling", "settled"} |->
        IF pc = "enrolling" THEN Enrolled(o) ELSE {Retrieved(o)}]]

-----------------------------------------------------------------------------
(* getAccessToken, and the enrolment of a passkey, which does not save the *)
(* session it has refreshed.                                               *)

Found(o) == getTokenSetFromSession(session, OrElse(o.aud, Default), Resolved(o))

MfaNeeded(aud, out) ==
    out \in {"mfa_required", "mfa_without_token"} => aud \in MayNeedMfa

\* Mutant: the audience of the configuration is put in the MFA token.
ContextOfDefault(o, family) == [aud |-> Default, scope |-> Resolved(o), for |-> Default]

\* The context encrypted with an MFA token; `for` is what the server keeps.
MfaContext(o, family) ==
    [aud |-> o.aud, scope |-> Resolved(o), for |-> OrElse(o.aud, family)]

Usable(tok) == tok # NoToken /\ tok.live

\* A call for o, which is `how` far.
FromCache(c, o) ==
    /\ session # NoSession
    /\ Usable(Found(o).tok) /\ ~o.refresh
    /\ call' = [call EXCEPT ![c] =
                  Call("answered", o, NoToken, Found(o).tok, NoOutcome)]
    /\ UNCHANGED session

\* The token set refreshed: for the audience named, or the refresh token's.
Refreshed(o) ==
    TokenSet(OrElse(Found(o).aud, o.aud), Resolved(o),
             Issued(OrElse(o.aud, session.rt), IF o.scope = {} THEN {} ELSE Resolved(o)),
             session.rt)

Refreshes(c, how, o) ==
    LET t == Refreshed(o)
        changes == SessionChanges(session, t, TRUE)
    IN  /\ session # NoSession
        /\ ~Usable(Found(o).tok) \/ o.refresh
        /\ \E out \in {"tokens"} \cup Faults :
             \E result \in TokenResults[out][how] :
                 /\ MfaNeeded(t.tok.aud, out)
                 /\ call' = [call EXCEPT ![c] =
                      Told(o, out, result, MfaContext(o, session.rt), t.tok)]
                 /\ session' \in
                      IF result = "done" /\ how # "enrolling" /\ changes # {}
                        THEN changes ELSE {session}
                 /\ session' # session => Len(session'.cached) <= MaxCached

NoSessionFound(c, o) ==
    /\ session = NoSession
    /\ call' = [call EXCEPT ![c] = Call("failed", o, NoToken, NoToken, NoOutcome)]
    /\ UNCHANGED session

GetToken(c, how, o) == FromCache(c, o) \/ Refreshes(c, how, o) \/ NoSessionFound(c, o)

\* Passkey enrolment needs a token first, and then changes nothing here.
Ask(c, how, o) ==
    /\ call[c].pc = "idle"
    /\ GetToken(c, how, o)
    /\ UNCHANGED <<transaction, popupVars>>

-----------------------------------------------------------------------------
(* The MFA API.                                                            *)

\* The session with the token verified: appended, without a requested scope.
cacheTokenFromMfaVerify(m, tok) ==
    [session EXCEPT !.cached = Append(@, Entry(m.aud, tok.scope, tok))]

createSessionFromPasswordlessVerify(tok) ==
    NewSession(NoAudience, {}, tok, tok.aud)

(* The authenticators are listed, or one is enrolled or challenged; after  *)
(* an error the call does not go on.                                       *)
Prepare(c) ==
    /\ call[c].pc = "mfa"
    /\ \E o \in {"sent"} \cup RequestFaults :
         \E result \in FactorResults[o] :
             call' = IF result = "done" THEN call
                     ELSE [call EXCEPT ![c] = 
                             Told(call[c].ask, o, result, NoToken, NoToken)]
    /\ UNCHANGED <<session, transaction, popupVars>>

(* handleVerify: into the session the request presents, or into a new one. *)
(* A server that wants another factor is taken to send its token.          *)
Verify(c) ==
    LET m   == call[c].mfa
        tok == Issued(m.for, m.scope)
        Refused == RequestFaults \cap {"expired", "invalid", "malformed"}
    IN  /\ call[c].pc = "mfa"
        /\ \E out \in {"tokens"} \cup (Faults \ {"mfa_without_token"}) \cup Refused :
             LET lost == out = "no_id_token" /\ session = NoSession
             IN \E result \in IF lost THEN {"failed"} ELSE VerifyResults[out] :
                 /\ MfaNeeded(m.for, out)
                 /\ call' = [call EXCEPT ![c] =
                      IF result = "done"
                        THEN Call("verified", call[c].ask, m, tok, Said(out))
                        ELSE Told(call[c].ask, out, result, m, NoToken)]
                 /\ session' =
                      IF result # "done" THEN session
                      ELSE IF session = NoSession
                        THEN createSessionFromPasswordlessVerify(tok)
                      ELSE cacheTokenFromMfaVerify(m, tok)
                 /\ session' # NoSession => Len(session'.cached) <= MaxCached
        /\ UNCHANGED <<transaction, popupVars>>

-----------------------------------------------------------------------------
(* Sign-ins without a redirect: a challenge, which leaves everything as it *)
(* was, and a grant for what it got.                                       *)
SignInContext == [aud |-> Default, scope |-> GlobalScope[Default], for |-> Default]

SignIn(c) ==
    LET m   == SignInContext
        tok == Issued(Default, GlobalScope[Default])
    IN  /\ call[c].pc = "idle"
        /\ \/ \E o \in RequestFaults :
                \E result \in ChallengeResults[o] \ {"done"} :
                  /\ call' = [call EXCEPT ![c] = Told(NoAsk, o, result, m, NoToken)]
                  /\ UNCHANGED session
           \/ \E out \in {"tokens"} \cup Faults :
                \E result \in SignInResults[out] :
                  /\ "done" \in ChallengeResults["sent"]
                  /\ MfaNeeded(Default, out)
                  /\ call' = [call EXCEPT ![c] =
                        Told(NoAsk, out, result, m, tok)]
                  /\ session' = IF result = "done"
                                  THEN createSessionFromPasswordlessVerify(tok)
                                  ELSE session
        /\ UNCHANGED <<transaction, popupVars>>

-----------------------------------------------------------------------------
(* Popups.                                                                 *)
challengeWithPopup(c, p, o) ==
    /\ call[c].pc = "idle"
    /\ OpenPopup(c, p)
    /\ call' = [call EXCEPT ![c] = Call("waiting", o, NoToken, NoToken, NoOutcome)]
    /\ transaction' = [transaction EXCEPT ![p] = o]
    /\ UNCHANGED session

\* Mutant: the scope granted is kept as the scope requested.
MergedAsGranted(o, tok) ==
    LET M == {i \in DOMAIN session.cached : session.cached[i].aud = o.aud}
        e == Entry(o.aud, tok.scope, tok)
    IN  [session EXCEPT !.cached = IF M = {} THEN Append(@, e)
             ELSE [@ EXCEPT ![CHOOSE i \in M : \A j \in M : i <= j] = e]]

\* The first entry of the audience is replaced, or one appended; the refresh
\* token becomes the popup's if it got one.
mergePopupTokenIntoSession(o, tok) ==
    LET M == {i \in DOMAIN session.cached : session.cached[i].aud = o.aud}
        e == Entry(o.aud, Resolved(o), tok)
    IN  [session EXCEPT
           !.rt = IF "refresh_token" \in PopupGrants THEN o.aud ELSE @,
           !.cached = IF M = {} THEN Append(@, e)
                      ELSE [@ EXCEPT ![CHOOSE i \in M : \A j \in M : i <= j] = e]]

FromPopup(o) ==
    [aud |-> o.aud, scope |-> Issued(o.aud, Resolved(o)).scope, live |-> TRUE,
     popup |-> TRUE, asked |-> Resolved(o)]

\* The callback of a popup, whose user has passed the second factor: into the
\* session there is, or a new one if there is an ID token to make it from.
PopupCallback(p) ==
    LET o   == transaction[p]
        tok == FromPopup(o)
        ok  == session # NoSession \/ "id_token" \in PopupGrants
    IN  /\ PostResult(p, ok)
        /\ session' = IF session # NoSession THEN mergePopupTokenIntoSession(o, tok)
                      ELSE IF ok THEN NewSession(o.aud, Resolved(o), tok, o.aud)
                      ELSE session
        /\ session' # NoSession => Len(session'.cached) <= MaxCached
        /\ transaction' = [transaction EXCEPT ![p] = NoAsk]
        /\ UNCHANGED call

\* The user fails the second factor, or the callback fails.
PopupFails(p) ==
    /\ PostResult(p, FALSE)
    /\ transaction' = [transaction EXCEPT ![p] = NoAsk]
    /\ UNCHANGED <<session, call>>

Close(p) ==
    /\ ClosePopup(p)
    /\ transaction' = [transaction EXCEPT ![p] = NoAsk]
    /\ UNCHANGED <<session, call>>

Message(m) ==
    /\ TakeMessage(m)
    /\ \E error \in {parsePopupError(code) : code \in PopupErrors} :
         call' = [c \in Calls |->
                    IF c \notin Waiting THEN call[c]
                    ELSE [call[c] EXCEPT !.pc = IF m[2] THEN "settled"
                                                ELSE error]]
    /\ UNCHANGED <<session, transaction>>

GiveUp(c) ==
    /\ PollFindsClosed(c) \/ TimeOut(c)
    /\ call' = [call EXCEPT ![c].pc = "failed"]
    /\ UNCHANGED <<session, transaction>>

(* The token is retrieved from the session, and the call ends.             *)
PopupToken(c) ==
    /\ call[c].pc = "settled"
    /\ GetToken(c, "settled", call[c].ask)
    /\ EndCall(c)
    /\ UNCHANGED <<window, mail, transaction>>

-----------------------------------------------------------------------------
(* The page takes the answer of a call before anything else happens, which *)
(* nobody could tell from taking it later; and it may give up on an MFA    *)
(* token, which may have expired.                                          *)
Ended == {c \in Calls : call[c].pc \in {"answered", "verified", "expired", "failed"}}

End(c) ==
    /\ call[c].pc \in {"answered", "verified", "expired", "failed", "mfa"}
    /\ Ended # {} => c \in Ended
    /\ call' = [call EXCEPT ![c] = Idle]
    /\ UNCHANGED <<session, transaction, popupVars>>

(* A login by redirect, and a logout.                                      *)
Login ==
    /\ session' = NewSession(Default, GlobalScope[Default],
                             Issued(Default, GlobalScope[Default]), Default)
    /\ UNCHANGED <<call, transaction, popupVars>>

Logout ==
    /\ session # NoSession
    /\ session' = NoSession
    /\ UNCHANGED <<call, transaction, popupVars>>

(* An access token expires.                                                *)
Expire ==
    /\ session # NoSession
    /\ \/ /\ session.tok.live
          /\ session' = [session EXCEPT !.tok.live = FALSE]
       \/ \E i \in DOMAIN session.cached :
             /\ session.cached[i].tok.live
             /\ session' = [session EXCEPT !.cached[i].tok.live = FALSE]
    /\ UNCHANGED <<call, transaction, popupVars>>

Next ==
    \/ \E c \in Calls : End(c)
    \/ /\ Ended = {}
       /\ \/ \E c \in DirectCalls :
                \/ \E o \in TokenAsks : Ask(c, "asking", o)
                \/ \E o \in EnrollAsks : Ask(c, "enrolling", o)
                \/ SignIn(c)
          \/ \E c \in Calls :
                \/ \E p \in Popups : \E o \in PopupAsks : challengeWithPopup(c, p, o)
                \/ Prepare(c) \/ Verify(c) \/ PopupToken(c) \/ GiveUp(c)
          \/ \E p \in Popups : PopupCallback(p) \/ PopupFails(p) \/ Close(p)
          \/ \E m \in mail : Message(m)
          \/ Login \/ Logout \/ Expire

Spec == Init /\ [][Next]_vars

-----------------------------------------------------------------------------
AccessToken == [aud : MaybeAudience, scope : SUBSET Scopes, live : BOOLEAN,
                popup : BOOLEAN, asked : SUBSET Scopes]
CachedToken == [aud : MaybeAudience, requested : SUBSET Scopes, tok : AccessToken]
MfaContexts == [aud : MaybeAudience, scope : SUBSET Scopes, for : MaybeAudience]
Session == [aud : MaybeAudience, requested : SUBSET Scopes, tok : AccessToken,
            rt : MaybeAudience, cached : Seq(CachedToken)]

\* What stands for nothing is nothing else.
ASSUME NothingAssumption ==
    /\ NoToken \notin AccessToken \cup MfaContexts
    /\ NoSession \notin Session
    /\ NoAsk \notin Asks
    /\ NoOutcome \notin {"tokens", "no_id_token", "mfa", "expired", "failed"}

TypeOK ==
    /\ PopupTypeOK
    /\ session \in Session \cup {NoSession}
    /\ transaction \in [Popups -> PopupAsks \cup {NoAsk}]
    /\ \A c \in Calls :
         /\ call[c].pc = "waiting" <=> waits[c] # NoPopup
         /\ call[c].pc \in {"mfa", "verified"} <=> call[c].mfa # NoToken
         /\ call[c].tok \in AccessToken \cup {NoToken}

\* The audience and the scopes a call is about.
Wants(r) == IF r.ask = NoAsk THEN [aud |-> Default, scope |-> GlobalScope[Default]]
            ELSE [aud |-> OrElse(r.ask.aud, Default), scope |-> Resolved(r.ask)]

Fits(r) == /\ r.tok.live
           /\ r.tok.aud = Wants(r).aud
           /\ Wants(r).scope \cap Allowed[r.tok.aud] \subseteq r.tok.scope

(* Whatever popup settled it, however many factors it took, and whoever    *)
(* logged in and out in between, a call is answered with a live token for  *)
(* the audience it named, with every scope it asked for that the server    *)
(* would grant.  One for the audience of the configuration, named or not,  *)
(* gets it if the refresh token of the session it asked with is for it:    *)
(* the session a verification makes after a logout is for the audience     *)
(* verified for, and does not say so (auth-client.ts:5650).                *)
AnswerFits ==
    \A c \in Calls :
        LET r == call[c]
            named == r.ask # NoAsk /\ r.ask.aud \notin {NoAudience, Default}
        IN  /\ r.pc = "answered" /\ (named \/ session.rt = Default) => Fits(r)
            /\ r.pc = "verified" /\ (named \/ r.mfa.for = Default) => Fits(r)

(* While the step-up token a popup brought has not expired, the call it    *)
(* was brought for finds it, whatever else was verified, refreshed and     *)
(* merged since: no second challenge (session-helpers.ts:67).  A token for *)
(* the audience of the login is not looked for among the cached ones.      *)
PopupTokenFound ==
    session # NoSession =>
        \A i \in DOMAIN session.cached :
            LET e == session.cached[i]
            IN  e.tok.popup /\ e.tok.live /\ e.aud # OrElse(session.aud, Default)
                  => getTokenSetFromSession(session, e.aud, e.tok.asked).tok = e.tok

(* The guard against a second popup is held by a call in progress: however *)
(* calls end, challengeWithPopup() is possible again.                      *)
GuardHasCall ==
    active # NoPopup => \E c \in Calls : call[c].pc \in {"waiting", "settled"}

(* What the token endpoint said reaches the page through the method, the   *)
(* route and the browser's method: tokens as success, a second factor as   *)
(* one with a token to go on with, the end of that token as such, anything *)
(* else as an error.  (Passkey enrolment hides a second factor.)           *)
PageKnowsOutcome ==
    \A c \in Calls : call[c].ask \notin EnrollAsks =>
        /\ call[c].pc \in {"answered", "verified"} =>
             call[c].told \in {NoOutcome, "tokens", "no_id_token"}
        /\ call[c].told = "tokens" => call[c].pc \in {"answered", "verified"}
        /\ call[c].told = "mfa" => call[c].pc = "mfa"
        /\ call[c].told = "expired" <=> call[c].pc = "expired"
        /\ call[c].told = "failed" => call[c].pc = "failed"
=============================================================================
