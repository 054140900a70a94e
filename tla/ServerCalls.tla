----------------------------- MODULE ServerCalls -----------------------------
(***************************************************************************)
(* What an application does with a session on the server: the methods of   *)
(* Auth0Client called one after another by one request (`adapter` says     *)
(* from where in Next.js), the routes that call APIs, and sign-ins.  Each  *)
(* call is a program: tokens and grants it needs, the token presented to   *)
(* an API, and the session saved.                                          *)
(*                                                                         *)
(* One request at a time: overlapping ones are in TokenRequests.  Tokens   *)
(* expire between requests.  Of a session is kept a token for the login    *)
(* and one per audience, the version of the refresh token, whether the ID  *)
(* token and a connection's token are live, and whether it has what the    *)
(* request in progress gave updateSession().  The result of a login by     *)
(* redirect is stored without token_type.                                  *)
(*                                                                         *)
(* Bound: MaxCalls, the calls of one request.                              *)
(***************************************************************************)
EXTENDS GrantRetries, Sequences

CONSTANTS Audiences, MaxCalls, NoSession, NoToken, NoRequest, NoCall

\* "plain" is the middleware, given a Request that is not a NextRequest.
AppCode  == {"app", "component", "middleware", "plain", "pages"}
Adapters == AppCode \cup {"route"}

Targets == {"login"} \cup Audiences
News    == Targets \cup {"connection", "data"}

Token   == [live : BOOLEAN, bound : BOOLEAN, typed : BOOLEAN, redirect : BOOLEAN]
MaybeToken == Token \cup {NoToken}

Session == [tok : [Targets -> MaybeToken], rt : 1..MaxRotations + 1,
            idLive : BOOLEAN, conn : BOOLEAN, data : BOOLEAN]

MaybeSession == Session \cup {NoSession}

\* What a request reads, what its response is to save, and what news that has;
\* its fetcher, that has refreshed or not, and how many calls it may still make.
Request == [adapter : Adapters, reads : MaybeSession, out : MaybeSession,
            saved : SUBSET News, left : 0..MaxCalls,
            fetcher : [ses : MaybeSession, handle : MaybeNonce, refreshed : BOOLEAN]]

\* The steps of a call: tokens and grants it needs, and what it does with them.
GrantSteps == {"token", "actor"} \cup GrantKinds
Steps == GrantSteps \cup {"save", "keep", "copy", "present"}

\* A call: `news` is what its session has that was not saved, `shown` how it
\* presented its token.
Calls == [op : {"token", "connection", "transfer", "revoke", "exchange", "ciba", "connect",
                "update", "fetch", "enrol", "proxy", "signin"},
          ses : MaybeSession, target : Targets, todo : Seq(Steps), tok : MaybeToken,
          news : SUBSET News, handle : MaybeNonce, retried : BOOLEAN,
          shown : {"none", "proof", "bearer"}]

ASSUME ServerCallsAssumption ==
    /\ Audiences \cap {"login", "connection", "data"} = {}
    /\ MaxCalls \in Nat \ {0}
    /\ NoToken \notin Token /\ NoSession \notin Session /\ NoRequest \notin Request
    /\ NoCall \notin Calls

VARIABLES
    browser,        \* the session the browser holds
    request,        \* the request in progress
    call,           \* the call it makes
    proxyHandles,   \* per audience, the nonce that is known for its proxy
    lost            \* whether the latest refresh token was not to be saved

vars == <<browser, request, call, proxyHandles, lost, grantVars>>

\* The token of a grant; `redirect` if it came with a login by redirect.
NewToken(g, typed) ==
    [live |-> TRUE, bound |-> g.proof, typed |-> typed, redirect |-> g.kind = "code"]

Live(tok) == tok # NoToken /\ tok.live

Init ==
    /\ GrantInit
    /\ browser = NoSession
    /\ request = NoRequest
    /\ call = NoCall
    /\ proxyHandles = [a \in Audiences |-> NoNonce]
    /\ lost = FALSE

-----------------------------------------------------------------------------
(* The calls.  `news` is what the session has that was not saved.          *)
Call(op, ses, target, todo) ==
    [op |-> op, ses |-> ses, target |-> target, todo |-> todo, tok |-> NoToken,
     news |-> {}, handle |-> NoNonce, retried |-> FALSE, shown |-> "none"]

\* The methods of AuthClient, by the steps they take.
getTokenSet == <<"token">>
getConnectionTokenSet == <<"connection">>
resolveActorFromSession == <<"actor">>
transferExchange == <<"transfer">>
revokeToken == <<"revoke">>
tokenExchange == <<"exchange">>
backchannelAuthentication == <<"ciba">>
createConnectAccountTicket == <<"present">>

\* Of Auth0Client.
executeGetAccessToken(s, t) == Call("token", s, t, getTokenSet \o <<"save">>)
getAccessTokenForConnection(s) ==
    Call("connection", s, "login", getConnectionTokenSet \o <<"save">>)
requestSessionTransferToken(s) ==
    Call("transfer", s, "login", resolveActorFromSession \o transferExchange \o <<"save">>)
revokeRefreshToken(s) == Call("revoke", s, "login", revokeToken)
customTokenExchange == Call("exchange", NoSession, "login", tokenExchange)
getTokenByBackchannelAuth == Call("ciba", NoSession, "login", backchannelAuthentication)
connectAccount(s, a) ==
    Call("connect", s, a, getTokenSet \o <<"save">> \o createConnectAccountTicket)

\* The step that saves in a response: a plain one is copied first.
toNextResponse(res) == IF res = "plain" THEN "copy" ELSE "save"

updateSession(s, res) ==
    [Call("update", [s EXCEPT !.data = TRUE], "login", <<toNextResponse(res)>>)
       EXCEPT !.news = {"data"}]

\* A fetcher keeps the session it was created with, and its own handle.
fetchWithAuth(f, a) ==
    [Call("fetch", f.ses, a, getTokenSet \o <<"present">>) EXCEPT !.handle = f.handle]

\* Of the routes.
handleAccessToken(s, t) == Call("token", s, t, getTokenSet \o <<"save">>)
handleConnectAccount(s, a) ==
    Call("connect", s, a, getTokenSet \o createConnectAccountTicket \o <<"save">>)
handlePasskeyEnrollment(s, a) == Call("enrol", s, a, getTokenSet \o <<"present">>)

handleProxy(s, a) ==
    [Call("proxy", s, a, getTokenSet \o <<"present", "save">>)
       EXCEPT !.handle = proxyHandles[a]]

\* The callback of a connected account saves nothing.
completeConnectAccount(s, a) == Call("connect", s, a, getTokenSet \o <<"present">>)

handleCallback == Call("signin", NoSession, "login", <<"code", "save">>)
SignIn(how) == Call("signin", NoSession, "login", <<how, "save">>)

SignIns == {handleCallback} \cup {SignIn(how) : how \in {"passkey", "passwordless", "otp", "mfa"}}

\* Of My Account and My Organization.
ProxyCalls(s) == {handleProxy(s, a) : a \in Audiences}

RouteCalls(s) ==
    {handleAccessToken(s, t) : t \in Targets}
      \cup {handleConnectAccount(s, a) : a \in Audiences}
      \cup {completeConnectAccount(s, a) : a \in Audiences}
      \cup {handlePasskeyEnrollment(s, a) : a \in Audiences}
      \cup (IF dpop = "without_keys" THEN {} ELSE ProxyCalls(s))

\* The middleware may give updateSession() a plain Response.  A Server Component
\* cannot set cookies: it throws there.
Responses(adapter) ==
    CASE adapter = "component"               -> {}
      [] adapter \in {"middleware", "plain"} -> {"own", "plain"}
      [] OTHER                               -> {"own"}

MethodCalls(adapter, s) ==
    {executeGetAccessToken(s, t) : t \in Targets}
      \cup {getAccessTokenForConnection(s), requestSessionTransferToken(s), revokeRefreshToken(s)}
      \cup {updateSession(s, res) : res \in Responses(adapter)}
      \cup (IF adapter = "app" THEN {connectAccount(s, a) : a \in Audiences} ELSE {})

\* What can be called from there, with the session that is read.
CallsOf(adapter, s) ==
    IF adapter = "route"
      THEN IF s = NoSession THEN SignIns ELSE RouteCalls(s)
      ELSE (IF s = NoSession THEN {} ELSE MethodCalls(adapter, s))
             \cup (IF adapter = "app" THEN {customTokenExchange, getTokenByBackchannelAuth}
                   ELSE {})
             \cup (IF request.fetcher.ses = NoSession THEN {}
                   ELSE {fetchWithAuth(request.fetcher, t) : t \in Targets})

-----------------------------------------------------------------------------
(* Requests.                                                               *)
NewRequest(adapter) ==
    /\ request = NoRequest
    /\ request' = [adapter |-> adapter, reads |-> browser, out |-> NoSession, saved |-> {},
                   fetcher |-> [ses |-> NoSession, handle |-> NoNonce, refreshed |-> FALSE],
                   left |-> IF adapter = "route" THEN 1 ELSE MaxCalls]
    /\ UNCHANGED <<browser, call, proxyHandles, lost, grantVars>>

\* A plain Request is made a NextRequest anew by each call.
toNextRequest(adapter) == adapter = "plain"

\* Whether each call reads the cookies the request came with: in the Pages Router,
\* and of a plain Request.
ReadsAnew(adapter) == adapter = "pages" \/ toNextRequest(adapter)

ReadsOlder == /\ ReadsAnew(request.adapter) /\ request.out # NoSession
              /\ request.out.rt # request.reads.rt

getSession == request.reads

Begin ==
    /\ request # NoRequest /\ call = NoCall /\ request.left > 0
    /\ call' \in CallsOf(request.adapter, getSession)
    /\ request' = [request EXCEPT !.left = @ - 1]
    /\ lost' = (lost \/ ReadsOlder)
    /\ UNCHANGED <<browser, proxyHandles, grantVars>>

\* Without a key pair there is none.
fetcherFactory(s) ==
    IF dpop = "without_keys" THEN {}
    ELSE {[ses |-> s, handle |-> NoNonce, refreshed |-> FALSE]}

createFetcher ==
    /\ request # NoRequest /\ call = NoCall
    /\ request.adapter \in AppCode /\ request.left > 0
    /\ getSession # NoSession
    /\ \E f \in fetcherFactory(getSession) :
         request' = [request EXCEPT !.fetcher = f]
    /\ UNCHANGED <<browser, call, proxyHandles, lost, grantVars>>

\* What `saved` has that is not in the session.
Missing(s, saved) ==
    {x \in saved : \/ x \in Targets /\ ~Live(s.tok[x])
                   \/ x = "connection" /\ ~s.conn
                   \/ x = "data" /\ ~s.data}

\* Mutant: the cookies of the request are not changed with those of the response.
SavedInResponseOnly(ses, news) ==
    [request EXCEPT !.out = ses, !.saved = @ \cup news]

\* What the calls after a save read: it sets the cookies of the request too.
ReadNext(ses) == IF ReadsAnew(request.adapter) THEN request.reads ELSE ses

Saved(ses, news) ==
    [request EXCEPT !.reads = ReadNext(ses), !.out = ses, !.saved = @ \cup news]

Next1(c) == [c EXCEPT !.todo = Tail(@)]
Failed(c) == [c EXCEPT !.todo = <<>>]

\* The session is saved if it has news, or "keep"s what it is.  A Server Component
\* cannot set cookies, which is ignored.
Save ==
    /\ call # NoCall /\ call.todo # <<>> /\ Head(call.todo) \in {"save", "keep"}
    /\ \/ /\ \/ request.adapter = "component"
             \/ call.news = {} /\ Head(call.todo) = "save"
          /\ call' = Next1(call)
          /\ UNCHANGED request
       \/ /\ request.adapter # "component"
          /\ call.news # {} \/ Head(call.todo) = "keep"
          /\ call' = [Next1(call) EXCEPT !.news = {}]
          /\ request' = Saved(call.ses, call.news)
    /\ UNCHANGED <<browser, proxyHandles, lost, grantVars>>

\* The caller keeps the response that was copied, without the cookies.
SaveInCopy ==
    /\ call # NoCall /\ call.todo # <<>> /\ Head(call.todo) = "copy"
    /\ call' = [Next1(call) EXCEPT !.news = {}]
    /\ request' = [request EXCEPT !.reads = ReadNext(call.ses)]
    /\ UNCHANGED <<browser, proxyHandles, lost, grantVars>>

EndCall ==
    /\ call # NoCall /\ call.todo = <<>>
    /\ call' = NoCall
    /\ lost' = (lost \/ (call.news \cap Targets # {}))
    /\ request' = IF call.op = "fetch"
                  THEN [request EXCEPT !.fetcher.handle = call.handle,
                                       !.fetcher.refreshed = @ \/ call.news # {}]
                  ELSE request
    /\ proxyHandles' = IF call.op = "proxy" THEN [proxyHandles EXCEPT ![call.target] = call.handle]
                       ELSE proxyHandles
    /\ UNCHANGED <<browser, grantVars>>

Respond ==
    /\ request # NoRequest /\ call = NoCall
    /\ browser' = IF request.out # NoSession THEN [request.out EXCEPT !.data = FALSE]
                  ELSE browser
    /\ request' = NoRequest
    /\ UNCHANGED <<call, proxyHandles, lost, grantVars>>

(* The process stops, or its response is lost.                             *)
Fail ==
    /\ request # NoRequest
    /\ request' = NoRequest /\ call' = NoCall /\ grant' = NoGrant
    /\ proxyHandles' = [a \in Audiences |-> NoNonce]
    /\ lost' = (lost \/ (browser # NoSession /\ browser.rt # current))
    /\ UNCHANGED <<browser, dpop, nonce, current>>

-----------------------------------------------------------------------------
(* Tokens and grants.                                                      *)
Granting == call # NoCall /\ call.todo # <<>> /\ Head(call.todo) \in GrantSteps

\* Whether the step needs a grant.
Needs(c, step) ==
    CASE step = "token"      -> ~Live(c.ses.tok[c.target])
      [] step = "actor"      -> ~c.ses.idLive
      [] step = "connection" -> ~c.ses.conn
      [] OTHER               -> TRUE

AskServer ==
    /\ Granting /\ grant = NoGrant /\ Needs(call, Head(call.todo))
    /\ LET step == Head(call.todo)
           kind == IF step \in {"token", "actor"} THEN "refresh" ELSE step
       IN  grant' = NewGrant(kind, IF call.ses = NoSession THEN 0 ELSE call.ses.rt)
    /\ UNCHANGED <<browser, request, call, proxyHandles, lost, dpop, nonce, current>>

(* Nothing is sent: an argument is not valid, the refresh token is missing *)
(* or the server's metadata cannot be had.                                 *)
NotSent ==
    /\ Granting /\ grant = NoGrant /\ Needs(call, Head(call.todo))
    /\ call' = Failed(call)
    /\ UNCHANGED <<browser, request, proxyHandles, lost, grantVars>>

AtHand ==
    /\ Granting /\ grant = NoGrant /\ ~Needs(call, Head(call.todo))
    /\ call' = [Next1(call) EXCEPT
                  !.tok = IF Head(call.todo) = "token" THEN call.ses.tok[call.target] ELSE @]
    /\ UNCHANGED <<browser, request, proxyHandles, lost, grantVars>>

\* Mutant: token_type is not stored.
RefreshedUntyped(ses, target, g) ==
    [ses EXCEPT !.tok[target] = NewToken(g, FALSE), !.rt = current, !.idLive = TRUE]

\* The session after a refresh.
Refreshed(ses, target, g) ==
    [ses EXCEPT !.tok[target] = NewToken(g, TRUE), !.rt = current, !.idLive = TRUE]

NewSession(g) ==
    [tok |-> [t \in Targets |-> IF t = "login" THEN NewToken(g, g.kind # "code") ELSE NoToken],
     rt |-> current, idLive |-> TRUE, conn |-> FALSE, data |-> FALSE]

\* Mutant: what is presented again is what the request began with.
GrantedAsCaptured(c, g) ==
    LET ses == Refreshed(c.ses, c.target, g)
    IN  IF g.kind = "refresh" /\ c.op = "proxy"
          THEN [Next1(c) EXCEPT !.tok = ses.tok[c.target], !.news = {c.target}]
          ELSE IF g.kind = "refresh"
          THEN [Next1(c) EXCEPT !.ses = ses, !.tok = ses.tok[c.target], !.news = {c.target}]
          ELSE [Next1(c) EXCEPT !.ses = NewSession(g), !.news = {"login"}]

\* The call after a step's grant.  A fetcher keeps the session it captured.
Granted(c, g) ==
    CASE g.kind = "refresh" ->
           LET ses == Refreshed(c.ses, c.target, g)
           IN  [Next1(c) EXCEPT !.ses = IF c.op = "fetch" THEN @ ELSE ses,
                                !.tok = ses.tok[c.target], !.news = {c.target}]
      [] g.kind = "connection" ->
           [Next1(c) EXCEPT !.ses.conn = TRUE, !.news = {"connection"}]
      [] g.kind \in {"code", "mfa", "passkey", "passwordless", "otp"} ->
           [Next1(c) EXCEPT !.ses = NewSession(g), !.news = {"login"}]
      [] OTHER -> Next1(c)

\* The calls that save the session when a second factor is required.
KeepsOnMfa(op) == op \in {"token", "connect", "proxy"}

\* The refresh token was revoked, or rotated and the answer lost.
AnswerLost ==
    /\ grant.spent
    /\ \/ grant.kind = "revoke"
       \/ grant.kind = "refresh" /\ grant.outcome # "tokens"

Settle ==
    /\ Granting /\ grant # NoGrant /\ grant.outcome # "none"
    /\ call' = CASE grant.outcome = "tokens" -> Granted(call, grant)
                 [] grant.outcome = "mfa_required" /\ KeepsOnMfa(call.op) ->
                      [call EXCEPT !.todo = <<"keep">>]
                 [] OTHER -> Failed(call)
    /\ lost' = (lost \/ AnswerLost)
    /\ grant' = NoGrant
    /\ UNCHANGED <<browser, request, proxyHandles, dpop, nonce, current>>

ServerAnswers ==
    /\ withDPoPNonceRetry
    /\ UNCHANGED <<browser, request, call, proxyHandles, lost>>

-----------------------------------------------------------------------------
(* The token presented to an API.  connectAccount() of Auth0Client leaves  *)
(* the token's type behind, and enrolment does not use a fetcher.          *)
Typeless(c) == c.op = "enrol" \/ (c.op = "connect" /\ request.adapter = "app")

WithProof(c) == dpop = "on" /\ c.tok.typed /\ c.tok.bound /\ ~Typeless(c)

ApiAnswers(c) ==
    CASE WithProof(c) /\ nonce \notin {NoNonce, c.handle} -> {"nonce", "failed"}
      [] c.tok.bound /\ ~WithProof(c)     -> {"denied", "failed"}
      [] OTHER                            -> {"ok", "denied", "failed"}

\* Once, the call is repeated with the nonce: a fetcher asks for the token again.
Repeated(c) ==
    [c EXCEPT !.retried = TRUE, !.handle = nonce,
              !.todo = IF c.op = "connect" THEN @ ELSE <<"token">> \o @]

\* Without a key pair there is no fetcher.
internalFetchWithAuth ==
    /\ call # NoCall /\ call.todo # <<>> /\ Head(call.todo) = "present"
    /\ \/ /\ dpop = "without_keys" /\ call.op # "enrol"
          /\ call' = Failed(call)
       \/ /\ dpop # "without_keys" \/ call.op = "enrol"
          /\ \E r \in ApiAnswers(call) :
               LET shown == [call EXCEPT !.shown = IF WithProof(call) THEN "proof" ELSE "bearer"]
                   ok == r = "ok" \/ (r = "denied" /\ call.op \in {"fetch", "proxy"})
               IN  call' = CASE r = "nonce" /\ ~call.retried -> Repeated(call)
                             [] ok                           -> Next1(shown)
                             [] OTHER                        -> Failed(shown)
    /\ UNCHANGED <<browser, request, proxyHandles, lost, grantVars>>

-----------------------------------------------------------------------------
(* Between requests.                                                       *)
Expire ==
    /\ request = NoRequest /\ browser # NoSession
    /\ \/ \E t \in Targets :
             /\ browser.tok[t] # NoToken /\ browser.tok[t].live
             /\ browser' = [browser EXCEPT !.tok[t].live = FALSE]
       \/ /\ browser.idLive
          /\ browser' = [browser EXCEPT !.idLive = FALSE]
       \/ /\ browser.conn
          /\ browser' = [browser EXCEPT !.conn = FALSE]
    /\ UNCHANGED <<request, call, proxyHandles, lost, grantVars>>

Logout ==
    /\ request = NoRequest /\ browser # NoSession
    /\ browser' = NoSession
    /\ lost' = FALSE
    /\ UNCHANGED <<request, call, proxyHandles, grantVars>>

NewNonce ==
    /\ NextNonce
    /\ UNCHANGED <<browser, request, call, proxyHandles, lost>>

Next ==
    \/ \E adapter \in Adapters : NewRequest(adapter)
    \/ Begin \/ createFetcher \/ EndCall \/ Respond \/ Fail
    \/ AskServer \/ NotSent \/ AtHand \/ Settle \/ ServerAnswers
    \/ internalFetchWithAuth \/ Save \/ SaveInCopy
    \/ Expire \/ Logout \/ NewNonce

Spec == Init /\ [][Next]_vars

-----------------------------------------------------------------------------
TypeOK ==
    /\ GrantTypeOK
    /\ browser \in MaybeSession
    /\ request \in Request \cup {NoRequest}
    /\ call \in Calls \cup {NoCall}
    /\ call # NoCall => request # NoRequest
    /\ grant # NoGrant => call # NoCall
    /\ proxyHandles \in [Audiences -> MaybeNonce]
    /\ lost \in BOOLEAN

(* A request with a proof that the server accepted is not sent again, also *)
(* when its answer is lost: a code, a one-time password or a refresh token *)
(* is used once (utils/dpopRetry.ts).                                      *)
AcceptedNotResent == grant # NoGrant /\ grant.spent => grant.reply \in Accepted

(* Whatever calls, retries and requests came before, a grant is made with  *)
(* the refresh token issued last, unless that one was lost on the way: its *)
(* answer or response was, or the call had nowhere to save it or failed    *)
(* later, or the cookies the request came with were read for an older one  *)
(* (ReadsAnew).  Not of a fetcher.                                         *)
RefreshTokenCurrent ==
    /\ grant # NoGrant /\ grant.tries = 0 /\ ~lost /\ call.op # "fetch"
    /\ grant.kind \in {"refresh", "connection", "revoke"}
    => grant.rt = current

(* The same of a fetcher: when it is used again after a use in which it    *)
(* refreshed, it refreshes with the refresh token issued last.             *)
FetcherRefreshesAnew ==
    /\ grant # NoGrant /\ grant.tries = 0
    /\ call.op = "fetch" /\ request.fetcher.refreshed
    => grant.rt = current

(* What one call of a request saved in its response, the calls after it    *)
(* keep: the response has all of it.  Not where each call reads the        *)
(* cookies the request came with (the Pages Router, a plain Request),      *)
(* which those before did not change; and an update given a plain Response *)
(* saved nothing in one.                                                   *)
NoSaveLost ==
    request # NoRequest /\ ~ReadsAnew(request.adapter) /\ request.saved # {} =>
        Missing(request.out, request.saved) = {}

(* A fetcher sends a proof with the tokens that are bound to the key, and  *)
(* only with those; not with the token of a login by redirect, which was   *)
(* stored without its type.                                                *)
ProofFitsToken ==
    /\ call # NoCall /\ call.shown # "none"
    /\ ~Typeless(call) /\ ~call.tok.redirect
    => (call.shown = "proof" <=> call.tok.bound)
=============================================================================
