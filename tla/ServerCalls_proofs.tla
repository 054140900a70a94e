-------------------------- MODULE ServerCalls_proofs --------------------------
(***************************************************************************)
(* Theorems about ServerCalls, for every set of audiences and nonces, any  *)
(* number of rotations and any number of calls in a request.               *)
(***************************************************************************)
EXTENDS ServerCalls, SequenceTheorems, TLAPS

-----------------------------------------------------------------------------
(* The grant in progress: the inductive invariant of GrantRetries.         *)

\* A grant that goes on has been tried once at most and not been accepted, and
\* the last answer is the one that accepted it.
GrantGoesOn ==
    grant # NoGrant =>
        /\ grant.outcome = "none" => ~grant.spent /\ grant.tries <= 1
        /\ grant.spent => grant.reply \in Accepted

GrantInv == GrantTypeOK /\ GrantGoesOn

\* A new grant: of a refresh token, or of none.
LEMMA NewGrantInv ==
  ASSUME GrantInv, NEW kind \in GrantKinds, NEW rt \in 0..MaxRotations + 1,
         grant' = NewGrant(kind, rt), UNCHANGED <<dpop, nonce, current>>
  PROVE  GrantInv'
  BY DEF GrantInv, GrantTypeOK, GrantGoesOn, NewGrant, Grant, MaybeNonce

\* The retry is for an answer that demands a nonce, which accepts nothing.
LEMMA RetryInv ==
  ASSUME GrantInv, withDPoPNonceRetry
  PROVE  GrantInv'
<1> USE GrantRetriesAssumption
<1>1. /\ grant \in Grant /\ grant # NoGrant
      /\ grant.outcome = "none" /\ ~grant.spent /\ grant.tries \in 0..1
  BY DEF withDPoPNonceRetry, GrantInv, GrantTypeOK, GrantGoesOn, Grant
<1>2. PICK r \in Answers(grant) :
        LET g == Answered(grant, r)
        IN  /\ grant' = IF Retried(g) THEN g ELSE [g EXCEPT !.outcome = Result(g)]
            /\ current' = IF r \in Accepted /\ g.kind \in {"refresh", "revoke"}
                            THEN current + 1 ELSE current
  BY DEF withDPoPNonceRetry
<1>3. UNCHANGED <<dpop, nonce>>
  BY DEF withDPoPNonceRetry
<1> DEFINE g == Answered(grant, r)
<1>4. r \in Replies
  BY DEF Answers, Replies
<1>5. g \in Grant /\ g.kind = grant.kind /\ g.outcome = "none"
  <2>1. nonce \in MaybeNonce
    BY DEF GrantInv, GrantTypeOK
  <2>2. grant.tries + 1 \in 0..2
    BY <1>1
  <2> HIDE DEF g
  <2>3. g = [grant EXCEPT !.reply = r, !.tries = @ + 1, !.spent = @ \/ r \in Accepted,
               !.handle = IF r \in {"unreachable", "lost"} \/ nonce = NoNonce THEN @ ELSE nonce]
    BY DEF g, Answered
  <2> QED BY <1>1, <1>4, <2>1, <2>2, <2>3 DEF Grant
<1>6. (g.spent => r \in Accepted) /\ g.reply = r
  BY <1>1 DEF Answered, Grant
<1>7. g.tries = grant.tries + 1
  BY <1>1 DEF Answered, Grant
<1>8. current' \in 1..MaxRotations + 1
  <2>1. CASE r \in Accepted /\ g.kind \in {"refresh", "revoke"}
    <3>1. current <= MaxRotations
      BY <1>5, <2>1 DEF Answers, Accepted, GrantInv, GrantTypeOK
    <3> QED BY <1>2, <2>1, <3>1 DEF GrantInv, GrantTypeOK
  <2>2. CASE ~(r \in Accepted /\ g.kind \in {"refresh", "revoke"})
    BY <1>2, <2>2 DEF GrantInv, GrantTypeOK
  <2> QED BY <2>1, <2>2
<1>11. Retried(g) => grant' = g
  BY <1>2
<1>12. ~Retried(g) => grant' = [g EXCEPT !.outcome = Result(g)]
  BY <1>2
<1> HIDE DEF g
<1>9. CASE Retried(g)
  <2>1. g.reply = "nonce" /\ g.tries = 1
    BY <1>9 DEF Retried
  <2>2. ~g.spent
    BY <1>6, <2>1 DEF Accepted
  <2>3. grant' = g
    BY <1>9, <1>11
  <2> QED BY <1>3, <1>5, <1>8, <2>1, <2>2, <2>3 DEF GrantInv, GrantTypeOK, GrantGoesOn
<1>10. CASE ~Retried(g)
  <2>1. Result(g) \in {"tokens", "refused", "mfa_required", "nonce", "failed"}
    BY <1>4, <1>6 DEF Result, Reported, Replies
  <2>2. grant' = [g EXCEPT !.outcome = Result(g)]
    BY <1>10, <1>12
  <2>3. grant' \in Grant /\ grant'.outcome # "none" /\ grant'.spent = g.spent
        /\ grant'.reply = g.reply
    BY <1>5, <2>1, <2>2 DEF Grant
  <2> QED BY <1>3, <1>6, <1>8, <2>3 DEF GrantInv, GrantTypeOK, GrantGoesOn, Accepted
<1> QED BY <1>9, <1>10

-----------------------------------------------------------------------------
(* A call and the steps it has left.                                       *)
SignInSteps == {"code", "mfa", "passkey", "passwordless", "otp"}

StepsOf(op) ==
    CASE op = "signin"   -> SignInSteps \cup {"save"}
      [] op = "exchange" -> {"exchange"}
      [] op = "ciba"     -> {"ciba"}
      [] op = "fetch"    -> {"token", "present"}
      [] op = "connection" -> {"connection", "save"}
      [] op = "update" -> {"save", "copy"}
      [] OTHER -> {"token", "actor", "transfer", "revoke", "present", "save", "keep"}

\* Only sign-ins make a session of their own, and then are left to save it.
CallFits(c) ==
    /\ c.todo \in Seq(StepsOf(c.op))
    /\ c.op \notin {"signin", "exchange", "ciba"} => c.ses # NoSession
    /\ c.op = "signin" /\ c.ses # NoSession => c.todo \in Seq({"save"})
    /\ c.op = "signin" /\ c.todo # <<>> => Tail(c.todo) \in Seq({"save"})
    /\ c.ses = NoSession => c.news = {}
    /\ c.op = "connection" => c.news \subseteq {"connection"}
    /\ c.op = "update" => c.news \subseteq {"data"}

\* What a call begins with: the session that was read, but for a fetcher's.
MadeFrom(c, s) ==
    /\ c \in Calls /\ CallFits(c)
    /\ c.op # "fetch" =>
         \/ c.ses = s /\ c.news = {}
         \/ c.op \in {"exchange", "ciba"} /\ c.ses = NoSession
         \/ /\ c.op = "update" /\ s # NoSession
            /\ c.ses = [s EXCEPT !.data = TRUE] /\ c.news = {"data"}

\* What a sequence of steps begins with, and what remains of it.
LEMMA StepSequences ==
  ASSUME NEW S, NEW s \in Seq(S)
  PROVE  /\ <<>> \in Seq(S)
         /\ s # <<>> => Head(s) \in S /\ Tail(s) \in Seq(S)
         /\ \A x \in S : <<x>> \in Seq(S) /\ <<x>> \o s \in Seq(S)
  OBVIOUS

\* A call made of steps that fit its operation has the type of a call.
LEMMA CallMade ==
  ASSUME NEW op \in {"token", "connection", "transfer", "revoke", "exchange", "ciba",
                     "connect", "update", "fetch", "enrol", "proxy", "signin"},
         NEW ses \in MaybeSession, NEW target \in Targets, NEW todo \in Seq(StepsOf(op))
  PROVE  Call(op, ses, target, todo) \in Calls
<1>1. StepsOf(op) \subseteq Steps
  BY DEF StepsOf, Steps, GrantSteps, GrantKinds, OnResponse, OnError, WithoutProof,
         SignInSteps
<1>2. todo \in Seq(Steps)
  BY <1>1
<1> QED BY <1>2 DEF Call, Calls, MaybeToken, MaybeNonce, News

\* The methods and routes that work with a session.
LEMMA SessionCallMade ==
  ASSUME NEW op \in {"token", "connection", "transfer", "revoke", "connect", "enrol", "proxy"},
         NEW s \in Session, NEW target \in Targets, NEW todo \in Seq(StepsOf(op))
  PROVE  MadeFrom(Call(op, s, target, todo), s)
<1>1. s # NoSession
  BY ServerCallsAssumption
<1> QED BY <1>1, CallMade DEF MadeFrom, CallFits, MaybeSession, Call

\* The programs of the methods and routes are sequences of their steps.
LEMMA TokenSteps ==
  ASSUME NEW op \in {"token", "transfer", "revoke", "connect", "enrol", "proxy"}
  PROVE  /\ getTokenSet \o <<"save">> \in Seq(StepsOf(op))
         /\ resolveActorFromSession \o transferExchange \o <<"save">> \in Seq(StepsOf(op))
         /\ revokeToken \in Seq(StepsOf(op))
         /\ getTokenSet \o <<"save">> \o createConnectAccountTicket \in Seq(StepsOf(op))
         /\ getTokenSet \o createConnectAccountTicket \o <<"save">> \in Seq(StepsOf(op))
         /\ getTokenSet \o <<"present">> \in Seq(StepsOf(op))
         /\ getTokenSet \o <<"present", "save">> \in Seq(StepsOf(op))
<1> DEFINE S == StepsOf(op)
<1>1. {"token", "actor", "transfer", "revoke", "present", "save"} \subseteq S
  BY DEF StepsOf
<1> HIDE DEF S
<1>2. /\ getTokenSet \in Seq(S)
      /\ resolveActorFromSession \in Seq(S) /\ transferExchange \in Seq(S)
      /\ revokeToken \in Seq(S) /\ createConnectAccountTicket \in Seq(S)
      /\ <<"save">> \in Seq(S) /\ <<"present">> \in Seq(S) /\ <<"present", "save">> \in Seq(S)
  BY <1>1 DEF getTokenSet, resolveActorFromSession, transferExchange, revokeToken,
              createConnectAccountTicket
<1>3. \A a, b \in Seq(S) : a \o b \in Seq(S)
  OBVIOUS
<1>4. /\ getTokenSet \o <<"save">> \in Seq(S)
      /\ resolveActorFromSession \o transferExchange \in Seq(S)
      /\ getTokenSet \o createConnectAccountTicket \in Seq(S)
  BY <1>2, <1>3
<1> QED BY <1>2, <1>3, <1>4 DEF S

\* Whatever is called, from wherever, fits.
LEMMA CallsMade ==
  ASSUME request \in Request, proxyHandles \in [Audiences -> MaybeNonce],
         NEW c \in CallsOf(request.adapter, request.reads)
  PROVE  MadeFrom(c, request.reads)
<1> DEFINE s == request.reads
           f == request.fetcher
<1>1. /\ s \in MaybeSession
      /\ s # NoSession => s \in Session
      /\ f.ses \in MaybeSession /\ f.handle \in MaybeNonce
  BY DEF Request, MaybeSession
<1>2. \A a \in Audiences : a \in Targets
  BY DEF Targets
<1>3. "login" \in Targets
  BY DEF Targets
<1>4. ASSUME s # NoSession
      PROVE  /\ \A t \in Targets : MadeFrom(executeGetAccessToken(s, t), s)
             /\ \A t \in Targets : MadeFrom(handleAccessToken(s, t), s)
             /\ MadeFrom(getAccessTokenForConnection(s), s)
             /\ MadeFrom(requestSessionTransferToken(s), s)
             /\ MadeFrom(revokeRefreshToken(s), s)
             /\ \A a \in Audiences : MadeFrom(connectAccount(s, a), s)
             /\ \A a \in Audiences : MadeFrom(handleConnectAccount(s, a), s)
             /\ \A a \in Audiences : MadeFrom(handlePasskeyEnrollment(s, a), s)
             /\ \A a \in Audiences : MadeFrom(completeConnectAccount(s, a), s)
  <2> s \in Session
    BY <1>1, <1>4
  <2>1. getConnectionTokenSet \o <<"save">> \in Seq(StepsOf("connection"))
    BY DEF getConnectionTokenSet, StepsOf
  <2> HIDE DEF s
  <2> QED
    BY <1>2, <1>3, <2>1, SessionCallMade, TokenSteps
       DEF executeGetAccessToken, handleAccessToken, getAccessTokenForConnection,
           requestSessionTransferToken, revokeRefreshToken, connectAccount,
           handleConnectAccount, handlePasskeyEnrollment, completeConnectAccount
<1>5. ASSUME s # NoSession, NEW res
      PROVE  MadeFrom(updateSession(s, res), s)
  <2>1. s \in Session
    BY <1>1, <1>5
  <2> HIDE DEF s
  <2>2. [s EXCEPT !.data = TRUE] \in Session
    BY <2>1 DEF Session
  <2> DEFINE todo == <<toNextResponse(res)>>
             made == Call("update", [s EXCEPT !.data = TRUE], "login", todo)
  <2>3. todo \in Seq(StepsOf("update"))
    BY DEF StepsOf, toNextResponse
  <2> HIDE DEF todo
  <2>4. /\ made \in Calls /\ made.op = "update" /\ made.ses = [s EXCEPT !.data = TRUE]
        /\ made.todo = todo
    <3> DEFINE d == [s EXCEPT !.data = TRUE]
    <3>1. d \in MaybeSession
      BY <2>2 DEF MaybeSession
    <3> HIDE DEF d
    <3>2. Call("update", d, "login", todo) \in Calls
      BY <1>3, <2>3, <3>1, CallMade
    <3> QED BY <3>2 DEF d, Call
  <2> HIDE DEF made
  <2>5. updateSession(s, res) = [made EXCEPT !.news = {"data"}]
    BY DEF updateSession, made, todo
  <2>6. [made EXCEPT !.news = {"data"}] \in Calls
    BY <2>4 DEF Calls, News
  <2>7. /\ updateSession(s, res).op = "update" /\ updateSession(s, res).todo = todo
        /\ updateSession(s, res).ses = [s EXCEPT !.data = TRUE]
        /\ updateSession(s, res).news = {"data"}
    BY <2>4, <2>5 DEF Calls
  <2>8. updateSession(s, res).ses # NoSession
    BY <2>2, <2>7, ServerCallsAssumption
  <2> QED BY <1>5, <2>3, <2>5, <2>6, <2>7, <2>8 DEF MadeFrom, CallFits
<1>6. ASSUME s # NoSession, NEW a \in Audiences
      PROVE  MadeFrom(handleProxy(s, a), s)
  <2> DEFINE made == Call("proxy", s, a, getTokenSet \o <<"present", "save">>)
  <2>1. s \in Session
    BY <1>1, <1>6
  <2>2. MadeFrom(made, s) /\ made.op = "proxy" /\ made.news = {} /\ made.ses = s
    <3>1. getTokenSet \o <<"present", "save">> \in Seq(StepsOf("proxy"))
      BY TokenSteps
    <3>2. MadeFrom(made, s)
      BY <1>2, <2>1, <3>1, SessionCallMade
    <3> QED BY <3>2 DEF Call
  <2> HIDE DEF made
  <2>3. handleProxy(s, a) = [made EXCEPT !.handle = proxyHandles[a]]
    BY DEF handleProxy, made
  <2> QED BY <1>6, <2>2, <2>3 DEF MadeFrom, CallFits, Calls
<1>7. ASSUME f.ses # NoSession, NEW t \in Targets
      PROVE  MadeFrom(fetchWithAuth(f, t), s)
  <2> DEFINE made == Call("fetch", f.ses, t, getTokenSet \o <<"present">>)
  <2>1. getTokenSet \o <<"present">> \in Seq(StepsOf("fetch"))
    BY DEF getTokenSet, StepsOf
  <2>2. /\ made \in Calls /\ made.op = "fetch" /\ made.ses = f.ses /\ made.news = {}
        /\ made.todo = getTokenSet \o <<"present">>
    <3>1. made \in Calls
      BY <1>1, <2>1, CallMade
    <3> QED BY <3>1 DEF Call
  <2> HIDE DEF made
  <2>3. fetchWithAuth(f, t) = [made EXCEPT !.handle = f.handle]
    BY DEF fetchWithAuth, made
  <2> QED BY <1>1, <1>7, <2>1, <2>2, <2>3 DEF MadeFrom, CallFits, Calls
<1>8. MadeFrom(customTokenExchange, s) /\ MadeFrom(getTokenByBackchannelAuth, s)
  <2>1. /\ tokenExchange \in Seq(StepsOf("exchange"))
        /\ backchannelAuthentication \in Seq(StepsOf("ciba"))
    BY DEF tokenExchange, backchannelAuthentication, StepsOf
  <2> QED
    <3>1. customTokenExchange \in Calls /\ getTokenByBackchannelAuth \in Calls
      BY <1>3, <2>1, CallMade
         DEF customTokenExchange, getTokenByBackchannelAuth, MaybeSession
    <3> QED
      BY <2>1, <3>1
         DEF customTokenExchange, getTokenByBackchannelAuth, MadeFrom, CallFits, Call
<1>9. ASSUME s = NoSession
      PROVE  /\ MadeFrom(handleCallback, s)
             /\ \A how \in {"passkey", "passwordless", "otp", "mfa"} : MadeFrom(SignIn(how), s)
  <2>1. \A how \in SignInSteps : <<how, "save">> \in Seq(StepsOf("signin"))
    BY DEF StepsOf
  <2> QED
    <3>1. \A how \in SignInSteps : Call("signin", NoSession, "login", <<how, "save">>) \in Calls
      BY <1>3, <2>1, CallMade DEF MaybeSession
    <3>2. \A how \in SignInSteps : MadeFrom(Call("signin", NoSession, "login", <<how, "save">>), s)
      BY <1>9, <2>1, <3>1 DEF MadeFrom, CallFits, Call
    <3> QED BY <3>2 DEF handleCallback, SignIn, SignInSteps
<1>10. s # NoSession =>
        /\ \A d \in RouteCalls(s) : MadeFrom(d, s)
        /\ \A adapter : \A d \in MethodCalls(adapter, s) : MadeFrom(d, s)
  BY <1>4, <1>5, <1>6 DEF RouteCalls, ProxyCalls, MethodCalls
<1>11. s = NoSession => \A d \in SignIns : MadeFrom(d, s)
  BY <1>9 DEF SignIns
<1> HIDE DEF s
<1>12. /\ request.adapter = "route" => c \in IF s = NoSession THEN SignIns ELSE RouteCalls(s)
       /\ request.adapter # "route" =>
            \/ s # NoSession /\ c \in MethodCalls(request.adapter, s)
            \/ c \in {customTokenExchange, getTokenByBackchannelAuth}
            \/ f.ses # NoSession /\ \E t \in Targets : c = fetchWithAuth(f, t)
  BY DEF CallsOf, s
<1>13. MadeFrom(c, s)
  BY <1>7, <1>8, <1>10, <1>11, <1>12
<1> QED BY <1>13 DEF s

-----------------------------------------------------------------------------
(* Sessions after a grant, and what of the news they have.                 *)
LEMMA SessionsTyped ==
  ASSUME NEW g \in Grant, current \in 1..MaxRotations + 1
  PROVE  /\ NewSession(g) \in Session
         /\ \A s \in Session, t \in Targets : Refreshed(s, t, g) \in Session
         /\ \A s \in Session : [s EXCEPT !.conn = TRUE] \in Session
<1>1. \A b \in BOOLEAN : NewToken(g, b) \in Token
  BY DEF NewToken, Token, Grant
<1>2. NewSession(g) \in Session
  <2>1. NewToken(g, g.kind # "code") \in Token
    BY <1>1
  <2> QED BY <2>1 DEF NewSession, Session, MaybeToken
<1>3. ASSUME NEW s \in Session, NEW t \in Targets
      PROVE  Refreshed(s, t, g) \in Session
  <2>1. [s.tok EXCEPT ![t] = NewToken(g, TRUE)] \in [Targets -> MaybeToken]
    BY <1>1 DEF Session, MaybeToken
  <2> QED BY <2>1 DEF Refreshed, Session
<1>4. \A s \in Session : [s EXCEPT !.conn = TRUE] \in Session
  BY DEF Session
<1> QED BY <1>2, <1>3, <1>4

\* Nothing is missing of two sets of news together iff nothing is of either.
LEMMA MissingParts ==
  ASSUME NEW s, NEW A, NEW B
  PROVE  Missing(s, A \cup B) = {} <=> Missing(s, A) = {} /\ Missing(s, B) = {}
  BY DEF Missing

\* Grants and updateSession() leave a session with all that it had.
LEMMA RefreshedKeeps ==
  ASSUME NEW s \in Session, NEW t \in Targets, NEW g \in Grant, NEW A,
         Missing(s, A) = {}
  PROVE  Missing(Refreshed(s, t, g), A \cup {t}) = {}
<1> DEFINE n == Refreshed(s, t, g)
<1>1. n.tok[t] = NewToken(g, TRUE) /\ NewToken(g, TRUE) \in Token /\ NewToken(g, TRUE).live
  BY DEF Refreshed, Session, NewToken, Token, Grant
<1>2. Live(n.tok[t])
  BY <1>1, ServerCallsAssumption DEF Live
<1>3. \A u \in Targets : u # t => n.tok[u] = s.tok[u]
  BY DEF Refreshed, Session
<1>4. n.conn = s.conn /\ n.data = s.data
  BY DEF Refreshed, Session
<1> HIDE DEF n
<1>5. Missing(n, A) = {}
  <2>1. \A x \in A : x \in Targets => Live(s.tok[x])
    BY DEF Missing
  <2>2. \A x \in A : x \in Targets => Live(n.tok[x])
    BY <1>2, <1>3, <2>1
  <2> QED BY <1>4, <2>2 DEF Missing
<1>6. Missing(n, {t}) = {}
  <2>1. t # "connection" /\ t # "data"
    BY ServerCallsAssumption DEF Targets
  <2> QED BY <1>2, <2>1 DEF Missing
<1>7. Missing(n, A \cup {t}) = {}
  BY <1>5, <1>6, MissingParts
<1> QED BY <1>7 DEF n

\* A connection's token added to a session takes nothing away.
LEMMA ConnectionKeeps ==
  ASSUME NEW s \in Session, NEW A, Missing(s, A) = {}
  PROVE  Missing([s EXCEPT !.conn = TRUE], A \cup {"connection"}) = {}
<1> DEFINE n == [s EXCEPT !.conn = TRUE]
<1>1. n.tok = s.tok /\ n.conn = TRUE /\ n.data = s.data
  BY DEF Session
<1>2. "connection" \notin Targets
  BY ServerCallsAssumption DEF Targets
<1> HIDE DEF n
<1>3. Missing(n, A \cup {"connection"}) = {}
  BY <1>1, <1>2 DEF Missing
<1> QED BY <1>3 DEF n

\* Nor do the data of updateSession().
LEMMA DataKeeps ==
  ASSUME NEW s \in Session, NEW A, Missing(s, A) = {}
  PROVE  Missing([s EXCEPT !.data = TRUE], A \cup {"data"}) = {}
<1> DEFINE n == [s EXCEPT !.data = TRUE]
<1>1. n.tok = s.tok /\ n.conn = s.conn /\ n.data = TRUE
  BY DEF Session
<1>2. "data" \notin Targets
  BY ServerCallsAssumption DEF Targets
<1> HIDE DEF n
<1>3. Missing(n, A \cup {"data"}) = {}
  BY <1>1, <1>2 DEF Missing
<1> QED BY <1>3 DEF n

\* The session of a sign-in has its login's token, which is live.
LEMMA NewSessionHasLogin ==
  ASSUME NEW g \in Grant
  PROVE  Missing(NewSession(g), {"login"}) = {}
<1>1. NewToken(g, g.kind # "code") \in Token /\ NewToken(g, g.kind # "code").live
  BY DEF NewToken, Token, Grant
<1>2. Live(NewSession(g).tok["login"])
  BY <1>1, ServerCallsAssumption DEF NewSession, Live, Targets
<1> QED BY <1>2 DEF Missing, Targets

-----------------------------------------------------------------------------
(* The inductive invariant.                                                *)

\* The grant in progress is that of the step the call has come to.
KindOf(step) == IF step \in {"token", "actor"} THEN "refresh" ELSE step

GrantFits ==
    grant # NoGrant =>
        /\ call.todo # <<>> /\ Head(call.todo) \in GrantSteps
        /\ grant.kind = KindOf(Head(call.todo))

CallInv == call # NoCall => CallFits(call)

\* What was saved is in the response and in the session that is read next, and
\* what was saved or is news is in the session of a call, which it may save.
SavedIsRead(q) ==
    q.saved # {} => \A s \in {q.out, q.reads} : s # NoSession /\ Missing(s, q.saved) = {}

CallHas(c, q) ==
    c.op # "fetch" =>
        /\ c.ses # NoSession => Missing(c.ses, q.saved \cup c.news) = {}
        /\ c.ses = NoSession /\ c.op = "signin" => q.saved = {}

Kept ==
    request # NoRequest /\ ~ReadsAnew(request.adapter) =>
        /\ SavedIsRead(request)
        /\ call # NoCall => CallHas(call, request)

Inv == TypeOK /\ GrantGoesOn /\ GrantFits /\ CallInv /\ Kept

\* No grant, no call and no request.
LEMMA InitInv == Init => Inv
<1> SUFFICES ASSUME Init PROVE Inv
  OBVIOUS
<1>1. GrantTypeOK
  BY GrantRetriesAssumption DEF Init, GrantInit, GrantTypeOK
<1>2. GrantGoesOn /\ GrantFits /\ CallInv /\ Kept
  BY DEF Init, GrantInit, GrantGoesOn, GrantFits, CallInv, Kept
<1>3. proxyHandles \in [Audiences -> MaybeNonce]
  BY DEF Init, MaybeNonce
<1> QED BY <1>1, <1>2, <1>3 DEF Init, GrantInit, Inv, TypeOK, MaybeSession

\* Steps that leave grants alone and make no new one.
LEMMA GrantsUntouched ==
  ASSUME Inv, UNCHANGED grantVars, grant = NoGrant \/ UNCHANGED call
  PROVE  GrantTypeOK' /\ GrantGoesOn' /\ GrantFits'
  BY DEF Inv, TypeOK, GrantTypeOK, GrantGoesOn, GrantFits, grantVars

\* The parts of the invariant after a step.
LEMMA InvParts ==
  ASSUME GrantTypeOK', GrantGoesOn', GrantFits', Kept',
         browser' \in MaybeSession, request' \in Request \cup {NoRequest},
         call' \in Calls \cup {NoCall}, proxyHandles' \in [Audiences -> MaybeNonce],
         call' # NoCall => request' # NoRequest /\ CallFits(call'),
         grant' # NoGrant => call' # NoCall, lost' \in BOOLEAN
  PROVE  Inv'
<1>1. TypeOK'
  BY DEF TypeOK
<1>2. CallInv'
  BY DEF CallInv
<1> QED BY <1>1, <1>2 DEF Inv

\* A step of the call that makes no request and keeps the requests as they are.
LEMMA CallMoves ==
  ASSUME Inv, call # NoCall, call' \in Calls, CallFits(call'),
         request # NoRequest /\ ~ReadsAnew(request.adapter) => CallHas(call', request),
         UNCHANGED <<browser, request, proxyHandles>>, lost' \in BOOLEAN,
         GrantTypeOK', GrantGoesOn', GrantFits'
  PROVE  Inv'
<1>1. Kept'
  BY DEF Inv, Kept
<1>2. request' # NoRequest
  BY DEF Inv, TypeOK
<1>3. call' # NoCall
  BY ServerCallsAssumption
<1> QED BY <1>1, <1>2, <1>3, InvParts DEF Inv, TypeOK

\* What is left of the steps fits as they did.
LEMMA StepDone ==
  ASSUME NEW c \in Calls, CallFits(c)
  PROVE  /\ c.todo # <<>> => Next1(c) \in Calls /\ CallFits(Next1(c))
         /\ Failed(c) \in Calls /\ CallFits(Failed(c))
<1>1. /\ c.todo # <<>> => Tail(c.todo) \in Seq(StepsOf(c.op)) /\ Tail(c.todo) \in Seq(Steps)
      /\ <<>> \in Seq(StepsOf(c.op)) /\ <<>> \in Seq(Steps) /\ <<>> \in Seq({"save"})
      /\ c.todo # <<>> /\ c.todo \in Seq({"save"}) => Tail(c.todo) \in Seq({"save"})
  BY StepSequences DEF CallFits, Calls
<1>2. ASSUME c.todo # <<>>
      PROVE  Next1(c) \in Calls /\ CallFits(Next1(c))
  <2> DEFINE t == Tail(c.todo)
  <2>1. c.op = "signin" => t \in Seq({"save"}) /\ (t # <<>> => Tail(t) \in Seq({"save"}))
    BY <1>2, StepSequences DEF CallFits
  <2>2. t \in Seq(StepsOf(c.op)) /\ t \in Seq(Steps)
    BY <1>1, <1>2
  <2> HIDE DEF t
  <2>3. Next1(c) = [c EXCEPT !.todo = t]
    BY DEF Next1, t
  <2>4. /\ Next1(c) \in Calls /\ Next1(c).todo = t /\ Next1(c).op = c.op
        /\ Next1(c).ses = c.ses /\ Next1(c).news = c.news
    BY <2>2, <2>3 DEF Calls
  <2> QED BY <2>1, <2>2, <2>4 DEF CallFits
<1>3. Failed(c) \in Calls /\ CallFits(Failed(c))
  BY <1>1 DEF Failed, Calls, CallFits
<1> QED BY <1>2, <1>3

\* A new request has saved nothing.
LEMMA NewRequestStep ==
  ASSUME Inv, NEW adapter \in Adapters, NewRequest(adapter)
  PROVE  Inv'
<1>1. call = NoCall /\ grant = NoGrant /\ UNCHANGED <<browser, call, proxyHandles, lost, grantVars>>
  BY DEF Inv, TypeOK, NewRequest
<1>2. request' \in Request /\ request'.saved = {}
  BY ServerCallsAssumption
     DEF NewRequest, Request, MaybeSession, MaybeNonce, Inv, TypeOK
<1>3. Kept'
  BY <1>1, <1>2 DEF Kept, SavedIsRead
<1>4. GrantTypeOK' /\ GrantGoesOn' /\ GrantFits'
  BY <1>1, GrantsUntouched
<1> QED BY <1>1, <1>2, <1>3, <1>4, InvParts DEF Inv, TypeOK, grantVars

\* A call begins with the session its request reads.
LEMMA BeginStep ==
  ASSUME Inv, Begin
  PROVE  Inv'
<1>1. /\ call = NoCall /\ grant = NoGrant /\ request # NoRequest /\ request \in Request
      /\ request.left > 0 /\ proxyHandles \in [Audiences -> MaybeNonce]
      /\ call' \in CallsOf(request.adapter, request.reads)
      /\ request' = [request EXCEPT !.left = @ - 1]
      /\ UNCHANGED <<browser, proxyHandles, grantVars>>
      /\ lost' \in BOOLEAN
  BY DEF Begin, getSession, Inv, TypeOK, ReadsOlder
<1>2. MadeFrom(call', request.reads)
  BY <1>1, CallsMade
<1>3. request' \in Request /\ request' # NoRequest
  BY <1>1, ServerCallsAssumption DEF Request
<1>4. /\ request'.saved = request.saved /\ request'.out = request.out
      /\ request'.reads = request.reads /\ request'.adapter = request.adapter
  BY <1>1 DEF Request
<1>5. ASSUME ~ReadsAnew(request.adapter)
      PROVE  CallHas(call', request)
  <2> DEFINE s == request.reads
  <2>1. SavedIsRead(request)
    BY <1>1, <1>5 DEF Inv, Kept
  <2>2. s # NoSession => s \in Session /\ Missing(s, request.saved) = {}
    BY <1>1, <2>1 DEF SavedIsRead, Request, MaybeSession, Missing
  <2>3. s = NoSession => request.saved = {}
    BY <2>1 DEF SavedIsRead
  <2>4. CASE call'.op = "fetch"
    BY <2>4 DEF CallHas
  <2>5. CASE call'.ses = s /\ call'.news = {} /\ call'.op # "fetch"
    BY <2>2, <2>3, <2>5 DEF CallHas
  <2>6. CASE call'.op \in {"exchange", "ciba"} /\ call'.ses = NoSession
    BY <2>6 DEF CallHas
  <2>7. CASE /\ call'.op = "update" /\ s # NoSession
             /\ call'.ses = [s EXCEPT !.data = TRUE] /\ call'.news = {"data"}
    BY <2>2, <2>7, DataKeeps DEF CallHas
  <2> QED BY <1>2, <2>4, <2>5, <2>6, <2>7 DEF MadeFrom
<1>6. Kept'
  BY <1>1, <1>4, <1>5 DEF Inv, Kept, SavedIsRead, CallHas
<1>7. GrantTypeOK' /\ GrantGoesOn' /\ GrantFits'
  BY <1>1, GrantsUntouched
<1> QED BY <1>1, <1>2, <1>3, <1>6, <1>7, InvParts DEF Inv, TypeOK, MadeFrom, grantVars

\* A fetcher is made with the session of the request, and has not refreshed.
LEMMA FetcherMade ==
  ASSUME request \in Request, NEW f \in fetcherFactory(request.reads)
  PROVE  f \in [ses : MaybeSession, handle : MaybeNonce, refreshed : BOOLEAN]
<1>1. f = [ses |-> request.reads, handle |-> NoNonce, refreshed |-> FALSE]
  BY DEF fetcherFactory
<1>2. request.reads \in MaybeSession /\ NoNonce \in MaybeNonce
  BY DEF Request, MaybeNonce
<1> QED BY <1>1, <1>2

\* A call of a fetcher leaves it another handle, and whether it refreshed.
LEMMA FetcherLeft ==
  ASSUME request \in Request, call \in Calls
  PROVE  LET q == [request EXCEPT !.fetcher.handle = call.handle,
                                  !.fetcher.refreshed = @ \/ call.news # {}]
         IN  /\ q \in Request /\ q.saved = request.saved /\ q.out = request.out
             /\ q.reads = request.reads /\ q.adapter = request.adapter
             /\ q.fetcher.ses = request.fetcher.ses
<1> DEFINE F == [ses : MaybeSession, handle : MaybeNonce, refreshed : BOOLEAN]
           f == [request.fetcher EXCEPT !.handle = call.handle, !.refreshed = @ \/ call.news # {}]
           q == [request EXCEPT !.fetcher.handle = call.handle,
                                !.fetcher.refreshed = @ \/ call.news # {}]
<1>1. request.fetcher \in F /\ call.handle \in MaybeNonce
  BY DEF Request, Calls
<1>2. f \in F /\ f.ses = request.fetcher.ses
  BY <1>1
<1>3. q = [request EXCEPT !.fetcher = f]
  BY <1>1 DEF Request
<1> HIDE DEF f, q
<1>4. /\ q \in Request /\ q.saved = request.saved /\ q.out = request.out
      /\ q.reads = request.reads /\ q.adapter = request.adapter /\ q.fetcher = f
  BY <1>2, <1>3 DEF Request
<1> QED BY <1>2, <1>4 DEF q

\* A fetcher captures the session and changes no call.
LEMMA CreateFetcherStep ==
  ASSUME Inv, createFetcher
  PROVE  Inv'
<1>1. PICK f \in fetcherFactory(request.reads) : request' = [request EXCEPT !.fetcher = f]
  BY DEF createFetcher, getSession
<1>2. /\ call = NoCall /\ grant = NoGrant /\ request # NoRequest /\ request \in Request
      /\ UNCHANGED <<browser, call, proxyHandles, lost, grantVars>>
  BY DEF createFetcher, Inv, TypeOK
<1>3. f \in [ses : MaybeSession, handle : MaybeNonce, refreshed : BOOLEAN]
  BY <1>1, <1>2, FetcherMade
<1>4. /\ request' \in Request /\ request'.saved = request.saved /\ request'.out = request.out
      /\ request'.reads = request.reads /\ request'.adapter = request.adapter
  BY <1>1, <1>2, <1>3 DEF Request
<1>5. Kept'
  BY <1>2, <1>4 DEF Inv, Kept, SavedIsRead
<1>6. GrantTypeOK' /\ GrantGoesOn' /\ GrantFits'
  BY <1>2, GrantsUntouched
<1> QED BY <1>2, <1>4, <1>5, <1>6, InvParts DEF Inv, TypeOK, grantVars

\* The end of a call keeps the session the response is to save.
LEMMA EndCallStep ==
  ASSUME Inv, EndCall
  PROVE  Inv'
<1>1. /\ call # NoCall /\ call \in Calls /\ request # NoRequest /\ request \in Request
      /\ grant = NoGrant /\ call' = NoCall /\ lost' \in BOOLEAN
      /\ UNCHANGED <<browser, grantVars>>
  BY DEF EndCall, Inv, TypeOK, GrantFits
<1>2. call.handle \in MaybeNonce
  BY <1>1 DEF Calls
<1>3. \/ request' = request
      \/ request' = [request EXCEPT !.fetcher.handle = call.handle,
                                    !.fetcher.refreshed = @ \/ call.news # {}]
  BY DEF EndCall
<1>4. /\ request' \in Request /\ request'.saved = request.saved /\ request'.out = request.out
      /\ request'.reads = request.reads /\ request'.adapter = request.adapter
  BY <1>1, <1>2, <1>3, FetcherLeft
<1>5. proxyHandles' \in [Audiences -> MaybeNonce]
  BY <1>2 DEF EndCall, Inv, TypeOK
<1>6. Kept'
  BY <1>1, <1>4 DEF Inv, Kept, SavedIsRead
<1>7. GrantTypeOK' /\ GrantGoesOn' /\ GrantFits'
  BY <1>1, GrantsUntouched
<1> QED BY <1>1, <1>4, <1>5, <1>6, <1>7, InvParts DEF Inv, TypeOK, grantVars

\* Steps after which there is no request.
LEMMA RequestOver ==
  ASSUME Inv, request' = NoRequest, call' = NoCall, grant' = NoGrant,
         UNCHANGED <<dpop, nonce, current>>, browser' \in MaybeSession,
         proxyHandles' \in [Audiences -> MaybeNonce], lost' \in BOOLEAN
  PROVE  Inv'
<1>1. GrantTypeOK' /\ GrantGoesOn' /\ GrantFits' /\ Kept'
  BY DEF Inv, TypeOK, GrantTypeOK, GrantGoesOn, GrantFits, Kept
<1> QED BY <1>1, InvParts

\* With a response its request is over, and so is what was to be kept.
LEMMA RespondStep ==
  ASSUME Inv, Respond
  PROVE  Inv'
<1>1. /\ request # NoRequest /\ request \in Request /\ call = NoCall /\ grant = NoGrant
      /\ request' = NoRequest /\ UNCHANGED <<call, proxyHandles, lost, grantVars>>
  BY DEF Respond, Inv, TypeOK
<1>2. browser' \in MaybeSession
  <2>1. CASE request.out = NoSession
    BY <2>1 DEF Respond, Inv, TypeOK
  <2>2. CASE request.out # NoSession
    <3>1. request.out \in Session
      BY <1>1, <2>2 DEF Request, MaybeSession
    <3>2. [request.out EXCEPT !.data = FALSE] \in Session
      BY <3>1 DEF Session
    <3> QED BY <2>2, <3>2 DEF Respond, MaybeSession
  <2> QED BY <2>1, <2>2
<1> QED BY <1>1, <1>2, RequestOver DEF Inv, TypeOK, grantVars

\* So it is with a failure.
LEMMA FailStep ==
  ASSUME Inv, Fail
  PROVE  Inv'
<1>1. proxyHandles' \in [Audiences -> MaybeNonce]
  BY DEF Fail, MaybeNonce
<1> QED BY <1>1, RequestOver DEF Fail, Inv, TypeOK

\* What is known of a call with a step to go.
LEMMA CallKnown ==
  ASSUME Inv, call # NoCall, call.todo # <<>>
  PROVE  /\ call \in Calls /\ CallFits(call) /\ Head(call.todo) \in StepsOf(call.op)
         /\ request \in Request /\ request # NoRequest
         /\ call.ses # NoSession => call.ses \in Session
         /\ Next1(call) \in Calls /\ CallFits(Next1(call))
         /\ ~ReadsAnew(request.adapter) => SavedIsRead(request) /\ CallHas(call, request)
<1>1. call \in Calls /\ CallFits(call) /\ request \in Request /\ request # NoRequest
  BY DEF Inv, TypeOK, CallInv
<1>2. Head(call.todo) \in StepsOf(call.op)
  BY <1>1, StepSequences DEF CallFits
<1>3. call.ses # NoSession => call.ses \in Session
  BY <1>1 DEF Calls, MaybeSession
<1>4. Next1(call) \in Calls /\ CallFits(Next1(call))
  BY <1>1, StepDone
<1>5. ~ReadsAnew(request.adapter) => SavedIsRead(request) /\ CallHas(call, request)
  BY <1>1 DEF Inv, Kept
<1> QED BY <1>1, <1>2, <1>3, <1>4, <1>5

\* A grant that is asked for is new.
LEMMA AskServerStep ==
  ASSUME Inv, AskServer
  PROVE  Inv'
<1> DEFINE step == Head(call.todo)
           kind == IF step \in {"token", "actor"} THEN "refresh" ELSE step
           rt   == IF call.ses = NoSession THEN 0 ELSE call.ses.rt
<1>1. /\ call # NoCall /\ call.todo # <<>> /\ step \in GrantSteps
      /\ grant' = NewGrant(kind, rt)
      /\ UNCHANGED <<browser, request, call, proxyHandles, lost, dpop, nonce, current>>
  BY DEF AskServer, Granting
<1>2. call \in Calls /\ (call.ses # NoSession => call.ses \in Session)
  BY <1>1, CallKnown
<1>3. kind \in GrantKinds
  BY <1>1 DEF GrantSteps, GrantKinds, OnError
<1>4. rt \in 0..MaxRotations + 1
  BY <1>2, GrantRetriesAssumption DEF Session
<1>5. GrantInv
  BY DEF Inv, TypeOK, GrantInv
<1>6. GrantInv'
  <2> HIDE DEF kind, rt
  <2> QED BY <1>1, <1>3, <1>4, <1>5, NewGrantInv
<1>7. GrantFits'
  BY <1>1 DEF GrantFits, KindOf, NewGrant
<1>8. GrantTypeOK' /\ GrantGoesOn'
  BY <1>6 DEF GrantInv
<1>9. CallFits(call) /\ (request # NoRequest /\ ~ReadsAnew(request.adapter) => CallHas(call, request))
  BY <1>1, CallKnown
<1> QED BY <1>1, <1>2, <1>7, <1>8, <1>9, CallMoves DEF Inv, TypeOK

\* An answer of the server touches the grant alone.
LEMMA ServerAnswersStep ==
  ASSUME Inv, ServerAnswers
  PROVE  Inv'
<1>1. /\ withDPoPNonceRetry /\ grant # NoGrant
      /\ UNCHANGED <<browser, request, call, proxyHandles, lost>>
  BY DEF ServerAnswers, withDPoPNonceRetry
<1>2. GrantInv'
  BY <1>1, RetryInv DEF Inv, TypeOK, GrantInv
<1>3. call # NoCall /\ call.todo # <<>> /\ grant \in Grant
  BY <1>1 DEF Inv, TypeOK, GrantTypeOK, GrantFits
<1>4. grant'.kind = grant.kind
  BY <1>1, <1>3 DEF withDPoPNonceRetry, Answered, Grant
<1>5. GrantFits'
  BY <1>1, <1>4 DEF Inv, GrantFits
<1>6. /\ CallFits(call) /\ call \in Calls
      /\ request # NoRequest /\ ~ReadsAnew(request.adapter) => CallHas(call, request)
  BY <1>3, CallKnown
<1>7. GrantTypeOK' /\ GrantGoesOn' /\ lost' \in BOOLEAN
  BY <1>1, <1>2 DEF GrantInv, Inv, TypeOK
<1> QED BY <1>1, <1>3, <1>5, <1>6, <1>7, CallMoves

\* A call that needs no grant, or is given up, keeps its session and its news.
LEMMA CallWithoutGrant ==
  ASSUME Inv, NotSent \/ AtHand
  PROVE  /\ call # NoCall /\ call' \in Calls /\ CallFits(call')
         /\ call'.op = call.op /\ call'.ses = call.ses /\ call'.news = call.news
<1>1. /\ call # NoCall /\ call.todo # <<>> /\ grant = NoGrant
      /\ UNCHANGED <<browser, request, proxyHandles, lost, grantVars>>
  BY DEF NotSent, AtHand, Granting
<1>2. /\ call \in Calls /\ CallFits(call) /\ Next1(call) \in Calls /\ CallFits(Next1(call))
      /\ Head(call.todo) \in StepsOf(call.op)
      /\ call.ses # NoSession => call.ses \in Session
      /\ request # NoRequest /\ ~ReadsAnew(request.adapter) => CallHas(call, request)
  BY <1>1, CallKnown
<1>3. /\ call' \in Calls /\ CallFits(call')
      /\ call'.op = call.op /\ call'.ses = call.ses /\ call'.news = call.news
  <2>1. CASE NotSent
    BY <1>2, <2>1, StepDone DEF NotSent, Failed, Calls
  <2>2. CASE AtHand
    <3> DEFINE tok == IF Head(call.todo) = "token" THEN call.ses.tok[call.target]
                      ELSE Next1(call).tok
    <3>1. Head(call.todo) = "token" => call.ses \in Session
      BY <1>2 DEF StepsOf, SignInSteps, CallFits
    <3>2. tok \in MaybeToken
      BY <1>2, <3>1 DEF Session, Calls
    <3>3. call' = [Next1(call) EXCEPT !.tok = tok]
      BY <2>2 DEF AtHand
    <3> HIDE DEF tok
    <3>4. /\ call' \in Calls /\ call'.op = Next1(call).op /\ call'.ses = Next1(call).ses
          /\ call'.news = Next1(call).news /\ call'.todo = Next1(call).todo
      BY <1>2, <3>2, <3>3 DEF Calls
    <3>5. CallFits(call')
      BY <1>2, <3>4 DEF CallFits
    <3> QED BY <1>2, <3>4, <3>5 DEF Next1, Calls
  <2> QED BY <2>1, <2>2
<1> QED BY <1>1, <1>3

\* Nothing was sent, or nothing was needed.
LEMMA NoGrantStep ==
  ASSUME Inv, NotSent \/ AtHand
  PROVE  Inv'
<1>1. /\ call # NoCall /\ call.todo # <<>> /\ grant = NoGrant
      /\ UNCHANGED <<browser, request, proxyHandles, lost, grantVars>>
  BY DEF NotSent, AtHand, Granting
<1>2. /\ call \in Calls /\ CallFits(call) /\ Next1(call) \in Calls /\ CallFits(Next1(call))
      /\ Head(call.todo) \in StepsOf(call.op)
      /\ call.ses # NoSession => call.ses \in Session
      /\ request # NoRequest /\ ~ReadsAnew(request.adapter) => CallHas(call, request)
  BY <1>1, CallKnown
<1>3. /\ call' \in Calls /\ CallFits(call')
      /\ call'.op = call.op /\ call'.ses = call.ses /\ call'.news = call.news
  BY CallWithoutGrant
<1>4. request # NoRequest /\ ~ReadsAnew(request.adapter) => CallHas(call', request)
  BY <1>2, <1>3 DEF CallHas
<1>5. GrantTypeOK' /\ GrantGoesOn' /\ GrantFits'
  BY <1>1, GrantsUntouched
<1> QED BY <1>1, <1>3, <1>4, <1>5, CallMoves DEF Inv, TypeOK

\* What a call goes on with after its grant.
LEMMA GrantedFits ==
  ASSUME Inv, Granting, grant # NoGrant
  PROVE  LET c == Granted(call, grant)
         IN  /\ c \in Calls /\ CallFits(c)
             /\ ~ReadsAnew(request.adapter) => CallHas(c, request)
<1>1. /\ call # NoCall /\ call.todo # <<>> /\ grant \in Grant
      /\ grant.kind = KindOf(Head(call.todo)) /\ Head(call.todo) \in GrantSteps
      /\ current \in 1..MaxRotations + 1
  BY DEF Inv, TypeOK, GrantTypeOK, GrantFits, Granting
<1>2. /\ call \in Calls /\ CallFits(call) /\ Next1(call) \in Calls /\ CallFits(Next1(call))
      /\ Head(call.todo) \in StepsOf(call.op)
      /\ call.ses # NoSession => call.ses \in Session
      /\ ~ReadsAnew(request.adapter) => CallHas(call, request)
  BY <1>1, CallKnown
<1> DEFINE n == Next1(call)
<1>3. /\ n.op = call.op /\ n.ses = call.ses /\ n.news = call.news /\ n.target = call.target
      /\ n.todo = Tail(call.todo) /\ call.target \in Targets
  BY <1>1, <1>2 DEF Next1, Calls
<1> HIDE DEF n
<1>4. CASE grant.kind = "refresh"
  <2> DEFINE new == Refreshed(call.ses, call.target, grant)
             keep == IF call.op = "fetch" THEN call.ses ELSE new
             tok  == new.tok[call.target]
             c    == [n EXCEPT !.ses = keep, !.tok = tok, !.news = {call.target}]
  <2>1. call.op \notin {"signin", "exchange", "ciba", "connection", "update"}
        /\ call.ses \in Session
    BY <1>1, <1>2, <1>4 DEF KindOf, StepsOf, SignInSteps, CallFits
  <2>2. new \in Session
    BY <1>1, <1>3, <2>1, SessionsTyped
  <2>3. tok \in MaybeToken /\ keep \in Session
    BY <1>3, <2>1, <2>2 DEF Session
  <2>4. Granted(call, grant) = c
    BY <1>3, <1>4 DEF Granted, n
  <2>5. call.op # "fetch" /\ ~ReadsAnew(request.adapter) =>
          Missing(new, request.saved \cup {call.target}) = {}
    <3>1. call.op # "fetch" /\ ~ReadsAnew(request.adapter) =>
            Missing(call.ses, request.saved) = {}
      BY <1>2, <2>1, MissingParts, ServerCallsAssumption DEF CallHas
    <3> QED BY <1>1, <1>3, <2>1, <3>1, RefreshedKeeps
  <2> HIDE DEF new, tok
  <2>6. /\ c \in Calls /\ c.op = call.op /\ c.ses = keep /\ c.todo = n.todo
        /\ c.news = {call.target}
    BY <1>2, <1>3, <2>3 DEF Calls, MaybeSession, News, n
  <2>7. keep # NoSession
    BY <2>3, ServerCallsAssumption
  <2>8. CallFits(c)
    BY <1>2, <1>3, <2>1, <2>6, <2>7 DEF CallFits, n
  <2>9. ~ReadsAnew(request.adapter) => CallHas(c, request)
    BY <2>5, <2>6, <2>7 DEF CallHas
  <2> QED BY <2>4, <2>6, <2>8, <2>9
<1>5. CASE grant.kind = "connection"
  <2> DEFINE new == [call.ses EXCEPT !.conn = TRUE]
             c   == [n EXCEPT !.ses.conn = TRUE, !.news = {"connection"}]
  <2>1. call.op \notin {"signin", "exchange", "ciba", "fetch", "update"}
        /\ call.ses \in Session
    BY <1>1, <1>2, <1>5 DEF KindOf, StepsOf, SignInSteps, CallFits
  <2>2. new \in Session /\ new # NoSession
    BY <1>1, <2>1, SessionsTyped, ServerCallsAssumption
  <2>3. Granted(call, grant) = c
    BY <1>5 DEF Granted, n
  <2>4. ~ReadsAnew(request.adapter) => Missing(new, request.saved \cup {"connection"}) = {}
    <3>1. ~ReadsAnew(request.adapter) => Missing(call.ses, request.saved) = {}
      BY <1>2, <2>1, MissingParts, ServerCallsAssumption DEF CallHas
    <3> QED BY <2>1, <3>1, ConnectionKeeps
  <2>5. c = [n EXCEPT !.ses = new, !.news = {"connection"}]
    BY <1>2, <1>3 DEF Calls, n
  <2> HIDE DEF new, c
  <2>6. /\ c \in Calls /\ c.op = call.op /\ c.ses = new /\ c.todo = n.todo
        /\ c.news = {"connection"}
    BY <1>2, <1>3, <2>2, <2>5 DEF Calls, MaybeSession, News, n
  <2>7. CallFits(c)
    BY <1>2, <1>3, <2>1, <2>2, <2>6 DEF CallFits, n
  <2>8. ~ReadsAnew(request.adapter) => CallHas(c, request)
    BY <2>2, <2>4, <2>6 DEF CallHas
  <2> QED BY <2>3, <2>6, <2>7, <2>8
<1>6. CASE grant.kind \in SignInSteps
  <2> DEFINE new == NewSession(grant)
             c   == [n EXCEPT !.ses = new, !.news = {"login"}]
  <2>1. call.op = "signin" /\ Head(call.todo) \in SignInSteps
    BY <1>1, <1>2, <1>6 DEF KindOf, StepsOf, SignInSteps
  <2>2. call.ses = NoSession
    BY <1>1, <1>2, <2>1, StepSequences DEF CallFits, SignInSteps
  <2>3. new \in Session /\ new # NoSession
    BY <1>1, SessionsTyped, ServerCallsAssumption
  <2>4. Granted(call, grant) = c
    BY <1>6 DEF Granted, SignInSteps, n
  <2>5. ~ReadsAnew(request.adapter) => Missing(new, request.saved \cup {"login"}) = {}
    <3>1. ~ReadsAnew(request.adapter) => request.saved = {}
      BY <1>2, <2>1, <2>2 DEF CallHas
    <3>2. Missing(new, {"login"}) = {}
      BY <1>1, NewSessionHasLogin
    <3> QED BY <3>1, <3>2
  <2> HIDE DEF new
  <2>6. /\ c \in Calls /\ c.op = call.op /\ c.ses = new /\ c.todo = n.todo
        /\ c.news = {"login"}
    BY <1>2, <1>3, <2>3 DEF Calls, MaybeSession, News, Targets, n
  <2>7. n.todo \in Seq({"save"})
    BY <1>1, <1>2, <1>3, <2>1 DEF CallFits
  <2>8. CallFits(c)
    BY <1>2, <1>3, <2>1, <2>3, <2>6, <2>7 DEF CallFits, n
  <2>9. ~ReadsAnew(request.adapter) => CallHas(c, request)
    BY <2>3, <2>5, <2>6 DEF CallHas
  <2> QED BY <2>4, <2>6, <2>8, <2>9
<1>7. CASE grant.kind \notin {"refresh", "connection"} \cup SignInSteps
  <2>1. Granted(call, grant) = n
    BY <1>7 DEF Granted, SignInSteps, n
  <2>2. ~ReadsAnew(request.adapter) => CallHas(n, request)
    BY <1>2, <1>3 DEF CallHas
  <2> QED BY <1>2, <2>1, <2>2 DEF n
<1> QED BY <1>4, <1>5, <1>6, <1>7

\* A grant's outcome is followed by the steps that remain, or by none.
LEMMA SettleStep ==
  ASSUME Inv, Settle
  PROVE  Inv'
<1>1. /\ Granting /\ grant # NoGrant /\ call # NoCall /\ call.todo # <<>>
      /\ grant' = NoGrant /\ lost' \in BOOLEAN
      /\ UNCHANGED <<browser, request, proxyHandles, dpop, nonce, current>>
  BY DEF Settle, Granting, Inv, TypeOK, AnswerLost
<1>2. /\ call \in Calls /\ CallFits(call)
      /\ request # NoRequest
      /\ ~ReadsAnew(request.adapter) => CallHas(call, request)
  BY <1>1, CallKnown
<1>3. \/ call' = Granted(call, grant)
      \/ KeepsOnMfa(call.op) /\ call' = [call EXCEPT !.todo = <<"keep">>]
      \/ call' = Failed(call)
  BY DEF Settle
<1>4. /\ call' \in Calls /\ CallFits(call')
      /\ ~ReadsAnew(request.adapter) => CallHas(call', request)
  <2>1. CASE call' = Granted(call, grant)
    BY <1>1, <2>1, GrantedFits
  <2>2. CASE KeepsOnMfa(call.op) /\ call' = [call EXCEPT !.todo = <<"keep">>]
    <3>1. call.op \in {"token", "connect", "proxy"}
      BY <2>2 DEF KeepsOnMfa
    <3>2. <<"keep">> \in Seq(StepsOf(call.op)) /\ <<"keep">> \in Seq(Steps)
      <4>1. "keep" \in StepsOf(call.op)
        BY <3>1 DEF StepsOf
      <4>2. "keep" \in Steps
        BY DEF Steps
      <4> DEFINE A == StepsOf(call.op)
      <4> HIDE DEF A
      <4>3. <<"keep">> \in Seq(A)
        BY <4>1 DEF A
      <4>4. <<"keep">> \in Seq(Steps)
        BY <4>2
      <4> QED BY <4>3, <4>4 DEF A
    <3>3. /\ call' \in Calls /\ call'.op = call.op /\ call'.ses = call.ses
          /\ call'.news = call.news /\ call'.todo = <<"keep">>
      BY <1>2, <2>2, <3>2 DEF Calls
    <3> QED BY <1>2, <3>1, <3>2, <3>3 DEF CallFits, CallHas
  <2>3. CASE call' = Failed(call)
    <3>1. call' \in Calls /\ CallFits(call')
      BY <1>2, <2>3, StepDone
    <3>2. call'.op = call.op /\ call'.ses = call.ses /\ call'.news = call.news
      BY <1>2, <2>3 DEF Failed, Calls
    <3> QED BY <1>2, <3>1, <3>2 DEF CallHas
  <2> QED BY <1>3, <2>1, <2>2, <2>3
<1>5. GrantTypeOK' /\ GrantGoesOn' /\ GrantFits'
  BY <1>1 DEF Inv, TypeOK, GrantTypeOK, GrantGoesOn, GrantFits
<1> QED BY <1>1, <1>4, <1>5, CallMoves

\* So does a call that presents its token.
LEMMA CallPresenting ==
  ASSUME Inv, internalFetchWithAuth
  PROVE  /\ call # NoCall /\ call' \in Calls /\ CallFits(call')
         /\ call'.op = call.op /\ call'.ses = call.ses /\ call'.news = call.news
<1> DEFINE shown == [call EXCEPT !.shown = IF WithProof(call) THEN "proof" ELSE "bearer"]
<1>1. /\ call # NoCall /\ call.todo # <<>> /\ Head(call.todo) = "present"
      /\ UNCHANGED <<browser, request, proxyHandles, lost, grantVars>>
  BY DEF internalFetchWithAuth
<1>3. /\ call \in Calls /\ CallFits(call) /\ Head(call.todo) \in StepsOf(call.op)
  BY <1>1, CallKnown
<1>4. \/ call' = Failed(call) \/ call' = Repeated(call)
      \/ call' = Next1(shown) \/ call' = Failed(shown)
  BY DEF internalFetchWithAuth
<1>5. /\ shown \in Calls /\ shown.op = call.op /\ shown.ses = call.ses
      /\ shown.news = call.news /\ shown.todo = call.todo
  BY <1>3 DEF Calls
<1>6. CallFits(shown)
  BY <1>3, <1>5 DEF CallFits
<1> HIDE DEF shown
<1>7. /\ call' \in Calls /\ CallFits(call')
      /\ call'.op = call.op /\ call'.ses = call.ses /\ call'.news = call.news
  <2>1. CASE call' = Failed(call)
    BY <1>3, <2>1, StepDone DEF Failed, Calls
  <2>2. CASE call' = Failed(shown)
    BY <1>5, <1>6, <2>2, StepDone DEF Failed, Calls
  <2>3. CASE call' = Next1(shown)
    <3>1. Next1(shown) \in Calls /\ CallFits(Next1(shown))
      BY <1>1, <1>5, <1>6, StepDone
    <3> QED BY <1>5, <2>3, <3>1 DEF Next1, Calls
  <2>4. CASE call' = Repeated(call)
    <3> DEFINE todo == IF call.op = "connect" THEN call.todo ELSE <<"token">> \o call.todo
    <3>1. call.op \notin {"signin", "exchange", "ciba"} /\ "token" \in StepsOf(call.op)
      BY <1>1, <1>3 DEF StepsOf, SignInSteps
    <3>2. todo \in Seq(StepsOf(call.op)) /\ todo \in Seq(Steps)
      <4>1. call.todo \in Seq(StepsOf(call.op)) /\ call.todo \in Seq(Steps)
        BY <1>3 DEF CallFits, Calls
      <4>2. "token" \in Steps
        BY DEF Steps, GrantSteps
      <4>3. /\ <<"token">> \o call.todo \in Seq(StepsOf(call.op))
            /\ <<"token">> \o call.todo \in Seq(Steps)
        BY <3>1, <4>1, <4>2, StepSequences
      <4> QED BY <4>1, <4>3
    <3>3. call' = [call EXCEPT !.retried = TRUE, !.handle = nonce, !.todo = todo]
      BY <1>3, <2>4 DEF Repeated, Calls
    <3>4. nonce \in MaybeNonce
      BY DEF Inv, TypeOK, GrantTypeOK
    <3> HIDE DEF todo
    <3>5. /\ call' \in Calls /\ call'.op = call.op /\ call'.ses = call.ses
          /\ call'.news = call.news /\ call'.todo = todo
      BY <1>3, <3>2, <3>3, <3>4 DEF Calls
    <3> QED BY <1>3, <3>1, <3>2, <3>5 DEF CallFits
  <2> QED BY <1>4, <2>1, <2>2, <2>3, <2>4
<1> QED BY <1>1, <1>7

\* A token is presented, or there is no fetcher to do it.
LEMMA PresentStep ==
  ASSUME Inv, internalFetchWithAuth
  PROVE  Inv'
<1>1. /\ call # NoCall /\ call.todo # <<>> /\ Head(call.todo) = "present"
      /\ UNCHANGED <<browser, request, proxyHandles, lost, grantVars>>
  BY DEF internalFetchWithAuth
<1>2. grant = NoGrant
  BY <1>1 DEF Inv, GrantFits, GrantSteps, GrantKinds, OnResponse, OnError, WithoutProof
<1>3. ~ReadsAnew(request.adapter) => CallHas(call, request)
  BY <1>1, CallKnown
<1>7. /\ call' \in Calls /\ CallFits(call')
      /\ call'.op = call.op /\ call'.ses = call.ses /\ call'.news = call.news
  BY CallPresenting
<1>8. ~ReadsAnew(request.adapter) => CallHas(call', request)
  BY <1>3, <1>7 DEF CallHas
<1>9. GrantTypeOK' /\ GrantGoesOn' /\ GrantFits'
  BY <1>1, <1>2, GrantsUntouched
<1> QED BY <1>1, <1>7, <1>8, <1>9, CallMoves DEF Inv, TypeOK

\* What is saved is the session of the call, with all that was saved before.
LEMMA SaveStep ==
  ASSUME Inv, Save
  PROVE  Inv'
<1>1. /\ call # NoCall /\ call.todo # <<>> /\ Head(call.todo) \in {"save", "keep"}
      /\ UNCHANGED <<browser, proxyHandles, lost, grantVars>>
  BY DEF Save
<1>2. grant = NoGrant
  BY <1>1 DEF Inv, GrantFits, GrantSteps, GrantKinds, OnResponse, OnError, WithoutProof
<1>3. /\ call \in Calls /\ CallFits(call) /\ Next1(call) \in Calls /\ CallFits(Next1(call))
      /\ Head(call.todo) \in StepsOf(call.op)
      /\ request \in Request /\ request # NoRequest
      /\ ~ReadsAnew(request.adapter) => SavedIsRead(request) /\ CallHas(call, request)
  BY <1>1, CallKnown
<1>4. /\ Next1(call).op = call.op /\ Next1(call).ses = call.ses
      /\ Next1(call).news = call.news
  BY <1>3 DEF Next1, Calls
<1>5. GrantTypeOK' /\ GrantGoesOn' /\ GrantFits'
  BY <1>1, <1>2, GrantsUntouched
<1>6. CASE call' = Next1(call) /\ UNCHANGED request
  <2>1. ~ReadsAnew(request.adapter) => CallHas(call', request)
    BY <1>3, <1>4, <1>6 DEF CallHas
  <2> QED BY <1>1, <1>3, <1>5, <1>6, <2>1, CallMoves DEF Inv, TypeOK
<1>7. CASE /\ call.news # {} \/ Head(call.todo) = "keep"
           /\ call' = [Next1(call) EXCEPT !.news = {}]
           /\ request' = Saved(call.ses, call.news)
  <2>1. call.op # "fetch" /\ call.ses # NoSession
    BY <1>1, <1>3, <1>7 DEF StepsOf, SignInSteps, CallFits
  <2>2. /\ call' \in Calls /\ call'.op = call.op /\ call'.ses = call.ses /\ call'.news = {}
        /\ call'.todo = Next1(call).todo
    BY <1>3, <1>4, <1>7 DEF Calls
  <2>3. CallFits(call')
    BY <1>3, <1>4, <2>2 DEF CallFits
  <2>4. request' = [request EXCEPT !.reads = ReadNext(call.ses),
                                   !.out = call.ses, !.saved = @ \cup call.news]
    BY <1>7 DEF Saved
  <2>5. call.ses \in MaybeSession /\ call.news \in SUBSET News
    BY <1>3 DEF Calls
  <2>6. /\ request' \in Request /\ request'.adapter = request.adapter
        /\ request'.out = call.ses /\ request'.saved = request.saved \cup call.news
        /\ ~ReadsAnew(request.adapter) => request'.reads = call.ses
    BY <1>3, <2>4, <2>5 DEF Request, ReadNext
  <2>7. ~ReadsAnew(request.adapter) => Missing(call.ses, request.saved \cup call.news) = {}
    BY <1>3, <2>1 DEF CallHas
  <2>8. Kept'
    BY <2>1, <2>2, <2>6, <2>7 DEF Kept, SavedIsRead, CallHas
  <2>9. request' # NoRequest
    BY <2>6, ServerCallsAssumption
  <2> QED BY <1>1, <1>2, <1>5, <2>2, <2>3, <2>6, <2>8, <2>9, InvParts DEF Inv, TypeOK, grantVars
<1> QED BY <1>6, <1>7 DEF Save

\* An update saved in a copy is in the session that is read next, or nowhere.
LEMMA SaveInCopyStep ==
  ASSUME Inv, SaveInCopy
  PROVE  Inv'
<1>1. /\ call # NoCall /\ call.todo # <<>> /\ Head(call.todo) = "copy"
      /\ call' = [Next1(call) EXCEPT !.news = {}]
      /\ request' = [request EXCEPT !.reads = ReadNext(call.ses)]
      /\ UNCHANGED <<browser, proxyHandles, lost, grantVars>>
  BY DEF SaveInCopy
<1>2. grant = NoGrant
  BY <1>1 DEF Inv, GrantFits, GrantSteps, GrantKinds, OnResponse, OnError, WithoutProof
<1>3. /\ call \in Calls /\ CallFits(call) /\ Next1(call) \in Calls /\ CallFits(Next1(call))
      /\ Head(call.todo) \in StepsOf(call.op)
      /\ request \in Request /\ request # NoRequest
      /\ ~ReadsAnew(request.adapter) => SavedIsRead(request) /\ CallHas(call, request)
  BY <1>1, CallKnown
<1>4. call.op = "update" /\ call.ses # NoSession /\ call.ses \in MaybeSession
  BY <1>1, <1>3 DEF StepsOf, SignInSteps, CallFits, Calls
<1>5. /\ call' \in Calls /\ call'.op = call.op /\ call'.ses = call.ses /\ call'.news = {}
      /\ call'.todo = Next1(call).todo
  BY <1>1, <1>3 DEF Calls, Next1
<1>6. CallFits(call')
  BY <1>3, <1>4, <1>5 DEF CallFits, Next1, Calls
<1>7. /\ request' \in Request /\ request'.adapter = request.adapter
      /\ request'.out = request.out /\ request'.saved = request.saved
      /\ ~ReadsAnew(request.adapter) => request'.reads = call.ses
  BY <1>1, <1>3, <1>4 DEF Request, ReadNext
<1>8. ~ReadsAnew(request.adapter) => Missing(call.ses, request.saved) = {}
  BY <1>3, <1>4, MissingParts DEF CallHas
<1>9. Kept'
  BY <1>3, <1>4, <1>5, <1>7, <1>8 DEF Kept, SavedIsRead, CallHas
<1>10. GrantTypeOK' /\ GrantGoesOn' /\ GrantFits'
  BY <1>1, <1>2, GrantsUntouched
<1>11. request' # NoRequest
  BY <1>7, ServerCallsAssumption
<1> QED BY <1>1, <1>2, <1>5, <1>6, <1>7, <1>9, <1>10, <1>11, InvParts
     DEF Inv, TypeOK, grantVars

\* Between requests: tokens expire, the user logs out.
LEMMA BetweenStep ==
  ASSUME Inv, Expire \/ Logout
  PROVE  Inv'
<1>1. /\ request = NoRequest /\ browser # NoSession
      /\ UNCHANGED <<request, call, proxyHandles, grantVars>> /\ lost' \in BOOLEAN
  BY DEF Expire, Logout, Inv, TypeOK
<1>2. call = NoCall /\ grant = NoGrant /\ browser \in Session
  BY <1>1 DEF Inv, TypeOK, MaybeSession
<1>3. browser' \in MaybeSession
  <2>1. CASE Logout
    BY <2>1 DEF Logout, MaybeSession
  <2>2. ASSUME NEW t \in Targets, browser.tok[t] # NoToken,
               browser' = [browser EXCEPT !.tok[t].live = FALSE]
        PROVE  browser' \in Session
    <3>1. [browser.tok[t] EXCEPT !.live = FALSE] \in MaybeToken
      BY <1>2, <2>2 DEF Session, MaybeToken, Token
    <3>2. [browser.tok EXCEPT ![t] = [browser.tok[t] EXCEPT !.live = FALSE]] \in [Targets -> MaybeToken]
      BY <1>2, <3>1 DEF Session
    <3>3. browser' = [browser EXCEPT !.tok = [browser.tok EXCEPT ![t] = [browser.tok[t] EXCEPT !.live = FALSE]]]
      BY <1>2, <2>2 DEF Session
    <3> QED BY <1>2, <3>2, <3>3 DEF Session
  <2>3. CASE browser' = [browser EXCEPT !.idLive = FALSE] \/ browser' = [browser EXCEPT !.conn = FALSE]
    BY <1>2, <2>3 DEF Session, MaybeSession
  <2> QED BY <2>1, <2>2, <2>3 DEF Expire, MaybeSession
<1>4. Kept'
  BY <1>1 DEF Kept
<1>5. GrantTypeOK' /\ GrantGoesOn' /\ GrantFits'
  BY <1>1, <1>2, GrantsUntouched
<1> QED BY <1>1, <1>2, <1>3, <1>4, <1>5, InvParts DEF Inv, TypeOK, grantVars

\* The server's nonce is in nobody's session.
LEMMA NewNonceStep ==
  ASSUME Inv, NewNonce
  PROVE  Inv'
<1>1. /\ nonce' \in MaybeNonce
      /\ UNCHANGED <<browser, request, call, proxyHandles, lost, dpop, current, grant>>
  BY DEF NewNonce, NextNonce
<1>2. GrantTypeOK' /\ GrantGoesOn' /\ GrantFits'
  BY <1>1 DEF Inv, TypeOK, GrantTypeOK, GrantGoesOn, GrantFits
<1>3. Kept'
  BY <1>1 DEF Inv, Kept
<1> QED BY <1>1, <1>2, <1>3, InvParts DEF Inv, TypeOK, CallInv

\* Every action keeps the invariant.
LEMMA InvNext == Inv /\ [Next]_vars => Inv'
<1> SUFFICES ASSUME Inv, [Next]_vars PROVE Inv'
  OBVIOUS
<1>1. CASE UNCHANGED vars
  <2>1. GrantTypeOK' /\ GrantGoesOn' /\ GrantFits' /\ Kept'
    BY <1>1 DEF vars, grantVars, Inv, TypeOK, GrantTypeOK, GrantGoesOn, GrantFits, Kept
  <2> QED BY <1>1, <2>1, InvParts DEF vars, grantVars, Inv, TypeOK, CallInv
<1>2. CASE Next
  BY <1>2, NewRequestStep, BeginStep, CreateFetcherStep, EndCallStep, RespondStep,
     FailStep, AskServerStep, NoGrantStep, SettleStep, ServerAnswersStep, PresentStep,
     SaveStep, SaveInCopyStep, BetweenStep, NewNonceStep DEF Next
<1> QED BY <1>1, <1>2

-----------------------------------------------------------------------------
(* The call after a grant, part by part.                                   *)
LEMMA GrantedParts ==
  ASSUME Inv, Granting, grant # NoGrant, NEW c, c = Granted(call, grant)
  PROVE  /\ c.op = call.op /\ c.todo = Tail(call.todo) /\ c.shown = call.shown
         /\ grant.kind = "refresh" =>
              /\ call.ses \in Session /\ c.news = {call.target}
              /\ c.tok = NewToken(grant, TRUE)
              /\ c.ses = IF call.op = "fetch" THEN call.ses
                         ELSE Refreshed(call.ses, call.target, grant)
         /\ grant.kind = "connection" =>
              /\ call.op = "connection" /\ call.ses \in Session
              /\ c.tok = call.tok /\ c.ses = [call.ses EXCEPT !.conn = TRUE]
         /\ grant.kind \in SignInSteps =>
              /\ c.tok = call.tok /\ c.ses = NewSession(grant) /\ c.news = {"login"}
         /\ grant.kind \notin {"refresh", "connection"} \cup SignInSteps =>
              c.tok = call.tok /\ c.ses = call.ses /\ c.news = call.news
<1>1. /\ call # NoCall /\ call.todo # <<>> /\ grant \in Grant
      /\ grant.kind = KindOf(Head(call.todo)) /\ Head(call.todo) \in GrantSteps
      /\ current \in 1..MaxRotations + 1
  BY DEF Inv, TypeOK, GrantTypeOK, GrantFits, Granting
<1>2. /\ call \in Calls /\ CallFits(call) /\ Next1(call) \in Calls
      /\ Head(call.todo) \in StepsOf(call.op)
      /\ call.ses # NoSession => call.ses \in Session
  BY <1>1, CallKnown
<1> DEFINE n == Next1(call)
<1>3. /\ n \in Calls /\ n.op = call.op /\ n.ses = call.ses /\ n.news = call.news
      /\ n.tok = call.tok /\ n.shown = call.shown
      /\ n.target = call.target /\ n.todo = Tail(call.todo) /\ call.target \in Targets
  BY <1>1, <1>2 DEF Next1, Calls
<1> HIDE DEF n
<1>4. CASE grant.kind = "refresh"
  <2> DEFINE new == Refreshed(call.ses, call.target, grant)
             keep == IF call.op = "fetch" THEN call.ses ELSE new
             tok  == new.tok[call.target]
  <2>1. call.op \notin {"signin", "exchange", "ciba"} /\ call.ses \in Session
    BY <1>1, <1>2, <1>4 DEF KindOf, StepsOf, SignInSteps, CallFits
  <2>2. tok = NewToken(grant, TRUE)
    BY <1>3, <2>1 DEF Refreshed, Session
  <2>3. c = [n EXCEPT !.ses = keep, !.tok = tok, !.news = {call.target}]
    BY <1>3, <1>4 DEF Granted, n
  <2> HIDE DEF new, keep, tok
  <2>4. /\ c.op = n.op /\ c.todo = n.todo /\ c.shown = n.shown /\ c.ses = keep
        /\ c.tok = tok /\ c.news = {call.target}
    BY <1>3, <2>3 DEF Calls
  <2> QED BY <1>3, <1>4, <2>1, <2>2, <2>4 DEF keep, new, SignInSteps
<1>5. CASE grant.kind = "connection"
  <2> DEFINE new == [call.ses EXCEPT !.conn = TRUE]
  <2>1. call.op = "connection" /\ call.ses \in Session
    BY <1>1, <1>2, <1>5 DEF KindOf, StepsOf, SignInSteps, CallFits
  <2>2. c = [n EXCEPT !.ses.conn = TRUE, !.news = {"connection"}]
    BY <1>5 DEF Granted, n
  <2>3. c = [n EXCEPT !.ses = new, !.news = {"connection"}]
    BY <1>3, <2>2 DEF Calls
  <2> HIDE DEF new
  <2>4. /\ c.op = n.op /\ c.todo = n.todo /\ c.shown = n.shown /\ c.ses = new
        /\ c.tok = n.tok
    BY <1>3, <2>3 DEF Calls
  <2> QED BY <1>3, <1>5, <2>1, <2>4 DEF new, SignInSteps
<1>6. CASE grant.kind \in SignInSteps
  <2> DEFINE new == NewSession(grant)
  <2>1. c = [n EXCEPT !.ses = new, !.news = {"login"}]
    BY <1>6 DEF Granted, SignInSteps, n
  <2> HIDE DEF new
  <2>2. /\ c.op = n.op /\ c.todo = n.todo /\ c.shown = n.shown /\ c.ses = new
        /\ c.tok = n.tok /\ c.news = {"login"}
    BY <1>3, <2>1 DEF Calls
  <2> QED BY <1>3, <1>6, <2>2 DEF new, SignInSteps
<1>7. CASE grant.kind \notin {"refresh", "connection"} \cup SignInSteps
  <2>1. c = n
    BY <1>7 DEF Granted, SignInSteps, n
  <2> QED BY <1>3, <1>7, <2>1
<1> QED BY <1>4, <1>5, <1>6, <1>7

-----------------------------------------------------------------------------
(* The tokens that are presented.                                          *)

\* A token's type was stored, but for a login by redirect; only with a key pair
\* is a token bound.
TokenTyped(tok) ==
    tok # NoToken => (tok.typed \/ tok.redirect) /\ (tok.bound => dpop = "on")

TokensTyped(s) == s # NoSession => \A t \in Targets : TokenTyped(s.tok[t])

\* A token is had before it is presented, which is done last, but for saving.
HasToken(c) ==
    \/ c.tok # NoToken
    \/ c.todo # <<>> /\ Head(c.todo) = "token"
    \/ c.todo \in Seq(Steps \ {"present"})

PresentsLast(todo) ==
    \A i \in 1..Len(todo) : todo[i] = "present" =>
        \A j \in i + 1..Len(todo) : todo[j] = "save"

\* So the token that was shown is the one the call still has.
ShownFits(c) ==
    c.shown # "none" =>
        /\ c.todo \in Seq({"save"}) /\ c.tok # NoToken
        /\ ~Typeless(c) /\ ~c.tok.redirect => (c.shown = "proof" <=> c.tok.bound)

CallPresents(c) ==
    /\ TokensTyped(c.ses) /\ TokenTyped(c.tok)
    /\ HasToken(c) /\ PresentsLast(c.todo) /\ ShownFits(c)

RequestTyped(q) == TokensTyped(q.reads) /\ TokensTyped(q.out) /\ TokensTyped(q.fetcher.ses)

GrantBound(g) == g # NoGrant => (g.proof => dpop = "on")

ProofInv ==
    /\ TokensTyped(browser)
    /\ request # NoRequest => RequestTyped(request)
    /\ call # NoCall => CallPresents(call)
    /\ GrantBound(grant)

\* Plans: what is left of one, one that is given up, one begun again.
LEMMA Plans ==
  ASSUME NEW todo \in Seq(Steps)
  PROVE  /\ PresentsLast(<<>>) /\ PresentsLast(<<"keep">>)
         /\ PresentsLast(todo) => PresentsLast(<<"token">> \o todo)
         /\ PresentsLast(todo) /\ todo # <<>> => PresentsLast(Tail(todo))
         /\ PresentsLast(todo) /\ todo # <<>> /\ Head(todo) = "present" =>
              Tail(todo) \in Seq({"save"})
<1>1. PresentsLast(<<>>) /\ PresentsLast(<<"keep">>)
  BY DEF PresentsLast
<1>2. ASSUME PresentsLast(todo)
      PROVE  PresentsLast(<<"token">> \o todo)
  <2> DEFINE more == <<"token">> \o todo
  <2>1. /\ Len(more) = Len(todo) + 1 /\ Len(todo) \in Nat /\ more[1] = "token"
        /\ \A i \in 2..Len(more) : more[i] = todo[i - 1]
    OBVIOUS
  <2> HIDE DEF more
  <2>2. ASSUME NEW i \in 1..Len(more), more[i] = "present", NEW j \in i + 1..Len(more)
        PROVE  more[j] = "save"
    <3>1. i # 1
      BY <2>1, <2>2
    <3>2. i - 1 \in 1..Len(todo) /\ j - 1 \in (i - 1) + 1..Len(todo)
      BY <2>1, <2>2, <3>1
    <3>3. todo[i - 1] = "present" /\ more[j] = todo[j - 1]
      BY <2>1, <2>2, <3>1, <3>2
    <3> QED BY <1>2, <3>2, <3>3 DEF PresentsLast
  <2> QED BY <2>2 DEF PresentsLast, more
<1>3. ASSUME PresentsLast(todo), todo # <<>>
      PROVE  /\ PresentsLast(Tail(todo))
             /\ Head(todo) = "present" => Tail(todo) \in Seq({"save"})
  <2> DEFINE rest == Tail(todo)
  <2>1. /\ rest \in Seq(Steps) /\ Len(rest) = Len(todo) - 1 /\ Len(rest) \in Nat
        /\ \A i \in 1..Len(rest) : rest[i] = todo[i + 1]
        /\ Head(todo) = todo[1] /\ Len(todo) \in Nat
    BY <1>3
  <2> HIDE DEF rest
  <2>2. PresentsLast(rest)
    <3> SUFFICES ASSUME NEW i \in 1..Len(rest), rest[i] = "present",
                        NEW j \in i + 1..Len(rest)
                 PROVE  rest[j] = "save"
      BY DEF PresentsLast
    <3>1. i + 1 \in 1..Len(todo) /\ j + 1 \in (i + 1) + 1..Len(todo)
      BY <2>1
    <3>2. todo[i + 1] = "present" /\ rest[j] = todo[j + 1]
      BY <2>1
    <3> QED BY <1>3, <3>1, <3>2 DEF PresentsLast
  <2>3. ASSUME Head(todo) = "present"
        PROVE  rest \in Seq({"save"})
    <3>1. \A i \in 1..Len(rest) : rest[i] = "save"
      <4> TAKE i \in 1..Len(rest)
      <4>1. 1 \in 1..Len(todo) /\ i + 1 \in 1 + 1..Len(todo)
        BY <2>1
      <4> QED BY <1>3, <2>1, <2>3, <4>1 DEF PresentsLast
    <3>2. /\ rest = [i \in 1..Len(rest) |-> rest[i]] /\ Len(rest) \in Nat
      BY <2>1
    <3> QED BY <3>1, <3>2
  <2> QED BY <2>2, <2>3 DEF rest
<1> QED BY <1>1, <1>2, <1>3

\* Tokens of a grant are typed and bound as they should be.
LEMMA NewTokenTyped ==
  ASSUME NEW g \in Grant, g # NoGrant, GrantBound(g)
  PROVE  /\ TokenTyped(NewToken(g, TRUE)) /\ NewToken(g, TRUE) # NoToken
         /\ TokenTyped(NewToken(g, g.kind # "code"))
<1>1. \A b \in BOOLEAN : NewToken(g, b) \in Token /\ NewToken(g, b).typed = b
                         /\ NewToken(g, b).bound = g.proof
                         /\ NewToken(g, b).redirect = (g.kind = "code")
  BY DEF NewToken, Token, Grant
<1>2. (g.kind # "code") \in BOOLEAN
  OBVIOUS
<1>3. NewToken(g, TRUE) # NoToken
  BY <1>1, ServerCallsAssumption
<1> QED BY <1>1, <1>2, <1>3 DEF TokenTyped, GrantBound

\* So are those of a session that a grant has left.
LEMMA GrantedTyped ==
  ASSUME NEW g \in Grant, g # NoGrant, GrantBound(g)
  PROVE  /\ TokensTyped(NewSession(g))
         /\ \A s \in Session, t \in Targets :
              TokensTyped(s) => TokensTyped(Refreshed(s, t, g))
         /\ \A s \in Session : TokensTyped(s) => TokensTyped([s EXCEPT !.conn = TRUE])
         /\ \A s \in Session, b \in BOOLEAN :
              TokensTyped(s) => TokensTyped([s EXCEPT !.data = b])
<1>1. TokensTyped(NewSession(g))
  <2>1. \A t \in Targets : NewSession(g).tok[t] \in {NewToken(g, g.kind # "code"), NoToken}
    BY DEF NewSession
  <2> QED BY <2>1, NewTokenTyped DEF TokensTyped, TokenTyped
<1>2. ASSUME NEW s \in Session, NEW t \in Targets, TokensTyped(s)
      PROVE  TokensTyped(Refreshed(s, t, g))
  <2>1. \A u \in Targets : Refreshed(s, t, g).tok[u] \in {NewToken(g, TRUE), s.tok[u]}
    BY DEF Refreshed, Session
  <2>2. s # NoSession
    BY ServerCallsAssumption
  <2>3. \A u \in Targets : TokenTyped(s.tok[u])
    BY <1>2, <2>2 DEF TokensTyped
  <2>4. TokenTyped(NewToken(g, TRUE))
    BY NewTokenTyped
  <2>5. \A u \in Targets : TokenTyped(Refreshed(s, t, g).tok[u])
    BY <2>1, <2>3, <2>4
  <2> QED BY <2>5 DEF TokensTyped
<1>3. \A s \in Session, b \in BOOLEAN :
        /\ s # NoSession /\ [s EXCEPT !.conn = TRUE].tok = s.tok
        /\ [s EXCEPT !.data = b].tok = s.tok
  BY ServerCallsAssumption DEF Session
<1> QED BY <1>1, <1>2, <1>3 DEF TokensTyped

\* The parts of the invariant after a step that leaves the keys as they are.
LEMMA ProofParts ==
  ASSUME UNCHANGED dpop, TokensTyped(browser'),
         request' # NoRequest => RequestTyped(request'),
         call' # NoCall =>
           /\ TokensTyped(call'.ses) /\ TokenTyped(call'.tok)
           /\ HasToken(call') /\ PresentsLast(call'.todo) /\ ShownFits(call)',
         GrantBound(grant')
  PROVE  ProofInv'
<1>1. TokensTyped(browser)' /\ GrantBound(grant)'
  BY DEF TokensTyped, TokenTyped, GrantBound
<1>2. request' # NoRequest => RequestTyped(request)'
  BY DEF RequestTyped, TokensTyped, TokenTyped
<1>3. call' # NoCall => CallPresents(call)'
  BY DEF CallPresents, TokensTyped, TokenTyped, HasToken, PresentsLast
<1> QED BY <1>1, <1>2, <1>3 DEF ProofInv

\* A step of a call that has shown nothing yet: it may get a token.
LEMMA StepOn ==
  ASSUME NEW c \in Calls, NEW d, c.todo # <<>>, Head(c.todo) # "present",
         HasToken(c), PresentsLast(c.todo),
         d.todo = Tail(c.todo),
         Head(c.todo) = "token" => d.tok # NoToken,
         c.tok # NoToken => d.tok # NoToken
  PROVE  HasToken(d) /\ PresentsLast(d.todo)
<1>1. c.todo \in Seq(Steps)
  BY DEF Calls
<1>2. PresentsLast(d.todo)
  BY <1>1, Plans
<1>3. c.todo \in Seq(Steps \ {"present"}) => Tail(c.todo) \in Seq(Steps \ {"present"})
  BY StepSequences
<1> QED BY <1>2, <1>3 DEF HasToken

\* A call that needs a grant has shown no token.
LEMMA NothingShown ==
  ASSUME NEW c, c.todo # <<>>, Head(c.todo) # "save", ShownFits(c)
  PROVE  c.shown = "none"
<1>1. c.todo \in Seq({"save"}) => Head(c.todo) = "save"
  <2> SUFFICES ASSUME c.todo \in Seq({"save"}) PROVE Head(c.todo) = "save"
    OBVIOUS
  <2>1. Head(c.todo) \in {"save"}
    BY StepSequences
  <2> QED BY <2>1
<1> QED BY <1>1 DEF ShownFits

\* The programs that present a token, and those that do not.
Presenting == {<<"token", "present">>, <<"token", "present", "save">>,
               <<"token", "save", "present">>}
Silent == {<<"token", "save">>, <<"connection", "save">>, <<"actor", "transfer", "save">>,
           <<"revoke">>, <<"exchange">>, <<"ciba">>, <<"save">>, <<"copy">>}
            \cup {<<how, "save">> : how \in SignInSteps}

LEMMA ProgramsPresent ==
  ASSUME NEW c, c.todo \in Presenting \cup Silent
  PROVE  HasToken(c) /\ PresentsLast(c.todo)
<1>1. CASE c.todo \in Presenting
  <2>1. c.todo # <<>> /\ Head(c.todo) = "token"
    BY <1>1 DEF Presenting
  <2>2. PresentsLast(<<"token", "present">>)
    BY DEF PresentsLast
  <2>3. PresentsLast(<<"token", "present", "save">>)
    BY DEF PresentsLast
  <2>4. PresentsLast(<<"token", "save", "present">>)
    BY DEF PresentsLast
  <2> QED BY <1>1, <2>1, <2>2, <2>3, <2>4 DEF Presenting, HasToken
<1>2. CASE c.todo \in Silent
  <2> DEFINE Others == Steps \ {"present"}
  <2>1. {"token", "save", "copy", "connection", "actor", "transfer", "revoke", "exchange",
         "ciba"} \cup SignInSteps \subseteq Others
    BY DEF Steps, GrantSteps, GrantKinds, OnResponse, OnError, WithoutProof, SignInSteps
  <2>2. "present" \notin Others
    OBVIOUS
  <2> HIDE DEF Others
  <2>3. c.todo \in Seq(Others)
    <3>1. \A x, y, z \in Others : <<x>> \in Seq(Others) /\ <<x, y>> \in Seq(Others)
                                  /\ <<x, y, z>> \in Seq(Others)
      OBVIOUS
    <3>2. \A how \in SignInSteps : <<how, "save">> \in Seq(Others)
      BY <2>1, <3>1
    <3> QED BY <1>2, <2>1, <3>1, <3>2 DEF Silent
  <2>4. PresentsLast(c.todo)
    <3>1. \A i \in 1..Len(c.todo) : c.todo[i] \in Others
      BY <2>3
    <3> QED BY <2>2, <3>1 DEF PresentsLast
  <2> QED BY <2>3, <2>4 DEF HasToken, Others
<1> QED BY <1>1, <1>2

\* Steps put one after another.
LEMMA Joined ==
  ASSUME NEW S, NEW a \in S, NEW b \in S, NEW c \in S
  PROVE  /\ <<a>> \o <<b>> = <<a, b>>
         /\ <<a>> \o <<b, c>> = <<a, b, c>>
         /\ <<a>> \o <<b>> \o <<c>> = <<a, b, c>>
<1> DEFINE A == <<a>>
           B == <<b>>
           C == <<c>>
           AB == <<a, b>>
           BC == <<b, c>>
           ABC == <<a, b, c>>
<1>1. /\ {A, B, C, AB, BC, ABC} \subseteq Seq(S)
      /\ Len(A) = 1 /\ Len(B) = 1 /\ Len(C) = 1
      /\ Len(AB) = 2 /\ Len(BC) = 2 /\ Len(ABC) = 3
      /\ A[1] = a /\ B[1] = b /\ C[1] = c /\ AB[1] = a /\ AB[2] = b
      /\ BC[1] = b /\ BC[2] = c /\ ABC[1] = a /\ ABC[2] = b /\ ABC[3] = c
  OBVIOUS
<1>2. ASSUME NEW s \in Seq(S), NEW t \in Seq(S), NEW u \in Seq(S),
             Len(s) + Len(t) = Len(u),
             \A i \in 1..Len(u) : u[i] = IF i <= Len(s) THEN s[i] ELSE t[i - Len(s)]
      PROVE  s \o t = u
  <2>1. /\ s \o t \in Seq(S) /\ Len(s \o t) = Len(s) + Len(t)
        /\ \A i \in 1..Len(s) + Len(t) :
             (s \o t)[i] = IF i <= Len(s) THEN s[i] ELSE t[i - Len(s)]
    BY ConcatProperties
  <2> QED BY <1>2, <2>1, SeqEqual
<1> HIDE DEF A, B, C, AB, BC, ABC
<1>3. A \o B = AB
  <2>1. A \in Seq(S) /\ B \in Seq(S) /\ AB \in Seq(S) /\ Len(A) + Len(B) = Len(AB)
    BY <1>1
  <2>2. \A i \in 1..Len(AB) : AB[i] = IF i <= Len(A) THEN A[i] ELSE B[i - Len(A)]
    BY <1>1
  <2> QED BY <1>2, <2>1, <2>2
<1>4. A \o BC = ABC
  <2>1. A \in Seq(S) /\ BC \in Seq(S) /\ ABC \in Seq(S) /\ Len(A) + Len(BC) = Len(ABC)
    BY <1>1
  <2>2. \A i \in 1..Len(ABC) : ABC[i] = IF i <= Len(A) THEN A[i] ELSE BC[i - Len(A)]
    BY <1>1
  <2> QED BY <1>2, <2>1, <2>2
<1>5. AB \o C = ABC
  <2>1. AB \in Seq(S) /\ C \in Seq(S) /\ ABC \in Seq(S) /\ Len(AB) + Len(C) = Len(ABC)
    BY <1>1
  <2>2. \A i \in 1..Len(ABC) : ABC[i] = IF i <= Len(AB) THEN AB[i] ELSE C[i - Len(AB)]
    BY <1>1
  <2> QED BY <1>2, <2>1, <2>2
<1> QED BY <1>3, <1>4, <1>5 DEF A, B, C, AB, BC, ABC

\* Every call follows one of them, and begins without a token.
LEMMA CallsBegin ==
  ASSUME request \in Request, NEW c \in CallsOf(request.adapter, request.reads)
  PROVE  /\ c.todo \in Presenting \cup Silent /\ c.tok = NoToken /\ c.shown = "none"
         /\ \/ c.ses \in {NoSession, request.reads, request.fetcher.ses}
            \/ request.reads # NoSession /\ c.ses = [request.reads EXCEPT !.data = TRUE]
<1> DEFINE s == request.reads
           f == request.fetcher
           P == Presenting \cup Silent
           Begins(d, q) == d.todo \in P /\ d.tok = NoToken /\ d.shown = "none" /\ d.ses = q
<1>2. /\ <<"token">> \o <<"save">> = <<"token", "save">>
      /\ <<"token">> \o <<"present">> = <<"token", "present">>
      /\ <<"token">> \o <<"present", "save">> = <<"token", "present", "save">>
      /\ <<"token">> \o <<"save">> \o <<"present">> = <<"token", "save", "present">>
      /\ <<"token">> \o <<"present">> \o <<"save">> = <<"token", "present", "save">>
      /\ <<"connection">> \o <<"save">> = <<"connection", "save">>
      /\ <<"actor">> \o <<"transfer">> \o <<"save">> = <<"actor", "transfer", "save">>
  <2>1. {"token", "save", "present", "connection", "actor", "transfer"} \subseteq Steps
    BY DEF Steps, GrantSteps, GrantKinds, OnResponse, OnError
  <2> HIDE DEF f
  <2> QED BY <2>1, Joined
<1>4. /\ {<<"token", "save">>, <<"connection", "save">>, <<"actor", "transfer", "save">>,
          <<"revoke">>, <<"exchange">>, <<"ciba">>, <<"save">>, <<"copy">>,
          <<"token", "present">>,
          <<"token", "present", "save">>, <<"token", "save", "present">>} \subseteq P
      /\ \A how \in SignInSteps : <<how, "save">> \in P
  BY DEF Silent, Presenting
<1> HIDE DEF P
<1>1. \A op, q, t, todo : todo \in P => Begins(Call(op, q, t, todo), q)
  BY DEF Call
<1> HIDE DEF Begins, s, f
<1>5. \A t : Begins(executeGetAccessToken(s, t), s) /\ Begins(handleAccessToken(s, t), s)
  BY <1>1, <1>2, <1>4 DEF executeGetAccessToken, handleAccessToken, getTokenSet
<1>6. /\ Begins(getAccessTokenForConnection(s), s)
      /\ Begins(requestSessionTransferToken(s), s) /\ Begins(revokeRefreshToken(s), s)
  BY <1>1, <1>2, <1>4
     DEF getAccessTokenForConnection, requestSessionTransferToken, revokeRefreshToken,
         getConnectionTokenSet, resolveActorFromSession, transferExchange, revokeToken
<1>7. \A a : /\ Begins(connectAccount(s, a), s) /\ Begins(handleConnectAccount(s, a), s)
             /\ Begins(completeConnectAccount(s, a), s)
             /\ Begins(handlePasskeyEnrollment(s, a), s)
  BY <1>1, <1>2, <1>4
     DEF connectAccount, handleConnectAccount, completeConnectAccount,
         handlePasskeyEnrollment, getTokenSet, createConnectAccountTicket
<1>8. Begins(customTokenExchange, NoSession) /\ Begins(getTokenByBackchannelAuth, NoSession)
  BY <1>1, <1>4
     DEF customTokenExchange, getTokenByBackchannelAuth, tokenExchange,
         backchannelAuthentication
<1>9. \A how \in SignInSteps : Begins(SignIn(how), NoSession)
  BY <1>1, <1>4 DEF SignIn
<1>10. Begins(handleCallback, NoSession)
  BY <1>1, <1>4 DEF handleCallback, SignInSteps
<1>11. \A res : Begins(updateSession(s, res), [s EXCEPT !.data = TRUE])
  <2> TAKE res
  <2> DEFINE q == [s EXCEPT !.data = TRUE]
             todo == <<toNextResponse(res)>>
  <2>1. todo \in P
    BY <1>4 DEF toNextResponse
  <2> HIDE DEF q, todo
  <2>2. Begins(Call("update", q, "login", todo), q)
    BY <1>1, <2>1
  <2>3. Begins([Call("update", q, "login", todo) EXCEPT !.news = {"data"}], q)
    BY <2>2 DEF Call, Begins
  <2> QED BY <2>3 DEF updateSession, q, todo
<1>12. \A a \in Audiences : Begins(handleProxy(s, a), s)
  <2> TAKE a \in Audiences
  <2>1. Begins(Call("proxy", s, a, getTokenSet \o <<"present", "save">>), s)
    BY <1>1, <1>2, <1>4 DEF getTokenSet
  <2> QED BY <2>1 DEF handleProxy, Call, Begins
<1>13. \A t : Begins(fetchWithAuth(f, t), f.ses)
  <2> TAKE t
  <2>1. Begins(Call("fetch", f.ses, t, getTokenSet \o <<"present">>), f.ses)
    BY <1>1, <1>2, <1>4 DEF getTokenSet
  <2> QED BY <2>1 DEF fetchWithAuth, Call, Begins
<1>14. \/ c \in SignIns
       \/ c \in RouteCalls(s)
       \/ s # NoSession /\ c \in MethodCalls(request.adapter, s)
       \/ c \in {customTokenExchange, getTokenByBackchannelAuth}
       \/ \E t \in Targets : c = fetchWithAuth(f, t)
  BY DEF CallsOf, s, f
<1>15. CASE c \in SignIns
  BY <1>9, <1>10, <1>15 DEF SignIns, SignInSteps, Begins, P
<1>16. CASE c \in RouteCalls(s)
  BY <1>5, <1>7, <1>12, <1>16 DEF RouteCalls, ProxyCalls, Begins, P, s
<1>17. CASE s # NoSession /\ c \in MethodCalls(request.adapter, s)
  <2>1. Begins(c, s) \/ Begins(c, [s EXCEPT !.data = TRUE])
    BY <1>5, <1>6, <1>7, <1>11, <1>17 DEF MethodCalls
  <2> QED BY <1>17, <2>1 DEF Begins, P, s
<1>18. CASE c \in {customTokenExchange, getTokenByBackchannelAuth}
  BY <1>8, <1>18 DEF Begins, P
<1>19. CASE \E t \in Targets : c = fetchWithAuth(f, t)
  BY <1>13, <1>19 DEF Begins, P, f
<1> QED BY <1>14, <1>15, <1>16, <1>17, <1>18, <1>19

\* Nothing is held at first, and no call made.
LEMMA ProofInit == Init => ProofInv
  BY DEF Init, GrantInit, ProofInv, TokensTyped, GrantBound

\* A request reads the session that the browser holds.
LEMMA NewRequestProof ==
  ASSUME Inv, ProofInv, NEW adapter \in Adapters, NewRequest(adapter)
  PROVE  ProofInv'
<1>1. /\ request'.reads = browser /\ request'.out = NoSession
      /\ request'.fetcher.ses = NoSession
      /\ call = NoCall /\ UNCHANGED <<browser, call, proxyHandles, lost, grantVars>>
  BY DEF NewRequest, Inv, TypeOK
<1>2. RequestTyped(request')
  BY <1>1 DEF RequestTyped, TokensTyped, ProofInv
<1> QED BY <1>1, <1>2, ProofParts DEF ProofInv, grantVars

\* A call begins with the session of its request, or its fetcher's.
LEMMA BeginProof ==
  ASSUME Inv, ProofInv, Begin
  PROVE  ProofInv'
<1>1. /\ call = NoCall /\ request # NoRequest /\ request \in Request
      /\ call' \in CallsOf(request.adapter, request.reads)
      /\ request' = [request EXCEPT !.left = @ - 1]
      /\ UNCHANGED <<browser, proxyHandles, grantVars>>
  BY DEF Begin, getSession, Inv, TypeOK
<1>2. /\ request'.reads = request.reads /\ request'.out = request.out
      /\ request'.fetcher = request.fetcher
  BY <1>1 DEF Request
<1>3. RequestTyped(request) /\ RequestTyped(request')
  BY <1>1, <1>2 DEF ProofInv, RequestTyped
<1>4. /\ call'.todo \in Presenting \cup Silent /\ call'.tok = NoToken
      /\ call'.shown = "none"
      /\ \/ call'.ses \in {NoSession, request.reads, request.fetcher.ses}
         \/ request.reads # NoSession /\ call'.ses = [request.reads EXCEPT !.data = TRUE]
  BY <1>1, CallsBegin
<1>5. TokensTyped(call'.ses)
  <2>1. CASE call'.ses \in {NoSession, request.reads, request.fetcher.ses}
    BY <1>3, <2>1 DEF RequestTyped, TokensTyped
  <2>2. CASE request.reads # NoSession /\ call'.ses = [request.reads EXCEPT !.data = TRUE]
    <3>1. request.reads \in Session
      BY <1>1, <2>2 DEF Request, MaybeSession
    <3>2. call'.ses.tok = request.reads.tok
      BY <2>2, <3>1 DEF Session
    <3> QED BY <1>3, <2>2, <3>2 DEF RequestTyped, TokensTyped
  <2> QED BY <1>4, <2>1, <2>2
<1>6. HasToken(call') /\ PresentsLast(call'.todo)
  BY <1>4, ProgramsPresent
<1>7. TokenTyped(call'.tok) /\ ShownFits(call)'
  BY <1>4 DEF TokenTyped, ShownFits
<1> QED BY <1>1, <1>3, <1>5, <1>6, <1>7, ProofParts DEF ProofInv, grantVars

\* A fetcher is made with the session of the request, and keeps it.
LEMMA CreateFetcherProof ==
  ASSUME Inv, ProofInv, createFetcher
  PROVE  ProofInv'
<1>1. PICK f \in fetcherFactory(request.reads) : request' = [request EXCEPT !.fetcher = f]
  BY DEF createFetcher, getSession
<1>2. /\ call = NoCall /\ request # NoRequest /\ request \in Request
      /\ UNCHANGED <<browser, call, proxyHandles, lost, grantVars>>
  BY DEF createFetcher, Inv, TypeOK
<1>3. f.ses = request.reads
  BY DEF fetcherFactory
<1>4. /\ request'.reads = request.reads /\ request'.out = request.out
      /\ request'.fetcher = f
  BY <1>1, <1>2 DEF Request
<1>5. RequestTyped(request')
  BY <1>2, <1>3, <1>4 DEF ProofInv, RequestTyped
<1> QED BY <1>2, <1>5, ProofParts DEF ProofInv, grantVars

\* At the end of a call handles change, and no session.
LEMMA EndCallProof ==
  ASSUME Inv, ProofInv, EndCall
  PROVE  ProofInv'
<1>1. /\ call # NoCall /\ request # NoRequest /\ request \in Request /\ call' = NoCall
      /\ UNCHANGED <<browser, grantVars>>
      /\ \/ request' = request
         \/ request' = [request EXCEPT !.fetcher.handle = call.handle,
                                       !.fetcher.refreshed = @ \/ call.news # {}]
  BY DEF EndCall, Inv, TypeOK
<1>2. /\ request'.reads = request.reads /\ request'.out = request.out
      /\ request'.fetcher.ses = request.fetcher.ses
  BY <1>1 DEF Request
<1>3. RequestTyped(request')
  BY <1>1, <1>2 DEF ProofInv, RequestTyped
<1> QED BY <1>1, <1>3, ProofParts DEF ProofInv, grantVars

\* What the browser holds next is what was saved, or as it was.
LEMMA OverProof ==
  ASSUME Inv, ProofInv, Respond \/ Fail
  PROVE  ProofInv'
<1>1. /\ request # NoRequest /\ request \in Request /\ request' = NoRequest
      /\ call' = NoCall /\ UNCHANGED dpop /\ (grant' = grant \/ grant' = NoGrant)
  BY DEF Respond, Fail, Inv, TypeOK, grantVars
<1>2. TokensTyped(browser')
  <2>1. CASE Fail \/ request.out = NoSession
    BY <2>1 DEF Respond, Fail, ProofInv
  <2>2. CASE Respond /\ request.out # NoSession
    <3>1. request.out \in Session /\ browser' = [request.out EXCEPT !.data = FALSE]
      BY <1>1, <2>2 DEF Respond, Request, MaybeSession
    <3>2. browser'.tok = request.out.tok
      BY <3>1 DEF Session
    <3> QED BY <1>1, <2>2, <3>2 DEF ProofInv, RequestTyped, TokensTyped
  <2> QED BY <2>1, <2>2
<1>3. GrantBound(grant')
  BY <1>1 DEF ProofInv, GrantBound
<1> QED BY <1>1, <1>2, <1>3, ProofParts

\* A new grant has a proof if there is a key pair.
LEMMA AskServerProof ==
  ASSUME Inv, ProofInv, AskServer
  PROVE  ProofInv'
<1>1. /\ UNCHANGED <<browser, request, call, dpop>>
      /\ grant'.proof => dpop = "on"
  BY DEF AskServer, NewGrant
<1>2. GrantBound(grant')
  BY <1>1 DEF GrantBound
<1>3. call # NoCall => ShownFits(call)'
  BY <1>1 DEF ProofInv, CallPresents, ShownFits, Typeless
<1> QED BY <1>1, <1>2, <1>3, ProofParts DEF ProofInv, CallPresents

\* An answer leaves the proof of a grant as it is.
LEMMA ServerAnswersProof ==
  ASSUME Inv, ProofInv, ServerAnswers
  PROVE  ProofInv'
<1>1. /\ UNCHANGED <<browser, request, call, dpop>> /\ grant # NoGrant /\ grant \in Grant
      /\ withDPoPNonceRetry
  BY DEF ServerAnswers, withDPoPNonceRetry, Inv, TypeOK, GrantTypeOK
<1>2. grant'.proof = grant.proof
  BY <1>1 DEF withDPoPNonceRetry, Answered, Grant
<1>3. GrantBound(grant')
  BY <1>1, <1>2 DEF ProofInv, GrantBound
<1>4. call # NoCall => ShownFits(call)'
  BY <1>1 DEF ProofInv, CallPresents, ShownFits, Typeless
<1> QED BY <1>1, <1>3, <1>4, ProofParts DEF ProofInv, CallPresents

\* Between requests tokens expire, sessions go and nonces change.
LEMMA BetweenProof ==
  ASSUME Inv, ProofInv, Expire \/ Logout \/ NewNonce
  PROVE  ProofInv'
<1>1. UNCHANGED <<request, call, dpop, grant>>
  BY DEF Expire, Logout, NewNonce, NextNonce, grantVars
<1>2. TokensTyped(browser')
  <2>1. CASE Logout
    BY <2>1 DEF Logout, TokensTyped
  <2>2. CASE NewNonce
    BY <2>2 DEF NewNonce, ProofInv
  <2>3. CASE Expire
    <3>1. browser \in Session /\ browser # NoSession
      BY <2>3 DEF Expire, Inv, TypeOK, MaybeSession
    <3>2. CASE browser' = [browser EXCEPT !.idLive = FALSE]
               \/ browser' = [browser EXCEPT !.conn = FALSE]
      <4>1. browser'.tok = browser.tok
        BY <3>1, <3>2 DEF Session
      <4> QED BY <3>1, <4>1 DEF ProofInv, TokensTyped
    <3>3. ASSUME NEW t \in Targets, browser.tok[t] # NoToken,
                 browser' = [browser EXCEPT !.tok[t].live = FALSE]
          PROVE  TokensTyped(browser')
      <4> DEFINE old == browser.tok[t]
                 new == [old EXCEPT !.live = FALSE]
      <4>1. old \in Token
        BY <3>1, <3>3 DEF Session, MaybeToken
      <4>2. new.typed = old.typed /\ new.redirect = old.redirect /\ new.bound = old.bound
        BY <4>1 DEF Token
      <4>3. \A u \in Targets : browser'.tok[u] = IF u = t THEN new ELSE browser.tok[u]
        BY <3>1, <3>3 DEF Session
      <4>4. \A u \in Targets : TokenTyped(browser.tok[u])
        BY <3>1 DEF ProofInv, TokensTyped
      <4>5. TokenTyped(new)
        BY <3>3, <4>2, <4>4 DEF TokenTyped
      <4> HIDE DEF new
      <4>6. \A u \in Targets : TokenTyped(browser'.tok[u])
        BY <4>3, <4>4, <4>5
      <4> QED BY <4>6 DEF TokensTyped
    <3> QED BY <2>3, <3>2, <3>3 DEF Expire
  <2> QED BY <2>1, <2>2, <2>3
<1>3. call # NoCall => ShownFits(call)'
  BY <1>1 DEF ProofInv, CallPresents, ShownFits, Typeless
<1> QED BY <1>1, <1>2, <1>3, ProofParts DEF ProofInv, CallPresents

\* A call that is given up, or has only its session to keep.
LEMMA GivenUpPresents ==
  ASSUME NEW d, d.todo = <<>> \/ d.todo = <<"keep">>
  PROVE  HasToken(d) /\ PresentsLast(d.todo)
<1>1. <<>> \in Seq(Steps \ {"present"}) /\ <<"keep">> \in Seq(Steps \ {"present"})
  <2>1. "keep" \in Steps \ {"present"}
    BY DEF Steps
  <2> QED BY <2>1
<1>2. <<>> \in Seq(Steps)
  OBVIOUS
<1> QED BY <1>1, <1>2, Plans DEF HasToken

\* Nothing is sent, or the token is in the session.
LEMMA NoGrantProof ==
  ASSUME Inv, ProofInv, NotSent \/ AtHand
  PROVE  ProofInv'
<1>1. /\ call # NoCall /\ call.todo # <<>> /\ grant = NoGrant
      /\ Head(call.todo) \in GrantSteps
      /\ UNCHANGED <<browser, request, proxyHandles, lost, grantVars>>
  BY DEF NotSent, AtHand, Granting
<1>2. /\ call \in Calls /\ CallFits(call) /\ Next1(call) \in Calls
      /\ Head(call.todo) \in StepsOf(call.op)
      /\ call.ses # NoSession => call.ses \in Session
  BY <1>1, CallKnown
<1>3. CallPresents(call)
  BY <1>1 DEF ProofInv
<1>4. /\ Head(call.todo) # "present" /\ Head(call.todo) # "save" /\ Head(call.todo) # "keep"
  BY <1>1 DEF GrantSteps, GrantKinds, OnResponse, OnError, WithoutProof
<1>5. call.shown = "none"
  BY <1>1, <1>3, <1>4, NothingShown DEF CallPresents
<1>6. /\ TokensTyped(call'.ses) /\ TokenTyped(call'.tok) /\ HasToken(call')
      /\ PresentsLast(call'.todo) /\ call'.shown = "none"
  <2>1. CASE NotSent
    <3>1. /\ call'.todo = <<>> /\ call'.ses = call.ses /\ call'.tok = call.tok
          /\ call'.shown = call.shown
      BY <1>2, <2>1 DEF NotSent, Failed, Calls
    <3> QED BY <1>3, <1>5, <3>1, GivenUpPresents DEF CallPresents
  <2>2. CASE AtHand
    <3> DEFINE tok == IF Head(call.todo) = "token" THEN call.ses.tok[call.target]
                      ELSE Next1(call).tok
    <3>1. call' = [Next1(call) EXCEPT !.tok = tok] /\ ~Needs(call, Head(call.todo))
      BY <2>2 DEF AtHand
    <3>2. Next1(call).tok = call.tok /\ call.target \in Targets
      BY <1>2 DEF Next1, Calls
    <3>3. Head(call.todo) = "token" =>
            /\ call.ses \in Session /\ call.ses # NoSession /\ tok # NoToken
            /\ tok = call.ses.tok[call.target]
      <4>1. Head(call.todo) = "token" => call.ses \in Session /\ call.ses # NoSession
        BY <1>2 DEF StepsOf, SignInSteps, CallFits
      <4>2. Head(call.todo) = "token" => Live(call.ses.tok[call.target])
        BY <3>1 DEF Needs
      <4> QED BY <4>1, <4>2 DEF Live
    <3>4. TokenTyped(tok)
      BY <1>3, <3>2, <3>3 DEF CallPresents, TokensTyped
    <3>5. Head(call.todo) # "token" => tok = call.tok
      BY <3>2
    <3> HIDE DEF tok
    <3>6. /\ call'.todo = Tail(call.todo) /\ call'.ses = call.ses /\ call'.tok = tok
          /\ call'.shown = call.shown
      BY <1>2, <3>1 DEF Next1, Calls
    <3>7. /\ Head(call.todo) = "token" => call'.tok # NoToken
          /\ call.tok # NoToken => call'.tok # NoToken
      BY <3>3, <3>5, <3>6
    <3>8. HasToken(call') /\ PresentsLast(call'.todo)
      BY <1>1, <1>2, <1>3, <1>4, <3>6, <3>7, StepOn DEF CallPresents
    <3> QED BY <1>3, <1>5, <3>4, <3>6, <3>8 DEF CallPresents
  <2> QED BY <2>1, <2>2
<1>7. ShownFits(call)'
  BY <1>6 DEF ShownFits
<1> QED BY <1>1, <1>6, <1>7, ProofParts DEF ProofInv, grantVars

\* After its grant a call has the token of the grant, or the one it had.
LEMMA SettleProof ==
  ASSUME Inv, ProofInv, Settle
  PROVE  ProofInv'
<1>1. /\ Granting /\ grant # NoGrant /\ call # NoCall /\ call.todo # <<>>
      /\ Head(call.todo) \in GrantSteps /\ grant' = NoGrant
      /\ UNCHANGED <<browser, request, proxyHandles, dpop, nonce, current>>
  BY DEF Settle, Granting
<1>2. /\ call \in Calls /\ CallFits(call) /\ call.target \in Targets
      /\ grant \in Grant /\ grant.kind = KindOf(Head(call.todo))
  BY <1>1, CallKnown DEF Inv, TypeOK, GrantTypeOK, GrantFits, Calls
<1>3. CallPresents(call) /\ GrantBound(grant)
  BY <1>1 DEF ProofInv
<1>4. /\ Head(call.todo) # "present" /\ Head(call.todo) # "save"
  BY <1>1 DEF GrantSteps, GrantKinds, OnResponse, OnError, WithoutProof
<1>5. call.shown = "none"
  BY <1>1, <1>3, <1>4, NothingShown DEF CallPresents
<1>6. \/ call' = Granted(call, grant)
      \/ call' = [call EXCEPT !.todo = <<"keep">>]
      \/ call' = Failed(call)
  BY DEF Settle
<1>7. /\ TokensTyped(call'.ses) /\ TokenTyped(call'.tok) /\ HasToken(call')
      /\ PresentsLast(call'.todo) /\ call'.shown = "none"
  <2>1. CASE call' = Granted(call, grant)
    <3>1. /\ call'.todo = Tail(call.todo) /\ call'.shown = call.shown
          /\ grant.kind = "refresh" =>
               /\ call.ses \in Session
               /\ call'.tok = NewToken(grant, TRUE)
               /\ call'.ses = IF call.op = "fetch" THEN call.ses
                              ELSE Refreshed(call.ses, call.target, grant)
          /\ grant.kind = "connection" =>
               /\ call.ses \in Session
               /\ call'.tok = call.tok /\ call'.ses = [call.ses EXCEPT !.conn = TRUE]
          /\ grant.kind \in SignInSteps =>
               call'.tok = call.tok /\ call'.ses = NewSession(grant)
          /\ grant.kind \notin {"refresh", "connection"} \cup SignInSteps =>
               call'.tok = call.tok /\ call'.ses = call.ses
      BY <1>1, <2>1, GrantedParts
    <3>2. Head(call.todo) = "token" => grant.kind = "refresh"
      BY <1>2 DEF KindOf
    <3>3. TokenTyped(NewToken(grant, TRUE)) /\ NewToken(grant, TRUE) # NoToken
      BY <1>1, <1>2, <1>3, NewTokenTyped
    <3>4. /\ Head(call.todo) = "token" => call'.tok # NoToken
          /\ call.tok # NoToken => call'.tok # NoToken
          /\ TokenTyped(call'.tok)
      BY <1>3, <3>1, <3>2, <3>3 DEF CallPresents
    <3>5. HasToken(call') /\ PresentsLast(call'.todo)
      BY <1>1, <1>2, <1>3, <1>4, <3>1, <3>4, StepOn DEF CallPresents
    <3>6. TokensTyped(call.ses)
      BY <1>3 DEF CallPresents
    <3>7. TokensTyped(call'.ses)
      BY <1>1, <1>2, <1>3, <3>1, <3>6, GrantedTyped
    <3> QED BY <1>5, <3>1, <3>4, <3>5, <3>7
  <2>2. CASE call' = [call EXCEPT !.todo = <<"keep">>] \/ call' = Failed(call)
    <3>1. /\ call'.todo = <<"keep">> \/ call'.todo = <<>>
          /\ call'.ses = call.ses /\ call'.tok = call.tok /\ call'.shown = call.shown
      BY <1>2, <2>2 DEF Failed, Calls
    <3> QED BY <1>3, <1>5, <3>1, GivenUpPresents DEF CallPresents
  <2> QED BY <1>6, <2>1, <2>2
<1>8. ShownFits(call)'
  BY <1>7 DEF ShownFits
<1>9. GrantBound(grant')
  BY <1>1 DEF GrantBound
<1> QED BY <1>1, <1>7, <1>8, <1>9, ProofParts DEF ProofInv

\* What is shown is a proof if the token is bound, typed and not left without
\* its type.
LEMMA PresentProof ==
  ASSUME Inv, ProofInv, internalFetchWithAuth
  PROVE  ProofInv'
<1> DEFINE how   == IF WithProof(call) THEN "proof" ELSE "bearer"
           shown == [call EXCEPT !.shown = how]
<1>1. /\ call # NoCall /\ call.todo # <<>> /\ Head(call.todo) = "present"
      /\ UNCHANGED <<browser, request, proxyHandles, lost, grantVars>>
  BY DEF internalFetchWithAuth
<1>2. call \in Calls /\ call.todo \in Seq(Steps)
  BY <1>1, CallKnown DEF Calls
<1>3. CallPresents(call)
  BY <1>1 DEF ProofInv
<1>4. call.tok # NoToken
  <2>1. call.todo \in Seq(Steps \ {"present"}) => Head(call.todo) \in Steps \ {"present"}
    BY <1>1, StepSequences
  <2> QED BY <1>1, <1>3, <2>1 DEF CallPresents, HasToken
<1>5. call.shown = "none"
  BY <1>1, <1>3, NothingShown DEF CallPresents
<1>6. /\ shown.op = call.op /\ shown.ses = call.ses /\ shown.tok = call.tok
      /\ shown.todo = call.todo /\ shown.shown = how /\ shown \in Calls
  BY <1>2 DEF Calls
<1>7. /\ Tail(call.todo) \in Seq({"save"}) /\ PresentsLast(Tail(call.todo))
      /\ PresentsLast(<<"token">> \o call.todo)
  BY <1>1, <1>2, <1>3, Plans DEF CallPresents
<1>8. ~Typeless(call) /\ ~call.tok.redirect => (how = "proof" <=> call.tok.bound)
  BY <1>3, <1>4 DEF CallPresents, TokenTyped, WithProof
<1>9. \/ call' = Failed(call) \/ call' = Repeated(call)
      \/ call' = Next1(shown) \/ call' = Failed(shown)
  BY DEF internalFetchWithAuth
<1> HIDE DEF how, shown
<1>10. /\ call'.op = call.op /\ call'.ses = call.ses /\ call'.tok = call.tok
       /\ \/ call'.todo = <<>> /\ call'.shown \in {"none", how}
          \/ call'.todo = Tail(call.todo) /\ call'.shown = how
          \/ /\ call'.todo \in {call.todo, <<"token">> \o call.todo}
             /\ call'.shown = "none"
  <2>1. CASE call' = Failed(call)
    BY <1>2, <1>5, <2>1 DEF Failed, Calls
  <2>2. CASE call' = Failed(shown)
    BY <1>6, <2>2 DEF Failed, Calls
  <2>3. CASE call' = Next1(shown)
    BY <1>6, <2>3 DEF Next1, Calls
  <2>4. CASE call' = Repeated(call)
    <3> DEFINE todo == IF call.op = "connect" THEN call.todo ELSE <<"token">> \o call.todo
    <3>1. call' = [call EXCEPT !.retried = TRUE, !.handle = nonce, !.todo = todo]
      BY <1>2, <2>4 DEF Repeated, Calls
    <3>2. todo \in {call.todo, <<"token">> \o call.todo}
      OBVIOUS
    <3> HIDE DEF todo
    <3>3. /\ call'.op = call.op /\ call'.ses = call.ses /\ call'.tok = call.tok
          /\ call'.todo = todo /\ call'.shown = call.shown
      BY <1>2, <3>1 DEF Calls
    <3> QED BY <1>5, <3>2, <3>3
  <2> QED BY <1>9, <2>1, <2>2, <2>3, <2>4
<1>11. HasToken(call')
  BY <1>4, <1>10 DEF HasToken
<1>12. PresentsLast(call'.todo)
  BY <1>3, <1>7, <1>10, GivenUpPresents DEF CallPresents
<1>13. call'.shown # "none" => call'.todo \in Seq({"save"}) /\ call'.shown = how
  <2>1. <<>> \in Seq({"save"})
    OBVIOUS
  <2> QED BY <1>7, <1>10, <2>1
<1>14. ShownFits(call)'
  <2>1. Typeless(call)' <=> Typeless(call)
    BY <1>1, <1>10 DEF Typeless
  <2> QED BY <1>4, <1>8, <1>10, <1>13, <2>1 DEF ShownFits
<1>15. TokensTyped(call'.ses) /\ TokenTyped(call'.tok)
  BY <1>3, <1>10 DEF CallPresents
<1> QED BY <1>1, <1>11, <1>12, <1>14, <1>15, ProofParts DEF ProofInv, grantVars

\* A session is saved with the tokens the call has in it.
LEMMA SaveProof ==
  ASSUME Inv, ProofInv, Save \/ SaveInCopy
  PROVE  ProofInv'
<1>1. /\ call # NoCall /\ call.todo # <<>> /\ Head(call.todo) \in {"save", "keep", "copy"}
      /\ UNCHANGED <<browser, proxyHandles, lost, grantVars>>
      /\ call' \in {Next1(call), [Next1(call) EXCEPT !.news = {}]}
      /\ request' \in {request, Saved(call.ses, call.news),
                       [request EXCEPT !.reads = ReadNext(call.ses)]}
  BY DEF Save, SaveInCopy
<1>2. call \in Calls /\ request \in Request /\ request # NoRequest
  BY <1>1, CallKnown
<1>3. CallPresents(call) /\ RequestTyped(request)
  BY <1>1, <1>2 DEF ProofInv
<1>4. /\ call'.todo = Tail(call.todo) /\ call'.op = call.op /\ call'.ses = call.ses
      /\ call'.tok = call.tok /\ call'.shown = call.shown
  BY <1>1, <1>2 DEF Next1, Calls
<1>5. request'.adapter = request.adapter /\ RequestTyped(request')
  <2>1. CASE request' = Saved(call.ses, call.news)
    <3>1. /\ request'.adapter = request.adapter
          /\ request'.reads \in {request.reads, call.ses} /\ request'.out = call.ses
          /\ request'.fetcher = request.fetcher
      BY <1>2, <2>1 DEF Saved, ReadNext, Request
    <3> QED BY <1>3, <3>1 DEF RequestTyped, CallPresents
  <2>2. CASE request' = [request EXCEPT !.reads = ReadNext(call.ses)]
    <3>1. /\ request'.adapter = request.adapter
          /\ request'.reads \in {request.reads, call.ses} /\ request'.out = request.out
          /\ request'.fetcher = request.fetcher
      BY <1>2, <2>2 DEF ReadNext, Request
    <3> QED BY <1>3, <3>1 DEF RequestTyped, CallPresents
  <2> QED BY <1>1, <1>3, <2>1, <2>2
<1>6. HasToken(call') /\ PresentsLast(call'.todo)
  <2>1. Head(call.todo) # "present" /\ Head(call.todo) # "token"
    BY <1>1
  <2> QED BY <1>1, <1>2, <1>3, <1>4, <2>1, StepOn DEF CallPresents
<1>7. ShownFits(call)'
  <2>1. call.todo \in Seq({"save"}) => Tail(call.todo) \in Seq({"save"})
    BY <1>1, StepSequences
  <2>2. Typeless(call)' <=> Typeless(call)
    BY <1>4, <1>5 DEF Typeless
  <2> QED BY <1>3, <1>4, <2>1, <2>2 DEF CallPresents, ShownFits
<1>8. TokensTyped(call'.ses) /\ TokenTyped(call'.tok)
  BY <1>3, <1>4 DEF CallPresents
<1> QED BY <1>1, <1>5, <1>6, <1>7, <1>8, ProofParts DEF ProofInv, grantVars

\* Every action keeps what is known of the tokens.
LEMMA ProofNext == Inv /\ ProofInv /\ [Next]_vars => ProofInv'
<1> SUFFICES ASSUME Inv, ProofInv, [Next]_vars PROVE ProofInv'
  OBVIOUS
<1>1. CASE UNCHANGED vars
  <2>1. call # NoCall => ShownFits(call)'
    BY <1>1 DEF vars, ProofInv, CallPresents, ShownFits, Typeless
  <2> QED BY <1>1, <2>1, ProofParts DEF vars, grantVars, ProofInv, CallPresents
<1>2. CASE Next
  BY <1>2, NewRequestProof, BeginProof, CreateFetcherProof, EndCallProof, OverProof,
     AskServerProof, NoGrantProof, SettleProof, ServerAnswersProof, PresentProof,
     SaveProof, BetweenProof DEF Next
<1> QED BY <1>1, <1>2

-----------------------------------------------------------------------------
(* The refresh token of the sessions.                                      *)

\* The session that the browser is to hold.
Held == IF request # NoRequest /\ request.out # NoSession THEN request.out ELSE browser

\* The server has taken the refresh token of the grant in progress.
Spending == grant # NoGrant /\ grant.spent /\ grant.kind \in {"refresh", "revoke"}

IsCurrent(s) == s # NoSession => s.rt = current

\* What the next call reads, where it sees what those before it saved.
ReadsCurrent == request # NoRequest /\ ~ReadsAnew(request.adapter) => IsCurrent(request.reads)

\* Unless a call has a new one that is not saved, it is the one to be held.
HeldCurrent ==
    ~lost /\ ~Spending /\ (call # NoCall => call.news \cap Targets = {})
    => IsCurrent(Held) /\ ReadsCurrent

CallCurrent ==
    ~lost /\ ~Spending /\ call # NoCall /\ call.op # "fetch" => IsCurrent(call.ses)

ReadsHeld == request # NoRequest /\ ReadsAnew(request.adapter) => request.reads = browser

GrantOfCall ==
    grant # NoGrant => /\ call.ses # NoSession => grant.rt = call.ses.rt
                       /\ grant.tries = 0 => ~grant.spent

CurrentInv == HeldCurrent /\ CallCurrent /\ ReadsHeld /\ GrantOfCall

\* At first there is no session.
LEMMA CurrentInit == Init => CurrentInv
  BY DEF Init, GrantInit, CurrentInv, HeldCurrent, CallCurrent, ReadsHeld, GrantOfCall,
         Held, IsCurrent, ReadsCurrent

\* A new request is to be answered with the session it brings.
LEMMA NewRequestCurrent ==
  ASSUME Inv, CurrentInv, NEW adapter \in Adapters, NewRequest(adapter)
  PROVE  CurrentInv'
<1>1. /\ request = NoRequest /\ call = NoCall /\ grant = NoGrant
      /\ request'.reads = browser /\ request'.out = NoSession
      /\ UNCHANGED <<browser, call, lost, grant, current>>
  BY DEF NewRequest, Inv, TypeOK, grantVars
<1>2. Held = browser /\ Held' = browser
  BY <1>1 DEF Held
<1>3. HeldCurrent'
  BY <1>1, <1>2 DEF CurrentInv, HeldCurrent, IsCurrent, ReadsCurrent, Spending
<1>4. ReadsHeld'
  BY <1>1, <1>2 DEF ReadsHeld
<1>5. CallCurrent' /\ GrantOfCall'
  BY <1>1 DEF CallCurrent, GrantOfCall
<1> QED BY <1>3, <1>4, <1>5 DEF CurrentInv

\* A call begins with the session that is to be held; in the Pages Router and of
\* a plain Request with the browser's, whose refresh token may be older.
LEMMA BeginCurrent ==
  ASSUME Inv, CurrentInv, Begin
  PROVE  CurrentInv'
<1>1. /\ call = NoCall /\ grant = NoGrant /\ request # NoRequest /\ request \in Request
      /\ proxyHandles \in [Audiences -> MaybeNonce] /\ request.left > 0
      /\ call' \in CallsOf(request.adapter, request.reads)
      /\ request' = [request EXCEPT !.left = @ - 1]
      /\ lost' = (lost \/ ReadsOlder)
      /\ UNCHANGED <<browser, proxyHandles, grant, current>>
  BY DEF Begin, getSession, Inv, TypeOK, grantVars
<1>2. MadeFrom(call', request.reads)
  BY <1>1, CallsMade
<1>3. /\ request'.reads = request.reads /\ request'.out = request.out
      /\ request'.adapter = request.adapter /\ request' # NoRequest
  <2>1. request' \in Request
    BY <1>1, ServerCallsAssumption DEF Request
  <2> QED BY <1>1, <2>1, ServerCallsAssumption DEF Request
<1>4. Held' = Held
  BY <1>1, <1>3 DEF Held
<1>5. ~lost' => IsCurrent(Held) /\ ReadsCurrent
  BY <1>1 DEF CurrentInv, HeldCurrent, Spending
<1>6. ~lost' => IsCurrent(request.reads)
  <2> SUFFICES ASSUME ~lost', request.reads # NoSession PROVE request.reads.rt = current
    BY DEF IsCurrent
  <2>1. IsCurrent(Held) /\ ReadsCurrent /\ ~ReadsOlder
    BY <1>1, <1>5
  <2>2. CASE ~ReadsAnew(request.adapter)
    BY <1>1, <2>1, <2>2 DEF ReadsCurrent, IsCurrent
  <2>3. CASE ReadsAnew(request.adapter) /\ request.out = NoSession
    <3>1. request.reads = Held
      BY <1>1, <2>3 DEF CurrentInv, ReadsHeld, Held
    <3> QED BY <2>1, <3>1 DEF IsCurrent
  <2>4. CASE ReadsAnew(request.adapter) /\ request.out # NoSession
    <3>1. request.out.rt = request.reads.rt /\ Held = request.out
      BY <1>1, <2>1, <2>4 DEF ReadsOlder, Held
    <3> QED BY <2>1, <2>4, <3>1 DEF IsCurrent
  <2> QED BY <2>2, <2>3, <2>4
<1>7. ~lost' /\ call'.op # "fetch" => IsCurrent(call'.ses)
  <2>1. request.reads # NoSession => request.reads \in Session
    BY <1>1 DEF Request, MaybeSession
  <2>2. request.reads # NoSession => [request.reads EXCEPT !.data = TRUE].rt = request.reads.rt
    BY <2>1 DEF Session
  <2> QED BY <1>2, <1>6, <2>2 DEF MadeFrom, IsCurrent
<1>8. HeldCurrent' /\ CallCurrent' /\ ReadsHeld' /\ GrantOfCall'
  BY <1>1, <1>3, <1>4, <1>5, <1>7
     DEF HeldCurrent, ReadsCurrent, CallCurrent, ReadsHeld, GrantOfCall,
         IsCurrent, CurrentInv
<1> QED BY <1>8 DEF CurrentInv

\* A fetcher does not change what is to be held.
LEMMA CreateFetcherCurrent ==
  ASSUME Inv, CurrentInv, createFetcher
  PROVE  CurrentInv'
<1>1. PICK f \in fetcherFactory(request.reads) : request' = [request EXCEPT !.fetcher = f]
  BY DEF createFetcher, getSession
<1>2. /\ call = NoCall /\ grant = NoGrant /\ request # NoRequest /\ request \in Request
      /\ UNCHANGED <<browser, call, lost, grant, current>>
  BY DEF createFetcher, Inv, TypeOK, grantVars
<1>3. /\ request'.reads = request.reads /\ request'.out = request.out
      /\ request'.adapter = request.adapter
  BY <1>1, <1>2 DEF Request
<1>4. request' # NoRequest
  <2>1. f \in [ses : MaybeSession, handle : MaybeNonce, refreshed : BOOLEAN]
    BY <1>1, <1>2, FetcherMade
  <2>2. request' \in Request
    BY <1>1, <1>2, <2>1 DEF Request
  <2> QED BY <2>2, ServerCallsAssumption
<1>5. Held' = Held
  BY <1>2, <1>3, <1>4 DEF Held
<1> QED BY <1>2, <1>3, <1>5
     DEF HeldCurrent, ReadsCurrent, CallCurrent, ReadsHeld, GrantOfCall,
         IsCurrent, CurrentInv, Spending

\* A call that ends with a new refresh token had nowhere to save it.
LEMMA EndCallCurrent ==
  ASSUME Inv, CurrentInv, EndCall
  PROVE  CurrentInv'
<1>1. /\ call # NoCall /\ grant = NoGrant /\ request # NoRequest /\ request \in Request
      /\ call \in Calls /\ call' = NoCall
      /\ lost' = (lost \/ (call.news \cap Targets # {}))
      /\ \/ request' = request
         \/ request' = [request EXCEPT !.fetcher.handle = call.handle,
                                       !.fetcher.refreshed = @ \/ call.news # {}]
      /\ UNCHANGED <<browser, grant, current>>
  BY DEF EndCall, Inv, TypeOK, GrantFits, grantVars
<1>2. /\ request'.reads = request.reads /\ request'.out = request.out
      /\ request'.adapter = request.adapter /\ request' \in Request
  <2>1. call.handle \in MaybeNonce
    BY <1>1 DEF Calls
  <2> QED BY <1>1, <2>1, FetcherLeft
<1>3. request' # NoRequest
  BY <1>2, ServerCallsAssumption
<1>4. Held' = Held
  BY <1>1, <1>2, <1>3 DEF Held
<1> QED BY <1>1, <1>2, <1>4
     DEF HeldCurrent, ReadsCurrent, CallCurrent, ReadsHeld, GrantOfCall,
         IsCurrent, CurrentInv, Spending

\* The response brings what was to be held.
LEMMA RespondCurrent ==
  ASSUME Inv, CurrentInv, Respond
  PROVE  CurrentInv'
<1>1. /\ request # NoRequest /\ request \in Request /\ call = NoCall /\ grant = NoGrant
      /\ request' = NoRequest /\ UNCHANGED <<call, lost, grant, current>>
      /\ browser' = IF request.out # NoSession THEN [request.out EXCEPT !.data = FALSE]
                    ELSE browser
  BY DEF Respond, Inv, TypeOK, grantVars
<1>2. Held' = browser'
  BY <1>1 DEF Held
<1>3. IsCurrent(Held) => IsCurrent(browser')
  <2>1. CASE request.out = NoSession
    BY <1>1, <2>1 DEF Held
  <2>2. CASE request.out # NoSession
    <3>1. request.out \in Session
      BY <1>1, <2>2 DEF Request, MaybeSession
    <3>2. browser'.rt = request.out.rt
      BY <1>1, <2>2, <3>1 DEF Session
    <3> QED BY <1>1, <2>2, <3>2 DEF Held, IsCurrent
  <2> QED BY <2>1, <2>2
<1>4. ~lost => IsCurrent(Held)
  BY <1>1 DEF CurrentInv, HeldCurrent, Spending
<1> QED BY <1>1, <1>2, <1>3, <1>4
     DEF HeldCurrent, ReadsCurrent, CallCurrent, ReadsHeld, GrantOfCall,
         IsCurrent, CurrentInv

\* What fails leaves the browser the session it has.
LEMMA FailCurrent ==
  ASSUME Inv, CurrentInv, Fail
  PROVE  CurrentInv'
<1>1. /\ request' = NoRequest /\ call' = NoCall /\ grant' = NoGrant
      /\ lost' = (lost \/ (browser # NoSession /\ browser.rt # current))
      /\ UNCHANGED <<browser, current>>
  BY DEF Fail
<1>2. Held' = browser
  BY <1>1 DEF Held
<1> QED BY <1>1, <1>2
     DEF HeldCurrent, ReadsCurrent, CallCurrent, ReadsHeld, GrantOfCall,
         IsCurrent, CurrentInv

\* A grant is made with the refresh token of the call's session.
LEMMA AskServerCurrent ==
  ASSUME Inv, CurrentInv, AskServer
  PROVE  CurrentInv'
<1>1. /\ grant = NoGrant /\ UNCHANGED <<browser, request, call, lost, current>>
      /\ ~grant'.spent
      /\ grant'.rt = IF call.ses = NoSession THEN 0 ELSE call.ses.rt
  BY DEF AskServer, NewGrant
<1>2. Held' = Held /\ ~Spending'
  BY <1>1 DEF Held, Spending
<1>3. ~Spending
  BY <1>1 DEF Spending
<1> QED BY <1>1, <1>2, <1>3
     DEF HeldCurrent, ReadsCurrent, CallCurrent, ReadsHeld, GrantOfCall,
         IsCurrent, CurrentInv

\* When the server takes a refresh token, the grant is spent.
LEMMA ServerAnswersCurrent ==
  ASSUME Inv, CurrentInv, ServerAnswers
  PROVE  CurrentInv'
<1>1. /\ UNCHANGED <<browser, request, call, lost>> /\ grant # NoGrant /\ grant \in Grant
      /\ withDPoPNonceRetry
  BY DEF ServerAnswers, withDPoPNonceRetry, Inv, TypeOK, GrantTypeOK
<1>2. PICK r \in Answers(grant) :
        LET g == Answered(grant, r)
        IN  /\ grant' = IF Retried(g) THEN g ELSE [g EXCEPT !.outcome = Result(g)]
            /\ current' = IF r \in Accepted /\ g.kind \in {"refresh", "revoke"}
                            THEN current + 1 ELSE current
  BY <1>1 DEF withDPoPNonceRetry
<1> DEFINE g == Answered(grant, r)
<1>3. /\ g.kind = grant.kind /\ g.rt = grant.rt /\ g.tries = grant.tries + 1
      /\ g.spent = (grant.spent \/ r \in Accepted)
  BY <1>1 DEF Answered, Grant
<1>4. /\ grant'.kind = grant.kind /\ grant'.rt = grant.rt /\ grant'.tries # 0
      /\ grant'.spent = (grant.spent \/ r \in Accepted)
  <2>1. grant'.kind = g.kind /\ grant'.rt = g.rt /\ grant'.tries = g.tries
        /\ grant'.spent = g.spent
    BY <1>1, <1>2 DEF Answered, Grant
  <2>2. grant.tries \in Nat
    BY <1>1 DEF Grant
  <2> HIDE DEF g
  <2> QED BY <1>3, <2>1, <2>2
<1>7. grant' \in Grant
  <2>1. r \in Replies /\ nonce \in MaybeNonce /\ grant.tries \in 0..1
    BY <1>1 DEF Answers, Replies, Inv, TypeOK, GrantTypeOK, GrantGoesOn, Grant,
                withDPoPNonceRetry
  <2>2. g \in Grant /\ g.reply = r
    <3>1. grant.tries + 1 \in 0..2
      BY <2>1
    <3> HIDE DEF g
    <3>2. g = [grant EXCEPT !.reply = r, !.tries = @ + 1, !.spent = @ \/ r \in Accepted,
                 !.handle = IF r \in {"unreachable", "lost"} \/ nonce = NoNonce THEN @
                            ELSE nonce]
      BY DEF g, Answered
    <3> QED BY <1>1, <2>1, <3>1, <3>2 DEF Grant
  <2>3. grant' = g \/ grant' = [g EXCEPT !.outcome = Result(g)]
    BY <1>2
  <2> HIDE DEF g
  <2>4. Result(g) \in {"tokens", "refused", "mfa_required", "nonce", "failed"}
    BY <2>1, <2>2 DEF Result, Reported, Replies
  <2> QED BY <2>2, <2>3, <2>4 DEF Grant
<1>5. ~Spending' => ~Spending /\ current' = current
  <2>1. grant' # NoGrant
    BY <1>7, NoGrantAssumption
  <2> QED BY <1>1, <1>2, <1>3, <1>4, <2>1 DEF Spending
<1>6. Held' = Held
  BY <1>1 DEF Held
<1> QED BY <1>1, <1>4, <1>5, <1>6
     DEF HeldCurrent, ReadsCurrent, CallCurrent, ReadsHeld, GrantOfCall,
         IsCurrent, CurrentInv

\* The session of the call stays as it is, and so do requests.
LEMMA CallMovesCurrent ==
  ASSUME CurrentInv, UNCHANGED <<browser, request, lost, grant, current>>,
         grant = NoGrant, call # NoCall, call' \in Calls, call'.op = call.op,
         call'.ses = call.ses, call'.news = call.news
  PROVE  CurrentInv'
<1>1. Held' = Held
  BY DEF Held
<1>2. call' # NoCall
  BY ServerCallsAssumption
<1> QED BY <1>1, <1>2
     DEF HeldCurrent, ReadsCurrent, CallCurrent, ReadsHeld, GrantOfCall,
         IsCurrent, CurrentInv, Spending

\* Nothing is sent or needed.
LEMMA NoGrantCurrent ==
  ASSUME Inv, CurrentInv, NotSent \/ AtHand
  PROVE  CurrentInv'
<1>1. grant = NoGrant /\ UNCHANGED <<browser, request, lost, grant, current>>
  BY DEF NotSent, AtHand, grantVars
<1> QED BY <1>1, CallWithoutGrant, CallMovesCurrent

\* Presenting a token leaves sessions alone.
LEMMA PresentCurrent ==
  ASSUME Inv, CurrentInv, internalFetchWithAuth
  PROVE  CurrentInv'
<1>1. /\ call # NoCall /\ call.todo # <<>> /\ Head(call.todo) = "present"
      /\ UNCHANGED <<browser, request, lost, grant, current>>
  BY DEF internalFetchWithAuth, grantVars
<1>2. grant = NoGrant
  BY <1>1 DEF Inv, GrantFits, GrantSteps, GrantKinds, OnResponse, OnError, WithoutProof
<1> QED BY <1>1, <1>2, CallPresenting, CallMovesCurrent

\* A session that is saved is one to be held, with the refresh token it has.
LEMMA SaveCurrent ==
  ASSUME Inv, CurrentInv, Save
  PROVE  CurrentInv'
<1>1. /\ call # NoCall /\ call.todo # <<>> /\ Head(call.todo) \in {"save", "keep"}
      /\ UNCHANGED <<browser, lost, grant, current>>
      /\ \/ call' = Next1(call) /\ UNCHANGED request
         \/ /\ call.news # {} \/ Head(call.todo) = "keep"
            /\ call' = [Next1(call) EXCEPT !.news = {}]
            /\ request' = Saved(call.ses, call.news)
  BY DEF Save, grantVars
<1>2. grant = NoGrant
  BY <1>1 DEF Inv, GrantFits, GrantSteps, GrantKinds, OnResponse, OnError, WithoutProof
<1>3. /\ call \in Calls /\ CallFits(call) /\ Head(call.todo) \in StepsOf(call.op)
      /\ request \in Request /\ request # NoRequest
  BY <1>1, CallKnown
<1>4. CASE call' = Next1(call) /\ UNCHANGED request
  <2>1. /\ call' \in Calls /\ call'.op = call.op /\ call'.ses = call.ses
        /\ call'.news = call.news
    <3>1. Next1(call) \in Calls
      BY <1>1, CallKnown
    <3> QED BY <1>3, <1>4, <3>1 DEF Next1, Calls
  <2> QED BY <1>1, <1>2, <1>4, <2>1, CallMovesCurrent
<1>5. CASE /\ call.news # {} \/ Head(call.todo) = "keep"
           /\ call' = [Next1(call) EXCEPT !.news = {}]
           /\ request' = Saved(call.ses, call.news)
  <2>1. call.op # "fetch" /\ call.ses # NoSession
    BY <1>1, <1>3, <1>5 DEF StepsOf, SignInSteps, CallFits
  <2>2. call'.op = call.op /\ call'.ses = call.ses /\ call'.news = {}
    BY <1>3, <1>5 DEF Next1, Calls
  <2>3. request' = [request EXCEPT !.reads = ReadNext(call.ses),
                                   !.out = call.ses, !.saved = @ \cup call.news]
    BY <1>5 DEF Saved
  <2>4. /\ request'.adapter = request.adapter /\ request'.out = call.ses
        /\ request'.reads = ReadNext(call.ses)
        /\ request' # NoRequest
    <3>1. call.ses \in MaybeSession /\ call.news \in SUBSET News
      BY <1>3 DEF Calls
    <3>2. request' \in Request
      BY <1>3, <2>3, <3>1 DEF Request, ReadNext
    <3> QED BY <1>3, <2>3, <3>2, ServerCallsAssumption DEF Request
  <2>5. Held' = call.ses
    BY <2>1, <2>4 DEF Held
  <2>6. ~lost => IsCurrent(call.ses)
    BY <1>1, <1>2, <2>1 DEF CurrentInv, CallCurrent, Spending
  <2>7. ReadsHeld' /\ (~lost => ReadsCurrent')
    BY <1>1, <1>3, <2>4, <2>6 DEF CurrentInv, ReadsHeld, ReadsCurrent, ReadNext, IsCurrent
  <2> QED BY <1>1, <1>2, <2>2, <2>5, <2>6, <2>7
       DEF HeldCurrent, CallCurrent, GrantOfCall, IsCurrent, CurrentInv
<1> QED BY <1>1, <1>4, <1>5

\* An update saved in a copy changes no refresh token.
LEMMA SaveInCopyCurrent ==
  ASSUME Inv, CurrentInv, SaveInCopy
  PROVE  CurrentInv'
<1>1. /\ call # NoCall /\ call.todo # <<>> /\ Head(call.todo) = "copy"
      /\ call' = [Next1(call) EXCEPT !.news = {}]
      /\ request' = [request EXCEPT !.reads = ReadNext(call.ses)]
      /\ UNCHANGED <<browser, lost, grant, current>>
  BY DEF SaveInCopy, grantVars
<1>2. grant = NoGrant
  BY <1>1 DEF Inv, GrantFits, GrantSteps, GrantKinds, OnResponse, OnError, WithoutProof
<1>3. /\ call \in Calls /\ CallFits(call) /\ Head(call.todo) \in StepsOf(call.op)
      /\ request \in Request /\ request # NoRequest /\ call.ses \in MaybeSession
  BY <1>1, CallKnown DEF Calls
<1>4. /\ call.op = "update" /\ call.ses # NoSession /\ call.news \cap Targets = {}
      /\ call'.op = call.op /\ call'.ses = call.ses /\ call'.news = {}
  <2>1. call.op = "update"
    BY <1>1, <1>3 DEF StepsOf, SignInSteps
  <2>2. "data" \notin Targets
    BY ServerCallsAssumption DEF Targets
  <2> QED BY <1>1, <1>3, <2>1, <2>2 DEF CallFits, Calls, Next1
<1>5. /\ request' \in Request /\ request'.adapter = request.adapter
      /\ request'.out = request.out /\ request'.reads = ReadNext(call.ses)
  BY <1>1, <1>3 DEF Request, ReadNext
<1>6. Held' = Held /\ (IsCurrent(Held))' = IsCurrent(Held)
  BY <1>1, <1>3, <1>5, ServerCallsAssumption DEF Held, IsCurrent
<1>7. ~lost => IsCurrent(call.ses)
  BY <1>1, <1>2, <1>4 DEF CurrentInv, CallCurrent, Spending
<1>8. ReadsHeld' /\ (~lost => ReadsCurrent')
  BY <1>1, <1>3, <1>5, <1>7 DEF CurrentInv, ReadsHeld, ReadsCurrent, ReadNext, IsCurrent
<1>9. ~lost => IsCurrent(Held)
  BY <1>1, <1>2, <1>4 DEF CurrentInv, HeldCurrent, Spending
<1> QED BY <1>1, <1>2, <1>4, <1>6, <1>7, <1>8, <1>9
     DEF HeldCurrent, CallCurrent, GrantOfCall, IsCurrent, CurrentInv

\* With its tokens a call gets the refresh token that replaced its own; an
\* answer that is lost takes it along.
LEMMA SettleCurrent ==
  ASSUME Inv, CurrentInv, Settle
  PROVE  CurrentInv'
<1>1. /\ Granting /\ grant # NoGrant /\ call # NoCall /\ call.todo # <<>>
      /\ grant' = NoGrant /\ lost' = (lost \/ AnswerLost)
      /\ UNCHANGED <<browser, request, current>>
      /\ call' = CASE grant.outcome = "tokens" -> Granted(call, grant)
                   [] grant.outcome = "mfa_required" /\ KeepsOnMfa(call.op) ->
                        [call EXCEPT !.todo = <<"keep">>]
                   [] OTHER -> Failed(call)
  BY DEF Settle, Granting
<1>2. /\ call \in Calls /\ CallFits(call) /\ call.target \in Targets
      /\ grant \in Grant /\ grant.kind = KindOf(Head(call.todo))
  BY <1>1, CallKnown DEF Inv, TypeOK, GrantTypeOK, GrantFits, Calls
<1>3. /\ Held' = Held /\ ~Spending' /\ (IsCurrent(Held))' = IsCurrent(Held)
      /\ ReadsCurrent' = ReadsCurrent
  BY <1>1 DEF Held, Spending, IsCurrent, ReadsCurrent
<1>4. ~lost' /\ Spending => grant.kind = "refresh" /\ grant.outcome = "tokens"
  BY <1>1 DEF AnswerLost, Spending
<1>7. call' # NoCall
  <2>1. Granted(call, grant) \in Calls
    BY <1>1, GrantedFits
  <2>2. Failed(call) \in Calls
    BY <1>2, StepDone
  <2>3. [call EXCEPT !.todo = <<"keep">>] \in Calls
    <3>1. <<"keep">> \in Seq(Steps)
      <4>1. "keep" \in Steps
        BY DEF Steps
      <4> QED BY <4>1
    <3> QED BY <1>2, <3>1 DEF Calls
  <2> QED BY <1>1, <2>1, <2>2, <2>3, ServerCallsAssumption
<1>5. CASE grant.outcome # "tokens"
  <2>1. call'.op = call.op /\ call'.ses = call.ses /\ call'.news = call.news
    BY <1>1, <1>2, <1>5 DEF Failed, Calls
  <2> QED BY <1>1, <1>3, <1>4, <1>5, <1>7, <2>1
       DEF HeldCurrent, ReadsCurrent, CallCurrent, ReadsHeld, GrantOfCall,
         IsCurrent, CurrentInv
<1>6. CASE grant.outcome = "tokens"
  <2>1. call' = Granted(call, grant)
    BY <1>1, <1>6
  <2>2. /\ call'.op = call.op
        /\ grant.kind = "refresh" =>
             /\ call.ses \in Session /\ call'.news = {call.target}
             /\ call'.ses = IF call.op = "fetch" THEN call.ses
                            ELSE Refreshed(call.ses, call.target, grant)
        /\ grant.kind = "connection" =>
             /\ call.op = "connection" /\ call.ses \in Session
             /\ call'.ses = [call.ses EXCEPT !.conn = TRUE]
        /\ grant.kind \in SignInSteps =>
             call'.ses = NewSession(grant) /\ call'.news = {"login"}
        /\ grant.kind \notin {"refresh", "connection"} \cup SignInSteps =>
             call'.ses = call.ses /\ call'.news = call.news
    BY <1>1, <2>1, GrantedParts
  <2>3. ReadsHeld' /\ GrantOfCall'
    BY <1>1, <1>3 DEF CurrentInv, ReadsHeld, GrantOfCall
  <2>4. CASE grant.kind = "refresh"
    <3>1. call'.news \cap Targets # {}
      BY <1>2, <2>2, <2>4
    <3>2. call.op # "fetch" => call'.ses.rt = current
      BY <2>2, <2>4 DEF Refreshed, Session
    <3>3. HeldCurrent' /\ CallCurrent'
      BY <1>1, <1>3, <1>7, <2>2, <3>1, <3>2 DEF HeldCurrent, CallCurrent, IsCurrent
    <3> QED BY <2>3, <3>3 DEF CurrentInv
  <2>5. CASE grant.kind = "connection"
    <3>1. call'.ses.rt = call.ses.rt
      BY <2>2, <2>5 DEF Session
    <3>2. ~Spending /\ call.ses # NoSession
      BY <2>2, <2>5, ServerCallsAssumption DEF Spending
    <3>3. call.news \cap Targets = {}
      BY <1>2, <2>2, <2>5, ServerCallsAssumption DEF CallFits, Targets
    <3> QED BY <1>1, <1>3, <2>2, <2>3, <3>1, <3>2, <3>3
         DEF HeldCurrent, CallCurrent, IsCurrent, CurrentInv
  <2>6. CASE grant.kind \in SignInSteps
    <3>1. call'.news \cap Targets # {}
      BY <2>2, <2>6 DEF Targets
    <3>2. call'.ses.rt = current
      BY <2>2, <2>6 DEF NewSession
    <3>3. HeldCurrent' /\ CallCurrent'
      BY <1>1, <1>3, <1>7, <2>2, <3>1, <3>2 DEF HeldCurrent, CallCurrent, IsCurrent
    <3> QED BY <2>3, <3>3 DEF CurrentInv
  <2>7. CASE grant.kind \notin {"refresh", "connection"} \cup SignInSteps
    <3>1. call'.op = call.op /\ call'.ses = call.ses /\ call'.news = call.news
      BY <2>2, <2>7
    <3>2. ~lost' => ~Spending /\ ~lost
      BY <1>1, <1>4, <2>7
    <3> QED BY <1>1, <1>3, <1>7, <2>3, <3>1, <3>2
         DEF HeldCurrent, CallCurrent, IsCurrent, CurrentInv
  <2> QED BY <2>4, <2>5, <2>6, <2>7
<1> QED BY <1>5, <1>6

\* Between requests nothing is granted.
LEMMA BetweenCurrent ==
  ASSUME Inv, CurrentInv, Expire \/ Logout \/ NewNonce
  PROVE  CurrentInv'
<1>1. UNCHANGED <<request, call, current, grant>>
  BY DEF Expire, Logout, NewNonce, NextNonce, grantVars
<1>2. CASE NewNonce
  <2>1. UNCHANGED <<browser, lost>>
    BY <1>2 DEF NewNonce
  <2> QED BY <1>1, <2>1
       DEF HeldCurrent, ReadsCurrent, CallCurrent, ReadsHeld, GrantOfCall,
         IsCurrent, CurrentInv, Held,
           Spending
<1>3. CASE Expire \/ Logout
  <2>1. request = NoRequest /\ browser # NoSession /\ browser \in Session
    BY <1>3 DEF Expire, Logout, Inv, TypeOK, MaybeSession
  <2>2. call = NoCall /\ grant = NoGrant
    BY <2>1 DEF Inv, TypeOK
  <2>3. Held = browser /\ Held' = browser'
    BY <1>1, <2>1 DEF Held
  <2>4. ~lost' => IsCurrent(browser')
    <3>1. CASE Logout
      BY <3>1 DEF Logout, IsCurrent
    <3>2. CASE Expire
      <4>1. lost' = lost
        BY <3>2 DEF Expire
      <4>2. browser'.rt = browser.rt
        BY <2>1, <3>2 DEF Expire, Session
      <4> QED BY <2>1, <2>2, <2>3, <4>1, <4>2 DEF CurrentInv, HeldCurrent, IsCurrent, Spending
    <3> QED BY <1>3, <3>1, <3>2
  <2> QED BY <1>1, <2>1, <2>2, <2>3, <2>4
       DEF HeldCurrent, ReadsCurrent, CallCurrent, ReadsHeld, GrantOfCall,
         IsCurrent, CurrentInv
<1> QED BY <1>2, <1>3

\* Every action keeps what is known of the refresh tokens.
LEMMA CurrentNext == Inv /\ CurrentInv /\ [Next]_vars => CurrentInv'
<1> SUFFICES ASSUME Inv, CurrentInv, [Next]_vars PROVE CurrentInv'
  OBVIOUS
<1>1. CASE UNCHANGED vars
  BY <1>1
     DEF vars, grantVars, HeldCurrent, ReadsCurrent, CallCurrent, ReadsHeld, GrantOfCall,
         IsCurrent,
         CurrentInv, Held, Spending
<1>2. CASE Next
  BY <1>2, NewRequestCurrent, BeginCurrent, CreateFetcherCurrent, EndCallCurrent,
     RespondCurrent, FailCurrent, AskServerCurrent, NoGrantCurrent, SettleCurrent,
     ServerAnswersCurrent, PresentCurrent, SaveCurrent, SaveInCopyCurrent,
     BetweenCurrent DEF Next
<1> QED BY <1>1, <1>2

-----------------------------------------------------------------------------
(* Whatever is called, from wherever in Next.js, and whatever the server   *)
(* answers, the state is one of those that are meant.                      *)
THEOREM TypeCorrect == Spec => []TypeOK
<1>1. Inv => TypeOK
  BY DEF Inv
<1> QED BY <1>1, InitInv, InvNext, PTL DEF Spec

(* A request that was accepted is not sent again by withDPoPNonceRetry():  *)
(* a retry follows an answer that demands a nonce, and no other.           *)
THEOREM NotResent == Spec => []AcceptedNotResent
<1>1. Inv => AcceptedNotResent
  BY DEF Inv, GrantGoesOn, AcceptedNotResent
<1> QED BY <1>1, InitInv, InvNext, PTL DEF Spec

(* What a call of a request saved is in what the calls after it save, for  *)
(* any number of calls, unless each call reads the cookies the request     *)
(* came with (the Pages Router, a plain Request); an update given a plain  *)
(* Response is set on a copy and counts as no save.                        *)
THEOREM SavesKept == Spec => []NoSaveLost
<1>1. Inv => NoSaveLost
  BY DEF Inv, Kept, SavedIsRead, NoSaveLost
<1> QED BY <1>1, InitInv, InvNext, PTL DEF Spec

(* Of the tokens a call presents, those that are bound to the key come     *)
(* with a proof and those that are not without, for any session, fetcher   *)
(* or proxy, and when the call is repeated with a nonce.                   *)
THEOREM ProofsFitTokens == Spec => []ProofFitsToken
<1>1. ProofInv => ProofFitsToken
  BY DEF ProofInv, CallPresents, ShownFits, ProofFitsToken
<1> QED BY <1>1, InitInv, InvNext, ProofInit, ProofNext, PTL DEF Spec

(* Calls and requests one after another, with answers and responses lost   *)
(* or not: whoever uses a refresh token for the first time has the one     *)
(* that the server takes, unless the latest was lost or it is a fetcher.   *)
THEOREM RefreshTokensCurrent == Spec => []RefreshTokenCurrent
<1>1. Inv /\ CurrentInv => RefreshTokenCurrent
  <2> SUFFICES ASSUME Inv, CurrentInv, grant # NoGrant, grant.tries = 0, ~lost,
                      call.op # "fetch", grant.kind \in {"refresh", "connection", "revoke"}
               PROVE  grant.rt = current
    BY DEF RefreshTokenCurrent
  <2>1. /\ call # NoCall /\ call.todo # <<>>
        /\ Head(call.todo) \in GrantSteps /\ grant.kind = KindOf(Head(call.todo))
    BY DEF Inv, TypeOK, GrantFits
  <2>2. CallFits(call) /\ Head(call.todo) \in StepsOf(call.op)
    BY <2>1, CallKnown
  <2>3. Head(call.todo) \in {"token", "actor", "connection", "revoke", "refresh"}
    BY <2>1 DEF KindOf
  <2>4. call.ses # NoSession
    BY <2>2, <2>3 DEF CallFits, StepsOf, SignInSteps
  <2>5. ~Spending /\ grant.rt = call.ses.rt
    BY <2>1, <2>4 DEF CurrentInv, GrantOfCall, Spending
  <2> QED BY <2>1, <2>4, <2>5 DEF CurrentInv, CallCurrent, IsCurrent
<1> QED BY <1>1, InitInv, InvNext, CurrentInit, CurrentNext, PTL DEF Spec
=============================================================================
