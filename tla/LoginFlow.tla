----------------------------- MODULE LoginFlow -----------------------------
(***************************************************************************)
(* Logins of one browser through several issuers (resolver mode; static    *)
(* mode is the case of one issuer).  A login leaves a transaction cookie,  *)
(* sends the user to the issuer, and ends when a callback finds that       *)
(* cookie again.  Tabs log in, call back, log out and use the session side *)
(* by side; the hosts of the application share the browser's cookies.      *)
(* Sessions are stateless: a request works with the cookies it came with,  *)
(* and all that it changes is in its response.                             *)
(*                                                                         *)
(* Bound: the number of States, each the `state` of one login.             *)
(***************************************************************************)
EXTENDS FiniteSets, Naturals

CONSTANTS
    Requests,           \* slots for requests in progress together
    States, NoState,
    Issuers, NoIssuer,
    Domains, NoDomain,
    DomainOf,           \* an issuer's domain; issuers may share one
    Modes               \* the kinds of login this instance makes

ASSUME LoginFlowAssumption ==
    /\ NoState \notin States /\ NoIssuer \notin Issuers /\ NoDomain \notin Domains
    /\ DomainOf \in [Issuers -> Domains]
    /\ Modes \subseteq {"redirect", "popup", "connect"}

VARIABLES
    parallel,   \* enableParallelTransactions
    jar,        \* the states whose transaction cookie the browser holds
    session,    \* the browser's session
    txn,        \* per state, what its transaction says
    answer,     \* per state, what its issuer did
    req,        \* the requests in progress
    pending,    \* the logins on their way that nobody ended (history)
    answered,   \* the states a callback was answered for (history)
    exchanges   \* the codes exchanged, by what and where (history)

vars == <<parallel, jar, session, txn, answer, req, pending, answered, exchanges>>

NoTxn     == [issuer |-> NoIssuer, mode |-> "redirect"]
NoSession == [iss |-> NoIssuer, tag |-> NoDomain, by |-> "none"]

\* `write` is whether the response sets or clears the session cookie, to
\* `session`; `read` the session a callback came with, `used` the session the domain check let through.
Idle == [kind |-> "touch", pc |-> "idle", client |-> NoIssuer, state |-> NoState,
         at |-> NoState, clear |-> {}, write |-> FALSE,
         read |-> NoSession, session |-> NoSession, used |-> NoSession]

Init ==
    /\ parallel \in BOOLEAN
    /\ jar = {}
    /\ session = NoSession
    /\ txn = [s \in States |-> NoTxn]
    /\ answer = [s \in States |-> "none"]
    /\ req = [r \in Requests |-> Idle]
    /\ pending = {} /\ answered = {} /\ exchanges = {}

-----------------------------------------------------------------------------
(* The transaction store: a cookie for each state, or a single one.        *)

Named(s) == IF parallel THEN jar \cap {s} ELSE jar

\* Mutant: the names of the cookies differ in either mode.
StoredByState(s) == jar \cup {s}

Stored(s) == IF parallel THEN jar \cup {s} ELSE {s}

\* Mutant: the cookies are deleted by prefix.
WithoutAll(S) == IF S = {} THEN jar ELSE {}

\* The browser's transactions less the cookies that held those in S.
Without(S) ==
    IF parallel THEN jar \ S ELSE IF S = {} THEN jar ELSE {}

(* getSessionWithDomainCheck: a session of another domain is an error; one *)
(* without a domain gets that of its ID token.                             *)
Mismatch(c, s) == s.tag # NoDomain /\ s.tag # DomainOf[c]

\* Mutant: the domains are not compared.
CheckedAlways(c, s) == s

Checked(c, s) ==
    IF s = NoSession \/ Mismatch(c, s) THEN NoSession
    ELSE IF s.tag = NoDomain THEN [s EXCEPT !.tag = DomainOf[s.iss]]
    ELSE s

-----------------------------------------------------------------------------
Begin(r, q) ==
    /\ req[r].pc = "idle"
    /\ req' = [req EXCEPT ![r] = q]

Request(k, c, pc) == [Idle EXCEPT !.kind = k, !.client = c, !.pc = pc]

\* handleLogin: the mode its query asks for, none if it is not valid.
Queries == {"none", "redirect", "popup", "other"}

handleLogin(query) ==
    {IF query = "none" THEN "redirect" ELSE query} \ {"other"}

\* A login begins with transaction t, of a state that was never used.
StartLogin(r, c, s, t) ==
    /\ answer[s] = "none"
    /\ \A q \in Requests : req[q].state # s
    /\ Begin(r, [Request("login", c, "respond") EXCEPT !.state = s])
    /\ txn' = [txn EXCEPT ![s] = t]
    /\ UNCHANGED <<parallel, jar, session, answer, pending, answered, exchanges>>

(* Also the magic link of passwordlessStart.                               *)
startInteractiveLogin(r, c, s) ==
    \E query \in Queries : \E mode \in Modes \cap handleLogin(query) :
        StartLogin(r, c, s, [issuer |-> c, mode |-> mode])

(* An account is connected for the user of the session; no origin is kept. *)
connectAccount(r, c, s) ==
    /\ "connect" \in Modes
    /\ Checked(c, session) # NoSession
    /\ StartLogin(r, c, s, [issuer |-> NoIssuer, mode |-> "connect"])

(* Metadata, the pushed request or the ticket cannot be had: the answer is *)
(* an error and no transaction is kept.                                    *)
authorizationUrlFails(r) ==
    /\ req[r].kind = "login"
    /\ req' = [req EXCEPT ![r] = Idle]
    /\ UNCHANGED <<parallel, jar, session, txn, answer, pending, answered, exchanges>>

(* The issuer answers, with a code or with an error.                       *)
Authorize(s) ==
    /\ answer[s] = "waiting"
    /\ \E a \in {"code", "error"} : answer' = [answer EXCEPT ![s] = a]
    /\ UNCHANGED <<parallel, jar, session, txn, req, pending, answered, exchanges>>

\* Mutant: the callback is handled where it arrives.
HandledWhereItArrives(c, t) == c

\* Callback domain delegation: the client that handles transaction t.
Delegated(c, t) == IF txn[t].issuer = NoIssuer THEN c ELSE txn[t].issuer

\* Mutant: the cookie of the transaction is left behind.
FailureKeepingCookie(q) == [q EXCEPT !.pc = "respond", !.read = NoSession]

\* handleCallbackError: the transaction's cookie is deleted.
Failure(q) ==
    [q EXCEPT !.pc = "respond", !.clear = {q.state}, !.read = NoSession]

\* validateAuthResponse: the state is the transaction's, and there is no error.
Valid(s, t) == s = t /\ answer[s] # "error"

(* handleCallback up to the exchange of the code.  Without a transaction   *)
(* the response changes nothing; one for another state (there is a single  *)
(* cookie) or an error in the query fails and takes the cookie with it.    *)
Callback(r, c, s) ==
    /\ answer[s] \in {"code", "spent", "error"}
    /\ \/ /\ Named(s) = {}
          /\ Begin(r, [Request("callback", c, "respond") EXCEPT !.state = s])
       \/ \E t \in Named(s) :
            LET q == [Request("callback", Delegated(c, t), "exchange")
                        EXCEPT !.state = s, !.at = t, !.read = session]
            IN  Begin(r, IF txn[t].mode = "connect" \/ Valid(s, t) THEN q
                         ELSE Failure(q))
    /\ UNCHANGED <<parallel, jar, session, txn, answer, pending, answered, exchanges>>

Exchanging(r, modes) == req[r].pc = "exchange" /\ txn[req[r].at].mode \in modes

\* The issuer accepts the code once.
Accepts(q) == answer[q.state] = "code" /\ txn[q.state].issuer = q.client

\* The code is sent to the issuer of the client, which becomes part of the
\* history; if it is accepted it is spent.
Exchange(r, accepted) ==
    /\ answer' = IF accepted THEN [answer EXCEPT ![req[r].state] = "spent"] ELSE answer
    /\ exchanges' = exchanges \cup
         {[code |-> req[r].state, txn |-> req[r].at, client |-> req[r].client]}
    /\ UNCHANGED <<parallel, jar, session, txn, pending, answered>>

\* beforeSessionSaved may return a session without `internal`, where the domain
\* is recorded; finalizeSession keeps that of the session it was given.
Hooked(s) == {s, [s EXCEPT !.tag = NoDomain]}

finalizeSession(s, hooked) == [hooked EXCEPT !.tag = s.tag]

\* The responses of q that set the session cookie to s, as the hook left it, and
\* delete the transaction's.
Saving(q, s) ==
    {[Failure(q) EXCEPT !.write = TRUE, !.session = finalizeSession(s, h)] : h \in Hooked(s)}

(* The code of a redirect login is exchanged for a session.                *)
ExchangeRedirect(r) ==
    LET q == req[r]
    IN  /\ Exchanging(r, {"redirect"})
        /\ Accepts(q)
        /\ \E q2 \in Saving(q, [iss |-> q.client, tag |-> DomainOf[q.client], by |-> "login"]) :
             req' = [req EXCEPT ![r] = q2]
        /\ Exchange(r, TRUE)

(* That of a popup is merged into the session there is, and only without   *)
(* one makes a session, if an ID token came with it.                       *)
ExchangePopup(r, idToken) ==
    LET q       == req[r]
        checked == Checked(q.client, q.read)
        merged  == IF idToken THEN [checked EXCEPT !.iss = q.client] ELSE checked
        made    == [iss |-> q.client, tag |-> NoDomain, by |-> "popup"]
    IN  /\ Exchanging(r, {"popup"})
        /\ Accepts(q)
        /\ \E q2 \in IF checked # NoSession THEN Saving(q, merged)
                      ELSE IF q.read = NoSession /\ idToken THEN Saving(q, made)
                      ELSE {Failure(q)} :
             req' = [req EXCEPT ![r] = [q2 EXCEPT !.used = checked]]
        /\ Exchange(r, TRUE)

(* The exchange fails: the code was spent or refused, the issuer could not *)
(* be reached, the ID token is another issuer's, the ceiling has passed.   *)
ExchangeFails(r) ==
    /\ Exchanging(r, {"redirect", "popup"})
    /\ req' = [req EXCEPT ![r] = Failure(req[r])]
    /\ \E accepted \in {FALSE, Accepts(req[r])} : Exchange(r, accepted)

(* The callback of connectAccount works with the session and changes       *)
(* nothing but the transaction's cookie.                                   *)
CompleteConnect(r) ==
    /\ Exchanging(r, {"connect"})
    /\ req' = [req EXCEPT ![r] =
                 [Failure(req[r]) EXCEPT !.used = Checked(req[r].client, req[r].read)]]
    /\ UNCHANGED <<parallel, jar, session, txn, answer, pending, answered, exchanges>>

(* A login without a transaction: passwordless, passkey, and MFA first     *)
(* factor.                                                                 *)
DirectLogin(r, c) ==
    /\ Begin(r, [Request("direct", c, "respond") EXCEPT !.write = TRUE,
                   !.session = [iss |-> c, tag |-> DomainOf[c], by |-> "login"]])
    /\ UNCHANGED <<parallel, jar, session, txn, answer, pending, answered, exchanges>>

(* The session is used and rolled; it gets its domain if it had none.      *)
Touch(r, c) ==
    LET checked == Checked(c, session)
    IN  /\ session # NoSession
        /\ Begin(r, [Request("touch", c, "respond") EXCEPT
                       !.write = checked # NoSession,
                       !.session = checked, !.used = checked])
        /\ UNCHANGED <<parallel, jar, session, txn, answer, pending, answered, exchanges>>

(* A protected page or API, or the profile: shown with the session the     *)
(* check lets through; without one it is refused, or leads to a login.     *)
Visit(r, c) ==
    /\ Begin(r, [Request("touch", c, "respond") EXCEPT !.used = Checked(c, session)])
    /\ UNCHANGED <<parallel, jar, session, txn, answer, pending, answered, exchanges>>

(* handleLogout: the session of another domain stays; the transactions the *)
(* request came with all go.                                               *)
Logout(r, c) ==
    /\ Begin(r, [Request("logout", c, "respond") EXCEPT
                   !.clear = jar, !.write = ~Mismatch(c, session),
                   !.used = Checked(c, session)])
    /\ pending' = {}
    /\ UNCHANGED <<parallel, jar, session, txn, answer, answered, exchanges>>

(* The browser applies the response, and goes to the issuer to log in.     *)
Respond(r) ==
    LET q == req[r]
    IN  /\ q.pc = "respond"
        /\ jar' = IF q.kind = "login" THEN Stored(q.state) ELSE Without(q.clear)
        /\ session' = IF q.write THEN q.session ELSE session
        /\ answer' = IF q.kind = "login" THEN [answer EXCEPT ![q.state] = "waiting"]
                     ELSE answer
        /\ pending' = IF q.kind = "login" THEN pending \cup {q.state}
                      ELSE pending \ {q.state}
        /\ answered' = IF q.kind = "callback" THEN answered \cup {q.state} ELSE answered
        /\ req' = [req EXCEPT ![r] = Idle]
        /\ UNCHANGED <<parallel, txn, exchanges>>

(* The process stops, or the response is lost.                             *)
Fail(r) ==
    /\ req[r].pc # "idle"
    /\ req' = [req EXCEPT ![r] = Idle]
    /\ UNCHANGED <<parallel, jar, session, txn, answer, pending, answered, exchanges>>

(* A transaction cookie lapses.                                            *)
Lapse(s) ==
    /\ s \in jar
    /\ jar' = jar \ {s}
    /\ pending' = pending \ {s}
    /\ UNCHANGED <<parallel, session, txn, answer, req, answered, exchanges>>

Next ==
    \/ \E r \in Requests :
         \/ \E c \in Issuers :
              \/ \E s \in States : \/ startInteractiveLogin(r, c, s)
                                   \/ connectAccount(r, c, s)
                                   \/ Callback(r, c, s)
              \/ DirectLogin(r, c) \/ Touch(r, c) \/ Visit(r, c) \/ Logout(r, c)
         \/ authorizationUrlFails(r)
         \/ ExchangeRedirect(r) \/ ExchangeFails(r) \/ CompleteConnect(r)
         \/ \E idToken \in BOOLEAN : ExchangePopup(r, idToken)
         \/ Respond(r) \/ Fail(r)
    \/ \E s \in States : Authorize(s) \/ Lapse(s)

Spec == Init /\ [][Next]_vars

-----------------------------------------------------------------------------
Sessions == {NoSession} \cup [iss : Issuers, tag : Domains \cup {NoDomain},
                              by : {"login", "popup"}]

TypeOK ==
    /\ parallel \in BOOLEAN
    /\ jar \subseteq States /\ (~parallel => Cardinality(jar) <= 1)
    /\ session \in Sessions
    /\ txn \in [States -> [issuer : Issuers \cup {NoIssuer}, mode : Modes \cup {"redirect"}]]
    /\ answer \in [States -> {"none", "waiting", "code", "spent", "error"}]
    /\ \A r \in Requests :
         /\ req[r].pc \in {"idle", "exchange", "respond"}
         /\ req[r].session \in Sessions /\ req[r].used \in Sessions

(* With parallel transactions a login on its way keeps its cookie, however *)
(* many other logins start, end, fail or are repeated beside it, until it  *)
(* lapses or a logout is requested ("allows multiple concurrent logins",   *)
(* EXAMPLES.md:4053); the response of a logout that began before the login *)
(* does not take it either.                                                *)
LoginNotDisturbed == parallel => pending \subseteq jar

(* A code is exchanged with the verifier and nonce of its own login and at *)
(* its own issuer, wherever the callback arrives and whatever cookie it    *)
(* finds (auth-client.ts:1170-1188).                                       *)
CodeMeetsItsTransaction ==
    \A e \in exchanges : e.txn = e.code /\ e.client = txn[e.code].issuer

(* A callback that was answered, also by an error, leaves no transaction   *)
(* cookie behind ("to prevent accumulation", auth-client.ts:2806).         *)
AnsweredIsForgotten == answered \cap jar = {}

UsedByItsDomain(s, c) == DomainOf[s.iss] = DomainOf[c]

(* The session of a login is never used by a request for another domain,   *)
(* after any number of rolls and popups, in any order of responses (the    *)
(* domain check, auth-client.ts:3235).                                     *)
LoginStaysWithDomain ==
    \A r \in Requests : req[r].used.by = "login"
        => UsedByItsDomain(req[r].used, req[r].client)

(* So is every session ("This prevents a session created via               *)
(* auth.brand1.com from being used when the request resolves to            *)
(* auth.brand2.com", EXAMPLES.md:5877).                                    *)
SessionStaysWithDomain ==
    \A r \in Requests : req[r].used # NoSession
        => UsedByItsDomain(req[r].used, req[r].client)
=============================================================================
